------------------------- MODULE InterfaceDiscovery -------------------------
(***************************************************************************)
(* The discoveries that select one interface on a single pass and stop at  *)
(* the next one like it: FtdiInterface (src/ftdi.rs), UsbtmcInterface      *)
(* (src/usbtmc.rs) and AudioInputInterface (src/audio.rs). Unlike those of *)
(* CDC-ACM and HID they give up at any malformed interface descriptor they *)
(* meet, the audio one excepted, which skips it.                           *)
(*                                                                         *)
(* A class descriptor of an audio interface has sub "general" (pcm) or     *)
(* "format" (mono16at48k: mono, 16 bit, and 48 kHz among its rates).       *)
(***************************************************************************)
EXTENDS Descriptors

InvalidInterface == "InvalidInterfaceDescriptor"
InvalidEndpoint  == "InvalidEndpointDescriptor"

(***************************************************************************)
(* FTDI                                                                    *)
(***************************************************************************)
FtdiProducts == {"ft232", "ft2232", "ft4232h", "ft232h", "ft230x"}

(* The generation by bcdDevice; an FT232AM is an 0x0200 with a serial      *)
(* number.                                                                 *)
Detect(version, serial) ==
    CASE version = "0200" -> IF serial THEN "ft232am" ELSE "ft232bm"
      [] version = "0500" -> "ft2232c"
      [] version = "0600" -> "ft232r"
      [] version = "0700" -> "ft2232h"
      [] version = "0800" -> "ft4232h"
      [] version = "0900" -> "ft232h"
      [] version = "1000" -> "ft230x"
      [] OTHER            -> "ft232bm"

ParseBulkEndpoint(d) == ParseEndpoint(d) /\ d.kind = "bulk" /\ d.plain /\ BulkSize(d.size)

StartFtdi(requested) ==
    [out |-> "none", requested |-> requested, current |-> {}, selected |-> {}, seen |-> 0,
     in |-> {}, bulkOut |-> {}]

FtdiWanted(walk, d) ==
    d.alt = 0 /\ d.class = "vendor" /\ \A n \in walk.requested : n = d.number

FtdiInterfaceStep(walk, d) ==
    IF ~WellFormed(d) THEN Fail(walk, InvalidInterface)
    ELSE IF ~FtdiWanted(walk, d) THEN [walk EXCEPT !.current = {d}]
    ELSE IF walk.selected # {} THEN Fail(walk, "stopped")
    ELSE [walk EXCEPT !.current = {d}, !.selected = {d}, !.seen = 0, !.in = {}, !.bulkOut = {}]

FtdiEndpointStep(walk, d) ==
    IF ~ParseBulkEndpoint(d) THEN Fail(walk, InvalidEndpoint)
    ELSE PutOnce([walk EXCEPT !.seen = @ + 1], IF d.in THEN "in" ELSE "bulkOut", d,
                 InvalidEndpoint)

FtdiStep(walk, d) ==
    LET within == \E c \in walk.current, s \in walk.selected : c.number = s.number /\ c.alt = 0
    IN  CASE d.type = "interface" -> FtdiInterfaceStep(walk, d)
          [] d.type = "endpoint" /\ within -> FtdiEndpointStep(walk, d)
          [] OTHER -> walk

FtdiResult(device, end) ==
    LET found == Only(end.selected)
        out == IF ~device.ftdi                           THEN "NotFtdiDevice"
               ELSE IF device.product \notin FtdiProducts THEN "UnsupportedProduct"
               ELSE IF end.out \notin {"none", "stopped"} THEN end.out
               ELSE IF end.selected = {}                 THEN "MissingInterface"
               ELSE IF found.endpoints # 2 \/ end.seen # 2 THEN InvalidEndpoint
               ELSE IF end.bulkOut = {}                  THEN "MissingBulkOutEndpoint"
               ELSE IF end.in = {}                       THEN "MissingBulkInEndpoint"
               ELSE "ok"
    IN  [out |-> out, interface |-> end.selected, bulkIn |-> end.in, bulkOut |-> end.bulkOut]

(* requested is the number asked for, or {} for the first interface.       *)
DiscoverFtdi(device, conf, requested) ==
    Only({FtdiResult(device, end) : end \in {Walk(FtdiStep, StartFtdi(requested), conf)}})

(***************************************************************************)
(* USBTMC                                                                  *)
(***************************************************************************)
StartTmc ==
    [out |-> "none", within |-> FALSE, selected |-> {}, in |-> {}, bulkOut |-> {},
     interruptIn |-> {}]

TmcInterfaceStep(walk, d) ==
    LET tmc == d.alt = 0 /\ d.class = "tmc"
    IN  IF ~WellFormed(d) THEN Fail(walk, InvalidInterface)
        ELSE IF ~tmc THEN [walk EXCEPT !.within = FALSE]
        ELSE IF walk.selected # {} THEN Fail(walk, "stopped")
        ELSE [walk EXCEPT !.within = TRUE, !.selected = {d}, !.in = {}, !.bulkOut = {},
                          !.interruptIn = {}]

TmcEndpointStep(walk, d) ==
    IF ~ParseEndpoint(d) THEN Fail(walk, InvalidEndpoint)
    ELSE IF d.kind = "bulk" /\ BulkSize(d.size)
    THEN PutOnce(walk, IF d.in THEN "in" ELSE "bulkOut", d, InvalidEndpoint)
    ELSE IF d.kind = "interrupt" /\ d.in /\ d.size \in 2..1024 /\ d.interval # 0
    THEN PutOnce(walk, "interruptIn", d, InvalidEndpoint)
    ELSE Fail(walk, InvalidEndpoint)

TmcStep(walk, d) ==
    CASE d.type = "interface" -> TmcInterfaceStep(walk, d)
      [] d.type = "endpoint" /\ walk.within -> TmcEndpointStep(walk, d)
      [] OTHER -> walk

(* bNumEndpoints is not compared with what was found.                      *)
TmcResult(end) ==
    LET out == IF end.out \notin {"none", "stopped"} THEN end.out
               ELSE IF end.selected = {} THEN "MissingInterface"
               ELSE IF end.bulkOut = {}  THEN "MissingBulkOutEndpoint"
               ELSE IF end.in = {}       THEN "MissingBulkInEndpoint"
               ELSE "ok"
    IN  [out |-> out, interface |-> end.selected, bulkIn |-> end.in, bulkOut |-> end.bulkOut,
         interruptIn |-> end.interruptIn]

DiscoverTmc(conf) == Only({TmcResult(end) : end \in {Walk(TmcStep, StartTmc, conf)}})

(***************************************************************************)
(* Audio capture: the first complete stream ends the walk                  *)
(***************************************************************************)
StartAudio ==
    [out |-> "none", interface |-> {}, candidate |-> FALSE, pcm |-> FALSE, format |-> FALSE,
     endpoint |-> {}]

CapturePacketCapacity == 100

CaptureEndpoint(d) ==
    /\ d.len = 9 /\ d.in /\ d.clean /\ d.number # 0
    /\ d.kind = "isochronous" /\ d.size \in 1..CapturePacketCapacity /\ d.interval = 1

AudioStep(walk, d) ==
    CASE d.type = "interface" /\ WellFormed(d) ->
           [walk EXCEPT !.interface = {d}, !.pcm = FALSE, !.format = FALSE,
                        !.candidate = d.alt # 0 /\ d.endpoints = 1 /\ d.class = "audio"]
      [] d.type = "class" /\ walk.candidate /\ d.sub = "general" /\ d.len >= 7 ->
           [walk EXCEPT !.pcm = d.pcm]
      [] d.type = "class" /\ walk.candidate /\ walk.pcm /\ d.sub = "format" /\ d.len >= 11 ->
           [walk EXCEPT !.format = d.mono16at48k]
      [] d.type = "endpoint" /\ walk.candidate /\ walk.pcm /\ walk.format /\ CaptureEndpoint(d) ->
           [walk EXCEPT !.endpoint = {d}, !.out = "ok"]
      [] OTHER -> walk

DiscoverAudio(conf) ==
    LET end == Walk(AudioStep, StartAudio, conf)
    IN  [out |-> IF end.out = "none" THEN "MissingCaptureInterface" ELSE end.out,
         interface |-> end.interface, endpoint |-> end.endpoint]

(***************************************************************************)
(* What a result must be, told by the layout alone: the endpoints belong   *)
(* to the interface that is returned, it is the first of its class, and it *)
(* is found whenever it is sound.                                          *)
(***************************************************************************)
BelongsTo(list, j, interface) ==
    \E i \in 1..(j - 1) : list[i] = interface /\ \A k \in (i + 1)..j : ~Interface(list[k])

FirstOf(list, interface, class) ==
    \E i \in DOMAIN list :
        /\ list[i] = interface
        /\ \A k \in 1..(i - 1) : ~(Interface(list[k]) /\ list[k].alt = 0 /\ list[k].class = class)

OwnsBulkPair(conf, r, class) ==
    LET list == Frames(conf).list
    IN  \A interface \in r.interface :
           /\ FirstOf(list, interface, class)
           /\ \E i, j \in DOMAIN list :
                 /\ BelongsTo(list, i, interface) /\ BelongsTo(list, j, interface)
                 /\ r.bulkIn = {list[i]} /\ list[i].in
                 /\ r.bulkOut = {list[j]} /\ ~list[j].in
                 /\ \A k \in {i, j} : list[k].kind = "bulk" /\ BulkSize(list[k].size)

(* The places of a class's interfaces; the first is the function, and the  *)
(* walk ends at the second.                                                *)
PlacesOf(list, class) ==
    {i \in DOMAIN list : /\ Interface(list[i]) /\ WellFormed(list[i])
                         /\ list[i].alt = 0 /\ list[i].class = class}

(* The places the walk passes: all of them if there is no second.          *)
Passed(list, class) ==
    {k \in DOMAIN list : Cardinality({i \in PlacesOf(list, class) : i <= k}) < 2}

(* The first function can be found: nothing the walk passes is malformed,  *)
(* and it reaches its end.                                                 *)
WalkIsSound(conf, class) ==
    LET frames == Frames(conf)
        passed == Passed(frames.list, class)
    IN  /\ IterError(conf) = "none"
        /\ PlacesOf(frames.list, class) # {}
        /\ \A k \in passed : Interface(frames.list[k]) => WellFormed(frames.list[k])
        /\ passed = DOMAIN frames.list => frames.error = "none"

(* The endpoints of the interface at place i                               *)
EndpointsAt(list, i) ==
    {k \in DOMAIN list : /\ i < k /\ list[k].type = "endpoint"
                         /\ \A n \in (i + 1)..k : ~Interface(list[n])}

BulkPair(list, endpoints) ==
    \A in \in BOOLEAN :
        Cardinality({k \in endpoints : list[k].kind = "bulk" /\ list[k].in = in}) = 1

(* The first vendor interface is a function if it has the two endpoints it *)
(* declares and they are a pair.                                           *)
IsFirstFtdi(conf, r) ==
    LET list == Frames(conf).list
        first == Min(PlacesOf(list, "vendor"))
        own == EndpointsAt(list, first)
    IN  IF /\ WalkIsSound(conf, "vendor")
           /\ list[first].endpoints = 2 /\ Cardinality(own) = 2
           /\ \A k \in own : ParseBulkEndpoint(list[k])
           /\ BulkPair(list, own)
        THEN r.out = "ok" /\ OwnsBulkPair(conf, r, "vendor")
        ELSE r.out # "ok"

(* The first USBTMC interface is a function if its endpoints are a pair    *)
(* and at most one for interrupts.                                         *)
IsFirstTmc(conf, r) ==
    LET list == Frames(conf).list
        own == EndpointsAt(list, Min(PlacesOf(list, "tmc")))
        interrupts == {k \in own : list[k].kind # "bulk"}
    IN  IF /\ WalkIsSound(conf, "tmc")
           /\ \A k \in own : ParseEndpoint(list[k])
           /\ \A k \in own \ interrupts : BulkSize(list[k].size)
           /\ \A k \in interrupts : /\ list[k].kind = "interrupt" /\ list[k].in
                                    /\ list[k].size \in 2..1024 /\ list[k].interval # 0
           /\ BulkPair(list, own) /\ Cardinality(interrupts) <= 1
        THEN r.out = "ok" /\ OwnsBulkPair(conf, r, "tmc")
        ELSE r.out # "ok"

(* A stream is the endpoint after the formats of its own alternate         *)
(* setting; the last format before the endpoint counts.                    *)
IsCapture(list, j) ==
    LET own == {i \in 1..(j - 1) : Interface(list[i]) /\ WellFormed(list[i])}
        i == Max(own)
        classes == {k \in (i + 1)..(j - 1) : list[k].type = "class"}
        general == {k \in classes : list[k].sub = "general" /\ list[k].len >= 7}
        enabled(k) == {g \in general : g < k} # {} /\ list[Max({g \in general : g < k})].pcm
        format == {k \in classes : list[k].sub = "format" /\ list[k].len >= 11 /\ enabled(k)}
    IN  /\ list[j].type = "endpoint" /\ CaptureEndpoint(list[j])
        /\ own # {}
        /\ list[i].class = "audio" /\ list[i].alt # 0 /\ list[i].endpoints = 1
        /\ enabled(j)
        /\ format # {} /\ list[Max(format)].mono16at48k

IsFirstCapture(conf, r) ==
    LET list == Frames(conf).list
        streams == {j \in DOMAIN list : IsCapture(list, j)}
    IN  IF IterError(conf) # "none" \/ streams = {} THEN r.out # "ok"
        ELSE r.out = "ok" /\ r.endpoint = {list[Min(streams)]}
=============================================================================
