-------------------------- MODULE CdcAcmDiscovery --------------------------
(***************************************************************************)
(* CdcAcmFunction::discover (src/usb.rs): finds the communications         *)
(* interface, its functional descriptors and its data interface in a       *)
(* configuration that may hold other functions.                            *)
(*                                                                         *)
(* A class descriptor of this class has a sub and                          *)
(*   call  : handles (bit 0), data (bit 1), clean (no other bit),          *)
(*           interface (bDataInterface);                                   *)
(*   acm   : clean (no reserved capability);                               *)
(*   union : control (bControlInterface) and subs (bSubordinateInterface). *)
(***************************************************************************)
EXTENDS Descriptors

BadFunctional == "InvalidFunctionalDescriptor"
BadEndpoint   == "InvalidEndpointDescriptor"
BadUnion      == "InvalidUnionDescriptor"

(***************************************************************************)
(* The walk for the data interface                                         *)
(***************************************************************************)
StartData(n) ==
    [out |-> "none", want |-> n, current |-> {}, selected |-> {}, seen |-> 0,
     in |-> {}, bulkOut |-> {}]

DataEndpoint(walk, d) ==
    IF ~(ParseEndpoint(d) /\ SupportedBulk(d)) THEN Fail(walk, BadEndpoint)
    ELSE PutOnce([walk EXCEPT !.seen = @ + 1], IF d.in THEN "in" ELSE "bulkOut", d, BadEndpoint)

DataStep(walk, d) ==
    CASE d.type = "interface" -> EnterInterface(walk, d)
      [] d.type = "endpoint" /\ InWanted(walk, "any") -> DataEndpoint(walk, d)
      [] OTHER -> walk

(* "absent" stands for Ok(None).                                           *)
DataResult(end, n) ==
    LET found == Only(end.selected)
        out == IF end.out # "none"                THEN end.out
               ELSE IF end.selected = {}          THEN "absent"
               ELSE IF found.class = "data-other" THEN "InvalidInterfaceDescriptor"
               ELSE IF found.class # "data"       THEN "absent"
               ELSE IF found.endpoints # end.seen THEN BadEndpoint
               ELSE IF end.bulkOut = {}           THEN "MissingBulkOutEndpoint"
               ELSE IF end.in = {}                THEN "MissingBulkInEndpoint"
               ELSE IF found.endpoints # 2        THEN BadEndpoint
               ELSE "ok"
    IN  [out |-> out, number |-> n, bulkIn |-> end.in, bulkOut |-> end.bulkOut]

DiscoverData(conf, n) ==
    Only({DataResult(end, n) : end \in {Walk(DataStep, StartData(n), conf)}})

(* What is wrong with a subordinate interface: interface_exists stops at    *)
(* the first descriptor that names it.                                     *)
InterfaceError(conf, n) ==
    LET frames == Frames(conf)
        places == Places(frames.list, n)
    IN  IF places # {}
        THEN IF WellFormed(frames.list[Min(places)]) THEN "none" ELSE "InvalidInterfaceDescriptor"
        ELSE IF frames.error # "none" THEN frames.error ELSE BadUnion

(***************************************************************************)
(* The walk for the communications interface                               *)
(***************************************************************************)
StartControl(n) ==
    [out |-> "none", want |-> n, current |-> {}, selected |-> {}, seen |-> 0,
     functional |-> FALSE, notification |-> {}, header |-> {}, call |-> {},
     acm |-> {}, union |-> {}]

(* The lengths and reserved bits of the functional descriptors.            *)
SoundFunctional(d) ==
    CASE d.sub = "header" -> d.len = 5
      [] d.sub = "call"   -> d.len = 5 /\ d.clean /\ (d.data => d.handles)
      [] d.sub = "acm"    -> d.len = 4 /\ d.clean
      [] d.sub = "union"  -> d.len >= 5
      [] OTHER            -> d.len >= 3

Functional(walk, d) ==
    LET seen == [walk EXCEPT !.functional = TRUE]
    IN  IF \/ ~SoundFunctional(d)
           \/ ~walk.functional /\ d.sub # "header"
        THEN Fail(walk, BadFunctional)
        ELSE IF d.sub \in {"header", "call", "acm", "union"}
             THEN PutOnce(seen, d.sub, d, BadFunctional) ELSE seen

NotificationEndpoint(walk, d) ==
    IF ~(ParseEndpoint(d) /\ SupportedInterruptIn(d)) THEN Fail(walk, BadEndpoint)
    ELSE PutOnce([walk EXCEPT !.seen = @ + 1], "notification", d, BadEndpoint)

(* Mutated form: the functional descriptors of every interface are read.   *)
ControlStepOfAny(walk, d) ==
    CASE d.type = "interface" -> EnterInterface(walk, d)
      [] d.type = "class" /\ walk.selected # {} -> Functional(walk, d)
      [] d.type = "endpoint" /\ InWanted(walk, "acm") -> NotificationEndpoint(walk, d)
      [] OTHER -> walk

ControlStep(walk, d) ==
    CASE d.type = "interface" -> EnterInterface(walk, d)
      [] d.type = "class" /\ InWanted(walk, "acm") -> Functional(walk, d)
      [] d.type = "endpoint" /\ InWanted(walk, "acm") -> NotificationEndpoint(walk, d)
      [] OTHER -> walk

(* What follows the walk: the control interface, then the union, whose     *)
(* subordinates are checked in order and up to the first error.            *)
ControlError(end, n) ==
    LET control == Only(end.selected)
        union == Only(end.union)
    IN  IF end.out # "none"            THEN end.out
        ELSE IF end.selected = {}      THEN "MissingControlInterface"
        ELSE IF control.class # "acm"  THEN "MissingControlInterface"
        ELSE IF control.endpoints > 1 \/ control.endpoints # end.seen THEN BadEndpoint
        ELSE IF end.header = {}        THEN "MissingCdcHeader"
        ELSE IF end.acm = {}           THEN "MissingAcmDescriptor"
        ELSE IF end.union = {}         THEN "MissingUnionDescriptor"
        ELSE IF union.control # n      THEN BadUnion
        ELSE "none"

UnionError(conf, subs, n) ==
    LET Repeats(k) == subs[k] = n \/ \E j \in 1..(k - 1) : subs[j] = subs[k]
        Check(k) == IF Repeats(k) THEN BadUnion ELSE InterfaceError(conf, subs[k])
        wrong == {k \in DOMAIN subs : Check(k) # "none"}
    IN  IF wrong = {} THEN "none" ELSE Check(Min(wrong))

(* The data interface: the one call management names, or the only one      *)
(* among the subordinates.                                                 *)
PickData(picked, data) ==
    IF picked.out \notin {"MissingDataInterface", "ok"} \/ data.out = "absent" THEN picked
    ELSE IF data.out = "ok" /\ picked.out = "ok" THEN [out |-> "AmbiguousDataInterface"]
    ELSE data

SelectData(conf, subs, call) ==
    LET managed == {c.interface : c \in {d \in call : d.handles /\ d.data}}
        asked == IF managed # {} THEN <<Only(managed)>> ELSE subs
        Next(picked, m) == Only({PickData(picked, data) : data \in {DiscoverData(conf, m)}})
        after[k \in 0..Len(asked)] ==
            IF k = 0 THEN [out |-> "MissingDataInterface"] ELSE Next(after[k - 1], asked[k])
    IN  IF managed \subseteq ToSet(subs) THEN after[Len(asked)] ELSE [out |-> BadUnion]

CandidateResult(n, end, data) ==
    LET shared == \E e \in end.notification, b \in data.bulkIn : Address(e) = Address(b)
    IN  IF data.out # "ok" THEN [out |-> data.out]
        ELSE IF shared     THEN [out |-> BadEndpoint]
        ELSE [out |-> "ok", number |-> n, data |-> data.number, bulkIn |-> data.bulkIn,
              bulkOut |-> data.bulkOut, notification |-> end.notification]

AfterControl(conf, n, end) ==
    LET subs == Only(end.union).subs
    IN  IF ControlError(end, n) # "none"           THEN [out |-> ControlError(end, n)]
        ELSE IF UnionError(conf, subs, n) # "none" THEN [out |-> UnionError(conf, subs, n)]
        ELSE Only({CandidateResult(n, end, data) : data \in {SelectData(conf, subs, end.call)}})

DiscoverCandidate(conf, n) ==
    Only({AfterControl(conf, n, end) : end \in {Walk(ControlStep, StartControl(n), conf)}})

(* The iterator over the functions: each candidate's result, and the error *)
(* of the framing if the configuration ends in one.                        *)
AcmFunctions(conf) ==
    Results(Frames(conf), "acm", LAMBDA n : DiscoverCandidate(conf, n))

(* A function chosen by its control interface: the other functions do not  *)
(* matter.                                                                 *)
DiscoverNumbered(conf, n) ==
    IF IterError(conf) # "none" THEN [out |-> IterError(conf)] ELSE DiscoverCandidate(conf, n)

Discover(conf) ==
    IF IterError(conf) # "none" THEN [out |-> IterError(conf)]
    ELSE FirstSound(AcmFunctions(conf), "MissingControlInterface")

(***************************************************************************)
(* The same function, told by the layout alone                             *)
(***************************************************************************)
EndpointsOf(list, n) == Members(list, PlaceOf(list, n), "endpoint")

BulkOnly(list, n) ==
    /\ Unique(list, n)
    /\ \A j \in EndpointsOf(list, n) : ParseEndpoint(list[j]) /\ SupportedBulk(list[j])
    /\ \A j, k \in EndpointsOf(list, n) : list[j].in = list[k].in => j = k

IsData(list, n) ==
    LET i == PlaceOf(list, n)
    IN  /\ BulkOnly(list, n)
        /\ list[i].class = "data" /\ list[i].endpoints = 2
        /\ Cardinality(EndpointsOf(list, n)) = 2

(* The data interface of the union u, if there is exactly one choice.      *)
DataOf(list, u, calls) ==
    LET managed == {c.interface : c \in {d \in calls : d.handles /\ d.data}}
        data == {m \in ToSet(u.subs) : IsData(list, m)}
        strange(m) == list[PlaceOf(list, m)].class \in {"data", "data-other"} /\ m \notin data
    IN  IF managed # {} THEN managed \cap data
        ELSE IF \A m \in ToSet(u.subs) : BulkOnly(list, m) /\ ~strange(m) THEN data ELSE {}

AcmData(list, n) ==
    LET i == PlaceOf(list, n)
        own == Members(list, i, "class")
        of(sub) == {list[j] : j \in {k \in own : list[k].sub = sub}}
        once(sub) == Cardinality({k \in own : list[k].sub = sub}) = 1
        endpoints == {list[j] : j \in EndpointsOf(list, n)}
        subs == (CHOOSE u \in of("union") : TRUE).subs
        exists(m) == Places(list, m) # {} /\ WellFormed(list[Min(Places(list, m))])
    IN  IF /\ Unique(list, n)
           /\ list[i].class = "acm"
           /\ \A j \in own : SoundFunctional(list[j])
           /\ own # {} /\ list[Min(own)].sub = "header"
           /\ once("header") /\ once("acm") /\ once("union")
           /\ of("call") # {} => once("call")
           /\ Cardinality(EndpointsOf(list, n)) = list[i].endpoints
           /\ list[i].endpoints <= 1
           /\ \A e \in endpoints : ParseEndpoint(e) /\ SupportedInterruptIn(e)
           /\ \A u \in of("union") : u.control = n
           /\ \A k \in DOMAIN subs : subs[k] # n /\ exists(subs[k])
           /\ IsInjective(subs)
        THEN {m \in DataOf(list, CHOOSE u \in of("union") : TRUE, of("call")) :
                  /\ Cardinality(DataOf(list, CHOOSE u \in of("union") : TRUE, of("call"))) = 1
                  /\ \A e \in endpoints, j \in EndpointsOf(list, m) :
                         list[j].in => Address(e) # Address(list[j])}
        ELSE {}

(* Whether r is what discovery should return for function n of conf.       *)
IsAcm(conf, n, r) ==
    LET list == Frames(conf).list
    IN  IF Framed(conf) /\ AcmData(list, n) # {}
        THEN /\ r.out = "ok" /\ r.number = n
             /\ r.data \in AcmData(list, n)
             /\ r.bulkIn \cup r.bulkOut = {list[j] : j \in EndpointsOf(list, r.data)}
        ELSE r.out # "ok"

(* Whether r is what discovery should return for conf: the first function  *)
(* whose parts belong together, with the endpoints of its own data         *)
(* interface, or an error if there is none.                                *)
IsFirstAcm(conf, r) ==
    LET list == Frames(conf).list
        sound == {n \in {d.number : d \in {e \in ToSet(list) : CandidateIn(e, "acm")}} :
                      AcmData(list, n) # {}}
    IN  IF ~Framed(conf) \/ sound = {} THEN r.out # "ok"
        ELSE /\ r.out = "ok"
             /\ IsAcm(conf, r.number, r)
             /\ \A n \in sound : PlaceOf(list, r.number) <= PlaceOf(list, n)
=============================================================================
