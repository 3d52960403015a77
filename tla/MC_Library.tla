----------------------------- MODULE MC_Library -----------------------------
(***************************************************************************)
(* The library's pure functions over generated inputs: configurations that *)
(* differ from a sound one by a few edits, packets, and strings of bytes.  *)
(***************************************************************************)
EXTENDS Allocation, LineCode, ClassRequests, K8055

CONSTANTS
    MaxEdits,       \* bound: edits of a configuration
    MaxBytes,       \* bound: bytes of a string
    SampleBytes,    \* the bytes strings are made of
    SampleRates,    \* the baud rates asked for
    SampleTimes     \* the debounce times asked for, in microseconds

(* Both go into the driver as unsigned integers.                           *)
ASSUME LibraryAssumption == SampleRates \subseteq Nat /\ SampleTimes \subseteq Nat

VARIABLE input

(***************************************************************************)
(* Descriptors                                                             *)
(***************************************************************************)
Iface(n, alt, eps, class) ==
    [type |-> "interface", len |-> 9, number |-> n, alt |-> alt, endpoints |-> eps, class |-> class]
Endpoint(n, in, kind, size, interval) ==
    [type |-> "endpoint", len |-> 7, number |-> n, in |-> in, kind |-> kind, size |-> size,
     interval |-> interval, plain |-> TRUE, clean |-> TRUE]
Class(sub, len) == [type |-> "class", sub |-> sub, len |-> len]
Call(n) == [type |-> "class", sub |-> "call", len |-> 5, handles |-> TRUE, data |-> TRUE,
            clean |-> TRUE, interface |-> n]
Acm == [type |-> "class", sub |-> "acm", len |-> 4, clean |-> TRUE]
Union(n, subs) == [type |-> "class", sub |-> "union", len |-> 4 + Len(subs), control |-> n,
                   subs |-> subs]
Hid(reports) == [type |-> "hid", len |-> 6 + 3 * Len(reports), short |-> FALSE,
                 reports |-> reports]
General(pcm) == [type |-> "class", sub |-> "general", len |-> 7, pcm |-> pcm]
Format(good) == [type |-> "class", sub |-> "format", len |-> 11, mono16at48k |-> good]
Unknown(len) == [type |-> "unknown", len |-> len]

BulkIn(size)  == Endpoint(1, TRUE, "bulk", size, 0)
BulkOut(size) == Endpoint(2, FALSE, "bulk", size, 0)
Notify        == Endpoint(3, TRUE, "interrupt", 8, 16)

AcmList == <<Iface(0, 0, 1, "acm"), Class("header", 5), Acm, Union(0, <<1>>), Notify,
             Iface(1, 0, 2, "data"), BulkIn(64), BulkOut(64)>>
HidList == <<Iface(2, 0, 1, "hid"), Hid(<<63>>), Endpoint(4, TRUE, "interrupt", 8, 10)>>
FtdiList == <<Iface(3, 0, 2, "vendor"), BulkIn(32), BulkOut(32)>>
TmcList == <<Iface(4, 0, 3, "tmc"), BulkOut(64), BulkIn(16), Notify>>
AudioList == <<Iface(5, 0, 0, "audio"), Iface(5, 1, 1, "audio"), General(TRUE), Format(TRUE),
               [Endpoint(5, TRUE, "isochronous", 96, 1) EXCEPT !.len = 9]>>

(* Sound configurations, and what the edits put into each.                 *)
AcmBase ==
    [list |-> AcmList,
     spare |-> {Iface(0, 0, 1, "acm"), Iface(1, 1, 2, "data"), Iface(2, 0, 1, "hid"),
                [Iface(0, 0, 1, "acm") EXCEPT !.len = 8], [Iface(1, 0, 2, "data") EXCEPT !.len = 3],
                Class("header", 5), Call(1), Union(0, <<1, 2>>), BulkIn(512), BulkOut(8), Unknown(1)}]
HidAcmBase ==
    [list |-> HidList \o AcmList, spare |-> {Iface(2, 1, 1, "hid"), Acm, Notify, Unknown(2)}]
CallBase ==
    [list |-> <<Iface(1, 0, 0, "acm"), Class("header", 5), Acm, Call(6), Union(1, <<6, 7>>),
                Iface(6, 0, 2, "data"), BulkOut(16), BulkIn(16),
                Iface(7, 0, 2, "data"), Endpoint(6, TRUE, "bulk", 8, 0), BulkOut(8)>>,
     spare |-> {Call(7), Iface(7, 0, 2, "data"), Iface(7, 0, 2, "data-other"), Notify}]
HidBase ==
    [list |-> HidList \o <<Iface(6, 0, 2, "hid"), Hid(<<9>>), Endpoint(6, FALSE, "interrupt", 512, 1),
                           Endpoint(7, TRUE, "interrupt", 64, 4)>>,
     spare |-> {Iface(2, 1, 1, "hid"), Iface(2, 0, 2, "hid"), Hid(<<>>), Hid(<<4, 0>>),
                [Iface(6, 0, 1, "hid") EXCEPT !.len = 7], Endpoint(4, FALSE, "interrupt", 8, 10),
                Endpoint(6, TRUE, "interrupt", 128, 1), BulkIn(64), Unknown(1)}]
VendorBase ==
    [list |-> HidList \o FtdiList \o TmcList,
     spare |-> {Iface(3, 1, 2, "vendor"), Iface(6, 0, 2, "vendor"), Iface(4, 1, 2, "tmc"),
                Iface(3, 0, 3, "vendor"), Iface(7, 0, 2, "tmc"),
                [Iface(3, 0, 2, "vendor") EXCEPT !.len = 8], BulkIn(512), Notify,
                [BulkOut(8) EXCEPT !.plain = FALSE], [BulkOut(8) EXCEPT !.clean = FALSE]}]
AudioBase ==
    [list |-> AudioList,
     spare |-> {Iface(5, 2, 1, "audio"), [Iface(5, 3, 1, "audio") EXCEPT !.len = 8],
                General(FALSE), General(TRUE), Format(FALSE), Iface(6, 1, 1, "hid"),
                [Endpoint(5, TRUE, "isochronous", 192, 1) EXCEPT !.len = 9],
                [Endpoint(6, TRUE, "isochronous", 96, 1) EXCEPT !.len = 9]}]

Bases == {AcmBase, HidAcmBase, CallBase, HidBase, VendorBase, AudioBase}

SoundHeader == [len |-> 9, type |-> "configuration", value |-> 1, attributes |-> TRUE]

OfSize(list) ==
    LET conf == [header |-> SoundHeader, total |-> 0, list |-> list]
    IN  [conf EXCEPT !.total = Available(conf)]

FtdiDevice == [ftdi |-> TRUE, product |-> "ft232"]

(* What the discoveries make of a configuration.                           *)
Found(conf) ==
    [acm |-> Discover(conf), ftdi |-> DiscoverFtdi(FtdiDevice, conf, {}),
     tmc |-> DiscoverTmc(conf), hid |-> DiscoverHid(conf), audio |-> DiscoverAudio(conf)]

Start(base) ==
    [of |-> "configuration", conf |-> OfSize(base.list), found |-> Found(OfSize(base.list)),
     spare |-> base.spare, edits |-> 0]

(***************************************************************************)
(* Inputs                                                                  *)
(***************************************************************************)
Packets ==
    {Handshake(pid) : pid \in Handshakes}
    \cup {Token(pid, TokenValue(address, endpoint)) :
             pid \in Tokens \ {"sof"}, address \in {0, 1, 85, 127}, endpoint \in {0, 1, 15}}
    \cup {Token("sof", SofValue(frame)) : frame \in {0, 1, 1023, 2047, 2048}}
    \cup {Data(pid, payload) : pid \in DataPids,
                               payload \in {<<>>, BitsOf(0, 8), BitsOf(255, 8), BitsOf(49665, 16)}}

LibraryInit ==
    input \in {Start(base) : base \in Bases}
              \cup {[of |-> "packet", bits |-> bits] : bits \in Packets}
              \cup {[of |-> "bytes", bits |-> <<>>]}
              \cup [of : {"calls"}, driver : {"cdc", "hid", "ftdi", "tmc", "audio"}]
              \cup [of : {"debounce"}, us : SampleTimes]
              \cup [of : {"inputs"}, raw : 0..255] \cup {[of |-> "boards"]}
              \cup [of : {"rate"}, chip : Chips, baud : SampleRates, interface : {0, 3}]

Editable == input.of = "configuration" /\ input.edits < MaxEdits

Edits(confs) ==
    \E conf \in confs :
        input' = [input EXCEPT !.conf = conf, !.found = Found(conf), !.edits = @ + 1]

Insert ==
    /\ Editable
    /\ Edits({OfSize(InsertAt(input.conf.list, k, d)) :
                 d \in input.spare, k \in 1..(Len(input.conf.list) + 1)})

Drop ==
    /\ Editable
    /\ Edits({OfSize(RemoveAt(input.conf.list, k)) : k \in DOMAIN input.conf.list})

Exchange ==
    /\ Editable
    /\ Edits({OfSize([input.conf.list EXCEPT ![k] = input.conf.list[k + 1],
                                           ![k + 1] = input.conf.list[k]]) :
                 k \in 1..(Len(input.conf.list) - 1)})

(* A wTotalLength that is not the sum of the lengths, or another damaged   *)
(* field of the header.                                                    *)
Misstate ==
    /\ Editable
    /\ LET totals == {8} \cup (Available(input.conf) - 8)..(Available(input.conf) + 1)
       IN  Edits({[input.conf EXCEPT !.total = total] : total \in totals}
                 \cup {[input.conf EXCEPT !.header.len = 8],
                       [input.conf EXCEPT !.header.type = "device"],
                       [input.conf EXCEPT !.header.value = 0],
                       [input.conf EXCEPT !.header.attributes = FALSE]})

AppendByte ==
    /\ input.of = "bytes" /\ Len(input.bits) < 8 * MaxBytes
    /\ \E byte \in SampleBytes : input' = [input EXCEPT !.bits = @ \o BitsOf(byte, 8)]

LibraryNext == Insert \/ Drop \/ Exchange \/ Misstate \/ AppendByte

LibrarySpec == LibraryInit /\ [][LibraryNext]_input

(***************************************************************************)
(* Discovery                                                               *)
(***************************************************************************)
(* CdcAcmFunction::discover returns the first function that is complete    *)
(* and consistent, with the endpoints of its own data interface, however   *)
(* the descriptors of other functions, alternate settings and damaged      *)
(* interfaces stand between its parts; and an error if there is none. A    *)
(* function asked for by its number is found whatever the others look like.*)
AcmIsFound ==
    input.of = "configuration" =>
        /\ IsFirstAcm(input.conf, input.found.acm)
        /\ \A n \in {0, 1} : IsAcm(input.conf, n, DiscoverNumbered(input.conf, n))

(* The same of the others: HidInterface::discover returns the first        *)
(* complete HID interface with the endpoints of its alternate setting      *)
(* zero, and one asked for by its number is judged by itself; the FTDI and *)
(* USBTMC discoveries find the first interface of their class if its own   *)
(* endpoints are what it needs and no interface descriptor up to the next  *)
(* of that class is malformed, at which they give up; and the audio one    *)
(* finds the first stream whose own formats fit.                           *)
OthersAreFound ==
    input.of = "configuration" =>
        LET found == input.found
        IN  /\ IsFirstHid(input.conf, found.hid)
            /\ \A n \in {2, 6} : IsHidResult(input.conf, n, DiscoverHidNumbered(input.conf, n))
            /\ IsFirstFtdi(input.conf, found.ftdi)
            /\ IsFirstTmc(input.conf, found.tmc)
            /\ IsFirstCapture(input.conf, found.audio)

(* Each discovery finds the function that its rules make the first, with   *)
(* its own endpoints, and none if there is none.                           *)
FunctionsAreFound == AcmIsFound /\ OthersAreFound

(***************************************************************************)
(* Allocation                                                              *)
(***************************************************************************)
Enumerations == [device_address : {5, 128}, max_packet_size0 : {8, 64, 9},
                 speed : {"low", "full", "high"}, split : BOOLEAN]

Ports == {PortOf(e) : e \in Enumerations}

(* The largest packets a device of this speed may send, and the read       *)
(* buffer of a byte-stream driver.                                         *)
Limit(p, port) ==
    IF port.speed = "low"              THEN 8
    ELSE IF p.kind = "isochronous"     THEN 100
    ELSE IF p.kind = "bulk" /\ p.in    THEN Lower(RxCapacity, 64)
    ELSE 64

Legal(p, port) ==
    /\ port.speed # "high" /\ ~port.split
    /\ p.size \in 1..Limit(p, port)
    /\ port.speed = "low" => p.kind \in {"control", "interrupt"}
    /\ p.kind = "interrupt" => IF port.speed = "low" THEN p.interval >= 10 ELSE p.interval # 0

(* Whatever the descriptors of a device say, no driver gets a pipe whose   *)
(* packets the device's speed, the engine or the driver's own buffer does  *)
(* not allow; and a function that is sound and within these limits gets    *)
(* all of its pipes.                                                       *)
PipesFit ==
    input.of = "configuration" =>
        LET found == input.found
        IN  \A port \in Ports :
               LET given == {AllocateAcm(found.acm, port), AllocateFtdi(found.ftdi, port),
                             AllocateTmc(found.tmc, port), AllocateHid(found.hid, port),
                             AllocateAudio(found.audio, port)}
                   AllPipes(r, pipes) ==
                       /\ InputsValid(port) /\ r.out = "ok"
                       /\ \A j \in 1..3 : Legal(BulkPipes(r, port)[j], port)
                       => pipes = BulkPipes(r, port)
               IN  /\ \A g \in given : \A j \in DOMAIN g.pipes : Legal(g.pipes[j], port)
                   /\ AllPipes(found.acm, AllocateAcm(found.acm, port).pipes)
                   /\ AllPipes(found.ftdi, AllocateFtdi(found.ftdi, port).pipes)
                   /\ AllPipes(found.tmc, AllocateTmc(found.tmc, port).pipes)

(***************************************************************************)
(* Line code                                                               *)
(***************************************************************************)
(* The encoder of the library and the transmit program of the engine drive *)
(* the same levels for every string of bytes, and both receivers get the   *)
(* string back, as far as their buffers reach.                             *)
CodersAgreeOn(bits) ==
    LET lines == PioTransmit(bits)
        decoded == DecodeNrzi(lines)
        encoded == Encode(bits)
    IN  /\ PioReceive(lines) = bits
        /\ IF Len(bits) > 8 * MaxDecodedBytes THEN decoded.error = "PacketTooLong"
           ELSE decoded.error = "none" /\ decoded.bits = bits
        /\ encoded # <<>> => Driven(encoded) = lines
        /\ encoded = <<>> => Len(lines) + 2 > 4 * MaxEncodedBytes

CodersAgree == input.of = "bytes" => CodersAgreeOn(input.bits)

Flip(bits, damaged) == [i \in DOMAIN bits |-> bits[i] # (i \in damaged)]

(* parse_packet reads back every packet the library builds, and refuses it *)
(* with any one bit damaged, or any two after the packet identifier.       *)
DamageIsSeen ==
    input.of = "packet" =>
        LET bits == input.bits
        IN  /\ Parse(bits).error = "none"
            /\ \A i \in DOMAIN bits : Parse(Flip(bits, {i})).error # "none"
            /\ \A i, j \in 17..Len(bits) : i < j => Parse(Flip(bits, {i, j})).error # "none"

(* What the library and the engine put on the wire comes off it as it was, *)
(* or is refused.                                                          *)
PacketsSurvive == CodersAgree /\ DamageIsSeen

(***************************************************************************)
(* FTDI baud rates                                                         *)
(***************************************************************************)
(* set_baud_rate returns the rate the chip then runs at, on the channel of *)
(* the interface, and refuses no rate from 200 to half of the chip's       *)
(* highest.                                                                *)
RateIsReal(baud, chip, interface) ==
    LET channel == UsbIndex(chip, interface)
        set == SetBaudRate(baud, chip, channel)
        top == IF chip \in HType THEN 12000000 ELSE 3000000
    IN  /\ set.out = "ok" => /\ RunsAt(chip, set.value, set.index, set.actual)
                             /\ channel # 0 => set.index % 256 = channel
        /\ baud \in 200..(top \div 2) => set.out = "ok"
        /\ baud = 0 => set.out = "InvalidBaudRate"

RatesAreReal ==
    input.of = "rate" /\ input.chip # "ft232am" =>
        RateIsReal(input.baud, input.chip, input.interface)

(***************************************************************************)
(* Control requests. Of a call, what is the callers' to choose and what    *)
(* the driver sends.                                                       *)
(***************************************************************************)
Sends(call, does) == [call |-> call, does |-> does]

Codings == {LineCoding(rate, stop, parity, bits) :
               rate \in {<<0, 0, 0, 0>>, <<0, 194, 1, 0>>}, stop \in Range(StopBits),
               parity \in Range(Parities), bits \in {4, 5, 8, 16}}

CdcCalls ==
    LET f == [control |-> 2, line_requests |-> TRUE, send_break |-> TRUE]
    IN  {Sends(<<"SetLineCoding", c>>, SetLineCoding(f, c)) : c \in Codings}
        \cup {Sends(<<"GetLineCoding">>, GetLineCoding(f))}
        \cup {Sends(<<"SetControlLineState", dtr, rts>>, SetControlLineState(f, dtr, rts)) :
                  dtr, rts \in BOOLEAN}
        \cup {Sends(<<"SendBreak", d>>, SendBreak(f, d)) : d \in {0, 255, 256, 65535}}

HidCalls ==
    {Sends(<<"GetReportDescriptor">>, GetReportDescriptor(3, 300, 400)),
     Sends(<<"GetProtocol">>, GetProtocol(3))}
    \cup {Sends(<<"GetReport", t, id, room>>, GetReport(3, t, id, room)) :
              t \in Range(ReportTypes), id \in 0..3, room \in {0, 1, 300, 65536}}
    \cup {Sends(<<"SetReport", t, id, report>>, SetReport(3, t, id, report)) :
              t \in Range(ReportTypes), id \in 0..3, report \in {<<>>, <<1>>, <<1, 2>>}}
    \cup {Sends(<<"GetIdle", id>>, GetIdle(3, id)) : id \in {0, 1, 255}}
    \cup {Sends(<<"SetIdle", id, d>>, SetIdle(3, id, d)) : id, d \in {0, 1, 255}}
    \cup {Sends(<<"SetProtocol", p>>, SetProtocol(3, p)) : p \in {"Boot", "Report"}}

FtdiCalls ==
    {Sends(<<"Reset">>, SioReset), Sends(<<"PurgeRx">>, PurgeRx(2)), Sends(<<"PurgeTx">>, PurgeTx(2))}
    \cup {Sends(<<"SetBaudRate", SetBaudRate(b, "ft2232h", 2)>>, VendorBaudRate("ft2232h", 2, b)) :
              b \in SampleRates}
    \cup {Sends(<<"SetLineProperties", n, s, p, b>>, SetLineProperties(2, n, s, p, b)) :
              n \in 6..8, s \in Range(StopBits), p \in Range(Parities), b \in BOOLEAN}
    \cup {Sends(<<"SetFlowControl", flow>>, SetFlowControl(2, flow, 17, 19)) :
              flow \in {"Disabled", "RtsCts", "DtrDsr", "XonXoff"}}
    \cup {Sends(<<"SetDtrRts", dtr, rts>>, SetDtrRts(2, dtr, rts)) : dtr, rts \in BOOLEAN}

Calls(driver) ==
    CASE driver = "cdc"   -> CdcCalls
      [] driver = "hid"   -> HidCalls
      [] driver = "ftdi"  -> FtdiCalls
      [] driver = "tmc"   -> {Sends(<<"GetCapabilities">>, GetCapabilities(3)),
                              Sends(<<"RemoteEnable", TRUE>>, RemoteEnable(3, TRUE)),
                              Sends(<<"RemoteEnable", FALSE>>, RemoteEnable(3, FALSE))}
      [] driver = "audio" -> {Sends(<<"SelectAlternate", a>>, SelectAlternate(3, a)) : a \in 1..2}
                             \cup {Sends(<<"SetSampleRate", a>>, SetSampleRate(a)) : a \in {129, 130}}

(* What a driver's call asks for is what the device reads: no two calls    *)
(* that differ send the same request; the engine goes by the call and not  *)
(* by the eight bytes, so their direction and length are those of the data *)
(* stage; and the line coding a device is told is the one it can report.   *)
RequestsDecode ==
    input.of = "calls" =>
        LET calls == {c \in Calls(input.driver) : c.does.out \in {"control_in", "control_out"}}
            Length(setup) == setup[7] + 256 * setup[8]
        IN  /\ \A a, b \in calls : a.does = b.does => a.call = b.call
            /\ \A c \in calls :
                  LET setup == c.does.setup
                  IN  IF c.does.out = "control_in"
                      THEN setup[1] >= 128 /\ Length(setup) = c.does.room
                      ELSE setup[1] < 128 /\ Length(setup) = Len(c.does.data)
            /\ \A c \in Codings :
                  LET read == CodingFrom(CodingBytes(c))
                  IN  IF ValidCoding(c) THEN read = [out |-> "ok", coding |-> c]
                      ELSE read.out # "ok"

(***************************************************************************)
(* The K8055 board                                                         *)
(***************************************************************************)
Outputs == [digital : {0, 129}, analog1 : {0, 255}, analog2 : {0, 7}]

(* Where the board puts its digital inputs I1 to I5 in the first byte.     *)
InputBit == <<4, 5, 0, 6, 7>>

Boards == [speed : {"low", "full"}, vendor : {4303}, product : {21759, 21760, 21763, 21764},
           reached : 0..3, allocates : BOOLEAN, in : {4, 8, 9}, out : {{}, {[size |-> 4]}, {[size |-> 8]}},
           sent : {7, 8, 9}, address : {5}]

Dark(pattern, phase) == \A k \in 0..2 : ~Lit(pattern, phase + k)

SettingIsNearest(us) ==
    \A raw \in 0..255 : SettingError(DebounceRaw(us), us) <= SettingError(raw, us)

OutputsRepeat(us) ==
    \A o \in Outputs : \A report \in {ApplyReport(o), ResetCounter1(o), ResetCounter2(o),
                                      SetDebounce1(o, us), SetDebounce2(o, us)} :
        SubSeq(report, 2, 4) = <<o.digital, o.analog1, o.analog2>>

InputsAreRead(raw) == \A i \in 1..5 : Bit(DigitalInputs(raw), i - 1) = Bit(raw, InputBit[i])

SessionIsTold(d) ==
    LET pattern == LedPattern(d)
    IN  /\ pattern = "Success" => d.sent = ReportLen /\ Commanded(d) = {ResetReport}
        /\ Commanded(d) # {} => d.product \in 21760..21763 /\ d.address \in Freed(d)
        /\ Cardinality({k \in 0..23 : Lit(pattern, k)}) = PulseCount(pattern)
        /\ \E k \in 0..23 : Dark(pattern, k)

(* "The nearest supported setting is 115 us * raw^2": no setting of the    *)
(* debounce field is nearer than the one taken. The inputs read are those  *)
(* the board sets, and every command repeats the outputs. The application  *)
(* commands only a board it knows, shows success only once the board has   *)
(* answered with a whole report, and tells its outcomes by a number of     *)
(* pulses that has a beginning.                                            *)
BoardIsDriven ==
    /\ input.of = "debounce" => SettingIsNearest(input.us) /\ OutputsRepeat(input.us)
    /\ input.of = "inputs" => InputsAreRead(input.raw)
    /\ input.of = "boards" => \A d \in Boards : SessionIsTold(d)
=============================================================================
