---------------------------- MODULE UsbtmcExchange ----------------------------
(***************************************************************************)
(* UsbtmcHost::write, read and exchange against an instrument that keeps to *)
(* USBTMC: a command, a request with a tag and the size of the buffer, and *)
(* a response of one header and its bytes, cut into packets.  A transfer   *)
(* of the pipes below may fail or be dropped (modules InTransfer and       *)
(* OutTransfer say with what effect); what is then still on its way meets  *)
(* the calls that follow.  Commands fit one packet.                        *)
(***************************************************************************)
EXTENDS Naturals, Sequences, SequencesExt

CONSTANTS
    Nothing,        \* the instrument has nothing to say
    Mps,            \* the bulk-IN endpoint's max_packet_size
    Header,         \* HEADER_LEN
    Align,          \* the alignment of a message's end, 4 bytes
    TagCount,       \* tags are 1 .. TagCount (255 in the code)
    Replies,        \* the lengths of the instrument's responses
    Capacities,     \* the lengths of the buffers callers give
    MaxTags         \* bound: tags taken in a behaviour

ASSUME FramingAssumption ==
    /\ Header \in Nat \ {0} /\ Align \in Nat \ {0} /\ TagCount \in Nat \ {0}
    /\ Mps \in Nat /\ Mps >= Header
    /\ Mps % Align = 0 /\ Header % Align = 0
    /\ Replies \subseteq Nat /\ Capacities \subseteq Nat /\ MaxTags \in Nat
    /\ Nothing \notin Nat

VARIABLES
    pc,         \* where the call is
    nextTag,    \* next_tag
    tag,        \* the tag of this read
    thenRead,   \* the call is exchange: a write and then a read
    capacity,   \* response.len()
    announced,  \* the header's transfer size
    copied,     \* bytes in the response buffer
    received,   \* wire_received
    lastLength, \* last_packet_len
    outcome,    \* what the last call returned
    left,       \* the instrument: bytes left of its response, or Nothing
    requests,   \* requests it has not answered yet
    packets,    \* packets of responses on their way to the host
    confused,   \* it will discard the next message: the pipe's toggle is off
    taken,      \* history: tags taken
    mine,       \* history: the number of this read's tag
    ended,      \* history: the response read last is the end of the message
    faulted     \* history: a transfer has failed or was dropped

read == <<tag, mine, capacity, announced, copied, received, lastLength, ended>>
numbering == <<nextTag, taken>>
instrument == <<left, requests, packets, confused>>
vars == <<pc, numbering, thenRead, read, outcome, instrument, faulted>>

Init ==
    /\ pc = "idle"
    /\ nextTag = 1 /\ tag = 0 /\ taken = 0 /\ mine = 0
    /\ thenRead = FALSE
    /\ capacity = 0 /\ announced = 0 /\ copied = 0 /\ received = 0
    /\ lastLength = 0 /\ ended = TRUE
    /\ outcome = "none"
    /\ left = Nothing /\ requests = <<>> /\ packets = <<>> /\ confused = FALSE
    /\ faulted = FALSE

Least(m, n) == IF m < n THEN m ELSE n

(* next_multiple_of(4) *)
Padded(n) == ((n + Align - 1) \div Align) * Align

Return(found) == pc' = "idle" /\ outcome' = found

------------------------------------------------------------------------------
(* The instrument                                                          *)

(* A new command ends the response to the one before.                      *)
TakeCommand ==
    /\ left' \in Replies \cup {Nothing}
    /\ UNCHANGED <<requests, packets>>

TakeRequest ==
    /\ requests' = Append(requests,
                          [tag |-> tag, number |-> mine, capacity |-> capacity])
    /\ UNCHANGED <<left, packets>>

(* The packets of a response of n bytes, the pad of its last one included; *)
(* a full last packet is followed by an empty one. A packet is a stretch   *)
(* of the response from start on, and the first one has the header.        *)
Response(request, n, wire, eom) ==
    LET total == Header + wire
    IN  [i \in 1 .. total \div Mps + 1 |->
            [tag |-> request.tag, number |-> request.number, size |-> n, eom |-> eom,
             total |-> total, start |-> (i - 1) * Mps]]

Length(p) == Least(p.total - p.start, Mps)

(* It answers a request with what fits, with or without the alignment.     *)
Answer ==
    /\ requests # <<>>
    /\ left # Nothing
    /\ LET n == Least(left, Head(requests).capacity)
       IN  /\ \E wire \in {n, Padded(n)} :
                  packets' = packets \o Response(Head(requests), n, wire, n = left)
           /\ left' = IF n = left THEN Nothing ELSE left - n
    /\ requests' = Tail(requests)
    /\ UNCHANGED <<pc, numbering, thenRead, read, outcome, confused, faulted>>

------------------------------------------------------------------------------
(* The host                                                                *)

TakeTag ==
    /\ nextTag' = IF nextTag = TagCount THEN 1 ELSE nextTag + 1
    /\ taken' = taken + 1

OnTheWay == ToSet(requests) \cup ToSet(packets)

(* Tags do not go once around while an answer with one of them is still to *)
(* come; `calls` tags are about to be taken.                               *)
Room(calls) ==
    /\ taken + calls <= MaxTags
    /\ \A x \in OnTheWay : taken + calls < x.number + TagCount

(* The tag is taken before the request is sent.                            *)
BeginRead(size) ==
    /\ TakeTag
    /\ tag' = nextTag
    /\ mine' = taken'
    /\ capacity' = size
    /\ pc' = "request"
    /\ UNCHANGED <<announced, copied, received, lastLength, ended>>

Read(size) ==
    /\ pc = "idle"
    /\ Room(1)
    /\ BeginRead(size)
    /\ outcome' = "none"
    /\ UNCHANGED <<thenRead, instrument, faulted>>

(* write, or the first half of exchange; a command that is too long is     *)
(* refused before this.                                                    *)
Write(exchange, size) ==
    /\ pc = "idle"
    /\ Room(IF exchange THEN 2 ELSE 1)
    /\ TakeTag
    /\ thenRead' = exchange
    /\ capacity' = size
    /\ pc' = "command"
    /\ outcome' = "none"
    /\ UNCHANGED <<tag, mine, announced, copied, received, lastLength, ended,
                   instrument, faulted>>

(* request_out returns Ok: the instrument has the message, or has taken it *)
(* for the repetition of one whose ACK was lost.                           *)
Delivered(Taking) ==
    /\ confused' = FALSE
    /\ IF confused THEN UNCHANGED <<left, requests, packets>> ELSE Taking

CommandSent ==
    /\ pc = "command"
    /\ Delivered(TakeCommand)
    /\ IF thenRead THEN BeginRead(capacity) /\ UNCHANGED outcome
                   ELSE Return("sent") /\ UNCHANGED <<numbering, read>>
    /\ UNCHANGED <<thenRead, faulted>>

RequestSent ==
    /\ pc = "request"
    /\ Delivered(TakeRequest)
    /\ pc' = "first"
    /\ UNCHANGED <<numbering, thenRead, read, outcome, faulted>>

(* request_out fails or is dropped, before or after the message was taken. *)
SendFails ==
    /\ pc \in {"command", "request"}
    /\ \/ UNCHANGED instrument
       \/ /\ ~confused
          /\ confused' = TRUE
          /\ IF pc = "command" THEN TakeCommand ELSE TakeRequest
    /\ Return("transfer")
    /\ faulted' = TRUE
    /\ UNCHANGED <<numbering, thenRead, read>>

(* Where read_response goes on once `bytes` of `size` are copied, the last *)
(* of them from a packet of this length                                    *)
Continue(bytes, size, length) ==
    CASE bytes < size -> pc' = "more" /\ UNCHANGED outcome
      [] bytes = size /\ length = Mps -> pc' = "closing" /\ UNCHANGED outcome
      [] OTHER -> Return("read")

(* Mutated form: any answer is the answer.                                 *)
HeaderAnyTag(p) ==
    CASE p.start # 0 \/ Length(p) < Header -> "invalidMessage"
      [] p.size > capacity -> "tooSmall"
      [] Length(p) > Header + Padded(p.size) -> "invalidMessage"
      [] OTHER -> "valid"

(* What the first packet is found to be, in the order of the checks        *)
HeaderOf(p) ==
    CASE p.start # 0 \/ Length(p) < Header -> "invalidMessage"
      [] p.tag # tag -> "tagMismatch"
      [] p.size > capacity -> "tooSmall"
      [] Length(p) > Header + Padded(p.size) -> "invalidMessage"
      [] OTHER -> "valid"

FirstPacket ==
    /\ pc = "first"
    /\ packets # <<>>
    /\ packets' = Tail(packets)
    /\ LET p == Head(packets)
           bytes == Least(Length(p) - Header, p.size)
       IN  IF HeaderOf(p) = "valid"
           THEN /\ announced' = p.size
                /\ copied' = bytes
                /\ received' = Length(p)
                /\ lastLength' = Length(p)
                /\ ended' = p.eom
                /\ Continue(bytes, p.size, Length(p))
           ELSE /\ Return(HeaderOf(p))
                /\ UNCHANGED <<announced, copied, received, lastLength, ended>>
    /\ UNCHANGED <<numbering, thenRead, tag, mine, capacity, left, requests,
                   confused, faulted>>

(* Mutated form: no bytes are allowed for the alignment.                   *)
FitsExactly(length) ==
    length # 0 /\ received + length <= Header + announced

Fits(length) ==
    length # 0 /\ received + length <= Header + Padded(announced)

NextPacket ==
    /\ pc = "more"
    /\ packets # <<>>
    /\ packets' = Tail(packets)
    /\ LET length == Length(Head(packets))
           bytes == copied + Least(length, announced - copied)
       IN  IF Fits(length)
           THEN /\ copied' = bytes
                /\ received' = received + length
                /\ lastLength' = length
                /\ Continue(bytes, announced, length)
           ELSE /\ Return("invalidMessage")
                /\ UNCHANGED <<copied, received, lastLength>>
    /\ UNCHANGED <<numbering, thenRead, tag, mine, capacity, announced, ended,
                   left, requests, confused, faulted>>

(* A full last packet has to be followed by an empty one.                  *)
ClosingPacket ==
    /\ pc = "closing"
    /\ packets # <<>>
    /\ packets' = Tail(packets)
    /\ Return(IF Length(Head(packets)) = 0 THEN "read" ELSE "invalidMessage")
    /\ UNCHANGED <<numbering, thenRead, read, left, requests, confused, faulted>>

(* request_in of a packet fails, with no packet taken, or it is dropped,   *)
(* and a packet may be lost with it.                                       *)
ReceiveFails ==
    /\ pc \in {"first", "more", "closing"}
    /\ \/ UNCHANGED packets
       \/ packets # <<>> /\ packets' = Tail(packets)
    /\ Return("transfer")
    /\ faulted' = TRUE
    /\ UNCHANGED <<numbering, thenRead, read, left, requests, confused>>

(* The device is configured anew, and then reset_data_toggles.             *)
Reconfigure ==
    /\ pc = "idle"
    /\ left' = Nothing /\ requests' = <<>> /\ packets' = <<>> /\ confused' = FALSE
    /\ outcome' = "none"
    /\ faulted' = FALSE
    /\ UNCHANGED <<pc, numbering, thenRead, read>>

Next ==
    \/ \E size \in Capacities : Read(size)
    \/ \E exchange \in BOOLEAN, size \in Capacities : Write(exchange, size)
    \/ CommandSent \/ RequestSent \/ SendFails
    \/ Answer
    \/ FirstPacket \/ NextPacket \/ ClosingPacket \/ ReceiveFails
    \/ Reconfigure

Spec == Init /\ [][Next]_vars

------------------------------------------------------------------------------
(* Properties                                                              *)

Packet == [tag : 1 .. TagCount, number : 1 .. MaxTags, size : Nat, eom : BOOLEAN,
           total : Nat, start : Nat]
Request == [tag : 1 .. TagCount, number : 1 .. MaxTags, capacity : Capacities]

Reading == {"request", "first", "more", "closing"}
Outcomes == {"none", "sent", "read", "transfer", "invalidMessage", "tagMismatch", "tooSmall"}

(* Every variable has its type; the response buffer is never overrun.      *)
TypeOK ==
    /\ pc \in Reading \cup {"idle", "command"}
    /\ nextTag \in 1 .. TagCount
    /\ tag \in 0 .. TagCount
    /\ taken \in 0 .. MaxTags /\ mine \in 0 .. taken
    /\ thenRead \in BOOLEAN /\ confused \in BOOLEAN /\ ended \in BOOLEAN
    /\ faulted \in BOOLEAN
    /\ capacity \in Capacities \cup {0}
    /\ announced \in Nat /\ copied \in 0 .. announced
    /\ received \in Nat /\ lastLength \in 0 .. Mps
    /\ outcome \in Outcomes
    /\ left \in Nat \cup {Nothing}
    /\ requests \in Seq(Request)
    /\ packets \in Seq(Packet)
    /\ pc \in {"more", "closing"} \/ outcome = "read" => announced <= capacity

(* The tag is as many tags behind the next one as the number is behind the *)
(* count: it does not come round again before `more` further tags.         *)
Aged(x, more) ==
    LET age == taken + 1 - x.number
    IN  /\ age \in 1 .. TagCount - more
        /\ nextTag \in {x.tag + age, x.tag + age - TagCount}

(* The tags on the way are those of their numbers, and this read's is the  *)
(* last one taken.                                                         *)
Numbered ==
    /\ \A x \in OnTheWay : Aged(x, IF pc = "command" /\ thenRead THEN 1 ELSE 0)
    /\ pc = "command" /\ thenRead => taken < MaxTags
    /\ pc = "command" => capacity \in Capacities /\ outcome = "none"
    /\ pc \in Reading =>
          /\ capacity \in Capacities /\ outcome = "none"
          /\ mine = taken /\ mine > 0 /\ tag > 0 /\ nextTag \in {tag + 1, tag + 1 - TagCount}
    /\ pc = "request" => \A x \in OnTheWay : x.number < mine

(* Requests are answered in their order, and each once.                    *)
InOrder ==
    /\ \A i, j \in DOMAIN requests : i < j => requests[i].number < requests[j].number
    /\ \A i \in DOMAIN packets, j \in DOMAIN requests : packets[i].number < requests[j].number
    /\ \A i, j \in DOMAIN packets : i < j =>
          /\ packets[i].number <= packets[j].number
          /\ packets[j].start = 0 => packets[i].number < packets[j].number

(* A response has as many bytes as it announces and at most their pad, and *)
(* is on the way as a whole: a full packet is followed by the next one of  *)
(* the same response, a short one by the first of another.                 *)
Sized(p) ==
    /\ p.total \in {Header + p.size, Header + Padded(p.size)}
    /\ p.start <= p.total /\ p.start % Align = 0

Chained ==
    \A i \in DOMAIN packets :
        /\ Sized(packets[i])
        /\ IF Length(packets[i]) = Mps
           THEN /\ i + 1 \in DOMAIN packets
                /\ packets[i + 1] = [packets[i] EXCEPT !.start = @ + Mps]
           ELSE i + 1 \in DOMAIN packets => packets[i + 1].start = 0

(* In the middle of a response its next packet is the next one to come.    *)
MidRead ==
    pc \in {"more", "closing"} =>
        /\ requests = <<>> /\ packets # <<>>
        /\ LET p == Head(packets)
           IN  p.number = mine /\ p.tag = tag /\ p.size = announced /\ p.start = received
        /\ received >= Header /\ copied = Least(received - Header, announced)
        /\ pc = "more" <=> copied < announced

(* While no transfer has failed, every call of a conforming instrument     *)
(* succeeds, aligned or not, at every length around the packet size, and   *)
(* leaves nothing on the way.                                              *)
InStep ==
    ~faulted =>
        /\ ~confused
        /\ outcome \in {"none", "sent", "read"}
        /\ pc \in {"idle", "command", "request"} => requests = <<>> /\ packets = <<>>
        /\ pc = "first" =>
              \/ /\ packets = <<>>
                 /\ requests = <<[tag |-> tag, number |-> mine, capacity |-> capacity]>>
              \/ /\ requests = <<>> /\ packets # <<>>
                 /\ Head(packets).start = 0 /\ Head(packets).tag = tag
                 /\ Head(packets).size <= capacity
        /\ \A i \in DOMAIN packets : packets[i].number = mine

(* A read that returns Ok has the whole response to its own request, and   *)
(* has taken its last packet, the empty one included: whatever has failed  *)
(* before, the next response begins with the next packet.                  *)
ResponseTaken ==
    outcome = "read" =>
        /\ copied = announced
        /\ requests = <<>>
        /\ \A i \in DOMAIN packets : packets[i].number # mine

(* The inductive invariant                                                 *)
Framing == TypeOK /\ Numbered /\ InOrder /\ Chained /\ MidRead /\ InStep /\ ResponseTaken

(* No byte of another response gets into the buffer, however many failed   *)
(* calls have left their responses behind.                                 *)
OwnBytes ==
    [][<<announced, copied>>' # <<announced, copied>>
          => Head(packets).number = mine]_vars
==============================================================================
