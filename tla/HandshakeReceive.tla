-------------------------- MODULE HandshakeReceive --------------------------
(***************************************************************************)
(* out_once and receive_handshake: the receiver is parked before the token *)
(* and the data go out, released at their end, and the CPU polls its FIFO  *)
(* and flags for the device's handshake until the end of the packet or a   *)
(* deadline.  Decoder, edge detector and CPU run concurrently, and the CPU *)
(* stops the two state machines one after the other.  IRQ 1 is left out:   *)
(* no program of PIO1 raises it.                                           *)
(***************************************************************************)
EXTENDS Naturals

CONSTANTS
    FifoDepth,      \* words in the receive FIFO
    MaxLength       \* bound: bytes the decoder makes of one answer

VARIABLES
    reply,          \* the device's answer to this packet
    begun,          \* IRQ 3: the edge detector has seen a start
    arrived,        \* bytes the decoder has pushed
    ended,          \* IRQ 2: the edge detector has seen the end of packet
    step,           \* where the CPU is
    cause,          \* what ended the polling
    count,          \* len: bytes pulled from the FIFO
    response,       \* what out_once returned
    failure         \* classify_handshake_failure of the observation

line == <<reply, begun, arrived, ended>>
call == <<step, cause, count, response, failure>>
hands == <<line, call>>

HandshakePids == {"ACK", "NAK", "STALL"}

(* What the decoder makes of an answer: whether anything starts and ends,  *)
(* its bytes, and its first two if it has them.                            *)
Replies ==
    {a \in [starts : BOOLEAN, ends : BOOLEAN, length : 0 .. MaxLength,
            header : HandshakePids \cup {"other", "badPid", "badSync"}] :
        ~a.starts => ~a.ends /\ a.length = 0}

NoReply == [starts |-> FALSE, ends |-> FALSE, length |-> 0, header |-> "badSync"]

Init ==
    /\ reply = NoReply /\ begun = FALSE /\ arrived = 0 /\ ended = FALSE
    /\ step = "idle" /\ cause = "none" /\ count = 0
    /\ response = "none" /\ failure = "none"

Return(found) == step' = "idle" /\ response' = found

(***************************************************************************)
(* The device and PIO1                                                     *)
(***************************************************************************)
DecoderOn == step \in {"start", "drain", "check", "deadline", "stop"}
EdgeOn == DecoderOn \/ step = "record"

DetectStart ==
    /\ EdgeOn /\ reply.starts /\ ~begun
    /\ begun' = TRUE
    /\ UNCHANGED <<reply, arrived, ended, call>>

PushByte ==
    /\ DecoderOn /\ begun /\ ~ended
    /\ arrived < reply.length /\ arrived - count < FifoDepth
    /\ arrived' = arrived + 1
    /\ UNCHANGED <<reply, begun, ended, call>>

(* The end of the packet, after the last byte if the decoder still runs.   *)
DetectEnd ==
    /\ EdgeOn /\ begun /\ reply.ends /\ ~ended
    /\ DecoderOn => arrived = reply.length
    /\ ended' = TRUE
    /\ UNCHANGED <<reply, begun, arrived, call>>

(***************************************************************************)
(* The CPU                                                                 *)
(***************************************************************************)
OutOnce(a) ==
    /\ step = "idle"
    /\ reply' = a /\ begun' = FALSE /\ arrived' = 0 /\ ended' = FALSE
    /\ step' = "park" /\ cause' = "none" /\ count' = 0
    /\ response' = "none" /\ failure' = "none"

(* The edge detector reaches its parking point, or the budget is spent.    *)
ParkReceive ==
    /\ step = "park"
    /\ \/ step' = "transmit" /\ UNCHANGED response
       \/ Return("Timeout")
    /\ UNCHANGED <<line, cause, count, failure>>

(* The flags are cleared and the receiver released at the end of the data. *)
TransmitTokenDataPair ==
    /\ step = "transmit"
    /\ \/ step' = "start" /\ UNCHANGED response
       \/ Return("TxFailed")
    /\ UNCHANGED <<line, cause, count, failure>>

SeeAnswer ==
    /\ step = "start" /\ (arrived # count \/ ended)
    /\ step' = "drain"
    /\ UNCHANGED <<line, cause, count, response, failure>>

(* The FIFO may have filled since the loop looked at it.                   *)
StartDeadline ==
    /\ step = "start"
    /\ step' = "stop" /\ cause' = IF begun THEN "late" ELSE "silent"
    /\ UNCHANGED <<line, count, response, failure>>

DrainRxFifo ==
    /\ step = "drain"
    /\ count' = arrived /\ step' = "check"
    /\ UNCHANGED <<line, cause, response, failure>>

CheckEnd ==
    /\ step = "check"
    /\ IF ended THEN step' = "stop" /\ cause' = "end"
                ELSE step' = "deadline" /\ UNCHANGED cause
    /\ UNCHANGED <<line, count, response, failure>>

PacketDeadline ==
    /\ step = "deadline"
    /\ \/ step' = "drain" /\ UNCHANGED cause
       \/ step' = "stop" /\ cause' = "late"
    /\ UNCHANGED <<line, count, response, failure>>

DisableDecoder ==
    /\ step = "stop" /\ step' = "record"
    /\ UNCHANGED <<line, cause, count, response, failure>>

(* classify_handshake_failure, of n bytes and the flags                    *)
HandshakeFailure(n) ==
    IF ~ended THEN (IF n = 0 /\ begun THEN "FalseStart" ELSE "IncompletePacket")
    ELSE IF n # 2 THEN "WrongLength"
    ELSE CASE reply.header = "badSync" -> "InvalidSync"
           [] reply.header = "badPid" -> "InvalidPidComplement"
           [] reply.header = "other" -> "UnexpectedPid"
           [] OTHER -> "Unknown"

(* parse_packet of what was pulled, and what out_once makes of it          *)
OutResponse(n) ==
    CASE cause = "silent" -> "NoResponse"
      [] cause = "end" /\ n = 2 /\ reply.header \in HandshakePids -> reply.header
      [] OTHER -> "BadResponse"

Finish(n) ==
    /\ count' = n
    /\ Return(OutResponse(n))
    /\ failure' = IF OutResponse(n) = "BadResponse" THEN HandshakeFailure(n) ELSE "none"
    /\ UNCHANGED <<line, cause>>

(* Mutated form: the bytes pulled in the loop decide.                      *)
RecordUndrained == step = "record" /\ Finish(count)

(* The edge detector stops, the FIFO is drained once more, the observation *)
(* recorded and judged.                                                    *)
Record == step = "record" /\ Finish(arrived)

Next ==
    \/ \E a \in Replies : OutOnce(a)
    \/ DetectStart \/ PushByte \/ DetectEnd
    \/ ParkReceive \/ TransmitTokenDataPair
    \/ SeeAnswer \/ StartDeadline
    \/ DrainRxFifo \/ CheckEnd \/ PacketDeadline
    \/ DisableDecoder \/ Record

Spec == Init /\ [][Next]_hands

(***************************************************************************)
(* Properties                                                              *)
(***************************************************************************)
Running == {"park", "transmit", "start", "drain", "check", "deadline"}

TypeOK ==
    /\ reply \in Replies /\ begun \in BOOLEAN /\ ended \in BOOLEAN
    /\ arrived \in 0 .. reply.length /\ count \in 0 .. arrived
    /\ step \in Running \cup {"idle", "stop", "record"}
    /\ cause \in {"none", "silent", "late", "end"}

(* The flags are the answer's, none of them before it is sent, and its end *)
(* is seen after its last byte while the decoder runs: a call that its end *)
(* has stopped has it all.                                                 *)
AnswerInHand ==
    /\ step \in {"park", "transmit"} => ~begun
    /\ begun => reply.starts
    /\ ended => begun /\ reply.ends
    /\ ended /\ DecoderOn => arrived = reply.length
    /\ cause = "end" => ended /\ arrived = reply.length
    /\ step \in Running => cause = "none"

Handshaken == reply.starts /\ reply.ends /\ reply.length = 2 /\ reply.header \in HandshakePids

(* out_once reports a handshake only if the device sent exactly that one,  *)
(* and reports the one it sent unless a deadline passed first, wherever in *)
(* the polling its bytes and its end fell; a bad response has the reason   *)
(* the whole answer shows, and one of no known reason is one that began as *)
(* a handshake and that a deadline cut.                                    *)
HandshakeIsSeen ==
    step = "idle" /\ cause # "none" =>
        /\ response \in HandshakePids => Handshaken /\ response = reply.header
        /\ cause = "end" => response = IF Handshaken THEN reply.header ELSE "BadResponse"
        /\ cause = "end" /\ ~Handshaken =>
              failure = IF reply.length # 2 THEN "WrongLength"
                        ELSE CASE reply.header = "badSync" -> "InvalidSync"
                               [] reply.header = "badPid" -> "InvalidPidComplement"
                               [] OTHER -> "UnexpectedPid"
        /\ failure = "Unknown" => cause = "late"

(* The inductive invariant                                                 *)
HandshakeInv == TypeOK /\ AnswerInHand /\ HandshakeIsSeen
=============================================================================
