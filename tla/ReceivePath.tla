------------------------------ MODULE ReceivePath ------------------------------
(***************************************************************************)
(* receive_data_packet: the CPU polls the receiver's FIFO and its interrupt *)
(* flags while PIO1 still decodes the device's answer, prepares the ACK as *)
(* soon as the header shows a data packet, and releases it at the end of   *)
(* the packet.  Decoder, edge detector and CPU run concurrently; the flags *)
(* and the FIFO are all they share.  IRQ 1 is left out: the code tests it  *)
(* as a decoder error, but no program of PIO1 raises it.                   *)
(***************************************************************************)
EXTENDS PacketRules

CONSTANTS
    Capacity,       \* endpoint.max_packet_size
    FifoDepth,      \* words in the receive FIFO
    MaxLength,      \* bound: bytes the decoder makes of one answer
    PrefixCrc       \* the CRC may also hold over a proper prefix of an answer

ASSUME ReceiveAssumption ==
    /\ Capacity \in Nat
    /\ FifoDepth \in Nat \ {0}
    /\ MaxLength \in Nat
    /\ PrefixCrc \in BOOLEAN

Overhead == 4   \* SYNC, PID and the two bytes of the CRC

(* What the decoder makes of the device's answer: whether anything starts  *)
(* and ends, the PID in its header ("bad" if SYNC or the PID's complement  *)
(* is wrong), its bytes, and the lengths at which the running CRC shows    *)
(* the residue.                                                            *)
Answers ==
    [starts : BOOLEAN, ends : BOOLEAN,
     pid : Toggles \cup {"NAK", "STALL", "other", "bad"},
     length : 0 .. MaxLength, residues : SUBSET (Overhead .. MaxLength)]

Plausible(a) ==
    /\ ~a.starts => ~a.ends /\ a.length = 0
    /\ a.residues \subseteq Overhead .. a.length
    /\ ~PrefixCrc => a.residues \subseteq {a.length}

PlausibleAnswers == {a \in Answers : Plausible(a)}

VARIABLES
    answer,         \* the device's answer to this token
    pushed,         \* its bytes the decoder has pushed
    eop,            \* IRQ 2: the edge detector has seen the end of packet
    expected,       \* expected_pid
    limit,          \* max_payload_len
    acknowledge,    \* not isochronous
    guarded,        \* ack_eop_guard_cycles # 0: low speed
    pc,             \* where the CPU is
    pulled,         \* len: bytes pulled from the FIFO
    sawStart,       \* saw_start
    ack,            \* the ACK in the transmitter's FIFO
    result          \* what the call returned

wire == <<answer, pushed, eop>>
arguments == <<expected, limit, acknowledge, guarded>>
vars == <<wire, arguments, pc, pulled, sawStart, ack, result>>

Silent == [starts |-> FALSE, ends |-> FALSE, pid |-> "bad", length |-> 0,
           residues |-> {}]

Init ==
    /\ answer = Silent
    /\ pushed = 0
    /\ eop = FALSE
    /\ expected = "DATA0"
    /\ limit = 0
    /\ acknowledge = TRUE
    /\ guarded = FALSE
    /\ pc = "idle"
    /\ pulled = 0
    /\ sawStart = FALSE
    /\ ack = "none"
    /\ result = "none"

------------------------------------------------------------------------------
(* The device and PIO1                                                     *)

(* The decoder pushes a byte.                                              *)
Push ==
    /\ pc # "idle"
    /\ pushed < answer.length
    /\ pushed - pulled < FifoDepth
    /\ pushed' = pushed + 1
    /\ UNCHANGED <<answer, eop, arguments, pc, pulled, sawStart, ack, result>>

(* The edge detector raises IRQ 2, after the decoder's last byte.          *)
EndOfPacket ==
    /\ pc # "idle"
    /\ answer.ends
    /\ pushed = answer.length
    /\ ~eop
    /\ eop' = TRUE
    /\ UNCHANGED <<answer, pushed, arguments, pc, pulled, sawStart, ack, result>>

------------------------------------------------------------------------------
(* The CPU                                                                 *)

(* header_flags shows SYNC, a valid PID and DATA in the first n bytes.     *)
DataHeader(n) == n >= 2 /\ answer.pid \in Toggles

(* ack_wire_len_limit                                                      *)
WireLimit == (IF answer.pid = expected THEN limit ELSE Capacity) + Overhead

(* ackable, once n bytes are pulled                                        *)
Ackable(n) ==
    /\ DataHeader(n)
    /\ n \in Overhead .. WireLimit
    /\ n \in answer.residues

(* IRQ 0 is cleared: what is in the transmitter's FIFO goes out.           *)
Released(queue) == IF queue = "queued" THEN "sent" ELSE "empty"

(* The ACK is queued when the first n bytes show a data packet.            *)
Preloaded(n) ==
    IF acknowledge /\ ack = "none" /\ DataHeader(n) THEN "queued" ELSE ack

(* discard_preloaded_ack *)
Discarded == IF ack = "queued" THEN "discarded" ELSE ack

Begin(a, pid, size, acks, guard) ==
    /\ pc = "idle"
    /\ answer' = a
    /\ pushed' = 0
    /\ eop' = FALSE
    /\ expected' = pid
    /\ limit' = size
    /\ acknowledge' = acks
    /\ guarded' = guard
    /\ pc' = "poll"
    /\ pulled' = 0
    /\ sawStart' = FALSE
    /\ ack' = "none"
    /\ result' = "none"

(* A full-speed packet found valid in the last pass bypasses the rest.     *)
FastPath == acknowledge /\ ~guarded /\ Ackable(pulled)

Poll ==
    /\ pc = "poll"
    /\ IF FastPath /\ eop
       THEN pc' = "classify" /\ ack' = Released(ack)
       ELSE pc' = "drain" /\ UNCHANGED ack
    /\ UNCHANGED <<wire, arguments, pulled, sawStart, result>>

Drain ==
    /\ pc = "drain"
    /\ pulled' = pushed
    /\ ack' = Preloaded(pushed)
    /\ sawStart' = (sawStart \/ pushed # 0 \/ answer.starts)
    /\ pc' = "check"
    /\ UNCHANGED <<wire, arguments, result>>

Return(found) == pc' = "idle" /\ result' = found

(* The budget is spent only once nothing more can come.                    *)
Check ==
    /\ pc = "check"
    /\ \/ eop /\ pc' = "terminal" /\ UNCHANGED <<ack, result>>
       \/ ~eop /\ pc' = "poll" /\ UNCHANGED <<ack, result>>
       \/ /\ ~eop /\ ~answer.ends /\ pushed = answer.length
          /\ ack' = Discarded
          /\ Return(IF ~sawStart /\ pulled = 0 THEN "noResponse" ELSE "invalid")
    /\ UNCHANGED <<wire, arguments, pulled, sawStart>>

(* Mutated form: the bytes seen before the end of packet decide.           *)
NoTerminalDrain ==
    /\ pc = "terminal"
    /\ ack' = IF acknowledge /\ ~guarded /\ Ackable(pulled)
              THEN Released(Preloaded(pulled)) ELSE Preloaded(pulled)
    /\ pc' = "classify"
    /\ UNCHANGED <<wire, arguments, pulled, sawStart, result>>

(* After IRQ 2, and the guard at low speed: what is not found valid yet is *)
(* drained once more.  Full speed releases the ACK at once.                *)
Terminal ==
    /\ pc = "terminal"
    /\ pulled' = IF Ackable(pulled) THEN pulled ELSE pushed
    /\ ack' = IF acknowledge /\ ~guarded /\ Ackable(pulled')
              THEN Released(Preloaded(pulled')) ELSE Preloaded(pulled')
    /\ pc' = "classify"
    /\ UNCHANGED <<wire, arguments, sawStart, result>>

(* classify_unacknowledged_in_packet *)
Unacknowledged ==
    CASE pulled = 2 /\ answer.pid = "NAK" -> "nak"
      [] pulled = 2 /\ answer.pid = "STALL" -> "stall"
      [] OTHER -> "invalid"

(* Mutated form: the ACK prepared for an invalid packet stays queued.      *)
RefuseAndKeepAck ==
    /\ pc = "classify"
    /\ ~Ackable(pulled)
    /\ Return(Unacknowledged)
    /\ UNCHANGED <<wire, arguments, pulled, sawStart, ack>>

Refuse ==
    /\ pc = "classify"
    /\ ~Ackable(pulled)
    /\ ack' = Discarded
    /\ Return(Unacknowledged)
    /\ UNCHANGED <<wire, arguments, pulled, sawStart>>

Accept ==
    /\ pc = "classify"
    /\ Ackable(pulled)
    /\ ack' = IF acknowledge /\ ack # "sent" THEN Released(ack) ELSE ack
    /\ Return(IF answer.pid = expected THEN "data" ELSE "unexpectedToggle")
    /\ UNCHANGED <<wire, arguments, pulled, sawStart>>

(* The transmitter does not finish the ACK; recover_tx_state empties it.   *)
TransmitterHangs ==
    /\ pc = "classify"
    /\ Ackable(pulled)
    /\ acknowledge
    /\ ack' \in {"sent", "discarded"}
    /\ Return("error")
    /\ UNCHANGED <<wire, arguments, pulled, sawStart>>

------------------------------------------------------------------------------
Cpu == Poll \/ Drain \/ Check \/ Terminal \/ Refuse \/ Accept \/ TransmitterHangs

Next ==
    \/ \E a \in PlausibleAnswers, pid \in Toggles, size \in 0 .. Capacity,
          acks \in BOOLEAN, guard \in BOOLEAN :
          Begin(a, pid, size, acks, guard)
    \/ Push
    \/ EndOfPacket
    \/ Cpu

Spec == Init /\ [][Next]_vars

------------------------------------------------------------------------------
(* Properties                                                              *)

Labels == {"idle", "poll", "drain", "check", "terminal", "classify"}
Results == {"none", "data", "unexpectedToggle", "nak", "stall", "noResponse",
            "invalid", "error"}

(* Every variable has its type; the FIFO holds what is pushed and not      *)
(* pulled.                                                                 *)
TypeOK ==
    /\ answer \in PlausibleAnswers
    /\ pushed \in 0 .. answer.length
    /\ eop \in BOOLEAN
    /\ expected \in Toggles
    /\ limit \in 0 .. Capacity
    /\ acknowledge \in BOOLEAN
    /\ guarded \in BOOLEAN
    /\ pc \in Labels
    /\ pulled \in 0 .. pushed
    /\ sawStart \in BOOLEAN
    /\ ack \in {"none", "queued", "sent", "discarded", "empty"}
    /\ result \in Results

(* The ACK is prepared while a data packet arrives, in time for its end.   *)
AckPrepared ==
    /\ pc \in {"poll", "drain", "check"} =>
          ack = IF acknowledge /\ DataHeader(pulled) THEN "queued" ELSE "none"
    /\ pc = "terminal" =>
          ack = IF acknowledge /\ DataHeader(pulled) THEN "queued" ELSE "none"
    /\ pc = "classify" =>
          ack = CASE acknowledge /\ DataHeader(pulled) /\ (guarded \/ ~Ackable(pulled)) -> "queued"
                  [] acknowledge /\ ~guarded /\ Ackable(pulled) -> "sent"
                  [] OTHER -> "none"

(* No ACK outlives its transaction in the transmitter's FIFO, from where   *)
(* the next packet would carry it onto the wire, and the transmitter is    *)
(* never released without one.                                             *)
NoAckLeftBehind == ack # "empty" /\ (pc = "idle" => ack # "queued")

(* Past the polling loop the whole answer is in hand; in it, a start that   *)
(* was seen is the answer's.                                               *)
AnswerComplete ==
    /\ sawStart => answer.starts
    /\ pc = "check" => (sawStart <=> answer.starts)
    /\ eop => answer.ends /\ pushed = answer.length
    /\ pc \in {"terminal", "classify"} => eop
    /\ ~PrefixCrc /\ pc = "classify" => pulled = pushed

(* What the answer deserves, whatever the CPU saw of it at which time      *)
WireValid == answer.ends /\ answer.pid \in Toggles /\ answer.length \in answer.residues

Deserved ==
    CASE ~answer.starts -> "noResponse"
      [] answer.ends /\ answer.length = 2 /\ answer.pid = "NAK" -> "nak"
      [] answer.ends /\ answer.length = 2 /\ answer.pid = "STALL" -> "stall"
      [] WireValid ->
            (CASE Disposition(expected, limit, Capacity, answer.pid,
                              answer.length - Overhead) = "accept" -> "data"
               [] Disposition(expected, limit, Capacity, answer.pid,
                              answer.length - Overhead) = "duplicate" -> "unexpectedToggle"
               [] OTHER -> "invalid")
      [] OTHER -> "invalid"

(* The call reports the answer as classify_in_data would, and acknowledges *)
(* exactly the packets it accepts or knows, unless the transmitter hangs.  *)
ReportsAnswer ==
    pc = "idle" /\ result \notin {"none", "error"} =>
        /\ result = Deserved
        /\ ack = "sent" <=> acknowledge /\ result \in {"data", "unexpectedToggle"}

(* The inductive invariant                                                 *)
ReceiveInv ==
    /\ TypeOK
    /\ AckPrepared
    /\ NoAckLeftBehind
    /\ AnswerComplete
    /\ ~PrefixCrc => ReportsAnswer
==============================================================================
