------------------------------ MODULE InTransfer ------------------------------
(***************************************************************************)
(* request_in of a bulk or interrupt pipe against a device that sends a    *)
(* stream of packets over a wire that loses and garbles packets and        *)
(* handshakes.  The device repeats a packet until it has seen the host's   *)
(* ACK; a bulk read takes packets until a short one or a full buffer.  An  *)
(* engine that fails after it has sent the ACK drops the packet.           *)
(***************************************************************************)
EXTENDS PipeLoop

CONSTANTS
    None,           \* no packet
    Buffers,        \* the lengths of the buffers callers give
    MaxPackets      \* bound: packets the device sends between configurations

ASSUME BuffersAssumption ==
    /\ Buffers \subseteq Nat
    /\ MaxPackets \in Nat
    /\ None \notin 0 .. Mps

VARIABLES
    capacity,   \* buffer.len()
    received,   \* bytes in the buffer that are counted
    length,     \* bytes of the packet that `result` tells of
    packet,     \* the length of the packet at the device's endpoint
    devToggle,  \* its toggle
    sent,       \* packets the device knows to be received
    accepted,   \* history: packets the host has accepted
    tail,       \* history: length of the last packet accepted into the buffer
    skipped     \* history: the device has seen the ACK of a packet that was dropped

call == <<capacity, received, length>>
device == <<packet, devToggle, sent>>
vars == <<loop, toggle, call, device, accepted, tail, skipped>>

Init ==
    /\ LoopInit
    /\ capacity = 0
    /\ received = 0
    /\ length = 0
    /\ packet = None
    /\ devToggle = "DATA0"
    /\ sent = 0
    /\ accepted = 0
    /\ tail = Mps
    /\ skipped = FALSE

------------------------------------------------------------------------------
(* The device                                                              *)

Produce(size) ==
    /\ packet = None
    /\ sent < MaxPackets
    /\ packet' = size
    /\ UNCHANGED <<loop, toggle, call, devToggle, sent, accepted, tail, skipped>>

(* The device sees the host's ACK: the next packet has the other toggle.   *)
SeesAck ==
    /\ packet' = None
    /\ devToggle' = AfterAck(devToggle)
    /\ sent' = sent + 1

(* Mutated form: the class driver forgets the pipe's toggle.               *)
ReconfigureDeviceOnly ==
    /\ pc = "idle"
    /\ packet' = None
    /\ devToggle' = "DATA0"
    /\ sent' = 0
    /\ accepted' = 0
    /\ skipped' = FALSE
    /\ UNCHANGED <<loop, toggle, call, tail>>

(* SET_CONFIGURATION, and reset_data_toggle or a new pipe after it, while  *)
(* no call runs                                                            *)
Reconfigure ==
    /\ pc = "idle"
    /\ toggle' = "DATA0"
    /\ packet' = None
    /\ devToggle' = "DATA0"
    /\ sent' = 0
    /\ accepted' = 0
    /\ skipped' = FALSE
    /\ UNCHANGED <<loop, call, tail>>

------------------------------------------------------------------------------
(* The call                                                                *)

RequestIn(size) ==
    /\ IF size = 0
       THEN /\ pc = "idle"
            /\ outcome' = "ok"
            /\ UNCHANGED <<valid, pc, result, noResponse, timing, silence>>
       ELSE Begin
    /\ capacity' = size
    /\ received' = 0
    /\ length' = 0
    /\ tail' = Mps
    /\ UNCHANGED <<toggle, device, accepted, skipped>>

(* buffer.len().min(max_packet_size), of the buffer's rest                 *)
Limit == Capped(capacity - received, Mps)

(* The answer is not a data packet: nothing, a NAK, a STALL, something the *)
(* receiver cannot decode, or none was asked for as the engine failed.     *)
OtherAnswer ==
    /\ \E found \in {"noResponse", "nak", "stall", "invalid", "failed"} : Attempt(found)
    /\ UNCHANGED <<toggle, call, device, accepted, tail, skipped>>

(* A data packet passes its CRC.  One that is accepted, and a duplicate,   *)
(* are acknowledged; a duplicate counts as a NAK.  The ACK may get lost.   *)
DataAnswer(ackArrives) ==
    LET found == Disposition(toggle, Limit, Mps, devToggle, packet)
    IN  /\ packet # None
        /\ \/ found = "accept" /\ Attempt("done")
           \/ found = "duplicate" /\ Attempt("nak")
           \/ found = "reject" /\ Attempt("invalid")
        /\ IF found = "accept"
           THEN /\ toggle' = AfterAck(toggle)
                /\ accepted' = accepted + 1
                /\ length' = packet
                /\ tail' = packet
           ELSE UNCHANGED <<toggle, accepted, length, tail>>
        /\ IF found # "reject" /\ ackArrives THEN SeesAck ELSE UNCHANGED device
        /\ UNCHANGED <<capacity, received, skipped>>

(* The transmitter does not come back from an ACK: the engine fails, the   *)
(* packet is dropped and the toggle stays, whatever the device has seen.   *)
HangsAfterAck(ackArrives) ==
    LET found == Disposition(toggle, Limit, Mps, devToggle, packet)
    IN  /\ packet # None
        /\ found \in {"accept", "duplicate"}
        /\ Attempt("failed")
        /\ IF ackArrives THEN SeesAck ELSE UNCHANGED device
        /\ skipped' = (skipped \/ (found = "accept" /\ ackArrives))
        /\ UNCHANGED <<toggle, call, accepted, tail>>

(* Mutated form: a short packet does not end the read.                     *)
CompletePacketFull ==
    /\ Through(Type # "Bulk" \/ received + length = capacity)
    /\ received' = received + length
    /\ UNCHANGED <<toggle, capacity, length, device, accepted, tail, skipped>>

(* A packet of the buffer is complete; a bulk read goes on after a full    *)
(* packet while there is room.                                             *)
CompletePacket ==
    /\ Through(Type # "Bulk" \/ received + length = capacity \/ length < Mps)
    /\ received' = received + length
    /\ UNCHANGED <<toggle, capacity, length, device, accepted, tail, skipped>>

LoopStep == Due \/ Gone \/ Broken \/ Naked \/ Unanswered

Call ==
    \/ OtherAnswer
    \/ \E ackArrives \in BOOLEAN : DataAnswer(ackArrives) \/ HangsAfterAck(ackArrives)
    \/ CompletePacket
    \/ LoopStep /\ UNCHANGED <<toggle, call, device, accepted, tail, skipped>>

Elsewhere ==
    (Invalidate \/ Cancel) /\ UNCHANGED <<toggle, call, device, accepted, tail, skipped>>

Passes == Tick /\ UNCHANGED <<toggle, call, device, accepted, tail, skipped>>

Next ==
    \/ \E size \in 0 .. Mps : Produce(size)
    \/ Reconfigure
    \/ \E size \in Buffers : RequestIn(size)
    \/ Call
    \/ Elsewhere
    \/ Passes

Spec == Init /\ [][Next]_vars

------------------------------------------------------------------------------
(* Properties                                                              *)

(* Every variable has its type; what is counted fits the buffer.           *)
TypeOK ==
    /\ LoopTypeOK
    /\ toggle \in Toggles
    /\ capacity \in Buffers \cup {0}
    /\ received \in 0 .. capacity
    /\ length \in 0 .. Mps
    /\ packet \in 0 .. Mps \cup {None}
    /\ devToggle \in Toggles
    /\ sent \in 0 .. MaxPackets
    /\ accepted \in Nat
    /\ tail \in 0 .. Mps
    /\ skipped \in BOOLEAN

(* The two toggles differ exactly while the device does not know that its  *)
(* packet was accepted: a lost ACK is told from a lost packet, as long as  *)
(* no packet was dropped after its ACK.                                    *)
InStep ==
    ~skipped =>
        /\ accepted = IF toggle = devToggle THEN sent ELSE sent + 1
        /\ toggle # devToggle => packet # None

(* The inductive invariant: besides the above, the last packet of a read   *)
(* is full until the read is over, and fits what is left of the buffer.    *)
ReadInv ==
    /\ TypeOK
    /\ LoopInv
    /\ InStep
    /\ packet # None => sent < MaxPackets
    /\ pc # "idle" => received < capacity
    /\ result = "done" => length = tail /\ received + length <= capacity
    /\ pc # "idle" /\ result # "done" => tail = Mps

(* The packets the host accepts are the device's, in order, each once,     *)
(* however often data, ACKs or calls are lost, until the engine drops one  *)
(* after its ACK.                                                          *)
Stream == INSTANCE StopAndWait WITH taken <- accepted, known <- sent, broken <- skipped

ImplementsStopAndWait == Stream!Spec

(* A read never joins packets of two transfers of the device: after a      *)
(* short packet the buffer takes no more.  (A short packet that is lost    *)
(* behind an ACK, as `skipped` tells, ends nothing.)                       *)
NoMergedTransfers == [][accepted' > accepted => tail = Mps]_vars

(* A call that fails, other than by a detach or by its caller's choice,    *)
(* has not swallowed the end of a transfer: no short packet and no full    *)
(* buffer is lost with it, unless the engine has dropped a packet.         *)
ErrorSparesWholeReads ==
    [][outcome' # outcome /\ outcome' \in {"stall", "badResponse", "timeout"} /\ ~skipped =>
          tail = Mps /\ received < capacity]_vars

(* The retry limit ends a call only on a device that has not answered      *)
(* RetryLimit times in a row, NAKs and duplicates being answers: a call    *)
(* that times out for another reason than a failure of the engine.         *)
GivesUpOnSilence ==
    [][outcome' # outcome /\ outcome' = "timeout" /\ result # "failed" =>
          silence = RetryLimit]_vars

(* An interrupt endpoint is polled once in its interval, and a bulk        *)
(* endpoint that has no data once in a millisecond, by one call or by many, *)
(* unless the call before failed or was dropped after its transaction.     *)
PollsAreSpaced == [][pc = "wire" /\ pc' = "service" => since >= owed]_vars

Fairness == WF_vars(Call) /\ WF_vars(Passes)

(* If callers keep calling and the wire does not lose every ACK, a device   *)
(* whose ACK was lost gets another for its repetition, although that may   *)
(* be longer than what is left of the buffer; or the callers always give   *)
(* up.                                                                     *)
RepetitionEnds ==
    SF_vars(\E size \in Buffers : RequestIn(size)) /\ SF_vars(DataAnswer(TRUE)) =>
        \/ toggle # devToggle /\ packet # None ~> (toggle = devToggle \/ ~valid)
        \/ []<>(outcome = "cancelled")

FairSpec == Spec /\ Fairness
==============================================================================
