---------------------------- MODULE InTransferProofs ----------------------------
(***************************************************************************)
(* Proofs about InTransfer, for bulk and interrupt endpoints, every packet *)
(* size, every set of buffer lengths, every interval and retry limit.      *)
(***************************************************************************)
EXTENDS InTransfer, PipeLoopProofs

(* Every step of a read is a step of the loop.                             *)
LEMMA ReadStepIsLoopStep == [Next]_vars => [LoopNext]_loop
<1> SUFFICES ASSUME [Next]_vars PROVE [LoopNext]_loop
  OBVIOUS
<1>1. ASSUME NEW size \in 0 .. Mps, Produce(size) PROVE UNCHANGED loop
  BY <1>1 DEF Produce
<1>2. ASSUME NEW size \in Buffers, RequestIn(size) PROVE LoopNext
  BY <1>2 DEF RequestIn, LoopNext, ReturnAtOnce
<1>3. CASE OtherAnswer
  BY <1>3 DEF OtherAnswer, LoopNext, Answers
<1>4. ASSUME NEW ackArrives \in BOOLEAN, DataAnswer(ackArrives) \/ HangsAfterAck(ackArrives)
      PROVE  LoopNext
  BY <1>4 DEF DataAnswer, HangsAfterAck, LoopNext, Answers
<1>5. CASE CompletePacket
  <2>1. PICK last \in BOOLEAN : Through(last)
    BY <1>5 DEF CompletePacket
  <2>2. QED
    BY <2>1 DEF LoopNext
<1>6. CASE LoopStep \/ Elsewhere \/ Passes
  BY <1>6 DEF LoopStep, Elsewhere, Passes, LoopNext
<1>7. CASE Reconfigure \/ UNCHANGED vars
  BY <1>7 DEF Reconfigure, vars
<1>8. QED
  BY <1>1, <1>2, <1>3, <1>4, <1>5, <1>6, <1>7 DEF Next, Call

(* A packet that is accepted has the expected toggle and fits.             *)
LEMMA AcceptedFits ==
    ASSUME NEW expected, NEW limit \in Nat, NEW most \in Nat, NEW pid, NEW size \in Nat,
           Disposition(expected, limit, most, pid, size) = "accept"
    PROVE  pid = expected /\ size <= limit
BY DEF Disposition

(* A repetition is told by its toggle alone.                               *)
LEMMA DuplicateDiffers ==
    ASSUME NEW expected, NEW limit \in Nat, NEW most \in Nat, NEW pid, NEW size \in Nat,
           Disposition(expected, limit, most, pid, size) = "duplicate"
    PROVE  pid # expected
BY DEF Disposition

LEMMA AfterAckAlternates ==
    ASSUME NEW t \in Toggles
    PROVE  AfterAck(t) \in Toggles /\ AfterAck(t) # t /\ AfterAck(AfterAck(t)) = t
BY DEF AfterAck, Toggles

(* The part of the invariant that is not the loop's                        *)
ReadTypes ==
    /\ toggle \in Toggles
    /\ capacity \in Buffers \cup {0}
    /\ received \in 0 .. capacity
    /\ length \in 0 .. Mps
    /\ packet \in 0 .. Mps \cup {None}
    /\ devToggle \in Toggles
    /\ sent \in 0 .. MaxPackets
    /\ accepted \in Nat
    /\ tail \in 0 .. Mps
    /\ skipped \in BOOLEAN

DeviceWaits == packet # None => sent < MaxPackets

Filling ==
    /\ pc # "idle" => received < capacity
    /\ result = "done" => length = tail /\ received + length <= capacity
    /\ pc # "idle" /\ result # "done" => tail = Mps

LEMMA ReadInvParts == ReadInv <=> LoopInv /\ ReadTypes /\ InStep /\ DeviceWaits /\ Filling
BY DEF ReadInv, TypeOK, LoopInv, ReadTypes, DeviceWaits, Filling

LEMMA ReadStarts == Init => ReadInv
<1> SUFFICES ASSUME Init PROVE ReadInv
  OBVIOUS
<1>1. LoopInv /\ toggle \in Toggles /\ pc = "idle" /\ result = "none" /\ toggle = "DATA0"
  BY LoopStarts DEF Init, LoopInit
<1>2. ReadTypes
  <2>1. /\ devToggle = "DATA0" /\ capacity = 0 /\ received = 0 /\ length = 0 /\ sent = 0
        /\ packet = None /\ accepted = 0 /\ tail = Mps /\ skipped = FALSE
    BY DEF Init
  <2>2. skipped \in BOOLEAN
    BY <2>1
  <2>3. QED
    BY <1>1, <2>1, <2>2, BuffersAssumption, EndpointAssumption DEF ReadTypes, Toggles
<1>3. InStep /\ DeviceWaits /\ Filling
  BY <1>1 DEF Init, InStep, DeviceWaits, Filling
<1>4. QED
  BY <1>1, <1>2, <1>3, ReadInvParts

(* A data packet arrives and is judged.                                    *)
LEMMA DataAnswerKeepsInv ==
    ASSUME ReadInv, NEW ackArrives \in BOOLEAN, DataAnswer(ackArrives)
    PROVE  ReadTypes' /\ InStep' /\ DeviceWaits' /\ Filling'
<1> DEFINE found == Disposition(toggle, Limit, Mps, devToggle, packet)
<1>1. LoopInv /\ ReadTypes /\ InStep /\ DeviceWaits /\ Filling
  BY ReadInvParts
<1>2. packet \in 0 .. Mps /\ packet # None /\ sent < MaxPackets
  BY <1>1 DEF DataAnswer, ReadTypes, DeviceWaits
<1>3. pc = "wire" /\ pc' = "service" /\ result = "none"
  BY <1>1 DEF DataAnswer, Attempt, LoopInv, Counted
<1>4. Limit \in Nat /\ Limit <= capacity - received /\ Mps \in Nat
  BY <1>1, <1>3, EndpointAssumption, BuffersAssumption DEF Limit, Capped, ReadTypes, Filling
<1>5. /\ AfterAck(toggle) \in Toggles /\ AfterAck(toggle) # toggle
      /\ AfterAck(devToggle) \in Toggles
      /\ toggle # devToggle => AfterAck(devToggle) = toggle
  BY <1>1 DEF ReadTypes, AfterAck, Toggles
<1>6. /\ capacity' = capacity /\ received' = received /\ skipped' = skipped
      /\ received < capacity /\ tail = Mps
  BY <1>1, <1>3 DEF DataAnswer, Filling
<1>7. CASE found = "accept"
  <2>1. devToggle = toggle /\ packet <= Limit
    BY <1>2, <1>4, <1>7, AcceptedFits
  <2>2. /\ toggle' = AfterAck(toggle) /\ accepted' = accepted + 1
        /\ length' = packet /\ tail' = packet
    BY <1>7 DEF DataAnswer
  <2>3. ~skipped => accepted = sent
    BY <1>1, <2>1 DEF InStep
  <2>4. CASE ackArrives
    <3>1. packet' = None /\ devToggle' = AfterAck(devToggle) /\ sent' = sent + 1
      BY <1>7, <2>4 DEF DataAnswer, SeesAck
    <3>2. ReadTypes'
      BY <1>1, <1>2, <1>5, <1>6, <2>2, <3>1, BuffersAssumption DEF ReadTypes
    <3>3. InStep' /\ DeviceWaits'
      BY <1>6, <2>1, <2>2, <2>3, <3>1 DEF InStep, DeviceWaits
    <3>4. Filling'
      BY <1>1, <1>2, <1>3, <1>4, <1>6, <2>1, <2>2, <1>7, BuffersAssumption
      DEF Filling, DataAnswer, Attempt, ReadTypes
    <3>5. QED
      BY <3>2, <3>3, <3>4
  <2>5. CASE ~ackArrives
    <3>1. packet' = packet /\ devToggle' = devToggle /\ sent' = sent
      BY <1>7, <2>5 DEF DataAnswer, device
    <3>2. ReadTypes'
      BY <1>1, <1>2, <1>5, <1>6, <2>2, <3>1 DEF ReadTypes
    <3>3. InStep' /\ DeviceWaits'
      BY <1>1, <1>2, <1>5, <1>6, <2>1, <2>2, <2>3, <3>1 DEF InStep, DeviceWaits
    <3>4. Filling'
      BY <1>1, <1>2, <1>3, <1>4, <1>6, <2>1, <2>2, <1>7, BuffersAssumption
      DEF Filling, DataAnswer, Attempt, ReadTypes
    <3>5. QED
      BY <3>2, <3>3, <3>4
  <2>6. QED
    BY <2>4, <2>5
<1>8. CASE found # "accept"
  <2>1. UNCHANGED <<toggle, accepted, length, tail>>
    BY <1>8 DEF DataAnswer
  <2>2. result' # "done" /\ result' # "none"
    BY <1>8 DEF DataAnswer, Attempt
  <2>3. Filling'
    BY <1>3, <1>6, <2>1, <2>2 DEF Filling
  <2>4. CASE found = "duplicate" /\ ackArrives
    <3>1. packet' = None /\ devToggle' = AfterAck(devToggle) /\ sent' = sent + 1
      BY <1>8, <2>4 DEF DataAnswer, SeesAck
    <3>2. devToggle # toggle
      BY <1>2, <1>4, <2>4, DuplicateDiffers
    <3>3. ReadTypes'
      BY <1>1, <1>2, <1>5, <1>6, <2>1, <3>1, BuffersAssumption DEF ReadTypes
    <3>4. InStep' /\ DeviceWaits'
      BY <1>1, <1>5, <1>6, <2>1, <3>1, <3>2 DEF InStep, DeviceWaits
    <3>5. QED
      BY <2>3, <3>3, <3>4
  <2>5. CASE ~(found = "duplicate" /\ ackArrives)
    <3>1. packet' = packet /\ devToggle' = devToggle /\ sent' = sent
      BY <1>8, <2>5 DEF DataAnswer, Disposition, device
    <3>2. ReadTypes' /\ InStep' /\ DeviceWaits'
      BY <1>1, <1>6, <2>1, <3>1 DEF ReadTypes, InStep, DeviceWaits
    <3>3. QED
      BY <2>3, <3>2
  <2>6. QED
    BY <2>4, <2>5
<1>9. QED
  BY <1>7, <1>8

(* The engine fails after the ACK: either the device has not seen it, and  *)
(* nothing has happened, or it has.                                        *)
LEMMA HangsAfterAckKeepsInv ==
    ASSUME ReadInv, NEW ackArrives \in BOOLEAN, HangsAfterAck(ackArrives)
    PROVE  ReadTypes' /\ InStep' /\ DeviceWaits' /\ Filling'
<1> DEFINE found == Disposition(toggle, Limit, Mps, devToggle, packet)
<1>1. LoopInv /\ ReadTypes /\ InStep /\ DeviceWaits /\ Filling
  BY ReadInvParts
<1>2. packet \in 0 .. Mps /\ packet # None /\ sent < MaxPackets
  BY <1>1 DEF HangsAfterAck, ReadTypes, DeviceWaits
<1>3. pc = "wire" /\ result = "none" /\ result' = "failed"
  BY <1>1 DEF HangsAfterAck, Attempt, LoopInv, Counted
<1>4. UNCHANGED <<toggle, capacity, received, length, accepted, tail>>
  BY DEF HangsAfterAck, call
<1>5. skipped' = (skipped \/ (found = "accept" /\ ackArrives))
  BY DEF HangsAfterAck
<1>6. Filling'
  BY <1>1, <1>3, <1>4 DEF Filling
<1>7. CASE ackArrives
  <2>1. packet' = None /\ devToggle' = AfterAck(devToggle) /\ sent' = sent + 1
    BY <1>7 DEF HangsAfterAck, SeesAck
  <2>2. /\ AfterAck(devToggle) \in Toggles
        /\ toggle # devToggle => AfterAck(devToggle) = toggle
    BY <1>1 DEF ReadTypes, AfterAck, Toggles
  <2>3. ReadTypes'
    BY <1>1, <1>2, <1>4, <1>5, <2>1, <2>2, BuffersAssumption DEF ReadTypes
  <2>4. ~skipped' => found = "duplicate"
    BY <1>5, <1>7 DEF HangsAfterAck
  <2>5. found = "duplicate" => devToggle # toggle
    BY DEF Disposition
  <2>6. InStep' /\ DeviceWaits'
    BY <1>1, <1>4, <1>5, <2>1, <2>2, <2>4, <2>5 DEF InStep, DeviceWaits
  <2>7. QED
    BY <1>6, <2>3, <2>6
<1>8. CASE ~ackArrives
  <2>1. UNCHANGED <<packet, devToggle, sent>>
    BY <1>8 DEF HangsAfterAck, device
  <2>2. skipped' = skipped
    BY <1>1, <1>5, <1>8 DEF ReadTypes
  <2>3. ReadTypes' /\ InStep' /\ DeviceWaits'
    BY <1>1, <1>4, <2>1, <2>2 DEF ReadTypes, InStep, DeviceWaits
  <2>4. QED
    BY <1>6, <2>3
<1>9. QED
  BY <1>7, <1>8

LEMMA CompletePacketKeepsInv ==
    ASSUME ReadInv, CompletePacket
    PROVE  ReadTypes' /\ InStep' /\ DeviceWaits' /\ Filling'
<1>1. LoopInv /\ ReadTypes /\ InStep /\ DeviceWaits /\ Filling
  BY ReadInvParts
<1>2. /\ result = "done" /\ pc = "service" /\ result' = "none"
      /\ received' = received + length
      /\ UNCHANGED <<toggle, capacity, length, packet, devToggle, sent, accepted, tail, skipped>>
  BY DEF CompletePacket, Through, device
<1>3. length = tail /\ received + length <= capacity
  BY <1>1, <1>2 DEF Filling
<1>4. received \in Nat /\ length \in 0 .. Mps /\ capacity \in Nat /\ Mps \in Nat
  BY <1>1, EndpointAssumption, BuffersAssumption DEF ReadTypes
<1>5. ReadTypes'
  BY <1>1, <1>2, <1>3, <1>4 DEF ReadTypes
<1>6. InStep' /\ DeviceWaits'
  BY <1>1, <1>2 DEF InStep, DeviceWaits
<1>7. CASE Type # "Bulk" \/ received + length = capacity \/ length < Mps
  <2>1. pc' = "idle"
    BY <1>7 DEF CompletePacket, Through
  <2>2. QED
    BY <1>2, <1>5, <1>6, <2>1 DEF Filling
<1>8. CASE ~(Type # "Bulk" \/ received + length = capacity \/ length < Mps)
  <2>1. tail = Mps /\ received + length < capacity
    BY <1>3, <1>4, <1>8
  <2>2. QED
    BY <1>2, <1>5, <1>6, <2>1 DEF Filling
<1>9. QED
  BY <1>7, <1>8

(* Every step keeps the invariant.                                         *)
LEMMA ReadStepKeepsInv == ReadInv /\ [Next]_vars => ReadInv'
<1> SUFFICES ASSUME ReadInv, [Next]_vars PROVE ReadInv'
  OBVIOUS
<1>1. LoopInv /\ ReadTypes /\ InStep /\ DeviceWaits /\ Filling
  BY ReadInvParts
<1>2. LoopInv'
  BY <1>1, ReadStepIsLoopStep, LoopStepKeepsInv
<1>3. ReadTypes' /\ InStep' /\ DeviceWaits' /\ Filling'
  <2>1. ASSUME NEW size \in 0 .. Mps, Produce(size)
        PROVE  ReadTypes' /\ InStep' /\ DeviceWaits' /\ Filling'
    BY <1>1, <2>1, BuffersAssumption
    DEF Produce, call, loop, ReadTypes, InStep, DeviceWaits, Filling
  <2>2. CASE Reconfigure
    <3>1. /\ toggle' = "DATA0" /\ devToggle' = "DATA0" /\ packet' = None
          /\ sent' = 0 /\ accepted' = 0 /\ skipped' = FALSE
          /\ UNCHANGED <<pc, result, capacity, received, length, tail>>
      BY <2>2 DEF Reconfigure, call, loop
    <3>2. skipped' \in BOOLEAN
      BY <3>1
    <3>3. ReadTypes'
      BY <1>1, <3>1, <3>2, BuffersAssumption DEF ReadTypes, Toggles
    <3>4. InStep' /\ DeviceWaits' /\ Filling'
      BY <1>1, <3>1 DEF InStep, DeviceWaits, Filling
    <3>5. QED
      BY <3>3, <3>4
  <2>3. ASSUME NEW size \in Buffers, RequestIn(size)
        PROVE  ReadTypes' /\ InStep' /\ DeviceWaits' /\ Filling'
    <3>1. /\ capacity' = size /\ received' = 0 /\ length' = 0 /\ tail' = Mps
          /\ UNCHANGED <<toggle, packet, devToggle, sent, accepted, skipped>>
      BY <2>3 DEF RequestIn, device
    <3>2. ReadTypes' /\ InStep' /\ DeviceWaits'
      BY <1>1, <3>1, BuffersAssumption, EndpointAssumption DEF ReadTypes, InStep, DeviceWaits
    <3>3. result' = "none" /\ (size = 0 => pc' = "idle")
      BY <1>1, <2>3 DEF RequestIn, Begin, LoopInv, Counted
    <3>4. Filling'
      BY <3>1, <3>3, BuffersAssumption DEF Filling
    <3>5. QED
      BY <3>2, <3>4
  <2>4. CASE OtherAnswer
    <3>1. /\ pc = "wire" /\ result' # "done"
          /\ UNCHANGED <<toggle, capacity, received, length, packet, devToggle, sent,
                         accepted, tail, skipped>>
      BY <2>4 DEF OtherAnswer, Attempt, call, device
    <3>2. result # "done"
      BY <1>1, <3>1 DEF LoopInv, Counted
    <3>3. QED
      BY <1>1, <3>1, <3>2 DEF ReadTypes, InStep, DeviceWaits, Filling
  <2>5. ASSUME NEW ackArrives \in BOOLEAN, DataAnswer(ackArrives)
        PROVE  ReadTypes' /\ InStep' /\ DeviceWaits' /\ Filling'
    BY <2>5, DataAnswerKeepsInv
  <2>10. ASSUME NEW ackArrives \in BOOLEAN, HangsAfterAck(ackArrives)
         PROVE  ReadTypes' /\ InStep' /\ DeviceWaits' /\ Filling'
    BY <2>10, HangsAfterAckKeepsInv
  <2>6. CASE CompletePacket
    BY <2>6, CompletePacketKeepsInv
  <2>7. CASE (LoopStep \/ Invalidate \/ Cancel \/ Tick)
             /\ UNCHANGED <<toggle, call, device, accepted, tail, skipped>>
    <3>1. UNCHANGED <<toggle, capacity, received, length, packet, devToggle, sent,
                      accepted, tail, skipped>>
      BY <2>7 DEF call, device
    <3>2. ReadTypes' /\ InStep' /\ DeviceWaits'
      BY <1>1, <3>1 DEF ReadTypes, InStep, DeviceWaits
    <3>3. \/ pc' = "idle" /\ result' = "none"
          \/ pc # "idle" /\ result # "done" /\ result' # "done"
          \/ UNCHANGED <<pc, result>>
      BY <1>1, <2>7 DEF LoopStep, Invalidate, Cancel, Tick, Due, Gone, Broken, Naked,
                        Unanswered, Again, Fail, LoopInv, Counted
    <3>4. Filling'
      BY <1>1, <3>1, <3>3 DEF Filling
    <3>5. QED
      BY <3>2, <3>4
  <2>8. CASE UNCHANGED vars
    BY <1>1, <2>8 DEF vars, loop, call, device, ReadTypes, InStep, DeviceWaits, Filling
  <2>9. QED
    BY <2>1, <2>2, <2>3, <2>4, <2>5, <2>6, <2>7, <2>8, <2>10
    DEF Next, Call, Elsewhere, Passes
<1>4. QED
  BY <1>2, <1>3 DEF ReadInv, TypeOK, LoopInv, ReadTypes, DeviceWaits, Filling

(* The invariant of a read: toggles in step, buffers not overrun, retries  *)
(* and pacing as in PipeLoopProofs.                                        *)
THEOREM ReadSafety == Spec => []ReadInv
BY ReadStarts, ReadStepKeepsInv, PTL DEF Spec

------------------------------------------------------------------------------
(* Refinement                                                              *)

LEMMA ReadStepMaps == ReadInv /\ [Next]_vars => [Stream!Next]_<<accepted, sent, skipped>>
<1> SUFFICES ASSUME ReadInv, [Next]_vars PROVE [Stream!Next]_<<accepted, sent, skipped>>
  OBVIOUS
<1>1. ReadTypes /\ InStep
  BY ReadInvParts
<1>2. CASE Reconfigure
  BY <1>2 DEF Reconfigure, Stream!Next, Stream!Restart
<1>3. CASE skipped' = TRUE
  BY <1>3 DEF Stream!Next, Stream!Break
<1>4. ASSUME NEW ackArrives \in BOOLEAN, DataAnswer(ackArrives), ~skipped
      PROVE  [Stream!Next]_<<accepted, sent, skipped>>
  <2> DEFINE found == Disposition(toggle, Limit, Mps, devToggle, packet)
  <2>1. found = "accept" => devToggle = toggle
    BY DEF Disposition
  <2>2. found = "duplicate" => devToggle # toggle
    BY DEF Disposition
  <2>3. accepted \in Nat /\ sent \in Nat /\ ~skipped /\ skipped' = skipped
    BY <1>1, <1>4, BuffersAssumption DEF ReadTypes, DataAnswer
  <2>4. CASE found = "accept"
    <3>1. accepted = sent /\ accepted' = accepted + 1
      BY <1>1, <1>4, <2>1, <2>3, <2>4 DEF DataAnswer, InStep
    <3>2. sent' \in {sent, sent + 1}
      BY <1>4, <2>4 DEF DataAnswer, SeesAck, device
    <3>3. QED
      BY <2>3, <3>1, <3>2 DEF Stream!Next, Stream!Take
  <2>5. CASE found = "duplicate"
    <3>1. accepted = sent + 1 /\ accepted' = accepted
      BY <1>1, <1>4, <2>2, <2>3, <2>5 DEF DataAnswer, InStep
    <3>2. sent' \in {sent, sent + 1}
      BY <1>4, <2>5 DEF DataAnswer, SeesAck, device
    <3>3. QED
      BY <2>3, <3>1, <3>2 DEF Stream!Next, Stream!Learn
  <2>6. CASE found \notin {"accept", "duplicate"}
    <3>1. UNCHANGED <<accepted, sent>>
      BY <1>4, <2>6 DEF DataAnswer, Disposition, device
    <3>2. QED
      BY <2>3, <3>1
  <2>7. QED
    BY <2>4, <2>5, <2>6
<1>5. ASSUME NEW ackArrives \in BOOLEAN, HangsAfterAck(ackArrives), ~skipped'
      PROVE  [Stream!Next]_<<accepted, sent, skipped>>
  <2> DEFINE found == Disposition(toggle, Limit, Mps, devToggle, packet)
  <2>1. ~skipped /\ (found = "accept" => ~ackArrives) /\ found \in {"accept", "duplicate"}
    BY <1>5 DEF HangsAfterAck
  <2>2. skipped' = skipped /\ accepted' = accepted
    BY <1>1, <1>5, <2>1 DEF HangsAfterAck, ReadTypes
  <2>3. CASE ackArrives
    <3>1. found = "duplicate" /\ devToggle # toggle
      BY <2>1, <2>3 DEF Disposition
    <3>2. accepted = sent + 1 /\ sent' = sent + 1 /\ sent \in Nat
      BY <1>1, <1>5, <2>1, <2>3, <3>1, BuffersAssumption
      DEF HangsAfterAck, SeesAck, InStep, ReadTypes
    <3>3. QED
      BY <2>1, <2>2, <3>2 DEF Stream!Next, Stream!Learn
  <2>4. CASE ~ackArrives
    BY <1>5, <2>2, <2>4 DEF HangsAfterAck, device
  <2>5. QED
    BY <2>3, <2>4
<1>6. CASE /\ ~Reconfigure
           /\ ~\E ackArrives \in BOOLEAN : DataAnswer(ackArrives) \/ HangsAfterAck(ackArrives)
  <2>1. UNCHANGED <<accepted, sent, skipped>>
    BY <1>6 DEF Next, Call, Produce, RequestIn, OtherAnswer, CompletePacket, Elsewhere,
                Passes, vars, device
  <2>2. QED
    BY <2>1
<1>7. CASE skipped /\ ~skipped' /\ ~Reconfigure
  BY <1>1, <1>7 DEF Next, Call, Produce, RequestIn, OtherAnswer, DataAnswer, HangsAfterAck,
                    CompletePacket, Elsewhere, Passes, vars, ReadTypes
<1>8. QED
  BY <1>1, <1>2, <1>3, <1>4, <1>5, <1>6, <1>7 DEF ReadTypes

(* The packets the host accepts are the device's, in order and each once,  *)
(* until the engine drops one after its ACK.                               *)
THEOREM ReadsStopAndWait == Spec => ImplementsStopAndWait
<1>1. Init => Stream!Init
  BY DEF Init, Stream!Init
<1>2. QED
  BY <1>1, ReadStepMaps, ReadSafety, PTL DEF Spec, ImplementsStopAndWait, Stream!Spec

------------------------------------------------------------------------------
(* Action properties                                                       *)

(* No packet is accepted into a buffer after a short one.                  *)
THEOREM ReadsDoNotMerge == Spec => NoMergedTransfers
<1>1. ReadInv /\ [Next]_vars => [accepted' > accepted => tail = Mps]_vars
  <2> SUFFICES ASSUME ReadInv, [Next]_vars, accepted' > accepted PROVE tail = Mps
    OBVIOUS
  <2>1. LoopInv /\ ReadTypes /\ Filling
    BY ReadInvParts
  <2>2. accepted' # accepted /\ accepted' # 0
    BY <2>1 DEF ReadTypes
  <2>3. PICK ackArrives \in BOOLEAN : DataAnswer(ackArrives)
    BY <2>2 DEF Next, Call, Produce, Reconfigure, RequestIn, OtherAnswer, HangsAfterAck,
                CompletePacket, Elsewhere, Passes, vars
  <2>4. pc = "wire" /\ result # "done"
    BY <2>1, <2>3 DEF DataAnswer, Attempt, LoopInv, Counted
  <2>5. QED
    BY <2>1, <2>4 DEF Filling
<1>2. QED
  BY <1>1, ReadSafety, PTL DEF Spec, NoMergedTransfers

(* A failing read has lost neither the end of a transfer nor a full buffer,*)
(* unless the engine has dropped a packet after its ACK.                   *)
THEOREM ErrorsSpareWholeReads == Spec => ErrorSparesWholeReads
<1>1. ReadInv /\ [Next]_vars =>
          [outcome' # outcome /\ outcome' \in {"stall", "badResponse", "timeout"} /\ ~skipped =>
              tail = Mps /\ received < capacity]_vars
  <2> SUFFICES ASSUME ReadInv, [Next]_vars, outcome' # outcome,
                      outcome' \in {"stall", "badResponse", "timeout"}, ~skipped
               PROVE  tail = Mps /\ received < capacity
    OBVIOUS
  <2>1. LoopInv /\ ReadTypes /\ Filling
    BY ReadInvParts
  <2>2. [LoopNext]_loop
    BY ReadStepIsLoopStep
  <2>3. Broken \/ Unanswered
    BY <2>2 DEF LoopNext, loop, timing, Invalidate, Tick, Begin, ReturnAtOnce, Due, Attempt,
                Gone, Broken, Naked, Unanswered, Through, Cancel, Again, Fail
  <2>4. pc = "service" /\ result # "done"
    BY <2>3 DEF Broken, Unanswered
  <2>5. QED
    BY <2>1, <2>4 DEF Filling
<1>2. QED
  BY <1>1, ReadSafety, PTL DEF Spec, ErrorSparesWholeReads

(* The retry limit ends a read only on a device that was silent RetryLimit *)
(* times in a row; what else times out is the engine's failure.            *)
THEOREM ReadGivesUpOnSilence == Spec => GivesUpOnSilence
<1>1. ReadInv /\ [Next]_vars =>
          [outcome' # outcome /\ outcome' = "timeout" /\ result # "failed" =>
              silence = RetryLimit]_vars
  BY ReadInvParts, ReadStepIsLoopStep, TimeoutAfterSilence
<1>2. QED
  BY <1>1, ReadSafety, PTL DEF Spec, GivesUpOnSilence

(* An interrupt endpoint is not polled before its interval is over, nor a  *)
(* bulk endpoint without data before a millisecond is.                     *)
THEOREM ReadsAreSpaced == Spec => PollsAreSpaced
<1>1. ReadInv /\ [Next]_vars => [pc = "wire" /\ pc' = "service" => since >= owed]_vars
  BY ReadInvParts, SpacedOnTheWire
<1>2. QED
  BY <1>1, ReadSafety, PTL DEF Spec, PollsAreSpaced
==============================================================================
