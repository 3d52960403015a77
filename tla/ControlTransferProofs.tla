------------------------- MODULE ControlTransferProofs -------------------------
(***************************************************************************)
(* Proofs about ControlTransfer, for every packet size, every request and  *)
(* reply length, every deadline and both retry limits.                     *)
(***************************************************************************)
EXTENDS ControlTransfer, TLAPS

Stages == SetupStage /\ DataInStage /\ DataOutStage /\ StatusStages

Numbers ==
    /\ requested \in Nat /\ reply \in Nat /\ moved \in Nat /\ devAt \in Nat /\ executed \in Nat
    /\ Mps \in Nat \ {0}

LEMMA NumbersAre == ControlInv => Numbers
BY ControlAssumption DEF ControlInv, TypeOK, Numbers

LEMMA ToggleAlternates ==
    ASSUME NEW t \in Toggles
    PROVE  /\ AfterAck(t) \in Toggles /\ AfterAck(t) # t
           /\ \A u \in Toggles : u # t => AfterAck(t) = u
BY DEF AfterAck, Toggles

(* What every attempt leaves alone or keeps within its bounds              *)
LEMMA FrameType ==
    ASSUME ControlInv, FramePasses
    PROVE  left' \in 0 .. Deadline
BY ControlAssumption DEF ControlInv, TypeOK, FramePasses

(* A call that ends leaves nothing behind that the next one would meet.    *)
LEMMA ReturnKeepsInv ==
    ASSUME ControlInv, pc' = "idle", outcome' \in Outcomes,
           UNCHANGED <<inward, requested>>,
           moved' \in 0 .. requested, toggle' \in Toggles,
           noResponse' \in 0 .. NoResponseLimit, badResponse' \in 0 .. BadResponseLimit,
           left' \in 0 .. Deadline, framed' \in BOOLEAN,
           devStage' \in {"none", "data", "status", "done"}, devAt' \in Nat,
           devToggle' \in Toggles, reply' \in Replies \cup {0}, executed' \in Nat,
           ExecutedOnce'
    PROVE  ControlInv'
<1>1. TypeOK'
  BY DEF ControlInv, TypeOK
<1>2. DataInStep' /\ Stages'
  BY DEF DataInStep, Stages, SetupStage, DataInStage, DataOutStage, StatusStages
<1>3. QED
  BY <1>1, <1>2 DEF ControlInv, Stages

(* An answer that does not complete a stage either ends the call or leaves *)
(* everything as it is.                                                    *)
LEMMA RefusedReturnsOrStays ==
    ASSUME NEW found, Refused(found)
    PROVE  \/ pc' = "idle" /\ outcome' \in {"timeout", "stall", "badResponse"}
           \/ UNCHANGED <<pc, outcome>>
BY DEF Refused, AgainBeforeDeadline, Return, Stay

LEMMA RefusedKeepsInv ==
    ASSUME ControlInv, FramePasses, NEW found, Refused(found), pc # "setup",
           UNCHANGED <<host, moved, toggle, device>>, framed' \in BOOLEAN
    PROVE  ControlInv'
<1>1. left' \in 0 .. Deadline
  BY FrameType
<1>2. UNCHANGED <<inward, requested, noResponse, badResponse, moved, toggle, devStage, devAt,
                  devToggle, reply, executed>>
  BY DEF host, device
<1>3. ExecutedOnce'
  BY <1>2 DEF ControlInv, ExecutedOnce
<1>4. CASE pc' = "idle" /\ outcome' \in {"timeout", "stall", "badResponse"}
  BY <1>1, <1>2, <1>3, <1>4, ReturnKeepsInv DEF ControlInv, TypeOK, Outcomes
<1>5. CASE UNCHANGED <<pc, outcome>>
  <2>1. TypeOK'
    BY <1>1, <1>2, <1>5 DEF ControlInv, TypeOK
  <2>2. DataInStep'
    BY <1>2, <1>5 DEF ControlInv, DataInStep, OutPacket
  <2>3. SetupStage' /\ DataInStage' /\ DataOutStage' /\ StatusStages'
    BY <1>2, <1>5 DEF ControlInv, SetupStage, DataInStage, DataOutStage, StatusStages,
                      ReplyPacket
  <2>4. QED
    BY <1>3, <2>1, <2>2, <2>3 DEF ControlInv
<1>6. QED
  BY <1>4, <1>5, RefusedReturnsOrStays

------------------------------------------------------------------------------
(* SETUP                                                                   *)

LEMMA BeginKeepsInv ==
    ASSUME ControlInv, NEW in \in BOOLEAN, NEW size \in Sizes, Begin(in, size),
           in => size # 0
    PROVE  ControlInv'
<1>1. size \in Nat /\ Deadline \in Nat /\ NoResponseLimit \in Nat \ {0}
      /\ BadResponseLimit \in Nat \ {0}
  BY ControlAssumption
<1>2. TypeOK'
  BY <1>1 DEF ControlInv, TypeOK, Begin, Outcomes, Toggles
<1>3. DataInStep' /\ ExecutedOnce'
  BY DEF Begin, DataInStep, ExecutedOnce
<1>4. SetupStage' /\ DataInStage' /\ DataOutStage' /\ StatusStages'
  BY <1>1 DEF Begin, SetupStage, DataInStage, DataOutStage, StatusStages
<1>5. QED
  BY <1>2, <1>3, <1>4 DEF ControlInv

(* An answer other than an ACK: the call ends or SETUP is sent again, with *)
(* counts below their limits.                                              *)
LEMMA SetupRefused ==
    ASSUME ControlInv, pc = "setup", NEW found, SetupAnswered(found), found # "ack"
    PROVE  /\ framed' = framed
           /\ noResponse' \in 0 .. NoResponseLimit /\ badResponse' \in 0 .. BadResponseLimit
           /\ \/ pc' = "idle" /\ outcome' \in {"timeout", "stall", "badResponse"}
              \/ /\ UNCHANGED <<pc, outcome>>
                 /\ noResponse' < NoResponseLimit /\ badResponse' < BadResponseLimit
<1>1. /\ noResponse \in Nat /\ noResponse < NoResponseLimit
      /\ badResponse \in Nat /\ badResponse < BadResponseLimit
      /\ NoResponseLimit \in Nat /\ BadResponseLimit \in Nat
  BY ControlAssumption DEF ControlInv, TypeOK, SetupStage
<1>2. CASE found = "nak"
  BY <1>1, <1>2, ControlAssumption DEF SetupAnswered, AgainBeforeDeadline, Return, Stay
<1>3. CASE found = "noResponse"
  BY <1>1, <1>3 DEF SetupAnswered, AgainBeforeDeadline, Return, Stay
<1>4. CASE found = "invalid"
  BY <1>1, <1>4 DEF SetupAnswered, AgainBeforeDeadline, Return, Stay
<1>5. CASE found = "stall"
  BY <1>1, <1>5 DEF SetupAnswered, Return
<1>6. QED
  BY <1>2, <1>3, <1>4, <1>5 DEF SetupAnswered

(* SETUP was not acknowledged, whatever the device made of it.             *)
LEMMA SetupRefusedKeepsInv ==
    ASSUME ControlInv, pc = "setup", FramePasses, NEW found, SetupAnswered(found),
           found # "ack", UNCHANGED <<inward, requested, moved, toggle, executed>>,
           devStage' \in {"none", "data", "status", "done"}, devAt' \in Nat,
           devToggle' \in Toggles, reply' \in Replies \cup {0}
    PROVE  ControlInv'
<1>1. left' \in 0 .. Deadline
  BY FrameType
<1>2. moved = 0 /\ toggle = "DATA1" /\ executed = 0 /\ (inward => requested > 0)
  BY DEF ControlInv, SetupStage
<1>3. ExecutedOnce'
  BY <1>2 DEF ExecutedOnce
<1>4. framed' \in BOOLEAN
  BY SetupRefused DEF ControlInv, TypeOK
<1>5. moved' \in 0 .. requested /\ toggle' \in Toggles /\ executed' \in Nat
  BY DEF ControlInv, TypeOK
<1>6. CASE pc' = "idle" /\ outcome' \in {"timeout", "stall", "badResponse"}
  <2>1. outcome' \in Outcomes
    BY <1>6 DEF Outcomes
  <2>2. QED
    BY <1>1, <1>3, <1>4, <1>5, <1>6, <2>1, SetupRefused, ReturnKeepsInv
<1>7. CASE /\ UNCHANGED <<pc, outcome>>
           /\ noResponse' < NoResponseLimit /\ badResponse' < BadResponseLimit
  <2>1. noResponse' \in 0 .. NoResponseLimit /\ badResponse' \in 0 .. BadResponseLimit
    BY SetupRefused
  <2>2. TypeOK'
    BY <1>1, <1>4, <1>5, <1>7, <2>1 DEF ControlInv, TypeOK
  <2>3. SetupStage'
    BY <1>2, <1>7 DEF SetupStage
  <2>4. DataInStep' /\ DataInStage' /\ DataOutStage' /\ StatusStages'
    BY <1>7 DEF DataInStep, DataInStage, DataOutStage, StatusStages
  <2>5. QED
    BY <1>3, <2>2, <2>3, <2>4 DEF ControlInv
<1>8. QED
  BY <1>6, <1>7, SetupRefused

LEMMA SetupLostKeepsInv == ControlInv /\ SetupLost => ControlInv'
<1> SUFFICES ASSUME ControlInv, SetupLost PROVE ControlInv'
  OBVIOUS
<1>1. PICK found \in {"noResponse", "nak", "stall", "invalid"} : SetupAnswered(found)
  BY DEF SetupLost
<1>2. /\ pc = "setup" /\ FramePasses /\ found # "ack"
      /\ UNCHANGED <<inward, requested, moved, toggle, executed>>
      /\ UNCHANGED <<devStage, devAt, devToggle, reply>>
  BY DEF SetupLost, device
<1>3. /\ devStage' \in {"none", "data", "status", "done"} /\ devAt' \in Nat
      /\ devToggle' \in Toggles /\ reply' \in Replies \cup {0}
  BY <1>2 DEF ControlInv, TypeOK
<1>4. QED
  BY <1>1, <1>2, <1>3, SetupRefusedKeepsInv

LEMMA SetupTakenKeepsInv ==
    ASSUME ControlInv, NEW length \in Replies, SetupTaken(length)
    PROVE  ControlInv'
<1>1. PICK found \in {"ack", "noResponse", "invalid"} : SetupAnswered(found)
  BY DEF SetupTaken
<1>2. /\ pc = "setup" /\ FramePasses
      /\ UNCHANGED <<inward, requested, moved, toggle, executed>>
      /\ devStage' = (IF requested > 0 THEN "data" ELSE "status")
      /\ devAt' = 0 /\ devToggle' = "DATA1"
      /\ reply' = (IF inward THEN length ELSE 0)
  BY DEF SetupTaken
<1>3. /\ devStage' \in {"none", "data", "status", "done"} /\ devAt' \in Nat
      /\ devToggle' \in Toggles /\ reply' \in Replies \cup {0}
  BY <1>2 DEF Toggles
<1>4. CASE found # "ack"
  BY <1>1, <1>2, <1>3, <1>4, SetupRefusedKeepsInv
<1>5. CASE found = "ack"
  <2>1. /\ outcome' = outcome /\ UNCHANGED <<noResponse, badResponse>>
        /\ framed' = (requested > 0)
        /\ pc' = CASE inward -> "dataIn"
                   [] ~inward /\ requested > 0 -> "dataOut"
                   [] OTHER -> "statusIn"
    BY <1>1, <1>5 DEF SetupAnswered, EnterStage
  <2>2. /\ moved = 0 /\ toggle = "DATA1" /\ executed = 0 /\ (inward => requested > 0)
        /\ requested \in Nat /\ length \in Nat /\ inward \in BOOLEAN
    BY <1>2, NumbersAre, ControlAssumption DEF ControlInv, SetupStage, Numbers, TypeOK
  <2>3. pc' \in {"dataIn", "dataOut", "statusIn"}
    BY <2>1
  <2>4. TypeOK'
    <3>1. left' \in 0 .. Deadline /\ framed' \in BOOLEAN
      BY <1>2, <2>1, FrameType
    <3>2. QED
      BY <1>2, <1>3, <2>1, <2>3, <3>1 DEF ControlInv, TypeOK
  <2>5. ExecutedOnce' /\ SetupStage'
    BY <1>2, <2>2, <2>3 DEF ExecutedOnce, SetupStage
  <2>6. CASE inward
    <3>1. pc' = "dataIn" /\ requested > 0
      BY <2>1, <2>2, <2>6
    <3>2. QED
      BY <1>2, <2>2, <2>4, <2>5, <2>6, <3>1
      DEF ControlInv, DataInStep, DataInStage, DataOutStage, StatusStages
  <2>7. CASE ~inward /\ requested > 0
    <3>1. pc' = "dataOut"
      BY <2>1, <2>7
    <3>2. QED
      BY <1>2, <2>2, <2>4, <2>5, <2>7, <3>1
      DEF ControlInv, DataInStep, DataInStage, DataOutStage, StatusStages
  <2>8. CASE ~inward /\ requested = 0
    <3>1. pc' = "statusIn"
      BY <2>1, <2>8
    <3>2. QED
      BY <1>2, <2>2, <2>4, <2>5, <2>8, <3>1
      DEF ControlInv, DataInStep, DataInStage, DataOutStage, StatusStages
  <2>9. QED
    BY <2>2, <2>6, <2>7, <2>8
<1>6. QED
  BY <1>4, <1>5

------------------------------------------------------------------------------
(* The data stage of control_in                                            *)

(* The device sees the ACK of its packet.                                  *)
LEMMA SeesAckTypes ==
    ASSUME ControlInv, pc = "dataIn", DeviceSeesAck
    PROVE  /\ devAt' \in Nat /\ devToggle' \in Toggles
           /\ devStage' \in {"data", "status"}
           /\ reply' = reply /\ executed' = executed
<1>1. ReplyPacket \in Nat /\ devAt \in Nat
  BY NumbersAre DEF Numbers, ReplyPacket, AtMost, ControlInv, DataInStage
<1>2. devToggle \in Toggles
  BY DEF ControlInv, TypeOK
<1>3. QED
  BY <1>1, <1>2, ToggleAlternates DEF DeviceSeesAck

LEMMA DataInArrivesKeepsInv ==
    ASSUME ControlInv, NEW ackArrives \in BOOLEAN, DataInArrives(ackArrives)
    PROVE  ControlInv'
<1> DEFINE packet == ReplyPacket
<1>1. /\ pc = "dataIn" /\ FramePasses /\ Numbers
      /\ UNCHANGED <<inward, requested, noResponse, badResponse>>
  BY NumbersAre DEF DataInArrives, host
<1>2. /\ inward /\ devStage = "data" /\ executed = 0
      /\ moved < requested /\ devAt <= reply
      /\ toggle # devToggle => packet = Mps
      /\ moved = IF toggle = devToggle THEN devAt ELSE devAt + Mps
  BY <1>1 DEF ControlInv, DataInStage, DataInStep
<1>3. /\ packet \in Nat /\ packet <= Mps /\ packet <= reply - devAt
      /\ (packet < Mps => packet = reply - devAt)
  BY <1>1, <1>2 DEF ReplyPacket, AtMost, Numbers
<1>4. left' \in 0 .. Deadline
  BY <1>1, FrameType
<1>5. /\ ackArrives => DeviceSeesAck
      /\ ~ackArrives => UNCHANGED <<devStage, devAt, devToggle, reply, executed>>
  BY DEF DataInArrives, device
<1>6. /\ devAt' \in Nat /\ devToggle' \in Toggles
      /\ devStage' \in {"data", "status"}
      /\ reply' = reply /\ executed' = executed
  <2>1. CASE ackArrives
    BY <1>1, <1>5, <2>1, SeesAckTypes
  <2>2. CASE ~ackArrives
    BY <1>2, <1>5, <2>2 DEF ControlInv, TypeOK
  <2>3. QED
    BY <2>1, <2>2
<1>7. devStage' \in {"none", "data", "status", "done"}
  BY <1>6
<1>8. ExecutedOnce'
  BY <1>2, <1>6 DEF ExecutedOnce
<1>9. /\ AfterAck(toggle) \in Toggles /\ AfterAck(toggle) # toggle
      /\ toggle # devToggle => AfterAck(devToggle) = toggle
      /\ toggle \in Toggles /\ devToggle \in Toggles
  <2>1. toggle \in Toggles /\ devToggle \in Toggles
    BY DEF ControlInv, TypeOK
  <2>2. QED
    BY <2>1, ToggleAlternates
<1>11. ASSUME pc' = "idle", outcome' \in {"timeout", "badResponse"},
              UNCHANGED <<moved, toggle, framed>>
       PROVE  ControlInv'
  <2>1. outcome' \in Outcomes /\ moved' \in 0 .. requested /\ toggle' \in Toggles
        /\ framed' \in BOOLEAN
        /\ noResponse' \in 0 .. NoResponseLimit /\ badResponse' \in 0 .. BadResponseLimit
        /\ reply' \in Replies \cup {0} /\ executed' \in Nat
    BY <1>1, <1>6, <1>11 DEF Outcomes, ControlInv, TypeOK
  <2>2. QED
    BY <1>1, <1>4, <1>6, <1>7, <1>8, <1>11, <2>1, ReturnKeepsInv
<1>12. CASE Disposition(toggle, Mps, Mps, devToggle, packet) = "accept"
  <2>1. devToggle = toggle
    BY <1>12 DEF Disposition
  <2>2. DataAccepted(packet)
    BY <1>12 DEF DataInArrives
  <2>3. CASE moved + packet > requested
    BY <2>2, <2>3, <1>11 DEF DataAccepted, Return
  <2>4. CASE ~(moved + packet > requested)
    <3>1. /\ moved' = moved + packet /\ toggle' = AfterAck(toggle)
          /\ outcome' = outcome /\ framed' \in BOOLEAN
          /\ IF packet < Mps \/ moved' = requested THEN pc' = "statusOut" ELSE pc' = pc
      BY <2>2, <2>4 DEF DataAccepted, EnterStage, Stay, ControlInv, TypeOK
    <3>2. moved' \in 0 .. requested /\ moved' = devAt + packet
      BY <1>1, <1>2, <1>3, <2>1, <2>4, <3>1 DEF Numbers
    <3>3. pc' \in {"dataIn", "statusOut"}
      BY <1>1, <3>1
    <3>4. TypeOK'
      BY <1>1, <1>4, <1>6, <1>7, <1>9, <3>1, <3>2, <3>3 DEF ControlInv, TypeOK
    <3>5. CASE packet < Mps \/ moved' = requested
      <4>1. pc' = "statusOut"
        BY <3>1, <3>5
      <4>2. moved' = AtMost(reply, requested)
        BY <1>1, <1>3, <3>2, <3>5 DEF AtMost, Numbers
      <4>3. DataInStep' /\ SetupStage' /\ DataInStage' /\ DataOutStage'
        BY <4>1 DEF DataInStep, SetupStage, DataInStage, DataOutStage
      <4>4. devStage' # "done"
        BY <1>6
      <4>5. StatusStages'
        BY <1>1, <1>2, <1>6, <4>1, <4>2, <4>4 DEF StatusStages
      <4>6. QED
        BY <1>8, <3>4, <4>3, <4>5 DEF ControlInv
    <3>6. CASE ~(packet < Mps \/ moved' = requested)
      <4>1. pc' = "dataIn" /\ packet = Mps /\ moved' < requested
        BY <1>1, <1>3, <3>1, <3>2, <3>6 DEF Numbers
      <4>2. CASE ackArrives
        <5>1. devAt' = devAt + packet /\ devToggle' = AfterAck(devToggle)
              /\ devStage' = IF packet < Mps \/ devAt' >= requested THEN "status" ELSE "data"
          BY <1>5, <4>2 DEF DeviceSeesAck
        <5>2. devStage' = "data" /\ devAt' = moved' /\ devAt' <= reply /\ toggle' = devToggle'
          BY <1>1, <1>3, <2>1, <3>1, <3>2, <4>1, <5>1 DEF Numbers
        <5>3. DataInStep' /\ DataInStage'
          BY <1>1, <1>2, <1>6, <4>1, <5>2 DEF DataInStep, DataInStage
        <5>4. SetupStage' /\ DataOutStage' /\ StatusStages'
          BY <4>1 DEF SetupStage, DataOutStage, StatusStages
        <5>5. QED
          BY <1>8, <3>4, <5>3, <5>4 DEF ControlInv
      <4>3. CASE ~ackArrives
        <5>1. UNCHANGED <<devStage, devAt, devToggle>>
          BY <1>5, <4>3
        <5>2. toggle' # devToggle' /\ ReplyPacket' = Mps
          BY <1>6, <1>9, <2>1, <3>1, <4>1, <5>1 DEF ReplyPacket
        <5>3. DataInStep' /\ DataInStage'
          BY <1>1, <1>2, <1>6, <3>2, <4>1, <5>1, <5>2 DEF DataInStep, DataInStage
        <5>4. SetupStage' /\ DataOutStage' /\ StatusStages'
          BY <4>1 DEF SetupStage, DataOutStage, StatusStages
        <5>5. QED
          BY <1>8, <3>4, <5>3, <5>4 DEF ControlInv
      <4>4. QED
        BY <4>2, <4>3
    <3>7. QED
      BY <3>5, <3>6
  <2>5. QED
    BY <2>3, <2>4
<1>13. CASE Disposition(toggle, Mps, Mps, devToggle, packet) # "accept"
  <2>1. devToggle # toggle
    BY <1>1, <1>3, <1>13 DEF Disposition, Numbers
  <2>2. AgainBeforeDeadline /\ UNCHANGED <<moved, toggle, framed>>
    BY <1>13 DEF DataInArrives
  <2>3. CASE pc' = "idle" /\ outcome' = "timeout"
    BY <1>11, <2>2, <2>3
  <2>4. CASE UNCHANGED <<pc, outcome>>
    <3>1. pc' = "dataIn" /\ packet = Mps /\ moved = devAt + Mps
      BY <1>1, <1>2, <2>1, <2>4
    <3>2. TypeOK'
      BY <1>1, <1>4, <1>6, <1>7, <2>2, <2>4 DEF ControlInv, TypeOK
    <3>3. SetupStage' /\ DataOutStage' /\ StatusStages'
      BY <3>1 DEF SetupStage, DataOutStage, StatusStages
    <3>4. CASE ackArrives
      <4>1. devAt' = devAt + packet /\ devToggle' = AfterAck(devToggle)
            /\ devStage' = IF packet < Mps \/ devAt' >= requested THEN "status" ELSE "data"
        BY <1>5, <3>4 DEF DeviceSeesAck
      <4>2. devStage' = "data" /\ devAt' = moved /\ devToggle' = toggle /\ devAt' <= reply
        BY <1>1, <1>2, <1>3, <1>9, <2>1, <3>1, <4>1 DEF Numbers
      <4>3. DataInStep' /\ DataInStage'
        BY <1>1, <1>2, <1>6, <2>2, <4>2 DEF DataInStep, DataInStage
      <4>4. QED
        BY <1>8, <3>2, <3>3, <4>3 DEF ControlInv
    <3>5. CASE ~ackArrives
      <4>1. UNCHANGED <<devStage, devAt, devToggle, reply>>
        BY <1>5, <3>5
      <4>2. DataInStep' /\ DataInStage'
        BY <1>1, <1>2, <1>6, <2>2, <3>1, <4>1 DEF DataInStep, DataInStage, ReplyPacket
      <4>3. QED
        BY <1>8, <3>2, <3>3, <4>2 DEF ControlInv
    <3>6. QED
      BY <3>4, <3>5
  <2>5. QED
    BY <2>2, <2>3, <2>4 DEF AgainBeforeDeadline, Return, Stay
<1>14. QED
  BY <1>12, <1>13

------------------------------------------------------------------------------
(* The data stage of control_out                                           *)

LEMMA DataOutTakenKeepsInv == ControlInv /\ DataOutTaken => ControlInv'
<1> SUFFICES ASSUME ControlInv, DataOutTaken PROVE ControlInv'
  OBVIOUS
<1>1. PICK found \in {"ack", "noResponse", "invalid"} : DataOutAcked(found)
  BY DEF DataOutTaken
<1>2. /\ pc = "dataOut" /\ FramePasses /\ Numbers
      /\ UNCHANGED <<inward, requested, noResponse, badResponse, reply, executed>>
  BY NumbersAre DEF DataOutTaken, host
<1>3. /\ ~inward /\ executed = 0 /\ moved < requested
      /\ devStage = IF devAt = requested THEN "status" ELSE "data"
      /\ devAt = IF toggle = devToggle THEN moved ELSE moved + OutPacket
  BY <1>2 DEF ControlInv, DataOutStage, DataInStep
<1>4. OutPacket \in Nat \ {0} /\ moved + OutPacket <= requested
  BY <1>2, <1>3 DEF OutPacket, AtMost, Numbers
<1>5. left' \in 0 .. Deadline
  BY <1>2, FrameType
<1>6. /\ toggle \in Toggles /\ devToggle \in Toggles
      /\ AfterAck(toggle) \in Toggles /\ AfterAck(toggle) # toggle
      /\ AfterAck(devToggle) \in Toggles
      /\ toggle # devToggle => AfterAck(toggle) = devToggle
  <2>1. toggle \in Toggles /\ devToggle \in Toggles
    BY DEF ControlInv, TypeOK
  <2>2. QED
    BY <2>1, ToggleAlternates
<1>7. ExecutedOnce'
  BY <1>2, <1>3 DEF ExecutedOnce
<1>8. /\ devAt' = moved + OutPacket
      /\ devToggle' = (IF toggle = devToggle THEN AfterAck(toggle) ELSE devToggle)
      /\ devStage' = (IF devAt' = requested THEN "status" ELSE "data")
  <2>1. CASE toggle = devToggle
    <3>1. devAt # requested
      BY <1>2, <1>3, <2>1 DEF Numbers
    <3>2. QED
      BY <1>3, <2>1, <3>1 DEF DataOutTaken
  <2>2. CASE toggle # devToggle
    BY <1>3, <2>2 DEF DataOutTaken
  <2>3. QED
    BY <2>1, <2>2
<1>9. /\ devAt' \in Nat /\ devToggle' \in Toggles
      /\ devStage' \in {"none", "data", "status", "done"}
  BY <1>2, <1>4, <1>6, <1>8 DEF Numbers
<1>10. CASE found = "ack"
  <2>1. /\ moved' = moved + OutPacket /\ toggle' = AfterAck(toggle)
        /\ outcome' = outcome /\ framed' \in BOOLEAN
        /\ IF moved' = requested THEN pc' = "statusIn" ELSE pc' = pc
    BY <1>1, <1>10 DEF DataOutAcked, EnterStage, Stay, ControlInv, TypeOK
  <2>2. moved' = devAt' /\ toggle' = devToggle' /\ moved' \in 0 .. requested
    BY <1>2, <1>4, <1>6, <1>8, <2>1 DEF Numbers
  <2>3. pc' \in {"dataOut", "statusIn"}
    BY <1>2, <2>1
  <2>4. TypeOK'
    BY <1>2, <1>5, <1>6, <1>9, <2>1, <2>2, <2>3 DEF ControlInv, TypeOK
  <2>5. CASE moved' = requested
    <3>1. pc' = "statusIn" /\ devStage' = "status"
      BY <1>8, <2>1, <2>2, <2>5
    <3>2. StatusStages'
      BY <1>2, <1>3, <2>2, <2>5, <3>1 DEF StatusStages
    <3>3. DataInStep' /\ SetupStage' /\ DataInStage' /\ DataOutStage'
      BY <3>1 DEF DataInStep, SetupStage, DataInStage, DataOutStage
    <3>4. QED
      BY <1>7, <2>4, <3>2, <3>3 DEF ControlInv
  <2>6. CASE moved' # requested
    <3>1. pc' = "dataOut" /\ moved' < requested
      BY <1>2, <2>1, <2>2, <2>6 DEF Numbers
    <3>2. DataOutStage' /\ DataInStep'
      BY <1>2, <1>3, <1>8, <2>2, <3>1 DEF DataOutStage, DataInStep
    <3>3. SetupStage' /\ DataInStage' /\ StatusStages'
      BY <3>1 DEF SetupStage, DataInStage, StatusStages
    <3>4. QED
      BY <1>7, <2>4, <3>2, <3>3 DEF ControlInv
  <2>7. QED
    BY <2>5, <2>6
<1>11. CASE found # "ack"
  <2>1. Refused(found) /\ UNCHANGED <<moved, toggle, framed>>
    BY <1>1, <1>11 DEF DataOutAcked
  <2>2. /\ moved' \in 0 .. requested /\ toggle' \in Toggles /\ framed' \in BOOLEAN
        /\ noResponse' \in 0 .. NoResponseLimit /\ badResponse' \in 0 .. BadResponseLimit
        /\ reply' \in Replies \cup {0} /\ executed' \in Nat
    BY <1>2, <2>1 DEF ControlInv, TypeOK
  <2>3. CASE pc' = "idle" /\ outcome' \in {"timeout", "stall", "badResponse"}
    <3>1. outcome' \in Outcomes
      BY <2>3 DEF Outcomes
    <3>2. QED
      BY <1>2, <1>5, <1>7, <1>9, <2>2, <2>3, <3>1, ReturnKeepsInv
  <2>4. CASE UNCHANGED <<pc, outcome>>
    <3>1. TypeOK'
      BY <1>2, <1>5, <1>9, <2>2, <2>4 DEF ControlInv, TypeOK
    <3>2. toggle' # devToggle' /\ devAt' = moved' + OutPacket'
      <4>1. toggle # devToggle'
        BY <1>6, <1>8
      <4>2. OutPacket' = OutPacket
        BY <1>2, <2>1 DEF OutPacket
      <4>3. QED
        BY <1>8, <2>1, <4>1, <4>2
    <3>3. DataInStep' /\ DataOutStage'
      BY <1>2, <1>3, <1>8, <2>1, <2>4, <3>2 DEF DataInStep, DataOutStage
    <3>4. SetupStage' /\ DataInStage' /\ StatusStages'
      BY <1>2, <2>4 DEF SetupStage, DataInStage, StatusStages
    <3>5. QED
      BY <1>7, <3>1, <3>3, <3>4 DEF ControlInv
  <2>5. QED
    BY <2>1, <2>3, <2>4, RefusedReturnsOrStays
<1>12. QED
  BY <1>10, <1>11

------------------------------------------------------------------------------
(* The status stages: the device is done, the host may have to ask again.  *)

LEMMA StatusKeepsInv ==
    ASSUME ControlInv, StatusOutTaken \/ StatusInArrives
    PROVE  ControlInv'
<1>1. /\ pc \in {"statusOut", "statusIn"} /\ FramePasses /\ Numbers
      /\ framed' = TRUE /\ devStage' = "done"
      /\ executed' = (IF devStage = "done" THEN executed ELSE executed + 1)
      /\ UNCHANGED <<inward, requested, noResponse, badResponse, moved, toggle, devAt,
                     devToggle, reply>>
  BY NumbersAre DEF StatusOutTaken, StatusInArrives, host
<1>2. /\ inward <=> pc = "statusOut"
      /\ moved = IF inward THEN AtMost(reply, requested) ELSE requested
      /\ ~inward => devAt = requested
      /\ executed = IF devStage = "done" THEN 1 ELSE 0
  BY <1>1 DEF ControlInv, StatusStages
<1>3. executed' = 1
  BY <1>1, <1>2
<1>4. ExecutedOnce'
  BY <1>1, <1>2, <1>3 DEF ExecutedOnce, AtMost
<1>5. left' \in 0 .. Deadline
  BY <1>1, FrameType
<1>6. /\ moved' \in 0 .. requested /\ toggle' \in Toggles /\ framed' \in BOOLEAN
      /\ noResponse' \in 0 .. NoResponseLimit /\ badResponse' \in 0 .. BadResponseLimit
      /\ reply' \in Replies \cup {0} /\ executed' \in Nat
      /\ devStage' \in {"none", "data", "status", "done"} /\ devAt' \in Nat
      /\ devToggle' \in Toggles
  BY <1>1, <1>3 DEF ControlInv, TypeOK
<1>7. \/ pc' = "idle" /\ outcome' \in {"ok", "timeout", "stall", "badResponse"}
      \/ UNCHANGED <<pc, outcome>>
  BY RefusedReturnsOrStays DEF StatusOutTaken, StatusInArrives, Return
<1>8. CASE pc' = "idle" /\ outcome' \in {"ok", "timeout", "stall", "badResponse"}
  <2>1. outcome' \in Outcomes
    BY <1>8 DEF Outcomes
  <2>2. QED
    BY <1>1, <1>4, <1>5, <1>6, <1>8, <2>1, ReturnKeepsInv
<1>9. CASE UNCHANGED <<pc, outcome>>
  <2>1. TypeOK'
    BY <1>1, <1>5, <1>6, <1>9 DEF ControlInv, TypeOK
  <2>2. StatusStages'
    BY <1>1, <1>2, <1>3, <1>9 DEF StatusStages, AtMost
  <2>3. DataInStep' /\ SetupStage' /\ DataInStage' /\ DataOutStage'
    BY <1>1, <1>9 DEF DataInStep, SetupStage, DataInStage, DataOutStage
  <2>4. QED
    BY <1>4, <2>1, <2>2, <2>3 DEF ControlInv
<1>10. QED
  BY <1>7, <1>8, <1>9

------------------------------------------------------------------------------
LEMMA ControlStarts == Init => ControlInv
BY ControlAssumption
DEF Init, ControlInv, TypeOK, Outcomes, Toggles, DataInStep, ExecutedOnce, SetupStage,
    DataInStage, DataOutStage, StatusStages

(* Every step keeps the invariant.                                         *)
LEMMA ControlStepKeepsInv == ControlInv /\ [Next]_vars => ControlInv'
<1> SUFFICES ASSUME ControlInv, [Next]_vars PROVE ControlInv'
  OBVIOUS
<1>1. ASSUME NEW size \in Sizes \ {0}, Begin(TRUE, size) PROVE ControlInv'
  BY <1>1, BeginKeepsInv
<1>2. ASSUME NEW size \in Sizes, Begin(FALSE, size) PROVE ControlInv'
  BY <1>2, BeginKeepsInv
<1>3. CASE SetupLost
  BY <1>3, SetupLostKeepsInv
<1>4. ASSUME NEW length \in Replies, SetupTaken(length) PROVE ControlInv'
  BY <1>4, SetupTakenKeepsInv
<1>5. ASSUME NEW ackArrives \in BOOLEAN, DataInArrives(ackArrives) PROVE ControlInv'
  BY <1>5, DataInArrivesKeepsInv
<1>6. CASE DataInRefused \/ DataOutRefused \/ StatusOutRefused \/ StatusInRefused
  <2>1. PICK found \in {"nak", "noResponse", "stall", "invalid"} : Refused(found)
    BY <1>6 DEF DataInRefused, DataOutRefused, StatusOutRefused, StatusInRefused
  <2>2. framed' \in BOOLEAN
    BY <1>6 DEF DataInRefused, DataOutRefused, StatusOutRefused, StatusInRefused,
                ControlInv, TypeOK
  <2>3. pc # "setup" /\ FramePasses /\ UNCHANGED <<host, moved, toggle, device>>
    BY <1>6 DEF DataInRefused, DataOutRefused, StatusOutRefused, StatusInRefused
  <2>4. QED
    BY <2>1, <2>2, <2>3, RefusedKeepsInv
<1>7. CASE DataOutTaken
  BY <1>7, DataOutTakenKeepsInv
<1>8. CASE StatusOutTaken \/ StatusInArrives
  BY <1>8, StatusKeepsInv
<1>9. CASE Cancel
  <2>1. /\ pc' = "idle" /\ outcome' = "cancelled"
        /\ UNCHANGED <<inward, requested, noResponse, badResponse, moved, toggle, left, framed,
                       devStage, devAt, devToggle, reply, executed>>
    BY <1>9 DEF Cancel, Return, host, device
  <2>2. ExecutedOnce'
    BY <2>1 DEF ControlInv, ExecutedOnce
  <2>3. QED
    BY <2>1, <2>2, ReturnKeepsInv DEF ControlInv, TypeOK, Outcomes
<1>10. CASE UNCHANGED vars
  BY <1>10 DEF vars, host, device, ControlInv, TypeOK, DataInStep, ExecutedOnce, SetupStage,
               DataInStage, DataOutStage, StatusStages, ReplyPacket, OutPacket
<1>11. QED
  BY <1>1, <1>2, <1>3, <1>4, <1>5, <1>6, <1>7, <1>8, <1>9, <1>10 DEF Next, Attempt

(* The invariant of control transfers: in every stage host and device      *)
(* agree on what has been moved, up to one packet that the toggles tell.   *)
THEOREM ControlSafety == Spec => []ControlInv
BY ControlStarts, ControlStepKeepsInv, PTL DEF Spec

(* A control transfer that returns Ok is complete and was carried out once.*)
THEOREM ControlOkIsComplete == Spec => OkMeansComplete
<1>1. ControlInv /\ [Next]_vars =>
          [outcome' # outcome /\ outcome' = "ok" =>
              /\ devStage' = "done" /\ executed' = 1
              /\ moved = IF inward THEN AtMost(reply, requested) ELSE requested
              /\ ~inward => devAt = requested]_vars
  <2> SUFFICES ASSUME ControlInv, [Next]_vars, outcome' # outcome, outcome' = "ok"
               PROVE  /\ devStage' = "done" /\ executed' = 1
                      /\ moved = IF inward THEN AtMost(reply, requested) ELSE requested
                      /\ ~inward => devAt = requested
    OBVIOUS
  <2>1. StatusOutTaken \/ StatusInArrives
    BY DEF Next, Attempt, vars, Begin, SetupLost, SetupTaken, SetupAnswered, EnterStage, Stay,
           Return, AgainBeforeDeadline, DataInRefused, Refused, DataInArrives, DataAccepted,
           StatusOutRefused, DataOutRefused, DataOutTaken, DataOutAcked, StatusInRefused,
           Cancel
  <2>2. /\ pc \in {"statusOut", "statusIn"} /\ devStage' = "done"
        /\ executed' = (IF devStage = "done" THEN executed ELSE executed + 1)
    BY <2>1 DEF StatusOutTaken, StatusInArrives
  <2>3. QED
    BY <2>2 DEF ControlInv, StatusStages
<1>2. QED
  BY <1>1, ControlSafety, PTL DEF Spec, OkMeansComplete
==============================================================================
