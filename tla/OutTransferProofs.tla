--------------------------- MODULE OutTransferProofs ---------------------------
(***************************************************************************)
(* Proofs about OutTransfer, for bulk and interrupt endpoints, every       *)
(* packet size, every set of buffer lengths, every interval and retry      *)
(* limit.                                                                  *)
(***************************************************************************)
EXTENDS OutTransfer, PipeLoopProofs

------------------------------------------------------------------------------
(* How a buffer is cut into packets                                        *)

LEMMA Division ==
    ASSUME NEW a \in Nat, NEW m \in Nat \ {0}
    PROVE  /\ a \div m \in Nat /\ a % m \in 0 .. m - 1
           /\ a = m * (a \div m) + (a % m)
BY SMTT(30)

LEMMA Products ==
    ASSUME NEW j \in Nat, NEW k \in Nat, j <= k, NEW m \in Nat
    PROVE  j * m \in Nat /\ j * m <= k * m /\ (j + 1) * m = j * m + m
BY SMTT(30)

(* All packets but the last are full, the last ends with the buffer, and   *)
(* is not full if the end of the transfer is to be seen.                   *)
LEMMA PacketCountFits ==
    ASSUME NEW size \in Nat, NEW m \in Nat \ {0}, NEW ensure \in BOOLEAN
    PROVE  LET n == PacketCount(size, m, ensure)
           IN  /\ n \in Nat \ {0}
               /\ (n - 1) * m <= size /\ size <= n * m
               /\ ensure => size < n * m
<1> DEFINE q == (size + m - 1) \div m
<1>1. /\ q \in Nat
      /\ size + m - 1 = m * q + ((size + m - 1) % m)
      /\ (size + m - 1) % m \in 0 .. m - 1
  <2>1. size + m - 1 \in Nat
    OBVIOUS
  <2>2. QED
    BY <2>1, Division
<1>2. q * m \in Nat /\ m * q = q * m
  BY <1>1
<1>3. q * m <= size + m - 1 /\ size <= q * m
  BY <1>1, <1>2
<1>4. CASE size = 0
  BY <1>4 DEF PacketCount
<1>5. CASE size # 0
  <2>1. q >= 1
    BY <1>3, <1>5, <1>1
  <2>2. (q - 1) * m = q * m - m
    BY <2>1, <1>1
  <2>3. CASE ensure /\ size % m = 0
    <3>1. PacketCount(size, m, ensure) = q + 1
      BY <1>5, <2>3 DEF PacketCount
    <3>2. size = m * (size \div m) /\ size \div m \in Nat
      BY <2>3, Division
    <3>3. q <= size \div m
      <4> DEFINE d == size \div m
      <4>1. ASSUME q >= d + 1 PROVE FALSE
        <5>1. (d + 1) * m <= q * m /\ (d + 1) * m = d * m + m
          BY <4>1, <3>2, <1>1, Products
        <5>2. d * m = size
          BY <3>2
        <5>3. QED
          BY <5>1, <5>2, <1>3, <1>2
      <4>2. QED
        BY <4>1, <3>2, <1>1
    <3>4. q * m <= (size \div m) * m
      BY <3>2, <3>3, <1>1, Products
    <3>5. q * m = size
      BY <3>2, <3>4, <1>2, <1>3
    <3>6. (q + 1) * m = q * m + m
      BY <1>1, Products
    <3>7. QED
      BY <3>1, <3>5, <3>6, <1>1, <1>2
  <2>4. CASE ~(ensure /\ size % m = 0)
    <3>1. PacketCount(size, m, ensure) = q
      BY <1>5, <2>4 DEF PacketCount
    <3>2. (q - 1) * m <= size
      BY <2>2, <1>3, <1>2
    <3>3. ASSUME ensure, size = q * m PROVE FALSE
      <4>1. size % m # 0
        BY <3>3, <2>4
      <4>7. size = m * (size \div m) + (size % m) /\ size \div m \in Nat /\ size % m \in 0 .. m - 1
        BY Division
      <4>2. size = m * (size \div m) + (size % m) /\ size \div m \in Nat /\ size % m \in 1 .. m - 1
        BY <4>1, <4>7
      <4> DEFINE d == size \div m
      <4>3. d * m \in Nat /\ d * m < q * m /\ q * m < d * m + m
        BY <4>2, <3>3
      <4>4. CASE q <= d
        BY <4>3, <4>4, <4>2, <1>1, Products
      <4>5. CASE d + 1 <= q
        <5>1. (d + 1) * m <= q * m /\ (d + 1) * m = d * m + m
          BY <4>5, <4>2, <1>1, Products
        <5>2. QED
          BY <5>1, <4>3, <1>2
      <4>6. QED
        BY <4>4, <4>5, <4>2, <1>1
    <3>4. QED
      BY <3>1, <3>2, <3>3, <2>1, <1>1, <1>2, <1>3
  <2>5. QED
    BY <2>3, <2>4
<1>6. QED
  BY <1>4, <1>5

LEMMA PacketBytesInBuffer ==
    ASSUME NEW i \in Nat, NEW size \in Nat, NEW m \in Nat \ {0}
    PROVE  PacketBytes(i, size, m) \in (0 .. size) \X (0 .. size)
<1>1. i * m \in Nat
  BY Products
<1>2. QED
  BY <1>1 DEF PacketBytes

(* Once the device has all packets of a call, it has the whole buffer.     *)
LEMMA AllPacketsAreTheBuffer ==
    ASSUME length \in Nat, ensureEnd \in BOOLEAN,
           Len(got) = PacketCount(length, Mps, ensureEnd),
           got = [i \in 1 .. Len(got) |-> PacketBytes(i - 1, length, Mps)]
    PROVE  WholeBuffer
<1> DEFINE n == PacketCount(length, Mps, ensureEnd)
<1>1. /\ n \in Nat \ {0}
      /\ (n - 1) * Mps <= length /\ length <= n * Mps
      /\ ensureEnd => length < n * Mps
  BY PacketCountFits, EndpointAssumption
<1>2. Mps \in Nat \ {0}
  BY EndpointAssumption
<1>3. DOMAIN got = 1 .. n
  OBVIOUS
<1>4. ASSUME NEW i \in 1 .. n
      PROVE  /\ (i - 1) * Mps \in Nat /\ (i - 1) * Mps <= length
             /\ got[i][1] = (i - 1) * Mps
             /\ i * Mps = (i - 1) * Mps + Mps
             /\ got[i][2] = IF i * Mps < length THEN i * Mps ELSE length
  <2>1. i - 1 \in Nat /\ n - 1 \in Nat /\ i - 1 <= n - 1 /\ (i - 1) + 1 = i
    BY <1>1
  <2>2. (i - 1) * Mps \in Nat /\ (i - 1) * Mps <= (n - 1) * Mps
        /\ ((i - 1) + 1) * Mps = (i - 1) * Mps + Mps
    BY <2>1, <1>2, Products
  <2>3. i * Mps = (i - 1) * Mps + Mps
    BY <2>1, <2>2
  <2>4. (n - 1) * Mps \in Nat
    BY <2>1, <1>2, Products
  <2>5. (i - 1) * Mps <= length
    BY <2>2, <2>4, <1>1
  <2>6. got[i] = PacketBytes(i - 1, length, Mps)
    BY <1>3
  <2>7. QED
    BY <2>2, <2>3, <2>5, <2>6, <1>2 DEF PacketBytes
<1>5. ASSUME NEW i \in 1 .. n, i # n PROVE i * Mps <= length
  <2>1. i <= n - 1 /\ i \in Nat /\ n - 1 \in Nat
    BY <1>1, <1>5
  <2>2. i * Mps <= (n - 1) * Mps /\ i * Mps \in Nat /\ (n - 1) * Mps \in Nat
    BY <2>1, <1>2, Products
  <2>3. QED
    BY <2>2, <1>1
<1>6. got[n][2] = length /\ n * Mps \in Nat
  <2>1. n \in 1 .. n
    BY <1>1
  <2>2. n * Mps \in Nat
    BY <1>1, <1>2, Products
  <2>3. QED
    BY <2>1, <2>2, <1>1, <1>4
<1>7. Contiguous
  <2> SUFFICES ASSUME NEW i \in 1 .. n
               PROVE  /\ got[i][1] = IF i = 1 THEN 0 ELSE got[i - 1][2]
                      /\ got[i][2] \in got[i][1] .. got[i][1] + Mps
                      /\ got[i][2] < got[i][1] + Mps => i = n /\ got[i][2] = length
    BY <1>3 DEF Contiguous
  <2>1. got[i][1] = IF i = 1 THEN 0 ELSE got[i - 1][2]
    <3>1. CASE i = 1
      BY <3>1, <1>2, <1>4
    <3>2. CASE i # 1
      <4>1. i - 1 \in 1 .. n /\ i - 1 # n
        BY <3>2, <1>1
      <4>2. (i - 1) * Mps <= length
        BY <4>1, <1>5
      <4>3. (i - 1) * Mps \in Nat /\ got[i][1] = (i - 1) * Mps
        BY <1>4
      <4>4. got[i - 1][2] = IF (i - 1) * Mps < length THEN (i - 1) * Mps ELSE length
        BY <4>1, <1>4
      <4>5. QED
        BY <3>2, <4>2, <4>3, <4>4
    <3>3. QED
      BY <3>1, <3>2
  <2>2. got[i][2] \in got[i][1] .. got[i][1] + Mps
    BY <1>2, <1>4
  <2>3. ASSUME got[i][2] < got[i][1] + Mps PROVE i = n
    <3>1. CASE i # n
      <4>1. i * Mps <= length
        BY <3>1, <1>5
      <4>4. i * Mps = (i - 1) * Mps + Mps /\ (i - 1) * Mps \in Nat /\ got[i][1] = (i - 1) * Mps
        BY <1>4
      <4>5. got[i][2] = i * Mps
        BY <4>1, <4>4, <1>2, <1>4
      <4>2. got[i][2] = got[i][1] + Mps
        BY <4>4, <4>5
      <4>3. QED
        BY <4>2, <2>3, <1>2, <1>4
    <3>2. QED
      BY <3>1
  <2>4. QED
    BY <2>1, <2>2, <2>3, <1>6
<1>8. ensureEnd => got[n][2] < got[n][1] + Mps
  <2>1. got[n][1] + Mps = n * Mps
    BY <1>1, <1>2, <1>4
  <2>2. QED
    BY <2>1, <1>1, <1>6
<1>9. QED
  BY <1>1, <1>3, <1>6, <1>7, <1>8 DEF WholeBuffer

------------------------------------------------------------------------------
(* Every step of a write is a step of the loop.                            *)
LEMMA WriteStepIsLoopStep == [Next]_vars => [LoopNext]_loop
<1> SUFFICES ASSUME [Next]_vars PROVE [LoopNext]_loop
  OBVIOUS
<1>1. ASSUME NEW size \in Lengths, NEW ensure \in BOOLEAN, RequestOut(size, ensure)
      PROVE  LoopNext
  BY <1>1 DEF RequestOut, LoopNext
<1>2. CASE NotTaken
  BY <1>2 DEF NotTaken, LoopNext, Answers
<1>3. CASE Acknowledged
  BY <1>3 DEF Acknowledged, LoopNext, Answers
<1>4. CASE PacketSent
  <2>1. Through(TRUE) \/ Through(FALSE)
    BY <1>4 DEF PacketSent, Through
  <2>2. QED
    BY <2>1 DEF LoopNext
<1>5. CASE LoopStep \/ Dropped \/ Detached \/ Passes
  BY <1>5 DEF LoopStep, Dropped, Detached, Passes, LoopNext
<1>6. CASE Reconfigure \/ UNCHANGED vars
  BY <1>6 DEF Reconfigure, vars
<1>7. QED
  BY <1>1, <1>2, <1>3, <1>4, <1>5, <1>6 DEF Next, Call

(* The part of the invariant that is not the loop's                        *)
WriteTypes ==
    /\ toggle \in Toggles
    /\ length \in Lengths \cup {0}
    /\ ensureEnd \in BOOLEAN
    /\ index \in Nat
    /\ devToggle \in Toggles
    /\ taken \in Nat
    /\ known \in Nat
    /\ got \in Seq((0 .. length) \X (0 .. length))
    /\ doubt \in BOOLEAN

DoneInStep == result = "done" => toggle = devToggle

WithinCount == pc # "idle" => index < PacketCount(length, Mps, ensureEnd)

Rest ==
    /\ WriteTypes /\ InStep /\ OnlyFailuresLeaveDoubt /\ Progress /\ DoneInStep
    /\ WithinCount

LEMMA WriteInvParts == WriteInv <=> LoopInv /\ Rest
BY DEF WriteInv, TypeOK, LoopInv, Rest, WriteTypes, DoneInStep, WithinCount

LEMMA WriteStarts == Init => WriteInv
<1> SUFFICES ASSUME Init PROVE WriteInv
  OBVIOUS
<1>1. LoopInv /\ toggle = "DATA0" /\ pc = "idle" /\ result = "none"
  BY LoopStarts DEF Init, LoopInit
<1>2. WriteTypes
  <2>1. got \in Seq((0 .. length) \X (0 .. length))
    BY DEF Init
  <2>2. QED
    BY <1>1, <2>1 DEF Init, WriteTypes, Toggles
<1>3. InStep /\ OnlyFailuresLeaveDoubt /\ Progress /\ DoneInStep /\ WithinCount
  BY <1>1 DEF Init, InStep, OnlyFailuresLeaveDoubt, Progress, DoneInStep, WithinCount
<1>4. QED
  BY <1>1, <1>2, <1>3, WriteInvParts DEF Rest

(* A new call: nothing of it is with the device yet.                       *)
LEMMA RequestOutKeepsInv ==
    ASSUME WriteInv, NEW size \in Lengths, NEW ensure \in BOOLEAN, RequestOut(size, ensure)
    PROVE  Rest'
<1>1. Rest
  BY WriteInvParts
<1>2. /\ pc = "idle" /\ pc' = "due" /\ result' = "none"
      /\ length' = size /\ ensureEnd' = ensure /\ index' = 0 /\ got' = <<>>
      /\ UNCHANGED <<toggle, devToggle, taken, known, doubt>>
  BY DEF RequestOut, Begin
<1>3. size \in Nat
  BY LengthsAssumption
<1>4. WriteTypes'
  BY <1>1, <1>2 DEF Rest, WriteTypes
<1>5. InStep' /\ OnlyFailuresLeaveDoubt' /\ DoneInStep'
  BY <1>1, <1>2 DEF Rest, InStep, OnlyFailuresLeaveDoubt, DoneInStep
<1>6. WithinCount'
  BY <1>2, <1>3, PacketCountFits, EndpointAssumption DEF WithinCount
<1>7. Progress'
  <2>1. ~doubt => toggle = devToggle
    BY <1>1, <1>2 DEF Rest, OnlyFailuresLeaveDoubt, WriteTypes
  <2>2. Len(got') = 0 /\ got' = [i \in 1 .. Len(got') |-> PacketBytes(i - 1, length', Mps)]
    BY <1>2
  <2>3. QED
    BY <1>2, <2>1, <2>2 DEF Progress
<1>8. QED
  BY <1>4, <1>5, <1>6, <1>7 DEF Rest

(* The device has the packet, for the first time or again.                 *)
LEMMA AcknowledgedKeepsInv ==
    ASSUME WriteInv, Acknowledged
    PROVE  Rest'
<1>1. Rest /\ WriteTypes /\ InStep /\ Progress /\ WithinCount
  BY WriteInvParts DEF Rest
<1>2. PICK found \in {"done", "noResponse", "invalid", "failed"} : Attempt(found) /\ HostSees(found)
  BY DEF Acknowledged
<1>3. pc = "wire" /\ pc' = "service" /\ result = "none" /\ result' = found
  BY <1>2, WriteInvParts DEF Attempt, LoopInv, Counted
<1>4. UNCHANGED <<length, ensureEnd, index, doubt>>
  BY DEF Acknowledged, call
<1>5. /\ found = "done" => toggle' = AfterAck(toggle) /\ known' = known + 1
      /\ found # "done" => toggle' = toggle /\ known' = known
  BY <1>2 DEF HostSees
<1>6. /\ AfterAck(toggle) \in Toggles /\ AfterAck(toggle) # toggle
      /\ toggle # devToggle => AfterAck(toggle) = devToggle
  BY <1>1 DEF WriteTypes, AfterAck, Toggles
<1>7. length \in Nat /\ Mps \in Nat \ {0} /\ index \in Nat
  BY <1>1, LengthsAssumption, EndpointAssumption DEF WriteTypes
<1>8. WithinCount' /\ OnlyFailuresLeaveDoubt'
  BY <1>1, <1>3, <1>4 DEF WithinCount, OnlyFailuresLeaveDoubt
<1>9. CASE toggle = devToggle
  <2>1. /\ devToggle' = AfterAck(toggle) /\ taken' = taken + 1
        /\ got' = Append(got, PacketBytes(index, length, Mps))
    BY <1>9 DEF Acknowledged
  <2>2. PacketBytes(index, length, Mps) \in (0 .. length) \X (0 .. length)
    BY <1>7, PacketBytesInBuffer
  <2>3. WriteTypes'
    BY <1>1, <1>4, <1>5, <1>6, <2>1, <2>2 DEF WriteTypes
  <2>4. InStep' /\ DoneInStep'
    BY <1>1, <1>3, <1>5, <1>6, <1>9, <2>1 DEF InStep, DoneInStep, WriteTypes
  <2>5. Progress'
    <3> SUFFICES ASSUME ~doubt
                 PROVE  /\ got' = [i \in 1 .. Len(got') |-> PacketBytes(i - 1, length, Mps)]
                        /\ Len(got') = index + 1 /\ (toggle' = devToggle' => result' = "done")
      BY <1>3, <1>4 DEF Progress
    <3>1. got = [i \in 1 .. Len(got) |-> PacketBytes(i - 1, length, Mps)] /\ Len(got) = index
      BY <1>1, <1>3, <1>9 DEF Progress
    <3>2. Len(got') = index + 1 /\ DOMAIN got' = 1 .. index + 1
      BY <1>1, <2>1, <3>1 DEF WriteTypes
    <3>3. ASSUME NEW i \in 1 .. index + 1 PROVE got'[i] = PacketBytes(i - 1, length, Mps)
      <4>1. CASE i = index + 1
        BY <4>1, <1>1, <1>7, <2>1, <3>1 DEF WriteTypes
      <4>2. CASE i # index + 1
        BY <4>2, <1>1, <1>7, <2>1, <3>1 DEF WriteTypes
      <4>3. QED
        BY <4>1, <4>2
    <3>4. got' = [i \in 1 .. index + 1 |-> PacketBytes(i - 1, length, Mps)]
      <4>1. got' = [i \in DOMAIN got' |-> got'[i]]
        BY <2>3 DEF WriteTypes
      <4>2. QED
        BY <3>2, <3>3, <4>1
    <3>5. toggle' = devToggle' => result' = "done"
      BY <1>3, <1>5, <1>6, <2>1
    <3>6. QED
      BY <3>2, <3>4, <3>5
  <2>6. QED
    BY <1>8, <2>3, <2>4, <2>5 DEF Rest
<1>10. CASE toggle # devToggle
  <2>1. UNCHANGED <<devToggle, taken, got>>
    BY <1>10 DEF Acknowledged, device
  <2>2. WriteTypes'
    BY <1>1, <1>4, <1>5, <1>6, <2>1 DEF WriteTypes
  <2>3. InStep' /\ DoneInStep'
    BY <1>1, <1>3, <1>5, <1>6, <1>10, <2>1 DEF InStep, DoneInStep, WriteTypes
  <2>4. Progress'
    BY <1>1, <1>3, <1>4, <1>5, <1>6, <1>10, <2>1 DEF Progress
  <2>5. QED
    BY <1>8, <2>2, <2>3, <2>4 DEF Rest
<1>11. QED
  BY <1>9, <1>10

(* A packet is through, and the next is due, or the call returns.          *)
LEMMA PacketSentKeepsInv ==
    ASSUME WriteInv, PacketSent
    PROVE  Rest'
<1>1. Rest
  BY WriteInvParts
<1>2. /\ pc = "service" /\ result = "done" /\ result' = "none" /\ index' = index + 1
      /\ UNCHANGED <<toggle, length, ensureEnd, devToggle, taken, got, known, doubt>>
  BY DEF PacketSent, Through, device
<1>3. toggle = devToggle
  BY <1>1, <1>2 DEF Rest, DoneInStep
<1>4. WriteTypes'
  BY <1>1, <1>2 DEF Rest, WriteTypes
<1>5. InStep' /\ OnlyFailuresLeaveDoubt' /\ DoneInStep'
  BY <1>1, <1>2, <1>3 DEF Rest, InStep, OnlyFailuresLeaveDoubt, DoneInStep
<1>6. Progress'
  BY <1>1, <1>2, <1>3 DEF Rest, Progress
<1>7. WithinCount'
  <2>1. /\ index \in Nat /\ length \in Nat /\ ensureEnd \in BOOLEAN
        /\ Mps \in Nat \ {0}
    BY <1>1, LengthsAssumption, EndpointAssumption DEF Rest, WriteTypes
  <2>2. PacketCount(length, Mps, ensureEnd) \in Nat
    BY <2>1, PacketCountFits
  <2>3. CASE index + 1 >= PacketCount(length, Mps, ensureEnd)
    <3>1. pc' = "idle"
      BY <2>3 DEF PacketSent, Through
    <3>2. QED
      BY <3>1 DEF WithinCount
  <2>4. CASE ~(index + 1 >= PacketCount(length, Mps, ensureEnd))
    BY <1>2, <2>1, <2>2, <2>4 DEF WithinCount
  <2>5. QED
    BY <2>3, <2>4
<1>8. QED
  BY <1>4, <1>5, <1>6, <1>7 DEF Rest

(* Every step keeps the invariant.                                         *)
LEMMA WriteStepKeepsInv == WriteInv /\ [Next]_vars => WriteInv'
<1> SUFFICES ASSUME WriteInv, [Next]_vars PROVE WriteInv'
  OBVIOUS
<1>1. LoopInv /\ Rest
  BY WriteInvParts
<1>2. LoopInv'
  BY <1>1, WriteStepIsLoopStep, LoopStepKeepsInv
<1>3. Rest'
  <2>1. CASE Reconfigure
    <3>1. /\ pc = "idle" /\ pc' = "idle" /\ result' = "none"
          /\ toggle' = "DATA0" /\ devToggle' = "DATA0" /\ taken' = 0 /\ known' = 0
          /\ doubt' = FALSE
          /\ UNCHANGED <<length, ensureEnd, index, got>>
      BY <1>1, <2>1 DEF Reconfigure, loop, call, LoopInv, Counted, LoopTypeOK
    <3>2. WriteTypes'
      BY <1>1, <3>1 DEF Rest, WriteTypes, Toggles
    <3>3. QED
      BY <3>1, <3>2 DEF Rest, InStep, OnlyFailuresLeaveDoubt, Progress, DoneInStep, WithinCount
  <2>2. ASSUME NEW size \in Lengths, NEW ensure \in BOOLEAN, RequestOut(size, ensure)
        PROVE  Rest'
    BY <2>2, RequestOutKeepsInv
  <2>3. CASE NotTaken
    <3>1. PICK found \in {"noResponse", "nak", "stall", "invalid", "failed"} :
              Attempt(found) /\ HostSees(found)
      BY <2>3 DEF NotTaken
    <3>2. /\ pc = "wire" /\ pc' = "service" /\ result # "done" /\ result' # "done"
          /\ UNCHANGED <<toggle, known, length, ensureEnd, index, devToggle, taken, got, doubt>>
      BY <1>1, <2>3, <3>1 DEF NotTaken, Attempt, HostSees, call, device, LoopInv, Counted
    <3>3. WriteTypes' /\ InStep' /\ DoneInStep'
      BY <1>1, <3>2 DEF Rest, WriteTypes, InStep, DoneInStep
    <3>4. OnlyFailuresLeaveDoubt' /\ Progress' /\ WithinCount'
      BY <1>1, <3>2 DEF Rest, OnlyFailuresLeaveDoubt, Progress, WithinCount
    <3>5. QED
      BY <3>3, <3>4 DEF Rest
  <2>4. CASE Acknowledged
    BY <2>4, AcknowledgedKeepsInv
  <2>5. CASE PacketSent
    BY <2>5, PacketSentKeepsInv
  <2>6. CASE LoopStep \/ Dropped \/ Detached \/ Passes
    <3>1. UNCHANGED <<toggle, length, ensureEnd, index, devToggle, taken, got, known>>
      BY <2>6 DEF LoopStep, Dropped, Detached, Passes, call, device
    <3>2. \/ pc' = "idle" /\ result' = "none" /\ doubt' = TRUE
          \/ /\ pc # "idle" /\ pc' # "idle" /\ result # "done" /\ result' # "done"
             /\ doubt' = doubt
          \/ UNCHANGED <<pc, result, doubt>>
      BY <1>1, <2>6 DEF LoopStep, Dropped, Detached, Passes, Invalidate, Cancel, Tick, Due,
                        Gone, Broken, Naked, Unanswered, Again, Fail, LoopInv, Counted,
                        Rest, WriteTypes
    <3>3. WriteTypes' /\ InStep'
      BY <1>1, <3>1, <3>2 DEF Rest, WriteTypes, InStep
    <3>4. OnlyFailuresLeaveDoubt' /\ DoneInStep' /\ WithinCount'
      BY <1>1, <3>1, <3>2 DEF Rest, OnlyFailuresLeaveDoubt, DoneInStep, WithinCount
    <3>5. Progress'
      BY <1>1, <3>1, <3>2 DEF Rest, Progress
    <3>6. QED
      BY <3>3, <3>4, <3>5 DEF Rest
  <2>7. CASE UNCHANGED vars
    BY <1>1, <2>7 DEF vars, loop, call, device, Rest, WriteTypes, InStep,
                      OnlyFailuresLeaveDoubt, Progress, DoneInStep, WithinCount
  <2>8. QED
    BY <2>1, <2>2, <2>3, <2>4, <2>5, <2>6, <2>7 DEF Next, Call
<1>4. QED
  BY <1>2, <1>3 DEF WriteInv, TypeOK, LoopInv, Rest, WriteTypes, DoneInStep, WithinCount

(* The invariant of a write: toggles in step, and the device has the       *)
(* call's packets up to the one the toggles tell.                          *)
THEOREM WriteSafety == Spec => []WriteInv
BY WriteStarts, WriteStepKeepsInv, PTL DEF Spec

------------------------------------------------------------------------------
(* Refinement and action properties                                        *)

LEMMA WriteStepMaps == WriteInv /\ [Next]_vars => [Stream!Next]_<<taken, known, FALSE>>
<1> SUFFICES ASSUME WriteInv, [Next]_vars PROVE [Stream!Next]_<<taken, known, FALSE>>
  OBVIOUS
<1>1. WriteTypes /\ InStep
  BY WriteInvParts DEF Rest
<1>2. CASE Reconfigure
  BY <1>2 DEF Reconfigure, Stream!Next, Stream!Restart
<1>3. CASE Acknowledged
  <2>1. known' \in {known, known + 1}
    BY <1>3 DEF Acknowledged, HostSees
  <2>2. CASE toggle = devToggle
    BY <1>1, <1>3, <2>1, <2>2 DEF Acknowledged, InStep, Stream!Next, Stream!Take
  <2>3. CASE toggle # devToggle
    <3>1. taken = known + 1 /\ taken' = taken /\ known \in Nat
      BY <1>1, <1>3, <2>3 DEF Acknowledged, InStep, device, WriteTypes
    <3>2. QED
      BY <2>1, <3>1 DEF Stream!Next, Stream!Learn
  <2>4. QED
    BY <2>2, <2>3
<1>4. CASE ~Reconfigure /\ ~Acknowledged
  <2>1. UNCHANGED <<taken, known>>
    BY <1>4 DEF Next, Call, RequestOut, NotTaken, HostSees, PacketSent, LoopStep, Dropped,
                Detached, Passes, vars, device
  <2>2. QED
    BY <2>1
<1>5. QED
  BY <1>2, <1>3, <1>4

(* The device takes every packet once and in order, however often the host *)
(* has to repeat one.                                                      *)
THEOREM WritesStopAndWait == Spec => ImplementsStopAndWait
<1>1. Init => Stream!Init
  BY DEF Init, Stream!Init
<1>2. QED
  BY <1>1, WriteStepMaps, WriteSafety, PTL DEF Spec, ImplementsStopAndWait, Stream!Spec

(* If no call has failed before, Ok means that the device has the whole    *)
(* buffer, whatever its length and the packet size.                        *)
THEOREM OkIsTransported == Spec => OkMeansTransported
<1>1. WriteInv /\ [Next]_vars => [Returned /\ ~doubt => WholeBuffer]_vars
  <2> SUFFICES ASSUME WriteInv, [Next]_vars, Returned, ~doubt PROVE WholeBuffer
    OBVIOUS
  <2>1. LoopInv /\ Rest
    BY WriteInvParts
  <2>2. PacketSent
    BY DEF Returned, Next, Call, RequestOut, NotTaken, Acknowledged, LoopStep, Dropped,
           Detached, Passes, Reconfigure, vars, loop, timing, Begin, Attempt, Due, Gone,
           Broken, Naked, Unanswered, Again, Fail, Cancel, Invalidate, Tick
  <2>3. pc = "service" /\ result = "done"
    BY <2>2 DEF PacketSent, Through
  <2>4. index + 1 >= PacketCount(length, Mps, ensureEnd)
    BY <2>2 DEF PacketSent, Through, Returned
  <2>5. /\ index < PacketCount(length, Mps, ensureEnd) /\ index \in Nat
        /\ length \in Nat /\ ensureEnd \in BOOLEAN
    BY <2>1, <2>3, LengthsAssumption DEF Rest, WriteTypes, WithinCount
  <2>6. PacketCount(length, Mps, ensureEnd) \in Nat
    BY <2>5, PacketCountFits, EndpointAssumption
  <2>7. /\ Len(got) = index + 1
        /\ got = [i \in 1 .. Len(got) |-> PacketBytes(i - 1, length, Mps)]
    BY <2>1, <2>3 DEF Rest, Progress
  <2>8. Len(got) = PacketCount(length, Mps, ensureEnd)
    BY <2>4, <2>5, <2>6, <2>7
  <2>9. QED
    BY <2>5, <2>7, <2>8, AllPacketsAreTheBuffer
<1>2. QED
  BY <1>1, WriteSafety, PTL DEF Spec, OkMeansTransported

(* The retry limit ends a write only on a device that was silent           *)
(* RetryLimit times in a row; what else times out is the engine's failure. *)
THEOREM WriteGivesUpOnSilence == Spec => GivesUpOnSilence
<1>1. WriteInv /\ [Next]_vars =>
          [outcome' # outcome /\ outcome' = "timeout" /\ result # "failed" =>
              silence = RetryLimit]_vars
  BY WriteInvParts, WriteStepIsLoopStep, TimeoutAfterSilence
<1>2. QED
  BY <1>1, WriteSafety, PTL DEF Spec, GivesUpOnSilence
==============================================================================
