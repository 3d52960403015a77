---------------------------- MODULE PipeLoopProofs ----------------------------
(***************************************************************************)
(* What holds of the loop that bulk and interrupt transfers share, in both *)
(* directions, for every interval and every retry limit: retries are       *)
(* counted as silence, and transactions are paced.                         *)
(***************************************************************************)
EXTENDS PipeLoop, TLAPS

(* A read into an empty buffer returns at once.                            *)
ReturnAtOnce ==
    /\ pc = "idle"
    /\ outcome' = "ok"
    /\ UNCHANGED <<valid, pc, result, noResponse, timing, silence>>

Answers == {"done", "nak", "noResponse", "stall", "invalid", "failed"}

LoopNext ==
    \/ Invalidate
    \/ Tick
    \/ Begin
    \/ ReturnAtOnce
    \/ Due
    \/ \E found \in Answers : Attempt(found)
    \/ Gone
    \/ Broken
    \/ Naked
    \/ Unanswered
    \/ \E last \in BOOLEAN : Through(last)
    \/ Cancel

------------------------------------------------------------------------------
LEMMA DelayType ==
    ASSUME NEW retry \in BOOLEAN
    PROVE  DelayMs(Type, Interval, retry) \in 0 .. Interval
BY EndpointAssumption DEF DelayMs

LEMMA LoopStarts == LoopInit => LoopInv /\ toggle \in Toggles
BY EndpointAssumption DEF LoopInit, LoopInv, LoopTypeOK, Counted, Paced, Toggles

(* A call that ends with an error                                          *)
LEMMA FailKeepsInv ==
    ASSUME LoopInv, NEW reason, Fail(reason),
           reason \in {"disconnected", "stall", "badResponse", "timeout", "cancelled"}
    PROVE  LoopInv'
<1>1. LoopTypeOK'
  BY EndpointAssumption DEF LoopInv, LoopTypeOK, Fail
<1>2. Counted'
  BY DEF LoopInv, Counted, Fail
<1>3. Paced'
  BY EndpointAssumption DEF LoopInv, LoopTypeOK, Paced, Fail
<1>4. QED
  BY <1>1, <1>2, <1>3 DEF LoopInv

(* A transaction that is tried again                                       *)
LEMMA AgainKeepsInv ==
    ASSUME LoopInv, NEW count \in 0 .. RetryLimit - 1, Again(count),
           pc = "service", result \in {"nak", "noResponse"}, count <= silence
    PROVE  LoopInv'
<1>1. LoopTypeOK'
  BY EndpointAssumption, DelayType DEF LoopInv, LoopTypeOK, Again
<1>2. Counted'
  BY DEF LoopInv, Counted, Again
<1>3. wait' = owed
  BY EndpointAssumption DEF LoopInv, Paced, Again, DelayMs
<1>4. Paced'
  <2>1. pc' = "due" /\ since' = since /\ owed' = owed /\ wait' = owed
    BY <1>3 DEF Again
  <2>2. owed' <= since' + wait'
    BY <2>1, EndpointAssumption DEF LoopInv, LoopTypeOK
  <2>3. QED
    BY <2>1, <2>2 DEF Paced
<1>5. QED
  BY <1>1, <1>2, <1>4 DEF LoopInv

(* Every step keeps the loop's invariant.                                  *)
LEMMA LoopStepKeepsInv == LoopInv /\ [LoopNext]_loop => LoopInv'
<1> SUFFICES ASSUME LoopInv, [LoopNext]_loop PROVE LoopInv'
  OBVIOUS
<1>1. CASE Invalidate
  BY <1>1 DEF Invalidate, timing, LoopInv, LoopTypeOK, Counted, Paced
<1>2. CASE Tick
  <2>1. wait \in Nat /\ since \in Nat /\ Interval \in Nat \ {0}
    BY EndpointAssumption DEF LoopInv, LoopTypeOK
  <2>2. wait' \in 0 .. Interval /\ since' \in 0 .. Interval
    BY <1>2, <2>1 DEF Tick, Capped, LoopInv, LoopTypeOK
  <2>3. since' + wait' >= since + wait \/ since' = Interval
    BY <1>2, <2>1 DEF Tick, Capped
  <2>4. wait = 0 => wait' = 0
    BY <1>2 DEF Tick
  <2>5. LoopTypeOK'
    BY <1>2, <2>2 DEF Tick, LoopInv, LoopTypeOK
  <2>6. Counted'
    BY <1>2 DEF Tick, LoopInv, Counted
  <2>7. Paced'
    <3>1. pc' = pc /\ owed' = owed /\ result' = result
      BY <1>2 DEF Tick
    <3>2. pc # "service" => owed <= since' + wait'
      BY <2>1, <2>2, <2>3 DEF LoopInv, LoopTypeOK, Paced
    <3>3. QED
      BY <3>1, <3>2, <2>4 DEF LoopInv, Paced
  <2>8. QED
    BY <2>5, <2>6, <2>7 DEF LoopInv
<1>3. CASE Begin
  BY <1>3, EndpointAssumption DEF Begin, timing, LoopInv, LoopTypeOK, Counted, Paced
<1>4. CASE ReturnAtOnce
  BY <1>4 DEF ReturnAtOnce, timing, LoopInv, LoopTypeOK, Counted, Paced
<1>5. CASE Due
  <2>1. CASE valid
    BY <1>5, <2>1 DEF Due, timing, LoopInv, LoopTypeOK, Counted, Paced
  <2>2. CASE ~valid
    BY <1>5, <2>2, FailKeepsInv DEF Due
  <2>3. QED
    BY <2>1, <2>2
<1>6. ASSUME NEW found \in Answers, Attempt(found) PROVE LoopInv'
  <2>1. LoopTypeOK'
    BY <1>6, EndpointAssumption DEF Attempt, Answers, Capped, LoopInv, LoopTypeOK
  <2>2. Counted'
    BY <1>6, EndpointAssumption DEF Attempt, Answers, Capped, LoopInv, LoopTypeOK, Counted
  <2>3. Paced'
    BY <1>6, EndpointAssumption DEF Attempt, Paced
  <2>4. QED
    BY <2>1, <2>2, <2>3 DEF LoopInv
<1>7. CASE Gone
  BY <1>7, FailKeepsInv DEF Gone
<1>8. CASE Broken
  BY <1>8, FailKeepsInv DEF Broken
<1>9. CASE Naked
  <2>1. 0 \in 0 .. RetryLimit - 1 /\ 0 <= silence
    BY EndpointAssumption DEF LoopInv, LoopTypeOK
  <2>2. QED
    BY <1>9, <2>1, AgainKeepsInv DEF Naked
<1>10. CASE Unanswered
  <2>1. CASE noResponse + 1 >= RetryLimit
    BY <1>10, <2>1, FailKeepsInv DEF Unanswered
  <2>2. CASE ~(noResponse + 1 >= RetryLimit)
    <3>1. noResponse + 1 \in 0 .. RetryLimit - 1
      BY <2>2, EndpointAssumption DEF LoopInv, LoopTypeOK
    <3>2. noResponse + 1 <= silence
      BY <1>10 DEF Unanswered, LoopInv, Counted
    <3>3. QED
      BY <1>10, <2>2, <3>1, <3>2, AgainKeepsInv DEF Unanswered
  <2>3. QED
    BY <2>1, <2>2
<1>11. ASSUME NEW last \in BOOLEAN, Through(last) PROVE LoopInv'
  <2>6. pc' \in {"idle", "due"} /\ outcome' \in {"ok", outcome}
    BY <1>11 DEF Through
  <2>7. result' = "none" /\ noResponse' = 0 /\ UNCHANGED <<valid, since, owed, silence>>
    BY <1>11 DEF Through
  <2>8. wait' \in 0 .. Interval
    BY <1>11, DelayType DEF Through
  <2>1. LoopTypeOK'
    BY <2>6, <2>7, <2>8, EndpointAssumption DEF LoopInv, LoopTypeOK
  <2>2. Counted'
    <3>1. 0 <= silence
      BY EndpointAssumption DEF LoopInv, LoopTypeOK
    <3>2. QED
      BY <2>6, <2>7, <3>1 DEF Counted
  <2>3. wait' = owed
    BY <1>11, EndpointAssumption DEF Through, LoopInv, Paced, DelayMs
  <2>4. Paced'
    <3>1. pc' \in {"idle", "due"} /\ since' = since /\ owed' = owed
      BY <1>11 DEF Through
    <3>2. owed' <= since' + wait'
      BY <3>1, <2>3, EndpointAssumption DEF LoopInv, LoopTypeOK
    <3>3. QED
      BY <3>1, <3>2 DEF Paced
  <2>5. QED
    BY <2>1, <2>2, <2>4 DEF LoopInv
<1>12. CASE Cancel
  BY <1>12, FailKeepsInv DEF Cancel
<1>13. CASE UNCHANGED loop
  BY <1>13 DEF loop, timing, LoopInv, LoopTypeOK, Counted, Paced
<1>14. QED
  BY <1>1, <1>2, <1>3, <1>4, <1>5, <1>6, <1>7, <1>8, <1>9, <1>10, <1>11, <1>12, <1>13
  DEF LoopNext

------------------------------------------------------------------------------
(* What the invariant says of a step                                       *)

(* A call that times out although the engine has not failed has met a      *)
(* device that was silent RetryLimit times in a row.                       *)
LEMMA TimeoutAfterSilence ==
    ASSUME LoopInv, [LoopNext]_loop, outcome' # outcome, outcome' = "timeout",
           result # "failed"
    PROVE  silence = RetryLimit
<1>1. Unanswered /\ noResponse + 1 >= RetryLimit
  BY DEF LoopNext, loop, timing, Invalidate, Tick, Begin, ReturnAtOnce, Due, Attempt, Gone,
         Broken, Naked, Unanswered, Through, Cancel, Again, Fail
<1>2. noResponse + 1 <= silence
  BY <1>1 DEF Unanswered, LoopInv, Counted
<1>3. QED
  BY <1>1, <1>2, EndpointAssumption DEF LoopInv, LoopTypeOK

(* A transaction does not start before the device has had its time.        *)
LEMMA SpacedOnTheWire ==
    ASSUME LoopInv, pc = "wire"
    PROVE  since >= owed
BY DEF LoopInv, LoopTypeOK, Paced
==============================================================================
