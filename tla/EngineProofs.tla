---------------------------- MODULE EngineProofs ----------------------------
(***************************************************************************)
(* Proofs about the packet engine. Whatever the interleaving of decoder,   *)
(* edge detector and CPU, the ACK is prepared in time and never left       *)
(* behind, and answers and handshakes are reported as their bytes deserve; *)
(* and the frame schedule keeps its distances for every length of a frame, *)
(* of a reset and of the recovery after it.                                *)
(***************************************************************************)
EXTENDS Engine, TLAPS

(***************************************************************************)
(* The data packet                                                         *)
(***************************************************************************)
LEMMA SilentIsPlausible == Silent \in PlausibleAnswers
<1>1. Silent \in Answers
  BY ReceiveAssumption DEF Silent, Answers
<1>2. Plausible(Silent)
  BY DEF Silent, Plausible
<1> QED BY <1>1, <1>2 DEF PlausibleAnswers

(* Every call starts from nothing.                                         *)
LEMMA InitReceive == Init => ReceiveInv
<1> SUFFICES ASSUME Init PROVE ReceiveInv
  OBVIOUS
<1>1. /\ answer = Silent /\ pushed = 0 /\ eop = FALSE /\ expected = "DATA0" /\ limit = 0
      /\ acknowledge = TRUE /\ guarded = FALSE /\ pc = "idle" /\ pulled = 0
      /\ sawStart = FALSE /\ ack = "none" /\ result = "none"
  BY DEF Init
<1>2. answer.length = 0
  BY <1>1 DEF Silent
<1>3. TypeOK
  <2>1. answer \in PlausibleAnswers /\ pushed \in 0 .. answer.length /\ pulled \in 0 .. pushed
    BY <1>1, <1>2, SilentIsPlausible
  <2>2. limit \in 0 .. Capacity
    BY <1>1, ReceiveAssumption
  <2>3. /\ eop \in BOOLEAN /\ acknowledge \in BOOLEAN /\ guarded \in BOOLEAN
        /\ sawStart \in BOOLEAN
    BY <1>1
  <2>4. /\ expected \in Toggles /\ pc \in Labels /\ result \in Results
        /\ ack \in {"none", "queued", "sent", "discarded", "empty"}
    BY <1>1 DEF Toggles, Labels, Results
  <2> QED BY <2>1, <2>2, <2>3, <2>4 DEF TypeOK
<1>4. AckPrepared /\ NoAckLeftBehind /\ ReportsAnswer
  BY <1>1 DEF AckPrepared, NoAckLeftBehind, ReportsAnswer
<1>5. AnswerComplete
  BY <1>1 DEF AnswerComplete
<1> QED BY <1>3, <1>4, <1>5 DEF ReceiveInv

(* The types of the parts of an answer                                     *)
LEMMA AnswerType ==
    ASSUME answer \in PlausibleAnswers
    PROVE  /\ answer.starts \in BOOLEAN /\ answer.ends \in BOOLEAN
           /\ answer.length \in Nat
           /\ answer.residues \subseteq Overhead .. answer.length
           /\ ~answer.starts => ~answer.ends /\ answer.length = 0
           /\ ~PrefixCrc => answer.residues \subseteq {answer.length}
  BY ReceiveAssumption DEF PlausibleAnswers, Answers, Plausible

(* A packet found valid in its first n bytes has at least four.            *)
LEMMA AckableIsLong ==
    ASSUME NEW n \in Nat, Ackable(n)
    PROVE  DataHeader(n) /\ n >= 4 /\ n \in answer.residues
  BY DEF Ackable, Overhead

(* What Refuse returns is what the answer deserves.                        *)
LEMMA RefusedDeserved ==
    ASSUME TypeOK, AnswerComplete, ~PrefixCrc, pc = "classify", ~Ackable(pulled)
    PROVE  Unacknowledged = Deserved /\ Deserved \in {"nak", "stall", "invalid"}
<1>1. /\ answer.ends /\ answer.starts /\ pulled = answer.length /\ answer.length \in Nat
      /\ answer.residues \subseteq Overhead .. answer.length
  BY AnswerType, ReceiveAssumption DEF TypeOK, AnswerComplete
<1>2. CASE WireValid
  <2>1. answer.length >= 4 /\ answer.pid \in Toggles
    BY <1>1, <1>2 DEF WireValid, Overhead
  <2>2. answer.length > WireLimit
    BY <1>1, <1>2, <2>1, ReceiveAssumption
    DEF Ackable, DataHeader, Overhead, WireLimit, WireValid, TypeOK
  <2>3. Disposition(expected, limit, Capacity, answer.pid, answer.length - Overhead) = "reject"
    BY <2>2, <2>1, <1>1, ReceiveAssumption DEF Disposition, WireLimit, Overhead, TypeOK
  <2> QED BY <1>1, <1>2, <2>1, <2>3 DEF Deserved, Unacknowledged, Toggles
<1>3. CASE ~WireValid
  BY <1>1, <1>3 DEF Deserved, Unacknowledged
<1> QED BY <1>2, <1>3

(* So is what Accept returns.                                              *)
LEMMA AcceptedDeserved ==
    ASSUME TypeOK, AnswerComplete, ~PrefixCrc, pc = "classify", Ackable(pulled)
    PROVE  Deserved = IF answer.pid = expected THEN "data" ELSE "unexpectedToggle"
<1>1. /\ answer.ends /\ answer.starts /\ pulled = answer.length /\ answer.length \in Nat
  BY AnswerType, ReceiveAssumption DEF TypeOK, AnswerComplete
<1>2. WireValid /\ answer.length >= 4 /\ answer.pid \in Toggles
  BY <1>1, AckableIsLong DEF WireValid, DataHeader
<1>3. answer.length =< WireLimit /\ limit \in 0 .. Capacity
  BY <1>1 DEF Ackable, TypeOK
<1>4. Disposition(expected, limit, Capacity, answer.pid, answer.length - Overhead)
        = IF answer.pid = expected THEN "accept" ELSE "duplicate"
  BY <1>1, <1>2, <1>3, ReceiveAssumption DEF Disposition, WireLimit, Overhead
<1> QED BY <1>1, <1>2, <1>4 DEF Deserved, Toggles

LEMMA NextReceive == ReceiveInv /\ [Next]_vars => ReceiveInv'
<1> SUFFICES ASSUME ReceiveInv, [Next]_vars
             PROVE  ReceiveInv'
  OBVIOUS
<1> USE ReceiveAssumption
<1>0. /\ TypeOK /\ AckPrepared /\ NoAckLeftBehind /\ AnswerComplete
      /\ ~PrefixCrc => ReportsAnswer
  BY DEF ReceiveInv
<1>t. /\ answer \in PlausibleAnswers /\ pushed \in 0 .. answer.length
      /\ eop \in BOOLEAN /\ expected \in Toggles /\ limit \in 0 .. Capacity
      /\ acknowledge \in BOOLEAN /\ guarded \in BOOLEAN /\ pc \in Labels
      /\ pulled \in 0 .. pushed /\ sawStart \in BOOLEAN
      /\ ack \in {"none", "queued", "sent", "discarded", "empty"}
      /\ result \in Results
  BY <1>0 DEF TypeOK
<1>a. /\ answer.starts \in BOOLEAN /\ answer.ends \in BOOLEAN
      /\ answer.length \in Nat
      /\ answer.residues \subseteq Overhead .. answer.length
      /\ ~answer.starts => ~answer.ends /\ answer.length = 0
      /\ ~PrefixCrc => answer.residues \subseteq {answer.length}
  BY <1>t, AnswerType
<1>1. CASE \E a \in PlausibleAnswers, pid \in Toggles, size \in 0 .. Capacity,
              acks \in BOOLEAN, guard \in BOOLEAN : Begin(a, pid, size, acks, guard)
  <2>0. PICK a \in PlausibleAnswers, pid \in Toggles, size \in 0 .. Capacity,
           acks \in BOOLEAN, guard \in BOOLEAN : Begin(a, pid, size, acks, guard)
    BY <1>1
  <2>1. /\ answer' = a /\ pushed' = 0 /\ eop' = FALSE /\ expected' = pid /\ limit' = size
        /\ acknowledge' = acks /\ guarded' = guard /\ pc' = "poll" /\ pulled' = 0
        /\ sawStart' = FALSE /\ ack' = "none" /\ result' = "none"
    BY <2>0 DEF Begin
  <2>2. a.length \in Nat
    BY DEF PlausibleAnswers, Answers
  <2>3. TypeOK'
    <3>1. pushed' \in 0 .. answer'.length /\ pulled' \in 0 .. pushed'
      BY <2>1, <2>2
    <3>2. answer' \in PlausibleAnswers /\ expected' \in Toggles /\ limit' \in 0 .. Capacity
      BY <2>0, <2>1
    <3>3. /\ eop' \in BOOLEAN /\ acknowledge' \in BOOLEAN /\ guarded' \in BOOLEAN
          /\ sawStart' \in BOOLEAN
      BY <2>0, <2>1
    <3>4. pc' \in Labels /\ result' \in Results
          /\ ack' \in {"none", "queued", "sent", "discarded", "empty"}
      BY <2>1 DEF Labels, Results
    <3> QED BY <3>1, <3>2, <3>3, <3>4 DEF TypeOK
  <2>4. AckPrepared' /\ NoAckLeftBehind' /\ AnswerComplete' /\ ReportsAnswer'
    BY <2>1 DEF AckPrepared, NoAckLeftBehind, AnswerComplete, ReportsAnswer, DataHeader
  <2> QED BY <2>3, <2>4 DEF ReceiveInv
<1>2. CASE Push
  <2>1. /\ pc # "idle" /\ pushed < answer.length /\ pushed' = pushed + 1
        /\ UNCHANGED <<answer, eop, expected, limit, acknowledge, guarded, pc, pulled,
                       sawStart, ack, result>>
    BY <1>2 DEF Push, arguments
  <2>2. TypeOK'
    BY <2>1, <1>t, <1>a DEF TypeOK
  <2>3. AckPrepared' /\ NoAckLeftBehind' /\ ReportsAnswer'
    BY <2>1, <1>0 DEF AckPrepared, NoAckLeftBehind, ReportsAnswer, DataHeader, Ackable,
                      WireLimit
  <2>4. AnswerComplete'
    BY <2>1, <1>0, <1>t, <1>a DEF AnswerComplete
  <2> QED BY <2>2, <2>3, <2>4 DEF ReceiveInv
<1>3. CASE EndOfPacket
  <2>1. /\ pc # "idle" /\ answer.ends /\ pushed = answer.length /\ eop' = TRUE
        /\ UNCHANGED <<answer, pushed, expected, limit, acknowledge, guarded, pc, pulled,
                       sawStart, ack, result>>
    BY <1>3 DEF EndOfPacket, arguments
  <2>2. TypeOK'
    BY <2>1, <1>t DEF TypeOK
  <2>3. AckPrepared' /\ NoAckLeftBehind' /\ AnswerComplete' /\ ReportsAnswer'
    BY <2>1, <1>0 DEF AckPrepared, NoAckLeftBehind, AnswerComplete, ReportsAnswer,
                      DataHeader, Ackable, WireLimit
  <2> QED BY <2>2, <2>3 DEF ReceiveInv
<1>4. CASE Poll
  <2>1. /\ pc = "poll"
        /\ UNCHANGED <<answer, pushed, eop, expected, limit, acknowledge, guarded, pulled,
                       sawStart, result>>
    BY <1>4 DEF Poll, wire, arguments
  <2>2. ack = IF acknowledge /\ DataHeader(pulled) THEN "queued" ELSE "none"
    BY <2>1, <1>0 DEF AckPrepared
  <2>3. CASE FastPath /\ eop
    <3>1. pc' = "classify" /\ ack' = Released(ack)
      BY <2>3, <1>4 DEF Poll
    <3>2. acknowledge /\ ~guarded /\ Ackable(pulled) /\ DataHeader(pulled)
      BY <2>3, <1>t, AckableIsLong DEF FastPath
    <3>3. ack' = "sent"
      BY <3>1, <3>2, <2>2 DEF Released
    <3>4. TypeOK'
      BY <2>1, <3>1, <3>3, <1>t DEF TypeOK, Labels
    <3>5. AckPrepared' /\ NoAckLeftBehind' /\ ReportsAnswer'
      BY <2>1, <3>1, <3>2, <3>3
      DEF AckPrepared, NoAckLeftBehind, ReportsAnswer, DataHeader, Ackable, WireLimit
    <3>6. ~PrefixCrc => pulled = pushed
      BY <3>2, <1>0, <1>t, <1>a, <2>3, AckableIsLong DEF AnswerComplete
    <3>7. AnswerComplete'
      BY <2>1, <2>3, <3>1, <3>6, <1>0 DEF AnswerComplete
    <3> QED BY <3>4, <3>5, <3>7 DEF ReceiveInv
  <2>4. CASE ~(FastPath /\ eop)
    <3>1. pc' = "drain" /\ ack' = ack
      BY <2>4, <1>4 DEF Poll
    <3>2. TypeOK'
      BY <2>1, <3>1, <1>t DEF TypeOK, Labels
    <3>3. AckPrepared' /\ NoAckLeftBehind' /\ AnswerComplete' /\ ReportsAnswer'
      BY <2>1, <2>2, <3>1, <1>0
      DEF AckPrepared, NoAckLeftBehind, AnswerComplete, ReportsAnswer, DataHeader
    <3> QED BY <3>2, <3>3 DEF ReceiveInv
  <2> QED BY <2>3, <2>4
<1>5. CASE Drain
  <2>1. /\ pc = "drain" /\ pc' = "check" /\ pulled' = pushed
        /\ ack' = Preloaded(pushed)
        /\ sawStart' = (sawStart \/ pushed # 0 \/ answer.starts)
        /\ UNCHANGED <<answer, pushed, eop, expected, limit, acknowledge, guarded, result>>
    BY <1>5 DEF Drain, wire, arguments
  <2>2. ack = IF acknowledge /\ DataHeader(pulled) THEN "queued" ELSE "none"
    BY <2>1, <1>0 DEF AckPrepared
  <2>3. DataHeader(pulled) => DataHeader(pushed)
    BY <1>t, <1>a DEF DataHeader
  <2>4. ack' = IF acknowledge /\ DataHeader(pushed) THEN "queued" ELSE "none"
    BY <2>1, <2>2, <2>3 DEF Preloaded
  <2>5. TypeOK'
    <3>1. sawStart' \in BOOLEAN
      BY <2>1, <1>t, <1>a
    <3>2. pulled' \in 0 .. pushed' /\ pushed' \in 0 .. answer'.length
      BY <2>1, <1>t, <1>a
    <3> QED BY <2>1, <2>4, <3>1, <3>2, <1>t DEF TypeOK, Labels
  <2>6. AckPrepared' /\ NoAckLeftBehind' /\ ReportsAnswer'
    BY <2>1, <2>4 DEF AckPrepared, NoAckLeftBehind, ReportsAnswer, DataHeader
  <2>7. sawStart' <=> answer.starts
    BY <2>1, <1>0, <1>t, <1>a DEF AnswerComplete
  <2>8. AnswerComplete'
    BY <2>1, <2>7, <1>0 DEF AnswerComplete
  <2> QED BY <2>5, <2>6, <2>8 DEF ReceiveInv
<1>6. CASE Check
  <2>1. /\ pc = "check"
        /\ UNCHANGED <<answer, pushed, eop, expected, limit, acknowledge, guarded, pulled,
                       sawStart>>
    BY <1>6 DEF Check, wire, arguments
  <2>2. ack = IF acknowledge /\ DataHeader(pulled) THEN "queued" ELSE "none"
    BY <2>1, <1>0 DEF AckPrepared
  <2>3. CASE eop /\ pc' = "terminal" /\ UNCHANGED <<ack, result>>
    BY <2>1, <2>2, <2>3, <1>0, <1>t
    DEF ReceiveInv, TypeOK, Labels, AckPrepared, NoAckLeftBehind, AnswerComplete,
        ReportsAnswer, DataHeader
  <2>4. CASE ~eop /\ pc' = "poll" /\ UNCHANGED <<ack, result>>
    BY <2>1, <2>2, <2>4, <1>0, <1>t
    DEF ReceiveInv, TypeOK, Labels, AckPrepared, NoAckLeftBehind, AnswerComplete,
        ReportsAnswer, DataHeader
  <2>5. CASE /\ ~eop /\ ~answer.ends /\ pushed = answer.length /\ ack' = Discarded
             /\ Return(IF ~sawStart /\ pulled = 0 THEN "noResponse" ELSE "invalid")
    <3>1. /\ pc' = "idle" /\ ack' \in {"none", "discarded"}
          /\ result' = IF ~sawStart /\ pulled = 0 THEN "noResponse" ELSE "invalid"
      BY <2>2, <2>5 DEF Discarded, Return
    <3>2. TypeOK'
      BY <2>1, <3>1, <1>t DEF TypeOK, Labels, Results
    <3>3. AckPrepared' /\ NoAckLeftBehind' /\ AnswerComplete'
      BY <2>1, <3>1, <2>5, <1>0 DEF AckPrepared, NoAckLeftBehind, AnswerComplete
    <3>4. result' = Deserved
      <4>1. sawStart <=> answer.starts
        BY <2>1, <1>0 DEF AnswerComplete
      <4>2. ~answer.starts => pulled = 0
        BY <1>t, <1>a
      <4> QED BY <3>1, <4>1, <4>2, <2>5 DEF Deserved, WireValid
    <3>5. ReportsAnswer'
      BY <2>1, <3>1, <3>4 DEF ReportsAnswer, Deserved, WireValid
    <3> QED BY <3>2, <3>3, <3>5 DEF ReceiveInv
  <2> QED BY <1>6, <2>3, <2>4, <2>5 DEF Check
<1>7. CASE Terminal
  <2>1. /\ pc = "terminal" /\ pc' = "classify"
        /\ pulled' = IF Ackable(pulled) THEN pulled ELSE pushed
        /\ ack' = IF acknowledge /\ ~guarded /\ Ackable(pulled')
                  THEN Released(Preloaded(pulled')) ELSE Preloaded(pulled')
        /\ UNCHANGED <<answer, pushed, eop, expected, limit, acknowledge, guarded, sawStart,
                       result>>
    BY <1>7 DEF Terminal, wire, arguments
  <2>2. ack = IF acknowledge /\ DataHeader(pulled) THEN "queued" ELSE "none"
    BY <2>1, <1>0 DEF AckPrepared
  <2>3. pulled' \in 0 .. pushed /\ pulled' >= pulled /\ pulled' \in Nat
    BY <2>1, <1>t, <1>a
  <2>4. Preloaded(pulled') = IF acknowledge /\ DataHeader(pulled') THEN "queued" ELSE "none"
    BY <2>2, <2>3, <1>t, <1>a DEF Preloaded, DataHeader
  <2>5. Ackable(pulled') => DataHeader(pulled')
    BY <2>3, AckableIsLong
  <2>6. ack' = CASE acknowledge /\ DataHeader(pulled') /\ (guarded \/ ~Ackable(pulled'))
                       -> "queued"
                 [] acknowledge /\ ~guarded /\ Ackable(pulled') -> "sent"
                 [] OTHER -> "none"
    BY <2>1, <2>4, <2>5, <1>t DEF Released
  <2>7. TypeOK'
    BY <2>1, <2>3, <2>6, <1>t DEF TypeOK, Labels
  <2>8. AckPrepared' /\ NoAckLeftBehind' /\ ReportsAnswer'
    BY <2>1, <2>6 DEF AckPrepared, NoAckLeftBehind, ReportsAnswer, DataHeader, Ackable,
                      WireLimit
  <2>9. ~PrefixCrc => pulled' = pushed
    BY <2>1, <1>0, <1>t, <1>a, AckableIsLong DEF AnswerComplete
  <2>10. AnswerComplete'
    BY <2>1, <2>9, <1>0 DEF AnswerComplete
  <2> QED BY <2>7, <2>8, <2>10 DEF ReceiveInv
<1>8. CASE Refuse
  <2>1. /\ pc = "classify" /\ ~Ackable(pulled) /\ ack' = Discarded
        /\ pc' = "idle" /\ result' = Unacknowledged
        /\ UNCHANGED <<answer, pushed, eop, expected, limit, acknowledge, guarded, pulled,
                       sawStart>>
    BY <1>8 DEF Refuse, Return, wire, arguments
  <2>2. ack = IF acknowledge /\ DataHeader(pulled) THEN "queued" ELSE "none"
    BY <2>1, <1>0, <1>t DEF AckPrepared
  <2>3. ack' \in {"none", "discarded"}
    BY <2>1, <2>2 DEF Discarded
  <2>4. TypeOK'
    BY <2>1, <2>3, <1>t DEF TypeOK, Labels, Results, Unacknowledged
  <2>5. AckPrepared' /\ NoAckLeftBehind' /\ AnswerComplete'
    BY <2>1, <2>3, <1>0 DEF AckPrepared, NoAckLeftBehind, AnswerComplete
  <2>6. ASSUME ~PrefixCrc PROVE result' = Deserved /\ result' \in {"nak", "stall", "invalid"}
    BY <2>1, <2>6, RefusedDeserved, <1>0
  <2>7. ~PrefixCrc => ReportsAnswer'
    BY <2>1, <2>3, <2>6 DEF ReportsAnswer, Deserved, WireValid
  <2> QED BY <2>4, <2>5, <2>7 DEF ReceiveInv
<1>9. CASE Accept
  <2>1. /\ pc = "classify" /\ Ackable(pulled) /\ pc' = "idle"
        /\ ack' = IF acknowledge /\ ack # "sent" THEN Released(ack) ELSE ack
        /\ result' = IF answer.pid = expected THEN "data" ELSE "unexpectedToggle"
        /\ UNCHANGED <<answer, pushed, eop, expected, limit, acknowledge, guarded, pulled,
                       sawStart>>
    BY <1>9 DEF Accept, Return, wire, arguments
  <2>2. DataHeader(pulled)
    BY <2>1, <1>t, <1>a, AckableIsLong
  <2>3. ack' = IF acknowledge THEN "sent" ELSE "none"
    BY <2>1, <2>2, <1>0, <1>t DEF AckPrepared, Released
  <2>4. TypeOK'
    BY <2>1, <2>3, <1>t DEF TypeOK, Labels, Results
  <2>5. AckPrepared' /\ NoAckLeftBehind' /\ AnswerComplete'
    BY <2>1, <2>3, <1>0 DEF AckPrepared, NoAckLeftBehind, AnswerComplete
  <2>6. ASSUME ~PrefixCrc PROVE result' = Deserved
    BY <2>1, <2>6, AcceptedDeserved, <1>0
  <2>7. ~PrefixCrc => ReportsAnswer'
    BY <2>1, <2>3, <2>6, <1>t DEF ReportsAnswer, Deserved, WireValid
  <2> QED BY <2>4, <2>5, <2>7 DEF ReceiveInv
<1>10. CASE TransmitterHangs
  <2>1. /\ pc' = "idle" /\ result' = "error" /\ ack' \in {"sent", "discarded"}
        /\ UNCHANGED <<answer, pushed, eop, expected, limit, acknowledge, guarded, pulled,
                       sawStart>>
    BY <1>10 DEF TransmitterHangs, Return, wire, arguments
  <2>2. TypeOK'
    BY <2>1, <1>t DEF TypeOK, Labels, Results
  <2>3. AckPrepared' /\ NoAckLeftBehind' /\ AnswerComplete' /\ ReportsAnswer'
    BY <2>1, <1>0 DEF AckPrepared, NoAckLeftBehind, AnswerComplete, ReportsAnswer
  <2> QED BY <2>2, <2>3 DEF ReceiveInv
<1>11. CASE UNCHANGED vars
  BY <1>11 DEF vars, wire, arguments, ReceiveInv, TypeOK, AckPrepared, NoAckLeftBehind,
      AnswerComplete, ReportsAnswer, DataHeader, Ackable, WireLimit, Deserved, WireValid
<1> QED
  BY <1>1, <1>2, <1>3, <1>4, <1>5, <1>6, <1>7, <1>8, <1>9, <1>10, <1>11 DEF Next, Cpu

(* The receive path's inductive invariant: the ACK is in the transmitter   *)
(* before a data packet ends and is gone when the call returns, and unless *)
(* the CRC holds over a prefix the answer is reported as it deserves.      *)
THEOREM ReceiveSafety == Spec => []ReceiveInv
  BY InitReceive, NextReceive, PTL DEF Spec

(* Where no proper prefix of an answer passes the CRC, every interleaving  *)
(* of decoder, edge detector and CPU reports the answer as classify_in_data *)
(* does, and acknowledges exactly what it takes or knows.                  *)
THEOREM AnswersAreReported ==
    ASSUME ~PrefixCrc
    PROVE  Spec => []ReportsAnswer
<1>1. ReceiveInv => ReportsAnswer
  BY DEF ReceiveInv
<1> QED BY <1>1, ReceiveSafety, PTL

(***************************************************************************)
(* The handshake                                                           *)
(***************************************************************************)
(* The parts of an answer.                                                 *)
LEMMA ReplyType ==
    ASSUME reply \in Hand!Replies
    PROVE  /\ reply.starts \in BOOLEAN /\ reply.ends \in BOOLEAN /\ reply.length \in Nat
           /\ reply.header \in Hand!HandshakePids \cup {"other", "badPid", "badSync"}
           /\ ~reply.starts => ~reply.ends /\ reply.length = 0
  BY ReceiveAssumption DEF Hand!Replies

(* Every call starts from nothing.                                         *)
LEMMA HandshakeStarts == Hand!Init => Hand!HandshakeInv
<1> SUFFICES ASSUME Hand!Init PROVE Hand!HandshakeInv
  OBVIOUS
<1>1. reply \in Hand!Replies /\ reply.length = 0
  BY ReceiveAssumption DEF Hand!Init, Hand!NoReply, Hand!Replies
<1>2. begun \in BOOLEAN /\ ended \in BOOLEAN
  BY DEF Hand!Init
<1>3. /\ arrived = 0 /\ count = 0 /\ step = "idle" /\ cause = "none"
  BY DEF Hand!Init
<1>4. Hand!TypeOK
  BY <1>1, <1>2, <1>3 DEF Hand!TypeOK
<1>5. Hand!AnswerInHand /\ Hand!HandshakeIsSeen
  BY DEF Hand!Init, Hand!AnswerInHand, Hand!HandshakeIsSeen, Hand!Running
<1> QED BY <1>4, <1>5 DEF Hand!HandshakeInv

(* The flags and the FIFO change while a call is under way only.           *)
LEMMA LineKeepsInv ==
    ASSUME Hand!HandshakeInv, Hand!DetectStart \/ Hand!PushByte \/ Hand!DetectEnd
    PROVE  Hand!HandshakeInv'
<1> USE ReplyType DEF Hand!HandshakeInv
<1>1. UNCHANGED <<reply, step, cause, count, response, failure>> /\ step # "idle"
  BY DEF Hand!DetectStart, Hand!PushByte, Hand!DetectEnd, Hand!EdgeOn, Hand!DecoderOn, Hand!call
<1>2. Hand!TypeOK'
  <2>1. begun' \in BOOLEAN /\ ended' \in BOOLEAN
    BY DEF Hand!DetectStart, Hand!PushByte, Hand!DetectEnd, Hand!TypeOK
  <2>2. arrived' \in 0 .. reply.length /\ count \in 0 .. arrived'
    BY DEF Hand!DetectStart, Hand!PushByte, Hand!DetectEnd, Hand!TypeOK
  <2> QED BY <1>1, <2>1, <2>2 DEF Hand!TypeOK
<1>3. Hand!AnswerInHand'
  BY <1>1 DEF Hand!DetectStart, Hand!PushByte, Hand!DetectEnd, Hand!TypeOK, Hand!AnswerInHand,
     Hand!DecoderOn, Hand!EdgeOn
<1>4. Hand!HandshakeIsSeen'
  BY <1>1 DEF Hand!HandshakeIsSeen
<1> QED BY <1>2, <1>3, <1>4

(* A new call                                                              *)
LEMMA OutOnceKeepsInv ==
    ASSUME NEW a \in Hand!Replies, Hand!OutOnce(a)
    PROVE  Hand!HandshakeInv'
<1>1. a.length \in Nat
  BY ReceiveAssumption DEF Hand!Replies
<1>2. begun' \in BOOLEAN /\ ended' \in BOOLEAN
  BY DEF Hand!OutOnce
<1>3. reply' = a /\ arrived' = 0 /\ count' = 0 /\ step' = "park" /\ cause' = "none"
  BY DEF Hand!OutOnce
<1>4. Hand!TypeOK'
  BY <1>1, <1>2, <1>3 DEF Hand!TypeOK, Hand!Running
<1>5. Hand!AnswerInHand' /\ Hand!HandshakeIsSeen'
  BY DEF Hand!OutOnce, Hand!AnswerInHand, Hand!HandshakeIsSeen, Hand!Running
<1> QED BY <1>4, <1>5 DEF Hand!HandshakeInv

(* The CPU, up to the end of the observation                               *)
LEMMA PollingKeepsInv ==
    ASSUME Hand!HandshakeInv,
           \/ Hand!ParkReceive \/ Hand!TransmitTokenDataPair \/ Hand!SeeAnswer
           \/ Hand!StartDeadline \/ Hand!DrainRxFifo \/ Hand!CheckEnd
           \/ Hand!PacketDeadline \/ Hand!DisableDecoder
    PROVE  Hand!HandshakeInv'
<1> USE ReplyType
    DEF Hand!HandshakeInv, Hand!ParkReceive, Hand!TransmitTokenDataPair, Hand!SeeAnswer,
        Hand!StartDeadline, Hand!DrainRxFifo, Hand!CheckEnd, Hand!PacketDeadline,
        Hand!DisableDecoder, Hand!Return, Hand!line
<1>1. UNCHANGED <<reply, begun, arrived, ended, failure>>
  OBVIOUS
<1>2. Hand!TypeOK'
  BY <1>1 DEF Hand!TypeOK, Hand!Running
<1>3. Hand!AnswerInHand'
  <2>1. step' \in {"park", "transmit"} => ~begun'
    BY <1>1 DEF Hand!AnswerInHand
  <2>2. ended' /\ Hand!DecoderOn' => arrived' = reply'.length
    BY <1>1 DEF Hand!AnswerInHand, Hand!DecoderOn
  <2>3. cause' = "end" => ended' /\ arrived' = reply'.length
    BY <1>1 DEF Hand!AnswerInHand, Hand!DecoderOn
  <2>4. step' \in Hand!Running => cause' = "none"
    BY DEF Hand!AnswerInHand, Hand!Running
  <2> QED BY <1>1, <2>1, <2>2, <2>3, <2>4 DEF Hand!AnswerInHand
<1>4. step' = "idle" => cause' = "none"
  BY DEF Hand!AnswerInHand, Hand!Running
<1>5. Hand!HandshakeIsSeen'
  BY <1>4 DEF Hand!HandshakeIsSeen
<1> QED BY <1>2, <1>3, <1>5

(* The observation is judged: what ended the polling with the end of the   *)
(* packet has the whole answer, and the other causes claim no handshake.   *)
LEMMA RecordKeepsInv ==
    ASSUME Hand!HandshakeInv, Hand!Record
    PROVE  Hand!HandshakeInv'
<1> USE ReplyType
<1>1. /\ step' = "idle" /\ count' = arrived
      /\ response' = Hand!OutResponse(arrived)
      /\ failure' = IF Hand!OutResponse(arrived) = "BadResponse"
                    THEN Hand!HandshakeFailure(arrived) ELSE "none"
      /\ UNCHANGED <<reply, begun, arrived, ended, cause>>
  BY DEF Hand!Record, Hand!Finish, Hand!Return, Hand!line
<1>2. Hand!TypeOK'
  BY <1>1 DEF Hand!HandshakeInv, Hand!TypeOK, Hand!Running
<1>3. Hand!AnswerInHand'
  BY <1>1 DEF Hand!HandshakeInv, Hand!AnswerInHand, Hand!DecoderOn, Hand!Running
<1>4. Hand!HandshakeIsSeen'
  <2>1. CASE cause = "end"
    <3>1. ended /\ arrived = reply.length /\ reply.starts /\ reply.ends
      BY <2>1 DEF Hand!HandshakeInv, Hand!AnswerInHand
    <3>2. CASE Hand!Handshaken
      BY <1>1, <2>1, <3>1, <3>2
         DEF Hand!HandshakeIsSeen, Hand!Handshaken, Hand!OutResponse, Hand!HandshakePids
    <3>3. CASE ~Hand!Handshaken
      <4>1. arrived # 2 \/ reply.header \notin Hand!HandshakePids
        BY <3>1, <3>3 DEF Hand!Handshaken
      <4>2. response' = "BadResponse" /\ failure' = Hand!HandshakeFailure(arrived)
        BY <1>1, <2>1, <4>1 DEF Hand!OutResponse
      <4>3. failure' = IF reply.length # 2 THEN "WrongLength"
                       ELSE CASE reply.header = "badSync" -> "InvalidSync"
                              [] reply.header = "badPid" -> "InvalidPidComplement"
                              [] OTHER -> "UnexpectedPid"
        <5>1. CASE arrived # 2
          BY <3>1, <4>2, <5>1 DEF Hand!HandshakeFailure
        <5>2. CASE arrived = 2
          <6>1. reply.header \in {"other", "badPid", "badSync"}
            BY <4>1, <5>2 DEF Hand!HandshakeInv, Hand!TypeOK
          <6> QED BY <3>1, <4>2, <5>2, <6>1 DEF Hand!HandshakeFailure
        <5> QED BY <5>1, <5>2
      <4>4. failure' # "Unknown" /\ Hand!Handshaken' = FALSE
        BY <1>1, <3>3, <4>3 DEF Hand!Handshaken
      <4> QED
        BY <1>1, <2>1, <4>2, <4>3, <4>4 DEF Hand!HandshakeIsSeen, Hand!HandshakePids
    <3> QED BY <3>2, <3>3
  <2>2. CASE cause # "end"
    <3>1. Hand!OutResponse(arrived) \in {"NoResponse", "BadResponse"}
      BY <2>2 DEF Hand!OutResponse
    <3>2. failure' = "Unknown" /\ cause # "none" => cause = "late"
      BY <1>1, <2>2 DEF Hand!HandshakeInv, Hand!TypeOK, Hand!OutResponse
    <3> QED
      BY <1>1, <2>2, <3>1, <3>2 DEF Hand!HandshakeIsSeen, Hand!HandshakePids
  <2> QED BY <2>1, <2>2
<1> QED BY <1>2, <1>3, <1>4 DEF Hand!HandshakeInv

(* Every step keeps the invariant.                                         *)
LEMMA HandshakeKeepsInv == Hand!HandshakeInv /\ [Hand!Next]_hands => Hand!HandshakeInv'
<1> SUFFICES ASSUME Hand!HandshakeInv, [Hand!Next]_hands PROVE Hand!HandshakeInv'
  OBVIOUS
<1>1. CASE \E a \in Hand!Replies : Hand!OutOnce(a)
  BY <1>1, OutOnceKeepsInv
<1>2. CASE Hand!DetectStart \/ Hand!PushByte \/ Hand!DetectEnd
  BY <1>2, LineKeepsInv
<1>3. CASE \/ Hand!ParkReceive \/ Hand!TransmitTokenDataPair \/ Hand!SeeAnswer
           \/ Hand!StartDeadline \/ Hand!DrainRxFifo \/ Hand!CheckEnd
           \/ Hand!PacketDeadline \/ Hand!DisableDecoder
  BY <1>3, PollingKeepsInv
<1>4. CASE Hand!Record
  BY <1>4, RecordKeepsInv
<1>5. CASE UNCHANGED hands
  BY <1>5 DEF hands, Hand!HandshakeInv, Hand!TypeOK, Hand!AnswerInHand, Hand!DecoderOn,
     Hand!HandshakeIsSeen, Hand!Handshaken
<1> QED
  BY <1>1, <1>2, <1>3, <1>4, <1>5 DEF Hand!Next

(***************************************************************************)
(* The frame schedule                                                      *)
(***************************************************************************)
(* The invariant holds at power-up.                                        *)
LEMMA FramesStart == Frames!Init => Frames!FrameInv
  BY FrameAssumption, SMT DEF Frames!Init, Frames!FrameInv, Frames!TypeOK, Frames!Quiet, Frames!Spacing, Frames!Pcs

(* A marker that goes out at its deadline keeps the invariant.             *)
LEMMA MarkerKeepsInv ==
  ASSUME Frames!FrameInv, NEW n \in {0, 1}, Frames!Marker(n), now >= bus_ready_at, now >= next_frame,
         holder \in {"idle", "ready", "frame"}
  PROVE  Frames!FrameInv'
  BY FrameAssumption, SMT
     DEF Frames!FrameInv, Frames!TypeOK, Frames!Quiet, Frames!Spacing, Frames!Pcs, Frames!Marker, Frames!Numbered

(* So does one that fails: it only spends a number.                        *)
LEMMA MarkerFailsKeepsInv ==
  ASSUME Frames!FrameInv, Frames!MarkerFails, holder \in {"idle", "ready", "frame"}
  PROVE  Frames!FrameInv'
  BY FrameAssumption, SMT
     DEF Frames!FrameInv, Frames!TypeOK, Frames!Quiet, Frames!Spacing, Frames!Pcs, Frames!MarkerFails, Frames!Numbered, Frames!history

(* Releasing the bus at the end of a pulse, or of its future.              *)
LEMMA ReleaseKeepsInv ==
  ASSUME Frames!FrameInv, Frames!Release, holder = "drive", holder' \in {"idle", "recover"}
  PROVE  Frames!FrameInv'
  BY FrameAssumption, SMT DEF Frames!FrameInv, Frames!TypeOK, Frames!Quiet, Frames!Spacing, Frames!Pcs, Frames!Release, Frames!history

(* Every step keeps the invariant.                                         *)
LEMMA FramesKeepInv == Frames!FrameInv /\ [Frames!Next]_frames => Frames!FrameInv'
<1> SUFFICES ASSUME Frames!FrameInv, [Frames!Next]_frames PROVE Frames!FrameInv'
    OBVIOUS
<1> USE FrameAssumption
<1>1. CASE Frames!Tick
  BY <1>1, SMT DEF Frames!Tick, Frames!FrameInv, Frames!TypeOK, Frames!Quiet, Frames!Spacing, Frames!schedule, Frames!history
<1>2. CASE Frames!Service
  <2>1. holder = "idle" /\ now >= bus_ready_at /\ now >= next_frame
    BY <1>2 DEF Frames!Service, Frames!Due
  <2>2. Frames!Marker(0) \/ Frames!MarkerFails
    BY <1>2 DEF Frames!Service
  <2> QED BY <2>1, <2>2, MarkerKeepsInv, MarkerFailsKeepsInv
<1>3. CASE Frames!Schedule
  BY <1>3, SMT DEF Frames!Schedule, Frames!FrameAfter, Frames!FrameInv, Frames!TypeOK, Frames!Quiet, Frames!Spacing, Frames!Pcs, Frames!history
<1>4. CASE Frames!Begin
  BY <1>4, SMT DEF Frames!Begin, Frames!FrameInv, Frames!TypeOK, Frames!Quiet, Frames!Spacing, Frames!Pcs, Frames!schedule, Frames!history
<1>5. CASE Frames!AwaitFrame
  BY <1>5, SMT DEF Frames!AwaitFrame, Frames!FrameInv, Frames!TypeOK, Frames!Quiet, Frames!Spacing, Frames!Pcs, Frames!schedule, Frames!history
<1>6. CASE Frames!Frame
  <2>1. holder = "frame" /\ now >= next_frame
    BY <1>6 DEF Frames!Frame
  <2>2. now >= bus_ready_at
    BY <2>1 DEF Frames!FrameInv, Frames!Quiet
  <2>3. Frames!Marker(1) \/ Frames!MarkerFails
    BY <1>6 DEF Frames!Frame
  <2> QED BY <2>1, <2>2, <2>3, MarkerKeepsInv, MarkerFailsKeepsInv
<1>7. CASE Frames!GoAhead
  <2>1. holder = "ready" /\ now >= bus_ready_at
    BY <1>7 DEF Frames!GoAhead
  <2>2. CASE Frames!Due
    <3>1. now >= next_frame
      BY <2>2 DEF Frames!Due
    <3>2. Frames!Marker(1) \/ Frames!MarkerFails
      BY <1>7, <2>2 DEF Frames!GoAhead
    <3> QED BY <2>1, <3>1, <3>2, MarkerKeepsInv, MarkerFailsKeepsInv
  <2>3. CASE ~Frames!Due
    <3>1. holder' = "transact" /\ UNCHANGED <<now, Frames!schedule, left, Frames!history>>
      BY <1>7, <2>3 DEF Frames!GoAhead
    <3> QED
      BY <2>1, <3>1, SMT DEF Frames!FrameInv, Frames!TypeOK, Frames!Quiet, Frames!Spacing, Frames!Pcs, Frames!schedule, Frames!history
  <2> QED BY <2>2, <2>3
<1>8. CASE Frames!Transact
  BY <1>8, SMT DEF Frames!Transact, Frames!FrameInv, Frames!TypeOK, Frames!Quiet, Frames!Spacing, Frames!Pcs, Frames!history
<1>9. CASE Frames!Reset
  BY <1>9, SMT DEF Frames!Reset, Frames!FrameInv, Frames!TypeOK, Frames!Quiet, Frames!Spacing, Frames!Pcs, Frames!history
<1>10. CASE Frames!PulseEnds
  BY <1>10, ReleaseKeepsInv DEF Frames!PulseEnds
<1>11. CASE Frames!ResetEnds
  BY <1>11, SMT DEF Frames!ResetEnds, Frames!FrameInv, Frames!TypeOK, Frames!Quiet, Frames!Spacing, Frames!Pcs, Frames!history
<1>12. CASE Frames!Drop
  <2>1. CASE holder = "drive" /\ Frames!Release /\ holder' = "idle"
    BY <2>1, ReleaseKeepsInv
  <2>2. CASE /\ holder \in {"ready", "frame", "recover"}
             /\ holder' = "idle" /\ left' = 0 /\ UNCHANGED <<now, Frames!schedule, Frames!history>>
    BY <2>2, SMT DEF Frames!FrameInv, Frames!TypeOK, Frames!Quiet, Frames!Spacing, Frames!Pcs, Frames!schedule, Frames!history
  <2> QED BY <1>12, <2>1, <2>2 DEF Frames!Drop
<1>13. CASE UNCHANGED frames
  BY <1>13, SMT DEF frames, Frames!FrameInv, Frames!TypeOK, Frames!Quiet, Frames!Spacing
<1> QED
  BY <1>1, <1>2, <1>3, <1>4, <1>5, <1>6, <1>7, <1>8, <1>9, <1>10, <1>11, <1>12, <1>13 DEF Frames!Next

(* A step that emits a marker does so at its deadline.                     *)
LEMMA MarkersAreSpaced == Frames!FrameInv /\ [Frames!Next]_frames => (newer' # newer => newer' >= older + Ms)
<1> SUFFICES ASSUME Frames!FrameInv, [Frames!Next]_frames, newer' # newer PROVE newer' >= older + Ms
    OBVIOUS
<1>1. PICK n \in {0, 1} : Frames!Marker(n) /\ now >= next_frame /\ holder \in {"idle", "ready", "frame"}
  <2>1. CASE Frames!Service
    BY <2>1 DEF Frames!Service, Frames!Due, Frames!MarkerFails, Frames!history
  <2>2. CASE Frames!Frame
    BY <2>2 DEF Frames!Frame, Frames!MarkerFails, Frames!history
  <2>3. CASE Frames!GoAhead
    BY <2>3 DEF Frames!GoAhead, Frames!Due, Frames!MarkerFails, Frames!history
  <2> QED
    BY <2>1, <2>2, <2>3 DEF Frames!Next, frames, Frames!history, Frames!Tick, Frames!Schedule, Frames!Begin, Frames!AwaitFrame, Frames!Transact,
       Frames!Reset, Frames!PulseEnds, Frames!Release, Frames!ResetEnds, Frames!Drop
<1> QED
  BY <1>1, FrameAssumption, SMT DEF Frames!Marker, Frames!FrameInv, Frames!TypeOK, Frames!Spacing

(***************************************************************************)
(* The engine: each part goes its own way                                  *)
(***************************************************************************)
LEMMA EngineStep ==
    ASSUME [EngineNext]_engine
    PROVE  [Next]_vars /\ [Hand!Next]_hands /\ [Frames!Next]_frames
<1>1. CASE BeginData
  BY <1>1 DEF BeginData, Next, hands, frames
<1>2. CASE ReceiveData
  BY <1>2 DEF ReceiveData, Next, hands, frames
<1>3. CASE ReceiveHandshake
  BY <1>3 DEF ReceiveHandshake, vars, frames
<1>4. CASE KeepFrames
  BY <1>4 DEF KeepFrames, vars, hands
<1>5. CASE Rest \/ UNCHANGED engine
  BY <1>5 DEF Rest, engine
<1> QED
  BY <1>1, <1>2, <1>3, <1>4, <1>5 DEF EngineNext

(* The engine's receiver of data is a ReceivePath.                         *)
THEOREM EngineReceives == EngineSpec => Spec
<1>1. EngineInit => Init
  BY DEF EngineInit
<1> QED BY <1>1, EngineStep, PTL DEF EngineSpec, Spec

(* In the engine no ACK outlives its transaction: ReceiveInv.              *)
THEOREM EngineReceiveSafety == EngineSpec => []ReceiveInv
  BY EngineReceives, ReceiveSafety, PTL

(* out_once reports a handshake only if the device sent it, and the one it *)
(* sent unless a deadline passed, for every depth of the FIFO and every    *)
(* length of an answer.                                                    *)
THEOREM HandshakesAreSeen == EngineSpec => []HandshakeIsSeen
<1>1. EngineInit => Hand!HandshakeInv
  BY HandshakeStarts DEF EngineInit
<1>2. Hand!HandshakeInv /\ [EngineNext]_engine => Hand!HandshakeInv'
  BY EngineStep, HandshakeKeepsInv
<1>3. Hand!HandshakeInv => HandshakeIsSeen
  BY DEF Hand!HandshakeInv, HandshakeIsSeen
<1> QED BY <1>1, <1>2, <1>3, PTL DEF EngineSpec

(* The bus is quiet while a reset drives it and until the device has       *)
(* recovered, however the reset's future ends; and the frame deadline is   *)
(* past the last marker and a frame past the one before.                   *)
THEOREM FrameInvHolds == EngineSpec => []FrameInv
<1>1. EngineInit => FrameInv
  BY FramesStart DEF EngineInit, FrameInv
<1>2. FrameInv /\ [EngineNext]_engine => FrameInv'
  BY EngineStep, FramesKeepInv DEF FrameInv
<1> QED BY <1>1, <1>2, PTL DEF EngineSpec

(* Idle service and transfers together never put three markers within a    *)
(* frame, whatever is late and whatever is dropped.                        *)
THEOREM NoBurstHolds == EngineSpec => NoBurst
<1>1. FrameInv /\ [EngineNext]_engine => (newer' # newer => newer' >= older + Ms)
  BY EngineStep, MarkersAreSpaced DEF FrameInv
<1> QED BY <1>1, FrameInvHolds, PTL DEF EngineSpec, NoBurst, Frames!NoBurst
=============================================================================
