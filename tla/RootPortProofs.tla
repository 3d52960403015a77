---------------------------- MODULE RootPortProofs ----------------------------
(***************************************************************************)
(* Proofs about the host state, for every set of pipes, every set of       *)
(* speeds and every generation width, and about the firmware that owns it, *)
(* for every debounce length, every bound on glitches below it and both    *)
(* kinds of bus handle.                                                    *)
(***************************************************************************)
EXTENDS RootPort, TLAPS

(***************************************************************************)
(* HostState: Init, Next and Spec are those of any user of it              *)
(***************************************************************************)
(* Generations keep their type when they are bumped, however wide they are. *)
LEMMA BumpType == ASSUME NEW g \in Generation PROVE Bump(g) \in Generation
BY GenModulusAssumption DEF Bump, Generation

LEMMA ZeroType == 0 \in Generation
BY GenModulusAssumption DEF Generation

AgeRecord == [connection : Generation, reset : Generation]

LEMMA InitType == Init => TypeOK
<1> SUFFICES ASSUME Init PROVE TypeOK
  OBVIOUS
<1>1. port \in PortState /\ pending \in PendingEvents
  BY ZeroType DEF Init, NewPort, PortState, NoEvents, PendingEvents
<1>2. /\ engine \in Processes \cup {Free}
      /\ resetInProgress \in BOOLEAN
      /\ eventWake \in BOOLEAN
      /\ told \in Speeds \cup {None}
  BY DEF Init
<1>3. pc \in [Processes -> Labels] /\ outcome \in [Processes -> Outcomes]
  BY DEF Init, Labels, Outcomes
<1>4. resetSpeed \in [Resetters -> Speeds \cup {None}]
  BY DEF Init
<1>5. pipe \in [Pipes -> PipeRecord]
  BY ZeroType DEF Init, PipeRecord
<1>6. age \in [Handles -> AgeRecord]
  BY ZeroType DEF Init, NewAge, AgeRecord
<1>7. savedGeneration \in Generation
  BY ZeroType DEF Init
<1>8. QED
  BY <1>1, <1>2, <1>3, <1>4, <1>5, <1>6, <1>7 DEF TypeOK, AgeRecord

(* Ages stay generations as long as no handle wraps.                       *)
LEMMA AgedEntryType ==
    ASSUME TypeOK, NEW c \in BOOLEAN, NEW r \in BOOLEAN, NEW h \in Handles,
           Aged(c, r)[h].connection < GenModulus, Aged(c, r)[h].reset < GenModulus
    PROVE  Aged(c, r)[h] \in AgeRecord
<1> DEFINE C == IF c /\ Live(h) THEN age[h].connection + 1 ELSE age[h].connection
           R == IF r /\ Live(h) /\ h \in Pipes /\ pipe[h].addressed
                THEN age[h].reset + 1 ELSE age[h].reset
<1>1. Aged(c, r)[h] = [connection |-> C, reset |-> R]
  BY DEF Aged
<1>2. age[h].connection \in Nat /\ age[h].reset \in Nat
  BY GenModulusAssumption DEF TypeOK, Generation
<1>3. C \in Nat /\ R \in Nat
  BY <1>2
<1>4. C \in Generation /\ R \in Generation
  BY <1>1, <1>3, GenModulusAssumption DEF Generation
<1>5. QED
  BY <1>1, <1>4 DEF AgeRecord

LEMMA AgedType ==
    ASSUME TypeOK, NEW c \in BOOLEAN, NEW r \in BOOLEAN, NoHandleWraps(Aged(c, r))
    PROVE  Aged(c, r) \in [Handles -> AgeRecord]
<1>1. \A h \in Handles : Aged(c, r)[h] \in AgeRecord
  BY AgedEntryType DEF NoHandleWraps
<1>2. Aged(c, r) = [h \in Handles |-> Aged(c, r)[h]]
  BY DEF Aged
<1>3. QED
  BY <1>1, <1>2

LEMMA AgedExceptMonitorType ==
    ASSUME TypeOK, NEW c \in BOOLEAN, NEW r \in BOOLEAN,
           NoHandleWraps([Aged(c, r) EXCEPT ![Monitor] = NewAge])
    PROVE  [Aged(c, r) EXCEPT ![Monitor] = NewAge] \in [Handles -> AgeRecord]
<1> DEFINE after == [Aged(c, r) EXCEPT ![Monitor] = NewAge]
<1>1. after = [h \in Handles |-> IF h = Monitor THEN NewAge ELSE Aged(c, r)[h]]
  BY DEF Aged
<1>2. \A h \in Handles : h # Monitor => Aged(c, r)[h] \in AgeRecord
  BY <1>1, AgedEntryType DEF NoHandleWraps
<1>3. NewAge \in AgeRecord
  BY ZeroType DEF NewAge, AgeRecord
<1>4. QED
  BY <1>1, <1>2, <1>3

(* A handle whose call is over may get any other age; a new age is typed.   *)
LEMMA NewAgeType ==
    ASSUME TypeOK, NEW h \in Handles
    PROVE  [age EXCEPT ![h] = NewAge] \in [Handles -> AgeRecord]
BY ZeroType DEF TypeOK, NewAge, AgeRecord

LEMMA DisconnectType ==
    ASSUME TypeOK, NEW removal \in Removals, Disconnect(removal)
    PROVE  /\ port' \in PortState
           /\ pending' \in PendingEvents
           /\ age' \in [Handles -> AgeRecord]
<1>1. port' \in PortState
  BY BumpType DEF Disconnect, AfterDisconnection, PortState, TypeOK
<1>2. pending' \in PendingEvents
  BY DEF Disconnect, PushRemoval, PendingEvents, TypeOK, Removals
<1>3. QED
  BY <1>1, <1>2, AgedType DEF Disconnect

LEMMA StepKeepsType == TypeOK /\ [Next]_vars => TypeOK'
<1> SUFFICES ASSUME TypeOK, [Next]_vars PROVE TypeOK'
  OBVIOUS
<1> USE DEF shared, local, history, Goto, Finish, AgeRecord
<1>1. ASSUME NEW removal \in Removals, Report(removal) PROVE TypeOK'
  BY <1>1, DisconnectType DEF Report, TypeOK, Labels
<1>2. CASE ReportUnlessResetting
  BY <1>2, DisconnectType DEF ReportUnlessResetting, TypeOK, Labels, Removals
<1>3. ASSUME NEW x \in Resetters \cup {Reporter}, SignalEvent(x) PROVE TypeOK'
  BY <1>3 DEF SignalEvent, TypeOK, Labels
<1>4. ASSUME NEW x \in Processes, NEW label \in Labels, Acquire(x, label) PROVE TypeOK'
  BY <1>4 DEF Acquire, TypeOK
<1>5. ASSUME NEW r \in Resetters, MarkBusReset(r) PROVE TypeOK'
  <2>1. port' \in PortState
    BY <1>5, BumpType DEF MarkBusReset, AfterBusReset, PortState, TypeOK
  <2>2. age' \in [Handles -> AgeRecord]
    BY <1>5, AgedType DEF MarkBusReset
  <2>3. QED
    BY <1>5, <2>1, <2>2 DEF MarkBusReset, TypeOK, Labels
<1>6. ASSUME NEW r \in Resetters, BeginResetActivity(r) PROVE TypeOK'
  BY <1>6 DEF BeginResetActivity, TypeOK, Labels
<1>7. ASSUME NEW r \in Resetters, BusResetReturns(r) PROVE TypeOK'
  <2>1. PICK found \in {"ok", "disconnected", "failed", "cancelled"} :
            /\ outcome' = [outcome EXCEPT ![r] = found]
            /\ \/ pc' = [pc EXCEPT ![r] = "publish"] /\ age' = age
               \/ pc' = [pc EXCEPT ![r] = "clear"] /\ age' = Forgotten(r)
    BY <1>7 DEF BusResetReturns
  <2>2. age' \in [Handles -> AgeRecord]
    BY <2>1, NewAgeType DEF Forgotten, TypeOK, Handles
  <2>3. pc' \in [Processes -> Labels] /\ outcome' \in [Processes -> Outcomes]
    BY <2>1 DEF TypeOK, Labels, Outcomes
  <2>4. QED
    BY <1>7, <2>2, <2>3 DEF BusResetReturns, TypeOK
<1>8. ASSUME NEW r \in Resetters, DropResetActivity(r) PROVE TypeOK'
  BY <1>8 DEF DropResetActivity, TypeOK, Labels
<1>9. ASSUME NEW r \in Resetters, ReportFailedReset(r) PROVE TypeOK'
  BY <1>9, DisconnectType DEF ReportFailedReset, TypeOK, Labels, Removals
<1>10. ASSUME NEW r \in Resetters, SignalFailedReset(r) PROVE TypeOK'
  BY <1>10 DEF SignalFailedReset, TypeOK, Labels
<1>11. ASSUME NEW r \in Resetters, ReleaseAfterReset(r) PROVE TypeOK'
  BY <1>11 DEF ReleaseAfterReset, TypeOK, Labels, Outcomes
<1>12. ASSUME NEW r \in Resetters, CancelLock(r) PROVE TypeOK'
  BY <1>12, NewAgeType DEF CancelLock, Forgotten, TypeOK, Labels, Handles
<1>13. ASSUME NEW speed \in Speeds, ReportConnected(speed) PROVE TypeOK'
  BY <1>13, NewAgeType DEF ReportConnected, TypeOK, Labels, PortState, Handles
<1>14. CASE PublishConnection
  <2>1. CASE port.connectionGeneration = savedGeneration
    <3>1. port' \in PortState
      <4>1. resetSpeed[Monitor] \in Speeds \cup {None}
        BY DEF TypeOK, Resetters
      <4>2. port' = AfterConnection(port, resetSpeed[Monitor])
        BY <1>14, <2>1 DEF PublishConnection
      <4>3. QED
        BY <4>1, <4>2, BumpType DEF AfterConnection, PortState, TypeOK
    <3>2. pending' \in PendingEvents
      BY <1>14, <2>1 DEF PublishConnection, PushConnected, PendingEvents, TypeOK, Resetters
    <3>3. age' \in [Handles -> AgeRecord]
      BY <1>14, <2>1, AgedExceptMonitorType DEF PublishConnection
    <3>4. QED
      BY <1>14, <2>1, <3>1, <3>2, <3>3 DEF PublishConnection, TypeOK, Labels
  <2>2. CASE port.connectionGeneration # savedGeneration
    <3>1. age' \in [Handles -> AgeRecord]
      BY <1>14, <2>2, NewAgeType DEF PublishConnection, Handles
    <3>2. outcome' \in [Processes -> Outcomes] /\ pc' \in [Processes -> Labels]
      BY <1>14, <2>2 DEF PublishConnection, TypeOK, Labels, Outcomes
    <3>3. QED
      BY <1>14, <2>2, <3>1, <3>2 DEF PublishConnection, TypeOK
  <2>3. QED
    BY <2>1, <2>2
<1>15. CASE ServiceFrame
  BY <1>15 DEF ServiceFrame, TypeOK, Labels, Processes
<1>16. CASE FrameServiced
  BY <1>16 DEF FrameServiced, TypeOK, Labels
<1>17. CASE WaitForDeviceEvent \/ CancelWait \/ StartBusReset \/ EventWakes
  BY <1>17 DEF WaitForDeviceEvent, CancelWait, StartBusReset, EventWakes, TypeOK, Labels
<1>18. CASE TakePendingEvent
  <2>1. pending' \in PendingEvents
    BY <1>18 DEF TakePendingEvent, AfterTake, NoEvents, PendingEvents, TypeOK
  <2>2. told' \in Speeds \cup {None}
    BY <1>18 DEF TakePendingEvent, NextEvent, PendingEvents, TypeOK
  <2>3. QED
    BY <1>18, <2>1, <2>2 DEF TakePendingEvent, TypeOK, Labels
<1>19. CASE ReadSpeed
  BY <1>19 DEF ReadSpeed, TypeOK, Labels, PortState
<1>20. ASSUME NEW p \in Pipes, NEW addressed \in BOOLEAN, AllocPipe(p, addressed)
       PROVE TypeOK'
  BY <1>20, ZeroType DEF AllocPipe, NewAge, TypeOK, Labels, PortState, PipeRecord
<1>21. ASSUME NEW p \in Pipes, DropPipe(p) PROVE TypeOK'
  BY <1>21, ZeroType DEF DropPipe, NewAge, TypeOK, Labels, Outcomes, PipeRecord
<1>22. ASSUME NEW p \in Pipes, StartTransfer(p) PROVE TypeOK'
  BY <1>22 DEF StartTransfer, TypeOK, Labels, Outcomes
<1>23. ASSUME NEW p \in Pipes, CancelTransfer(p) PROVE TypeOK'
  BY <1>23 DEF CancelTransfer, TypeOK, Labels, Outcomes
<1>24. ASSUME NEW p \in Pipes, CheckBeforeLock(p) PROVE TypeOK'
  BY <1>24 DEF CheckBeforeLock, TypeOK, Labels, Outcomes
<1>25. ASSUME NEW p \in Pipes, CheckAfterLock(p) PROVE TypeOK'
  BY <1>25 DEF CheckAfterLock, TypeOK, Labels, Outcomes
<1>26. ASSUME NEW p \in Pipes, Transact(p) PROVE TypeOK'
  BY <1>26 DEF Transact, TypeOK, Labels, Outcomes
<1>27. ASSUME NEW p \in Pipes, ServiceAndRelease(p) PROVE TypeOK'
  BY <1>27 DEF ServiceAndRelease, TypeOK, Labels
<1>28. ASSUME NEW p \in Pipes, CheckAfterRelease(p) PROVE TypeOK'
  BY <1>28 DEF CheckAfterRelease, TypeOK, Labels, Outcomes
<1>29. CASE UNCHANGED vars
  BY <1>29 DEF vars, TypeOK
<1>30. QED
  BY <1>1, <1>2, <1>3, <1>4, <1>5, <1>6, <1>7, <1>8, <1>9, <1>10, <1>11, <1>12,
     <1>13, <1>14, <1>15, <1>16, <1>17, <1>18, <1>19, <1>20, <1>21, <1>22, <1>23,
     <1>24, <1>25, <1>26, <1>27, <1>28, <1>29
     DEF Next, MonitorStep, ControllerStep, ResetStep, PipeStep, Resetters,
         Processes, Labels

(* Every variable has its type, for every generation width and set of pipes. *)
THEOREM TypeCorrect == Spec => []TypeOK
<1>1. QED
  BY InitType, StepKeepsType, PTL DEF Spec

------------------------------------------------------------------------------
(* How the shared state can change                                         *)

(* Only four kinds of step touch the port, the mailbox or what the          *)
(* application was told.                                                   *)
LEMMA PortChanges ==
    ASSUME [Next]_vars
    PROVE  \/ UNCHANGED <<port, pending, told>>
           \/ \E removal \in Removals : Disconnect(removal) /\ UNCHANGED told
           \/ \E r \in Resetters : MarkBusReset(r)
           \/ PublishConnection
           \/ TakePendingEvent
<1> USE DEF shared, local, history
<1>1. CASE UNCHANGED vars
  BY <1>1 DEF vars
<1>2. ASSUME NEW r \in Resetters, ResetStep(r) \/ CancelLock(r)
      PROVE  \/ UNCHANGED <<port, pending, told>>
             \/ Disconnect("Disconnected") /\ UNCHANGED told
             \/ MarkBusReset(r)
  BY <1>2 DEF ResetStep, BeginResetActivity, BusResetReturns, DropResetActivity,
              ReportFailedReset, SignalFailedReset, ReleaseAfterReset, CancelLock
<1>3. ASSUME NEW p \in Pipes,
             \/ \E addressed \in BOOLEAN : AllocPipe(p, addressed)
             \/ DropPipe(p) \/ StartTransfer(p) \/ CancelTransfer(p)
             \/ Acquire(p, "check") \/ PipeStep(p)
      PROVE  UNCHANGED <<port, pending, told>>
  BY <1>3 DEF AllocPipe, DropPipe, StartTransfer, CancelTransfer, Acquire, PipeStep,
              CheckBeforeLock, CheckAfterLock, Transact, ServiceAndRelease,
              CheckAfterRelease
<1>4. CASE \/ \E x \in {Monitor, Reporter} : SignalEvent(x)
           \/ Acquire(Monitor, "mark") \/ Acquire(Controller, "speed")
           \/ FrameServiced \/ ServiceFrame \/ EventWakes \/ ReadSpeed
           \/ WaitForDeviceEvent \/ CancelWait \/ StartBusReset
           \/ \E speed \in Speeds : ReportConnected(speed)
  BY <1>4 DEF SignalEvent, Acquire, FrameServiced, ServiceFrame, EventWakes, ReadSpeed,
              WaitForDeviceEvent, CancelWait, StartBusReset, ReportConnected
<1>5. CASE ReportUnlessResetting \/ \E removal \in Removals : Report(removal)
  BY <1>5 DEF ReportUnlessResetting, Report, Removals
<1>6. QED
  BY <1>1, <1>2, <1>3, <1>4, <1>5
     DEF Next, MonitorStep, ControllerStep, Resetters, Removals

(* The mailbox and the port agree after every step.                        *)
LEMMA StepKeepsMailbox ==
    ASSUME TypeOK, AttachHasSpeed, MailboxAgreesWithPort, [Next]_vars
    PROVE  MailboxAgreesWithPort'
<1> USE EventsAssumption DEF MailboxAgreesWithPort, AfterDraining
<1>1. CASE UNCHANGED <<port, pending, told>>
  BY <1>1
<1>2. ASSUME NEW removal \in Removals, Disconnect(removal), UNCHANGED told
      PROVE  MailboxAgreesWithPort'
  BY <1>2 DEF Disconnect, AfterDisconnection, PushRemoval, Removals
<1>3. ASSUME NEW r \in Resetters, MarkBusReset(r) PROVE MailboxAgreesWithPort'
  <2>1. port'.speed = port.speed /\ port'.connected = port.connected
    BY <1>3 DEF MarkBusReset, AfterBusReset, TypeOK, PortState
  <2>2. UNCHANGED <<pending, told>>
    BY <1>3 DEF MarkBusReset
  <2>3. AfterDraining' = port'.speed
    BY <2>1, <2>2
  <2>4. port'.connected <=> port'.speed # None
    BY <2>1
  <2>5. QED
    BY <2>3, <2>4
<1>4. CASE PublishConnection
  <2>1. CASE port.connectionGeneration = savedGeneration
    <3>1. resetSpeed[Monitor] \in Speeds
      BY <1>4 DEF PublishConnection, AttachHasSpeed, Live
    <3>2. /\ port'.connected = TRUE
          /\ port'.speed = resetSpeed[Monitor]
          /\ pending'.connected = resetSpeed[Monitor]
      BY <1>4, <2>1 DEF PublishConnection, AfterConnection, PushConnected, TypeOK,
                        PendingEvents
    <3>3. QED
      BY <3>1, <3>2
  <2>2. CASE port.connectionGeneration # savedGeneration
    BY <1>4, <2>2 DEF PublishConnection
  <2>3. QED
    BY <2>1, <2>2
<1>5. CASE TakePendingEvent
  BY <1>5 DEF TakePendingEvent, AfterTake, NextEvent, NoEvents, TypeOK, PendingEvents
<1>6. QED
  BY <1>1, <1>2, <1>3, <1>4, <1>5, PortChanges

(* Only the monitor's own call changes the speed it resets at.             *)
LEMMA StepKeepsSpeed ==
    ASSUME TypeOK, AttachHasSpeed, [Next]_vars
    PROVE  AttachHasSpeed'
<1> USE DEF AttachHasSpeed, Live, Monitor, Reporter, Controller, shared, local, history,
            Goto, Finish
<1>1. CASE UNCHANGED vars
  BY <1>1 DEF vars
<1>2. ASSUME NEW r \in Resetters, ResetStep(r) \/ CancelLock(r)
      PROVE  AttachHasSpeed'
  BY <1>2 DEF ResetStep, BeginResetActivity, BusResetReturns, DropResetActivity,
              ReportFailedReset, SignalFailedReset, ReleaseAfterReset, CancelLock,
              MarkBusReset, TypeOK, Resetters, Processes, Labels
<1>3. ASSUME NEW p \in Pipes,
             \/ \E addressed \in BOOLEAN : AllocPipe(p, addressed)
             \/ DropPipe(p) \/ StartTransfer(p) \/ CancelTransfer(p)
             \/ Acquire(p, "check") \/ PipeStep(p)
      PROVE  AttachHasSpeed'
  <2>1. UNCHANGED <<resetSpeed, pc[Monitor]>>
    BY <1>3, PipesAssumption
       DEF AllocPipe, DropPipe, StartTransfer, CancelTransfer, Acquire, PipeStep,
           CheckBeforeLock, CheckAfterLock, Transact, ServiceAndRelease,
           CheckAfterRelease, TypeOK, Processes
  <2>2. QED
    BY <2>1
<1>4. CASE \/ \E x \in {Monitor, Reporter} : SignalEvent(x)
           \/ Acquire(Monitor, "mark") \/ Acquire(Controller, "speed")
           \/ FrameServiced \/ ServiceFrame
  BY <1>4 DEF SignalEvent, Acquire, FrameServiced, ServiceFrame, TypeOK, Processes
<1>9. CASE EventWakes \/ ReadSpeed \/ WaitForDeviceEvent \/ CancelWait \/ StartBusReset
  BY <1>9 DEF EventWakes, ReadSpeed, WaitForDeviceEvent, CancelWait, StartBusReset,
              TypeOK, Resetters, Processes
<1>5. CASE \E speed \in Speeds : ReportConnected(speed)
  BY <1>5 DEF ReportConnected, TypeOK, Resetters, Processes
<1>6. CASE ReportUnlessResetting \/ \E removal \in Removals : Report(removal)
  BY <1>6 DEF ReportUnlessResetting, Report, TypeOK, Processes
<1>7. CASE PublishConnection \/ TakePendingEvent
  BY <1>7 DEF PublishConnection, TakePendingEvent, TypeOK, Processes
<1>8. QED
  BY <1>1, <1>2, <1>3, <1>4, <1>5, <1>6, <1>7, <1>9
     DEF Next, MonitorStep, ControllerStep, Resetters, Removals

(* The engine guard follows the labels when a step that enters the section *)
(* takes a free engine, and one that leaves it gives the engine up.        *)
LEMMA EngineMove ==
    ASSUME TypeOK, EngineOwned, NEW x \in Processes, NEW label \in Labels,
           pc' = [pc EXCEPT ![x] = label],
           \/ engine' = engine /\ (pc[x] \in Holding <=> label \in Holding)
           \/ engine = Free /\ engine' = x /\ label \in Holding
           \/ engine = x /\ engine' = Free /\ label \notin Holding
    PROVE  EngineOwned'
<1>1. Free \notin Processes
  BY PipesAssumption DEF Processes, Free, Monitor, Reporter, Controller
<1>2. ASSUME NEW y \in Processes PROVE pc'[y] \in Holding <=> engine' = y
  BY <1>1, <1>2 DEF EngineOwned, TypeOK
<1>3. QED
  BY <1>2 DEF EngineOwned

LEMMA StepKeepsEngine ==
    ASSUME TypeOK, EngineOwned, [Next]_vars
    PROVE  EngineOwned'
<1> USE DEF Holding, Labels, shared, local, history, Goto, Finish
<1>1. CASE UNCHANGED <<pc, engine>>
  BY <1>1 DEF EngineOwned
<1>2. ASSUME NEW r \in Resetters, ResetStep(r) \/ CancelLock(r)
      PROVE  EngineOwned'
  <2>1. CASE BusResetReturns(r)
    BY <1>2, <2>1, EngineMove DEF BusResetReturns, Resetters, Processes
  <2>2. CASE ReleaseAfterReset(r)
    BY <1>2, <2>2, EngineMove DEF ReleaseAfterReset, Resetters, Processes, EngineOwned
  <2>3. CASE MarkBusReset(r) \/ BeginResetActivity(r) \/ DropResetActivity(r)
             \/ ReportFailedReset(r) \/ SignalFailedReset(r) \/ CancelLock(r)
    BY <1>2, <2>3, EngineMove
       DEF MarkBusReset, BeginResetActivity, DropResetActivity, ReportFailedReset,
           SignalFailedReset, CancelLock, Resetters, Processes
  <2>4. QED
    BY <1>2, <2>1, <2>2, <2>3 DEF ResetStep
<1>3. ASSUME NEW x \in Processes, NEW label \in {"mark", "speed", "check"},
             Acquire(x, label)
      PROVE  EngineOwned'
  BY <1>3, EngineMove DEF Acquire
<1>4. ASSUME NEW p \in Pipes,
             \/ \E addressed \in BOOLEAN : AllocPipe(p, addressed)
             \/ DropPipe(p) \/ StartTransfer(p) \/ CancelTransfer(p) \/ PipeStep(p)
      PROVE  EngineOwned'
  <2> p \in Processes
    BY DEF Processes
  <2>1. CASE \E addressed \in BOOLEAN : AllocPipe(p, addressed)
    BY <2>1, EngineMove DEF AllocPipe
  <2>2. CASE DropPipe(p) \/ StartTransfer(p) \/ Transact(p) \/ CheckBeforeLock(p)
    BY <2>2, EngineMove DEF DropPipe, StartTransfer, Transact, CheckBeforeLock
  <2>3. CASE CheckAfterRelease(p)
    BY <2>3, EngineMove DEF CheckAfterRelease
  <2>4. CASE CheckAfterLock(p)
    BY <2>4, EngineMove DEF CheckAfterLock, EngineOwned
  <2>5. CASE ServiceAndRelease(p)
    BY <2>5, EngineMove DEF ServiceAndRelease, EngineOwned
  <2>6. CASE CancelTransfer(p)
    BY <2>6, EngineMove DEF CancelTransfer, EngineOwned
  <2>7. QED
    BY <1>4, <2>1, <2>2, <2>3, <2>4, <2>5, <2>6 DEF PipeStep
<1>5. ASSUME NEW x \in {Monitor, Reporter}, SignalEvent(x) PROVE EngineOwned'
  BY <1>5, EngineMove DEF SignalEvent, Processes
<1>6. CASE FrameServiced
  BY <1>6, EngineMove DEF FrameServiced, Processes, EngineOwned
<1>7. CASE ServiceFrame
  BY <1>7, EngineMove DEF ServiceFrame, Processes
<1>8. CASE EventWakes \/ ReadSpeed \/ WaitForDeviceEvent \/ CancelWait \/ StartBusReset
           \/ TakePendingEvent
  BY <1>8, EngineMove
     DEF EventWakes, ReadSpeed, WaitForDeviceEvent, CancelWait, StartBusReset,
         TakePendingEvent, Processes
<1>9. CASE \/ \E speed \in Speeds : ReportConnected(speed)
           \/ PublishConnection \/ ReportUnlessResetting
  BY <1>9, EngineMove
     DEF ReportConnected, PublishConnection, ReportUnlessResetting, Processes
<1>10. ASSUME NEW removal \in Removals, Report(removal) PROVE EngineOwned'
  BY <1>10, EngineMove DEF Report, Processes
<1>11. QED
  BY <1>1, <1>2, <1>3, <1>4, <1>5, <1>6, <1>7, <1>8, <1>9, <1>10
     DEF Next, MonitorStep, ControllerStep, Processes, Resetters, vars

------------------------------------------------------------------------------
(* The reset flag                                                          *)

(* Only the start of a reset sets the flag, and only its guard clears it.  *)
LEMMA FlagMoves ==
    ASSUME TypeOK, [Next]_vars
    PROVE  \/ /\ UNCHANGED resetInProgress
              /\ \A r \in Resetters : pc'[r] \in Resetting <=> pc[r] \in Resetting
           \/ \E r \in Resetters : BeginResetActivity(r) \/ DropResetActivity(r)
<1> USE PipesAssumption
    DEF Resetting, Processes, Resetters, Monitor, Reporter, Controller, shared, local,
        history, Goto, Finish
<1>1. CASE UNCHANGED vars
  BY <1>1 DEF vars
<1>2. ASSUME NEW r \in Resetters, ResetStep(r) \/ CancelLock(r)
      PROVE  \/ /\ UNCHANGED resetInProgress
                /\ \A x \in Resetters : pc'[x] \in Resetting <=> pc[x] \in Resetting
             \/ BeginResetActivity(r) \/ DropResetActivity(r)
  <2>1. CASE BusResetReturns(r)
    BY <2>1 DEF BusResetReturns, TypeOK
  <2>2. CASE MarkBusReset(r) \/ ReportFailedReset(r) \/ SignalFailedReset(r)
             \/ ReleaseAfterReset(r) \/ CancelLock(r)
    BY <2>2 DEF MarkBusReset, ReportFailedReset, SignalFailedReset, ReleaseAfterReset,
                CancelLock, TypeOK
  <2>3. QED
    BY <1>2, <2>1, <2>2 DEF ResetStep
<1>3. ASSUME NEW p \in Pipes,
             \/ \E addressed \in BOOLEAN : AllocPipe(p, addressed)
             \/ DropPipe(p) \/ StartTransfer(p) \/ CancelTransfer(p)
             \/ Acquire(p, "check") \/ PipeStep(p)
      PROVE  UNCHANGED <<resetInProgress, pc[Monitor], pc[Controller]>>
  BY <1>3 DEF AllocPipe, DropPipe, StartTransfer, CancelTransfer, Acquire, PipeStep,
              CheckBeforeLock, CheckAfterLock, Transact, ServiceAndRelease,
              CheckAfterRelease, TypeOK
<1>4. CASE \/ \E x \in {Monitor, Reporter} : SignalEvent(x)
           \/ Acquire(Monitor, "mark") \/ Acquire(Controller, "speed")
           \/ FrameServiced \/ ServiceFrame
  BY <1>4 DEF SignalEvent, Acquire, FrameServiced, ServiceFrame, TypeOK
<1>5. CASE EventWakes \/ ReadSpeed \/ WaitForDeviceEvent \/ CancelWait \/ StartBusReset
           \/ TakePendingEvent
  BY <1>5 DEF EventWakes, ReadSpeed, WaitForDeviceEvent, CancelWait, StartBusReset,
              TakePendingEvent, TypeOK
<1>6. CASE \/ \E speed \in Speeds : ReportConnected(speed)
           \/ PublishConnection \/ ReportUnlessResetting
           \/ \E removal \in Removals : Report(removal)
  BY <1>6 DEF ReportConnected, PublishConnection, ReportUnlessResetting, Report, TypeOK
<1>7. QED
  BY <1>1, <1>2, <1>3, <1>4, <1>5, <1>6 DEF Next, MonitorStep, ControllerStep

(* Two resetters hold the engine one after the other.                      *)
LEMMA OneResetter ==
    ASSUME EngineOwned
    PROVE  ~(pc[Monitor] \in Resetting /\ pc[Controller] \in Resetting)
BY DEF EngineOwned, Resetting, Holding, Processes, Monitor, Controller

LEMMA StepKeepsFlag ==
    ASSUME TypeOK, EngineOwned, EngineOwned', ResetFlagOwned, [Next]_vars
    PROVE  ResetFlagOwned'
<1>1. ~(pc'[Monitor] \in Resetting /\ pc'[Controller] \in Resetting)
  BY DEF EngineOwned, Resetting, Holding, Processes, Monitor, Controller
<1>2. CASE /\ UNCHANGED resetInProgress
           /\ \A r \in Resetters : pc'[r] \in Resetting <=> pc[r] \in Resetting
  BY <1>1, <1>2 DEF ResetFlagOwned
<1>3. ASSUME NEW r \in Resetters, BeginResetActivity(r) PROVE ResetFlagOwned'
  <2>1. resetInProgress' /\ pc'[r] \in Resetting
    BY <1>3 DEF BeginResetActivity, Goto, TypeOK, Resetters, Processes, Resetting
  <2>2. QED
    BY <1>1, <2>1 DEF ResetFlagOwned
<1>4. ASSUME NEW r \in Resetters, DropResetActivity(r) PROVE ResetFlagOwned'
  <2>1. ~resetInProgress' /\ pc'[r] \notin Resetting
    BY <1>4 DEF DropResetActivity, Goto, TypeOK, Resetters, Processes, Resetting
  <2>2. ASSUME NEW x \in Resetters, x # r PROVE pc'[x] \notin Resetting
    BY <1>4, <2>2
       DEF DropResetActivity, Goto, TypeOK, EngineOwned, Holding, Resetting, Resetters,
           Processes, Monitor, Controller
  <2>3. QED
    BY <1>1, <2>1, <2>2 DEF ResetFlagOwned
<1>5. QED
  BY <1>2, <1>3, <1>4, FlagMoves

------------------------------------------------------------------------------
(* The ages count generation steps                                         *)

LEMMA ElapsedZero == ASSUME NEW g \in Generation PROVE Elapsed(g, g, 0)
BY GenModulusAssumption DEF Elapsed, Generation

LEMMA ElapsedBump ==
    ASSUME NEW from \in Generation, NEW to \in Generation, NEW n \in Generation,
           Elapsed(from, to, n), n + 1 < GenModulus
    PROVE  Elapsed(from, Bump(to), n + 1)
BY GenModulusAssumption DEF Elapsed, Bump, Generation

(* A generation that no step has changed is the recorded one, and one that  *)
(* less than a full round has changed is another.                          *)
LEMMA ElapsedMeansChanged ==
    ASSUME NEW from \in Generation, NEW to \in Generation, NEW n \in Generation,
           Elapsed(from, to, n)
    PROVE  to = from <=> n = 0
BY GenModulusAssumption DEF Elapsed, Generation

(* What a pipe recorded, and its age, stay until the pipe is dropped.      *)
PipeKept(p) == pipe'[p] = pipe[p] /\ age'[p] = age[p] /\ pc[p] # "none"

PipeRecorded(p) ==
    /\ pipe'[p].connectionGeneration = port.connectionGeneration
    /\ pipe'[p].resetGeneration = port.resetGeneration
    /\ age'[p] = NewAge

MonitorKept ==
    Live(Monitor) /\ savedGeneration' = savedGeneration /\ age'[Monitor] = age[Monitor]

MonitorRecorded ==
    savedGeneration' = port.connectionGeneration /\ age'[Monitor] = NewAge

HandlesKept ==
    /\ UNCHANGED <<pipe, savedGeneration>>
    /\ \A p \in Pipes : pc'[p] = "none" <=> pc[p] = "none"
    /\ Live(Monitor)' => Live(Monitor)

RecordsMove ==
    /\ port' = port
    /\ \A p \in Pipes : pc'[p] # "none" => PipeKept(p) \/ PipeRecorded(p)
    /\ Live(Monitor)' => MonitorKept \/ MonitorRecorded

Publishes ==
    PublishConnection /\ port.connectionGeneration = savedGeneration

(* The steps that move a generation, and those that move a record of one.  *)
LEMMA GenerationMoves ==
    ASSUME TypeOK, [Next]_vars
    PROVE  \/ RecordsMove
           \/ /\ HandlesKept
              /\ \/ \E removal \in Removals : Disconnect(removal)
                 \/ \E r \in Resetters : MarkBusReset(r)
                 \/ Publishes
<1> USE PipesAssumption
    DEF Processes, Resetters, Handles, Monitor, Reporter, Controller, Live, shared, local,
        history, Goto, Finish, TypeOK
<1>1. CASE UNCHANGED vars
  BY <1>1 DEF vars, RecordsMove, PipeKept, MonitorKept
<1>2. ASSUME NEW r \in Resetters, MarkBusReset(r) PROVE HandlesKept
  BY <1>2 DEF MarkBusReset, HandlesKept
<1>3. ASSUME NEW r \in Resetters, ReportFailedReset(r)
      PROVE  HandlesKept /\ \E removal \in Removals : Disconnect(removal)
  BY <1>3 DEF ReportFailedReset, HandlesKept, Removals
<1>4. CASE ReportUnlessResetting \/ \E removal \in Removals : Report(removal)
  BY <1>4 DEF ReportUnlessResetting, Report, HandlesKept, Removals
<1>5. CASE PublishConnection
  <2>1. CASE port.connectionGeneration = savedGeneration
    BY <1>5, <2>1 DEF PublishConnection, Publishes, HandlesKept
  <2>2. CASE port.connectionGeneration # savedGeneration
    BY <1>5, <2>2 DEF PublishConnection, RecordsMove, PipeKept
  <2>3. QED
    BY <2>1, <2>2
<1>6. ASSUME NEW r \in Resetters, BusResetReturns(r) \/ CancelLock(r) PROVE RecordsMove
  <2>1. UNCHANGED <<port, pipe, savedGeneration>>
    BY <1>6 DEF BusResetReturns, CancelLock
  <2>2. \A p \in Pipes : pc'[p] = pc[p] /\ age'[p] = age[p]
    BY <1>6 DEF BusResetReturns, CancelLock, Forgotten
  <2>3. Live(Monitor)' => Live(Monitor) /\ age'[Monitor] = age[Monitor]
    BY <1>6 DEF BusResetReturns, CancelLock, Forgotten
  <2>4. QED
    BY <2>1, <2>2, <2>3 DEF RecordsMove, PipeKept, MonitorKept
<1>7. ASSUME NEW r \in Resetters,
             \/ BeginResetActivity(r) \/ DropResetActivity(r) \/ SignalFailedReset(r)
             \/ ReleaseAfterReset(r)
      PROVE  RecordsMove
  BY <1>7 DEF BeginResetActivity, DropResetActivity, SignalFailedReset,
              ReleaseAfterReset, RecordsMove, PipeKept, MonitorKept
<1>8. ASSUME NEW p \in Pipes, NEW addressed \in BOOLEAN, AllocPipe(p, addressed)
      PROVE  RecordsMove
  BY <1>8 DEF AllocPipe, RecordsMove, PipeKept, PipeRecorded, MonitorKept
<1>9. ASSUME NEW p \in Pipes, DropPipe(p) PROVE RecordsMove
  BY <1>9 DEF DropPipe, RecordsMove, PipeKept, MonitorKept
<1>10. ASSUME NEW p \in Pipes,
              \/ StartTransfer(p) \/ CancelTransfer(p) \/ Acquire(p, "check")
              \/ PipeStep(p)
       PROVE  RecordsMove
  <2>1. UNCHANGED <<port, pipe, age, savedGeneration, pc[Monitor]>>
    BY <1>10
       DEF StartTransfer, CancelTransfer, Acquire, PipeStep, CheckBeforeLock,
           CheckAfterLock, Transact, ServiceAndRelease, CheckAfterRelease
  <2>2. pc[p] # "none" /\ \A q \in Pipes : q # p => pc'[q] = pc[q]
    BY <1>10
       DEF StartTransfer, CancelTransfer, Acquire, PipeStep, CheckBeforeLock,
           CheckAfterLock, Transact, ServiceAndRelease, CheckAfterRelease
  <2>3. QED
    BY <2>1, <2>2 DEF RecordsMove, PipeKept, MonitorKept
<1>11. CASE \/ \E x \in {Monitor, Reporter} : SignalEvent(x)
            \/ Acquire(Monitor, "mark") \/ Acquire(Controller, "speed")
            \/ FrameServiced \/ ServiceFrame
  BY <1>11 DEF SignalEvent, Acquire, FrameServiced, ServiceFrame, RecordsMove, PipeKept,
               MonitorKept
<1>12. CASE EventWakes \/ ReadSpeed \/ WaitForDeviceEvent \/ CancelWait \/ StartBusReset
            \/ TakePendingEvent
  BY <1>12 DEF EventWakes, ReadSpeed, WaitForDeviceEvent, CancelWait, StartBusReset,
               TakePendingEvent, RecordsMove, PipeKept, MonitorKept
<1>13. ASSUME NEW speed \in Speeds, ReportConnected(speed) PROVE RecordsMove
  BY <1>13 DEF ReportConnected, RecordsMove, PipeKept, MonitorRecorded
<1>14. QED
  BY <1>1, <1>2, <1>3, <1>4, <1>5, <1>6, <1>7, <1>8, <1>9, <1>10, <1>11, <1>12, <1>13
     DEF Next, MonitorStep, ControllerStep, ResetStep

(* Bumping the port's generations and aging the handle goes in step.       *)
LEMMA PipeAges ==
    ASSUME TypeOK, NEW p \in Pipes, pc[p] # "none",
           NEW c \in BOOLEAN, NEW r \in BOOLEAN,
           Aged(c, r)[p].connection < GenModulus, Aged(c, r)[p].reset < GenModulus,
           Elapsed(pipe[p].connectionGeneration, port.connectionGeneration,
                   age[p].connection),
           pipe[p].addressed =>
               Elapsed(pipe[p].resetGeneration, port.resetGeneration, age[p].reset)
    PROVE  /\ Elapsed(pipe[p].connectionGeneration,
                      IF c THEN Bump(port.connectionGeneration)
                           ELSE port.connectionGeneration,
                      Aged(c, r)[p].connection)
           /\ pipe[p].addressed =>
                 Elapsed(pipe[p].resetGeneration,
                         IF r THEN Bump(port.resetGeneration) ELSE port.resetGeneration,
                         Aged(c, r)[p].reset)
<1>1. Live(p) /\ p \in Handles
  BY PipesAssumption DEF Live, Handles
<1>2. /\ pipe[p].connectionGeneration \in Generation
      /\ pipe[p].resetGeneration \in Generation
      /\ port.connectionGeneration \in Generation
      /\ port.resetGeneration \in Generation
      /\ age[p].connection \in Generation
      /\ age[p].reset \in Generation
  BY <1>1 DEF TypeOK, PipeRecord, PortState
<1>3. /\ Aged(c, r)[p].connection =
            IF c THEN age[p].connection + 1 ELSE age[p].connection
      /\ pipe[p].addressed =>
            Aged(c, r)[p].reset = IF r THEN age[p].reset + 1 ELSE age[p].reset
  BY <1>1 DEF Aged
<1>4. QED
  BY <1>2, <1>3, ElapsedBump

LEMMA MonitorAges ==
    ASSUME TypeOK, Live(Monitor),
           NEW c \in BOOLEAN, NEW r \in BOOLEAN,
           Aged(c, r)[Monitor].connection < GenModulus,
           Elapsed(savedGeneration, port.connectionGeneration, age[Monitor].connection)
    PROVE  Elapsed(savedGeneration,
                   IF c THEN Bump(port.connectionGeneration)
                        ELSE port.connectionGeneration,
                   Aged(c, r)[Monitor].connection)
<1>1. Monitor \in Handles
  BY DEF Handles
<1>2. /\ savedGeneration \in Generation
      /\ port.connectionGeneration \in Generation
      /\ age[Monitor].connection \in Generation
  BY <1>1 DEF TypeOK, PortState
<1>3. Aged(c, r)[Monitor].connection =
          IF c THEN age[Monitor].connection + 1 ELSE age[Monitor].connection
  BY <1>1 DEF Aged
<1>4. QED
  BY <1>2, <1>3, ElapsedBump

LEMMA StepKeepsAges ==
    ASSUME TypeOK, AgesCount, [Next]_vars
    PROVE  AgesCount'
<1>1. CASE RecordsMove
  <2>1. ASSUME NEW p \in Pipes, pc'[p] # "none"
        PROVE  /\ Elapsed(pipe'[p].connectionGeneration, port'.connectionGeneration,
                          age'[p].connection)
               /\ pipe'[p].addressed =>
                     Elapsed(pipe'[p].resetGeneration, port'.resetGeneration,
                             age'[p].reset)
    <3>1. CASE PipeKept(p)
      BY <1>1, <3>1 DEF RecordsMove, PipeKept, AgesCount
    <3>2. CASE PipeRecorded(p)
      BY <1>1, <3>2, ElapsedZero
         DEF RecordsMove, PipeRecorded, NewAge, TypeOK, PortState
    <3>3. QED
      BY <1>1, <2>1, <3>1, <3>2 DEF RecordsMove
  <2>2. ASSUME Live(Monitor)'
        PROVE  Elapsed(savedGeneration', port'.connectionGeneration,
                       age'[Monitor].connection)
    <3>1. CASE MonitorKept
      BY <1>1, <3>1 DEF RecordsMove, MonitorKept, AgesCount
    <3>2. CASE MonitorRecorded
      BY <1>1, <3>2, ElapsedZero
         DEF RecordsMove, MonitorRecorded, NewAge, TypeOK, PortState
    <3>3. QED
      BY <1>1, <2>2, <3>1, <3>2 DEF RecordsMove
  <2>3. QED
    BY <2>1, <2>2 DEF AgesCount
<1>2. ASSUME HandlesKept, NEW c \in BOOLEAN, NEW r \in BOOLEAN,
             port'.connectionGeneration = IF c THEN Bump(port.connectionGeneration)
                                               ELSE port.connectionGeneration,
             port'.resetGeneration = IF r THEN Bump(port.resetGeneration)
                                          ELSE port.resetGeneration,
             \A p \in Pipes : /\ age'[p] = Aged(c, r)[p]
                              /\ age'[p].connection < GenModulus
                              /\ age'[p].reset < GenModulus,
             Live(Monitor)' => /\ age'[Monitor] = Aged(c, r)[Monitor]
                               /\ age'[Monitor].connection < GenModulus
      PROVE  AgesCount'
  <2>1. ASSUME NEW p \in Pipes, pc'[p] # "none"
        PROVE  /\ Elapsed(pipe'[p].connectionGeneration, port'.connectionGeneration,
                          age'[p].connection)
               /\ pipe'[p].addressed =>
                     Elapsed(pipe'[p].resetGeneration, port'.resetGeneration,
                             age'[p].reset)
    <3>1. pc[p] # "none" /\ pipe' = pipe
      BY <1>2, <2>1 DEF HandlesKept
    <3>2. /\ Elapsed(pipe[p].connectionGeneration, port.connectionGeneration,
                     age[p].connection)
          /\ pipe[p].addressed =>
                Elapsed(pipe[p].resetGeneration, port.resetGeneration, age[p].reset)
      BY <3>1 DEF AgesCount
    <3>3. /\ Aged(c, r)[p].connection < GenModulus /\ Aged(c, r)[p].reset < GenModulus
          /\ age'[p] = Aged(c, r)[p]
      BY <1>2
    <3>4. QED
      BY <1>2, <3>1, <3>2, <3>3, PipeAges
  <2>2. ASSUME Live(Monitor)'
        PROVE  Elapsed(savedGeneration', port'.connectionGeneration,
                       age'[Monitor].connection)
    BY <1>2, <2>2, MonitorAges DEF HandlesKept, AgesCount
  <2>3. QED
    BY <2>1, <2>2 DEF AgesCount
<1>3. ASSUME HandlesKept, NEW removal \in Removals, Disconnect(removal) PROVE AgesCount'
  <2>1. port' = AfterDisconnection(port) /\ age' = Aged(TRUE, FALSE)
    BY <1>3 DEF Disconnect
  <2>2. \A h \in Handles : age'[h].connection < GenModulus /\ age'[h].reset < GenModulus
    BY <1>3 DEF Disconnect, NoHandleWraps
  <2>3. QED
    BY <1>2, <1>3, <2>1, <2>2 DEF AfterDisconnection, Handles
<1>4. ASSUME HandlesKept, NEW r \in Resetters, MarkBusReset(r) PROVE AgesCount'
  <2>1. age' = Aged(FALSE, TRUE)
    BY <1>4 DEF MarkBusReset
  <2>2. /\ port'.connectionGeneration = port.connectionGeneration
        /\ port'.resetGeneration = Bump(port.resetGeneration)
    BY <1>4 DEF MarkBusReset, AfterBusReset, TypeOK, PortState
  <2>3. \A h \in Handles : age'[h].connection < GenModulus /\ age'[h].reset < GenModulus
    BY <1>4 DEF MarkBusReset, NoHandleWraps
  <2>4. QED
    BY <1>2, <1>4, <2>1, <2>2, <2>3 DEF Handles
<1>5. CASE HandlesKept /\ Publishes
  <2>1. /\ port' = AfterConnection(port, resetSpeed[Monitor])
        /\ age' = [Aged(TRUE, TRUE) EXCEPT ![Monitor] = NewAge]
        /\ NoHandleWraps(age')
    BY <1>5 DEF Publishes, PublishConnection
  <2>2. ~Live(Monitor)'
    BY <1>5 DEF Publishes, PublishConnection, Goto, Live, TypeOK, Processes
  <2>3. \A p \in Pipes : /\ age'[p] = Aged(TRUE, TRUE)[p]
                         /\ age'[p].connection < GenModulus
                         /\ age'[p].reset < GenModulus
    BY <2>1, PipesAssumption DEF NoHandleWraps, Handles, Aged
  <2>4. QED
    BY <1>2, <1>5, <2>1, <2>2, <2>3 DEF AfterConnection
<1>6. QED
  BY <1>1, <1>3, <1>4, <1>5, GenerationMoves

------------------------------------------------------------------------------
(* No stale transaction                                                    *)

InTransaction == {"wire", "service"}

(* A pipe gets on the wire by check_valid alone, with the engine locked.   *)
LEMMA WireEntered ==
    ASSUME TypeOK, [Next]_vars, NEW p \in Pipes,
           pc'[p] \in InTransaction, pc[p] \notin InTransaction
    PROVE  Valid(p) /\ pc[p] # "none" /\ UNCHANGED <<port, pipe, age>>
<1> USE PipesAssumption
    DEF InTransaction, Processes, Resetters, Monitor, Reporter, Controller, shared, local,
        history, Goto, Finish, TypeOK
<1>1. CASE UNCHANGED vars
  BY <1>1 DEF vars
<1>2. ASSUME NEW r \in Resetters, ResetStep(r) \/ CancelLock(r) PROVE FALSE
  <2>1. pc'[p] = pc[p]
    BY <1>2
       DEF ResetStep, MarkBusReset, BeginResetActivity, BusResetReturns,
           DropResetActivity, ReportFailedReset, SignalFailedReset, ReleaseAfterReset,
           CancelLock
  <2>2. QED
    BY <2>1
<1>3. CASE \/ \E x \in {Monitor, Reporter} : SignalEvent(x)
           \/ Acquire(Monitor, "mark") \/ Acquire(Controller, "speed")
           \/ FrameServiced \/ ServiceFrame
  BY <1>3 DEF SignalEvent, Acquire, FrameServiced, ServiceFrame
<1>4. CASE EventWakes \/ ReadSpeed \/ WaitForDeviceEvent \/ CancelWait \/ StartBusReset
           \/ TakePendingEvent
  BY <1>4 DEF EventWakes, ReadSpeed, WaitForDeviceEvent, CancelWait, StartBusReset,
              TakePendingEvent
<1>5. CASE \/ \E speed \in Speeds : ReportConnected(speed)
           \/ PublishConnection \/ ReportUnlessResetting
           \/ \E removal \in Removals : Report(removal)
  BY <1>5 DEF ReportConnected, PublishConnection, ReportUnlessResetting, Report
<1>6. ASSUME NEW q \in Pipes,
             \/ \E addressed \in BOOLEAN : AllocPipe(q, addressed)
             \/ DropPipe(q) \/ StartTransfer(q) \/ CancelTransfer(q)
             \/ Acquire(q, "check")
      PROVE  FALSE
  BY <1>6 DEF AllocPipe, DropPipe, StartTransfer, CancelTransfer, Acquire
<1>7. ASSUME NEW q \in Pipes, PipeStep(q)
      PROVE  Valid(p) /\ pc[p] # "none" /\ UNCHANGED <<port, pipe, age>>
  <2>1. CheckAfterLock(q) /\ q = p
    BY <1>7
       DEF PipeStep, CheckBeforeLock, CheckAfterLock, Transact, ServiceAndRelease,
           CheckAfterRelease
  <2>2. QED
    BY <2>1 DEF CheckAfterLock
<1>8. QED
  BY <1>1, <1>2, <1>3, <1>4, <1>5, <1>6, <1>7 DEF Next, MonitorStep, ControllerStep

(* What check_valid accepts is not outdated.                               *)
LEMMA ValidIsFresh ==
    ASSUME TypeOK, AgesCount, NEW p \in Pipes, pc[p] # "none"
    PROVE  Valid(p) <=> port.connected /\ Fresh(p)
<1>1. /\ pipe[p].connectionGeneration \in Generation
      /\ pipe[p].resetGeneration \in Generation
      /\ port.connectionGeneration \in Generation
      /\ port.resetGeneration \in Generation
      /\ age[p].connection \in Generation
      /\ age[p].reset \in Generation
  BY DEF TypeOK, PipeRecord, PortState, Handles
<1>2. port.connectionGeneration = pipe[p].connectionGeneration
          <=> age[p].connection = 0
  BY <1>1, ElapsedMeansChanged DEF AgesCount
<1>3. pipe[p].addressed =>
          (port.resetGeneration = pipe[p].resetGeneration <=> age[p].reset = 0)
  BY <1>1, ElapsedMeansChanged DEF AgesCount
<1>4. QED
  BY <1>2, <1>3 DEF Valid, Fresh

LEMMA StepKeepsFreshTransaction ==
    ASSUME TypeOK, EngineOwned, AgesCount, NoStaleTransaction, [Next]_vars
    PROVE  NoStaleTransaction'
<1> DEFINE Up(p) == port.connected => age[p].connection = 0
           Reset(p) == pipe[p].addressed => age[p].reset = 0
<1> SUFFICES ASSUME NEW p \in Pipes, pc'[p] \in InTransaction
             PROVE  Up(p)' /\ Reset(p)'
  BY DEF NoStaleTransaction, InTransaction
<1>1. CASE pc[p] \notin InTransaction
  <2>1. Valid(p) /\ pc[p] # "none" /\ UNCHANGED <<port, pipe, age>>
    BY <1>1, WireEntered
  <2>2. Fresh(p)
    BY <2>1, ValidIsFresh
  <2>3. QED
    BY <2>1, <2>2 DEF Fresh
<1>2. CASE pc[p] \in InTransaction
  <2>1. Up(p) /\ Reset(p) /\ engine = p
    BY <1>2 DEF NoStaleTransaction, InTransaction, EngineOwned, Holding, Processes
  <2>2. CASE RecordsMove
    <3>1. PipeKept(p) \/ PipeRecorded(p)
      BY <2>2 DEF RecordsMove, InTransaction
    <3>2. QED
      BY <2>1, <2>2, <3>1 DEF RecordsMove, PipeKept, PipeRecorded, NewAge
  <2>3. ASSUME HandlesKept, NEW removal \in Removals, Disconnect(removal)
        PROVE  Up(p)' /\ Reset(p)'
    <3>1. port'.connected = FALSE /\ age' = Aged(TRUE, FALSE) /\ pipe' = pipe
      BY <2>3 DEF Disconnect, AfterDisconnection, HandlesKept
    <3>2. age'[p].reset = age[p].reset
      BY <3>1 DEF Aged, Handles
    <3>3. QED
      BY <2>1, <3>1, <3>2
  <2>4. ASSUME NEW r \in Resetters, MarkBusReset(r) PROVE FALSE
    <3>1. engine = r
      BY <2>4 DEF MarkBusReset, EngineOwned, Holding, Processes, Resetters
    <3>2. QED
      BY <2>1, <3>1, PipesAssumption DEF Resetters
  <2>5. CASE Publishes
    <3>1. engine = Monitor
      BY <2>5 DEF Publishes, PublishConnection, EngineOwned, Holding, Processes
    <3>2. QED
      BY <2>1, <3>1, PipesAssumption
  <2>6. QED
    BY <2>2, <2>3, <2>4, <2>5, GenerationMoves
<1>3. QED
  BY <1>1, <1>2

------------------------------------------------------------------------------
(* Safety                                                                  *)

LEMMA InitInvariant == Init => IInv
<1> SUFFICES ASSUME Init PROVE IInv
  OBVIOUS
<1>1. TypeOK
  BY InitType
<1>2. \A x \in Processes : pc[x] \in {"none", "idle"}
  BY DEF Init
<1>3. EngineOwned
  BY <1>2, PipesAssumption
     DEF Init, EngineOwned, Holding, Processes, Free, Monitor, Reporter, Controller
<1>4. ResetFlagOwned
  BY <1>2 DEF Init, ResetFlagOwned, Resetting, Resetters, Processes
<1>5. ~Live(Monitor)
  BY <1>2 DEF Live, Processes
<1>6. MailboxAgreesWithPort
  BY DEF Init, MailboxAgreesWithPort, AfterDraining, NewPort, NoEvents
<1>7. \A p \in Pipes : pc[p] = "none"
  BY DEF Init, Processes
<1>8. QED
  BY <1>1, <1>3, <1>4, <1>5, <1>6, <1>7
     DEF IInv, AttachHasSpeed, AgesCount, NoStaleTransaction

LEMMA StepKeepsInvariant == IInv /\ [Next]_vars => IInv'
<1> SUFFICES ASSUME IInv, [Next]_vars PROVE IInv'
  OBVIOUS
<1> USE DEF IInv
<1>1. TypeOK'
  BY StepKeepsType
<1>2. EngineOwned'
  BY StepKeepsEngine
<1>3. ResetFlagOwned'
  BY <1>2, StepKeepsFlag
<1>4. AttachHasSpeed'
  BY StepKeepsSpeed
<1>5. MailboxAgreesWithPort'
  BY StepKeepsMailbox
<1>6. AgesCount'
  BY StepKeepsAges
<1>7. NoStaleTransaction'
  BY StepKeepsFreshTransaction
<1>8. QED
  BY <1>1, <1>2, <1>3, <1>4, <1>5, <1>6, <1>7

(* The conjuncts of IInv hold in every state of every behaviour.           *)
THEOREM Safety == Spec => []IInv
<1>1. QED
  BY InitInvariant, StepKeepsInvariant, PTL DEF Spec

(* reset_in_progress is set exactly during the reset of the engine's one   *)
(* holder: no error, early return or cancellation leaves it set.           *)
THEOREM ResetFlagIsOwned == Spec => []ResetFlagOwned
<1>1. IInv => ResetFlagOwned
  BY DEF IInv
<1>2. QED
  BY <1>1, Safety, PTL

(* However events coalesce, draining the mailbox tells the application the  *)
(* state the port is in.                                                   *)
THEOREM MailboxAgrees == Spec => []MailboxAgreesWithPort
<1>1. IInv => MailboxAgreesWithPort
  BY DEF IInv
<1>2. QED
  BY <1>1, Safety, PTL

(* check_valid accepts exactly the pipes that no detach, attach or (away   *)
(* from address zero) reset has outdated, however wide generations are.    *)
THEOREM ValidIffFresh == Spec => []ValidMeansFresh
<1>1. IInv => ValidMeansFresh
  BY ValidIsFresh DEF IInv, ValidMeansFresh
<1>2. QED
  BY <1>1, Safety, PTL

(* No transaction is on the wire for a pipe that a reset or a connection    *)
(* outdated while it waited for the engine.                                *)
THEOREM TransactionsAreFresh == Spec => []NoStaleTransaction
<1>1. IInv => NoStaleTransaction
  BY DEF IInv
<1>2. QED
  BY <1>1, Safety, PTL

(* No two resets, idle frame markers and transactions overlap on the wire. *)
THEOREM WireIsExclusive == Spec => []WireExclusive
<1>1. IInv => WireExclusive
  BY DEF IInv, WireExclusive, OnWire, EngineOwned, Holding
<1>2. QED
  BY <1>1, Safety, PTL

------------------------------------------------------------------------------
(* What steps may never do                                                 *)

LEMMA OnlyPublicationPublishes ==
    ASSUME TypeOK, [Next]_vars, Published
    PROVE  Publishes
<1>1. ASSUME NEW removal \in Removals, Disconnect(removal) PROVE FALSE
  BY <1>1 DEF Disconnect, AfterDisconnection, Published
<1>2. ASSUME NEW r \in Resetters, MarkBusReset(r) PROVE FALSE
  BY <1>2 DEF MarkBusReset, AfterBusReset, Published, TypeOK, PortState
<1>3. CASE PublishConnection
  BY <1>3 DEF PublishConnection, Publishes, Published
<1>4. QED
  BY <1>1, <1>2, <1>3, PortChanges DEF Published, TakePendingEvent

(* reset_and_report_connected publishes a connection only if nobody has     *)
(* reported a detach since it was called.                                  *)
THEOREM ConnectionIsNotStale == Spec => NoStaleConnection
<1>1. IInv /\ [Next]_vars => (Published => age[Monitor].connection = 0)
  <2> SUFFICES ASSUME IInv, [Next]_vars, Published PROVE age[Monitor].connection = 0
    OBVIOUS
  <2>1. TypeOK /\ Publishes
    BY OnlyPublicationPublishes DEF IInv
  <2>2. Elapsed(savedGeneration, port.connectionGeneration, age[Monitor].connection)
    BY <2>1 DEF IInv, AgesCount, Live, Publishes, PublishConnection
  <2>3. /\ savedGeneration \in Generation
        /\ port.connectionGeneration \in Generation
        /\ age[Monitor].connection \in Generation
    BY <2>1 DEF TypeOK, PortState, Handles
  <2>4. QED
    BY <2>1, <2>2, <2>3, ElapsedMeansChanged DEF Publishes
<1>2. QED
  BY <1>1, Safety, PTL DEF Spec, NoStaleConnection

(* A failed reset is reported before another reset can publish.            *)
THEOREM FailedResetIsReportedFirst == Spec => FailedResetSparesNewConnection
<1> DEFINE Others == \A r \in Resetters : pc[r] \notin {"report", "wake"}
                        /\ (r # Monitor => pc[r] \notin Resetting)
<1>1. IInv /\ [Next]_vars => (Published => Others)
  <2> SUFFICES ASSUME IInv, [Next]_vars, Published, NEW r \in Resetters
               PROVE  /\ pc[r] \notin {"report", "wake"}
                      /\ r # Monitor => pc[r] \notin Resetting
    OBVIOUS
  <2>1. pc[Monitor] = "publish"
    BY OnlyPublicationPublishes DEF IInv, Publishes, PublishConnection
  <2>2. engine = Monitor
    BY <2>1 DEF IInv, EngineOwned, Holding, Processes
  <2>3. r # Monitor => pc[r] \notin Holding
    BY <2>2 DEF IInv, EngineOwned, Processes, Resetters
  <2>4. QED
    BY <2>1, <2>3 DEF Holding, Resetting
<1>2. QED
  BY <1>1, Safety, PTL DEF Spec, FailedResetSparesNewConnection

LEMMA OnlyCheckReturnsOk ==
    ASSUME TypeOK, [Next]_vars, NEW p \in Pipes,
           pc[p] = "recheck", pc'[p] = "idle", outcome'[p] = "ok"
    PROVE  Valid(p)
<1> USE PipesAssumption
    DEF Processes, Resetters, Monitor, Reporter, Controller, shared, local,
        history, Goto, Finish, TypeOK
<1>1. CASE UNCHANGED vars
  BY <1>1 DEF vars
<1>2. ASSUME NEW r \in Resetters, ResetStep(r) \/ CancelLock(r) PROVE FALSE
  <2>1. pc'[p] = pc[p]
    BY <1>2
       DEF ResetStep, MarkBusReset, BeginResetActivity, BusResetReturns,
           DropResetActivity, ReportFailedReset, SignalFailedReset, ReleaseAfterReset,
           CancelLock
  <2>2. QED
    BY <2>1
<1>3. CASE \/ \E x \in {Monitor, Reporter} : SignalEvent(x)
           \/ Acquire(Monitor, "mark") \/ Acquire(Controller, "speed")
           \/ FrameServiced \/ ServiceFrame
  BY <1>3 DEF SignalEvent, Acquire, FrameServiced, ServiceFrame
<1>4. CASE EventWakes \/ ReadSpeed \/ WaitForDeviceEvent \/ CancelWait \/ StartBusReset
           \/ TakePendingEvent
  BY <1>4 DEF EventWakes, ReadSpeed, WaitForDeviceEvent, CancelWait, StartBusReset,
              TakePendingEvent
<1>5. CASE \/ \E speed \in Speeds : ReportConnected(speed)
           \/ PublishConnection \/ ReportUnlessResetting
           \/ \E removal \in Removals : Report(removal)
  BY <1>5 DEF ReportConnected, PublishConnection, ReportUnlessResetting, Report
<1>6. ASSUME NEW q \in Pipes,
             \/ \E addressed \in BOOLEAN : AllocPipe(q, addressed)
             \/ DropPipe(q) \/ StartTransfer(q) \/ CancelTransfer(q)
             \/ Acquire(q, "check")
      PROVE  FALSE
  BY <1>6 DEF AllocPipe, DropPipe, StartTransfer, CancelTransfer, Acquire
<1>7. ASSUME NEW q \in Pipes, PipeStep(q) PROVE Valid(p)
  <2>1. CheckAfterRelease(q) /\ q = p
    BY <1>7
       DEF PipeStep, CheckBeforeLock, CheckAfterLock, Transact, ServiceAndRelease,
           CheckAfterRelease
  <2>2. QED
    BY <2>1 DEF CheckAfterRelease
<1>8. QED
  BY <1>1, <1>2, <1>3, <1>4, <1>5, <1>6, <1>7 DEF Next, MonitorStep, ControllerStep

(* A transfer returns Ok only inside the connection of its pipe, and after  *)
(* no reset of an addressed device.                                        *)
THEOREM OkMeansFresh == Spec => OkOnlyWhileFresh
<1>1. IInv /\ [Next]_vars =>
          \A p \in Pipes :
              pc[p] = "recheck" /\ pc'[p] = "idle" /\ outcome'[p] = "ok"
                  => port.connected /\ Fresh(p)
  BY OnlyCheckReturnsOk, ValidIsFresh DEF IInv
<1>2. QED
  BY <1>1, Safety, PTL DEF Spec, OkOnlyWhileFresh

------------------------------------------------------------------------------
(* Refinement                                                              *)

LEMMA StepRefines ==
    ASSUME IInv, [Next]_vars
    PROVE  [Contract!Next]_(Contract!vars)
<1> USE DEF Contract!Next, Contract!vars
<1>1. CASE UNCHANGED <<port, pending, told>>
  BY <1>1
<1>2. ASSUME NEW removal \in Removals, Disconnect(removal), UNCHANGED told
      PROVE  Contract!Remove(removal)
  BY <1>2 DEF Disconnect, AfterDisconnection, PushRemoval, Contract!Remove
<1>3. ASSUME NEW r \in Resetters, MarkBusReset(r) PROVE UNCHANGED Contract!vars
  <2>1. UNCHANGED <<pending, told>>
    BY <1>3 DEF MarkBusReset
  <2>2. port'.speed = port.speed
    BY <1>3 DEF MarkBusReset, AfterBusReset, IInv, TypeOK, PortState
  <2>3. QED
    BY <2>1, <2>2
<1>4. CASE PublishConnection
  <2>1. CASE port.connectionGeneration = savedGeneration
    <3>1. resetSpeed[Monitor] \in Speeds
      BY <1>4 DEF PublishConnection, IInv, AttachHasSpeed, Live
    <3>2. port' = AfterConnection(port, resetSpeed[Monitor]) /\ UNCHANGED told
      BY <1>4, <2>1 DEF PublishConnection
    <3>3. pending'.destructive = pending.destructive
      BY <1>4, <2>1 DEF PublishConnection, PushConnected, IInv, TypeOK, PendingEvents
    <3>4. Contract!Attach(resetSpeed[Monitor])
      BY <3>2, <3>3 DEF AfterConnection, Contract!Attach
    <3>5. QED
      BY <3>1, <3>4
  <2>2. CASE port.connectionGeneration # savedGeneration
    BY <1>4, <2>2 DEF PublishConnection
  <2>3. QED
    BY <2>1, <2>2
<1>5. CASE TakePendingEvent
  <2>1. CASE pending = NoEvents
    BY <1>5, <2>1 DEF TakePendingEvent
  <2>2. CASE pending # NoEvents /\ pending.destructive # None
    <3>1. pending.destructive \in Removals
      BY <2>2 DEF IInv, TypeOK, PendingEvents
    <3>2. told' = None /\ pending'.destructive = None /\ port' = port
      BY <1>5, <2>2, <3>1
         DEF TakePendingEvent, NextEvent, AfterTake, IInv, TypeOK, PendingEvents
    <3>3. QED
      BY <2>2, <3>2 DEF Contract!Tell
  <2>3. CASE pending # NoEvents /\ pending.destructive = None
    <3>1. pending.connected \in Speeds
      BY <2>3 DEF IInv, TypeOK, PendingEvents, NoEvents
    <3>2. port.speed = pending.connected
      BY <3>1, EventsAssumption DEF IInv, MailboxAgreesWithPort, AfterDraining
    <3>3. told' = port.speed /\ pending'.destructive = None /\ port' = port
      BY <1>5, <2>3, <3>1, <3>2, EventsAssumption
         DEF TakePendingEvent, NextEvent, AfterTake, NoEvents
    <3>4. QED
      BY <2>3, <3>3 DEF Contract!Tell
  <2>4. QED
    BY <2>1, <2>2, <2>3
<1>6. QED
  BY <1>1, <1>2, <1>3, <1>4, <1>5, PortChanges

(* The host keeps the promise of EventContract, for every number of pipes.  *)
THEOREM KeepsContract == Spec => ImplementsContract
<1>1. Init => Contract!Init
  BY DEF Init, NewPort, NoEvents, Contract!Init
<1>2. QED
  BY <1>1, StepRefines, Safety, PTL DEF Spec, ImplementsContract, Contract!Spec

(***************************************************************************)
(* RootPort: the monitor, the application and the port they share          *)
(***************************************************************************)
(* Every step of the firmware is a step of the host state, so what is      *)
(* proved of the host state holds of the firmware.                         *)
LEMMA FirmwareStep == [RootNext]_rootVars => [Next]_vars
<1> SUFFICES ASSUME [RootNext]_rootVars PROVE [Next]_vars
  OBVIOUS
<1>1. CASE Tick
  BY <1>1, SpeedsAssumption DEF Tick, React, Next
<1>2. CASE AttachReturns
  BY <1>2 DEF AttachReturns, Next, MonitorStep, ResetStep
<1>3. CASE Service
  BY <1>3 DEF Service, Next
<1>4. ASSUME NEW r \in Resetters, ResetReturns(r) PROVE Next
  <2>1. ResetStep(r)
    BY <1>4 DEF ResetReturns, ResetStep
  <2>2. QED
    BY <2>1 DEF Resetters, Next, MonitorStep, ControllerStep
<1>5. CASE MonitorCall
  <2>1. CASE WithinReset(Monitor)
    BY <2>1 DEF WithinReset, ResetStep, Next, MonitorStep
  <2>2. CASE ~WithinReset(Monitor)
    BY <1>5, <2>2 DEF MonitorCall, Next, MonitorStep
  <2>3. QED
    BY <2>1, <2>2
<1>6. CASE ControllerCall
  <2>1. CASE WithinReset(Controller)
    BY <2>1 DEF WithinReset, ResetStep, Next, ControllerStep
  <2>2. CASE ReleaseAfterReset(Controller)
    BY <2>2 DEF ResetStep, Next, ControllerStep
  <2>3. CASE ~WithinReset(Controller) /\ ~ReleaseAfterReset(Controller)
    BY <1>6, <2>3 DEF ControllerCall, Next, ControllerStep
  <2>4. QED
    BY <2>1, <2>2, <2>3
<1>7. CASE Listen \/ LedTick \/ TakeEvent \/ ResetFirst
  BY <1>7 DEF Listen, LedTick, TakeEvent, ResetFirst, Next, ControllerStep
<1>8. CASE \/ \E device \in {Full, Low} : Plug(device)
           \/ Unplug \/ Enumerated \/ UNCHANGED rootVars
  BY <1>8 DEF Plug, Unplug, Enumerated, rootVars
<1>9. QED
  BY <1>1, <1>2, <1>3, <1>4, <1>5, <1>6, <1>7, <1>8 DEF RootNext

(* The firmware is a user of the host state: all that holds of the host    *)
(* state under any order of calls holds under the monitor's and the        *)
(* application's.                                                          *)
THEOREM FirmwareUsesHostState == RootSpec => Spec
<1>1. RootInit => Init
  BY DEF RootInit
<1>2. QED
  BY <1>1, FirmwareStep, PTL DEF RootSpec, Spec

(* The host state's invariant holds in the firmware.                       *)
THEOREM HostStateSafety == RootSpec => []IInv
BY FirmwareUsesHostState, Safety, PTL

------------------------------------------------------------------------------
(* Types                                                                   *)

LEMMA LevelType == Level(attached) \in LineStates
BY DEF Level, LineStates

LEMMA UpdateType ==
    ASSUME NEW sample \in LineStates,
           detector \in [stable : LineStates, candidate : LineStates,
                         samples : 0 .. Required - 1]
    PROVE  Update(detector, sample) \in [stable : LineStates, candidate : LineStates,
                                         samples : 0 .. Required - 1]
<1>1. Run(detector, sample) \in Nat
  BY DebounceAssumption DEF Run
<1>2. CASE sample = detector.stable
  <2>1. Update(detector, sample) = [detector EXCEPT !.candidate = sample, !.samples = 0]
    BY <1>2 DEF Update, Settles
  <2>2. 0 \in 0 .. Required - 1
    BY DebounceAssumption
  <2>3. QED
    BY <2>1, <2>2
<1>3. CASE Settles(detector, sample)
  BY <1>3, DebounceAssumption DEF Update, Settles
<1>4. CASE sample # detector.stable /\ ~Settles(detector, sample)
  <2>1. Run(detector, sample) \in 0 .. Required - 1
    BY <1>1, <1>4, DebounceAssumption DEF Settles
  <2>2. Update(detector, sample)
          = [detector EXCEPT !.candidate = sample, !.samples = Run(detector, sample)]
    BY <1>4 DEF Update
  <2>3. QED
    BY <2>1, <2>2
<1>5. QED
  BY <1>2, <1>3, <1>4

LEMMA StepKeepsRootType == RootTypeOK /\ [RootNext]_rootVars => RootTypeOK'
<1> SUFFICES ASSUME RootTypeOK, [RootNext]_rootVars PROVE RootTypeOK'
  OBVIOUS
<1>1. TypeOK'
  BY FirmwareStep, StepKeepsType DEF RootTypeOK
<1>2. CASE Tick
  <2>1. PICK sample \in LineStates :
          Sampled(sample) /\ detector' = Update(detector, sample) /\ React(sample)
    BY <1>2 DEF Tick
  <2>2. glitches' \in 0 .. MaxGlitches
    BY <2>1, DebounceAssumption DEF Sampled, RootTypeOK
  <2>3. detector' \in [stable : LineStates, candidate : LineStates,
                       samples : 0 .. Required - 1]
    BY <2>1, UpdateType DEF RootTypeOK
  <2>4. /\ loop' \in {"tick", "attach", "service"}
        /\ connected' \in BOOLEAN /\ missed' \in BOOLEAN
    BY <2>1 DEF React, RootTypeOK
  <2>5. QED
    BY <1>1, <1>2, <2>2, <2>3, <2>4 DEF Tick, RootTypeOK, application
<1>3. CASE AttachReturns
  BY <1>1, <1>3 DEF AttachReturns, RootTypeOK, world, application
<1>4. CASE Service
  BY <1>1, <1>4 DEF Service, RootTypeOK, world, application
<1>5. ASSUME NEW r \in Resetters, ResetReturns(r) PROVE RootTypeOK'
  BY <1>1, <1>5 DEF ResetReturns, RootTypeOK, world, monitor, application
<1>6. CASE MonitorCall \/ ControllerCall
  BY <1>1, <1>6 DEF MonitorCall, ControllerCall, RootTypeOK, world, monitor, application
<1>7. CASE Listen \/ LedTick \/ ResetFirst \/ Enumerated
  BY <1>1, <1>7
  DEF Listen, LedTick, ResetFirst, Enumerated, RootTypeOK, world, monitor, application
<1>8. CASE TakeEvent
  BY <1>1, <1>8 DEF TakeEvent, RootTypeOK, world, monitor, TypeOK, PortState
<1>9. CASE (\E device \in {Full, Low} : Plug(device)) \/ Unplug
  BY <1>1, <1>9 DEF Plug, Unplug, RootTypeOK, monitor, application
<1>10. CASE UNCHANGED rootVars
  BY <1>1, <1>10 DEF rootVars, RootTypeOK, world, monitor, application
<1>11. QED
  BY <1>2, <1>3, <1>4, <1>5, <1>6, <1>7, <1>8, <1>9, <1>10 DEF RootNext

------------------------------------------------------------------------------
(* The monitor's call                                                      *)

(* A step of the application leaves the monitor where it is; the port it   *)
(* may take down, and then its own reset has found no device.              *)
LEMMA ApplicationMoves ==
    ASSUME RootTypeOK, IInv,
           \/ ControllerCall \/ ResetReturns(Controller)
           \/ Listen \/ LedTick \/ TakeEvent \/ ResetFirst \/ Enumerated
    PROVE  /\ pc'[Monitor] = pc[Monitor] /\ outcome'[Monitor] = outcome[Monitor]
           /\ UNCHANGED <<loop, connected, detector, attached, glitches>>
           /\ \/ port'.connected = port.connected
              \/ pc[Controller] = "report" /\ ~port'.connected
           /\ pc'[Controller] = "report" =>
                 \/ outcome'[Controller] = "disconnected"
                 \/ pc[Controller] = "report" /\ UNCHANGED outcome
<1>1. TypeOK
  BY DEF RootTypeOK
<1>2. /\ pc'[Monitor] = pc[Monitor] /\ outcome'[Monitor] = outcome[Monitor]
      /\ pc'[Controller] = "report" =>
                 \/ outcome'[Controller] = "disconnected"
                 \/ pc[Controller] = "report" /\ UNCHANGED outcome
  BY <1>1 DEF TypeOK, ControllerCall, ResetReturns, Listen, LedTick, TakeEvent, ResetFirst,
     Enumerated, EventWakes, Acquire, ReadSpeed, WithinReset, ReleaseAfterReset,
     MarkBusReset, BeginResetActivity, DropResetActivity, ReportFailedReset,
     SignalFailedReset, BusResetReturns, WaitForDeviceEvent, CancelWait,
     TakePendingEvent, StartBusReset, Goto, vars, local, Processes, Resetters,
     Monitor, Controller, Reporter, Labels, Outcomes
<1>3. UNCHANGED <<loop, connected, detector, attached, glitches>>
  BY DEF ControllerCall, ResetReturns, Listen, LedTick, TakeEvent, ResetFirst,
     Enumerated, world, monitor
<1>4. \/ port'.connected = port.connected
      \/ pc[Controller] = "report" /\ ~port'.connected
  <2>1. CASE ReportFailedReset(Controller)
    BY <2>1 DEF ReportFailedReset, Disconnect, AfterDisconnection
  <2>2. CASE MarkBusReset(Controller)
    BY <2>2, <1>1 DEF MarkBusReset, AfterBusReset, TypeOK, PortState
  <2>3. CASE ~ReportFailedReset(Controller) /\ ~MarkBusReset(Controller)
    BY <2>3 DEF ControllerCall, ResetReturns, Listen, LedTick, TakeEvent, ResetFirst,
       Enumerated, EventWakes, Acquire, ReadSpeed, WithinReset, ReleaseAfterReset,
       BeginResetActivity, DropResetActivity, SignalFailedReset, BusResetReturns,
       WaitForDeviceEvent, CancelWait, TakePendingEvent, StartBusReset, shared, vars
  <2>4. QED
    BY <2>1, <2>2, <2>3
<1>5. QED
  BY <1>2, <1>3, <1>4

(* No two processes hold the engine.                                       *)
LEMMA OneHolder ==
    ASSUME IInv PROVE ~(pc[Monitor] \in Holding /\ pc[Controller] \in Holding)
BY DEF IInv, EngineOwned, Processes, Monitor, Controller

(* An attach begins while no device is published, publishes one at most,   *)
(* and nobody takes that one down before the call returns.                 *)
LEMMA StepKeepsAttach ==
    ASSUME RootTypeOK, IInv, AttachInCall, DetectorWatches, [RootNext]_rootVars
    PROVE  AttachInCall'
<1> USE DEF AttachInCall, Live, Handles, Holding, Processes, Resetters, Monitor, Controller,
        Reporter
<1>1. TypeOK
  BY DEF RootTypeOK
<1>2. "monitor" \notin Pipes
  BY PipesAssumption
<1>3. CASE Tick
  <2>1. PICK sample \in LineStates :
          Sampled(sample) /\ detector' = Update(detector, sample) /\ React(sample)
    BY <1>3 DEF Tick
  <2>2. CASE ReportConnected(Full) /\ sample = "JFullSpeed" /\ Settles(detector, sample)
             /\ loop' = "attach"
    <3>1. ~port.connected
      BY <2>2 DEF DetectorWatches, Settles
    <3>2. QED
      BY <1>1, <1>2, <2>2, <3>1 DEF ReportConnected, Goto, shared, TypeOK
  <2>3. CASE ReportUnlessResetting /\ UNCHANGED loop
    BY <1>1, <1>2, <1>3, <2>3
    DEF Tick, ReportUnlessResetting, Disconnect, AfterDisconnection, Goto, local, TypeOK
  <2>4. CASE UNCHANGED vars /\ loop' \in {"service", "tick"}
    BY <1>1, <1>2, <1>3, <2>4 DEF Tick, vars
  <2>5. QED
    BY <2>1, <2>2, <2>3, <2>4 DEF React
<1>4. CASE AttachReturns
  BY <1>1, <1>2, <1>4 DEF AttachReturns, ReleaseAfterReset, Goto, TypeOK
<1>5. CASE Service
  BY <1>1, <1>2, <1>5 DEF Service, ServiceFrame, Goto, TypeOK, local, shared, vars
<1>6. CASE ResetReturns(Monitor)
  BY <1>1, <1>2, <1>6 DEF ResetReturns, BusResetReturns, Goto, TypeOK, shared, monitor
<1>7. CASE MonitorCall
  <2>1. UNCHANGED <<monitor, application>>
    BY <1>7 DEF MonitorCall
  <2>2. CASE Acquire(Monitor, "mark")
    BY <1>1, <2>1, <2>2 DEF Acquire, Goto, TypeOK, shared, local, monitor
  <2>3. CASE PublishConnection
    <3>1. /\ pc' = [pc EXCEPT ![Monitor] = "clear"]
          /\ pc[Monitor] = "publish" /\ loop = "attach"
          /\ UNCHANGED <<detector, loop>>
      BY <1>2, <2>1, <2>3 DEF PublishConnection, Goto, monitor
    <3>2. CASE port.connectionGeneration = savedGeneration
      <4>1. port'.connected /\ UNCHANGED outcome
        BY <2>3, <3>2 DEF PublishConnection, AfterConnection
      <4>2. QED
        BY <1>1, <1>2, <3>1, <4>1 DEF TypeOK
    <3>3. CASE port.connectionGeneration # savedGeneration
      <4>1. UNCHANGED port /\ outcome' = [outcome EXCEPT ![Monitor] = "stale"]
        BY <2>3, <3>3 DEF PublishConnection
      <4>2. QED
        BY <1>1, <1>2, <3>1, <4>1 DEF TypeOK
    <3>4. QED
      BY <3>2, <3>3
  <2>4. CASE FrameServiced
    BY <1>1, <2>1, <2>4 DEF FrameServiced, Goto, TypeOK, shared, local, monitor
  <2>5. CASE SignalEvent(Monitor)
    BY <1>1, <2>1, <2>5 DEF SignalEvent, Goto, TypeOK, shared, local, monitor
  <2>6. CASE MarkBusReset(Monitor)
    BY <1>1, <2>1, <2>6
    DEF MarkBusReset, AfterBusReset, Goto, TypeOK, PortState, local, monitor
  <2>7. CASE BeginResetActivity(Monitor)
    BY <1>1, <2>1, <2>7 DEF BeginResetActivity, Goto, TypeOK, local, monitor
  <2>8. CASE DropResetActivity(Monitor)
    BY <1>1, <2>1, <2>8 DEF DropResetActivity, Goto, TypeOK, local, monitor
  <2>9. CASE ReportFailedReset(Monitor)
    BY <1>1, <2>1, <2>9
    DEF ReportFailedReset, Disconnect, AfterDisconnection, Goto, TypeOK, local, monitor
  <2>10. CASE SignalFailedReset(Monitor)
    BY <1>1, <2>1, <2>10 DEF SignalFailedReset, Goto, TypeOK, shared, local, monitor
  <2>11. QED
    BY <1>7, <2>2, <2>3, <2>4, <2>5, <2>6, <2>7, <2>8, <2>9, <2>10
    DEF MonitorCall, WithinReset
<1>8. CASE \/ ControllerCall \/ ResetReturns(Controller)
           \/ Listen \/ LedTick \/ TakeEvent \/ ResetFirst \/ Enumerated
  BY <1>1, <1>2, <1>8, ApplicationMoves, OneHolder
<1>9. CASE \/ \E device \in {Full, Low} : Plug(device)
           \/ Unplug \/ UNCHANGED rootVars
  BY <1>9 DEF Plug, Unplug, rootVars, vars, monitor
<1>10. QED
  BY <1>3, <1>4, <1>5, <1>6, <1>7, <1>8, <1>9 DEF RootNext

------------------------------------------------------------------------------
(* The detector, and what the monitor believes                             *)

(* A step of the monitor's call leaves the loops, the line and the          *)
(* controller alone; only its publication connects the port.               *)
LEMMA MonitorCallMoves ==
    ASSUME RootTypeOK, IInv, MonitorCall
    PROVE  /\ UNCHANGED <<world, monitor, application, goneSince, missed>>
           /\ pc'[Controller] = pc[Controller] /\ outcome'[Controller] = outcome[Controller]
           /\ port'.connected =>
                 port.connected \/ (pc[Monitor] = "publish" /\ pc'[Monitor] = "clear")
           /\ pc'[Monitor] # "publish"
           /\ port'.connected # port.connected => pc[Monitor] \in {"publish", "report"}
           /\ pc[Monitor] = "lock" => engine = Free
<1> USE DEF Processes, Monitor, Controller, Resetters
<1>1. UNCHANGED <<world, monitor, application, goneSince, missed>>
  BY DEF MonitorCall
<1>0. /\ pc \in [Processes -> Labels] /\ outcome \in [Processes -> Outcomes]
      /\ port \in PortState
  BY DEF RootTypeOK, TypeOK
<1>2. CASE MarkBusReset(Monitor)
  BY <1>1, <1>2, <1>0 DEF MarkBusReset, AfterBusReset, Goto, PortState, local
<1>3. CASE ReportFailedReset(Monitor)
  BY <1>1, <1>3, <1>0 DEF ReportFailedReset, Disconnect, AfterDisconnection, Goto, local
<1>4. CASE PublishConnection
  <2>1. /\ pc' = [pc EXCEPT ![Monitor] = "clear"] /\ pc[Monitor] = "publish"
        /\ outcome' = outcome \/ outcome' = [outcome EXCEPT ![Monitor] = "stale"]
    BY <1>4 DEF PublishConnection, Goto
  <2>2. QED
    BY <1>1, <1>0, <2>1
<1>5. CASE Acquire(Monitor, "mark")
  BY <1>1, <1>0, <1>5 DEF Acquire, Goto, shared, local
<1>6. CASE FrameServiced
  BY <1>1, <1>0, <1>6 DEF FrameServiced, Goto, shared, local
<1>7. CASE SignalEvent(Monitor)
  BY <1>1, <1>0, <1>7 DEF SignalEvent, Goto, shared, local
<1>8. CASE \/ BeginResetActivity(Monitor) \/ DropResetActivity(Monitor)
           \/ SignalFailedReset(Monitor)
  BY <1>1, <1>0, <1>8
  DEF BeginResetActivity, DropResetActivity, SignalFailedReset, Goto, shared, local
<1>9. QED
  BY <1>2, <1>3, <1>4, <1>5, <1>6, <1>7, <1>8 DEF MonitorCall, WithinReset

(* What the debounce settles on becomes the stable state; only that does.  *)
LEMMA UpdateSettles ==
    ASSUME NEW sample \in LineStates,
           detector \in [stable : LineStates, candidate : LineStates,
                         samples : 0 .. Required - 1]
    PROVE  /\ Settles(detector, sample) =>
                 /\ Update(detector, sample).stable = sample
                 /\ Update(detector, sample).samples = 0
           /\ ~Settles(detector, sample) =>
                 /\ Update(detector, sample).stable = detector.stable
                 /\ Update(detector, sample).samples <= detector.samples + 1
           /\ sample = detector.stable => Update(detector, sample).samples = 0
<1>1. CASE Settles(detector, sample)
  <2>1. Update(detector, sample) = [stable |-> sample, candidate |-> sample, samples |-> 0]
    BY <1>1 DEF Update, Settles
  <2>2. QED
    BY <1>1, <2>1 DEF Settles
<1>2. CASE sample = detector.stable
  <2>1. Update(detector, sample) = [detector EXCEPT !.candidate = sample, !.samples = 0]
    BY <1>2 DEF Update, Settles
  <2>2. QED
    BY <1>2, <2>1, DebounceAssumption DEF Settles
<1>3. CASE ~Settles(detector, sample) /\ sample # detector.stable
  <2>1. Update(detector, sample)
          = [detector EXCEPT !.candidate = sample, !.samples = Run(detector, sample)]
    BY <1>3 DEF Update
  <2>2. Run(detector, sample) <= detector.samples + 1
    BY DebounceAssumption DEF Run
  <2>3. QED
    BY <1>3, <2>1, <2>2
<1>4. QED
  BY <1>1, <1>2, <1>3

LEMMA StepKeepsDetector ==
    ASSUME RootTypeOK, IInv, AttachInCall, DetectorWatches, MonitorKnowsPort,
           [RootNext]_rootVars
    PROVE  DetectorWatches'
<1> USE DEF DetectorWatches
<1>1. CASE Tick
  <2>1. PICK sample \in LineStates :
          Sampled(sample) /\ detector' = Update(detector, sample) /\ React(sample)
    BY <1>1 DEF Tick
  <2>2. /\ Settles(detector, sample) => detector'.stable = sample /\ detector'.samples = 0
        /\ ~Settles(detector, sample) => detector'.stable = detector.stable
    BY <2>1, UpdateSettles DEF RootTypeOK
  <2>3. CASE ReportConnected(Full) /\ sample = "JFullSpeed" /\ Settles(detector, sample)
    BY <2>2, <2>3
  <2>4. CASE ReportUnlessResetting /\ UNCHANGED loop
    BY <1>1, <2>4 DEF Tick, ReportUnlessResetting, Disconnect, AfterDisconnection
  <2>5. CASE /\ UNCHANGED vars /\ loop' \in {"service", "tick"}
             /\ Settles(detector, sample) => ~connected
    BY <1>1, <2>2, <2>5 DEF Tick, vars, MonitorKnowsPort
  <2>6. QED
    BY <1>1, <2>1, <2>3, <2>4, <2>5 DEF React, Tick
<1>2. CASE AttachReturns
  BY <1>2 DEF AttachReturns, ReleaseAfterReset, shared
<1>3. CASE Service
  BY <1>3 DEF Service, ServiceFrame, shared, vars
<1>4. CASE ResetReturns(Monitor)
  BY <1>4 DEF ResetReturns, BusResetReturns, shared, monitor
<1>5. CASE MonitorCall
  BY <1>5, MonitorCallMoves DEF AttachInCall, Live, monitor
<1>6. CASE \/ ControllerCall \/ ResetReturns(Controller)
           \/ Listen \/ LedTick \/ TakeEvent \/ ResetFirst \/ Enumerated
  BY <1>6, ApplicationMoves
<1>7. CASE \/ \E device \in {Full, Low} : Plug(device)
           \/ Unplug \/ UNCHANGED rootVars
  BY <1>7 DEF Plug, Unplug, rootVars, vars, monitor
<1>8. QED
  BY <1>1, <1>2, <1>3, <1>4, <1>5, <1>6, <1>7 DEF RootNext, Resetters

LEMMA StepKeepsKnowledge ==
    ASSUME RootTypeOK, IInv, AttachInCall, MonitorKnowsPort, FailureIsKnown,
           [RootNext]_rootVars
    PROVE  MonitorKnowsPort'
<1> USE DEF MonitorKnowsPort
<1>1. CASE Tick
  <2>1. PICK sample \in LineStates : React(sample)
    BY <1>1 DEF Tick
  <2>2. CASE loop' = "attach"
    BY <2>2
  <2>3. CASE ReportUnlessResetting /\ ~connected'
    BY <2>3 DEF ReportUnlessResetting, Disconnect, AfterDisconnection
  <2>4. CASE UNCHANGED <<vars, connected, missed>>
    BY <1>1, <2>4 DEF vars, Tick
  <2>5. QED
    BY <2>1, <2>2, <2>3, <2>4 DEF React
<1>2. CASE AttachReturns
  BY <1>2 DEF AttachReturns, ReleaseAfterReset, shared, AttachInCall, Live, Monitor, Holding
<1>3. CASE Service
  BY <1>3 DEF Service, ServiceFrame, shared, vars
<1>4. CASE ResetReturns(Monitor)
  BY <1>4 DEF ResetReturns, BusResetReturns, shared, monitor
<1>5. CASE MonitorCall
  BY <1>5, MonitorCallMoves DEF AttachInCall, Live, Holding, monitor
<1>6. CASE \/ ControllerCall \/ ResetReturns(Controller)
           \/ Listen \/ LedTick \/ TakeEvent \/ ResetFirst \/ Enumerated
  <2>1. missed => missed'
    BY <1>6 DEF ControllerCall, ResetReturns, Listen, LedTick, TakeEvent, ResetFirst, Enumerated
  <2>2. pc[Controller] = "report" /\ loop # "attach" => missed
    BY DEF FailureIsKnown, Failing, AttachInCall, Live, Monitor
  <2>3. QED
    BY <1>6, <2>1, <2>2, ApplicationMoves
<1>7. CASE \/ \E device \in {Full, Low} : Plug(device)
           \/ Unplug \/ UNCHANGED rootVars
  BY <1>7 DEF Plug, Unplug, rootVars, vars, monitor
<1>8. QED
  BY <1>1, <1>2, <1>3, <1>4, <1>5, <1>6, <1>7 DEF RootNext, Resetters

------------------------------------------------------------------------------
(* Where the device is                                                     *)

(* With no reset under way the monitor samples the device, or a glitch.    *)
LEMMA LineIsLevel ==
    ASSUME IInv, ~resetInProgress
    PROVE  Line = Level(attached)
BY DEF IInv, ResetFlagOwned, Resetting, Line

(* A device that stays is full-speed J at every sample but the glitches.   *)
LEMMA LevelOfDevice ==
    /\ attached = Full => Level(attached) = "JFullSpeed"
    /\ attached \in {None, Full, Low} /\ Level(attached) = "JFullSpeed" => attached = Full
BY SpeedsAssumption, EventsAssumption DEF Level

(* While the device of a connection stays, no removal settles.             *)
LEMMA GlitchesDoNotSettle ==
    ASSUME RootTypeOK, IInv, DetectorWatches, DeviceStays, port.connected, ~goneSince,
           ~resetInProgress, NEW sample \in LineStates, Sampled(sample)
    PROVE  /\ ~Settles(detector, sample)
           /\ Update(detector, sample).samples <= glitches'
<1>1. /\ attached = Full /\ detector.samples <= glitches
      /\ detector.stable = "JFullSpeed" /\ Line = "JFullSpeed"
  BY LineIsLevel, LevelOfDevice DEF DeviceStays, DetectorWatches
<1>2. detector.samples \in Nat /\ glitches \in Nat /\ glitches <= MaxGlitches
  BY DebounceAssumption DEF RootTypeOK
<1>3. CASE sample = "JFullSpeed"
  BY <1>1, <1>3, UpdateSettles DEF RootTypeOK, Sampled, Settles
<1>4. CASE sample # "JFullSpeed"
  <2>1. glitches' = glitches + 1 /\ glitches < MaxGlitches
    BY <1>1, <1>4 DEF Sampled
  <2>2. Run(detector, sample) <= detector.samples + 1 /\ Run(detector, sample) \in Nat
    BY <1>2 DEF Run
  <2>3. ~Settles(detector, sample)
    BY <1>1, <1>2, <2>1, <2>2, DebounceAssumption DEF Settles
  <2>4. /\ Update(detector, sample).samples <= detector.samples + 1
        /\ Update(detector, sample).samples \in Nat
    BY <2>3, UpdateSettles, UpdateType, DebounceAssumption DEF RootTypeOK
  <2>5. QED
    BY <1>1, <1>2, <2>1, <2>3, <2>4
<1>5. QED
  BY <1>3, <1>4

LEMMA StepKeepsDevice ==
    ASSUME RootTypeOK, IInv, AttachInCall, DetectorWatches, DeviceStays,
           [RootNext]_rootVars
    PROVE  DeviceStays'
<1> USE DEF DeviceStays
<1>1. CASE Tick
  <2>1. PICK sample \in LineStates :
          Sampled(sample) /\ detector' = Update(detector, sample) /\ React(sample)
    BY <1>1 DEF Tick
  <2>2. CASE ReportConnected(Full) /\ sample = "JFullSpeed" /\ Settles(detector, sample)
    <3>1. ~port'.connected
      BY <2>2 DEF DetectorWatches, Settles, ReportConnected, shared
    <3>2. pc'[Monitor] # "publish"
      BY <2>2 DEF ReportConnected, Goto, RootTypeOK, TypeOK, Processes
    <3>3. QED
      BY <3>1, <3>2
  <2>3. CASE ReportUnlessResetting
    <3>1. ~port'.connected
      BY <2>3 DEF ReportUnlessResetting, Disconnect, AfterDisconnection
    <3>2. pc'[Monitor] # "publish"
      BY <2>3 DEF ReportUnlessResetting, Goto, RootTypeOK, TypeOK, Processes
    <3>3. QED
      BY <3>1, <3>2
  <2>4. CASE UNCHANGED vars
    <3>1. /\ UNCHANGED <<port, pc, attached, goneSince>>
          /\ pc[Monitor] = "idle" /\ ~resetInProgress
      BY <1>1, <2>4 DEF Tick, vars
    <3>2. CASE port.connected /\ ~goneSince
      BY <2>1, <3>1, <3>2, GlitchesDoNotSettle
    <3>3. QED
      BY <3>1, <3>2
  <2>5. QED
    BY <2>1, <2>2, <2>3, <2>4 DEF React
<1>2. CASE AttachReturns
  BY <1>2 DEF AttachReturns, ReleaseAfterReset, Goto, shared, world, RootTypeOK, TypeOK,
     Processes
<1>3. CASE Service
  <2>1. pc'[Monitor] # "publish"
    BY <1>3 DEF Service, ServiceFrame, Goto, vars, RootTypeOK, TypeOK, Processes
  <2>2. QED
    BY <1>3, <2>1 DEF Service, ServiceFrame, shared, vars, world
<1>4. CASE ResetReturns(Monitor)
  <2>1. /\ UNCHANGED <<port, detector, attached, glitches>>
        /\ pc[Monitor] = "reset" /\ outcome'[Monitor] = Found
        /\ goneSince' = IF Found = "ok" THEN FALSE ELSE goneSince
    BY <1>4 DEF ResetReturns, BusResetReturns, shared, world, monitor
  <2>2. ~port.connected /\ detector.samples = 0 /\ glitches >= 0
    BY <2>1, DebounceAssumption DEF AttachInCall, DetectorWatches, Live, Monitor, RootTypeOK
  <2>3. CASE Found = "ok"
    <3>1. attached = Full
      BY <2>3, LevelOfDevice DEF Found, RootTypeOK
    <3>2. QED
      BY <2>1, <2>2, <3>1
  <2>4. CASE Found # "ok"
    <3>1. outcome'[Monitor] # "ok" /\ pc'[Monitor] # "publish"
      BY <1>4, <2>1, <2>4
      DEF ResetReturns, BusResetReturns, Goto, RootTypeOK, TypeOK, Processes
    <3>2. QED
      BY <2>1, <2>2, <3>1
  <2>5. QED
    BY <2>3, <2>4
<1>5. CASE MonitorCall
  BY <1>5, MonitorCallMoves DEF world, monitor
<1>6. CASE \/ ControllerCall \/ ResetReturns(Controller)
           \/ Listen \/ LedTick \/ TakeEvent \/ ResetFirst \/ Enumerated
  <2>1. goneSince' = goneSince
    BY <1>6 DEF ControllerCall, ResetReturns, Listen, LedTick, TakeEvent, ResetFirst,
       Enumerated, Monitor, Controller
  <2>2. QED
    BY <1>6, <2>1, ApplicationMoves
<1>7. ASSUME NEW device \in {Full, Low}, Plug(device) PROVE DeviceStays'
  BY <1>7, SpeedsAssumption, EventsAssumption DEF Plug, vars, monitor
<1>8. CASE Unplug \/ UNCHANGED rootVars
  BY <1>8 DEF Unplug, rootVars, vars, world, monitor
<1>9. QED
  BY <1>1, <1>2, <1>3, <1>4, <1>5, <1>6, <1>7, <1>8 DEF RootNext, Resetters

------------------------------------------------------------------------------
(* A controller's failed reset                                             *)

(* The monitor and the line leave the controller where it is.              *)
LEMMA ControllerStays ==
    ASSUME RootTypeOK, IInv,
           \/ Tick \/ AttachReturns \/ Service \/ ResetReturns(Monitor) \/ MonitorCall
           \/ (\E device \in {Full, Low} : Plug(device)) \/ Unplug \/ UNCHANGED rootVars
    PROVE  pc'[Controller] = pc[Controller] /\ outcome'[Controller] = outcome[Controller]
<1> USE DEF Processes, Monitor, Controller, Goto, local
<1>1. pc \in [Processes -> Labels] /\ outcome \in [Processes -> Outcomes]
  BY DEF RootTypeOK, TypeOK
<1>2. CASE Tick
  BY <1>1, <1>2 DEF Tick, React, ReportConnected, ReportUnlessResetting, vars
<1>3. CASE AttachReturns \/ Service
  BY <1>1, <1>3 DEF AttachReturns, ReleaseAfterReset, Service, ServiceFrame, vars
<1>4. CASE ResetReturns(Monitor)
  BY <1>1, <1>4 DEF ResetReturns, BusResetReturns
<1>5. CASE MonitorCall
  BY <1>5, MonitorCallMoves
<1>6. CASE (\E device \in {Full, Low} : Plug(device)) \/ Unplug \/ UNCHANGED rootVars
  BY <1>6 DEF Plug, Unplug, rootVars, vars
<1>7. QED
  BY <1>2, <1>3, <1>4, <1>5, <1>6

LEMMA StepKeepsFailure ==
    ASSUME RootTypeOK, IInv, DeviceStays, FailureIsKnown, [RootNext]_rootVars
    PROVE  FailureIsKnown'
<1> USE DEF FailureIsKnown, Failing
<1>1. CASE ResetReturns(Controller)
  <2>1. /\ UNCHANGED <<port, attached, goneSince>>
        /\ outcome'[Controller] = Found /\ pc'[Controller] # "report"
        /\ missed' = (missed \/ Found # "ok")
    BY <1>1 DEF ResetReturns, BusResetReturns, Goto, shared, world, Monitor, Controller,
       RootTypeOK, TypeOK, Processes
  <2>2. CASE Found = "disconnected"
    <3>1. attached # Full
      BY <2>2, LevelOfDevice DEF Found
    <3>2. QED
      BY <2>1, <2>2, <3>1 DEF DeviceStays
  <2>3. CASE Found # "disconnected"
    BY <2>1, <2>3
  <2>4. QED
    BY <2>2, <2>3
<1>2. CASE /\ ~ResetReturns(Controller) /\ ~Failing(Controller)
  <2>1. CASE ControllerCall \/ Listen \/ LedTick \/ TakeEvent \/ ResetFirst \/ Enumerated
    <3>1. ~Failing(Controller)'
      BY <1>2, <2>1 DEF ControllerCall, Listen, LedTick, TakeEvent, ResetFirst,
         Enumerated, EventWakes, Acquire, ReadSpeed, WithinReset, ReleaseAfterReset,
         MarkBusReset, BeginResetActivity, DropResetActivity, ReportFailedReset,
         SignalFailedReset, WaitForDeviceEvent, CancelWait, TakePendingEvent,
         StartBusReset, Goto, vars, local, RootTypeOK, TypeOK, Processes
    <3>2. QED
      BY <3>1
  <2>2. CASE ~(ControllerCall \/ Listen \/ LedTick \/ TakeEvent \/ ResetFirst \/ Enumerated)
    BY <1>2, <2>2, ControllerStays DEF RootNext, Resetters
  <2>3. QED
    BY <2>1, <2>2
<1>3. CASE ~ResetReturns(Controller) /\ Failing(Controller)
  <2>1. /\ engine = Controller /\ engine # Free
        /\ pc[Monitor] \notin Holding
        /\ missed \/ pc[Monitor] = "lock"
    BY <1>3, OneHolder, PipesAssumption
    DEF IInv, EngineOwned, Holding, Processes, Controller, Free
  <2>2. CASE Tick
    <3>1. UNCHANGED goneSince /\ missed
      BY <2>1, <2>2 DEF Tick
    <3>2. PICK sample \in LineStates : React(sample)
      BY <2>2 DEF Tick
    <3>3. CASE ReportConnected(Full)
      BY <1>3, <3>1, <3>3 DEF ReportConnected, Goto, shared, RootTypeOK, TypeOK, Processes
    <3>4. CASE ReportUnlessResetting /\ UNCHANGED missed
      BY <3>1, <3>4 DEF ReportUnlessResetting, Disconnect, AfterDisconnection
    <3>5. CASE UNCHANGED <<vars, missed>>
      BY <1>3, <3>1, <3>5 DEF vars
    <3>6. QED
      BY <3>2, <3>3, <3>4, <3>5 DEF React
  <2>3. CASE AttachReturns \/ ResetReturns(Monitor)
    BY <2>1, <2>3 DEF AttachReturns, ReleaseAfterReset, ResetReturns, BusResetReturns, Holding
  <2>4. CASE Service
    BY <1>3, <2>1, <2>4 DEF Service, ServiceFrame, vars
  <2>5. CASE MonitorCall
    BY <1>3, <2>1, <2>5, MonitorCallMoves DEF Holding
  <2>6. CASE ControllerCall \/ Listen \/ LedTick \/ TakeEvent \/ ResetFirst \/ Enumerated
    <3>1. UNCHANGED <<missed, goneSince>>
      BY <2>6 DEF ControllerCall, Listen, LedTick, TakeEvent, ResetFirst, Enumerated
    <3>2. QED
      BY <1>3, <2>6, <3>1, ApplicationMoves
  <2>7. CASE \/ \E device \in {Full, Low} : Plug(device)
             \/ Unplug \/ UNCHANGED rootVars
    BY <1>3, <2>7 DEF Plug, Unplug, rootVars, vars
  <2>8. QED
    BY <1>3, <2>2, <2>3, <2>4, <2>5, <2>6, <2>7 DEF RootNext, Resetters
<1>4. QED
  BY <1>1, <1>2, <1>3

------------------------------------------------------------------------------
(* The session                                                             *)

(* Only the application's own take empties the mailbox.                    *)
LEMMA OnlyTakeEventTakes ==
    ASSUME RootTypeOK, IInv, [RootNext]_rootVars, TakePendingEvent
    PROVE  TakeEvent
<1>1. pc[Controller] = "take" /\ pc'[Controller] # "take"
  BY DEF TakePendingEvent, Goto, RootTypeOK, TypeOK, Processes
<1>2. CASE \/ Tick \/ AttachReturns \/ Service \/ ResetReturns(Monitor) \/ MonitorCall
           \/ (\E device \in {Full, Low} : Plug(device)) \/ Unplug \/ UNCHANGED rootVars
  BY <1>1, <1>2, ControllerStays
<1>3. CASE ControllerCall \/ ResetReturns(Controller)
  BY <1>1, <1>3 DEF ControllerCall, ResetReturns, EventWakes, Acquire, ReadSpeed,
     WithinReset, ReleaseAfterReset, MarkBusReset, BeginResetActivity, DropResetActivity,
     ReportFailedReset, SignalFailedReset, BusResetReturns
<1>4. CASE Listen \/ LedTick \/ ResetFirst \/ Enumerated
  BY <1>1, <1>4 DEF Listen, LedTick, ResetFirst, Enumerated, WaitForDeviceEvent,
     CancelWait, StartBusReset
<1>5. QED
  BY <1>2, <1>3, <1>4 DEF RootNext, Resetters

LEMMA StepKeepsSession ==
    ASSUME RootTypeOK, IInv, AttachInCall, SessionIsCurrent, [RootNext]_rootVars
    PROVE  SessionIsCurrent'
<1> USE DEF SessionIsCurrent
<1>1. /\ pending.destructive \in Removals \cup {None}
      /\ pending.connected \in Speeds \cup {None}
  BY DEF RootTypeOK, TypeOK, PendingEvents
<1>2. CASE TakeEvent
  <2>1. UNCHANGED port /\ (pending' = pending \/ pending' = AfterTake(pending))
    BY <1>2 DEF TakeEvent, TakePendingEvent
  <2>2. CASE pending.destructive # None
    <3>1. NextEvent(pending) \in Removals /\ NextEvent(pending) \notin Speeds
      BY <1>1, <2>2, EventsAssumption DEF NextEvent
    <3>2. task' = "connecting"
      BY <1>2, <3>1 DEF TakeEvent
    <3>3. QED
      BY <3>2
  <2>3. CASE pending.destructive = None /\ pending.connected = None
    <3>1. NextEvent(pending) \notin Speeds \cup Removals
      BY <2>3, EventsAssumption DEF NextEvent
    <3>2. UNCHANGED <<task, session>>
      BY <1>2, <3>1 DEF TakeEvent
    <3>3. QED
      BY <2>1, <2>3, <3>2
  <2>4. CASE pending.destructive = None /\ pending.connected # None
    <3>1. NextEvent(pending) \in Speeds /\ NextEvent(pending) \notin Removals
      BY <1>1, <2>4, EventsAssumption DEF NextEvent
    <3>2. port.connected
      BY <2>4 DEF IInv, MailboxAgreesWithPort, AfterDraining
    <3>3. CASE task = "connecting"
      BY <1>2, <2>1, <3>1, <3>2, <3>3 DEF TakeEvent
    <3>4. CASE task # "connecting"
      BY <1>2, <2>1, <2>4, <3>1, <3>4 DEF TakeEvent
    <3>5. QED
      BY <3>3, <3>4
  <2>5. QED
    BY <2>2, <2>3, <2>4
<1>3. CASE ~TakeEvent
  <2>1. session' = session /\ (task' = "connecting" <=> task = "connecting")
    BY <1>3 DEF RootNext, rootVars, Tick, AttachReturns, Service, ResetReturns, MonitorCall,
       ControllerCall, Listen, LedTick, ResetFirst, Enumerated, Plug, Unplug, application
  <2>2. CASE UNCHANGED <<port, pending, told>>
    BY <2>1, <2>2
  <2>3. ASSUME NEW removal \in Removals, Disconnect(removal) PROVE SessionIsCurrent'
    BY <2>3, EventsAssumption DEF Disconnect, PushRemoval, Removals
  <2>4. ASSUME NEW r \in Resetters, MarkBusReset(r) PROVE SessionIsCurrent'
    BY <2>1, <2>4 DEF MarkBusReset, AfterBusReset, RootTypeOK, TypeOK, PortState
  <2>5. CASE PublishConnection
    <3>1. ~port.connected
      BY <2>5 DEF PublishConnection, AttachInCall, Live, Monitor
    <3>2. pending' = pending \/ pending' = PushConnected(pending, resetSpeed[Monitor])
      BY <2>5 DEF PublishConnection
    <3>3. pending'.destructive = pending.destructive
      BY <3>2 DEF PushConnected, RootTypeOK, TypeOK, PendingEvents
    <3>4. QED
      BY <2>1, <3>1, <3>3
  <2>6. QED
    BY <1>3, <2>2, <2>3, <2>4, <2>5, PortChanges, FirmwareStep, OnlyTakeEventTakes
<1>4. QED
  BY <1>2, <1>3

------------------------------------------------------------------------------
(* The invariant, and what follows                                         *)

LEMMA InitRootInvariant == RootInit => RootInv
<1> SUFFICES ASSUME RootInit PROVE RootInv
  OBVIOUS
<1>1. /\ pc[Monitor] = "idle" /\ pc[Controller] = "idle"
      /\ ~port.connected /\ Init
      /\ \A r \in Resetters : pc[r] = "idle"
  BY PipesAssumption DEF RootInit, Init, NewPort, Processes, Resetters, Monitor, Controller
<1>2. RootTypeOK
  <2>1. NewDetector \in [stable : LineStates, candidate : LineStates,
                         samples : 0 .. Required - 1]
    BY DebounceAssumption DEF NewDetector, LineStates
  <2>2. TypeOK /\ session \in Generation
    BY <1>1, InitType, ZeroType DEF RootInit
  <2>3. glitches \in 0 .. MaxGlitches
    BY DebounceAssumption DEF RootInit
  <2>4. QED
    BY <2>1, <2>2, <2>3 DEF RootInit, RootTypeOK
<1>3. AttachInCall /\ FailureIsKnown /\ DeviceStays
  BY <1>1 DEF RootInit, AttachInCall, Live, Holding, FailureIsKnown, Failing, DeviceStays
<1>4. DetectorWatches /\ MonitorKnowsPort /\ SessionIsCurrent
  BY <1>1 DEF RootInit, DetectorWatches, MonitorKnowsPort, SessionIsCurrent
<1>5. QED
  BY <1>2, <1>3, <1>4 DEF RootInv

LEMMA StepKeepsRootInvariant == IInv /\ RootInv /\ [RootNext]_rootVars => RootInv'
BY StepKeepsRootType, StepKeepsAttach, StepKeepsDetector, StepKeepsKnowledge,
   StepKeepsDevice, StepKeepsFailure, StepKeepsSession DEF RootInv

(* The firmware's inductive invariant, with the host state's, holds for    *)
(* every debounce length and every run of glitches below it.               *)
THEOREM FirmwareSafety == RootSpec => []RootInv
<1>1. IInv /\ IInv' /\ RootInv /\ [RootNext]_rootVars => RootInv'
  BY StepKeepsRootInvariant
<1>2. QED
  BY InitRootInvariant, HostStateSafety, <1>1, PTL DEF RootSpec

(* The monitor's `connected` is the port's, unless a reset has missed the  *)
(* device.                                                                 *)
THEOREM MonitorIsRight == RootSpec => []MonitorKnowsPort
<1>1. RootInv => MonitorKnowsPort
  BY DEF RootInv
<1>2. QED
  BY FirmwareSafety, <1>1, PTL

(* Until it is told of a removal, the application serves the connection    *)
(* its session was started for.                                            *)
THEOREM SessionsAreCurrent == RootSpec => []SessionIsCurrent
<1>1. RootInv => SessionIsCurrent
  BY DEF RootInv
<1>2. QED
  BY FirmwareSafety, <1>1, PTL

(* The monitor publishes no second connection over the first: it debounces *)
(* no sample of a reset.                                                   *)
THEOREM NoFalseAttachment == RootSpec => NoSecondAttachment
<1>1. ASSUME IInv, RootInv, [RootNext]_rootVars
      PROVE  [Published => ~port.connected]_rootVars
  <2>1. SUFFICES ASSUME Published PROVE ~port.connected
    OBVIOUS
  <2>2. PublishConnection
    <3>1. ~UNCHANGED port
      BY <2>1 DEF Published
    <3>2. ASSUME NEW removal \in Removals, Disconnect(removal) PROVE FALSE
      BY <2>1, <3>2 DEF Published, Disconnect, AfterDisconnection
    <3>3. ASSUME NEW r \in Resetters, MarkBusReset(r) PROVE FALSE
      BY <1>1, <2>1, <3>3
      DEF Published, MarkBusReset, AfterBusReset, RootInv, RootTypeOK, TypeOK, PortState
    <3>4. ~TakePendingEvent
      BY <3>1 DEF TakePendingEvent
    <3>5. QED
      BY <1>1, <3>1, <3>2, <3>3, <3>4, PortChanges, FirmwareStep
  <2>3. QED
    BY <1>1, <2>2 DEF PublishConnection, RootInv, AttachInCall, Live, Monitor
<1>2. QED
  BY HostStateSafety, FirmwareSafety, <1>1, PTL DEF RootSpec, NoSecondAttachment

(* No glitch below the debounce, and no reset, makes the port lose a       *)
(* device that has not left since its reset.                               *)
THEOREM DetachesAreReal == RootSpec => DetachIsReal
<1>1. ASSUME IInv, RootInv, [RootNext]_rootVars
      PROVE  [port.connected /\ ~port'.connected => goneSince]_rootVars
  <2>1. SUFFICES ASSUME port.connected, ~port'.connected, ~goneSince PROVE FALSE
    OBVIOUS
  <2>2. RootTypeOK /\ AttachInCall /\ DetectorWatches /\ DeviceStays /\ FailureIsKnown
    BY <1>1 DEF RootInv
  <2>3. CASE Tick
    <3>1. PICK sample \in LineStates : Sampled(sample) /\ React(sample)
      BY <2>3 DEF Tick
    <3>2. ~Settles(detector, sample)
      BY <1>1, <2>1, <2>2, <2>3, <3>1, GlitchesDoNotSettle DEF Tick
    <3>3. QED
      BY <2>1, <3>1, <3>2 DEF React, vars
  <2>4. CASE AttachReturns \/ Service \/ ResetReturns(Monitor)
    BY <2>1, <2>4 DEF AttachReturns, ReleaseAfterReset, Service, ServiceFrame, ResetReturns,
       BusResetReturns, shared, vars
  <2>5. CASE MonitorCall
    <3>1. pc[Monitor] \in {"publish", "report"}
      BY <1>1, <2>1, <2>2, <2>5, MonitorCallMoves
    <3>2. QED
      BY <2>1, <2>2, <3>1 DEF AttachInCall, Live, Monitor, Holding, Resetters
  <2>6. CASE \/ ControllerCall \/ ResetReturns(Controller)
             \/ Listen \/ LedTick \/ TakeEvent \/ ResetFirst \/ Enumerated
    BY <1>1, <2>1, <2>2, <2>6, ApplicationMoves DEF FailureIsKnown, Failing
  <2>7. CASE \/ \E device \in {Full, Low} : Plug(device)
             \/ Unplug \/ UNCHANGED rootVars
    BY <2>1, <2>7 DEF Plug, Unplug, rootVars, vars
  <2>8. QED
    BY <1>1, <2>3, <2>4, <2>5, <2>6, <2>7 DEF RootNext, Resetters
<1>2. QED
  BY HostStateSafety, FirmwareSafety, <1>1, PTL DEF RootSpec, DetachIsReal

==============================================================================
