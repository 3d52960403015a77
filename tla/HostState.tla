------------------------------ MODULE HostState ------------------------------
(***************************************************************************)
(* PioHostState and the handles that share it by reference: the line       *)
(* monitor (reset_and_report_connected, report_disconnected_if_not_        *)
(* resetting, service_frame), another reporter (report_disconnected,       *)
(* report_overcurrent), the one controller (wait_for_device_event,         *)
(* bus_reset), and the logical pipes.                                      *)
(*                                                                         *)
(* One step is one critical section of `shared`, one use of the signal, or *)
(* one acquisition or release of the async mutex around the engine: what   *)
(* two executors on two cores can interleave.  An .await may be cancelled. *)
(***************************************************************************)
EXTENDS PortModel

CONSTANT Pipes      \* the pipe handles the application may hold

Monitor == "monitor"        \* the root-port runner
Reporter == "reporter"      \* any other caller of a report function
Controller == "controller"  \* the one PioHostController
Resetters == {Monitor, Controller}
Processes == Pipes \cup {Monitor, Reporter, Controller}

Free == "free"              \* the engine mutex is not locked

ASSUME PipesAssumption ==
    Pipes \cap {Monitor, Reporter, Controller, Free} = {}

VARIABLES
    port,               \* shared.port
    pending,            \* shared.pending_events
    resetInProgress,    \* shared.reset_in_progress
    engine,             \* who holds the engine mutex
    eventWake,          \* the signal is set
    pc,                 \* where each process is
    outcome,            \* what its call has found so far
    resetSpeed,         \* the speed a resetter resets at
    savedGeneration,    \* the generation reset_and_report_connected read
    pipe,               \* what each pipe recorded when it was allocated
    told,               \* history: the port as the event consumer knows it
    age                 \* history: generation steps since a handle recorded one

vars == <<port, pending, resetInProgress, engine, eventWake, pc, outcome,
          resetSpeed, savedGeneration, pipe, told, age>>

shared == <<port, pending, resetInProgress>>
local == <<outcome, resetSpeed, savedGeneration, pipe>>
history == <<told, age>>

Goto(x, label) == pc' = [pc EXCEPT ![x] = label]

PipeRecord == [addressed : BOOLEAN, connectionGeneration : Generation,
               resetGeneration : Generation]

------------------------------------------------------------------------------
(* A recorded generation is live while somebody may still compare it with  *)
(* the port's.  GenModulus bounds a handle's life: the port does not go    *)
(* once around (2^32 steps) while a handle that would be fooled is held.   *)
Handles == Pipes \cup {Monitor}

Live(h) ==
    IF h = Monitor THEN pc[h] \in {"lock", "mark", "begin", "reset", "publish"}
                   ELSE pc[h] # "none"

NewAge == [connection |-> 0, reset |-> 0]

Aged(byConnection, byReset) ==
    [h \in Handles |->
        [connection |-> IF byConnection /\ Live(h)
                        THEN age[h].connection + 1 ELSE age[h].connection,
         reset |-> IF byReset /\ Live(h) /\ h \in Pipes /\ pipe[h].addressed
                   THEN age[h].reset + 1 ELSE age[h].reset]]

(* A resetter's call is over: the monitor's recorded generation is dead.   *)
Forgotten(r) == IF r = Monitor THEN [age EXCEPT ![Monitor] = NewAge] ELSE age

NoHandleWraps(ages) ==
    \A h \in Handles : ages[h].connection < GenModulus /\ ages[h].reset < GenModulus

------------------------------------------------------------------------------
Init ==
    /\ port = NewPort
    /\ pending = NoEvents
    /\ resetInProgress = FALSE
    /\ engine = Free
    /\ eventWake = FALSE
    /\ pc = [x \in Processes |-> IF x \in Pipes THEN "none" ELSE "idle"]
    /\ outcome = [x \in Processes |-> "none"]
    /\ resetSpeed = [r \in Resetters |-> None]
    /\ savedGeneration = 0
    /\ pipe = [p \in Pipes |-> [addressed |-> FALSE,
                                connectionGeneration |-> 0, resetGeneration |-> 0]]
    /\ told = None
    /\ age = [h \in Handles |-> NewAge]

------------------------------------------------------------------------------
(* Reports.  The critical section pushes the event; the signal follows.    *)

Disconnect(removal) ==
    /\ port' = AfterDisconnection(port)
    /\ pending' = PushRemoval(pending, removal)
    /\ NoHandleWraps(Aged(TRUE, FALSE))
    /\ age' = Aged(TRUE, FALSE)

(* report_disconnected and report_overcurrent, up to their signal          *)
Report(removal) ==
    /\ pc[Reporter] = "idle"
    /\ Disconnect(removal)
    /\ Goto(Reporter, "signal")
    /\ UNCHANGED <<resetInProgress, engine, eventWake, local, told>>

(* report_disconnected_if_not_resetting: FALSE, and no effect, in a reset  *)
ReportUnlessResetting ==
    /\ pc[Monitor] = "idle"
    /\ ~resetInProgress
    /\ Disconnect("Disconnected")
    /\ Goto(Monitor, "signal")
    /\ UNCHANGED <<resetInProgress, engine, eventWake, local, told>>

SignalEvent(x) ==
    /\ pc[x] = "signal"
    /\ eventWake' = TRUE
    /\ Goto(x, "idle")
    /\ UNCHANGED <<shared, engine, local, history>>

------------------------------------------------------------------------------
(* Bus resets: the steps the monitor's attach and the controller's share.  *)

Acquire(x, label) ==
    /\ pc[x] = "lock"
    /\ engine = Free
    /\ engine' = x
    /\ Goto(x, label)
    /\ UNCHANGED <<shared, eventWake, local, history>>

MarkBusReset(r) ==
    /\ pc[r] = "mark"
    /\ port' = AfterBusReset(port)
    /\ NoHandleWraps(Aged(FALSE, TRUE))
    /\ age' = Aged(FALSE, TRUE)
    /\ Goto(r, "begin")
    /\ UNCHANGED <<pending, resetInProgress, engine, eventWake, local, told>>

BeginResetActivity(r) ==
    /\ pc[r] = "begin"
    /\ resetInProgress' = TRUE
    /\ Goto(r, "reset")
    /\ UNCHANGED <<port, pending, engine, eventWake, local, history>>

(* engine.bus_reset(speed).await returns, or its caller is cancelled       *)
BusResetReturns(r) ==
    /\ pc[r] = "reset"
    /\ \E found \in {"ok", "disconnected", "failed", "cancelled"} :
          /\ outcome' = [outcome EXCEPT ![r] = found]
          /\ IF found = "ok" /\ r = Monitor
             THEN Goto(r, "publish") /\ UNCHANGED age
             ELSE Goto(r, "clear") /\ age' = Forgotten(r)
    /\ UNCHANGED <<shared, engine, eventWake, resetSpeed, savedGeneration, pipe, told>>

(* Mutated form: a cancelled reset leaves the flag set.                    *)
DropUnlessCancelled(r) ==
    /\ pc[r] = "clear"
    /\ resetInProgress' = (outcome[r] = "cancelled")
    /\ Goto(r, IF outcome[r] = "disconnected" THEN "report" ELSE "unlock")
    /\ UNCHANGED <<port, pending, engine, eventWake, local, history>>

(* Mutated form: the engine is released before the failure is reported.    *)
DropWithEngine(r) ==
    /\ pc[r] = "clear"
    /\ resetInProgress' = FALSE
    /\ engine' = Free
    /\ Goto(r, IF outcome[r] = "disconnected" THEN "report" ELSE "unlock")
    /\ UNCHANGED <<port, pending, eventWake, local, history>>

DropResetActivity(r) ==
    /\ pc[r] = "clear"
    /\ resetInProgress' = FALSE
    /\ Goto(r, IF outcome[r] = "disconnected" THEN "report" ELSE "unlock")
    /\ UNCHANGED <<port, pending, engine, eventWake, local, history>>

(* report_disconnected, called with the engine still locked                *)
ReportFailedReset(r) ==
    /\ pc[r] = "report"
    /\ Disconnect("Disconnected")
    /\ Goto(r, "wake")
    /\ UNCHANGED <<resetInProgress, engine, eventWake, local, told>>

(* Mutated form: the failed reset is reported without a signal.            *)
SkipFailureSignal(r) ==
    /\ pc[r] = "wake"
    /\ Goto(r, "unlock")
    /\ UNCHANGED <<shared, engine, eventWake, local, history>>

SignalFailedReset(r) ==
    /\ pc[r] = "wake"
    /\ eventWake' = TRUE
    /\ Goto(r, "unlock")
    /\ UNCHANGED <<shared, engine, local, history>>

(* drop(engine); the monitor signals a published connection afterwards     *)
ReleaseAfterReset(r) ==
    /\ pc[r] = "unlock"
    /\ engine' = Free
    /\ Goto(r, IF r = Monitor /\ outcome[r] = "ok" THEN "signal" ELSE "idle")
    /\ outcome' = [outcome EXCEPT ![r] = "none"]
    /\ resetSpeed' = [resetSpeed EXCEPT ![r] = None]
    /\ UNCHANGED <<shared, eventWake, savedGeneration, pipe, history>>

(* The future is dropped while it waits for the engine.                    *)
CancelLock(r) ==
    /\ pc[r] = "lock"
    /\ Goto(r, "idle")
    /\ resetSpeed' = [resetSpeed EXCEPT ![r] = None]
    /\ age' = Forgotten(r)
    /\ UNCHANGED <<shared, engine, eventWake, outcome, savedGeneration, pipe, told>>

ResetStep(r) ==
    \/ MarkBusReset(r) \/ BeginResetActivity(r) \/ BusResetReturns(r)
    \/ DropResetActivity(r) \/ ReportFailedReset(r) \/ SignalFailedReset(r)
    \/ ReleaseAfterReset(r)

------------------------------------------------------------------------------
(* The monitor: reset_and_report_connected and service_frame               *)

ReportConnected(speed) ==
    /\ pc[Monitor] = "idle"
    /\ savedGeneration' = port.connectionGeneration
    /\ resetSpeed' = [resetSpeed EXCEPT ![Monitor] = speed]
    /\ age' = [age EXCEPT ![Monitor] = NewAge]
    /\ Goto(Monitor, "lock")
    /\ UNCHANGED <<shared, engine, eventWake, outcome, pipe, told>>

(* A detach reported since the call began wins over the connection.        *)
PublishConnection ==
    /\ pc[Monitor] = "publish"
    /\ IF port.connectionGeneration = savedGeneration
       THEN /\ port' = AfterConnection(port, resetSpeed[Monitor])
            /\ pending' = PushConnected(pending, resetSpeed[Monitor])
            /\ age' = [Aged(TRUE, TRUE) EXCEPT ![Monitor] = NewAge]
            /\ NoHandleWraps([Aged(TRUE, TRUE) EXCEPT ![Monitor] = NewAge])
            /\ UNCHANGED outcome
       ELSE /\ outcome' = [outcome EXCEPT ![Monitor] = "stale"]
            /\ age' = [age EXCEPT ![Monitor] = NewAge]
            /\ UNCHANGED <<port, pending>>
    /\ Goto(Monitor, "clear")
    /\ UNCHANGED <<resetInProgress, engine, eventWake, resetSpeed,
                   savedGeneration, pipe, told>>

(* try_lock: with the engine busy the frame is skipped                     *)
ServiceFrame ==
    /\ pc[Monitor] = "idle"
    /\ port.speed # None
    /\ engine = Free
    /\ engine' = Monitor
    /\ Goto(Monitor, "frame")
    /\ UNCHANGED <<shared, eventWake, local, history>>

(* The speed is read again with the engine locked; then the marker, if due *)
FrameServiced ==
    /\ pc[Monitor] \in {"frame", "marker"}
    /\ IF pc[Monitor] = "frame" /\ port.speed # None
       THEN Goto(Monitor, "marker") /\ UNCHANGED engine
       ELSE Goto(Monitor, "idle") /\ engine' = Free
    /\ UNCHANGED <<shared, eventWake, local, history>>

------------------------------------------------------------------------------
(* The controller: wait_for_device_event and bus_reset                     *)

WaitForDeviceEvent ==
    /\ pc[Controller] = "idle"
    /\ Goto(Controller, "take")
    /\ UNCHANGED <<shared, engine, eventWake, local, history>>

TakePendingEvent ==
    /\ pc[Controller] = "take"
    /\ IF pending = NoEvents
       THEN Goto(Controller, "wait") /\ UNCHANGED <<pending, told>>
       ELSE /\ Goto(Controller, "idle")
            /\ pending' = AfterTake(pending)
            /\ told' = IF NextEvent(pending) \in Removals
                       THEN None ELSE NextEvent(pending)
    /\ UNCHANGED <<port, resetInProgress, engine, eventWake, local, age>>

EventWakes ==
    /\ pc[Controller] = "wait"
    /\ eventWake
    /\ eventWake' = FALSE
    /\ Goto(Controller, "take")
    /\ UNCHANGED <<shared, engine, local, history>>

CancelWait ==
    /\ pc[Controller] = "wait"
    /\ Goto(Controller, "idle")
    /\ UNCHANGED <<shared, engine, eventWake, local, history>>

StartBusReset ==
    /\ pc[Controller] = "idle"
    /\ Goto(Controller, "lock")
    /\ UNCHANGED <<shared, engine, eventWake, local, history>>

(* Nothing to reset without a device: the engine guard is dropped.         *)
ReadSpeed ==
    /\ pc[Controller] = "speed"
    /\ IF port.speed = None
       THEN Goto(Controller, "unlock") /\ UNCHANGED resetSpeed
       ELSE /\ Goto(Controller, "mark")
            /\ resetSpeed' = [resetSpeed EXCEPT ![Controller] = port.speed]
    /\ UNCHANGED <<shared, engine, eventWake, outcome, savedGeneration, pipe,
                   history>>

------------------------------------------------------------------------------
(* The pipes                                                               *)

(* alloc_pipe with a target validate_pipe accepts                          *)
AllocPipe(p, addressed) ==
    /\ pc[p] = "none"
    /\ port.connected
    /\ pipe' = [pipe EXCEPT ![p] =
          [addressed |-> addressed,
           connectionGeneration |-> port.connectionGeneration,
           resetGeneration |-> port.resetGeneration]]
    /\ age' = [age EXCEPT ![p] = NewAge]
    /\ Goto(p, "idle")
    /\ UNCHANGED <<shared, engine, eventWake, outcome, resetSpeed,
                   savedGeneration, told>>

DropPipe(p) ==
    /\ pc[p] = "idle"
    /\ Goto(p, "none")
    /\ outcome' = [outcome EXCEPT ![p] = "none"]
    /\ pipe' = [pipe EXCEPT ![p] = [addressed |-> FALSE,
                   connectionGeneration |-> 0, resetGeneration |-> 0]]
    /\ age' = [age EXCEPT ![p] = NewAge]
    /\ UNCHANGED <<shared, engine, eventWake, resetSpeed, savedGeneration, told>>

(* Mutated form: only resets are compared.                                 *)
ValidByReset(p) ==
    pipe[p].addressed => port.resetGeneration = pipe[p].resetGeneration

(* check_valid                                                             *)
Valid(p) ==
    /\ port.connected
    /\ port.connectionGeneration = pipe[p].connectionGeneration
    /\ pipe[p].addressed => port.resetGeneration = pipe[p].resetGeneration

StartTransfer(p) ==
    /\ pc[p] = "idle"
    /\ Goto(p, "due")
    /\ outcome' = [outcome EXCEPT ![p] = "none"]
    /\ UNCHANGED <<shared, engine, eventWake, resetSpeed, savedGeneration, pipe,
                   history>>

Finish(p, result) ==
    /\ Goto(p, "idle")
    /\ outcome' = [outcome EXCEPT ![p] = result]

(* The transaction is due: check_valid, then wait for the engine.          *)
CheckBeforeLock(p) ==
    /\ pc[p] = "due"
    /\ IF Valid(p) THEN Goto(p, "lock") /\ UNCHANGED outcome
                   ELSE Finish(p, "disconnected")
    /\ UNCHANGED <<shared, engine, eventWake, resetSpeed, savedGeneration, pipe,
                   history>>

(* Mutated form: what was checked before the wait for the engine is used.  *)
TrustCheckBeforeLock(p) ==
    /\ pc[p] = "check"
    /\ Goto(p, "wire")
    /\ UNCHANGED <<shared, engine, eventWake, local, history>>

CheckAfterLock(p) ==
    /\ pc[p] = "check"
    /\ IF Valid(p) THEN Goto(p, "wire") /\ UNCHANGED <<engine, outcome>>
                   ELSE Finish(p, "disconnected") /\ engine' = Free
    /\ UNCHANGED <<shared, eventWake, resetSpeed, savedGeneration, pipe, history>>

(* One transaction, or one control transfer: done, to be tried again (NAK, *)
(* missing response, or a further packet of the buffer), or an error       *)
Transact(p) ==
    /\ pc[p] = "wire"
    /\ \E found \in {"ok", "again", "failed"} :
          outcome' = [outcome EXCEPT ![p] = found]
    /\ Goto(p, "service")
    /\ UNCHANGED <<shared, engine, eventWake, resetSpeed, savedGeneration, pipe,
                   history>>

(* engine.service_frame(), its error ignored, and drop(engine)             *)
ServiceAndRelease(p) ==
    /\ pc[p] = "service"
    /\ engine' = Free
    /\ Goto(p, "recheck")
    /\ UNCHANGED <<shared, eventWake, local, history>>

(* Mutated form: the transaction's result is returned unchecked.           *)
ReturnUnchecked(p) ==
    /\ pc[p] = "recheck"
    /\ IF outcome[p] = "again" THEN Goto(p, "due") ELSE Goto(p, "idle")
    /\ UNCHANGED <<shared, engine, eventWake, local, history>>

CheckAfterRelease(p) ==
    /\ pc[p] = "recheck"
    /\ CASE ~Valid(p) -> Finish(p, "disconnected")
         [] Valid(p) /\ outcome[p] = "again" ->
                Goto(p, "due") /\ outcome' = [outcome EXCEPT ![p] = "none"]
         [] OTHER -> Goto(p, "idle") /\ UNCHANGED outcome
    /\ UNCHANGED <<shared, engine, eventWake, resetSpeed, savedGeneration, pipe,
                   history>>

(* The transfer's future is dropped at an .await, with its engine guard.   *)
CancelTransfer(p) ==
    /\ pc[p] \in {"due", "lock", "wire", "service"}
    /\ engine' = IF engine = p THEN Free ELSE engine
    /\ Finish(p, "cancelled")
    /\ UNCHANGED <<shared, eventWake, resetSpeed, savedGeneration, pipe, history>>

PipeStep(p) ==
    \/ CheckBeforeLock(p) \/ CheckAfterLock(p) \/ Transact(p)
    \/ ServiceAndRelease(p) \/ CheckAfterRelease(p)

------------------------------------------------------------------------------
MonitorStep ==
    \/ Acquire(Monitor, "mark") \/ PublishConnection \/ FrameServiced
    \/ ResetStep(Monitor) \/ SignalEvent(Monitor)

ControllerStep ==
    \/ TakePendingEvent \/ EventWakes \/ Acquire(Controller, "speed")
    \/ ReadSpeed \/ ResetStep(Controller)

Next ==
    \/ MonitorStep
    \/ ControllerStep
    \/ \E speed \in Speeds : ReportConnected(speed)
    \/ ReportUnlessResetting
    \/ ServiceFrame
    \/ \E removal \in Removals : Report(removal)
    \/ SignalEvent(Reporter)
    \/ WaitForDeviceEvent \/ CancelWait \/ StartBusReset
    \/ \E r \in Resetters : CancelLock(r)
    \/ \E p \in Pipes :
          \/ \E addressed \in BOOLEAN : AllocPipe(p, addressed)
          \/ DropPipe(p) \/ StartTransfer(p) \/ CancelTransfer(p)
          \/ Acquire(p, "check") \/ PipeStep(p)

Spec == Init /\ [][Next]_vars

------------------------------------------------------------------------------
(* Properties                                                              *)

Labels == {"none", "idle", "lock", "mark", "begin", "reset", "publish", "clear",
           "report", "wake", "unlock", "signal", "frame", "marker", "take", "wait",
           "speed", "due", "check", "wire", "service", "recheck"}

Outcomes == {"none", "ok", "stale", "disconnected", "failed", "cancelled", "again"}

(* Every variable has its type: generations stay below the modulus, and a  *)
(* port or mailbox holds only what PortState and PendingEvents can hold.   *)
TypeOK ==
    /\ port \in PortState
    /\ pending \in PendingEvents
    /\ resetInProgress \in BOOLEAN
    /\ engine \in Processes \cup {Free}
    /\ eventWake \in BOOLEAN
    /\ pc \in [Processes -> Labels]
    /\ outcome \in [Processes -> Outcomes]
    /\ resetSpeed \in [Resetters -> Speeds \cup {None}]
    /\ savedGeneration \in Generation
    /\ pipe \in [Pipes -> PipeRecord]
    /\ told \in Speeds \cup {None}
    /\ age \in [Handles -> [connection : Generation, reset : Generation]]

(* Labels at which a process holds the engine guard.                       *)
Holding == {"mark", "begin", "reset", "publish", "clear", "report", "wake",
            "unlock", "frame", "marker", "speed", "check", "wire", "service"}

Resetting == {"reset", "publish", "clear"}

(* reset_in_progress is set exactly while the holder of the engine is in   *)
(* its bus reset: no cancellation or early return leaves it set, which     *)
(* would silence detach reports for good, and no second reset clears it    *)
(* under the first (ResetActivity's Drop).                                 *)
ResetFlagOwned ==
    /\ resetInProgress <=> \E r \in Resetters : pc[r] \in Resetting
    /\ ~(pc[Monitor] \in Resetting /\ pc[Controller] \in Resetting)

(* What the application knows of the port once it has taken every pending  *)
(* event.                                                                  *)
AfterDraining ==
    CASE pending.connected # None -> pending.connected
      [] pending.connected = None /\ pending.destructive # None -> None
      [] OTHER -> told

(* The application that drains its events knows the port as it is: no      *)
(* coalescing in PendingEvents, and no order of connects, detaches and     *)
(* takes, makes it believe in a device that is gone, or miss one.          *)
MailboxAgreesWithPort ==
    /\ AfterDraining = port.speed
    /\ port.connected <=> port.speed # None

(* check_valid tells exactly the handles that nothing has outdated: no     *)
(* detach or attach since allocation and, away from address zero, no reset. *)
Fresh(p) == age[p].connection = 0 /\ (pipe[p].addressed => age[p].reset = 0)

ValidMeansFresh ==
    \A p \in Pipes : pc[p] # "none" => (Valid(p) <=> port.connected /\ Fresh(p))

(* A pipe that is on the wire never talks to a device that was reset or    *)
(* connected after the pipe was allocated, whoever reset the bus while it  *)
(* waited for the engine.                                                  *)
NoStaleTransaction ==
    \A p \in Pipes : pc[p] \in {"wire", "service"} =>
        /\ port.connected => age[p].connection = 0
        /\ pipe[p].addressed => age[p].reset = 0

(* A transfer that returns Ok ran wholly inside the connection its pipe    *)
(* was allocated in, and after no reset of an addressed device.            *)
OkOnlyWhileFresh ==
    [][\A p \in Pipes :
          pc[p] = "recheck" /\ pc'[p] = "idle" /\ outcome'[p] = "ok"
              => port.connected /\ Fresh(p)]_vars

Published == port'.connected /\ port'.connectionGeneration # port.connectionGeneration

(* reset_and_report_connected publishes a connection only if nobody has    *)
(* reported a detach since it was called, even before it had the engine.   *)
NoStaleConnection == [][Published => age[Monitor].connection = 0]_vars

(* A reset that found no device reports the detach before another reset    *)
(* can publish a connection: it cannot take down a later connection.       *)
FailedResetSparesNewConnection ==
    [][Published => \A r \in Resetters : pc[r] \notin {"report", "wake"}
                        /\ (r # Monitor => pc[r] \notin Resetting)]_vars

(* Labels at which a process drives the wire.                              *)
OnWire == {"reset", "marker", "wire", "service"}

(* No two of a bus reset, a frame marker of the idle runner and a pipe's   *)
(* transaction overlap on the wire.                                        *)
WireExclusive ==
    \A x, y \in Processes : pc[x] \in OnWire /\ pc[y] \in OnWire => x = y

Signalling(x) ==
    \/ pc[x] \in {"signal", "wake"}
    \/ x = Monitor /\ outcome[x] = "ok" /\ pc[x] \in {"clear", "unlock"}

(* An event is never pushed behind the back of the controller that waits:  *)
(* the signal is set, or a process is on its way to set it.                *)
NoLostWakeup ==
    pc[Controller] = "wait" /\ pending # NoEvents =>
        eventWake \/ \E x \in Resetters \cup {Reporter} : Signalling(x)

(* What the application is told implements the contract on device events.  *)
Contract ==
    INSTANCE EventContract
        WITH up <- port.speed, told <- told, owed <- pending.destructive

ImplementsContract == Contract!Spec

------------------------------------------------------------------------------
(* The inductive invariant                                                 *)

EngineOwned == \A x \in Processes : pc[x] \in Holding <=> engine = x

(* `to` is `from` after n steps of a generation that goes round at most once *)
Elapsed(from, to, n) ==
    to = IF from + n < GenModulus THEN from + n ELSE from + n - GenModulus

AgesCount ==
    /\ \A p \in Pipes : pc[p] # "none" =>
          /\ Elapsed(pipe[p].connectionGeneration, port.connectionGeneration,
                     age[p].connection)
          /\ pipe[p].addressed =>
                Elapsed(pipe[p].resetGeneration, port.resetGeneration, age[p].reset)
    /\ Live(Monitor) =>
          Elapsed(savedGeneration, port.connectionGeneration, age[Monitor].connection)

AttachHasSpeed == Live(Monitor) => resetSpeed[Monitor] \in Speeds

(* Nothing but these conjuncts is needed to show that each step keeps them. *)
IInv ==
    /\ TypeOK
    /\ EngineOwned
    /\ ResetFlagOwned
    /\ AttachHasSpeed
    /\ MailboxAgreesWithPort
    /\ AgesCount
    /\ NoStaleTransaction

------------------------------------------------------------------------------
(* Fairness: tasks run, the waiter of a mutex that is released again and   *)
(* again gets it in the end, a bus reset and a transaction end, and the    *)
(* application comes back to waiting for events.                           *)
Fairness ==
    /\ WF_vars(MonitorStep)
    /\ WF_vars(ControllerStep)
    /\ WF_vars(SignalEvent(Reporter))
    /\ SF_vars(WaitForDeviceEvent)
    /\ \A r \in Resetters :
          SF_vars(Acquire(r, IF r = Monitor THEN "mark" ELSE "speed"))
    /\ \A p \in Pipes : WF_vars(PipeStep(p)) /\ SF_vars(Acquire(p, "check"))

(* The application learns of a detach, whoever reported it and whatever    *)
(* the controller was doing then.                                          *)
RemovalIsDelivered == (told # None /\ ~port.connected) ~> (told = None)

(* A transfer of an outdated pipe ends, however long the device NAKs.      *)
StaleTransferEnds ==
    \A p \in Pipes :
        (pc[p] \notin {"none", "idle"} /\ age[p].connection > 0)
            ~> (pc[p] \in {"none", "idle"})

(* Line sampling, which stops during a reset, resumes.                     *)
ResetEnds == resetInProgress ~> ~resetInProgress
==============================================================================
