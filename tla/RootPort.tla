------------------------------- MODULE RootPort -------------------------------
(***************************************************************************)
(* The product-neutral firmware: root_port_monitor samples and debounces   *)
(* the line every millisecond, resets and reports a new device, reports a  *)
(* lost one and keeps frames coming; the application loop waits for a      *)
(* connection, enumerates it and holds the session until the removal.      *)
(* Both run on one executor over the host state of module HostState, so    *)
(* what happens between two .awaits is one step.  A device is plugged and  *)
(* unplugged at any time, and the line may glitch.                         *)
(***************************************************************************)
EXTENDS HostState

CONSTANTS
    Full, Low,      \* Speed::Full and Speed::Low
    Required,       \* ATTACH_DEBOUNCE_SAMPLES
    ResetsFirst,    \* the bus handle resets the port before it enumerates
    MaxGlitches     \* bound: consecutive samples that show another line state

ASSUME SpeedsAssumption == Full \in Speeds /\ Low # Full /\ Low # None
ASSUME DebounceAssumption ==
    /\ Required \in Nat \ {0}
    /\ MaxGlitches \in Nat
    /\ MaxGlitches < Required
ASSUME ResetsAssumption == ResetsFirst \in BOOLEAN

LineStates == {"Se0", "JFullSpeed", "JLowSpeed", "Se1"}

VARIABLES
    attached,   \* the device in the port
    glitches,   \* samples in a row that did not show it
    detector,   \* the AttachDetector
    loop,       \* where the monitor's loop is, besides pc[Monitor]
    connected,  \* the monitor's local `connected`
    task,       \* where the application loop is
    session,    \* history: the connection the application was told of
    goneSince,  \* history: the device left since the monitor's reset found it
    missed      \* history: a reset has failed since the last attach began

world == <<attached, glitches>>
monitor == <<detector, loop, connected>>
application == <<task, session>>
rootVars == <<vars, world, monitor, application, goneSince, missed>>

------------------------------------------------------------------------------
(* AttachDetector                                                          *)

NewDetector == [stable |-> "Se0", candidate |-> "Se0", samples |-> 0]

(* Consecutive samples of `sample`, counting this one, when it is not the   *)
(* stable state.                                                           *)
Run(d, sample) == IF sample = d.candidate THEN d.samples + 1 ELSE 1

(* Mutated form: one sample less.                                          *)
SettlesEarly(d, sample) == sample # d.stable /\ Run(d, sample) >= Required - 1

Settles(d, sample) == sample # d.stable /\ Run(d, sample) >= Required

Update(d, sample) ==
    CASE sample = d.stable -> [d EXCEPT !.candidate = sample, !.samples = 0]
      [] Settles(d, sample) ->
            [stable |-> sample, candidate |-> sample, samples |-> 0]
      [] OTHER -> [d EXCEPT !.candidate = sample, !.samples = Run(d, sample)]

------------------------------------------------------------------------------
(* The line                                                                *)

Level(device) ==
    CASE device = Full -> "JFullSpeed"
      [] device = Low -> "JLowSpeed"
      [] OTHER -> "Se0"

(* A reset drives SE0, whatever is in the port.                            *)
Line == IF \E r \in Resetters : pc[r] = "reset" THEN "Se0" ELSE Level(attached)

(* root_line_state: the line, or a glitch (an end of packet, a bounce) that *)
(* does not last                                                           *)
Sampled(sample) ==
    \/ sample = Line /\ glitches' = 0
    \/ sample # Line /\ glitches < MaxGlitches /\ glitches' = glitches + 1

Plug(device) ==
    /\ attached = None
    /\ attached' = device
    /\ UNCHANGED <<vars, glitches, monitor, application, goneSince, missed>>

Unplug ==
    /\ attached # None
    /\ attached' = None
    /\ goneSince' = TRUE
    /\ UNCHANGED <<vars, glitches, monitor, application, missed>>

RootInit ==
    /\ Init
    /\ attached = None
    /\ glitches = 0
    /\ detector = NewDetector
    /\ loop = "tick"
    /\ connected = FALSE
    /\ task = "connecting"
    /\ session = 0
    /\ goneSince = FALSE
    /\ missed = FALSE

------------------------------------------------------------------------------
(* One executor polls both tasks: a task runs on from one .await to the    *)
(* next before the other one does.                                         *)
AwaitPoints == {"idle", "lock", "reset", "wait", "marker"}

MonitorSuspended == pc[Monitor] \in AwaitPoints /\ loop # "service"
ApplicationSuspended == pc[Controller] \in AwaitPoints

(* Whoever takes the step, the other task is suspended.                    *)
Suspended(x) == IF x = Monitor THEN ApplicationSuspended ELSE MonitorSuspended

------------------------------------------------------------------------------
(* The monitor                                                             *)

(* A settled line state other than full-speed J is a removal.              *)
React(sample) ==
    LET settles == Settles(detector, sample)
        lost == settles /\ sample # "JFullSpeed" /\ connected
    IN  \/ /\ settles /\ sample = "JFullSpeed"
           /\ ReportConnected(Full)
           /\ loop' = "attach"
           /\ missed' = FALSE
           /\ UNCHANGED connected
        \/ /\ lost
           /\ ReportUnlessResetting
           /\ connected' = FALSE
           /\ UNCHANGED <<loop, missed>>
        \/ /\ settles => sample # "JFullSpeed"
           /\ lost => resetInProgress
           /\ loop' = IF connected THEN "service" ELSE "tick"
           /\ UNCHANGED <<vars, connected, missed>>

(* Mutated form: the line is sampled and debounced during a reset too.     *)
TickWhileResetting ==
    /\ Suspended(Monitor)
    /\ loop = "tick"
    /\ pc[Monitor] = "idle"
    /\ \E sample \in LineStates :
          Sampled(sample) /\ detector' = Update(detector, sample) /\ React(sample)
    /\ UNCHANGED <<attached, application, goneSince>>

(* One tick: no sample, and no detector update, during a reset             *)
Tick ==
    /\ Suspended(Monitor)
    /\ loop = "tick"
    /\ pc[Monitor] = "idle"
    /\ ~resetInProgress
    /\ \E sample \in LineStates :
          Sampled(sample) /\ detector' = Update(detector, sample) /\ React(sample)
    /\ UNCHANGED <<attached, application, goneSince>>

(* Mutated form: an attach that succeeds is not remembered.                *)
AttachForgotten ==
    /\ Suspended(Monitor)
    /\ ReleaseAfterReset(Monitor)
    /\ loop' = "tick"
    /\ UNCHANGED <<world, detector, connected, application, goneSince, missed>>

(* reset_and_report_connected returns Ok or Err.                           *)
AttachReturns ==
    /\ Suspended(Monitor)
    /\ ReleaseAfterReset(Monitor)
    /\ connected' = (outcome[Monitor] = "ok")
    /\ loop' = IF outcome[Monitor] = "ok" THEN "service" ELSE "tick"
    /\ UNCHANGED <<world, detector, application, goneSince, missed>>

(* Mutated form: the monitor does not service frames.                      *)
ServiceNothing ==
    /\ Suspended(Monitor)
    /\ loop = "service"
    /\ pc[Monitor] = "idle"
    /\ loop' = "tick"
    /\ UNCHANGED <<vars, world, detector, connected, application, goneSince, missed>>

(* service_frame, a no-op while another owns the engine                    *)
Service ==
    /\ Suspended(Monitor)
    /\ loop = "service"
    /\ pc[Monitor] = "idle"
    /\ loop' = "tick"
    /\ ServiceFrame \/ (~(port.speed # None /\ engine = Free) /\ UNCHANGED vars)
    /\ UNCHANGED <<world, detector, connected, application, goneSince, missed>>

(* What the engine's bus_reset makes of the line once it has released it   *)
Found ==
    CASE Level(attached) = "JFullSpeed" -> "ok"
      [] Level(attached) = "Se0" -> "disconnected"
      [] OTHER -> "failed"

ResetReturns(r) ==
    /\ Suspended(r)
    /\ BusResetReturns(r)
    /\ outcome'[r] = Found
    /\ goneSince' = IF r = Monitor /\ Found = "ok" THEN FALSE ELSE goneSince
    /\ missed' = (missed \/ Found # "ok")
    /\ UNCHANGED <<world, monitor, application>>

(* The steps inside a call that leave the firmware's own state alone.      *)
WithinReset(r) ==
    \/ MarkBusReset(r) \/ BeginResetActivity(r) \/ DropResetActivity(r)
    \/ ReportFailedReset(r) \/ SignalFailedReset(r)

MonitorCall ==
    /\ Suspended(Monitor)
    /\ \/ Acquire(Monitor, "mark") \/ PublishConnection \/ FrameServiced
       \/ SignalEvent(Monitor) \/ WithinReset(Monitor)
    /\ UNCHANGED <<world, monitor, application, goneSince, missed>>

ControllerCall ==
    /\ Suspended(Controller)
    /\ \/ EventWakes \/ Acquire(Controller, "speed") \/ ReadSpeed
       \/ WithinReset(Controller) \/ ReleaseAfterReset(Controller)
    /\ UNCHANGED <<world, monitor, application, goneSince, missed>>

------------------------------------------------------------------------------
(* The application loop                                                    *)

Listen ==
    /\ Suspended(Controller)
    /\ task # "enumerating"
    /\ WaitForDeviceEvent
    /\ UNCHANGED <<world, monitor, application, goneSince, missed>>

(* The LED ticker of wait_for_root_removal wins the select.                *)
LedTick ==
    /\ Suspended(Controller)
    /\ task = "session"
    /\ CancelWait
    /\ UNCHANGED <<world, monitor, application, goneSince, missed>>

(* wait_for_connection waits for a Connected event, and                    *)
(* wait_for_root_removal for a Disconnected or Overcurrent one.            *)
TakeEvent ==
    /\ Suspended(Controller)
    /\ TakePendingEvent
    /\ LET event == NextEvent(pending)
       IN  IF task = "connecting" /\ event \in Speeds
           THEN task' = "enumerating" /\ session' = port.connectionGeneration
           ELSE /\ task' = IF event \in Removals THEN "connecting" ELSE task
                /\ UNCHANGED session
    /\ UNCHANGED <<world, monitor, goneSince, missed>>

(* The bus handle resets the port, as often as it likes.                   *)
ResetFirst ==
    /\ Suspended(Controller)
    /\ ResetsFirst
    /\ task = "enumerating"
    /\ StartBusReset
    /\ UNCHANGED <<world, monitor, application, goneSince, missed>>

(* Enumeration, allocation and probe end; whether they succeed or not, the *)
(* application waits for the removal.                                      *)
Enumerated ==
    /\ Suspended(Controller)
    /\ task = "enumerating"
    /\ pc[Controller] = "idle"
    /\ task' = "session"
    /\ UNCHANGED <<vars, world, monitor, session, goneSince, missed>>

RootNext ==
    \/ \E device \in {Full, Low} : Plug(device)
    \/ Unplug
    \/ Tick \/ AttachReturns \/ Service
    \/ \E r \in Resetters : ResetReturns(r)
    \/ MonitorCall \/ ControllerCall
    \/ Listen \/ LedTick \/ TakeEvent \/ ResetFirst \/ Enumerated

RootSpec == RootInit /\ [][RootNext]_rootVars

------------------------------------------------------------------------------
(* Properties                                                              *)

(* Every variable of the firmware has its type; a candidate is never kept   *)
(* for as long as the debounce asks.                                       *)
RootTypeOK ==
    /\ TypeOK
    /\ attached \in {None, Full, Low}
    /\ glitches \in 0 .. MaxGlitches
    /\ detector \in [stable : LineStates, candidate : LineStates,
                     samples : 0 .. Required - 1]
    /\ loop \in {"tick", "attach", "service"}
    /\ connected \in BOOLEAN
    /\ task \in {"connecting", "enumerating", "session"}
    /\ session \in Generation
    /\ goneSince \in BOOLEAN
    /\ missed \in BOOLEAN

(* The monitor never publishes a connection over another: a reset's own    *)
(* SE0 and its recovery are not taken for a second attachment, so the      *)
(* application, which ignores a Connected in its session, misses nothing.  *)
NoSecondAttachment == [][Published => ~port.connected]_rootVars

(* The port is lost only if the device has really left since its reset:    *)
(* neither the reset's SE0 nor a glitch that is shorter than the debounce   *)
(* makes a detach.                                                         *)
DetachIsReal == [][port.connected /\ ~port'.connected => goneSince]_rootVars

(* A session without a pending removal is in the connection it was started *)
(* for.                                                                    *)
SessionIsCurrent ==
    task # "connecting" /\ pending.destructive = None =>
        port.connected /\ session = port.connectionGeneration

(* The monitor services frames of every connection that is published, and  *)
(* believes in no other, unless a reset has missed the device: then the     *)
(* controller's call has taken the port down behind the monitor's back.    *)
MonitorKnowsPort ==
    loop # "attach" =>
        /\ port.connected => connected
        /\ connected => port.connected \/ missed

------------------------------------------------------------------------------
(* The inductive invariant                                                 *)

(* A reset whose device has gone, until it has reported that               *)
Failing(r) ==
    pc[r] = "report" \/ (pc[r] = "clear" /\ outcome[r] = "disconnected")

(* The monitor is in reset_and_report_connected while its loop says so; no  *)
(* device is published before it is, and the call returns Ok for one that  *)
(* still is.                                                               *)
AttachInCall ==
    /\ loop = "attach" <=> Live(Monitor) \/ pc[Monitor] \in Holding \ {"frame", "marker"}
    /\ pc[Monitor] = "publish" => outcome[Monitor] = "ok"
    /\ \A r \in Resetters : pc[r] = "report" => outcome[r] = "disconnected"
    /\ Live(Monitor) => ~port.connected
    /\ loop = "attach" /\ ~Live(Monitor) => (port.connected <=> outcome[Monitor] = "ok")

(* The detector's stable state is the device of the connection; during an  *)
(* attach it has just settled.                                             *)
DetectorWatches ==
    /\ port.connected => detector.stable = "JFullSpeed"
    /\ loop = "attach" => detector.stable = "JFullSpeed" /\ detector.samples = 0

(* Until the device leaves, only glitches count towards a removal.         *)
DeviceStays ==
    ~goneSince /\ (port.connected \/ pc[Monitor] = "publish") =>
        attached = Full /\ detector.samples <= glitches

(* A controller's reset that fails has missed a device that is gone, before *)
(* the monitor can attach another.                                         *)
FailureIsKnown ==
    Failing(Controller) =>
        /\ missed \/ pc[Monitor] = "lock"
        /\ port.connected => goneSince

RootInv ==
    /\ RootTypeOK
    /\ AttachInCall
    /\ DetectorWatches
    /\ MonitorKnowsPort
    /\ DeviceStays
    /\ FailureIsKnown
    /\ SessionIsCurrent

------------------------------------------------------------------------------
(* Fairness: the executor polls both tasks again and again, every awaited  *)
(* operation ends, and enumeration does.  Nothing makes the line glitch.   *)
MonitorTask ==
    \/ Tick /\ glitches' = 0
    \/ AttachReturns \/ Service \/ MonitorCall \/ ResetReturns(Monitor)

ApplicationTask ==
    Listen \/ TakeEvent \/ ControllerCall \/ ResetReturns(Controller)

RootFairness ==
    /\ SF_rootVars(MonitorTask)
    /\ SF_rootVars(ApplicationTask)
    /\ SF_rootVars(Enumerated)

FairRootSpec == RootSpec /\ RootFairness

Quiet(device) == attached = device /\ glitches = 0

(* A device that is gone for good ends the session.                        *)
RemovalEndsSession == <>[]Quiet(None) => <>[](task = "connecting")

(* A device that stays is served, if no reset missed it.                   *)
DeviceIsServed == <>[](Quiet(Full) /\ ~missed) => <>[](task = "session")

(* A connected port is kept alive: its frame markers never stop.           *)
FramesKeepComing ==
    <>[]port.connected => []<>(pc[Monitor] = "marker" \/ pc[Controller] \in Holding)

(* The README's claim: any full-speed device that stays is enumerated.     *)
EveryDeviceIsServed == <>[]Quiet(Full) => <>[](task = "session")
==============================================================================
