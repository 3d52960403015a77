--------------------------- MODULE FrameSchedule ---------------------------
(***************************************************************************)
(* The frame markers of the packet engine (src/pio_host/rp2040.rs): starts *)
(* of frame at full speed, keep-alives at low speed. Who holds the engine  *)
(* (its lock admits one) emits the markers, idle service or transfer; any  *)
(* future may be dropped where it waits.                                   *)
(***************************************************************************)
EXTENDS FrameTiming

VARIABLES
    now,            \* the clock
    next_frame,     \* when the next marker is due
    bus_ready_at,   \* when the device has recovered from the last reset
    frame_number,
    speed,          \* profile.speed
    line,           \* "driven" to SE0 by a reset, or "released"
    pc,             \* of who holds the engine; "idle" if nobody does
    left,           \* 1 if a transaction follows the marker
    until,          \* when the reset pulse ends
    newer, older    \* when the last two markers went out whose end was seen

vars == <<now, next_frame, bus_ready_at, frame_number, speed, line, pc, left, until, newer, older>>
schedule == <<next_frame, bus_ready_at, frame_number, speed, line, until>>
history  == <<newer, older>>

Pcs == {"idle", "ready", "frame", "sent", "transact", "drive", "recover"}

Init ==
    /\ now = 2 * Ms /\ next_frame = now + Ms /\ bus_ready_at = now
    /\ frame_number = 0 /\ speed = "full" /\ line = "released"
    /\ pc = "idle" /\ left = 0 /\ until = 0
    /\ newer = 0 /\ older = 0

Tick == now < MaxTime /\ now' = now + 1 /\ UNCHANGED <<schedule, pc, left, history>>

(***************************************************************************)
(* Markers                                                                 *)
(***************************************************************************)
Numbered == IF speed = "full" THEN (frame_number + 1) % FrameModulus ELSE frame_number

(* transmit_frame_marker; n is what left becomes.                          *)
Marker(n) ==
    /\ pc' = "sent" /\ left' = n
    /\ frame_number' = Numbered
    /\ newer' = now /\ older' = newer
    /\ UNCHANGED <<now, next_frame, bus_ready_at, speed, line, until>>

(* It fails: the transmitter is recovered, the call ends with the error,   *)
(* and the number is spent. Whatever of it was on the wire, the history    *)
(* does not count it, as the schedule does not: the next call tries again. *)
MarkerFails ==
    /\ pc' = "idle" /\ left' = 0
    /\ frame_number' = Numbered
    /\ UNCHANGED <<now, next_frame, bus_ready_at, speed, line, until, history>>

(* Mutated form: frames that are late are all made up for.                 *)
FrameAfterAlways == next_frame + Ms

(* schedule_frame_after                                                    *)
FrameAfter == IF next_frame + Ms > now THEN next_frame + Ms ELSE now + Ms

Schedule ==
    /\ pc = "sent"
    /\ next_frame' = FrameAfter
    /\ pc' = IF left = 1 THEN "transact" ELSE "idle"
    /\ left' = 0
    /\ UNCHANGED <<now, bus_ready_at, frame_number, speed, line, until, history>>

(***************************************************************************)
(* service_frame: transmit_due_sof_if_needed                               *)
(***************************************************************************)
Due == now >= bus_ready_at /\ now >= next_frame

Service ==
    /\ pc = "idle" /\ Due
    /\ Marker(0) \/ MarkerFails

(***************************************************************************)
(* Transactions: out_once and in_once. With frame_scheduled they wait for  *)
(* the next frame; otherwise they emit a marker that is due.               *)
(***************************************************************************)
Begin ==
    /\ pc = "idle"
    /\ pc' = "ready" /\ left' \in {0, 1}
    /\ UNCHANGED <<now, schedule, history>>

(* wait_transaction_frame and advance_frame, up to the frame's timer       *)
AwaitFrame ==
    /\ pc = "ready" /\ left = 1 /\ now >= bus_ready_at
    /\ pc' = "frame"
    /\ UNCHANGED <<now, schedule, left, history>>

Frame ==
    /\ pc = "frame" /\ now >= next_frame
    /\ Marker(1) \/ MarkerFails

(* transmit_due_sof_if_needed                                              *)
GoAhead ==
    /\ pc = "ready" /\ left = 0 /\ now >= bus_ready_at
    /\ IF Due THEN Marker(1) \/ MarkerFails
       ELSE pc' = "transact" /\ UNCHANGED <<now, schedule, left, history>>

(* The packets of the transaction; a control transfer whose status stage   *)
(* was refused then starts the next frame afresh                           *)
(* (schedule_retry_frame_from_now).                                        *)
Transact ==
    /\ pc = "transact"
    /\ pc' = "idle" /\ left' = 0
    /\ next_frame' \in {next_frame, now + Ms}
    /\ UNCHANGED <<now, bus_ready_at, frame_number, speed, line, until, history>>

(***************************************************************************)
(* Reset                                                                   *)
(***************************************************************************)
(* configure_wire_speed and BusResetGuard::begin                           *)
Reset ==
    /\ pc = "idle"
    /\ pc' = "drive" /\ line' = "driven"
    /\ speed' \in {"full", "low"} /\ frame_number' = 0
    /\ until' = now + ResetTicks
    /\ bus_ready_at' = now + ResetTicks + RecoveryTicks
    /\ UNCHANGED <<now, next_frame, left, history>>

(* release_bus                                                             *)
Release ==
    /\ line' = "released"
    /\ bus_ready_at' = now + RecoveryTicks
    /\ UNCHANGED <<now, next_frame, frame_number, speed, left, until, history>>

PulseEnds == pc = "drive" /\ now >= until /\ Release /\ pc' = "recover"

ResetEnds ==
    /\ pc = "recover" /\ now >= bus_ready_at
    /\ next_frame' = now + Ms
    /\ pc' = "idle"
    /\ UNCHANGED <<now, bus_ready_at, frame_number, speed, line, left, until, history>>

(* Mutated form: the guard of the reset does nothing when it is dropped.   *)
DropOpen ==
    /\ pc \in {"ready", "frame", "drive", "recover"}
    /\ pc' = "idle" /\ left' = 0
    /\ UNCHANGED <<now, schedule, history>>

(* The future that holds the engine is dropped at an await. The guard of a *)
(* reset releases the bus; the frame deadline stays as it was.             *)
Drop ==
    \/ /\ pc \in {"ready", "frame", "recover"}
       /\ pc' = "idle" /\ left' = 0
       /\ UNCHANGED <<now, schedule, history>>
    \/ pc = "drive" /\ Release /\ pc' = "idle"

Next ==
    \/ Tick \/ Service \/ Schedule \/ Begin \/ AwaitFrame \/ Frame \/ GoAhead \/ Transact
    \/ Reset \/ PulseEnds \/ ResetEnds \/ Drop

Spec == Init /\ [][Next]_vars

(***************************************************************************)
(* Properties                                                              *)
(***************************************************************************)
TypeOK ==
    /\ now \in Nat /\ next_frame \in Nat /\ bus_ready_at \in Nat /\ until \in Nat
    /\ newer \in Nat /\ older \in Nat
    /\ frame_number \in 0..(FrameModulus - 1) /\ speed \in {"full", "low"}
    /\ line \in {"driven", "released"} /\ pc \in Pcs /\ left \in {0, 1}

(* No packet while a reset drives the bus or before the device recovers.   *)
Quiet ==
    /\ pc \in {"frame", "sent", "transact"} => now >= bus_ready_at
    /\ line = (IF pc = "drive" THEN "driven" ELSE "released")
    /\ pc = "drive" => bus_ready_at >= until + RecoveryTicks

(* The deadline is past the last marker, and a frame past the one before.  *)
Spacing ==
    /\ older <= newer /\ newer <= now
    /\ IF pc = "sent" THEN next_frame <= newer /\ older < next_frame
       ELSE newer < next_frame /\ older + Ms <= next_frame

FrameInv == TypeOK /\ Quiet /\ Spacing

(* However late markers are and whatever is dropped, never are three sent  *)
(* to their end within one frame: a delay is not made up for by a burst.   *)
(* A marker that fails is repeated, and is not counted here.               *)
NoBurst == [][newer' # newer => newer' >= older + Ms]_vars
=============================================================================
