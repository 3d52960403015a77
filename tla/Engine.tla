-------------------------------- MODULE Engine --------------------------------
(***************************************************************************)
(* The parts of the packet engine below a transaction: the receivers of a  *)
(* data packet and of a handshake, and the frame schedule. A receiver runs *)
(* with interrupts off inside one step of the schedule, and never with the *)
(* other: a behaviour is one of the three. A receiver is called once, for  *)
(* it sets every variable when it begins, whatever the last call left.     *)
(***************************************************************************)
EXTENDS ReceivePath, FrameTiming

VARIABLES
    part,           \* "data", "handshake" or "frames"
    reply, begun, arrived, ended, step, cause, count, response, failure,
    now, next_frame, bus_ready_at, frame_number, speed, line, holder, left, until, newer, older

Hand   == INSTANCE HandshakeReceive
Frames == INSTANCE FrameSchedule WITH pc <- holder

hands == <<reply, begun, arrived, ended, step, cause, count, response, failure>>
frames == <<now, next_frame, bus_ready_at, frame_number, speed, line, holder, left, until,
            newer, older>>
engine == <<part, vars, hands, frames>>

EngineInit ==
    /\ part \in {"data", "handshake", "frames"}
    /\ Init /\ Hand!Init /\ Frames!Init

BeginData ==
    /\ part = "data" /\ pc = "idle" /\ result = "none"
    /\ \E a \in PlausibleAnswers, pid \in Toggles, size \in 0 .. Capacity,
          acks \in BOOLEAN, guard \in BOOLEAN :
          Begin(a, pid, size, acks, guard)
    /\ UNCHANGED <<part, hands, frames>>

ReceiveData ==
    /\ part = "data" /\ pc # "idle"
    /\ Push \/ EndOfPacket \/ Cpu
    /\ UNCHANGED <<part, hands, frames>>

ReceiveHandshake ==
    /\ part = "handshake"
    /\ step = "idle" => response = "none"
    /\ Hand!Next
    /\ UNCHANGED <<part, vars, frames>>

KeepFrames ==
    /\ part = "frames"
    /\ Frames!Next
    /\ UNCHANGED <<part, vars, hands>>

(* The call is over, or the bound of the clock is reached.                 *)
Rest ==
    /\ \/ part = "data" /\ pc = "idle" /\ result # "none"
       \/ part = "handshake" /\ step = "idle" /\ response # "none"
       \/ part = "frames" /\ now = MaxTime
    /\ UNCHANGED engine

EngineNext == BeginData \/ ReceiveData \/ ReceiveHandshake \/ KeepFrames \/ Rest

EngineSpec == EngineInit /\ [][EngineNext]_engine

(***************************************************************************)
(* Properties                                                              *)
(***************************************************************************)
(* A handshake is reported as the device sent it: HandshakeReceive.        *)
HandshakeIsSeen == Hand!HandshakeIsSeen

(* The inductive invariant of the frame schedule: FrameSchedule.           *)
FrameInv == Frames!FrameInv

(* No three markers in one frame: FrameSchedule.                           *)
NoBurst == Frames!NoBurst
=============================================================================
