---------------------------- MODULE ControlTransfer ----------------------------
(***************************************************************************)
(* control_in and control_out of the packet engine against a device that   *)
(* keeps to the protocol of endpoint zero, over a wire that loses and      *)
(* garbles packets and handshakes: the SETUP stage with its retry limits,  *)
(* the data stage, the status stage, and one deadline for all of them.     *)
(* The engine is held throughout (module HostState); a caller may drop the *)
(* call at any .await, and a SETUP begins everything anew on the device.   *)
(***************************************************************************)
EXTENDS PacketRules

CONSTANTS
    Mps,                \* endpoint.max_packet_size
    Sizes,              \* wLength of the requests callers make
    Replies,            \* the lengths of the device's replies
    Deadline,           \* the timeout, in frames
    NoResponseLimit,    \* CONTROL_SETUP_NO_RESPONSE_RETRY_LIMIT
    BadResponseLimit    \* CONTROL_SETUP_BAD_RESPONSE_RETRY_LIMIT

ASSUME ControlAssumption ==
    /\ Mps \in Nat \ {0}
    /\ Sizes \subseteq Nat
    /\ Replies \subseteq Nat
    /\ {Deadline, NoResponseLimit, BadResponseLimit} \subseteq Nat \ {0}

VARIABLES
    pc,         \* the stage of the call
    inward,     \* control_in, as against control_out
    requested,  \* wLength
    moved,      \* received, or the bytes of the packets acknowledged so far
    toggle,     \* expected, or toggle
    noResponse, \* no_response_attempts
    badResponse,\* bad_response_attempts
    left,       \* frames to the deadline
    framed,     \* the next attempt waits for a frame
    outcome,    \* what the last call returned
    devStage,   \* the device's stage
    devAt,      \* bytes it knows to be received, or has taken
    devToggle,  \* the toggle it sends or expects
    reply,      \* the length of its reply
    executed    \* history: how often it has carried out this call's request

host == <<inward, requested, noResponse, badResponse>>
device == <<devStage, devAt, devToggle, reply, executed>>
vars == <<pc, host, moved, toggle, left, framed, outcome, device>>

Init ==
    /\ pc = "idle"
    /\ inward = TRUE
    /\ requested = 0
    /\ moved = 0
    /\ toggle = "DATA1"
    /\ noResponse = 0
    /\ badResponse = 0
    /\ left = 0
    /\ framed = TRUE
    /\ outcome = "none"
    /\ devStage = "none"
    /\ devAt = 0
    /\ devToggle = "DATA1"
    /\ reply = 0
    /\ executed = 0

AtMost(n, most) == IF n < most THEN n ELSE most

------------------------------------------------------------------------------
(* The call                                                                *)

Begin(in, size) ==
    /\ pc = "idle"
    /\ pc' = "setup"
    /\ inward' = in
    /\ requested' = size
    /\ moved' = 0
    /\ toggle' = "DATA1"
    /\ noResponse' = 0
    /\ badResponse' = 0
    /\ left' = Deadline
    /\ framed' = TRUE
    /\ outcome' = "none"
    /\ executed' = 0
    /\ UNCHANGED <<devStage, devAt, devToggle, reply>>

Return(how) == pc' = "idle" /\ outcome' = how

(* wait_transaction_frame, or none                                         *)
FramePasses == left' = IF framed /\ left > 0 THEN left - 1 ELSE left

Stay == UNCHANGED <<pc, outcome>>

(* Mutated form: the deadline is not looked at.                            *)
AgainAnyway == Stay

(* A NAK, a repetition or no answer: again, before the deadline.           *)
AgainBeforeDeadline == IF left' = 0 THEN Return("timeout") ELSE Stay

EnterStage(next) == pc' = next /\ UNCHANGED outcome

(* A stage that is not completed by this answer                            *)
Refused(found) ==
    \/ found \in {"nak", "noResponse"} /\ AgainBeforeDeadline
    \/ found = "stall" /\ Return("stall")
    \/ found = "invalid" /\ Return("badResponse")

(* control_setup_stage: what an answer to SETUP makes of the call          *)
SetupAnswered(found) ==
    \/ /\ found = "ack"
       /\ EnterStage(CASE inward -> "dataIn"
                       [] ~inward /\ requested > 0 -> "dataOut"
                       [] OTHER -> "statusIn")
       /\ framed' = (requested > 0)
       /\ UNCHANGED <<noResponse, badResponse>>
    \/ found = "nak" /\ AgainBeforeDeadline /\ noResponse' = 0 /\ UNCHANGED <<badResponse, framed>>
    \/ /\ found = "noResponse"
       /\ noResponse' = noResponse + 1
       /\ IF noResponse' >= NoResponseLimit THEN Return("timeout") ELSE AgainBeforeDeadline
       /\ UNCHANGED <<badResponse, framed>>
    \/ /\ found = "invalid"
       /\ badResponse' = badResponse + 1
       /\ IF badResponse' >= BadResponseLimit \/ left' = 0 THEN Return("badResponse") ELSE Stay
       /\ UNCHANGED <<noResponse, framed>>
    \/ found = "stall" /\ Return("stall") /\ UNCHANGED <<noResponse, badResponse, framed>>

(* SETUP does not reach the device, or something else than an ACK comes    *)
(* back from a device that has not taken it.                               *)
SetupLost ==
    /\ pc = "setup"
    /\ FramePasses
    /\ \E found \in {"noResponse", "nak", "stall", "invalid"} : SetupAnswered(found)
    /\ UNCHANGED <<inward, requested, moved, toggle, device>>

(* A device takes every SETUP and forgets what it was doing.               *)
SetupTaken(length) ==
    /\ pc = "setup"
    /\ FramePasses
    /\ devStage' = IF requested > 0 THEN "data" ELSE "status"
    /\ devAt' = 0
    /\ devToggle' = "DATA1"
    /\ reply' = IF inward THEN length ELSE 0
    /\ \E found \in {"ack", "noResponse", "invalid"} : SetupAnswered(found)
    /\ UNCHANGED <<inward, requested, moved, toggle, executed>>

------------------------------------------------------------------------------
(* control_in: data, then an empty OUT packet                              *)

ReplyPacket == AtMost(reply - devAt, Mps)

(* The packet is acknowledged: the data stage ends with a short packet, or *)
(* with what was asked for.                                                *)
DeviceSeesAck ==
    /\ devAt' = devAt + ReplyPacket
    /\ devToggle' = AfterAck(devToggle)
    /\ devStage' = IF ReplyPacket < Mps \/ devAt' >= requested THEN "status" ELSE "data"
    /\ UNCHANGED <<reply, executed>>

(* checked_control_in_packet_end, after the ACK: then the next packet, or  *)
(* the status stage at once                                                *)
DataAccepted(packet) ==
    IF moved + packet > requested
    THEN Return("badResponse") /\ UNCHANGED <<moved, toggle, framed>>
    ELSE /\ moved' = moved + packet
         /\ toggle' = AfterAck(toggle)
         /\ IF packet < Mps \/ moved' = requested
            THEN EnterStage("statusOut") /\ framed' = FALSE
            ELSE Stay /\ UNCHANGED framed

DataInRefused ==
    /\ pc = "dataIn"
    /\ FramePasses
    /\ \E found \in {"nak", "noResponse", "stall", "invalid"} : Refused(found)
    /\ UNCHANGED <<host, moved, toggle, framed, device>>

(* The device's packet passes its CRC; whatever its length it is ACKed.    *)
DataInArrives(ackArrives) ==
    /\ pc = "dataIn"
    /\ devStage = "data"
    /\ FramePasses
    /\ IF Disposition(toggle, Mps, Mps, devToggle, ReplyPacket) = "accept"
       THEN DataAccepted(ReplyPacket)
       ELSE AgainBeforeDeadline /\ UNCHANGED <<moved, toggle, framed>>
    /\ IF ackArrives THEN DeviceSeesAck ELSE UNCHANGED device
    /\ UNCHANGED host

StatusOutRefused ==
    /\ pc = "statusOut"
    /\ FramePasses
    /\ framed' = TRUE
    /\ \E found \in {"nak", "noResponse", "stall", "invalid"} : Refused(found)
    /\ UNCHANGED <<host, moved, toggle, device>>

(* The device has seen the empty packet: its reply was received, even if   *)
(* it missed the last ACK.  Its own ACK may get lost.                      *)
StatusOutTaken ==
    /\ pc = "statusOut"
    /\ FramePasses
    /\ framed' = TRUE
    /\ devStage' = "done"
    /\ executed' = IF devStage = "done" THEN executed ELSE executed + 1
    /\ \/ Return("ok")
       \/ \E found \in {"noResponse", "invalid"} : Refused(found)
    /\ UNCHANGED <<host, moved, toggle, devAt, devToggle, reply>>

------------------------------------------------------------------------------
(* control_out: data, then an empty IN packet                              *)

OutPacket == AtMost(requested - moved, Mps)

DataOutRefused ==
    /\ pc = "dataOut"
    /\ FramePasses
    /\ \E found \in {"nak", "noResponse", "stall", "invalid"} : Refused(found)
    /\ UNCHANGED <<host, moved, toggle, framed, device>>

(* Mutated form: the next packet has the toggle of the one before.         *)
DataOutAckedAlike(found) ==
    IF found = "ack"
    THEN /\ moved' = moved + OutPacket
         /\ IF moved' = requested THEN EnterStage("statusIn") /\ framed' = FALSE
                                  ELSE Stay /\ UNCHANGED framed
         /\ UNCHANGED toggle
    ELSE Refused(found) /\ UNCHANGED <<moved, toggle, framed>>

DataOutAcked(found) ==
    IF found = "ack"
    THEN /\ moved' = moved + OutPacket
         /\ toggle' = AfterAck(toggle)
         /\ IF moved' = requested THEN EnterStage("statusIn") /\ framed' = FALSE
                                  ELSE Stay /\ UNCHANGED framed
    ELSE Refused(found) /\ UNCHANGED <<moved, toggle, framed>>

(* The device takes the packet it expects, and discards a repetition.      *)
DataOutTaken ==
    /\ pc = "dataOut"
    /\ FramePasses
    /\ \E found \in {"ack", "noResponse", "invalid"} : DataOutAcked(found)
    /\ IF toggle = devToggle
       THEN /\ devAt' = devAt + OutPacket
            /\ devToggle' = AfterAck(devToggle)
            /\ devStage' = IF devAt' = requested THEN "status" ELSE devStage
       ELSE UNCHANGED <<devAt, devToggle, devStage>>
    /\ UNCHANGED <<host, reply, executed>>

StatusInRefused ==
    /\ pc = "statusIn"
    /\ FramePasses
    /\ framed' = TRUE
    /\ \E found \in {"nak", "noResponse", "stall", "invalid"} : Refused(found)
    /\ UNCHANGED <<host, moved, toggle, device>>

(* The device carries out the request and sends the empty packet, which    *)
(* the host takes, or which gets lost on the wire.                         *)
StatusInArrives ==
    /\ pc = "statusIn"
    /\ devStage \in {"status", "done"}
    /\ FramePasses
    /\ framed' = TRUE
    /\ devStage' = "done"
    /\ executed' = IF devStage = "done" THEN executed ELSE executed + 1
    /\ \/ Return("ok")
       \/ \E found \in {"noResponse", "invalid"} : Refused(found)
    /\ UNCHANGED <<host, moved, toggle, devAt, devToggle, reply>>

------------------------------------------------------------------------------
Attempt ==
    \/ SetupLost \/ \E length \in Replies : SetupTaken(length)
    \/ DataInRefused \/ \E ackArrives \in BOOLEAN : DataInArrives(ackArrives)
    \/ StatusOutRefused \/ StatusOutTaken
    \/ DataOutRefused \/ DataOutTaken
    \/ StatusInRefused \/ StatusInArrives

Cancel ==
    /\ pc # "idle"
    /\ Return("cancelled")
    /\ UNCHANGED <<host, moved, toggle, left, framed, device>>

Next ==
    \/ \E size \in Sizes \ {0} : Begin(TRUE, size)
    \/ \E size \in Sizes : Begin(FALSE, size)
    \/ Attempt
    \/ Cancel

Spec == Init /\ [][Next]_vars

------------------------------------------------------------------------------
(* Properties                                                              *)

Outcomes == {"none", "ok", "stall", "badResponse", "timeout", "cancelled"}

(* Every variable has its type; what is received fits the request, and no  *)
(* retry count passes its limit.                                           *)
TypeOK ==
    /\ pc \in {"idle", "setup", "dataIn", "statusOut", "dataOut", "statusIn"}
    /\ inward \in BOOLEAN
    /\ requested \in Sizes \cup {0}
    /\ moved \in 0 .. requested
    /\ toggle \in Toggles
    /\ noResponse \in 0 .. NoResponseLimit
    /\ badResponse \in 0 .. BadResponseLimit
    /\ left \in 0 .. Deadline
    /\ framed \in BOOLEAN
    /\ outcome \in Outcomes
    /\ devStage \in {"none", "data", "status", "done"}
    /\ devAt \in Nat
    /\ devToggle \in Toggles
    /\ reply \in Replies \cup {0}
    /\ executed \in Nat

(* In the data stage host and device agree on the offset of the next       *)
(* packet, or an ACK was lost and they differ by that one packet, which    *)
(* the toggles tell: no byte of a request or a reply is skipped, taken     *)
(* twice, or left over from an earlier call.                               *)
DataInStep ==
    /\ pc = "dataIn" => moved = IF toggle = devToggle THEN devAt ELSE devAt + Mps
    /\ pc = "dataOut" => devAt = IF toggle = devToggle THEN moved ELSE moved + OutPacket

(* However often SETUP, data or the status are repeated, a request is not  *)
(* carried out twice by one call, and never before the host has sent all.  *)
ExecutedOnce ==
    /\ executed <= 1
    /\ executed = 1 => moved = IF inward THEN AtMost(reply, requested) ELSE requested

(* Where host and device may be, stage by stage                            *)
SetupStage ==
    pc = "setup" =>
        /\ moved = 0 /\ toggle = "DATA1" /\ executed = 0
        /\ inward => requested > 0
        /\ noResponse < NoResponseLimit /\ badResponse < BadResponseLimit

DataInStage ==
    pc = "dataIn" =>
        /\ inward /\ devStage = "data" /\ executed = 0
        /\ moved < requested /\ devAt <= reply
        /\ toggle # devToggle => ReplyPacket = Mps

DataOutStage ==
    pc = "dataOut" =>
        /\ ~inward /\ executed = 0
        /\ moved < requested
        /\ devStage = IF devAt = requested THEN "status" ELSE "data"

StatusStages ==
    pc \in {"statusOut", "statusIn"} =>
        /\ inward <=> pc = "statusOut"
        /\ moved = IF inward THEN AtMost(reply, requested) ELSE requested
        /\ ~inward => devAt = requested /\ devStage \in {"status", "done"}
        /\ executed = IF devStage = "done" THEN 1 ELSE 0

(* The inductive invariant                                                 *)
ControlInv ==
    /\ TypeOK
    /\ DataInStep
    /\ ExecutedOnce
    /\ SetupStage
    /\ DataInStage
    /\ DataOutStage
    /\ StatusStages

(* A control transfer that returns Ok is complete: the whole reply to this *)
(* SETUP was received and the device knows, or the device has taken all    *)
(* data and carried out the request, once.                                 *)
OkMeansComplete ==
    [][outcome' # outcome /\ outcome' = "ok" =>
          /\ devStage' = "done" /\ executed' = 1
          /\ moved = IF inward THEN AtMost(reply, requested) ELSE requested
          /\ ~inward => devAt = requested]_vars

(* Every call ends, whatever the device answers: NAKs and repetitions stop *)
(* at the deadline, undecodable answers to SETUP at their limit, and data  *)
(* at what was requested.                                                  *)
TransferEnds == pc # "idle" ~> pc = "idle"

FairSpec == Spec /\ WF_vars(Attempt)
==============================================================================
