------------------------------ MODULE OutTransfer ------------------------------
(***************************************************************************)
(* request_out of a bulk or interrupt pipe: a buffer is cut into packets,  *)
(* each is sent until its ACK comes back, over a wire that loses and       *)
(* garbles packets and handshakes.  The device takes a packet with the     *)
(* toggle it expects and discards any other as a repetition, with an ACK   *)
(* for both.                                                               *)
(***************************************************************************)
EXTENDS PipeLoop, Sequences

CONSTANTS
    Lengths,        \* the lengths of the buffers callers give
    MaxPackets      \* bound: packets known to be taken when a call may start

ASSUME LengthsAssumption == Lengths \subseteq Nat /\ MaxPackets \in Nat

VARIABLES
    length,     \* data.len()
    ensureEnd,  \* ensure_transaction_end
    index,      \* packet_index
    devToggle,  \* the toggle the device expects
    taken,      \* history: packets the device has taken
    known,      \* history: packets the host knows to be taken
    got,        \* history: what the device has taken of this call, as byte ranges
    doubt       \* history: a call has failed since the endpoint was configured

call == <<length, ensureEnd, index>>
device == <<devToggle, taken, got>>
vars == <<loop, toggle, call, device, known, doubt>>

Init ==
    /\ LoopInit
    /\ length = 0
    /\ ensureEnd = FALSE
    /\ index = 0
    /\ devToggle = "DATA0"
    /\ taken = 0
    /\ known = 0
    /\ got = <<>>
    /\ doubt = FALSE

(* Mutated form: the class driver forgets the pipe's toggle.               *)
ReconfigureDeviceOnly ==
    /\ pc = "idle"
    /\ devToggle' = "DATA0"
    /\ taken' = 0
    /\ known' = 0
    /\ doubt' = FALSE
    /\ UNCHANGED <<loop, toggle, call, got>>

(* SET_CONFIGURATION and reset_data_toggle, while no call runs             *)
Reconfigure ==
    /\ pc = "idle"
    /\ toggle' = "DATA0"
    /\ devToggle' = "DATA0"
    /\ taken' = 0
    /\ known' = 0
    /\ doubt' = FALSE
    /\ UNCHANGED <<loop, call, got>>

RequestOut(size, ensure) ==
    /\ known < MaxPackets
    /\ Begin
    /\ length' = size
    /\ ensureEnd' = ensure
    /\ index' = 0
    /\ got' = <<>>
    /\ UNCHANGED <<toggle, devToggle, taken, known, doubt>>

(* Mutated form: the toggle advances with the packet, not with its ACK.    *)
HostSeesAnyway(found) ==
    IF found \in {"done", "noResponse"}
    THEN toggle' = AfterAck(toggle) /\ known' = known + 1
    ELSE UNCHANGED <<toggle, known>>

HostSees(found) ==
    IF found = "done" THEN toggle' = AfterAck(toggle) /\ known' = known + 1
                      ELSE UNCHANGED <<toggle, known>>

(* No packet reached the device, or it has no room, or it stalls; or the   *)
(* engine failed before the packet was out.                                *)
NotTaken ==
    /\ \E found \in {"noResponse", "nak", "stall", "invalid", "failed"} :
          Attempt(found) /\ HostSees(found)
    /\ UNCHANGED <<call, device, doubt>>

(* The device has the packet and answers with an ACK, which may get lost   *)
(* or arrive as something else, or not be listened to because the engine   *)
(* missed the end of its own packet.                                       *)
Acknowledged ==
    /\ \E found \in {"done", "noResponse", "invalid", "failed"} :
          Attempt(found) /\ HostSees(found)
    /\ IF toggle = devToggle
       THEN /\ devToggle' = AfterAck(devToggle)
            /\ taken' = taken + 1
            /\ got' = Append(got, PacketBytes(index, length, Mps))
       ELSE UNCHANGED device
    /\ UNCHANGED <<call, doubt>>

(* Mutated form: the packet that ends the transfer is not sent.            *)
SentEarly ==
    /\ Through(index + 1 >= PacketCount(length, Mps, FALSE))
    /\ index' = index + 1
    /\ UNCHANGED <<toggle, length, ensureEnd, device, known, doubt>>

(* The packet is through; the next one, or the return                      *)
PacketSent ==
    /\ Through(index + 1 >= PacketCount(length, Mps, ensureEnd))
    /\ index' = index + 1
    /\ UNCHANGED <<toggle, length, ensureEnd, device, known, doubt>>

LoopStep ==
    /\ Due \/ Gone \/ Broken \/ Naked \/ Unanswered
    /\ doubt' = (doubt \/ pc' = "idle")
    /\ UNCHANGED <<toggle, call, device, known>>

Call == NotTaken \/ Acknowledged \/ PacketSent \/ LoopStep

Dropped ==
    /\ Cancel
    /\ doubt' = TRUE
    /\ UNCHANGED <<toggle, call, device, known>>

Detached == Invalidate /\ UNCHANGED <<toggle, call, device, known, doubt>>

Passes == Tick /\ UNCHANGED <<toggle, call, device, known, doubt>>

Next ==
    \/ Reconfigure
    \/ \E size \in Lengths, ensure \in BOOLEAN : RequestOut(size, ensure)
    \/ Call
    \/ Dropped
    \/ Detached
    \/ Passes

Spec == Init /\ [][Next]_vars

------------------------------------------------------------------------------
(* Properties                                                              *)

(* Every variable has its type; byte ranges are within the buffer.         *)
TypeOK ==
    /\ LoopTypeOK
    /\ toggle \in Toggles
    /\ length \in Lengths \cup {0}
    /\ ensureEnd \in BOOLEAN
    /\ index \in Nat
    /\ devToggle \in Toggles
    /\ taken \in Nat
    /\ known \in Nat
    /\ got \in Seq((0 .. length) \X (0 .. length))
    /\ doubt \in BOOLEAN

(* The two toggles differ exactly while the host does not know that the    *)
(* device has its packet.                                                  *)
InStep == taken = IF toggle = devToggle THEN known ELSE known + 1

(* Only a call that did not return Ok leaves the two out of step.          *)
OnlyFailuresLeaveDoubt == pc = "idle" /\ ~doubt => toggle = devToggle

(* While no call has failed, the device has the packets of this call up to *)
(* the current one, or up to the one before, and the toggles tell which.   *)
Progress ==
    ~doubt /\ pc # "idle" =>
        /\ got = [i \in 1 .. Len(got) |-> PacketBytes(i - 1, length, Mps)]
        /\ Len(got) = IF toggle = devToggle /\ result # "done" THEN index ELSE index + 1

(* The inductive invariant                                                 *)
WriteInv ==
    /\ TypeOK
    /\ LoopInv
    /\ InStep
    /\ OnlyFailuresLeaveDoubt
    /\ Progress
    /\ result = "done" => toggle = devToggle
    /\ pc # "idle" => index < PacketCount(length, Mps, ensureEnd)

Stream == INSTANCE StopAndWait WITH broken <- FALSE

ImplementsStopAndWait == Stream!Spec

(* What the device has of a call: its bytes from the first on, each once,  *)
(* in packets of which all but the last are full, and the last too unless  *)
(* the call's data end there.                                              *)
Contiguous ==
    \A i \in DOMAIN got :
        /\ got[i][1] = IF i = 1 THEN 0 ELSE got[i - 1][2]
        /\ got[i][2] \in got[i][1] .. got[i][1] + Mps
        /\ got[i][2] < got[i][1] + Mps => i = Len(got) /\ got[i][2] = length

(* The device has the whole buffer, and the end of the transfer if the     *)
(* caller has asked for it.                                                *)
WholeBuffer ==
    /\ Contiguous
    /\ got # <<>>
    /\ got[Len(got)][2] = length
    /\ ensureEnd => got[Len(got)][2] < got[Len(got)][1] + Mps

Returned == outcome' # outcome /\ outcome' = "ok"

(* request_out returns Ok only for a buffer that the device has taken      *)
(* completely, once and in order, if every call before it returned Ok too. *)
OkMeansTransported == [][Returned /\ ~doubt => WholeBuffer]_vars

(* "A successful return means the complete buffer was transported."        *)
SuccessMeansTransported == [][Returned => WholeBuffer]_vars

(* The retry limit ends a call only on a device that has not answered      *)
(* RetryLimit times in a row: a call that times out for another reason     *)
(* than a failure of the engine, which ends it at once.                    *)
GivesUpOnSilence ==
    [][outcome' # outcome /\ outcome' = "timeout" /\ result # "failed" =>
          silence = RetryLimit]_vars

Fairness == WF_vars(Call) /\ WF_vars(Passes)

(* A call ends unless the device NAKs forever.                             *)
EndsUnlessNaked == (pc # "idle" ~> pc = "idle") \/ []<>(result = "nak")

FairSpec == Spec /\ Fairness
==============================================================================
