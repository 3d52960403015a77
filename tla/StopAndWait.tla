------------------------------ MODULE StopAndWait ------------------------------
(***************************************************************************)
(* What the DATA toggle promises of one endpoint: the receiver takes the   *)
(* next packet only when the sender knows that it has the one before, so   *)
(* it is never more than one ahead of what the sender knows, and never     *)
(* behind: nothing is skipped and nothing is taken twice.  A sender that   *)
(* was told of a packet the receiver did not keep ends the promise, until  *)
(* the endpoint is configured anew.                                        *)
(***************************************************************************)
EXTENDS Naturals

VARIABLES
    taken,  \* packets the receiver has taken
    known,  \* packets the sender knows to be taken
    broken  \* the promise has ended

Init == taken = 0 /\ known = 0 /\ broken = FALSE

Take ==
    /\ taken = known
    /\ taken' = taken + 1
    /\ known' \in {known, known + 1}

Learn == known < taken /\ known' = taken /\ UNCHANGED taken

(* The endpoint is configured anew: both ends start over.                  *)
Restart == taken' = 0 /\ known' = 0 /\ broken' = FALSE

(* Nothing is promised of this step, nor of those up to the next Restart.  *)
Break == broken' = TRUE

Next ==
    \/ ~broken /\ UNCHANGED broken /\ (Take \/ Learn)
    \/ Break
    \/ Restart

Spec == Init /\ [][Next]_<<taken, known, broken>>
==============================================================================
