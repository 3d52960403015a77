---------------------------- MODULE EventContract ----------------------------
(***************************************************************************)
(* What the host promises the application about the root port: it is told  *)
(* of every removal before it is told of a later device, and otherwise it  *)
(* is told of the device that is attached now.  How reports are queued,    *)
(* merged and signalled is left to the implementation.                     *)
(***************************************************************************)
CONSTANTS Speeds, Removals, None

VARIABLES
    up,         \* the speed of the attached device, or None
    told,       \* the same, as the application knows it
    owed        \* the removal the application has not been told of, or None

vars == <<up, told, owed>>

Init == up = None /\ told = None /\ owed = None

Attach(speed) ==
    /\ up' = speed
    /\ UNCHANGED <<told, owed>>

Remove(removal) ==
    /\ up' = None
    /\ owed' = IF owed = "Overcurrent" THEN owed ELSE removal
    /\ UNCHANGED told

Tell ==
    /\ owed # None \/ told # up
    /\ told' = IF owed # None THEN None ELSE up
    /\ owed' = None
    /\ UNCHANGED up

Next ==
    \/ \E speed \in Speeds : Attach(speed)
    \/ \E removal \in Removals : Remove(removal)
    \/ Tell

Spec == Init /\ [][Next]_vars
==============================================================================
