---------------------------- MODULE MC_HostState ----------------------------
(***************************************************************************)
(* HostState with a bounded number of attaches, and of reports and resets  *)
(* by others, so that no handle ever meets the bound on its life.          *)
(***************************************************************************)
EXTENDS HostState

CONSTANTS
    MaxAttaches,    \* bound: calls of reset_and_report_connected
    MaxOthers       \* bound: calls of bus_reset and of the reports

(* A reset and its connection or failed report step each generation twice  *)
(* at most.                                                                *)
ASSUME NoWrapAssumption == GenModulus > 2 * (MaxAttaches + MaxOthers)

VARIABLES attaches, others

allVars == <<vars, attaches, others>>

Attaching == \E speed \in Speeds : ReportConnected(speed)

Other == ReportUnlessResetting \/ StartBusReset \/ \E removal \in Removals : Report(removal)

CallsNext ==
    /\ Next
    /\ IF Attaching THEN attaches < MaxAttaches /\ attaches' = attaches + 1
                    ELSE UNCHANGED attaches
    /\ IF Other THEN others < MaxOthers /\ others' = others + 1 ELSE UNCHANGED others

CallsInit == Init /\ attaches = 0 /\ others = 0

LiveSpec == CallsInit /\ [][CallsNext]_allVars /\ Fairness
==============================================================================
