------------------------------ MODULE PortModel ------------------------------
(***************************************************************************)
(* The values the root port keeps behind PioHostState::shared, and the     *)
(* pure functions on them: PortState (connection and reset generations)    *)
(* and PendingEvents (the coalescing mailbox of device events).            *)
(***************************************************************************)
EXTENDS Naturals

CONSTANTS
    GenModulus,     \* generations are counted modulo this (2^32 in the code)
    Speeds,         \* the speeds a device can attach with
    None            \* Option::None

(* The removals the root port reports.                                     *)
Removals == {"Disconnected", "Overcurrent"}

ASSUME GenModulusAssumption == GenModulus \in Nat \ {0, 1}
ASSUME EventsAssumption ==
    /\ None \notin Speeds \cup Removals
    /\ Speeds \cap Removals = {}

Generation == 0 .. GenModulus - 1

(* u32::wrapping_add(1) *)
Bump(g) == IF g = GenModulus - 1 THEN 0 ELSE g + 1

PortState ==
    [connected : BOOLEAN, speed : Speeds \cup {None},
     connectionGeneration : Generation, resetGeneration : Generation]

NewPort ==
    [connected |-> FALSE, speed |-> None,
     connectionGeneration |-> 0, resetGeneration |-> 0]

AfterConnection(port, speed) ==
    [connected |-> TRUE, speed |-> speed,
     connectionGeneration |-> Bump(port.connectionGeneration),
     resetGeneration |-> Bump(port.resetGeneration)]

AfterDisconnection(port) ==
    [connected |-> FALSE, speed |-> None,
     connectionGeneration |-> Bump(port.connectionGeneration),
     resetGeneration |-> port.resetGeneration]

AfterBusReset(port) ==
    [port EXCEPT !.resetGeneration = Bump(port.resetGeneration)]

------------------------------------------------------------------------------
(* A device event is a speed, for Connected(speed), or a removal.          *)
PendingEvents ==
    [destructive : Removals \cup {None}, connected : Speeds \cup {None}]

NoEvents == [destructive |-> None, connected |-> None]

PushConnected(pending, speed) == [pending EXCEPT !.connected = speed]

(* Mutated form: a removal leaves the connection it supersedes pending.    *)
PushRemovalOnly(pending, removal) == [pending EXCEPT !.destructive = removal]

(* An overcurrent that nobody has taken yet is not downgraded to a detach;  *)
(* either removal supersedes a connection nobody has taken yet.             *)
PushRemoval(pending, removal) ==
    [destructive |-> IF pending.destructive = "Overcurrent"
                     THEN "Overcurrent" ELSE removal,
     connected |-> None]

(* What take() returns, and what it leaves: the removal first.             *)
NextEvent(pending) ==
    IF pending.destructive # None THEN pending.destructive ELSE pending.connected

(* Mutated form: taking one event clears the mailbox.                      *)
AfterTakeAll(pending) == NoEvents

AfterTake(pending) ==
    IF pending.destructive # None
    THEN [pending EXCEPT !.destructive = None]
    ELSE NoEvents
==============================================================================
