---------------------------- MODULE FrameTiming ----------------------------
(***************************************************************************)
(* The times the engine's frame schedule goes by (src/pio_host/rp2040.rs). *)
(***************************************************************************)
EXTENDS Integers

CONSTANTS
    Ms,             \* clock ticks of a frame
    ResetTicks,     \* USB_RESET_MS
    RecoveryTicks,  \* USB_RESET_RECOVERY_MS
    FrameModulus,   \* 2048, of the eleven-bit frame number
    MaxTime         \* bound: the clock

ASSUME FrameAssumption ==
    /\ Ms \in Nat \ {0} /\ ResetTicks \in Nat /\ RecoveryTicks \in Nat
    /\ FrameModulus \in Nat \ {0} /\ MaxTime \in Nat
=============================================================================
