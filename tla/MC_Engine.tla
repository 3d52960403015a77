------------------------------ MODULE MC_Engine ------------------------------
(* Engine with a short clock, a FIFO shorter than an answer, and answers   *)
(* that may be one byte longer than the longest packet.                    *)
EXTENDS Engine
=============================================================================
