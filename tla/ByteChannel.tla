---------------------------- MODULE ByteChannel ----------------------------
(***************************************************************************)
(* What a byte stream of embedded-io-async promises its reader: the bytes  *)
(* the device sends, in order and each once; bytes are only lost by a call *)
(* that says so (it fails, it is dropped, or it discards what it has).     *)
(***************************************************************************)
EXTENDS Naturals, Sequences

VARIABLES
    stream,     \* sent by the device and not read yet
    reply       \* what the last call ended with

Losing == {"failed", "dropped", "cleared"}

Init == stream = <<>> /\ reply = [call |-> "none", bytes |-> <<>>]

Send ==
    /\ Len(stream') > Len(stream) /\ SubSeq(stream', 1, Len(stream)) = stream
    /\ UNCHANGED reply

(* A read returns at least one byte: none would mean the end of the stream.*)
Read ==
    \E n \in 1..Len(stream) :
        /\ reply' = [call |-> "read", bytes |-> SubSeq(stream, 1, n)]
        /\ stream' = SubSeq(stream, n + 1, Len(stream))

(* One stretch of the stream is gone, and the call that lost it delivers   *)
(* nothing.                                                                *)
Lose ==
    /\ reply' \in [call : Losing, bytes : {<<>>}]
    /\ \E i \in 0..Len(stream) : \E j \in i..Len(stream) :
          stream' = SubSeq(stream, 1, i) \o SubSeq(stream, j + 1, Len(stream))

Next == Send \/ Read \/ Lose

Spec == Init /\ [][Next]_<<stream, reply>>
=============================================================================
