------------------------------ MODULE PacketRules ------------------------------
(***************************************************************************)
(* Pure rules of a data endpoint: the DATA toggle, what becomes of an IN   *)
(* packet that passed its CRC, how a buffer is cut into OUT packets, and   *)
(* how long a pipe waits before its next transaction.                      *)
(***************************************************************************)
EXTENDS Naturals

Toggles == {"DATA0", "DATA1"}

(* DataToggle::after_ack *)
AfterAck(toggle) == IF toggle = "DATA0" THEN "DATA1" ELSE "DATA0"

(* Mutated form: a repetition must fit what is left of the request too.    *)
DispositionAllFit(expected, limit, capacity, pid, length) ==
    CASE length > limit -> "reject"
      [] length <= limit /\ pid # expected -> "duplicate"
      [] OTHER -> "accept"

(* Mutated form: a packet is taken whatever its toggle.                    *)
DispositionAnyToggle(expected, limit, capacity, pid, length) ==
    IF length <= limit THEN "accept" ELSE "reject"

(* classify_in_data: the expected packet must fit what is left of the      *)
(* request; a retransmission needs only to fit the endpoint's buffer.      *)
Disposition(expected, limit, capacity, pid, length) ==
    CASE length > capacity -> "reject"
      [] length <= capacity /\ pid # expected -> "duplicate"
      [] pid = expected /\ length <= limit -> "accept"
      [] OTHER -> "reject"

(* The number of packets of request_out; one that is empty if there are no *)
(* data, or to end a transfer whose last packet is full.                   *)
PacketCount(length, mps, ensureEnd) ==
    LET dataPackets == (length + mps - 1) \div mps
    IN  CASE length = 0 -> 1
          [] length # 0 /\ ensureEnd /\ length % mps = 0 -> dataPackets + 1
          [] OTHER -> dataPackets

(* The bytes of packet `index`: from the first to before the second.       *)
PacketBytes(index, length, mps) ==
    LET atMost(n) == IF n < length THEN n ELSE length
        start == atMost(index * mps)
    IN  <<start, atMost(start + mps)>>

(* next_transaction_delay_ms *)
DelayMs(type, interval, retry) ==
    CASE type = "Interrupt" -> interval
      [] type # "Interrupt" /\ retry -> 1
      [] OTHER -> 0
==============================================================================
