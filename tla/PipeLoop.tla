------------------------------- MODULE PipeLoop -------------------------------
(***************************************************************************)
(* What request_in and request_out of a bulk or interrupt pipe share: the  *)
(* wait until a transaction is due, the checks, one transaction on the     *)
(* wire, and what its result makes of the call.  A NAK is retried for as   *)
(* long as the device NAKs, a missing answer RetryLimit times.  A caller   *)
(* may drop the future at every .await.  The engine mutex and the port's   *)
(* generations are module HostState's: here a pipe is valid or not.        *)
(***************************************************************************)
EXTENDS PacketRules

CONSTANTS
    Type,           \* endpoint.ep_type
    Mps,            \* endpoint.max_packet_size
    Interval,       \* endpoint.interval_ms, at least 1
    RetryLimit,     \* NON_RESPONSE_RETRY_LIMIT
    Cancellable     \* callers drop the futures of transfers

ASSUME EndpointAssumption ==
    /\ Type \in {"Bulk", "Interrupt"}
    /\ Mps \in Nat \ {0}
    /\ Interval \in Nat \ {0}
    /\ RetryLimit \in Nat \ {0}
    /\ Cancellable \in BOOLEAN

VARIABLES
    valid,      \* check_valid holds
    pc,         \* where the call is
    toggle,     \* data_toggle
    result,     \* the result of the last transaction, until it is matched
    noResponse, \* no_response_count
    wait,       \* milliseconds to next_transaction
    outcome,    \* what the last call returned
    since,      \* history: milliseconds since the last transaction, if few
    owed,       \* history: milliseconds the device is to be left alone
    silence     \* history: transactions in a row without an answer

timing == <<wait, since, owed>>
loop == <<valid, pc, result, noResponse, outcome, timing, silence>>

LoopInit ==
    /\ valid = TRUE
    /\ pc = "idle"
    /\ toggle = "DATA0"
    /\ result = "none"
    /\ noResponse = 0
    /\ wait = 0
    /\ outcome = "none"
    /\ since = Interval
    /\ owed = 0
    /\ silence = 0

Capped(n, most) == IF n < most THEN n ELSE most

(* The device is detached or reset: the pipe is never valid again.         *)
Invalidate ==
    /\ valid
    /\ valid' = FALSE
    /\ UNCHANGED <<pc, result, noResponse, outcome, timing, silence>>

(* A millisecond passes.                                                   *)
Tick ==
    /\ wait > 0 \/ since < Interval
    /\ wait' = IF wait > 0 THEN wait - 1 ELSE 0
    /\ since' = Capped(since + 1, Interval)
    /\ UNCHANGED <<valid, pc, result, noResponse, outcome, owed, silence>>

Begin ==
    /\ pc = "idle"
    /\ pc' = "due"
    /\ noResponse' = 0
    /\ result' = "none"
    /\ outcome' = "none"
    /\ UNCHANGED <<valid, timing, silence>>

(* Nothing has been scheduled for the call that ends like this.            *)
Fail(reason) ==
    /\ pc' = "idle"
    /\ outcome' = reason
    /\ result' = "none"
    /\ owed' = IF pc = "service" THEN 0 ELSE owed
    /\ UNCHANGED <<valid, noResponse, wait, since, silence>>

(* wait_until_transaction_due and check_valid, before and after the lock   *)
Due ==
    /\ pc = "due"
    /\ wait = 0
    /\ IF valid
       THEN pc' = "wire" /\ UNCHANGED <<valid, result, noResponse, outcome, timing, silence>>
       ELSE Fail("disconnected")

(* A transaction: what came back, or did not.  "failed": the engine gave    *)
(* it up, since a frame marker, the edge detector or the end of a packet   *)
(* it sent did not come in time.                                           *)
Attempt(found) ==
    /\ pc = "wire"
    /\ pc' = "service"
    /\ result' = found
    /\ since' = 0
    /\ owed' = CASE Type = "Interrupt" -> Interval
                 [] Type # "Interrupt" /\ found \in {"nak", "noResponse"} -> 1
                 [] OTHER -> 0
    /\ silence' = IF found = "noResponse" THEN Capped(silence + 1, RetryLimit) ELSE 0
    /\ UNCHANGED <<valid, noResponse, outcome, wait>>

Gone == pc = "service" /\ ~valid /\ Fail("disconnected")

(* A device that stalls, an answer that is not a packet, or the engine's   *)
(* own failure, which is a timeout at once: `result?`                      *)
Broken ==
    /\ pc = "service"
    /\ valid
    /\ \/ result = "stall" /\ Fail("stall")
       \/ result = "invalid" /\ Fail("badResponse")
       \/ result = "failed" /\ Fail("timeout")

Again(count) ==
    /\ pc' = "due"
    /\ noResponse' = count
    /\ result' = "none"
    /\ wait' = DelayMs(Type, Interval, TRUE)
    /\ UNCHANGED <<valid, outcome, since, owed, silence>>

Naked ==
    /\ pc = "service"
    /\ valid
    /\ result = "nak"
    /\ Again(0)

(* Mutated form: the retries are not limited.                              *)
UnansweredForever ==
    /\ pc = "service"
    /\ valid
    /\ result = "noResponse"
    /\ Again(0)

Unanswered ==
    /\ pc = "service"
    /\ valid
    /\ result = "noResponse"
    /\ IF noResponse + 1 >= RetryLimit
       THEN Fail("timeout")
       ELSE Again(noResponse + 1)

(* One packet is through: schedule_after_attempt(false), then the next     *)
(* packet with a count of its own, or the return.                          *)
Through(last) ==
    /\ pc = "service"
    /\ valid
    /\ result = "done"
    /\ pc' = IF last THEN "idle" ELSE "due"
    /\ outcome' = IF last THEN "ok" ELSE outcome
    /\ noResponse' = 0
    /\ result' = "none"
    /\ wait' = DelayMs(Type, Interval, FALSE)
    /\ UNCHANGED <<valid, since, owed, silence>>

(* The future is dropped at an .await: waiting for the time, the engine or *)
(* the start of the frame, or in service_frame after the transaction.      *)
Cancel ==
    /\ Cancellable
    /\ pc # "idle"
    /\ Fail("cancelled")

LoopTypeOK ==
    /\ valid \in BOOLEAN
    /\ pc \in {"idle", "due", "wire", "service"}
    /\ result \in {"none", "done", "nak", "noResponse", "stall", "invalid", "failed"}
    /\ noResponse \in 0 .. RetryLimit - 1
    /\ wait \in 0 .. Interval
    /\ outcome \in {"none", "ok", "disconnected", "stall", "badResponse", "timeout",
                    "cancelled"}
    /\ since \in 0 .. Interval
    /\ owed \in 0 .. Interval
    /\ silence \in 0 .. RetryLimit

(* The unanswered transactions a call has counted were unanswered in a row.*)
Counted ==
    /\ pc \in {"due", "wire"} => noResponse <= silence
    /\ pc = "service" /\ result = "noResponse" => noResponse + 1 <= silence
    /\ result # "none" <=> pc = "service"

(* The time that is still to be waited covers what the device is owed.     *)
Paced ==
    /\ pc # "service" => owed <= since + wait
    /\ pc = "wire" => wait = 0
    /\ pc = "service" =>
          owed = CASE Type = "Interrupt" -> Interval
                   [] Type # "Interrupt" /\ result \in {"nak", "noResponse"} -> 1
                   [] OTHER -> 0

LoopInv == LoopTypeOK /\ Counted /\ Paced
==============================================================================
