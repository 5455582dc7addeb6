------------------------------- MODULE Backoff -------------------------------
(***************************************************************************)
(* reconnect_delay and scaled_timeout of src/worker.rs: how long a worker  *)
(* waits before it connects again, and how long it lets a message of some  *)
(* length take. Durations are natural numbers of some unit.                *)
(***************************************************************************)
EXTENDS Naturals, Sequences

CONSTANTS
    ReconnectDelay,    \* RECONNECT_DELAY
    MaxReconnectDelay, \* MAX_RECONNECT_DELAY
    Throughput         \* MIN_BULK_THROUGHPUT, in bytes per unit

ASSUME DelayAssumption ==
    /\ ReconnectDelay \in Nat \ {0}
    /\ MaxReconnectDelay \in Nat
    /\ ReconnectDelay <= MaxReconnectDelay
    /\ Throughput \in Nat \ {0}

AtMost(n, cap) == IF n <= cap THEN n ELSE cap
AtLeast(n, floor) == IF n >= floor THEN n ELSE floor

(* quick_failures.saturating_sub(1).min(5)                                 *)
Exponent(failures) == AtMost(IF failures = 0 THEN 0 ELSE failures - 1, 5)

(* 1 << e                                                                  *)
Shift(e) == <<1, 2, 4, 8, 16, 32>>[e + 1]

(* The delay before jitter.                                                *)
Base(failures) == AtMost(ReconnectDelay * Shift(Exponent(failures)), MaxReconnectDelay)

(* The least delay with jitter, rounded up to a unit.                      *)
Shortest(failures) == (Base(failures) + 1) \div 2

(* The jitter multiplies the delay by something from a half to one.        *)
Delays(failures) == Shortest(failures)..Base(failures)

(* The failures that tell delays apart: more of them change nothing.       *)
MaxFailures == 6

(* scaled_timeout: the transfer at the least throughput, rounded up.       *)
Transfer(length) == (length + Throughput - 1) \div Throughput
ScaledTimeout(base, length, cap) == AtLeast(AtMost(base + Transfer(length), cap), base)
=============================================================================
