---------------------------- MODULE RetryBackoff ----------------------------
(***************************************************************************)
(* The pure back-off arithmetic of the notification outbox, shared by the  *)
(* delivery state machine and by the module that proves facts about it.    *)
(***************************************************************************)
EXTENDS Integers, FiniteSets

Least(a, b) == IF a <= b THEN a ELSE b

(* int.bit_length(): how many powers of two are at most n.                 *)
BitLength(n) == Cardinality({k \in 0 .. n : 2^k <= n})

(* retry_delay: the initial delay doubled with every attempt, saturated at *)
(* the maximum; the exponent is capped so that no huge integer is built.   *)
BackoffDelay(initial, maximum, attempt) ==
    Least(initial * 2^Least(attempt - 1, BitLength(maximum)), maximum)
=============================================================================
