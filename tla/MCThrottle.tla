----------------------------- MODULE MCThrottle -----------------------------
(* Throttle for TLC: requests are interchangeable. *)
EXTENDS Throttle, TLC
Symmetric == Permutations(Caller)
=============================================================================
