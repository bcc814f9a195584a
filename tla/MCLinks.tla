------------------------------- MODULE MCLinks -------------------------------
(* Links for TLC: handlers and codes are interchangeable, and one request   *)
(* at a time is in flight while somebody walks a list.                      *)
EXTENDS Links, TLC
Symmetric == Permutations(Handler) \cup Permutations(Code)
Bounded == paging = "idle" \/ \A g, h \in Handler : pc[g] # "idle" /\ pc[h] # "idle" => g = h
=============================================================================
