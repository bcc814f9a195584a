---------------------------- MODULE MCAccountTable ----------------------------
(* Instances of AccountTable for TLC.                                        *)
EXTENDS AccountTable, TLC

Symmetric == Permutations(Handler) \cup Permutations(Name \ Reserved) \cup Permutations(User)
=============================================================================
