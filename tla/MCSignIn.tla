------------------------------ MODULE MCSignIn ------------------------------
(* SignIn for TLC: requests are alike. *)
EXTENDS SignIn, TLC

Symmetric == Permutations(Handler)
=============================================================================
