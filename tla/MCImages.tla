------------------------------ MODULE MCImages ------------------------------
(* Images for TLC.  The properties over time leave no room for symmetry.    *)
EXTENDS Images
=============================================================================
