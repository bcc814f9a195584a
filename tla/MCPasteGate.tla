------------------------------ MODULE MCPasteGate ------------------------------
(* PasteGate with one author and one other reader. *)
EXTENDS PasteGate, TLC

MCSymmetry == Permutations(Handler) \cup Permutations(PasteId)
=============================================================================
