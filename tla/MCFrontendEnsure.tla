-------------------------- MODULE MCFrontendEnsure --------------------------
(* Small instances of FrontendEnsure for TLC.                                *)
EXTENDS FrontendEnsure, TLC

Symmetry == Permutations(Tasks) \cup Permutations(Options) \cup Permutations(Values) \cup Permutations(Addresses)
=============================================================================
