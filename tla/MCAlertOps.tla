----------------------------- MODULE MCAlertOps -----------------------------
(* Small instances of AlertOps for TLC.                                      *)
EXTENDS AlertOps, TLC

Symmetry == Permutations(Ops) \cup Permutations(Names) \cup Permutations(Values)

=============================================================================
