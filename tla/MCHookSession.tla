--------------------------- MODULE MCHookSession ---------------------------
(* Small instances of HookSession for TLC.                                   *)
EXTENDS HookSession, TLC

Symmetry == Permutations(Wallets) \cup Permutations(Tasks)

=============================================================================
