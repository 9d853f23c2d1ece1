---------------------------- MODULE MCTenantClient ----------------------------
(* Small instances of TenantClient for TLC.                                  *)
EXTENDS TenantClient, TLC

Symmetry == Permutations(Calls) \cup Permutations(Tokens) \cup Permutations(Headers)
=============================================================================
