---------------------------- MODULE MCFetchCache ----------------------------
(* A small instance of FetchCache for TLC. No symmetry: the run also checks  *)
(* a liveness property.                                                      *)
EXTENDS FetchCache

=============================================================================
