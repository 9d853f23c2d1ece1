----------------------------- MODULE MCCardChat -----------------------------
(* Small instances of CardChat for TLC.                                      *)
EXTENDS CardChat

=============================================================================
