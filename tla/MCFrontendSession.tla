-------------------------- MODULE MCFrontendSession --------------------------
(* Instances of FrontendSession for TLC. Without symmetry, for a liveness     *)
(* property is checked together with the others.                              *)
EXTENDS FrontendSession
=============================================================================
