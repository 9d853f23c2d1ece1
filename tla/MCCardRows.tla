------------------------------ MODULE MCCardRows ------------------------------
(* Small instances of CardRows for TLC.                                      *)
EXTENDS CardRows, TLC

\* An event type of any kind next to one whose row keeps a state of its own, or
\* next to one whose row follows the alerts.
MCCards ==
  {card \in [Rows -> DOMAIN RowOf] : \E r \in Rows : card[r] \in {"custom", "directPush"}}

Symmetry == Permutations(Rows) \cup Permutations(Calls)
=============================================================================
