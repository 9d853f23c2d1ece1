--------------------------- MODULE MCCardSubscribe ---------------------------
(* Small instances of CardSubscribe for TLC.                                 *)
EXTENDS CardSubscribe, TLC

CONSTANTS n1, n2

MCOrder == <<n1, n2>>

\* Pages with two kinds of events, with either client, for one wallet or several.
Pages(first, second, offered) ==
  {[canary |-> canary, multi |-> multi,
    events |-> (n1 :> first) @@ (n2 :> second), offered |-> offered] :
     canary \in BOOLEAN, multi \in BOOLEAN}

\* With the hook, several wallets where an alert is on them, one on the other card,
\* for which the service lacks a filter.
MCCards ==
  {page \in Pages("walletBalance", "fusionHealthCheck", {n1, n2}) : page.canary \/ page.multi}
  \cup {page \in Pages("tradingPair", "customHealthCheck", {n1}) : page.canary \/ ~page.multi}

Symmetry == Permutations(Flows) \cup Permutations(Emails)
=============================================================================
