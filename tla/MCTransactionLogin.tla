------------------------- MODULE MCTransactionLogin -------------------------
(* Instances of TransactionLogin for TLC: the calls are interchangeable.     *)
EXTENDS TransactionLogin, TLC

CallSymmetry == Permutations(Calls)
=============================================================================
