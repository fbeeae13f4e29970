-------------------------- MODULE MCTransactions --------------------------
(* Transactions with small sets.  Objects, rows and callbacks are          *)
(* interchangeable.                                                        *)
EXTENDS Transactions, TLC

Symmetry ==
  Permutations(Object) \union Permutations(Change) \union Permutations(Callback)
=============================================================================
