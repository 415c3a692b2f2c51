---- MODULE MCTransactions ----
(* A small instance of Transactions for TLC. *)
EXTENDS Transactions, TLC

CONSTANTS c1, c2

MCCollections == {c1, c2}
MCPages == {0}
Symmetry == Permutations(MCCollections)
====
