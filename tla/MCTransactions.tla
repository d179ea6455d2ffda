--------------------------- MODULE MCTransactions ---------------------------
(* Small instances of Transactions for TLC *)
EXTENDS TransactionPages, TLC

\* users, transaction ids and handler slots are interchangeable
Symmetry ==
    Permutations(Users) \union Permutations(TransactionIds) \union Permutations(Slots)
=============================================================================
