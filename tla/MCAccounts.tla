------------------------------ MODULE MCAccounts ------------------------------
(* Accounts for TLC: two spellings of one username. *)
EXTENDS Accounts

CONSTANTS bob, Bob

lowered == [u \in Usernames |-> bob]
=============================================================================
