------------------------------ MODULE MCFriends ------------------------------
(* Two users, two rows each of the tables. *)
EXTENDS Friends, TLC

CONSTANTS ada, bob

MCUsers == {ada, bob}
Symmetric == Permutations(MCUsers)
=============================================================================
