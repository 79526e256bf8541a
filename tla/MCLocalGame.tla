----------------------------- MODULE MCLocalGame -----------------------------
(* A small table for TLC. *)
EXTENDS LocalGame

MCDefault == [speed |-> 1, ball |-> 2, paddle |-> 4]

==============================================================================
