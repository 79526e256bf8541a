---------------------------- MODULE MCOnlineGame -----------------------------
(* Two players on a very small board for TLC; one of them presses keys. *)
EXTENDS OnlineGame

CONSTANTS ann, bob

MCTabs == {ann, bob}
MCTypists == {ann}

==============================================================================
