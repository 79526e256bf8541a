------------------------------ MODULE MCBracket ------------------------------
(* Four players for TLC. *)
EXTENDS Bracket

CONSTANTS p1, p2, p3, p4

MCPlayers == {p1, p2, p3, p4}
MCSeeds == <<p1, p2, p3, p4>>

==============================================================================
