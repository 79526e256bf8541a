-------------------------- MODULE MCTournamentPages --------------------------
(* A tab with two connections, and a client of another user that sends what it
   likes. *)
EXTENDS TournamentPages, TLC

CONSTANTS u1, u2, a1, a2, b1, tab, t1, t2

MCUsers == {u1, u2}
MCSessions == {a1, a2, b1}
MCUserOf == a1 :> u1 @@ a2 :> u1 @@ b1 :> u2
MCTournaments == {t1, t2}
Alike == Permutations(MCTournaments)
MCTabs == {tab}
MCTabOf == a1 :> tab @@ a2 :> tab @@ b1 :> NoTab

==============================================================================
