------------------------------ MODULE MatchLife ------------------------------
(***************************************************************************)
(* What the game server promises of its matches, whoever connects, leaves  *)
(* or loses the connection: a match is prepared, then played or given up;  *)
(* a match that is played is decided once, for one of its two sides, and   *)
(* nothing happens to it afterwards.                                       *)
(***************************************************************************)
CONSTANT Matches

VARIABLES
    stage,      \* stage[m] of a match
    verdict     \* verdict[m]: the side a decided match went to, 0 before

Sides == {1, 2}

Init ==
    /\ stage = [m \in Matches |-> "none"]
    /\ verdict = [m \in Matches |-> 0]

Move(m, from, to) ==
    /\ stage[m] = from
    /\ stage' = [stage EXCEPT ![m] = to]

Prepare(m) == Move(m, "none", "pending") /\ UNCHANGED verdict
Start(m) == Move(m, "pending", "playing") /\ UNCHANGED verdict
GiveUp(m) == Move(m, "pending", "completed") /\ UNCHANGED verdict
Decide(m) ==
    /\ Move(m, "playing", "completed")
    /\ \E side \in Sides : verdict' = [verdict EXCEPT ![m] = side]

Next == \E m \in Matches : Prepare(m) \/ Start(m) \/ GiveUp(m) \/ Decide(m)

Spec == Init /\ [][Next]_<<stage, verdict>>

==============================================================================
