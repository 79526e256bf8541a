---------------------------- MODULE MCMatchmaking ----------------------------
(* Three users for TLC; the first may connect twice, one connection after the
   other. *)
EXTENDS MatchHistory, TLC

CONSTANTS u1, u2, u3, a1, a2, b1, c1

MCUsers == {u1, u2, u3}
MCSessions == {a1, a2, b1, c1}
MCUserOf == a1 :> u1 @@ a2 :> u1 @@ b1 :> u2 @@ c1 :> u3

(* The second user and the third are alike, and so are the two connections of
   the first. *)
Along(p) ==
    [x \in MCSessions \cup MCUsers |->
        IF x \in MCSessions THEN p[x]
        ELSE MCUserOf[p[CHOOSE s \in MCSessions : MCUserOf[s] = x]]]

MCSymmetry ==
    {Along(p) : p \in {q \in Permutations(MCSessions) : {q[a1], q[a2]} = {a1, a2}}}

(* Bounds: three of the connections are made, and there is one match or one
   row of a tournament when two of them are those of the first user. *)
MCBound ==
    /\ \E s \in MCSessions : conn[s] = "new"
    /\ Work <= 1 \/ \E s \in {a1, a2} : conn[s] = "new"

==============================================================================
