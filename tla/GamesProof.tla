------------------------------ MODULE GamesProof -----------------------------
(***************************************************************************)
(* Theorems about the games: Matchmaking, for any number of users,         *)
(* connections and matches, MatchHistory, which extends it, and LocalGame, *)
(* for all sizes of the table and all settings within TableAssumption.     *)
(***************************************************************************)
EXTENDS MatchHistory, LocalGame, SequenceTheorems, FiniteSetTheorems, TLAPS

(***************************************************************************)
(* Matchmaking.  The heart is MatchIdIsOwn: endMatch is called by a player *)
(* that has just become idle, for the match its matchId names, so as long  *)
(* as that match is its own, one player at most is not idle and wins.      *)
(***************************************************************************)

(* A match exists from its number on, its timer is set while it is prepared,
   and it has no result before it is over. *)
StagesAgree ==
    \A m \in Matches :
        /\ stage[m] = "none" <=> next <= m
        /\ stage[m] = "none" => player[m] = [k \in Sides |-> Nobody]
        /\ m \in active => stage[m] # "none"
        /\ armed[m] => stage[m] = "pending"
        /\ stage[m] # "completed" => \A k \in Sides : results[m][k] = 0

PlayersExist ==
    \A m \in Matches : stage[m] # "none" =>
        \A k \in Sides : player[m][k] \in Sessions

IInv ==
    /\ TypeOK
    /\ StagesAgree
    /\ PlayersExist
    /\ MatchIdIsOwn
    /\ LiveMatchesAreActive
    /\ OneResultPerMatch
    /\ WaitersArePaired

LEMMA InitHolds == Init => IInv
<1> SUFFICES ASSUME Init PROVE IInv
  OBVIOUS
<1> USE ConstantsAssumption DEF Init
<1>1. TypeOK
  BY DEF TypeOK, Matches, NoMatch
<1>2. StagesAgree /\ PlayersExist
  BY DEF StagesAgree, PlayersExist, Matches
<1>3. MatchIdIsOwn /\ LiveMatchesAreActive
  BY DEF MatchIdIsOwn, LiveMatchesAreActive, Live
<1>4. OneResultPerMatch
  BY DEF OneResultPerMatch, Sides
<1>5. WaitersArePaired
  BY DEF WaitersArePaired
<1> QED BY <1>1, <1>2, <1>3, <1>4, <1>5 DEF IInv

(* A new match of two connections. *)
LEMMA NewMatchStep ==
    ASSUME IInv, NEW a \in Sessions, NEW b \in Sessions, NewMatch(a, b),
           queue' \in Seq(Sessions), Len(queue') <= 1, conn' = conn
    PROVE  IInv'
<1> USE DEF NewMatch
<1> DEFINE pair == [k \in Sides |-> IF k = 1 THEN a ELSE b]
<1>1. /\ next \in Matches /\ stage[next] = "none"
      /\ player'[next] = pair /\ player'[next] \in [Sides -> Sessions]
  BY ConstantsAssumption DEF IInv, TypeOK, StagesAgree, Matches
<1>2. TypeOK'
  <2>1. /\ status' \in [Sessions -> {"idle", "matched"}]
        /\ matchId' \in [Sessions -> {NoMatch} \cup Matches]
    BY <1>1 DEF IInv, TypeOK
  <2>2. next' \in 1..(MaxMatches + 1) /\ active' \subseteq Matches
    BY <1>1, ConstantsAssumption DEF IInv, TypeOK, Matches
  <2>3. player' \in [Matches -> [Sides -> Sessions \cup {Nobody}]]
    <3>1. pair \in [Sides -> Sessions \cup {Nobody}]
      OBVIOUS
    <3>2. player' = [player EXCEPT ![next] = pair]
      OBVIOUS
    <3> HIDE DEF pair
    <3> QED BY <3>1, <3>2 DEF IInv, TypeOK
  <2>4. /\ stage' \in [Matches -> {"none", "pending", "playing", "completed"}]
        /\ armed' \in [Matches -> BOOLEAN]
    BY <1>1 DEF IInv, TypeOK
  <2> QED BY <2>1, <2>2, <2>3, <2>4 DEF IInv, TypeOK
<1>3. StagesAgree'
  BY <1>1 DEF IInv, TypeOK, StagesAgree, Matches
<1>4. PlayersExist'
  BY <1>1 DEF IInv, TypeOK, PlayersExist
<1>5. MatchIdIsOwn'
  <2> SUFFICES ASSUME NEW s \in Sessions, matchId'[s] # NoMatch
               PROVE  \E k \in Sides : player'[matchId'[s]][k] = s
    BY DEF MatchIdIsOwn
  <2>1. CASE s \in {a, b}
    <3>1. matchId'[s] = next
      BY <2>1 DEF IInv, TypeOK
    <3>2. pair[1] = a /\ pair[2] = b /\ 1 \in Sides /\ 2 \in Sides
      BY DEF Sides
    <3> QED BY <1>1, <2>1, <3>1, <3>2
  <2>2. CASE s \notin {a, b}
    <3>1. matchId'[s] = matchId[s] /\ matchId[s] \in Matches
      BY <2>2 DEF IInv, TypeOK
    <3>2. PICK k \in Sides : player[matchId[s]][k] = s
      BY <3>1 DEF IInv, MatchIdIsOwn
    <3>3. matchId[s] # next
      BY <1>1, <3>2, ConstantsAssumption DEF IInv, StagesAgree
    <3>4. player'[matchId[s]] = player[matchId[s]]
      BY <3>1, <3>3 DEF IInv, TypeOK
    <3> QED BY <3>1, <3>2, <3>4
  <2> QED BY <2>1, <2>2
<1>6. LiveMatchesAreActive'
  BY <1>1 DEF IInv, TypeOK, LiveMatchesAreActive, Live
<1>7. OneResultPerMatch'
  BY DEF IInv, OneResultPerMatch
<1>8. WaitersArePaired'
  BY DEF WaitersArePaired
<1> QED BY <1>2, <1>3, <1>4, <1>5, <1>6, <1>7, <1>8 DEF IInv

LEMMA MatchmakeStep ==
    ASSUME IInv, NEW s \in Sessions, Matchmake(s) PROVE IInv'
<1> DEFINE waiting == Append(queue, s)
<1>1. waiting \in Seq(Sessions) /\ Len(waiting) \in {1, 2}
  <2>1. queue \in Seq(Sessions) /\ Len(queue) \in Nat /\ Len(queue) <= 1
    BY LenProperties DEF IInv, TypeOK, WaitersArePaired
  <2>2. waiting \in Seq(Sessions) /\ Len(waiting) = Len(queue) + 1
    BY <2>1, AppendProperties
  <2> QED BY <2>1, <2>2
<1>2. CASE Len(waiting) >= 2
  <2>1. NewMatch(waiting[1], waiting[2]) /\ queue' = Tail(Tail(waiting))
        /\ conn' = conn
    BY <1>2 DEF Matchmake
  <2>2. waiting[1] \in Sessions /\ waiting[2] \in Sessions
    BY <1>1, <1>2
  <2>3. Tail(waiting) \in Seq(Sessions) /\ Len(Tail(waiting)) = 1
    <3>1. waiting # <<>> /\ Len(waiting) = 2
      BY <1>1, <1>2
    <3> HIDE DEF waiting
    <3> QED BY <1>1, <3>1, HeadTailProperties
  <2>4. Tail(Tail(waiting)) \in Seq(Sessions) /\ Len(Tail(Tail(waiting))) = 0
    <3> DEFINE rest == Tail(waiting)
    <3> HIDE DEF waiting
    <3>1. rest \in Seq(Sessions) /\ Len(rest) = 1
      BY <2>3
    <3> HIDE DEF rest
    <3>2. rest # <<>>
      BY <3>1, EmptySeq
    <3>3. Tail(rest) \in Seq(Sessions) /\ Len(Tail(rest)) = 0
      BY <3>1, <3>2, HeadTailProperties
    <3> QED BY <3>3 DEF rest
  <2> QED BY <2>1, <2>2, <2>4, NewMatchStep
<1>3. CASE ~(Len(waiting) >= 2)
  <2>1. /\ queue' = waiting
        /\ UNCHANGED <<conn, status, matchId, matchVars>>
    BY <1>3 DEF Matchmake
  <2> QED
    BY <1>1, <1>3, <2>1 DEF IInv, TypeOK, StagesAgree, PlayersExist,
       MatchIdIsOwn, LiveMatchesAreActive, Live, OneResultPerMatch,
       WaitersArePaired, matchVars
<1> QED BY <1>2, <1>3

LEMMA GoalStep ==
    ASSUME IInv, NEW m \in Matches, NEW k \in Sides, Goal(m, k) PROVE IInv'
<1> USE DEF Goal, playerVars
<1> DEFINE row(f) == [f[m] EXCEPT ![k] = @ + 1]
<1>1. ASSUME NEW f \in [Matches -> [Sides -> Nat]]
      PROVE  /\ row(f) \in [Sides -> Nat]
             /\ [f EXCEPT ![m] = row(f)] \in [Matches -> [Sides -> Nat]]
  OBVIOUS
<1>2. /\ goals' = [goals EXCEPT ![m] = row(goals)]
      /\ results' \in {results, [results EXCEPT ![m] = row(results)]}
      /\ stage'[m] # "completed" => results' = results
  BY DEF IInv, TypeOK
<1>3. \A l \in Sides : results[m][l] = 0
  BY DEF IInv, StagesAgree
<1>4. TypeOK'
  <2>1. goals' \in [Matches -> [Sides -> Nat]]
        /\ results' \in [Matches -> [Sides -> Nat]]
    <3>1. goals \in [Matches -> [Sides -> Nat]]
          /\ results \in [Matches -> [Sides -> Nat]]
      BY DEF IInv, TypeOK
    <3>2. [goals EXCEPT ![m] = row(goals)] \in [Matches -> [Sides -> Nat]]
          /\ [results EXCEPT ![m] = row(results)]
                \in [Matches -> [Sides -> Nat]]
      BY <1>1, <3>1
    <3> HIDE DEF row
    <3> QED BY <1>2, <3>1, <3>2
  <2> QED BY <2>1 DEF IInv, TypeOK
<1>7. StagesAgree' /\ PlayersExist'
  <2>1. \A n \in Matches : n # m => results'[n] = results[n]
    <3> HIDE DEF row
    <3> QED BY <1>2 DEF IInv, TypeOK
  <2>2. \A n \in Matches : n # m => stage'[n] = stage[n]
    BY DEF IInv, TypeOK
  <2>3. stage'[m] # "none" /\ stage[m] = "playing"
    BY DEF IInv, TypeOK
  <2>4. stage'[m] # "completed" => results'[m] = results[m]
    BY <1>2
  <2> HIDE DEF row
  <2>5. StagesAgree'
    BY <2>1, <2>2, <2>3, <2>4 DEF IInv, StagesAgree
  <2>6. PlayersExist'
    BY <2>2, <2>3 DEF IInv, PlayersExist
  <2> QED BY <2>5, <2>6
<1>5. MatchIdIsOwn' /\ LiveMatchesAreActive' /\ WaitersArePaired'
  BY DEF IInv, TypeOK, MatchIdIsOwn, LiveMatchesAreActive, Live,
     WaitersArePaired
<1>6. OneResultPerMatch'
  <2> SUFFICES ASSUME NEW n \in Matches
               PROVE  results'[n][1] + results'[n][2] <= 1
    BY DEF OneResultPerMatch
  <2>1. CASE results'[n] = results[n]
    BY <2>1 DEF IInv, OneResultPerMatch
  <2>2. CASE results' = [results EXCEPT ![m] = row(results)] /\ n = m
    <3>1. results'[n] = row(results)
      BY <2>2 DEF IInv, TypeOK
    <3>2. row(results)[1] + row(results)[2] = 1
      BY <1>3 DEF IInv, TypeOK, Sides
    <3> QED BY <3>1, <3>2
  <2> HIDE DEF row
  <2> QED BY <1>2, <2>1, <2>2 DEF IInv, TypeOK
<1> QED BY <1>4, <1>5, <1>6, <1>7 DEF IInv

LEMMA TimerStep ==
    ASSUME IInv, NEW m \in Matches, TimerFires(m) PROVE IInv'
<1> USE DEF TimerFires, playerVars
<1>1. TypeOK'
  BY DEF IInv, TypeOK
<1>2. StagesAgree' /\ PlayersExist'
  BY DEF IInv, TypeOK, StagesAgree, PlayersExist
<1>3. MatchIdIsOwn' /\ LiveMatchesAreActive'
  BY DEF IInv, TypeOK, StagesAgree, MatchIdIsOwn, LiveMatchesAreActive, Live
<1>4. OneResultPerMatch' /\ WaitersArePaired'
  BY DEF IInv, OneResultPerMatch, WaitersArePaired
<1> QED BY <1>1, <1>2, <1>3, <1>4 DEF IInv

(* endMatch gives a match to one player at most: the one that leaves is
   idle and plays in it. *)
LEMMA OneStays ==
    ASSUME IInv, NEW s \in Sessions, matchId[s] \in active,
           NEW st, st[s] = "idle"
    PROVE  Stayers(matchId[s], st) \in {{}, {1}, {2}}
<1>0. matchId[s] # NoMatch
  BY ConstantsAssumption DEF IInv, TypeOK, Matches, NoMatch
<1>1. PICK k \in Sides : player[matchId[s]][k] = s
  BY <1>0 DEF IInv, MatchIdIsOwn
<1>2. k \notin Stayers(matchId[s], st)
  BY <1>1 DEF Stayers
<1>3. Stayers(matchId[s], st) \subseteq {1, 2} \ {k} /\ k \in {1, 2}
  BY <1>2 DEF Stayers, Sides
<1> QED BY <1>3

LEMMA WalkoverStep ==
    ASSUME IInv, NEW s \in Sessions, matchId[s] \in active,
           NEW st \in [Sessions -> {"idle", "matched"}], st[s] = "idle",
           Walkover(matchId[s], st),
           conn' \in [Sessions -> {"new", "online", "gone"}]
    PROVE  IInv'
<1> DEFINE m == matchId[s]
           stay == Stayers(m, st)
           row == [k \in Sides |-> IF k \in stay THEN results[m][k] + 1
                                                 ELSE results[m][k]]
<1>1. m \in Matches /\ stage[m] = "playing"
  BY DEF IInv, TypeOK, Walkover
<1>2. stay \in {{}, {1}, {2}}
  BY OneStays
<1>3. \A k \in Sides : results[m][k] = 0
  BY <1>1 DEF IInv, StagesAgree
<1>4. /\ status' = st
      /\ UNCHANGED <<matchId, queue, next, active, player, armed>>
  BY DEF Walkover
<1>5. CASE stay = {}
  <2>1. UNCHANGED <<stage, goals, results>>
    BY <1>5 DEF Walkover
  <2> QED
    BY <1>4, <2>1 DEF IInv, TypeOK, StagesAgree, PlayersExist, MatchIdIsOwn,
       LiveMatchesAreActive, Live, OneResultPerMatch, WaitersArePaired
<1>6. CASE stay # {}
  <2>1. /\ stage' = [stage EXCEPT ![m] = "completed"]
        /\ goals' = [goals EXCEPT ![m] =
               [k \in Sides |-> IF k = IF 2 \in stay THEN 2 ELSE 1
                                THEN 3 ELSE 0]]
        /\ results' = [results EXCEPT ![m] = row]
    BY <1>6 DEF Walkover
  <2>2. row \in [Sides -> Nat] /\ row[1] + row[2] <= 1
    BY <1>2, <1>3, <1>6 DEF Sides
  <2>3. TypeOK'
    <3>1. goals' \in [Matches -> [Sides -> Nat]]
      BY <2>1 DEF IInv, TypeOK
    <3>2. results' \in [Matches -> [Sides -> Nat]]
      <4> HIDE DEF row
      <4> QED BY <2>1, <2>2 DEF IInv, TypeOK
    <3> HIDE DEF row, stay
    <3> QED BY <1>4, <2>1, <3>1, <3>2 DEF IInv, TypeOK
  <2> HIDE DEF row, stay
  <2>4. \A n \in Matches : n # m =>
            results'[n] = results[n] /\ stage'[n] = stage[n]
    BY <2>1 DEF IInv, TypeOK
  <2>5. stage'[m] = "completed" /\ results'[m] = row
    BY <1>1, <2>1 DEF IInv, TypeOK
  <2>6. StagesAgree' /\ PlayersExist'
    BY <1>1, <1>4, <2>4, <2>5 DEF IInv, StagesAgree, PlayersExist
  <2>7. MatchIdIsOwn' /\ LiveMatchesAreActive' /\ WaitersArePaired'
    BY <1>4, <2>4, <2>5 DEF IInv, MatchIdIsOwn, LiveMatchesAreActive, Live,
       WaitersArePaired
  <2>8. OneResultPerMatch'
    BY <2>2, <2>4, <2>5 DEF IInv, OneResultPerMatch
  <2> QED BY <2>3, <2>6, <2>7, <2>8 DEF IInv
<1> QED BY <1>5, <1>6

LEMMA AbandonStep ==
    ASSUME IInv, NEW m \in active,
           NEW st \in [Sessions -> {"idle", "matched"}],
           Abandon(m, st),
           conn' \in [Sessions -> {"new", "online", "gone"}]
    PROVE  IInv'
<1> USE DEF Abandon
<1>1. m \in Matches /\ stage[m] # "none" /\ stage[m] # "playing"
      /\ player[m][1] \in Sessions /\ player[m][2] \in Sessions
  BY DEF IInv, TypeOK, StagesAgree, PlayersExist, Sides
<1>2. TypeOK'
  BY <1>1 DEF IInv, TypeOK
<1>3. \A n \in Matches : n # m =>
          stage'[n] = stage[n] /\ armed'[n] = armed[n] /\ (n \in active' <=> n \in active)
  BY <1>1 DEF IInv, TypeOK
<1>4. stage'[m] = "completed" /\ ~armed'[m] /\ m \notin active'
  BY <1>1 DEF IInv, TypeOK
<1>5. StagesAgree' /\ PlayersExist'
  BY <1>1, <1>3, <1>4 DEF IInv, StagesAgree, PlayersExist
<1>6. MatchIdIsOwn'
  <2>1. \A s \in Sessions : matchId'[s] \in {NoMatch, matchId[s]}
    BY <1>1 DEF IInv, TypeOK
  <2> QED BY <2>1 DEF IInv, MatchIdIsOwn
<1>7. LiveMatchesAreActive'
  BY <1>3, <1>4 DEF IInv, LiveMatchesAreActive, Live
<1>8. OneResultPerMatch' /\ WaitersArePaired'
  BY DEF IInv, OneResultPerMatch, WaitersArePaired
<1> QED BY <1>2, <1>5, <1>6, <1>7, <1>8 DEF IInv

LEMMA LeavesStep ==
    ASSUME IInv, NEW s \in Sessions,
           PlayerLeaves(s, [status EXCEPT ![s] = "idle"]),
           conn' \in [Sessions -> {"new", "online", "gone"}]
    PROVE  IInv'
<1> DEFINE st == [status EXCEPT ![s] = "idle"]
<1>1. st \in [Sessions -> {"idle", "matched"}] /\ st[s] = "idle"
  BY DEF IInv, TypeOK
<1> HIDE DEF st
<1>2. CASE matchId[s] \in active
  <2>1. Walkover(matchId[s], st) \/ Abandon(matchId[s], st)
    BY <1>2 DEF PlayerLeaves, st
  <2> QED BY <1>1, <1>2, <2>1, WalkoverStep, AbandonStep
<1>3. CASE matchId[s] \notin active
  <2>1. status' = st /\ UNCHANGED <<matchId, queue, matchVars>>
    BY <1>3 DEF PlayerLeaves, st
  <2> QED
    BY <1>1, <2>1 DEF IInv, TypeOK, StagesAgree, PlayersExist, MatchIdIsOwn,
       LiveMatchesAreActive, Live, OneResultPerMatch, WaitersArePaired,
       matchVars
<1> QED BY <1>2, <1>3

LEMMA Inductive == IInv /\ [Next]_vars => IInv'
<1> SUFFICES ASSUME IInv, [Next]_vars PROVE IInv'
  OBVIOUS
<1>1. ASSUME NEW s \in Sessions, Connect(s) PROVE IInv'
  BY <1>1 DEF Connect, IInv, TypeOK, StagesAgree, PlayersExist, MatchIdIsOwn,
     LiveMatchesAreActive, Live, OneResultPerMatch, WaitersArePaired,
     matchVars
<1>2. ASSUME NEW s \in Sessions, Matchmake(s) PROVE IInv'
  BY <1>2, MatchmakeStep
<1>3. ASSUME NEW s \in Sessions, ImLeft(s) PROVE IInv'
  <2>1. conn' \in [Sessions -> {"new", "online", "gone"}]
    BY <1>3 DEF ImLeft, LeaveAs, IInv, TypeOK
  <2> QED BY <1>3, <2>1, LeavesStep DEF ImLeft, LeaveAs
<1>4. ASSUME NEW s \in Sessions, Disconnect(s) PROVE IInv'
  <2>1. conn' \in [Sessions -> {"new", "online", "gone"}]
    BY <1>4 DEF Disconnect, IInv, TypeOK
  <2> QED BY <1>4, <2>1, LeavesStep DEF Disconnect
<1>5. ASSUME NEW s \in Sessions, NEW t \in Sessions, Challenge(s, t)
      PROVE  IInv'
  <2>1. queue' \in Seq(Sessions) /\ Len(queue') <= 1
    BY <1>5 DEF Challenge, IInv, TypeOK, WaitersArePaired
  <2> QED BY <1>5, <2>1, NewMatchStep DEF Challenge
<1>6. ASSUME NEW m \in Matches, TimerFires(m) PROVE IInv'
  BY <1>6, TimerStep
<1>7. ASSUME NEW m \in Matches, NEW k \in Sides, Goal(m, k) PROVE IInv'
  BY <1>7, GoalStep
<1>8. CASE UNCHANGED vars
  BY <1>8 DEF vars, playerVars, matchVars, IInv, TypeOK, StagesAgree,
     PlayersExist, MatchIdIsOwn, LiveMatchesAreActive, Live,
     OneResultPerMatch, WaitersArePaired
<1> QED
  BY <1>1, <1>2, <1>3, <1>4, <1>5, <1>6, <1>7, <1>8 DEF Next

LEMMA Invariance == Spec => []IInv
  BY InitHolds, Inductive, PTL DEF Spec

(* Every variable of the server stays in its range. *)
THEOREM TypeCorrect == Spec => []TypeOK
<1>1. IInv => TypeOK
  BY DEF IInv
<1> QED BY Invariance, <1>1, PTL

(* endMatch and match_someOneWins together write one row of Games for a match
   at most. *)
THEOREM OneResult == Spec => []OneResultPerMatch
<1>1. IInv => OneResultPerMatch
  BY DEF IInv
<1> QED BY Invariance, <1>1, PTL

(* The match that a player's matchId names is one it plays in. *)
THEOREM OwnMatch == Spec => []MatchIdIsOwn
<1>1. IInv => MatchIdIsOwn
  BY DEF IInv
<1> QED BY Invariance, <1>1, PTL

(* activeMatches has every match that is prepared or played. *)
THEOREM LiveIsActive == Spec => []LiveMatchesAreActive
<1>1. IInv => LiveMatchesAreActive
  BY DEF IInv
<1> QED BY Invariance, <1>1, PTL

(* tryMatch leaves one player in the queue at most. *)
THEOREM Paired == Spec => []WaitersArePaired
<1>1. IInv => WaitersArePaired
  BY DEF IInv
<1> QED BY Invariance, <1>1, PTL

----------------------------------------------------------------------------
(* The steps of a match. *)

LEMMA LifeUnchanged ==
    ASSUME stage' = stage, results' = results
    PROVE  UNCHANGED <<stage, [m \in Matches |-> Verdict(m)]>>
<1>1. \A m \in Matches : Verdict(m)' = Verdict(m)
  BY DEF Verdict
<1> QED BY <1>1

(* What a step must do to one match for Life: anything but a decision. *)
LEMMA LifeMoves ==
    ASSUME IInv, NEW m \in Matches, NEW to,
           stage' = [stage EXCEPT ![m] = to], results' = results,
           \/ stage[m] = "none" /\ to = "pending"
           \/ stage[m] = "pending" /\ to \in {"playing", "completed"}
           \/ stage[m] = "completed" /\ to = "completed"
    PROVE  [Life!Next]_<<stage, [n \in Matches |-> Verdict(n)]>>
<1>1. [n \in Matches |-> Verdict(n)]' = [n \in Matches |-> Verdict(n)]
  BY DEF Verdict
<1>2. CASE stage[m] = to
  <2>1. stage' = stage
    BY <1>2 DEF IInv, TypeOK
  <2> QED BY <1>1, <2>1
<1>3. CASE stage[m] # to
  <2>1. Life!Prepare(m) \/ Life!Start(m) \/ Life!GiveUp(m)
    BY <1>1, <1>3 DEF Life!Prepare, Life!Start, Life!GiveUp, Life!Move
  <2> QED BY <2>1 DEF Life!Next
<1> QED BY <1>2, <1>3

(* One more row for one side, and the match is over. *)
LEMMA LifeDecides ==
    ASSUME IInv, NEW m \in Matches, NEW k \in Sides, NEW row,
           stage[m] = "playing",
           stage' = [stage EXCEPT ![m] = "completed"],
           results' = [results EXCEPT ![m] = row],
           row[k] = 1, \A l \in Sides \ {k} : row[l] = 0
    PROVE  Life!Next
<1> DEFINE verdict == [n \in Matches |-> Verdict(n)]
<1>1. Verdict(m)' = k
  <2>1. results'[m] = row
    BY DEF IInv, TypeOK
  <2>2. \/ k = 1 /\ row[1] = 1 /\ row[2] = 0
        \/ k = 2 /\ row[1] = 0 /\ row[2] = 1
    BY DEF Sides
  <2> QED BY <2>1, <2>2 DEF Verdict
<1>2. \A n \in Matches : n # m => Verdict(n)' = Verdict(n)
  BY DEF Verdict, IInv, TypeOK
<1>3. verdict' = [verdict EXCEPT ![m] = k]
  <2>1. verdict' = [n \in Matches |-> Verdict(n)']
    OBVIOUS
  <2>2. [verdict EXCEPT ![m] = k]
          = [n \in Matches |-> IF n = m THEN k ELSE Verdict(n)]
    OBVIOUS
  <2> QED BY <1>1, <1>2, <2>1, <2>2
<1>4. Life!Decide(m)
  <2>1. Life!Move(m, "playing", "completed")
    BY DEF Life!Move
  <2>2. k \in Life!Sides
    BY DEF Sides, Life!Sides
  <2> HIDE DEF verdict
  <2>3. \E side \in Life!Sides : verdict' = [verdict EXCEPT ![m] = side]
    BY <1>3, <2>2
  <2> QED BY <2>1, <2>3 DEF Life!Decide, verdict
<1> QED BY <1>4 DEF Life!Next

LEMMA GoalIsLife ==
    ASSUME IInv, NEW m \in Matches, NEW k \in Sides, Goal(m, k)
    PROVE  [Life!Next]_<<stage, [n \in Matches |-> Verdict(n)]>>
<1> DEFINE row == [results[m] EXCEPT ![k] = @ + 1]
<1>1. CASE goals[m][k] + 1 >= WinGoals
  <2>1. /\ stage[m] = "playing"
        /\ stage' = [stage EXCEPT ![m] = "completed"]
        /\ results' = [results EXCEPT ![m] = row]
    BY <1>1 DEF Goal, IInv, TypeOK
  <2>2. row[k] = 1 /\ \A l \in Sides \ {k} : row[l] = 0
    <3>1. results[m] \in [Sides -> Nat]
      BY DEF IInv, TypeOK
    <3>2. \A l \in Sides : results[m][l] = 0
      BY <2>1 DEF IInv, StagesAgree
    <3> QED BY <3>1, <3>2
  <2> HIDE DEF row
  <2> QED BY <2>1, <2>2, LifeDecides
<1>2. CASE ~(goals[m][k] + 1 >= WinGoals)
  BY <1>2, LifeUnchanged DEF Goal
<1> QED BY <1>1, <1>2

LEMMA LeavingIsLife ==
    ASSUME IInv, NEW s \in Sessions,
           PlayerLeaves(s, [status EXCEPT ![s] = "idle"])
    PROVE  [Life!Next]_<<stage, [n \in Matches |-> Verdict(n)]>>
<1> DEFINE st == [status EXCEPT ![s] = "idle"]
           m == matchId[s]
           stay == Stayers(m, st)
           row == [k \in Sides |-> IF k \in stay THEN results[m][k] + 1
                                                 ELSE results[m][k]]
<1>1. st[s] = "idle"
  BY DEF IInv, TypeOK
<1> HIDE DEF st
<1>2. CASE m \in active /\ Walkover(m, st)
  <2>1. stay \in {{}, {1}, {2}}
    BY <1>1, <1>2, OneStays
  <2>2. m \in Matches /\ stage[m] = "playing"
    BY <1>2 DEF Walkover, IInv, TypeOK
  <2>3. \A l \in Sides : results[m][l] = 0
    BY <2>2 DEF IInv, StagesAgree
  <2>4. CASE stay = {}
    BY <1>2, <2>4, LifeUnchanged DEF Walkover
  <2>5. CASE stay # {}
    <3>1. /\ stage' = [stage EXCEPT ![m] = "completed"]
          /\ results' = [results EXCEPT ![m] = row]
      BY <1>2, <2>5 DEF Walkover
    <3>2. PICK k \in Sides : stay = {k}
      BY <2>1, <2>5 DEF Sides
    <3>3. row[k] = 1 /\ \A l \in Sides \ {k} : row[l] = 0
      BY <2>3, <3>2
    <3> HIDE DEF row, stay, m
    <3> QED BY <2>2, <3>1, <3>3, LifeDecides
  <2> QED BY <2>4, <2>5
<1>3. CASE m \in active /\ Abandon(m, st)
  <2>1. /\ m \in Matches /\ stage[m] \in {"pending", "completed"}
        /\ stage' = [stage EXCEPT ![m] = "completed"]
        /\ results' = results
    BY <1>3 DEF Abandon, IInv, TypeOK, StagesAgree
  <2> HIDE DEF m
  <2> QED BY <2>1, LifeMoves
<1>4. CASE m \notin active
  BY <1>4, LifeUnchanged DEF PlayerLeaves, matchVars
<1> QED BY <1>2, <1>3, <1>4 DEF PlayerLeaves, st

LEMMA StepIsLife ==
    IInv /\ [Next]_vars => [Life!Next]_<<stage, [m \in Matches |-> Verdict(m)]>>
<1> DEFINE Goal_ == [Life!Next]_<<stage, [m \in Matches |-> Verdict(m)]>>
<1> SUFFICES ASSUME IInv, [Next]_vars PROVE Goal_
  OBVIOUS
<1>1. ASSUME NEW a, NEW b, NewMatch(a, b) PROVE Goal_
  <2>1. /\ next \in Matches /\ stage[next] = "none"
        /\ stage' = [stage EXCEPT ![next] = "pending"] /\ results' = results
    BY <1>1, ConstantsAssumption
       DEF NewMatch, IInv, TypeOK, StagesAgree, Matches
  <2> QED BY <2>1, LifeMoves
<1>2. ASSUME NEW s \in Sessions, Matchmake(s) PROVE Goal_
  <2>1. \/ \E a, b : NewMatch(a, b)
        \/ stage' = stage /\ results' = results
    BY <1>2 DEF Matchmake, matchVars
  <2> HIDE DEF Goal_
  <2>2. CASE \E a, b : NewMatch(a, b)
    BY <1>1, <2>2
  <2>3. CASE stage' = stage /\ results' = results
    BY <2>3, LifeUnchanged DEF Goal_
  <2> QED BY <2>1, <2>2, <2>3
<1>3. ASSUME NEW s \in Sessions, ImLeft(s) \/ Disconnect(s) PROVE Goal_
  BY <1>3, LeavingIsLife DEF ImLeft, LeaveAs, Disconnect
<1>4. ASSUME NEW s \in Sessions, NEW t \in Sessions, Challenge(s, t)
      PROVE  Goal_
  BY <1>1, <1>4 DEF Challenge
<1>5. ASSUME NEW m \in Matches, TimerFires(m) PROVE Goal_
  <2>1. /\ stage[m] = "pending" /\ results' = results
        /\ stage' = [stage EXCEPT ![m] = "playing"]
    BY <1>5 DEF TimerFires, IInv, StagesAgree
  <2> QED BY <2>1, LifeMoves
<1>6. ASSUME NEW m \in Matches, NEW k \in Sides, Goal(m, k) PROVE Goal_
  BY <1>6, GoalIsLife
<1>7. ASSUME NEW s \in Sessions, Connect(s) PROVE Goal_
  BY <1>7, LifeUnchanged DEF Connect, matchVars
<1>8. CASE UNCHANGED vars
  BY <1>8, LifeUnchanged DEF vars, matchVars
<1> HIDE DEF Goal_
<1> QED BY <1>2, <1>3, <1>4, <1>5, <1>6, <1>7, <1>8 DEF Next

(* The server implements MatchLife: a match is prepared, then given up, or
   played and decided once, and is never touched again. *)
THEOREM ImplementsMatchLife == Spec => KeepsMatchLife
<1>1. Init => Life!Init
  BY DEF Init, Life!Init, Verdict, Sides
<1> QED BY <1>1, StepIsLife, Invariance, PTL DEF Spec, KeepsMatchLife, Life!Spec

-----------------------------------------------------------------------------
(***************************************************************************)
(* MatchHistory.  The tables change nothing of Matchmaking, so its         *)
(* invariants hold there; they say that the players of a match that is     *)
(* played are users, and a row that names one of them as the winner has    *)
(* the goals of that side.  A step that decides a match adds one result    *)
(* and one order for its player, which becomes a row and then a prize;     *)
(* Tally says what is counted at each of these moments.                    *)
(***************************************************************************)

Points == 0..WinGoals \cup {3}

Rows == [match : Matches \cup {NoMatch}, players : [Sides -> Users],
         goals : [Sides -> Points], winner : Users \cup {NoUser}]

(* A winner that is named is one of the players and has 3 goals to none. *)
NamesWinner(g) ==
    g.winner # NoUser => \E k \in Sides :
        g.winner = g.players[k] /\ g.goals[k] = 3 /\ g.goals[3 - k] = 0

ToldRows == {g \in Rows : NamesWinner(g)}

RowsAreTold == games \in Seq(ToldRows)

(* A prize under way is of a match that is over, for the winner its row names,
   or for one of its players when the row names nobody. *)
Orders == [row : {g \in ToldRows : g.match \in Matches}, payee : Users]

OrdersAreTold ==
    /\ writing \subseteq Orders /\ paying \subseteq Orders
    /\ writing \cap paying = {}
    /\ IsFiniteSet(writing) /\ IsFiniteSet(paying)
    /\ \A w \in writing \cup paying :
          /\ stage[w.row.match] = "completed"
          /\ \E k \in Sides : w.row.players[k] = w.payee
          /\ w.row.winner \in {NoUser, w.payee}

(* The goal that decides a match is the last: a match that goes on is short of
   WIN_GOALS on both sides. *)
GoalsBounded ==
    \A m \in Matches, k \in Sides : stage[m] # "completed" => goals[m][k] < WinGoals

(* The steps of HistoryNext are those of Next. *)
THEOREM RunsMatchmaking == HistorySpec => Spec
<1>1. HistoryInit => Init
  BY DEF HistoryInit
<1>2. [HistoryNext]_<<vars, tableVars>> => [Next]_vars
  BY DEF HistoryNext, Next
<1> QED BY <1>1, <1>2, PTL DEF HistorySpec, Spec

LEMMA PlayersAreUsers ==
    ASSUME IInv, NEW m \in Matches, stage[m] # "none"
    PROVE  PlayersOf(m) \in [Sides -> Users]
<1>1. \A k \in Sides : player[m][k] \in Sessions
  BY DEF IInv, PlayersExist
<1> QED BY <1>1, ConstantsAssumption DEF PlayersOf

LEMMA GoalsStayBounded ==
    IInv /\ GoalsBounded /\ [Next]_vars => GoalsBounded'
<1> SUFFICES ASSUME IInv, GoalsBounded, [Next]_vars PROVE GoalsBounded'
  OBVIOUS
<1> USE DEF GoalsBounded
<1>0. stage \in [Matches -> {"none", "pending", "playing", "completed"}]
      /\ goals \in [Matches -> [Sides -> Nat]] /\ WinGoals \in Nat \ {0}
      /\ next \in 1..(MaxMatches + 1) /\ MaxMatches \in Nat
  BY ConstantsAssumption DEF IInv, TypeOK
<1>1. CASE UNCHANGED <<stage, goals>>
  BY <1>1
<1>2. ASSUME NEW a, NEW b, NewMatch(a, b) PROVE GoalsBounded'
  <2>1. next \in Matches /\ stage[next] # "completed"
    BY <1>2, <1>0 DEF NewMatch, IInv, StagesAgree, Matches
  <2> QED BY <1>0, <1>2, <2>1 DEF NewMatch
<1>3. ASSUME NEW m \in Matches, TimerFires(m) PROVE GoalsBounded'
  <2>1. stage[m] # "completed"
    BY <1>3 DEF TimerFires, IInv, StagesAgree
  <2> QED BY <1>0, <1>3, <2>1 DEF TimerFires
<1>4. ASSUME NEW m \in Matches, NEW k \in Sides, Goal(m, k) PROVE GoalsBounded'
  <2>1. CASE goals[m][k] + 1 >= WinGoals
    <3>1. stage' = [stage EXCEPT ![m] = "completed"]
          /\ \A n \in Matches : n # m => goals'[n] = goals[n]
      BY <1>0, <1>4, <2>1 DEF Goal
    <3> QED BY <1>0, <3>1
  <2>2. CASE ~(goals[m][k] + 1 >= WinGoals)
    <3>1. stage' = stage
          /\ \A n \in Matches, j \in Sides :
                 goals'[n][j] = IF n = m /\ j = k THEN goals[m][k] + 1 ELSE goals[n][j]
      BY <1>0, <1>4, <2>2 DEF Goal
    <3> QED BY <1>0, <2>2, <3>1
  <2> QED BY <2>1, <2>2
<1>5. ASSUME NEW m \in Matches, NEW st, Walkover(m, st) \/ Abandon(m, st)
      PROVE  GoalsBounded'
  <2>1. \/ UNCHANGED <<stage, goals>>
        \/ /\ stage' = [stage EXCEPT ![m] = "completed"]
           /\ \A n \in Matches : n # m => goals'[n] = goals[n]
    BY <1>0, <1>5 DEF Walkover, Abandon
  <2> QED BY <1>0, <2>1
<1>6. ASSUME NEW s \in Sessions, NEW st, PlayerLeaves(s, st) PROVE GoalsBounded'
  <2>1. CASE matchId[s] \in active
    <3>1. matchId[s] \in Matches
      BY <2>1 DEF IInv, TypeOK
    <3> QED BY <1>5, <1>6, <2>1, <3>1 DEF PlayerLeaves
  <2>2. CASE matchId[s] \notin active
    BY <1>1, <1>6, <2>2 DEF PlayerLeaves, matchVars
  <2> QED BY <2>1, <2>2
<1>7. ASSUME NEW s \in Sessions, Matchmake(s) PROVE GoalsBounded'
  BY <1>1, <1>2, <1>7 DEF Matchmake, matchVars
<1>8. ASSUME NEW s \in Sessions, Connect(s) PROVE GoalsBounded'
  BY <1>1, <1>8 DEF Connect, matchVars
<1>9. ASSUME NEW s \in Sessions, ImLeft(s) \/ Disconnect(s) PROVE GoalsBounded'
  BY <1>6, <1>9 DEF ImLeft, Disconnect, LeaveAs
<1>10. ASSUME NEW s \in Sessions, NEW t \in Sessions, Challenge(s, t) PROVE GoalsBounded'
  BY <1>2, <1>10 DEF Challenge
<1>11. CASE UNCHANGED vars
  BY <1>1, <1>11 DEF vars, matchVars
<1> QED BY <1>3, <1>4, <1>7, <1>8, <1>9, <1>10, <1>11 DEF Next

(* What is over stays over. *)
LEMMA OverForever ==
    ASSUME IInv, [Next]_vars, NEW n \in Matches, stage[n] = "completed"
    PROVE  stage'[n] = "completed"
<1>0. stage \in [Matches -> {"none", "pending", "playing", "completed"}]
      /\ next \in 1..(MaxMatches + 1) /\ MaxMatches \in Nat
  BY ConstantsAssumption DEF IInv, TypeOK
<1>1. CASE UNCHANGED stage
  BY <1>1
<1>2. ASSUME NEW a, NEW b, NewMatch(a, b) PROVE stage'[n] = "completed"
  <2>1. stage[next] # "completed"
    BY <1>2, <1>0 DEF NewMatch, IInv, StagesAgree, Matches
  <2> QED BY <1>0, <1>2, <2>1 DEF NewMatch
<1>3. ASSUME NEW m \in Matches, TimerFires(m) PROVE stage'[n] = "completed"
  <2>1. stage[m] # "completed"
    BY <1>3 DEF TimerFires, IInv, StagesAgree
  <2> QED BY <1>0, <1>3, <2>1 DEF TimerFires
<1>4. ASSUME NEW m \in Matches, NEW k \in Sides, Goal(m, k) PROVE stage'[n] = "completed"
  BY <1>0, <1>4 DEF Goal
<1>5. ASSUME NEW m \in Matches, NEW st, Walkover(m, st) \/ Abandon(m, st)
      PROVE  stage'[n] = "completed"
  BY <1>0, <1>5 DEF Walkover, Abandon
<1>6. ASSUME NEW s \in Sessions, NEW st, PlayerLeaves(s, st) PROVE stage'[n] = "completed"
  <2>1. CASE matchId[s] \in active
    <3>1. matchId[s] \in Matches
      BY <2>1 DEF IInv, TypeOK
    <3> QED BY <1>5, <1>6, <2>1, <3>1 DEF PlayerLeaves
  <2>2. CASE matchId[s] \notin active
    BY <1>1, <1>6, <2>2 DEF PlayerLeaves, matchVars
  <2> QED BY <2>1, <2>2
<1>7. ASSUME NEW s \in Sessions, Matchmake(s) PROVE stage'[n] = "completed"
  BY <1>1, <1>2, <1>7 DEF Matchmake, matchVars
<1>8. ASSUME NEW s \in Sessions, Connect(s) PROVE stage'[n] = "completed"
  BY <1>1, <1>8 DEF Connect, matchVars
<1>9. ASSUME NEW s \in Sessions, ImLeft(s) \/ Disconnect(s) PROVE stage'[n] = "completed"
  BY <1>6, <1>9 DEF ImLeft, Disconnect, LeaveAs
<1>10. ASSUME NEW s \in Sessions, NEW t \in Sessions, Challenge(s, t)
       PROVE  stage'[n] = "completed"
  BY <1>2, <1>10 DEF Challenge
<1>11. CASE UNCHANGED vars
  BY <1>1, <1>11 DEF vars, matchVars
<1> QED BY <1>3, <1>4, <1>7, <1>8, <1>9, <1>10, <1>11 DEF Next

LEMMA DecidingGoalIsTold ==
    ASSUME IInv, GoalsBounded, NEW m \in Matches, NEW k \in Sides, Goal(m, k)
    PROVE  Row(m, goals'[m], NoUser) \in ToldRows
<1> DEFINE old == goals[m]
<1>1. stage[m] # "none"
  BY DEF Goal
<1>2. goals \in [Matches -> [Sides -> Nat]] /\ WinGoals \in Nat
  BY ConstantsAssumption DEF IInv, TypeOK
<1>3. old \in [Sides -> Nat] /\ \A j \in Sides : old[j] < WinGoals
  BY <1>2 DEF Goal, GoalsBounded
<1>4. goals'[m] = [old EXCEPT ![k] = old[k] + 1]
  BY <1>2 DEF Goal
<1> HIDE DEF old
<1>5. goals'[m] \in [Sides -> Points]
  BY <1>2, <1>3, <1>4 DEF Points
<1> QED BY <1>1, <1>5, PlayersAreUsers DEF Row, ToldRows, Rows, NamesWinner

LEMMA StayIsTold ==
    ASSUME IInv, NEW m \in Matches, stage[m] # "none", NEW k \in Sides
    PROVE  StayRow(m, k) \in ToldRows
<1> DEFINE points == [j \in Sides |-> IF j = k THEN 3 ELSE 0]
           g == Row(m, points, PlayersOf(m)[k])
<1>1. PlayersOf(m) \in [Sides -> Users]
  BY PlayersAreUsers
<1>2. g \in Rows
  <2>1. points \in [Sides -> Points]
    BY ConstantsAssumption DEF Points
  <2> HIDE DEF points
  <2> QED BY <1>1, <2>1 DEF Row, Rows
<1>3. points[k] = 3 /\ points[3 - k] = 0
  BY DEF Sides
<1>4. NamesWinner(g)
  BY <1>3 DEF NamesWinner, Row
<1> QED BY <1>2, <1>4 DEF StayRow, ToldRows

LEMMA TournamentIsTold ==
    ASSUME RowsAreTold, NEW u \in Users, NEW v \in Users, TournamentGame(u, v)
    PROVE  \E g \in ToldRows : g.match = NoMatch /\ games' = Append(games, g)
<1> DEFINE players == [k \in Sides |-> IF k = 1 THEN u ELSE v]
           points == [k \in Sides |-> IF k = 1 THEN 3 ELSE 0]
           g == [match |-> NoMatch, players |-> players, goals |-> points, winner |-> u]
<1>1. players \in [Sides -> Users] /\ points \in [Sides -> Points]
  BY ConstantsAssumption DEF Points
<1>2. players[1] = u /\ points[1] = 3 /\ points[2] = 0
  BY DEF Sides
<1>3. games' = Append(games, g)
  BY DEF TournamentGame
<1> HIDE DEF players, points
<1>4. g \in Rows
  BY <1>1 DEF Rows
<1>5. NamesWinner(g)
  BY <1>2 DEF NamesWinner, Sides
<1> QED BY <1>3, <1>4, <1>5 DEF ToldRows

(* The steps of HistoryNext as the tables see them: nothing to tell, or match m
   decided for side k, with row g ordered. *)
Quiet ==
    /\ UNCHANGED <<games, score, writing, paying, prizes>>
    /\ results' = results
    /\ \A m \in Matches : stage[m] # "none" => player'[m] = player[m]

Order(m, k, g) == [row |-> g, payee |-> PlayersOf(m)[k]]

WonBy(m, k, g) ==
    /\ stage[m] = "playing" /\ stage'[m] = "completed" /\ player' = player
    /\ g \in ToldRows /\ g.match = m /\ g.players = PlayersOf(m)
    /\ g.winner \in {NoUser, PlayersOf(m)[k]}
    /\ \A n \in Matches, j \in Sides :
           results'[n][j] = IF n = m /\ j = k THEN 1 ELSE results[n][j]
    /\ CreateGames({Order(m, k, g)})

Wins == \E m \in Matches, k \in Sides, g \in ToldRows : WonBy(m, k, g)

LEMMA GoalWins ==
    ASSUME IInv, GoalsBounded, NEW m \in Matches, NEW k \in Sides,
           Goal(m, k), RecordGoal(m, k)
    PROVE  Quiet \/ Wins
<1>0. /\ goals \in [Matches -> [Sides -> Nat]] /\ results \in [Matches -> [Sides -> Nat]]
      /\ stage \in [Matches -> {"none", "pending", "playing", "completed"}]
      /\ WinGoals \in Nat
  BY ConstantsAssumption DEF IInv, TypeOK
<1>1. goals'[m][k] = goals[m][k] + 1 /\ stage[m] = "playing" /\ player' = player
  BY <1>0 DEF Goal
<1>2. CASE goals'[m][k] < WinGoals
  <2>1. results' = results /\ UNCHANGED tableVars
    BY <1>0, <1>1, <1>2 DEF Goal, RecordGoal
  <2> QED BY <1>1, <2>1 DEF Quiet, tableVars
<1>3. CASE ~(goals'[m][k] < WinGoals)
  <2> DEFINE g == Row(m, goals'[m], NoUser)
  <2>1. CreateGames({Order(m, k, g)})
    BY <1>3 DEF RecordGoal, Order
  <2>2. results' = [results EXCEPT ![m][k] = @ + 1] /\ stage'[m] = "completed"
    BY <1>0, <1>1, <1>3 DEF Goal
  <2>3. results[m][k] = 0
    BY <1>1 DEF IInv, StagesAgree
  <2>4. \A n \in Matches, j \in Sides :
            results'[n][j] = IF n = m /\ j = k THEN 1 ELSE results[n][j]
    BY <1>0, <2>2, <2>3
  <2>5. g \in ToldRows /\ g.match = m /\ g.players = PlayersOf(m) /\ g.winner = NoUser
    BY <1>1, DecidingGoalIsTold DEF Row
  <2> HIDE DEF g
  <2>6. WonBy(m, k, g)
    BY <1>1, <2>1, <2>2, <2>4, <2>5 DEF WonBy
  <2> QED BY <2>5, <2>6 DEF Wins
<1> QED BY <1>2, <1>3

LEMMA LeaveWins ==
    ASSUME IInv, NEW s \in Sessions,
           PlayerLeaves(s, [status EXCEPT ![s] = "idle"]), RecordLeave(s)
    PROVE  Quiet \/ Wins
<1> DEFINE m == matchId[s]
           st == [status EXCEPT ![s] = "idle"]
           stay == Stayers(m, st)
<1>0. results \in [Matches -> [Sides -> Nat]] /\ status \in [Sessions -> {"idle", "matched"}]
      /\ active \subseteq Matches
      /\ stage \in [Matches -> {"none", "pending", "playing", "completed"}]
  BY DEF IInv, TypeOK
<1>1. player' = player
  BY DEF PlayerLeaves, Walkover, Abandon, matchVars
<1>2. CASE ~(m \in active /\ stage[m] = "playing")
  <2>1. results' = results
    BY <1>2 DEF PlayerLeaves, Walkover, Abandon, matchVars
  <2>2. UNCHANGED tableVars
    BY <1>2 DEF RecordLeave
  <2> QED BY <1>1, <2>1, <2>2 DEF Quiet, tableVars
<1>3. CASE m \in active /\ stage[m] = "playing"
  <2>1. Walkover(m, st) /\ status' = st
    BY <1>3 DEF PlayerLeaves, Abandon, Walkover
  <2>2. stay \in {{}, {1}, {2}}
    BY <1>0, <1>3, OneStays
  <2>3. RecordStays(m, stay) /\ m \in Matches
    BY <1>0, <1>3, <2>1 DEF RecordLeave
  <2>4. CASE stay = {}
    <3>1. {[row |-> StayRow(m, k), payee |-> PlayersOf(m)[k]] : k \in stay} = {}
      BY <2>4
    <3>2. results' = results
      BY <2>1, <2>4 DEF Walkover
    <3>3. UNCHANGED <<games, score, writing, paying, prizes>>
      BY <2>3, <3>1 DEF RecordStays, CreateGames
    <3> QED BY <1>1, <3>2, <3>3 DEF Quiet
  <2>5. ASSUME NEW k \in Sides, stay = {k} PROVE Wins
    <3> DEFINE g == StayRow(m, k)
    <3>1. {[row |-> StayRow(m, j), payee |-> PlayersOf(m)[j]] : j \in stay}
              = {Order(m, k, g)}
      BY <2>5 DEF Order
    <3>2. CreateGames({Order(m, k, g)})
      BY <2>3, <3>1 DEF RecordStays
    <3>4. g \in ToldRows /\ g.match = m /\ g.players = PlayersOf(m)
          /\ g.winner = PlayersOf(m)[k]
      BY <1>3, <2>3, StayIsTold DEF StayRow, Row
    <3>5. results[m][k] = 0
      BY <1>3, <2>3 DEF IInv, StagesAgree
    <3>6. /\ results' = [results EXCEPT ![m] =
                [j \in Sides |-> IF j \in {k} THEN @[j] + 1 ELSE @[j]]]
          /\ stage' = [stage EXCEPT ![m] = "completed"]
      BY <2>1, <2>5 DEF Walkover
    <3>7. /\ \A n \in Matches, j \in Sides :
                results'[n][j] = IF n = m /\ j = k THEN 1 ELSE results[n][j]
          /\ stage'[m] = "completed"
      <4> HIDE DEF m
      <4> QED BY <1>0, <2>3, <3>5, <3>6
    <3> HIDE DEF g, m
    <3>8. WonBy(m, k, g)
      BY <1>1, <1>3, <3>2, <3>4, <3>7 DEF WonBy, m
    <3> QED BY <2>3, <3>4, <3>8 DEF Wins
  <2> QED BY <2>2, <2>4, <2>5 DEF Sides
<1> QED BY <1>2, <1>3

LEMMA HistorySteps ==
    ASSUME IInv, GoalsBounded, [HistoryNext]_<<vars, tableVars>>
    PROVE  \/ Quiet
           \/ Wins
           \/ /\ \/ \E w \in writing : RowWritten(w)
                 \/ \E w \in paying : ScoreAdded(w)
                 \/ \E u, v \in Users : TournamentGame(u, v)
                 \/ \E u \in Users : TournamentPays(u)
              /\ UNCHANGED vars
<1>1. ASSUME NEW a, NEW b, NewMatch(a, b), UNCHANGED tableVars PROVE Quiet
  <2>1. next \in 1..(MaxMatches + 1) /\ MaxMatches \in Nat
        /\ player \in [Matches -> [Sides -> Sessions \cup {Nobody}]]
    BY ConstantsAssumption DEF IInv, TypeOK
  <2>2. next \in Matches /\ stage[next] = "none"
    BY <1>1, <2>1 DEF NewMatch, IInv, StagesAgree, Matches
  <2>3. \A m \in Matches : stage[m] # "none" => player'[m] = player[m]
    BY <1>1, <2>1, <2>2 DEF NewMatch
  <2>4. results' = results
    BY <1>1 DEF NewMatch
  <2> QED BY <1>1, <2>3, <2>4 DEF Quiet, tableVars
<1>2. CASE UNCHANGED <<player, results, games, score, writing, paying, prizes>>
  BY <1>2 DEF Quiet
<1>3. ASSUME NEW s \in Sessions, Connect(s) \/ Matchmake(s), UNCHANGED tableVars
      PROVE  Quiet
  <2>1. CASE Connect(s)
    BY <1>3, <2>1 DEF Connect, Quiet, matchVars, tableVars
  <2>2. CASE Matchmake(s)
    <3>1. CASE \E a, b : NewMatch(a, b)
      BY <1>1, <1>3, <3>1
    <3>2. CASE UNCHANGED <<status, matchId, matchVars>>
      BY <1>3, <3>2 DEF Quiet, matchVars, tableVars
    <3> QED BY <2>2, <3>1, <3>2 DEF Matchmake
  <2> QED BY <1>3, <2>1, <2>2
<1>4. ASSUME NEW s \in Sessions, NEW t \in Sessions, Challenge(s, t), UNCHANGED tableVars
      PROVE  Quiet
  BY <1>1, <1>4 DEF Challenge
<1>5. ASSUME NEW m \in Matches, TimerFires(m), UNCHANGED tableVars PROVE Quiet
  BY <1>5 DEF TimerFires, Quiet, tableVars
<1>6. ASSUME NEW m \in Matches, NEW k \in Sides, Goal(m, k), RecordGoal(m, k)
      PROVE  Quiet \/ Wins
  BY <1>6, GoalWins
<1>7. ASSUME NEW s \in Sessions, ImLeft(s) \/ Disconnect(s), RecordLeave(s)
      PROVE  Quiet \/ Wins
  BY <1>7, LeaveWins DEF ImLeft, LeaveAs, Disconnect
<1>8. CASE StatementFails /\ UNCHANGED vars
  BY <1>2, <1>8 DEF StatementFails, vars, matchVars
<1>9. CASE UNCHANGED <<vars, tableVars>>
  BY <1>2, <1>9 DEF vars, matchVars, tableVars
<1> QED BY <1>3, <1>4, <1>5, <1>6, <1>7, <1>8, <1>9 DEF HistoryNext

LEMMA RowsStayTold ==
    IInv /\ GoalsBounded /\ RowsAreTold /\ OrdersAreTold
         /\ [HistoryNext]_<<vars, tableVars>>
        => RowsAreTold'
<1> SUFFICES ASSUME IInv, GoalsBounded, RowsAreTold, OrdersAreTold,
                    [HistoryNext]_<<vars, tableVars>>
             PROVE  RowsAreTold'
  OBVIOUS
<1>1. CASE UNCHANGED games
  BY <1>1 DEF RowsAreTold
<1>2. ASSUME NEW g \in ToldRows, games' = Append(games, g) PROVE RowsAreTold'
  BY <1>2, AppendProperties DEF RowsAreTold
<1>3. ASSUME NEW w \in writing, RowWritten(w) PROVE RowsAreTold'
  <2>1. w.row \in ToldRows
    BY DEF OrdersAreTold, Orders
  <2> QED BY <1>2, <1>3, <2>1 DEF RowWritten
<1>4. ASSUME NEW u \in Users, NEW v \in Users, TournamentGame(u, v) PROVE RowsAreTold'
  BY <1>2, <1>4, TournamentIsTold
<1> QED
  BY <1>1, <1>3, <1>4, HistorySteps
     DEF Quiet, Wins, WonBy, CreateGames, ScoreAdded, TournamentPays

LEMMA OrdersStayTold ==
    IInv /\ GoalsBounded /\ OrdersAreTold /\ [HistoryNext]_<<vars, tableVars>>
        => OrdersAreTold'
<1> SUFFICES ASSUME IInv, GoalsBounded, OrdersAreTold,
                    [HistoryNext]_<<vars, tableVars>>
             PROVE  OrdersAreTold'
  OBVIOUS
<1>1. ASSUME NEW w \in Orders, stage[w.row.match] = "completed"
      PROVE  stage'[w.row.match] = "completed"
  <2>1. w.row.match \in Matches
    BY DEF Orders
  <2>2. [Next]_vars
    BY DEF HistoryNext, Next
  <2> QED BY <1>1, <2>1, <2>2, OverForever
<1>2. CASE UNCHANGED <<writing, paying>>
  BY <1>1, <1>2 DEF OrdersAreTold
<1>3. ASSUME NEW m \in Matches, NEW k \in Sides, NEW g \in ToldRows, WonBy(m, k, g)
      PROVE  OrdersAreTold'
  <2> DEFINE o == Order(m, k, g)
  <2>1. PlayersOf(m) \in [Sides -> Users]
    BY <1>3, PlayersAreUsers DEF WonBy
  <2>2. o \in Orders
    BY <1>3, <2>1 DEF WonBy, Order, Orders
  <2>3. o.row = g /\ o.payee = PlayersOf(m)[k]
    BY DEF Order
  <2>4. /\ stage'[o.row.match] = "completed"
        /\ \E j \in Sides : o.row.players[j] = o.payee
        /\ o.row.winner \in {NoUser, o.payee}
    BY <1>3, <2>3 DEF WonBy
  <2>5. o \notin paying
    BY <1>3, <2>3 DEF OrdersAreTold, WonBy
  <2>6. writing' = writing \cup {o} /\ paying' = paying
    BY <1>3 DEF WonBy, CreateGames
  <2>7. IsFiniteSet(writing')
    BY <2>6, FS_AddElement DEF OrdersAreTold
  <2> HIDE DEF o
  <2> QED BY <1>1, <2>2, <2>4, <2>5, <2>6, <2>7 DEF OrdersAreTold
<1>4. ASSUME NEW w \in writing, RowWritten(w) PROVE OrdersAreTold'
  <2>1. writing' = writing \ {w} /\ paying' = paying \cup {w}
    BY <1>4 DEF RowWritten
  <2>2. IsFiniteSet(writing') /\ IsFiniteSet(paying')
    BY <2>1, FS_AddElement, FS_RemoveElement DEF OrdersAreTold
  <2> QED BY <1>1, <2>1, <2>2 DEF OrdersAreTold
<1>5. ASSUME NEW w \in paying, ScoreAdded(w) PROVE OrdersAreTold'
  <2>1. writing' = writing /\ paying' = paying \ {w}
    BY <1>5 DEF ScoreAdded
  <2>2. IsFiniteSet(writing') /\ IsFiniteSet(paying')
    BY <2>1, FS_RemoveElement DEF OrdersAreTold
  <2> QED BY <1>1, <2>1, <2>2 DEF OrdersAreTold
<1> QED
  BY <1>2, <1>3, <1>4, <1>5, HistorySteps
     DEF Quiet, Wins, TournamentGame, TournamentPays

LEMMA OneCardIsWon ==
    ASSUME NEW g \in ToldRows, g.winner # NoUser, g.players[1] # g.players[2]
    PROVE  LET cards == {FormattedGame(g, g.players[k]) : k \in Sides}
           IN  /\ \A card \in cards : Green(card) > Red(card)
               /\ Cardinality({card \in cards : card.won}) = 1
<1> DEFINE card(k) == FormattedGame(g, g.players[k])
           cards == {card(k) : k \in Sides}
<1>1. PICK w \in Sides :
          g.winner = g.players[w] /\ g.goals[w] = 3 /\ g.goals[3 - w] = 0
  BY DEF ToldRows, NamesWinner
<1>2. \A k \in Sides :
          /\ card(k).score = g.goals[k]
          /\ card(k).opponentScore = g.goals[3 - k]
          /\ card(k).won <=> k = w
  BY <1>1 DEF FormattedGame, Sides
<1>3. \A k \in Sides : Green(card(k)) = 3 /\ Red(card(k)) = 0
  BY <1>1, <1>2 DEF Green, Red, Sides
<1>4. {c \in cards : c.won} = {card(w)}
  <2>1. card(w) \in cards
    OBVIOUS
  <2>2. \A c \in cards : c.won => c = card(w)
    BY <1>2
  <2>3. card(w).won
    BY <1>2
  <2> QED BY <2>1, <2>2, <2>3
<1>5. \A c \in cards : Green(c) > Red(c)
  BY <1>3
<1> QED BY <1>4, <1>5, FS_Singleton

LEMMA RowsInvariance ==
    HistorySpec => [](IInv /\ GoalsBounded /\ RowsAreTold /\ OrdersAreTold)
<1>1. HistoryInit => RowsAreTold /\ OrdersAreTold /\ GoalsBounded
  BY ConstantsAssumption, FS_EmptySet
     DEF HistoryInit, RowsAreTold, OrdersAreTold, Init, GoalsBounded
<1>2. [HistoryNext]_<<vars, tableVars>> => [Next]_vars
  BY DEF HistoryNext, Next
<1> QED
  BY <1>1, <1>2, RunsMatchmaking, Invariance, RowsStayTold, OrdersStayTold,
     GoalsStayBounded, PTL DEF HistorySpec

(* Whatever the order of goals, leavers and lost connections: of a match that
   one of two users has left, the card of either shows the higher score in
   green, and one of the two has won. *)
THEOREM CardsAreTrue == HistorySpec => []CardsTellTheWinner
<1>1. RowsAreTold => CardsTellTheWinner
  <2> SUFFICES ASSUME RowsAreTold, NEW i \in DOMAIN games,
                      games[i].winner # NoUser,
                      games[i].players[1] # games[i].players[2]
               PROVE  LET cards == {FormattedGame(games[i], games[i].players[k])
                                       : k \in Sides}
                      IN  /\ \A card \in cards : Green(card) > Red(card)
                          /\ Cardinality({card \in cards : card.won}) = 1
    BY DEF CardsTellTheWinner
  <2>1. games[i] \in ToldRows
    BY DEF RowsAreTold
  <2> QED BY <2>1, OneCardIsWon
<1> QED BY <1>1, RowsInvariance, PTL

(* The score of a user with what is under way is what was earned; each win that
   is told has its prize, and each prize its row. *)
WonCasually(u) == RowsWonBy(u) \ TournamentRows

WinsArePaid(u) ==
    /\ Cardinality(WonCasually(u)) <= score[u] - prizes[u] + Cardinality(PaidNow(u))
    /\ score[u] - prizes[u] + Cardinality(PaidNow(u)) <= Cardinality(CasualRows(u))

Tally ==
    /\ score \in [Users -> Nat]
    /\ prizes \in [Users -> Nat]
    /\ ScoreIsEarned
    /\ \A u \in Users : WinsArePaid(u)

LEMMA EarnedIsFinite == ASSUME NEW u PROVE IsFiniteSet(Earned(u))
<1>1. IsFiniteSet(Matches) /\ IsFiniteSet(Sides)
  <2>1. 1 \in Int /\ 2 \in Int /\ MaxMatches \in Int
    BY ConstantsAssumption
  <2>2. IsFiniteSet(1..MaxMatches) /\ IsFiniteSet(1..2)
    BY <2>1, FS_Interval
  <2>3. 1..2 = {1, 2}
    OBVIOUS
  <2> QED BY <2>2, <2>3 DEF Matches, Sides
<1>2. IsFiniteSet(Matches \X Sides)
  BY <1>1, FS_Product
<1>3. Earned(u) \in SUBSET (Matches \X Sides)
  BY DEF Earned
<1> QED BY <1>2, <1>3, FS_Subset

LEMMA OrdersAreFinite ==
    ASSUME OrdersAreTold, NEW u
    PROVE  IsFiniteSet(Owed(u)) /\ IsFiniteSet(PaidNow(u))
<1>1. IsFiniteSet(writing \cup paying)
  BY FS_Union DEF OrdersAreTold
<1>2. Owed(u) \in SUBSET (writing \cup paying) /\ PaidNow(u) \in SUBSET (writing \cup paying)
  BY DEF Owed, PaidNow
<1> QED BY <1>1, <1>2, FS_Subset

LEMMA UserRows ==
    ASSUME RowsAreTold, NEW u \in Users
    PROVE  /\ RowsWith(u) \in SUBSET (DOMAIN games) /\ RowsWith(u) \in SUBSET Nat
           /\ IsFiniteSet(RowsWith(u))
           /\ RowsWonBy(u) \in SUBSET RowsWith(u) /\ IsFiniteSet(RowsWonBy(u))
           /\ CasualRows(u) \in SUBSET RowsWith(u) /\ IsFiniteSet(CasualRows(u))
           /\ WonCasually(u) \in SUBSET CasualRows(u) /\ IsFiniteSet(WonCasually(u))
<1>1. games \in Seq(ToldRows) /\ Len(games) \in Nat /\ DOMAIN games = 1..Len(games)
  BY DEF RowsAreTold
<1>2. RowsWith(u) \in SUBSET (DOMAIN games)
  BY DEF RowsWith
<1>3. ASSUME NEW i \in RowsWonBy(u) PROVE i \in RowsWith(u)
  <2>1. i \in DOMAIN games /\ games[i].winner = u
    BY <1>3 DEF RowsWonBy
  <2>2. games[i] \in ToldRows
    BY <1>1, <2>1
  <2>3. \E k \in Sides : games[i].players[k] = u
    BY <2>1, <2>2, HistoryAssumption DEF ToldRows, NamesWinner
  <2> QED BY <2>1, <2>3 DEF RowsWith
<1> HIDE DEF RowsWith
<1>4. RowsWith(u) \in SUBSET Nat /\ \A i \in RowsWith(u) : i <= Len(games)
  BY <1>1, <1>2
<1>5. IsFiniteSet(RowsWith(u))
  BY <1>1, <1>4, FS_BoundedSetOfNaturals
<1>6. RowsWonBy(u) \in SUBSET RowsWith(u)
  BY <1>3
<1>7. CasualRows(u) \in SUBSET RowsWith(u) /\ WonCasually(u) \in SUBSET CasualRows(u)
  BY <1>6 DEF CasualRows, WonCasually
<1>8. IsFiniteSet(CasualRows(u)) /\ IsFiniteSet(RowsWonBy(u))
  BY <1>5, <1>6, <1>7, FS_Subset
<1>9. IsFiniteSet(WonCasually(u))
  BY <1>7, <1>8, FS_Subset
<1> QED BY <1>2, <1>4, <1>5, <1>6, <1>7, <1>8, <1>9

LEMMA EarnedIsKept ==
    ASSUME IInv, results' = results,
           \A m \in Matches : stage[m] # "none" => player'[m] = player[m]
    PROVE  \A u : Earned(u)' = Earned(u)
<1>1. \A m \in Matches, k \in Sides : results[m][k] > 0 => player'[m] = player[m]
  BY DEF IInv, StagesAgree
<1> QED BY <1>1 DEF Earned

LEMMA RowsAreKept ==
    ASSUME games' = games
    PROVE  \A u : /\ RowsWith(u)' = RowsWith(u) /\ RowsWonBy(u)' = RowsWonBy(u)
                  /\ CasualRows(u)' = CasualRows(u) /\ WonCasually(u)' = WonCasually(u)
<1>1. TournamentRows' = TournamentRows
  BY DEF TournamentRows
<1>2. \A u : RowsWith(u)' = RowsWith(u) /\ RowsWonBy(u)' = RowsWonBy(u)
  BY DEF RowsWith, RowsWonBy
<1> QED BY <1>1, <1>2 DEF CasualRows, WonCasually

(* A row is added: what it is to each user. *)
LEMMA RowIsAdded ==
    ASSUME RowsAreTold, NEW g \in ToldRows, games' = Append(games, g), NEW u \in Users,
           NEW last, last = Len(games) + 1
    PROVE  /\ last \notin CasualRows(u) /\ last \notin WonCasually(u)
           /\ CasualRows(u)' = IF g.match # NoMatch /\ \E k \in Sides : g.players[k] = u
                               THEN CasualRows(u) \cup {last} ELSE CasualRows(u)
           /\ WonCasually(u)' = IF g.match # NoMatch /\ g.winner = u
                                THEN WonCasually(u) \cup {last} ELSE WonCasually(u)
<1>1. /\ games \in Seq(ToldRows) /\ Len(games) \in Nat /\ DOMAIN games = 1..Len(games)
      /\ games' \in Seq(ToldRows)
  BY AppendProperties DEF RowsAreTold
<1>2. /\ DOMAIN games' = DOMAIN games \cup {last} /\ last \notin DOMAIN games
      /\ \A i \in DOMAIN games : games'[i] = games[i]
      /\ games'[last] = g
  BY <1>1
<1>3. \A i : i \in CasualRows(u) <=> /\ i \in DOMAIN games /\ games[i].match # NoMatch
                                     /\ \E k \in Sides : games[i].players[k] = u
  BY DEF CasualRows, RowsWith, TournamentRows
<1>4. \A i : i \in CasualRows(u)' <=> /\ i \in DOMAIN games' /\ games'[i].match # NoMatch
                                      /\ \E k \in Sides : games'[i].players[k] = u
  BY DEF CasualRows, RowsWith, TournamentRows
<1>5. \A i : i \in WonCasually(u) <=> /\ i \in DOMAIN games /\ games[i].match # NoMatch
                                      /\ games[i].winner = u
  BY DEF WonCasually, RowsWonBy, TournamentRows
<1>6. \A i : i \in WonCasually(u)' <=> /\ i \in DOMAIN games' /\ games'[i].match # NoMatch
                                       /\ games'[i].winner = u
  BY DEF WonCasually, RowsWonBy, TournamentRows
<1>7. last \notin CasualRows(u) /\ last \notin WonCasually(u)
  BY <1>2, <1>3, <1>5
<1>8. CasualRows(u)' = IF g.match # NoMatch /\ \E k \in Sides : g.players[k] = u
                       THEN CasualRows(u) \cup {last} ELSE CasualRows(u)
  <2>1. \A i : i \in CasualRows(u)' <=>
            \/ i \in CasualRows(u)
            \/ i = last /\ g.match # NoMatch /\ \E k \in Sides : g.players[k] = u
    BY <1>2, <1>3, <1>4
  <2> QED BY <2>1
<1>9. WonCasually(u)' = IF g.match # NoMatch /\ g.winner = u
                        THEN WonCasually(u) \cup {last} ELSE WonCasually(u)
  BY <1>2, <1>5, <1>6
<1> QED BY <1>7, <1>8, <1>9

LEMMA QuietIsTallied ==
    ASSUME IInv, Tally, Quiet PROVE Tally'
<1>1. \A u : Earned(u)' = Earned(u)
  BY EarnedIsKept DEF Quiet
<1>2. \A u : Owed(u)' = Owed(u) /\ PaidNow(u)' = PaidNow(u)
  BY DEF Quiet, Owed, PaidNow
<1>3. \A u : CasualRows(u)' = CasualRows(u) /\ WonCasually(u)' = WonCasually(u)
  BY RowsAreKept DEF Quiet
<1>4. score' = score /\ prizes' = prizes
  BY DEF Quiet
<1> QED BY <1>1, <1>2, <1>3, <1>4 DEF Tally, ScoreIsEarned, WinsArePaid

(* A match is decided for side k: one more is earned, and one more is owed. *)
LEMMA MatchIsTallied ==
    ASSUME IInv, OrdersAreTold, Tally, NEW m \in Matches, NEW k \in Sides,
           NEW g \in ToldRows, WonBy(m, k, g)
    PROVE  Tally'
<1> DEFINE o == Order(m, k, g)
<1> PICK w : w = PlayersOf(m)[k]
  OBVIOUS
<1>1. /\ writing' = writing \cup {o}
      /\ UNCHANGED <<games, score, paying, prizes>>
  BY DEF WonBy, CreateGames
<1>2. o.payee = w /\ o.row = g
  BY DEF Order
<1>3. w \in Users /\ w = UserOf[player[m][k]]
  BY PlayersAreUsers DEF PlayersOf, WonBy
<1>4. results[m][k] = 0
  BY DEF IInv, StagesAgree, WonBy
<1>5. o \notin writing \cup paying
  BY <1>2 DEF OrdersAreTold, WonBy
<1> HIDE DEF o
<1>6. \A u \in Users : Earned(u)' = IF u = w THEN Earned(u) \cup {<<m, k>>} ELSE Earned(u)
  <2> SUFFICES ASSUME NEW u \in Users, NEW n \in Matches, NEW j \in Sides
               PROVE  results'[n][j] > 0 /\ UserOf[player'[n][j]] = u
                         <=> \/ results[n][j] > 0 /\ UserOf[player[n][j]] = u
                             \/ u = w /\ n = m /\ j = k
    BY DEF Earned
  <2> QED BY <1>3, <1>4 DEF WonBy
<1>7. <<m, k>> \notin Earned(w)
  BY <1>4 DEF Earned
<1>8. \A u \in Users : Owed(u)' = IF u = w THEN Owed(u) \cup {o} ELSE Owed(u)
  BY <1>1, <1>2 DEF Owed
<1>9. o \notin Owed(w)
  BY <1>5 DEF Owed
<1>10. ASSUME NEW u \in Users
       PROVE  score'[u] + Cardinality(Owed(u)') = Cardinality(Earned(u)') + prizes'[u]
  <2> PICK owed, earned : owed = Owed(u) /\ earned = Earned(u)
    OBVIOUS
  <2>1. score[u] + Cardinality(owed) = Cardinality(earned) + prizes[u]
    BY DEF Tally, ScoreIsEarned
  <2>2. IsFiniteSet(owed) /\ IsFiniteSet(earned)
    BY OrdersAreFinite, EarnedIsFinite
  <2>3. Cardinality(owed) \in Nat /\ Cardinality(earned) \in Nat
        /\ score[u] \in Nat /\ prizes[u] \in Nat
    BY <2>2, FS_CardinalityType DEF Tally
  <2>4. score'[u] = score[u] /\ prizes'[u] = prizes[u]
    BY <1>1
  <2>5. CASE u = w
    <3>1. o \notin owed /\ <<m, k>> \notin earned
      BY <1>7, <1>9, <2>5
    <3>2. Cardinality(owed \cup {o}) = Cardinality(owed) + 1
      BY <2>2, <3>1, FS_AddElement
    <3>3. Cardinality(earned \cup {<<m, k>>}) = Cardinality(earned) + 1
      BY <2>2, <3>1, FS_AddElement
    <3>4. Cardinality(Owed(u)') = Cardinality(owed) + 1
      BY <1>8, <2>5, <3>2
    <3>5. Cardinality(Earned(u)') = Cardinality(earned) + 1
      BY <1>6, <2>5, <3>3
    <3> QED BY <2>1, <2>3, <2>4, <3>4, <3>5
  <2>6. CASE u # w
    <3>1. Owed(u)' = owed /\ Earned(u)' = earned
      BY <1>6, <1>8, <2>6
    <3> QED BY <2>1, <2>4, <3>1
  <2> QED BY <2>5, <2>6
<1>11. ASSUME NEW u \in Users PROVE WinsArePaid(u)'
  <2>1. CasualRows(u)' = CasualRows(u) /\ WonCasually(u)' = WonCasually(u)
    BY <1>1, RowsAreKept
  <2>2. PaidNow(u)' = PaidNow(u) /\ score' = score /\ prizes' = prizes
    BY <1>1 DEF PaidNow
  <2>3. WinsArePaid(u)
    BY DEF Tally
  <2> QED BY <2>1, <2>2, <2>3 DEF WinsArePaid
<1> QED BY <1>1, <1>10, <1>11 DEF Tally, ScoreIsEarned

(* The row is there: one more under way is a prize asked for. *)
LEMMA RowIsTallied ==
    ASSUME IInv, RowsAreTold, OrdersAreTold, Tally, NEW w \in writing, RowWritten(w),
           UNCHANGED vars
    PROVE  Tally'
<1> PICK g, payee : g = w.row /\ payee = w.payee
  OBVIOUS
<1>1. /\ games' = Append(games, g) /\ writing' = writing \ {w}
      /\ paying' = paying \cup {w} /\ score' = score /\ prizes' = prizes
  BY DEF RowWritten
<1>2. /\ g \in ToldRows /\ g.match \in Matches /\ payee \in Users
      /\ \E k \in Sides : g.players[k] = payee
      /\ g.winner \in {NoUser, payee}
      /\ w \notin paying
  BY DEF OrdersAreTold, Orders
<1>3. g.match # NoMatch
  BY <1>2, ConstantsAssumption DEF Matches, NoMatch
<1>4. \A u \in Users : Owed(u)' = Owed(u)
  BY <1>1 DEF Owed
<1>5. \A u \in Users : Earned(u)' = Earned(u)
  BY EarnedIsKept DEF vars, matchVars
<1>6. \A u \in Users : PaidNow(u)' = IF u = payee THEN PaidNow(u) \cup {w} ELSE PaidNow(u)
  BY <1>1 DEF PaidNow
<1>7. ASSUME NEW u \in Users PROVE WinsArePaid(u)'
  <2> PICK last : last = Len(games) + 1
    OBVIOUS
  <2> PICK casual, won, paid :
          casual = CasualRows(u) /\ won = WonCasually(u) /\ paid = PaidNow(u)
    OBVIOUS
  <2>1. /\ Cardinality(won) <= score[u] - prizes[u] + Cardinality(paid)
        /\ score[u] - prizes[u] + Cardinality(paid) <= Cardinality(casual)
    BY DEF Tally, WinsArePaid
  <2>2. IsFiniteSet(casual) /\ IsFiniteSet(won) /\ IsFiniteSet(paid)
    BY UserRows, OrdersAreFinite
  <2>3. /\ last \notin casual /\ last \notin won
        /\ CasualRows(u)' = IF g.match # NoMatch /\ \E k \in Sides : g.players[k] = u
                            THEN casual \cup {last} ELSE casual
        /\ WonCasually(u)' = IF g.match # NoMatch /\ g.winner = u
                             THEN won \cup {last} ELSE won
    BY <1>1, <1>2, RowIsAdded
  <2>4. /\ Cardinality(casual \cup {last}) = Cardinality(casual) + 1
        /\ Cardinality(won \cup {last}) = Cardinality(won) + 1
    BY <2>2, <2>3, FS_AddElement
  <2>5. /\ Cardinality(casual) \in Nat /\ Cardinality(won) \in Nat
        /\ Cardinality(paid) \in Nat /\ score[u] \in Nat /\ prizes[u] \in Nat
    BY <2>2, FS_CardinalityType DEF Tally
  <2>6. CASE u = payee
    <3>1. w \notin paid
      BY <1>2 DEF PaidNow
    <3>2. Cardinality(paid \cup {w}) = Cardinality(paid) + 1
      BY <2>2, <3>1, FS_AddElement
    <3>3. Cardinality(PaidNow(u)') = Cardinality(paid) + 1
      BY <1>6, <2>6, <3>2
    <3>4. Cardinality(CasualRows(u)') = Cardinality(casual) + 1
      BY <1>2, <1>3, <2>3, <2>4, <2>6
    <3>5. WonCasually(u)' = won \/ WonCasually(u)' = won \cup {last}
      BY <2>3
    <3>6. \/ Cardinality(WonCasually(u)') = Cardinality(won)
          \/ Cardinality(WonCasually(u)') = Cardinality(won) + 1
      BY <2>4, <3>5
    <3>7. Cardinality(WonCasually(u)') <= score[u] - prizes[u] + (Cardinality(paid) + 1)
      BY <2>1, <2>5, <3>6
    <3>8. score[u] - prizes[u] + (Cardinality(paid) + 1) <= Cardinality(casual) + 1
      BY <2>1, <2>5
    <3> QED BY <1>1, <3>3, <3>4, <3>7, <3>8 DEF WinsArePaid
  <2>7. CASE u # payee
    <3>1. PaidNow(u)' = paid
      BY <1>6, <2>7
    <3>2. WonCasually(u)' = won
      BY <1>2, <2>3, <2>7, HistoryAssumption
    <3>3. CasualRows(u)' = casual \/ CasualRows(u)' = casual \cup {last}
      BY <2>3
    <3>4. \/ Cardinality(CasualRows(u)') = Cardinality(casual)
          \/ Cardinality(CasualRows(u)') = Cardinality(casual) + 1
      BY <2>4, <3>3
    <3>5. score[u] - prizes[u] + Cardinality(paid) <= Cardinality(CasualRows(u)')
      BY <2>1, <2>5, <3>4
    <3> QED BY <1>1, <2>1, <3>1, <3>2, <3>5 DEF WinsArePaid
  <2> QED BY <2>6, <2>7
<1> QED BY <1>1, <1>4, <1>5, <1>7 DEF Tally, ScoreIsEarned

(* The score is there: one less under way. *)
LEMMA ScoreIsTallied ==
    ASSUME IInv, OrdersAreTold, Tally, NEW w \in paying, ScoreAdded(w), UNCHANGED vars
    PROVE  Tally'
<1> PICK payee : payee = w.payee
  OBVIOUS
<1>1. /\ games' = games /\ writing' = writing /\ paying' = paying \ {w}
      /\ prizes' = prizes /\ score' = [score EXCEPT ![payee] = @ + 1]
  BY DEF ScoreAdded, AddScore
<1>2. payee \in Users /\ w \notin writing
  BY DEF OrdersAreTold, Orders
<1>3. /\ score' \in [Users -> Nat]
      /\ \A u \in Users : score'[u] = IF u = payee THEN score[u] + 1 ELSE score[u]
  BY <1>1, <1>2 DEF Tally
<1>4. \A u \in Users : Earned(u)' = Earned(u)
  BY EarnedIsKept DEF vars, matchVars
<1>5. \A u \in Users :
          /\ Owed(u)' = IF u = payee THEN Owed(u) \ {w} ELSE Owed(u)
          /\ PaidNow(u)' = IF u = payee THEN PaidNow(u) \ {w} ELSE PaidNow(u)
  BY <1>1, <1>2 DEF Owed, PaidNow
<1>6. w \in Owed(payee) /\ w \in PaidNow(payee)
  BY DEF Owed, PaidNow
<1>7. \A u \in Users : CasualRows(u)' = CasualRows(u) /\ WonCasually(u)' = WonCasually(u)
  BY <1>1, RowsAreKept
<1>8. ASSUME NEW u \in Users
      PROVE  /\ score'[u] + Cardinality(Owed(u)') = Cardinality(Earned(u)') + prizes'[u]
             /\ score'[u] - prizes'[u] + Cardinality(PaidNow(u)')
                    = score[u] - prizes[u] + Cardinality(PaidNow(u))
  <2> PICK owed, paid, earned :
          owed = Owed(u) /\ paid = PaidNow(u) /\ earned = Earned(u)
    OBVIOUS
  <2>1. score[u] + Cardinality(owed) = Cardinality(earned) + prizes[u]
    BY DEF Tally, ScoreIsEarned
  <2>2. IsFiniteSet(owed) /\ IsFiniteSet(paid) /\ IsFiniteSet(earned)
    BY OrdersAreFinite, EarnedIsFinite
  <2>3. Cardinality(owed) \in Nat /\ Cardinality(paid) \in Nat
        /\ Cardinality(earned) \in Nat /\ score[u] \in Nat /\ prizes[u] \in Nat
    BY <2>2, FS_CardinalityType DEF Tally
  <2>4. Earned(u)' = earned /\ prizes'[u] = prizes[u]
    BY <1>1, <1>4
  <2>5. CASE u = payee
    <3>1. w \in owed /\ w \in paid
      BY <1>6, <2>5
    <3>2. Cardinality(owed \ {w}) = Cardinality(owed) - 1
      BY <2>2, <3>1, FS_RemoveElement
    <3>3. Cardinality(paid \ {w}) = Cardinality(paid) - 1
      BY <2>2, <3>1, FS_RemoveElement
    <3>4. Cardinality(Owed(u)') = Cardinality(owed) - 1
      BY <1>5, <2>5, <3>2
    <3>5. Cardinality(PaidNow(u)') = Cardinality(paid) - 1
      BY <1>5, <2>5, <3>3
    <3>6. score'[u] = score[u] + 1
      BY <1>3, <2>5
    <3>7. (score[u] + 1) + (Cardinality(owed) - 1) = Cardinality(earned) + prizes[u]
      BY <2>1, <2>3
    <3>8. (score[u] + 1) - prizes[u] + (Cardinality(paid) - 1)
              = score[u] - prizes[u] + Cardinality(paid)
      BY <2>3
    <3>9. Cardinality(Earned(u)') = Cardinality(earned)
      BY <2>4
    <3> QED BY <2>4, <3>4, <3>5, <3>6, <3>7, <3>8, <3>9
  <2>6. CASE u # payee
    <3>1. Owed(u)' = owed /\ PaidNow(u)' = paid /\ score'[u] = score[u]
      BY <1>3, <1>5, <2>6
    <3> QED BY <2>1, <2>4, <3>1
  <2> QED BY <2>5, <2>6
<1>9. ASSUME NEW u \in Users PROVE WinsArePaid(u)'
  <2>1. WinsArePaid(u)
    BY DEF Tally
  <2> PICK sum : sum = score[u] - prizes[u] + Cardinality(PaidNow(u))
    OBVIOUS
  <2>2. score'[u] - prizes'[u] + Cardinality(PaidNow(u)') = sum
    BY <1>8
  <2>3. CasualRows(u)' = CasualRows(u) /\ WonCasually(u)' = WonCasually(u)
    BY <1>7
  <2>4. Cardinality(WonCasually(u)) <= sum /\ sum <= Cardinality(CasualRows(u))
    BY <2>1 DEF WinsArePaid
  <2>5. Cardinality(WonCasually(u)') <= sum /\ sum <= Cardinality(CasualRows(u)')
    BY <2>3, <2>4
  <2> QED BY <2>2, <2>5 DEF WinsArePaid
<1>10. prizes' \in [Users -> Nat]
  BY <1>1 DEF Tally
<1>11. ScoreIsEarned'
  BY <1>8 DEF ScoreIsEarned
<1> QED BY <1>3, <1>9, <1>10, <1>11 DEF Tally

(* Tournaments add rows that are not casual, and prizes. *)
LEMMA TournamentGameIsTallied ==
    ASSUME IInv, RowsAreTold, Tally, NEW u \in Users, NEW v \in Users,
           TournamentGame(u, v), UNCHANGED vars
    PROVE  Tally'
<1>1. \A x \in Users : Earned(x)' = Earned(x)
  BY EarnedIsKept DEF vars, matchVars
<1>2. UNCHANGED <<score, prizes, writing, paying>>
  BY DEF TournamentGame
<1>3. \A x \in Users : Owed(x)' = Owed(x) /\ PaidNow(x)' = PaidNow(x)
  BY <1>2 DEF Owed, PaidNow
<1>4. PICK g \in ToldRows : g.match = NoMatch /\ games' = Append(games, g)
  BY TournamentIsTold
<1>5. ASSUME NEW x \in Users
      PROVE  CasualRows(x)' = CasualRows(x) /\ WonCasually(x)' = WonCasually(x)
  <2> PICK last : last = Len(games) + 1
    OBVIOUS
  <2>1. /\ CasualRows(x)' = IF g.match # NoMatch /\ \E k \in Sides : g.players[k] = x
                            THEN CasualRows(x) \cup {last} ELSE CasualRows(x)
        /\ WonCasually(x)' = IF g.match # NoMatch /\ g.winner = x
                             THEN WonCasually(x) \cup {last} ELSE WonCasually(x)
    BY <1>4, RowIsAdded
  <2> QED BY <1>4, <2>1
<1> QED BY <1>1, <1>2, <1>3, <1>5 DEF Tally, ScoreIsEarned, WinsArePaid

LEMMA TournamentPaysIsTallied ==
    ASSUME IInv, OrdersAreTold, Tally, NEW u \in Users, TournamentPays(u), UNCHANGED vars
    PROVE  Tally'
<1> PICK p : p = TournamentPrize
  OBVIOUS
<1>1. /\ UNCHANGED <<games, writing, paying>>
      /\ score' = [score EXCEPT ![u] = @ + p] /\ prizes' = [prizes EXCEPT ![u] = @ + p]
      /\ p \in Nat
  BY HistoryAssumption DEF TournamentPays, AddScore
<1>2. /\ score' \in [Users -> Nat] /\ prizes' \in [Users -> Nat]
      /\ \A x \in Users : \/ score'[x] = score[x] /\ prizes'[x] = prizes[x]
                          \/ score'[x] = score[x] + p /\ prizes'[x] = prizes[x] + p
  BY <1>1 DEF Tally
<1>3. \A x \in Users : Earned(x)' = Earned(x)
  BY EarnedIsKept DEF vars, matchVars
<1>4. \A x \in Users : Owed(x)' = Owed(x) /\ PaidNow(x)' = PaidNow(x)
  BY <1>1 DEF Owed, PaidNow
<1>5. \A x \in Users : CasualRows(x)' = CasualRows(x) /\ WonCasually(x)' = WonCasually(x)
  BY <1>1, RowsAreKept
<1>6. ASSUME NEW x \in Users
      PROVE  /\ score'[x] + Cardinality(Owed(x)') = Cardinality(Earned(x)') + prizes'[x]
             /\ WinsArePaid(x)'
  <2> PICK owed, paid, earned :
          owed = Cardinality(Owed(x)) /\ paid = Cardinality(PaidNow(x))
          /\ earned = Cardinality(Earned(x))
    OBVIOUS
  <2>1. owed \in Nat /\ paid \in Nat /\ earned \in Nat /\ score[x] \in Nat /\ prizes[x] \in Nat
    BY OrdersAreFinite, EarnedIsFinite, FS_CardinalityType DEF Tally
  <2>2. score[x] + owed = earned + prizes[x]
    BY DEF Tally, ScoreIsEarned
  <2>3. /\ Cardinality(Owed(x)') = owed /\ Cardinality(PaidNow(x)') = paid
        /\ Cardinality(Earned(x)') = earned
    BY <1>3, <1>4
  <2>4. score'[x] + owed = earned + prizes'[x]
    BY <1>1, <1>2, <2>1, <2>2
  <2>5. score'[x] - prizes'[x] + paid = score[x] - prizes[x] + paid
    BY <1>1, <1>2, <2>1
  <2>6. /\ Cardinality(WonCasually(x)) <= score[x] - prizes[x] + paid
        /\ score[x] - prizes[x] + paid <= Cardinality(CasualRows(x))
    BY DEF Tally, WinsArePaid
  <2>7. WinsArePaid(x)'
    BY <1>5, <2>3, <2>5, <2>6 DEF WinsArePaid
  <2> QED BY <2>3, <2>4, <2>7
<1> QED BY <1>2, <1>6 DEF Tally, ScoreIsEarned

LEMMA HistoryIsTallied ==
    IInv /\ GoalsBounded /\ RowsAreTold /\ OrdersAreTold /\ Tally
         /\ [HistoryNext]_<<vars, tableVars>>
        => Tally'
<1> SUFFICES ASSUME IInv, GoalsBounded, RowsAreTold, OrdersAreTold, Tally,
                    [HistoryNext]_<<vars, tableVars>>
             PROVE  Tally'
  OBVIOUS
<1>1. CASE Wins
  BY <1>1, MatchIsTallied DEF Wins
<1> QED
  BY <1>1, HistorySteps, QuietIsTallied, RowIsTallied, ScoreIsTallied,
     TournamentGameIsTallied, TournamentPaysIsTallied

LEMMA NewestOf ==
    ASSUME NEW S \in SUBSET Nat, IsFiniteSet(S), NEW j \in 1..Cardinality(S)
    PROVE  Newest(S, j) \in S /\ Cardinality({k \in S : k > Newest(S, j)}) = j - 1
<1> DEFINE above(i) == {k \in S : k > i}
           f == [i \in S |-> Cardinality(above(i)) + 1]
           T == 1..Cardinality(S)
<1>1. Cardinality(S) \in Nat
  BY FS_CardinalityType
<1>2. ASSUME NEW i \in S PROVE IsFiniteSet(above(i)) /\ Cardinality(above(i)) \in Nat
  <2>1. above(i) \in SUBSET S
    OBVIOUS
  <2> HIDE DEF above
  <2> QED BY <2>1, FS_Subset, FS_CardinalityType
<1>3. ASSUME NEW i \in S, NEW B \in SUBSET S, \A k \in above(i) : k \in B, i \in B
      PROVE  Cardinality(above(i)) + 1 <= Cardinality(B)
  <2>1. IsFiniteSet(B)
    BY FS_Subset
  <2>0. i \notin above(i)
    BY <1>3
  <2> HIDE DEF above
  <2>2. above(i) \cup {i} \in SUBSET B
    BY <1>3
  <2>3. Cardinality(above(i) \cup {i}) = Cardinality(above(i)) + 1
    BY <1>2, <2>0, FS_AddElement
  <2>4. Cardinality(above(i) \cup {i}) <= Cardinality(B)
    BY <2>1, <2>2, FS_Subset
  <2> QED BY <2>3, <2>4
<1>4. \A i \in S : Cardinality(above(i)) + 1 \in T
  <2> SUFFICES ASSUME NEW i \in S PROVE Cardinality(above(i)) + 1 \in T
    OBVIOUS
  <2>1. \A k \in above(i) : k \in S
    OBVIOUS
  <2> HIDE DEF above
  <2>2. Cardinality(above(i)) + 1 <= Cardinality(S)
    BY <1>3, <2>1
  <2> QED BY <1>1, <1>2, <2>2
<1>5. ASSUME NEW i \in S, NEW l \in S, i > l
      PROVE  Cardinality(above(i)) # Cardinality(above(l))
  <2>1. above(l) \in SUBSET S /\ i \in above(l) /\ \A k \in above(i) : k \in above(l)
    BY <1>5
  <2> HIDE DEF above
  <2>2. Cardinality(above(i)) + 1 <= Cardinality(above(l))
    BY <1>3, <2>1
  <2> QED BY <1>2, <2>2
<1>6. f \in Injection(S, T)
  <2>1. f \in [S -> T]
    BY <1>4
  <2>2. ASSUME NEW i \in S, NEW l \in S, f[i] = f[l] PROVE i = l
    <3> HIDE DEF above
    <3>1. Cardinality(above(i)) = Cardinality(above(l))
      BY <1>2, <2>2
    <3>2. ~(i > l) /\ ~(l > i)
      BY <1>5, <3>1
    <3> QED BY <3>2
  <2> QED BY <2>1, <2>2 DEF Injection, IsInjective
<1>7. IsFiniteSet(T) /\ Cardinality(T) = Cardinality(S)
  BY <1>1, FS_Interval
<1>8. f \in Surjection(S, T)
  <2> HIDE DEF f, T
  <2> QED BY <1>6, <1>7, FS_Injection
<1>9. PICK i \in S : f[i] = j
  BY <1>8 DEF Surjection
<1>10. Cardinality(above(i)) = j - 1
  <2> HIDE DEF above
  <2> QED BY <1>2, <1>9
<1> QED BY <1>10, Zenon DEF Newest

LEMMA CountAlong ==
    ASSUME NEW T, IsFiniteSet(T), NEW S, NEW f \in Bijection(T, S), NEW W \in SUBSET S
    PROVE  Cardinality({j \in T : f[j] \in W}) = Cardinality(W)
<1> DEFINE P == {j \in T : f[j] \in W}
           g == [j \in P |-> f[j]]
<1>1. /\ f \in [T -> S]
      /\ \A i, j \in T : f[i] = f[j] => i = j
      /\ \A s \in S : \E j \in T : f[j] = s
  BY DEF Bijection, Injection, Surjection, IsInjective
<1>2. IsFiniteSet(P)
  BY FS_Subset
<1>3. g \in [P -> W] /\ \A i, j \in P : g[i] = g[j] => i = j
  BY <1>1
<1>4. \A s \in W : \E j \in P : g[j] = s
  BY <1>1
<1>5. g \in Bijection(P, W)
  <2> HIDE DEF P, g
  <2> QED BY <1>3, <1>4 DEF Bijection, Injection, Surjection, IsInjective
<1> HIDE DEF P, g
<1>6. ExistsBijection(P, W)
  BY <1>5 DEF ExistsBijection
<1>7. Cardinality(W) = Cardinality(P)
  BY <1>2, <1>6, FS_Bijection
<1> QED BY <1>7 DEF P

LEMMA NewestFirst ==
    ASSUME NEW S \in SUBSET Nat, IsFiniteSet(S)
    PROVE  [j \in 1..Cardinality(S) |-> Newest(S, j)] \in Bijection(1..Cardinality(S), S)
<1> DEFINE T == 1..Cardinality(S)
           f == [j \in T |-> Newest(S, j)]
<1>1. Cardinality(S) \in Nat
  BY FS_CardinalityType
<1>2. ASSUME NEW i \in T, NEW j \in T, Newest(S, i) = Newest(S, j) PROVE i = j
  <2>1. /\ Cardinality({k \in S : k > Newest(S, i)}) = i - 1
        /\ Cardinality({k \in S : k > Newest(S, j)}) = j - 1
    BY NewestOf
  <2>2. i - 1 = j - 1
    BY <1>2, <2>1
  <2> QED BY <1>1, <2>2
<1>3. \A j \in T : Newest(S, j) \in S
  BY NewestOf
<1>4. f \in Injection(T, S)
  <2>1. f \in [T -> S] /\ \A i, j \in T : f[i] = f[j] => i = j
    BY <1>2, <1>3
  <2> QED BY <2>1 DEF Injection, IsInjective
<1>5. IsFiniteSet(T) /\ Cardinality(T) = Cardinality(S)
  BY <1>1, FS_Interval
<1>6. f \in Surjection(T, S)
  <2> HIDE DEF f, T
  <2> QED BY <1>4, <1>5, FS_Injection
<1> QED BY <1>4, <1>6 DEF Bijection

LEMMA CardTellsWinner == \A g, u : FormattedGame(g, u).won = (g.winner = u)
<1> SUFFICES ASSUME NEW g, NEW u PROVE FormattedGame(g, u).won = (g.winner = u)
  OBVIOUS
<1> PICK k : k = IF g.players[1] = u THEN 1 ELSE 2
  OBVIOUS
<1> DEFINE card == [match |-> g.match, opponent |-> g.players[3 - k], score |-> g.goals[k],
                    opponentScore |-> g.goals[3 - k], won |-> g.winner = u]
<1>1. FormattedGame(g, u) = card
  BY Zenon DEF FormattedGame
<1>2. card.won = (g.winner = u)
  BY Zenon
<1> QED BY <1>1, <1>2, Zenon

(* As long as the cards of a user show every casual row, they count as the
   figures without those of tournaments. *)
LEMMA CardsCount ==
    ASSUME RowsAreTold, NEW u \in Users, Cardinality(CasualRows(u)) <= HistoryLimit,
           NEW cards, cards = GameHistory(u)
    PROVE  /\ Cardinality({i \in DOMAIN cards : cards[i].won = TRUE})
                  = Cardinality(WonCasually(u))
           /\ Cardinality({i \in DOMAIN cards : cards[i].won = FALSE})
                  = Cardinality(CasualRows(u) \ WonCasually(u))
<1> PICK with, won : with = CasualRows(u) /\ won = WonCasually(u)
  OBVIOUS
<1> DEFINE n == Cardinality(with)
           T == 1..n
           f == [j \in T |-> Newest(with, j)]
<1>1. /\ with \in SUBSET (DOMAIN games) /\ with \in SUBSET Nat /\ IsFiniteSet(with)
      /\ won \in SUBSET with
  <2>1. /\ RowsWith(u) \in SUBSET (DOMAIN games) /\ RowsWith(u) \in SUBSET Nat
        /\ with \in SUBSET RowsWith(u) /\ IsFiniteSet(with)
        /\ won \in SUBSET with
    BY UserRows
  <2> QED BY <2>1
<1>2. n \in Nat /\ IsFiniteSet(T)
  BY <1>1, FS_CardinalityType, FS_Interval
<1>3. n <= HistoryLimit /\ HistoryLimit \in Nat
  BY DEF HistoryLimit
<1>4. f \in Bijection(T, with)
  BY <1>1, NewestFirst
<1>5. f \in [T -> with] /\ \A j \in T : f[j] = Newest(with, j)
  BY <1>4 DEF Bijection, Injection
<1>6. (IF n < HistoryLimit THEN n ELSE HistoryLimit) = n
  BY <1>2, <1>3
<1>7. UserGameHistory(u) = [j \in T |-> games[Newest(with, j)]]
  BY <1>6 DEF UserGameHistory
<1> HIDE DEF f, T
<1>8. DOMAIN cards = T /\ \A j \in T : cards[j] = FormattedGame(games[f[j]], u)
  BY <1>5, <1>7 DEF GameHistory
<1>9. ASSUME NEW j \in T
      PROVE  cards[j].won \in BOOLEAN /\ (cards[j].won <=> f[j] \in won)
  <2> PICK g : g = games[f[j]]
    OBVIOUS
  <2>1. cards[j] = FormattedGame(g, u)
    BY <1>8
  <2>2. cards[j].won = (g.winner = u)
    <3>1. FormattedGame(g, u).won = (g.winner = u)
      BY CardTellsWinner, Zenon
    <3>2. cards[j].won = FormattedGame(g, u).won
      BY <2>1
    <3> QED BY <3>1, <3>2, Zenon
  <2>3. f[j] \in DOMAIN games
    BY <1>1, <1>5
  <2>4. f[j] \in won <=> g.winner = u
    <3>1. f[j] \notin TournamentRows
      BY <1>5 DEF CasualRows
    <3> QED BY <2>3, <3>1 DEF WonCasually, RowsWonBy
  <2> QED BY <2>2, <2>4, Zenon
<1>11. {i \in DOMAIN cards : cards[i].won = TRUE} = {j \in T : f[j] \in won}
  BY <1>8, <1>9
<1>12. {i \in DOMAIN cards : cards[i].won = FALSE} = {j \in T : f[j] \in with \ won}
  BY <1>5, <1>8, <1>9
<1>13. Cardinality({j \in T : f[j] \in won}) = Cardinality(won)
  BY <1>1, <1>2, <1>4, CountAlong
<1>14. Cardinality({j \in T : f[j] \in with \ won}) = Cardinality(with \ won)
  BY <1>2, <1>4, CountAlong
<1> QED BY <1>11, <1>12, <1>13, <1>14

LEMMA Apart ==
    ASSUME NEW A, NEW B, IsFiniteSet(A)
    PROVE  Cardinality(A) = Cardinality(A \ B) + Cardinality(A \cap B)
<1> PICK X, Y : X = A \ B /\ Y = A \cap B
  OBVIOUS
<1>1. IsFiniteSet(X) /\ IsFiniteSet(Y)
  <2>1. X \in SUBSET A /\ Y \in SUBSET A
    OBVIOUS
  <2> QED BY <2>1, FS_Subset
<1>2. X \cup Y = A /\ X \cap Y = {}
  OBVIOUS
<1>3. Cardinality(X \cup Y) = Cardinality(X) + Cardinality(Y) - Cardinality(X \cap Y)
  BY <1>1, FS_Union
<1>4. Cardinality({}) = 0 /\ Cardinality(X) \in Nat /\ Cardinality(Y) \in Nat
  BY <1>1, FS_EmptySet, FS_CardinalityType
<1>5. Cardinality(A) = Cardinality(X) + Cardinality(Y) - 0
  BY <1>2, <1>3, <1>4
<1> QED BY <1>4, <1>5

(* The figures, split into casual rows and those of tournaments. *)
LEMMA FiguresSplit ==
    ASSUME RowsAreTold, NEW u \in Users
    PROVE  /\ UserStats(u).win_count = Cardinality(WonCasually(u))
                  + Cardinality(RowsWonBy(u) \cap TournamentRows)
           /\ UserStats(u).lose_count = Cardinality(CasualRows(u) \ WonCasually(u))
                  + Cardinality((RowsWith(u) \cap TournamentRows) \ RowsWonBy(u))
<1> PICK with, won, tour, lost :
        with = RowsWith(u) /\ won = RowsWonBy(u) /\ tour = TournamentRows /\ lost = with \ won
  OBVIOUS
<1>1. IsFiniteSet(won) /\ IsFiniteSet(with)
  BY UserRows
<1>2. IsFiniteSet(lost)
  <2>1. lost \in SUBSET with
    OBVIOUS
  <2> QED BY <1>1, <2>1, FS_Subset
<1>3. Cardinality(won) = Cardinality(won \ tour) + Cardinality(won \cap tour)
  BY <1>1, Apart
<1>4. Cardinality(lost) = Cardinality(lost \ tour) + Cardinality(lost \cap tour)
  BY <1>2, Apart
<1>5. /\ WonCasually(u) = won \ tour
      /\ CasualRows(u) \ WonCasually(u) = lost \ tour
      /\ (with \cap tour) \ won = lost \cap tour
  BY DEF WonCasually, CasualRows
<1>6. UserStats(u).win_count = Cardinality(won) /\ UserStats(u).lose_count = Cardinality(lost)
  BY DEF UserStats
<1> QED BY <1>3, <1>4, <1>5, <1>6

LEMMA HistoryInitTallied == HistoryInit => Tally
<1> SUFFICES ASSUME HistoryInit PROVE Tally
  OBVIOUS
<1>1. /\ score \in [Users -> Nat] /\ \A u \in Users : score[u] = 0
      /\ prizes \in [Users -> Nat] /\ \A u \in Users : prizes[u] = 0
  BY DEF HistoryInit
<1>2. \A u : Earned(u) = {}
  <2>1. \A m \in Matches, k \in Sides : ~(results[m][k] > 0)
    BY DEF HistoryInit, Init
  <2>2. \A u, e : e \in Earned(u) => e[1] \in Matches /\ e[2] \in Sides /\ results[e[1]][e[2]] > 0
    BY DEF Earned
  <2> QED BY <2>1, <2>2
<1>3. DOMAIN games = {}
  BY DEF HistoryInit
<1>4. \A u : CasualRows(u) = {} /\ WonCasually(u) = {}
  BY <1>3 DEF CasualRows, WonCasually, RowsWith, RowsWonBy
<1>5. \A u : Owed(u) = {} /\ PaidNow(u) = {}
  BY DEF HistoryInit, Owed, PaidNow
<1>6. Cardinality({}) = 0
  BY FS_EmptySet
<1>7. ScoreIsEarned
  <2>1. \A u \in Users : 0 + Cardinality({}) = Cardinality({}) + 0
    BY <1>6
  <2> QED BY <1>1, <1>2, <1>5, <2>1 DEF ScoreIsEarned
<1>8. \A u \in Users : WinsArePaid(u)
  <2>1. Cardinality({}) <= 0 - 0 + Cardinality({}) /\ 0 - 0 + Cardinality({}) <= Cardinality({})
    BY <1>6
  <2> QED BY <1>1, <1>4, <1>5, <2>1 DEF WinsArePaid
<1> QED BY <1>1, <1>7, <1>8 DEF Tally

(* For any number of users, connections and matches, in every order of goals,
   leavers, lost connections, answers of the database and games of tournaments:
   a profile read at any moment has its tables in range, its score is what was
   earned but for the prizes under way, its figures count its cards and the rows
   of tournaments as long as the cards show every other row, a win that is told
   has its prize, and a prize has its row. *)
THEOREM ProfileIsRight == HistorySpec => []ProfileAddsUp
<1>1. RowsAreTold /\ Tally => ProfileAddsUp
  <2> SUFFICES ASSUME RowsAreTold, Tally PROVE ProfileAddsUp
    OBVIOUS
  <2>1. HistoryTypeOK
    <3> SUFFICES ASSUME NEW i \in DOMAIN games
                 PROVE  /\ games[i].match \in Matches \cup {NoMatch}
                        /\ games[i].players \in [Sides -> Users]
                        /\ games[i].goals \in [Sides -> 0..WinGoals \cup {3}]
                        /\ games[i].winner \in Users \cup {NoUser}
      BY DEF HistoryTypeOK, Tally
    <3>1. games[i] \in Rows
      BY DEF RowsAreTold, ToldRows
    <3> QED BY <3>1 DEF Rows, Points
  <2>2. ASSUME NEW u \in Users
        PROVE  LET cards == GameHistory(u)
                   count(won) == Cardinality({i \in DOMAIN cards : cards[i].won = won})
                   won == RowsWonBy(u)
               IN  /\ Cardinality(CasualRows(u)) <= HistoryLimit =>
                          /\ UserStats(u).win_count
                                = count(TRUE) + Cardinality(won \cap TournamentRows)
                          /\ UserStats(u).lose_count
                                = count(FALSE)
                                    + Cardinality((RowsWith(u) \cap TournamentRows) \ won)
                   /\ Cardinality(won \ TournamentRows)
                          <= score[u] - prizes[u] + Cardinality(PaidNow(u))
                   /\ score[u] - prizes[u] + Cardinality(PaidNow(u))
                          <= Cardinality(CasualRows(u))
    <3>1. WinsArePaid(u)
      BY DEF Tally
    <3>2. Cardinality(CasualRows(u)) <= HistoryLimit =>
              /\ Cardinality({i \in DOMAIN GameHistory(u) : GameHistory(u)[i].won = TRUE})
                     = Cardinality(WonCasually(u))
              /\ Cardinality({i \in DOMAIN GameHistory(u) : GameHistory(u)[i].won = FALSE})
                     = Cardinality(CasualRows(u) \ WonCasually(u))
      BY CardsCount
    <3> QED BY <3>1, <3>2, FiguresSplit DEF WinsArePaid, WonCasually
  <2>3. ScoreIsEarned
    BY DEF Tally
  <2> QED BY <2>1, <2>2, <2>3 DEF ProfileAddsUp
<1>2. HistoryInit => Tally
  BY HistoryInitTallied
<1> QED BY <1>1, <1>2, RowsInvariance, HistoryIsTallied, PTL DEF HistorySpec

(***************************************************************************)
(* LocalGame: the table.                                                   *)
(***************************************************************************)

\* The step of a paddle in a frame.
Stride(o) == (o.speed * 3) \div 2

\* A paddle is beyond the edge by less than a step.
Places(o) == (1 - Stride(o))..(Height - o.paddle - 1 + Stride(o))

\* The ball is on the table and will be after the next frame, too; it flies at
\* its speed.
Balls == [x : Int, y : Int, vx : Int, vy : Int]

Flying(b, o) ==
    /\ b \in Balls
    /\ b.y \in 0..Height /\ b.y + b.vy \in 0..Height
    /\ b.vy \in (-o.ball)..o.ball
    /\ b.vx \in {o.speed, -o.speed}

InPlay == Flying(ball, opts) /\ paddle \in [Ends -> Places(opts)]

\* The ball was served n frames ago at most.
Near(n) == ball.x \in (Width \div 2 - n * opts.speed)..(Width \div 2 + n * opts.speed)

(***************************************************************************)
(* LocalGame: the verdict.                                                 *)
(***************************************************************************)

Fresh(v) == v.paused /\ v.winner = Undecided /\ v.score = Cleared.score

\* A timed game: the effects have decided once they saw that the time is up.
TimedGame ==
    /\ view.seconds <= rendered.seconds /\ rendered.seconds <= seen.seconds
    /\ seen.seconds > 0 => view.winner = Undecided
    /\ seen.seconds <= 0 => view.winner = Ahead(seen.score)

Under(v, k) == v.score[k] < opts.limit

\* What is left of a classic game when all its effects have run.
Fine(v) ==
    IF v.winner = Undecided THEN \A k \in Ends : Under(v, k)
    ELSE /\ v.winner \in Ends /\ v.paused
         /\ v.score[v.winner] = opts.limit /\ Under(v, 3 - v.winner)

\* The changes that are waiting for their effects: the end of the countdown, a
\* goal, and the verdict about it.
StartWaits == Fresh(seen) /\ view = [seen EXCEPT !.paused = FALSE]

GoalWaits(k) ==
    /\ ~seen.paused /\ seen.winner = Undecided
    /\ \A j \in Ends : Under(seen, j)
    /\ view = [seen EXCEPT !.score[k] = @ + 1]
    /\ IF late THEN Near(1) ELSE Near(0)

VerdictWaits(k) ==
    /\ ~seen.paused /\ seen.winner = Undecided
    /\ seen.score[k] = opts.limit /\ Under(seen, 3 - k)
    /\ view = [seen EXCEPT !.paused = TRUE, !.winner = k]
    /\ late \/ Near(1)

ClassicGame ==
    /\ {view.seconds, rendered.seconds, seen.seconds} \subseteq Nat \ {0}
    /\ rendered \in {seen, view}
    /\ \/ counter > 0
       \/ view = seen /\ Fine(view)
       \/ StartWaits
       \/ \E k \in Ends : GoalWaits(k) \/ VerdictWaits(k)

\* A game that was decided before it began, by the score of another: the effects
\* see no frame, and the score stays as it is.
Stuck ==
    /\ {view.seconds, rendered.seconds, seen.seconds} \subseteq Nat \ {0}
    /\ rendered = seen \/ rendered = view
    /\ view.score = Cleared.score /\ view.winner # Undecided
    /\ seen.paused \/ seen.winner # Undecided

\* The countdown: only the score may still have to be rendered.
Waiting ==
    /\ view.paused /\ rendered.paused /\ seen.paused
    /\ view.seconds > 0 /\ rendered.seconds > 0 /\ seen.seconds > 0
    /\ view.score = Cleared.score
    /\ Inherits \/ view.winner = Undecided

Shown ==
    /\ InPlay
    /\ counter > 0 => Waiting
    /\ opts.mode = "timed" => TimedGame
    /\ Inherits => Stuck
    /\ opts.mode = "classic" /\ ~Inherits => ClassicGame

\* Other pages find the context as a game is to start with, but for the scores
\* of a game over the network.
Away ==
    /\ view.paused /\ view.winner = Undecided
    /\ page # "online" => view.score = Cleared.score

\* A local game is opened from its settings.
Ordered == \A i \in 2..Len(history) : history[i] = "local" => history[i - 1] = "create"

GameInv ==
    /\ LocalTypeOK
    /\ Ordered
    /\ IF page = "local" THEN Shown ELSE Away

----------------------------------------------------------------------------
(* The table. *)
Options == [mode : Modes, limit : Limits, time : Times, speed : Speeds,
            ball : BallSizes, paddle : PaddleSizes]

(* What TableAssumption says of the settings. *)
LEMMA Sizes ==
    ASSUME NEW o \in Options
    PROVE  /\ Width \in Nat /\ Height \in Nat /\ Column \in Nat /\ Column > 0
           /\ o.speed \in Nat /\ 1 <= o.speed /\ o.speed <= Column
           /\ o.ball \in Nat /\ 2 * o.ball <= Height
           /\ 2 * (Column + o.ball) < Width
           /\ o.paddle \in Nat /\ o.paddle <= Height
           /\ 2 * o.speed + o.ball <= Width \div 2
           /\ Stride(o) \in Nat /\ 1 <= Stride(o)
           /\ Stride(o) <= o.paddle \div 2 + 1
           /\ (o.ball + o.paddle - o.paddle \div 2) \div Spin <= o.ball
           /\ o.limit \in Nat \ {0} /\ o.time \in Nat \ {0}
<1>1. /\ o.speed \in Speeds /\ o.ball \in BallSizes /\ o.paddle \in PaddleSizes
      /\ o.limit \in Limits /\ o.time \in Times
    BY DEF Options
<1>2. o.speed \in 1..Column /\ Column \in Nat
    BY <1>1, TableAssumption, SizesAssumption
<1>3. Stride(o) \in Nat /\ 1 <= Stride(o)
    BY <1>2 DEF Stride
<1>4. Stride(o) <= o.paddle \div 2 + 1
    BY <1>1, TableAssumption DEF Stride
<1>5. (o.ball + o.paddle - o.paddle \div 2) \div Spin <= o.ball
    BY <1>1, TableAssumption
<1>6. 2 * o.speed + o.ball <= Width \div 2
    BY <1>1, TableAssumption
<1>7. o.ball \in Nat /\ 2 * o.ball <= Height /\ 2 * (Column + o.ball) < Width
    BY <1>1, TableAssumption
<1>8. o.paddle \in Nat /\ o.paddle <= Height
    BY <1>1, TableAssumption
<1>9. o.limit \in Nat \ {0} /\ o.time \in Nat \ {0}
    BY <1>1, SizesAssumption
<1>10. Width \in Nat /\ Height \in Nat /\ Column > 0
    BY SizesAssumption
<1>11. 1 <= o.speed /\ o.speed <= Column /\ o.speed \in Nat
    BY <1>2
<1> HIDE DEF Stride
<1> QED BY <1>2, <1>3, <1>4, <1>5, <1>6, <1>7, <1>8, <1>9, <1>10, <1>11

(* Dividing by Spin is monotone, and makes a number no larger. *)
LEMMA DivSmaller ==
    ASSUME NEW n \in Nat
    PROVE  n \div Spin \in Nat /\ n \div Spin <= n
<1> PICK m : m = Spin
    OBVIOUS
<1>1. m \in Nat /\ m >= 1
    BY SizesAssumption
<1>2. PICK q : q = n \div m
    OBVIOUS
<1>3. q \in Int /\ n = m * q + (n % m) /\ n % m \in 0..(m - 1)
    BY <1>1, <1>2
<1>4. q >= 0
    <2>1. SUFFICES ASSUME q <= -1 PROVE FALSE
        BY <1>3
    <2>2. m * q <= -m
        BY <1>1, <1>3, <2>1
    <2> QED BY <1>1, <1>3, <2>2
<1>5. m * q >= q
    BY <1>1, <1>3, <1>4
<1>6. q \in Nat /\ q <= n
    BY <1>1, <1>3, <1>4, <1>5
<1>7. n \div Spin = q
    BY <1>2
<1> QED BY <1>6, <1>7

LEMMA DivMono ==
    ASSUME NEW a \in Nat, NEW b \in Nat, a <= b
    PROVE  a \div Spin <= b \div Spin
<1> PICK m : m = Spin
    OBVIOUS
<1>1. m \in Nat /\ m >= 1
    BY SizesAssumption
<1>2. PICK q : q = a \div m
    OBVIOUS
<1>3. PICK r : r = b \div m
    OBVIOUS
<1>4. q \in Int /\ a = m * q + (a % m) /\ a % m \in 0..(m - 1)
    BY <1>1, <1>2
<1>5. r \in Int /\ b = m * r + (b % m) /\ b % m \in 0..(m - 1)
    BY <1>1, <1>3
<1>6. q <= r
    <2>1. SUFFICES ASSUME r + 1 <= q PROVE FALSE
        BY <1>4, <1>5
    <2>2. m * (r + 1) <= m * q
        BY <1>1, <1>4, <1>5, <2>1
    <2>3. m * (r + 1) = m * r + m
        BY <1>1, <1>5
    <2> QED BY <1>1, <1>4, <1>5, <2>2, <2>3
<1> QED BY <1>2, <1>3, <1>6

(* A paddle turns the ball by no more than the ball's radius, and never off
   the table: the middle of a paddle is on the table. *)
LEMMA TwistBounds ==
    ASSUME NEW o \in Options, NEW n \in Int,
           n >= -(o.ball + o.paddle - o.paddle \div 2),
           n <= o.ball + o.paddle - o.paddle \div 2
    PROVE  /\ Twist(n) \in (-o.ball)..o.ball
           /\ n >= 0 => 0 <= Twist(n) /\ Twist(n) <= n
           /\ n <= 0 => Twist(n) <= 0 /\ n <= Twist(n)
<1> PICK most : most = o.ball + o.paddle - o.paddle \div 2
    OBVIOUS
<1>1. most \in Nat /\ most \div Spin <= o.ball /\ o.ball \in Nat
    BY Sizes
<1>2. CASE n < 0
    <2>1. PICK m : m = -n
        OBVIOUS
    <2>2. m \in Nat /\ m <= most
        BY <1>1, <1>2, <2>1
    <2>3. m \div Spin \in Nat /\ m \div Spin <= m /\ m \div Spin <= most \div Spin
        BY <1>1, <2>2, DivSmaller, DivMono
    <2>4. most \div Spin \in Nat
        BY <1>1, DivSmaller
    <2>5. Twist(n) = -(m \div Spin)
        BY <1>2, <2>1 DEF Twist
    <2> HIDE DEF Twist
    <2> QED BY <1>1, <1>2, <2>1, <2>2, <2>3, <2>4, <2>5
<1>3. CASE n >= 0
    <2>1. n \in Nat /\ n <= most
        BY <1>1, <1>3
    <2>2. n \div Spin \in Nat /\ n \div Spin <= n /\ n \div Spin <= most \div Spin
        BY <1>1, <2>1, DivSmaller, DivMono
    <2>3. most \div Spin \in Nat
        BY <1>1, DivSmaller
    <2>4. Twist(n) = n \div Spin
        BY <1>3 DEF Twist
    <2> QED BY <1>1, <1>3, <2>1, <2>2, <2>3, <2>4
<1> QED BY <1>2, <1>3

Centre(y, o) == y + o.paddle \div 2

LEMMA CentreOnTable ==
    ASSUME NEW o \in Options, NEW y \in Places(o)
    PROVE  Centre(y, o) \in 0..Height
BY Sizes DEF Places, Centre

(* A paddle keeps within its places. *)
LEMMA MovedInPlace ==
    ASSUME NEW o \in Options, NEW y \in Places(o), NEW up \in BOOLEAN,
           NEW down \in BOOLEAN
    PROVE  Moved(y, up, down, o) \in Places(o)
<1> PICK s : s = Stride(o)
    OBVIOUS
<1> PICK r : r = IF up /\ y > 0 THEN y - s ELSE y
    OBVIOUS
<1>1. s \in Nat /\ s >= 1 /\ Height \in Nat /\ o.paddle \in Nat /\ o.paddle <= Height
    BY Sizes
<1>2. y \in Int /\ 1 - s <= y /\ y <= Height - o.paddle - 1 + s
    BY <1>1 DEF Places
<1>3. r \in Int /\ 1 - s <= r /\ r <= Height - o.paddle - 1 + s
    BY <1>1, <1>2
<1>4. Moved(y, up, down, o) = IF down /\ r + o.paddle < Height THEN r + s ELSE r
    BY DEF Moved, Stride
<1> QED BY <1>1, <1>3, <1>4 DEF Places

LEMMA MiddleInPlace ==
    ASSUME NEW o \in Options
    PROVE  Middle(o.paddle) \in [Ends -> Places(o)]
<1>1. Height \div 2 - o.paddle \div 2 \in Places(o)
    BY Sizes DEF Places
<1> QED BY <1>1 DEF Middle

LEMMA KickoffFlies ==
    ASSUME NEW o \in Options
    PROVE  Flying(Kickoff(o.speed), o) /\ Kickoff(o.speed).x = Width \div 2
BY Sizes DEF Kickoff, Flying, Balls

(* A ball that a paddle has turned, or that has passed both. *)
Turned(g, b, o) ==
    /\ g \in Balls /\ g.y = b.y
    /\ g.vx \in {o.speed, -o.speed} /\ g.vy \in (-o.ball)..o.ball
    /\ \/ g = b
       \/ /\ \/ g.x = Column + o.ball /\ b.x - o.ball <= Column
             \/ g.x = Width - Column - o.ball /\ b.x + o.ball >= Width - Column
          /\ g.y >= g.vy /\ g.y <= Height + g.vy

LEMMA SliceBounds ==
    ASSUME NEW o \in Options, NEW b \in Balls, NEW y \in Places(o),
           b.y \in 0..Height, Meets(b, y, o)
    PROVE  /\ Slice(b, y, o) \in (-o.ball)..o.ball
           /\ b.y >= Slice(b, y, o) /\ b.y <= Height + Slice(b, y, o)
<1> PICK n : n = b.y - Centre(y, o)
    OBVIOUS
<1>1. Centre(y, o) \in 0..Height /\ Height \in Nat
    BY CentreOnTable, Sizes
<1>2. y \in Int /\ o.ball \in Nat /\ o.paddle \in Nat
    BY Sizes DEF Places
<1>3. n \in Int /\ n <= b.y /\ b.y - Height <= n
    BY <1>1
<1>4. n >= -(o.ball + o.paddle - o.paddle \div 2)
      /\ n <= o.ball + o.paddle - o.paddle \div 2
    BY <1>1, <1>2 DEF Meets, Centre
<1>5. Slice(b, y, o) = Twist(n)
    BY DEF Slice, Centre
<1>6. /\ Twist(n) \in (-o.ball)..o.ball
      /\ n >= 0 => 0 <= Twist(n) /\ Twist(n) <= n
      /\ n <= 0 => Twist(n) <= 0 /\ n <= Twist(n)
    BY <1>3, <1>4, TwistBounds
<1>7. PICK t : t = Twist(n)
    OBVIOUS
<1>8. t \in Int
    BY <1>2, <1>6, <1>7
<1>9. b.y >= t /\ b.y <= Height + t
    BY <1>1, <1>3, <1>6, <1>7, <1>8
<1> QED BY <1>5, <1>6, <1>7, <1>9

LEMMA LeftHit ==
    ASSUME NEW o \in Options, NEW b \in Balls, NEW y \in Places(o),
           b.y \in 0..Height, b.vx \in {o.speed, -o.speed},
           b.vy \in (-o.ball)..o.ball
    PROVE  /\ Turned(HitLeft(b, y, o), b, o)
           /\ HitLeft(b, y, o) = b \/ HitLeft(b, y, o).x = Column + o.ball
<1>0. o.speed \in Nat /\ o.ball \in Nat /\ Column \in Nat
    BY Sizes
<1>1. CASE b.x - o.ball <= Column /\ Meets(b, y, o)
    <2>1. PICK t : t = Slice(b, y, o)
        OBVIOUS
    <2>2. t \in (-o.ball)..o.ball /\ b.y >= t /\ b.y <= Height + t
        BY <1>1, <2>1, SliceBounds
    <2>3. HitLeft(b, y, o) =
              [b EXCEPT !.vx = Magnitude(@), !.vy = t, !.x = Column + o.ball]
        BY <1>1, <2>1 DEF HitLeft
    <2>4. Magnitude(b.vx) = o.speed
        BY <1>0 DEF Magnitude
    <2>5. PICK g : g = [x |-> Column + o.ball, y |-> b.y, vx |-> o.speed, vy |-> t]
        OBVIOUS
    <2>6. HitLeft(b, y, o) = g
        BY <2>3, <2>4, <2>5 DEF Balls
    <2>7. g \in Balls /\ g.y = b.y /\ g.vx = o.speed /\ g.vy = t /\ g.x = Column + o.ball
        BY <1>0, <2>2, <2>5 DEF Balls
    <2> QED BY <1>1, <2>2, <2>6, <2>7 DEF Turned
<1>2. CASE ~(b.x - o.ball <= Column /\ Meets(b, y, o))
    BY <1>2 DEF HitLeft, Turned
<1> QED BY <1>1, <1>2

LEMMA RightHit ==
    ASSUME NEW o \in Options, NEW b \in Balls, NEW y \in Places(o),
           b.y \in 0..Height, b.vx \in {o.speed, -o.speed},
           b.vy \in (-o.ball)..o.ball
    PROVE  Turned(HitRight(b, y, o), b, o)
<1>0. o.speed \in Nat /\ o.ball \in Nat /\ Column \in Nat /\ Width \in Nat
    BY Sizes
<1>1. CASE b.x + o.ball >= Width - Column /\ Meets(b, y, o)
    <2>1. PICK t : t = Slice(b, y, o)
        OBVIOUS
    <2>2. t \in (-o.ball)..o.ball /\ b.y >= t /\ b.y <= Height + t
        BY <1>1, <2>1, SliceBounds
    <2>3. HitRight(b, y, o) =
              [b EXCEPT !.vx = -Magnitude(@), !.vy = t, !.x = Width - Column - o.ball]
        BY <1>1, <2>1 DEF HitRight
    <2>4. Magnitude(b.vx) = o.speed
        BY <1>0 DEF Magnitude
    <2>5. PICK g : g = [x |-> Width - Column - o.ball, y |-> b.y, vx |-> -o.speed,
                        vy |-> t]
        OBVIOUS
    <2>6. HitRight(b, y, o) = g
        BY <2>3, <2>4, <2>5 DEF Balls
    <2>7. g \in Balls /\ g.y = b.y /\ g.vx = -o.speed /\ g.vy = t
          /\ g.x = Width - Column - o.ball
        BY <1>0, <2>2, <2>5 DEF Balls
    <2> QED BY <1>1, <2>2, <2>6, <2>7 DEF Turned
<1>2. CASE ~(b.x + o.ball >= Width - Column /\ Meets(b, y, o))
    BY <1>2 DEF HitRight, Turned
<1> QED BY <1>1, <1>2

LEMMA BothHits ==
    ASSUME NEW o \in Options, NEW b \in Balls, NEW y \in Places(o), NEW z \in Places(o),
           b.y \in 0..Height, b.vx \in {o.speed, -o.speed},
           b.vy \in (-o.ball)..o.ball
    PROVE  Turned(HitRight(HitLeft(b, y, o), z, o), b, o)
<1> PICK g : g = HitLeft(b, y, o)
    OBVIOUS
<1>1. Turned(g, b, o) /\ (g = b \/ g.x = Column + o.ball)
    BY LeftHit
<1>2. CASE g = b
    BY <1>2, RightHit
<1>3. CASE g.x = Column + o.ball
    <2>1. ~(g.x + o.ball >= Width - Column)
        BY <1>3, Sizes
    <2>2. HitRight(g, z, o) = g
        BY <2>1 DEF HitRight
    <2> QED BY <1>1, <2>2
<1> QED BY <1>1, <1>2, <1>3

(* Where a frame takes the ball: it is not thrown off the table above or
   below, and passes a paddle's column by its speed at most; it is hit on its
   way to the middle only. *)
Flew(f, b, o) ==
    /\ Flying(f, o)
    /\ f.x \in {b.x + b.vx, Column + o.ball, Width - Column - o.ball}
    /\ f.x = Column + o.ball => b.x + b.vx <= f.x
    /\ f.x = Width - Column - o.ball => b.x + b.vx >= f.x

LEMMA MovedBall ==
    ASSUME NEW o \in Options, NEW b, Flying(b, o)
    PROVE  /\ Move(b) \in Balls /\ Move(b).x = b.x + b.vx
           /\ Move(b).y = b.y + b.vy /\ Move(b).y \in 0..Height
           /\ Move(b).vx = b.vx /\ Move(b).vy = b.vy
<1>1. b \in Balls /\ b.y + b.vy \in 0..Height
    BY DEF Flying
<1>2. PICK x : x = b.x + b.vx
    OBVIOUS
<1>3. PICK y : y = b.y + b.vy
    OBVIOUS
<1>4. x \in Int /\ y \in Int /\ y \in 0..Height
    BY <1>1, <1>2, <1>3 DEF Balls
<1>5. Move(b) = [b EXCEPT !.x = x, !.y = y]
    BY <1>2, <1>3 DEF Move
<1>6. /\ Move(b) \in Balls /\ Move(b).x = x /\ Move(b).y = y
      /\ Move(b).vx = b.vx /\ Move(b).vy = b.vy
    BY <1>1, <1>4, <1>5 DEF Balls
<1> QED BY <1>2, <1>3, <1>4, <1>6

LEMMA Bounced ==
    ASSUME NEW o \in Options, NEW b \in Balls, NEW g, Turned(g, b, o),
           b.y \in 0..Height, b.y - b.vy \in 0..Height
    PROVE  Flying(Bounce(g, o), o) /\ Bounce(g, o).x = g.x
<1>0. o.speed \in Nat /\ o.ball \in Nat /\ 2 * o.ball <= Height /\ Height \in Nat
    BY Sizes
<1>1. /\ g \in Balls /\ g.y \in 0..Height
      /\ g.vx \in {o.speed, -o.speed} /\ g.vy \in (-o.ball)..o.ball
    BY DEF Turned
<1>2. g.y >= g.vy /\ g.y <= Height + g.vy
    <2>1. g = b => g.y >= g.vy /\ g.y <= Height + g.vy
        BY <1>0, <1>1 DEF Balls
    <2> QED BY <2>1 DEF Turned
<1>3. g.y \in Int /\ g.vy \in Int /\ g.x \in Int /\ g.vx \in Int
    BY <1>1 DEF Balls
<1>4. CASE g.y - o.ball <= 0 \/ g.y + o.ball >= Height
    <2>1. PICK f : f = [g EXCEPT !.vy = -@]
        OBVIOUS
    <2>2. Bounce(g, o) = f
        BY <1>4, <2>1 DEF Bounce
    <2>3. f \in Balls /\ f.x = g.x /\ f.y = g.y /\ f.vx = g.vx /\ f.vy = -g.vy
        BY <1>1, <1>3, <2>1 DEF Balls
    <2>4. f.y + f.vy \in 0..Height /\ f.vy \in (-o.ball)..o.ball
        BY <1>0, <1>1, <1>2, <1>3, <2>3
    <2> QED BY <1>1, <2>2, <2>3, <2>4 DEF Flying
<1>5. CASE ~(g.y - o.ball <= 0 \/ g.y + o.ball >= Height)
    <2>1. Bounce(g, o) = g
        BY <1>5 DEF Bounce
    <2>2. g.y + g.vy \in 0..Height
        BY <1>0, <1>1, <1>3, <1>5
    <2> QED BY <1>1, <2>1, <2>2 DEF Flying
<1> QED BY <1>4, <1>5

LEMMA FlownBall ==
    ASSUME NEW o \in Options, NEW b, Flying(b, o),
           NEW y \in Places(o), NEW z \in Places(o)
    PROVE  Flew(Bounce(HitRight(HitLeft(Move(b), y, o), z, o), o), b, o)
<1> PICK m : m = Move(b)
    OBVIOUS
<1> PICK g : g = HitRight(HitLeft(m, y, o), z, o)
    OBVIOUS
<1>1. /\ m \in Balls /\ m.x = b.x + b.vx /\ m.y = b.y + b.vy /\ m.y \in 0..Height
      /\ m.vx = b.vx /\ m.vy = b.vy
    BY MovedBall
<1>2. /\ b \in Balls /\ b.y \in 0..Height
      /\ b.vx \in {o.speed, -o.speed} /\ b.vy \in (-o.ball)..o.ball
    BY DEF Flying
<1>3. m.y - m.vy \in 0..Height
    BY <1>1, <1>2 DEF Balls
<1>4. Turned(g, m, o)
    BY <1>1, <1>2, BothHits
<1>5. Flying(Bounce(g, o), o) /\ Bounce(g, o).x = g.x
    BY <1>1, <1>3, <1>4, Bounced
<1>6. /\ g.x \in {m.x, Column + o.ball, Width - Column - o.ball}
      /\ g.x = Column + o.ball => m.x <= g.x
      /\ g.x = Width - Column - o.ball => m.x >= g.x
    <2>1. m.x \in Int /\ o.ball \in Nat /\ Column \in Nat /\ Width \in Nat
          /\ 2 * (Column + o.ball) < Width
        BY <1>1, Sizes DEF Balls
    <2>2. CASE g = m
        BY <2>1, <2>2
    <2>3. CASE g.x = Column + o.ball /\ m.x - o.ball <= Column
        BY <2>1, <2>3
    <2>4. CASE g.x = Width - Column - o.ball /\ m.x + o.ball >= Width - Column
        BY <2>1, <2>4
    <2> QED BY <1>4, <2>2, <2>3, <2>4 DEF Turned
<1> HIDE DEF Bounce
<1> QED BY <1>1, <1>5, <1>6 DEF Flew

LEMMA ServedBall ==
    ASSUME NEW o \in Options, NEW f, Flying(f, o), NEW ps \in [Ends -> Places(o)],
           NEW k \in Ends
    PROVE  Flying(Served(f, k, ps, o), o) /\ Served(f, k, ps, o).x = Width \div 2
<1> PICK c : c = Centre(ps[k], o)
    OBVIOUS
<1> PICK v : v = IF k = 1 THEN o.speed ELSE -o.speed
    OBVIOUS
<1>1. c \in 0..Height /\ Height \in Nat
    BY CentreOnTable, Sizes
<1>2. v \in {o.speed, -o.speed} /\ v \in Int /\ o.ball \in Nat
    BY Sizes
<1>3. k # 0
    BY DEF Ends
<1>4. Served(f, k, ps, o) = [x |-> Width \div 2, y |-> c, vy |-> 0, vx |-> v]
    BY <1>3 DEF Served, Centre
<1>5. Width \div 2 \in Int
    BY Sizes
<1> QED BY <1>1, <1>2, <1>4, <1>5 DEF Flying, Balls

(* A missed ball was beside the paddle a frame before, and not a frame after a
   service.  Its speed is not more than the width of the paddle. *)
LEMMA MissedBall ==
    ASSUME NEW o \in Options, NEW b, Flying(b, o), NEW f, Flew(f, b, o)
    PROVE  /\ Missed(f, o) \in {0} \cup Ends
           /\ Missed(f, o) = 1 => b.x - o.ball <= Column
           /\ Missed(f, o) = 2 => b.x + o.ball >= Width - Column
           /\ b.x \in (Width \div 2 - o.speed)..(Width \div 2 + o.speed) =>
                  Missed(f, o) = 0
           /\ b.x = Width \div 2 =>
                  f.x \in (Width \div 2 - o.speed)..(Width \div 2 + o.speed)
<1>1. /\ Width \in Nat /\ Column \in Nat /\ Column > 0 /\ o.ball \in Nat
      /\ o.speed \in Nat /\ o.speed <= Column /\ 2 * (Column + o.ball) < Width
      /\ 2 * o.speed + o.ball <= Width \div 2
    BY Sizes
<1>2. b.x \in Int /\ b.vx \in Int /\ b.vx >= -o.speed /\ b.vx <= o.speed
    BY <1>1 DEF Flying, Balls
<1>3. /\ f.x \in {b.x + b.vx, Column + o.ball, Width - Column - o.ball}
      /\ f.x = Column + o.ball => b.x + b.vx <= f.x
      /\ f.x = Width - Column - o.ball => b.x + b.vx >= f.x
    BY DEF Flew
<1>4. f.x \in Int
    BY <1>1, <1>2, <1>3
<1>5. f.x - o.ball < 0 => b.x - o.ball <= Column
    BY <1>1, <1>2, <1>3
<1>6. f.x + o.ball > Width => b.x + o.ball >= Width - Column
    BY <1>1, <1>2, <1>3
<1>7. b.x \in (Width \div 2 - o.speed)..(Width \div 2 + o.speed) =>
          ~(f.x - o.ball < 0) /\ ~(f.x + o.ball > Width)
    BY <1>1, <1>2, <1>3
<1>8. b.x = Width \div 2 =>
          f.x \in (Width \div 2 - o.speed)..(Width \div 2 + o.speed)
    BY <1>1, <1>2, <1>3
<1>9. \/ Missed(f, o) = 1 /\ f.x - o.ball < 0
      \/ Missed(f, o) = 2 /\ f.x + o.ball > Width
      \/ Missed(f, o) = 0
    BY DEF Missed
<1> QED BY <1>5, <1>6, <1>7, <1>8, <1>9 DEF Ends

(* What a frame does: it flies the ball, or counts a goal when the ball was
   beside the paddle, and then serves it. *)
Scores(k) ==
    /\ view.score[k] < MaxScore
    /\ view' = [view EXCEPT !.score[k] = @ + 1]
    /\ Beside(ball, 3 - k) /\ ~Near(0) /\ ~Near(1) /\ Near(0)'

LEMMA FrameFlight ==
    ASSUME opts \in Options, InPlay, Frame
    PROVE  /\ InPlay'
           /\ \/ UNCHANGED view /\ (Near(0) => Near(1)')
              \/ \E k \in Ends : Scores(k)
<1> PICK o : o = opts
    OBVIOUS
<1> PICK b : b = ball
    OBVIOUS
<1>1. o \in Options /\ Flying(b, o) /\ paddle \in [Ends -> Places(o)] /\ opts' = o
    BY DEF InPlay, Frame
<1>2. PICK ps : ps = paddle'
    OBVIOUS
<1>3. ps \in [Ends -> Places(o)]
    <2>1. PICK up, down : /\ up \in [Ends -> BOOLEAN] /\ down \in [Ends -> BOOLEAN]
                          /\ ps = [k \in Ends |-> Moved(paddle[k], up[k], down[k], o)]
        BY <1>2 DEF Frame
    <2>2. ASSUME NEW k \in Ends
          PROVE  Moved(paddle[k], up[k], down[k], o) \in Places(o)
        BY <1>1, <2>1, MovedInPlace
    <2> QED BY <2>1, <2>2
<1>4. PICK f : f = Bounce(HitRight(HitLeft(Move(b), ps[1], o), ps[2], o), o)
    OBVIOUS
<1>5. Flew(f, b, o)
    <2>1. ps[1] \in Places(o) /\ ps[2] \in Places(o)
        BY <1>3 DEF Ends
    <2> QED BY <1>1, <1>4, <2>1, FlownBall
<1>6. Flown(paddle') = f
    BY <1>2, <1>4 DEF Flown
<1>7. PICK side : side = Missed(f, o)
    OBVIOUS
<1>8. /\ ball' = Served(f, side, ps, o)
      /\ IF side = 0 THEN UNCHANGED view
         ELSE /\ view.score[3 - side] < MaxScore
              /\ view' = [view EXCEPT !.score[3 - side] = @ + 1]
    BY <1>2, <1>6, <1>7 DEF Frame
<1>9. /\ side \in {0} \cup Ends
      /\ side = 1 => b.x - o.ball <= Column
      /\ side = 2 => b.x + o.ball >= Width - Column
      /\ b.x \in (Width \div 2 - o.speed)..(Width \div 2 + o.speed) => side = 0
      /\ b.x = Width \div 2 =>
             f.x \in (Width \div 2 - o.speed)..(Width \div 2 + o.speed)
    BY <1>1, <1>5, <1>7, MissedBall
<1>10. Flying(f, o)
    BY <1>5 DEF Flew
<1>11. /\ Width \div 2 \in Int /\ o.speed \in Nat /\ b.x \in Int
    BY <1>1, Sizes DEF Flying, Balls
<1>12. /\ Near(0) => b.x = Width \div 2
       /\ Near(1) => b.x \in (Width \div 2 - o.speed)..(Width \div 2 + o.speed)
    BY <1>11 DEF Near
<1>13. CASE side = 0
    <2>1. ball' = f
        BY <1>8, <1>13 DEF Served
    <2>2. UNCHANGED view
        BY <1>8, <1>13
    <2>3. Near(0) => Near(1)'
        <3>1. SUFFICES ASSUME b.x = Width \div 2 PROVE Near(1)'
            BY <1>12
        <3>2. f.x \in (Width \div 2 - 1 * o.speed)..(Width \div 2 + 1 * o.speed)
            BY <1>9, <1>11, <3>1
        <3> QED BY <1>1, <2>1, <3>2 DEF Near
    <2>4. InPlay'
        BY <1>1, <1>2, <1>3, <1>10, <2>1 DEF InPlay
    <2> QED BY <2>2, <2>3, <2>4
<1>14. CASE side \in Ends
    <2>1. side # 0 /\ 3 - side \in Ends /\ 3 - (3 - side) = side
        BY <1>14 DEF Ends
    <2>2. Flying(ball', o) /\ (ball').x = Width \div 2
        BY <1>1, <1>3, <1>8, <1>10, <1>14, ServedBall
    <2>3. InPlay'
        BY <1>1, <1>2, <1>3, <2>2 DEF InPlay
    <2>4. Beside(ball, side)
        <3>1. side = 1 \/ side = 2
            BY <1>14 DEF Ends
        <3> QED BY <1>9, <3>1 DEF Beside
    <2>5. ~Near(0) /\ ~Near(1)
        <3>1. b.x = Width \div 2 =>
                  b.x \in (Width \div 2 - o.speed)..(Width \div 2 + o.speed)
            BY <1>11
        <3> QED BY <1>9, <1>12, <2>1, <3>1
    <2>6. Near(0)'
        <3>1. Width \div 2 \in (Width \div 2 - 0 * o.speed)..(Width \div 2 + 0 * o.speed)
            BY <1>11
        <3> QED BY <1>1, <2>2, <3>1 DEF Near
    <2>7. Scores(3 - side)
        BY <1>8, <2>1, <2>4, <2>5, <2>6 DEF Scores
    <2> QED BY <2>1, <2>3, <2>7
<1> QED BY <1>9, <1>13, <1>14

----------------------------------------------------------------------------
(* Pages. *)
Pages == {"home", "create", "local", "online"}

LEMMA PageFacts ==
    ASSUME LocalTypeOK
    PROVE  /\ history \in Seq(Pages) /\ Len(history) \in 1..MaxPages
           /\ page \in Pages /\ opts \in Options
           /\ view \in Views /\ rendered \in Views /\ seen \in Views
<1>1. history \in Seq(Pages) /\ Len(history) \in 1..MaxPages
    BY DEF LocalTypeOK, Pages
<1>2. Len(history) \in 1..Len(history)
    BY <1>1, SizesAssumption
<1>3. page \in Pages
    BY <1>1, <1>2, ElementOfSeq DEF page
<1> QED BY <1>1, <1>3 DEF LocalTypeOK, Options

LEMMA FreshCleared == Cleared \in Views /\ Fresh(Cleared)
BY SizesAssumption DEF Cleared, Views, Fresh, Ends, Undecided, Draw

(* A page leaves the context as it found it. *)
LEMMA LeavesClean ==
    ASSUME GameInv
    PROVE  /\ CleanUp.opts \in Options /\ CleanUp.named \in BOOLEAN
           /\ CleanUp.view \in Views /\ Fresh(CleanUp.view)
<1>1. /\ LocalTypeOK /\ page \in Pages /\ opts \in Options /\ view \in Views
      /\ named \in BOOLEAN
    BY PageFacts DEF GameInv, LocalTypeOK
<1>2. CASE page = "local"
    <2>1. CleanUp = [opts |-> ResetOptions, view |-> ResetGame, named |-> named]
        BY <1>2 DEF CleanUp
    <2>2. ResetOptions \in Options
        BY <1>1, SizesAssumption DEF ResetOptions, Options
    <2> QED BY <1>1, <2>1, <2>2, FreshCleared DEF ResetGame
<1>3. CASE page = "online"
    <2>1. PICK z : z = Cleared.score
        OBVIOUS
    <2>2. PICK v : v = [view EXCEPT !.score = z]
        OBVIOUS
    <2>3. CleanUp = [opts |-> opts, named |-> FALSE, view |-> v]
        BY <1>3, <2>1, <2>2 DEF CleanUp
    <2>4. z \in [Ends -> 0..MaxScore]
        BY <2>1, FreshCleared DEF Views
    <2>5. v \in Views /\ v.score = z /\ v.paused = view.paused /\ v.winner = view.winner
        BY <1>1, <2>2, <2>4 DEF Views
    <2>6. view.paused /\ view.winner = Undecided
        BY <1>3 DEF GameInv, Away
    <2>7. Fresh(v)
        BY <2>1, <2>5, <2>6 DEF Fresh
    <2> QED BY <1>1, <2>3, <2>5, <2>7
<1>4. CASE page # "local" /\ page # "online"
    <2>1. CleanUp = [opts |-> opts, view |-> view, named |-> named]
        BY <1>4 DEF CleanUp
    <2>2. Fresh(view)
        BY <1>4 DEF GameInv, Away, Fresh
    <2> QED BY <1>1, <2>1, <2>2
<1> QED BY <1>2, <1>3, <1>4

(* What the effect that watches the limit does: nothing, or a verdict. *)
Idle(points) == opts.mode = "timed" \/ \A k \in Ends : ~Reached(points, k)

WatchedLimit(v, points, n) ==
    /\ n \in Views /\ n.score = v.score /\ n.seconds = v.seconds
    /\ Idle(points) => n = v
    /\ ~Idle(points) => n.paused /\ n.winner # Undecided

LEMMA LimitedView ==
    ASSUME NEW v \in Views, NEW points, NEW n, n = Limited(v, points)
    PROVE  WatchedLimit(v, points, n)
<1>1. PICK w : w = IF \A k \in Ends : points[k] = opts.limit THEN Draw
                   ELSE IF Reached(points, 2) THEN 2 ELSE 1
    OBVIOUS
<1>2. w \in {Draw, 1, 2}
    BY <1>1
<1>3. CASE Idle(points)
    BY <1>3 DEF Limited, Idle, WatchedLimit
<1>4. CASE ~Idle(points)
    <2>1. n = [v EXCEPT !.paused = TRUE, !.winner = w]
        BY <1>1, <1>4 DEF Limited, Idle
    <2>2. w \in {Undecided, Draw} \cup Ends /\ w # Undecided
        BY <1>2 DEF Undecided, Draw, Ends
    <2>3. n \in Views /\ n.score = v.score /\ n.seconds = v.seconds
          /\ n.paused /\ n.winner # Undecided
        BY <2>1, <2>2 DEF Views
    <2> QED BY <1>4, <2>3 DEF WatchedLimit
<1> QED BY <1>3, <1>4

LEMMA WithSeconds ==
    ASSUME NEW v \in Views, NEW t \in Int, NEW n, n = [v EXCEPT !.seconds = t]
    PROVE  /\ n \in Views /\ n.seconds = t /\ n.score = v.score
           /\ n.paused = v.paused /\ n.winner = v.winner
BY DEF Views

(* A game that is shown is fresh, unless it takes over a score. *)
LEMMA ShowInv ==
    ASSUME GameInv, NEW pages \in Seq(Pages), Len(pages) \in 1..MaxPages, Show(pages),
           Ordered', pages[Len(pages)] = "local" => page # "local"
    PROVE  GameInv'
<1> PICK o : o = CleanUp.opts
    OBVIOUS
<1> PICK w : w = CleanUp.view
    OBVIOUS
<1> PICK t : t = opts.time
    OBVIOUS
<1> PICK f : f = [view EXCEPT !.seconds = t]
    OBVIOUS
<1> PICK v : v = [w EXCEPT !.seconds = t]
    OBVIOUS
<1> PICK s : s = f.score
    OBVIOUS
<1> PICK n : n = Limited(v, s)
    OBVIOUS
<1>1. o \in Options /\ w \in Views /\ Fresh(w) /\ CleanUp.named \in BOOLEAN
    BY LeavesClean
<1>2. LocalTypeOK /\ opts \in Options /\ view \in Views
    BY PageFacts DEF GameInv
<1>3. t \in Nat \ {0} /\ opts.limit \in Nat \ {0} /\ opts.mode \in Modes
    BY <1>2, Sizes DEF Options
<1>4. /\ f \in Views /\ f.seconds = t /\ f.score = view.score
      /\ f.paused = view.paused /\ f.winner = view.winner
    BY <1>2, <1>3, WithSeconds
<1>5. /\ v \in Views /\ v.seconds = t /\ v.score = w.score
      /\ v.paused = w.paused /\ v.winner = w.winner
    BY <1>1, <1>3, WithSeconds
<1>6. Fresh(v)
    BY <1>1, <1>5 DEF Fresh
<1>7. /\ n \in Views /\ n.score = v.score /\ n.seconds = v.seconds
      /\ Idle(s) => n = v
      /\ ~Idle(s) => n.paused /\ n.winner # Undecided
    <2>1. WatchedLimit(v, s, n)
        BY <1>5, LimitedView
    <2> QED BY <2>1 DEF WatchedLimit
<1>8. /\ history' = pages /\ opts' = o /\ named' \in BOOLEAN
      /\ late' = FALSE /\ counter' = CountFrom /\ dialog' = CountFrom
      /\ ball' = Kickoff(opts.speed) /\ paddle' = Middle(opts.paddle)
    BY <1>1 DEF Show
<1>9. Flying(Kickoff(opts.speed), opts) /\ Middle(opts.paddle) \in [Ends -> Places(opts)]
    BY <1>2, KickoffFlies, MiddleInPlace
<1>10. ASSUME view' \in Views, rendered' \in Views, seen' \in Views,
              carried' \in [Ends -> 0..MaxScore]
       PROVE  LocalTypeOK'
    <2>1. BallOnTable'
        BY <1>8, <1>9 DEF BallOnTable, Flying
    <2>2. Places(opts) \subseteq Int
        BY <1>2, Sizes DEF Places
    <2>3. paddle' \in [Ends -> Int]
        BY <1>8, <1>9, <2>2
    <2>4. CountFrom \in 0..CountFrom /\ CountFrom \in 1..CountFrom
        BY SizesAssumption
    <2> QED BY <1>1, <1>8, <1>10, <2>1, <2>3, <2>4 DEF LocalTypeOK, Pages, Options
<1>11. CASE pages[Len(pages)] = "local"
    <2>1. /\ rendered' = f /\ seen' = f /\ view' = n /\ carried' = s
        BY <1>11 DEF Show
    <2>2. page # "local" /\ Away
        BY <1>11 DEF GameInv
    <2>3. o = opts
        BY <2>2 DEF CleanUp
    <2>4. f.paused /\ f.winner = Undecided
        BY <1>4, <2>2 DEF Away
    <2>5. LocalTypeOK'
        <3>1. s \in [Ends -> 0..MaxScore]
            BY <1>4 DEF Views
        <3> QED BY <1>4, <1>7, <1>10, <2>1, <3>1
    <2>6. InPlay'
        BY <1>8, <1>9, <2>3 DEF InPlay
    <2>7. Inherits' <=> ~Idle(s)
        BY <1>3, <1>8, <2>1, <2>3 DEF Inherits, Reached, Modes, Idle
    <2>8. n.paused /\ (Inherits' \/ n.winner = Undecided)
        BY <1>6, <1>7, <2>7 DEF Fresh
    <2>9. Waiting'
        <3>1. n.seconds > 0 /\ f.seconds > 0
            BY <1>3, <1>4, <1>5, <1>7
        <3>2. n.score = Cleared.score
            BY <1>6, <1>7 DEF Fresh
        <3>3. /\ n.paused /\ f.paused /\ f.paused
              /\ n.seconds > 0 /\ f.seconds > 0 /\ f.seconds > 0
              /\ n.score = Cleared.score
              /\ Inherits' \/ n.winner = Undecided
            BY <2>4, <2>8, <3>1, <3>2
        <3> QED BY <2>1, <3>3 DEF Waiting, Cleared
    <2>10. opts.mode = "timed" => TimedGame'
        <3>1. n.seconds = t /\ f.seconds = t /\ t <= t /\ ~(t <= 0)
            BY <1>3, <1>4, <1>5, <1>7
        <3>2. opts.mode = "timed" => n.winner = Undecided
            BY <1>6, <1>7 DEF Idle, Fresh
        <3> QED BY <2>1, <3>1, <3>2 DEF TimedGame
    <2>11. Inherits' => Stuck'
        BY <1>3, <1>4, <1>5, <1>6, <1>7, <2>1, <2>4, <2>7 DEF Stuck, Fresh
    <2>12. opts.mode = "classic" /\ ~Inherits' => ClassicGame'
        <3>1. HAVE opts.mode = "classic" /\ ~Inherits'
        <3>2. CountFrom > 0
            BY SizesAssumption
        <3>3. CASE page = "online"
            <4>1. rendered' = seen'
                BY <2>1
            <4> QED BY <1>3, <1>4, <1>5, <1>7, <1>8, <2>1, <3>2 DEF ClassicGame
        <3>4. CASE page # "online"
            BY <1>3, <1>4, <1>5, <1>7, <1>8, <2>1, <3>2 DEF ClassicGame
        <3> QED BY <3>3, <3>4
    <2> QED BY <1>8, <1>11, <2>3, <2>5, <2>6, <2>9, <2>10, <2>11, <2>12
            DEF GameInv, Shown, page
<1>12. CASE pages[Len(pages)] # "local"
    <2>1. view' = w /\ rendered' = w /\ seen' = w /\ carried' = Cleared.score
        BY <1>12 DEF Show
    <2>2. LocalTypeOK'
        <3>1. Cleared.score \in [Ends -> 0..MaxScore]
            BY FreshCleared DEF Views
        <3> QED BY <1>1, <1>10, <2>1, <3>1
    <2>3. Away'
        BY <1>1, <2>1 DEF Away, Fresh
    <2> QED BY <1>8, <1>12, <2>2, <2>3 DEF GameInv, page
<1> QED BY <1>11, <1>12

LEMMA PushInv ==
    ASSUME GameInv, NEW p \in Pages, Push(p), p = "local" => page = "create"
    PROVE  GameInv'
<1>1. history \in Seq(Pages) /\ Len(history) \in 1..Len(history) /\ Len(history) < MaxPages
      /\ Len(history) \in Nat
    BY PageFacts DEF GameInv, Push
<1>2. PICK h : h = Append(history, p)
    OBVIOUS
<1>3. /\ h \in Seq(Pages) /\ Len(h) = Len(history) + 1 /\ h[Len(h)] = p
      /\ \A i \in 1..Len(history) : h[i] = history[i]
    BY <1>1, <1>2
<1>4. Len(h) \in 1..MaxPages
    BY <1>1, <1>3, SizesAssumption
<1>5. Show(h)
    BY <1>2 DEF Push
<1>6. Ordered'
    <2>1. history' = h
        BY <1>5 DEF Show
    <2>2. ASSUME NEW i \in 2..Len(h), h[i] = "local"
          PROVE  h[i - 1] = "create"
        <3>1. i - 1 \in 1..Len(history)
            BY <1>1, <1>3
        <3>2. CASE i = Len(h)
            BY <1>1, <1>3, <2>2, <3>1, <3>2 DEF page
        <3>3. CASE i # Len(h)
            <4>1. i \in 2..Len(history)
                BY <1>1, <1>3, <3>3
            <4> QED BY <1>3, <2>2, <3>1, <4>1 DEF GameInv, Ordered
        <3> QED BY <3>2, <3>3
    <2> QED BY <2>1, <2>2 DEF Ordered
<1>7. h[Len(h)] = "local" => page # "local"
    BY <1>3
<1> QED BY <1>3, <1>4, <1>5, <1>6, <1>7, ShowInv

LEMMA BackInv ==
    ASSUME GameInv, Back
    PROVE  GameInv'
<1>1. history \in Seq(Pages) /\ Len(history) \in 1..MaxPages
    BY PageFacts DEF GameInv
<1>2. CASE Len(history) = 1
    <2>1. PICK h : h = <<"home">>
        OBVIOUS
    <2>2. h \in Seq(Pages) /\ Len(h) = 1 /\ h[Len(h)] = "home"
        BY <2>1 DEF Pages
    <2>3. Show(h)
        BY <1>2, <2>1 DEF Below, Back
    <2>4. 1 \in 1..MaxPages
        BY SizesAssumption
    <2>5. Ordered'
        <3>1. history' = h
            BY <2>3 DEF Show
        <3>2. \A i \in 2..Len(h) : FALSE
            BY <2>2
        <3> QED BY <3>1, <3>2 DEF Ordered
    <2> QED BY <2>2, <2>3, <2>4, <2>5, ShowInv
<1>3. CASE Len(history) # 1
    <2>1. PICK n : n = Len(history) - 1
        OBVIOUS
    <2>2. n \in 1..Len(history) /\ n \in 1..MaxPages /\ Len(history) = n + 1
        BY <1>1, <1>3, <2>1, SizesAssumption
    <2>3. PICK h : h = SubSeq(history, 1, n)
        OBVIOUS
    <2>4. h \in Seq(Pages) /\ Len(h) = n /\ \A i \in 1..n : h[i] = history[i]
        BY <1>1, <2>2, <2>3
    <2>5. Show(h)
        BY <1>3, <2>1, <2>3 DEF Below, Back
    <2>6. Ordered'
        <3>1. history' = h
            BY <2>5 DEF Show
        <3>2. ASSUME NEW i \in 2..Len(h), h[i] = "local"
              PROVE  h[i - 1] = "create"
            <4>1. i \in 2..Len(history) /\ i \in 1..n /\ i - 1 \in 1..n
                BY <2>2, <2>4
            <4> QED BY <2>4, <3>2, <4>1 DEF GameInv, Ordered
        <3> QED BY <3>1, <3>2 DEF Ordered
    <2>7. h[Len(h)] = "local" => page # "local"
        <3>1. Len(history) \in 2..Len(history) /\ Len(history) - 1 = n /\ n \in 1..n
            BY <2>2
        <3>2. history[Len(history)] = "local" => history[n] = "create"
            BY <3>1 DEF GameInv, Ordered
        <3> QED BY <2>4, <3>1, <3>2 DEF page
    <2> QED BY <2>2, <2>4, <2>5, <2>6, <2>7, ShowInv
<1> QED BY <1>2, <1>3

(* The context on the other pages. *)
LEMMA OnGoalInv ==
    ASSUME GameInv, OnGoal
    PROVE  GameInv'
<1>1. page = "online" /\ LocalTypeOK /\ Away /\ view \in Views
    BY PageFacts DEF GameInv, OnGoal
<1>2. PICK k \in Ends : /\ view.score[k] < MaxScore
                         /\ view' = [view EXCEPT !.score[k] = @ + 1]
    BY DEF OnGoal
<1>3. view' \in Views /\ view'.paused = view.paused /\ view'.winner = view.winner
    <2>1. PICK s : s = [view.score EXCEPT ![k] = @ + 1]
        OBVIOUS
    <2>2. view.score \in [Ends -> 0..MaxScore]
        BY <1>1 DEF Views
    <2>3. s \in [Ends -> 0..MaxScore]
        BY <1>2, <2>1, <2>2, SizesAssumption
    <2>4. view' = [view EXCEPT !.score = s]
        BY <1>1, <1>2, <2>1 DEF Views
    <2> QED BY <1>1, <2>3, <2>4 DEF Views
<1>4. /\ rendered' = view' /\ seen' = view'
      /\ UNCHANGED <<history, opts, named, late, counter, ball, paddle, dialog,
                     carried>>
    BY DEF OnGoal, courtVars
<1>5. LocalTypeOK'
    BY <1>1, <1>3, <1>4 DEF LocalTypeOK, BallOnTable
<1>6. page' = "online"
    BY <1>1, <1>4 DEF page
<1>7. Away'
    BY <1>1, <1>3, <1>6 DEF Away
<1> QED BY <1>1, <1>4, <1>5, <1>6, <1>7 DEF GameInv, Ordered

LEMMA ChooseInv ==
    ASSUME GameInv, Choose
    PROVE  GameInv'
<1>1. page = "create" /\ LocalTypeOK /\ Away /\ opts \in Options
    BY PageFacts DEF GameInv, Choose
<1>2. opts' \in Options
    <2>1. CASE ChooseMode
        BY <1>1, <2>1 DEF ChooseMode, Options
    <2>2. CASE ChooseBall
        BY <1>1, <2>2 DEF ChooseBall, Options
    <2> QED BY <2>1, <2>2 DEF Choose
<1>3. UNCHANGED <<history, named, view, rendered, seen, late, counter, ball, paddle,
                  dialog, carried>>
    BY DEF Choose, courtVars
<1>4. LocalTypeOK'
    BY <1>1, <1>2, <1>3 DEF LocalTypeOK, BallOnTable, Options
<1>5. page' = page /\ Away'
    BY <1>1, <1>3 DEF page, Away
<1> QED BY <1>1, <1>3, <1>4, <1>5 DEF GameInv, Ordered

LEMMA NamePlayerInv ==
    ASSUME GameInv, NamePlayer
    PROVE  GameInv'
<1>1. page = "create" /\ LocalTypeOK /\ Away
    BY DEF GameInv, NamePlayer
<1>2. /\ UNCHANGED <<history, opts, view, rendered, seen, late, counter, ball, paddle,
                     dialog, carried>>
      /\ named' = ~named
    BY DEF NamePlayer, courtVars
<1>3. named' \in BOOLEAN
    BY <1>2
<1>4. LocalTypeOK'
    BY <1>1, <1>2, <1>3 DEF LocalTypeOK, BallOnTable
<1>5. page' = page /\ Away'
    BY <1>1, <1>2 DEF page, Away
<1> QED BY <1>1, <1>2, <1>4, <1>5 DEF GameInv, Ordered

----------------------------------------------------------------------------
(* The game. *)
LEMMA ViewRecords ==
    ASSUME NEW v \in Views, NEW w \in Views, v.score = w.score, v.paused = w.paused,
           v.seconds = w.seconds, v.winner = w.winner
    PROVE  v = w
BY DEF Views

LEMMA InGame ==
    ASSUME GameInv, page = "local"
    PROVE  /\ LocalTypeOK /\ Shown /\ opts \in Options
           /\ view \in Views /\ rendered \in Views /\ seen \in Views
           /\ counter \in Nat
           /\ opts.mode = "timed" => TimedGame /\ ~Inherits
           /\ opts.mode # "timed" => opts.mode = "classic"
<1>1. /\ LocalTypeOK /\ Shown /\ opts \in Options
      /\ view \in Views /\ rendered \in Views /\ seen \in Views
      /\ counter \in Nat
    BY PageFacts, SizesAssumption DEF GameInv, LocalTypeOK
<1>2. opts.mode = "timed" \/ opts.mode = "classic"
    BY <1>1 DEF Options, Modes
<1> QED BY <1>1, <1>2 DEF Shown, Inherits

\* What a step on the page is to preserve.
LEMMA StillShown ==
    ASSUME GameInv, page = "local", UNCHANGED <<history, opts, carried>>,
           LocalTypeOK', InPlay', counter' > 0 => Waiting',
           opts.mode = "timed" => TimedGame',
           Inherits => Stuck',
           opts.mode = "classic" /\ ~Inherits => ClassicGame'
    PROVE  GameInv'
<1>1. page' = "local" /\ Ordered' /\ (Inherits' <=> Inherits)
    BY DEF page, GameInv, Ordered, Inherits
<1> QED BY <1>1 DEF GameInv, Shown

LEMMA ScorePlus ==
    ASSUME NEW v \in Views, NEW k \in Ends, v.score[k] < MaxScore,
           NEW w, w = [v EXCEPT !.score[k] = @ + 1]
    PROVE  /\ w \in Views /\ w.paused = v.paused /\ w.winner = v.winner
           /\ w.seconds = v.seconds
           /\ w.score[k] = v.score[k] + 1
           /\ \A j \in Ends : j # k => w.score[j] = v.score[j]
<1>1. v.score \in [Ends -> 0..MaxScore]
    BY DEF Views
<1>2. PICK s : s = [v.score EXCEPT ![k] = @ + 1]
    OBVIOUS
<1>3. s \in [Ends -> 0..MaxScore]
    BY <1>1, <1>2, SizesAssumption
<1>4. w = [v EXCEPT !.score = s]
    BY <1>2
<1>5. w \in Views /\ w.score = s /\ w.paused = v.paused /\ w.winner = v.winner
      /\ w.seconds = v.seconds
    BY <1>3, <1>4 DEF Views
<1> QED BY <1>1, <1>2, <1>5

LEMMA FrameInv ==
    ASSUME GameInv, Frame
    PROVE  GameInv'
<1>1. page = "local" /\ ~seen.paused /\ seen.winner = Undecided /\ ~late
    BY DEF Frame
<1>2. /\ LocalTypeOK /\ Shown /\ opts \in Options
      /\ view \in Views /\ rendered \in Views /\ seen \in Views
    BY <1>1, InGame
<1>3. /\ InPlay'
      /\ \/ UNCHANGED view /\ (Near(0) => Near(1)')
         \/ \E k \in Ends : Scores(k)
    BY <1>2, FrameFlight DEF Shown
<1>4. UNCHANGED <<history, opts, named, rendered, seen, counter, dialog, carried>>
    BY DEF Frame
<1>5. late' \in BOOLEAN /\ late' = ~Settled
    BY DEF Frame, Settled
<1>6. view' \in Views /\ view'.winner = view.winner /\ view'.seconds = view.seconds
    <2>1. ASSUME NEW k \in Ends, Scores(k)
          PROVE  view' \in Views /\ view'.winner = view.winner
                 /\ view'.seconds = view.seconds
        BY <1>2, <2>1, ScorePlus DEF Scores
    <2> QED BY <1>2, <1>3, <2>1
<1>7. LocalTypeOK'
    <2>1. BallOnTable'
        BY <1>3 DEF InPlay, Flying, BallOnTable
    <2>2. paddle' \in [Ends -> Int]
        <3>1. PICK o : o = opts
            OBVIOUS
        <3>2. paddle' \in [Ends -> Places(o)] /\ o \in Options
            BY <1>2, <1>3, <1>4, <3>1 DEF InPlay
        <3>3. Places(o) \subseteq Int
            BY <3>2, Sizes DEF Places
        <3> QED BY <3>2, <3>3
    <2> QED BY <1>2, <1>4, <1>5, <1>6, <2>1, <2>2 DEF LocalTypeOK
<1>8. ~(counter > 0)
    BY <1>1, <1>2 DEF Shown, Waiting
<1>9. opts.mode = "timed" => TimedGame'
    BY <1>2, <1>4, <1>6 DEF Shown, TimedGame
<1>10. ~Inherits
    BY <1>1, <1>2 DEF Shown, Stuck
<1>11. ASSUME opts.mode = "classic"
       PROVE  ClassicGame'
    <2>1. ClassicGame
        BY <1>2, <1>10, <1>11 DEF Shown
    <2>2. {view'.seconds, rendered'.seconds, seen'.seconds} \subseteq Nat \ {0}
        BY <1>4, <1>6, <2>1 DEF ClassicGame
    <2>3. ASSUME view = seen, Fine(view)
          PROVE  ClassicGame'
        <3>1. Settled /\ late' = FALSE /\ rendered' = seen' /\ seen = view
            BY <1>4, <1>5, <2>1, <2>3 DEF ClassicGame, Settled
        <3>2. \A k \in Ends : Under(view, k)
            BY <1>1, <2>3 DEF Fine
        <3>3. CASE UNCHANGED view
            BY <1>4, <2>2, <2>3, <3>1, <3>3 DEF ClassicGame, Fine, Under
        <3>4. ASSUME NEW k \in Ends, Scores(k)
              PROVE  GoalWaits(k)'
            BY <1>1, <1>4, <3>1, <3>2, <3>4 DEF Scores, GoalWaits, Under
        <3> QED BY <1>3, <2>2, <3>1, <3>3, <3>4 DEF ClassicGame
    <2>4. ~StartWaits
        BY <1>1 DEF StartWaits, Fresh
    <2>5. ASSUME NEW k \in Ends, GoalWaits(k)
          PROVE  ClassicGame'
        <3>1. Near(0)
            BY <1>1, <2>5 DEF GoalWaits
        <3>2. UNCHANGED view /\ Near(1)'
            BY <1>3, <3>1 DEF Scores
        <3>3. view # seen
            <4>1. seen.score \in [Ends -> 0..MaxScore] /\ MaxScore \in Nat
                BY <1>2, SizesAssumption DEF Views
            <4>2. view.score[k] = seen.score[k] + 1
                BY <1>2, <2>5, <4>1 DEF GoalWaits, Views
            <4> QED BY <4>1, <4>2
        <3>4. late' = TRUE
            BY <1>5, <3>3 DEF Settled
        <3>5. GoalWaits(k)'
            BY <1>4, <2>5, <3>2, <3>4 DEF GoalWaits, Under
        <3> QED BY <1>4, <2>1, <2>2, <3>2, <3>5 DEF ClassicGame
    <2>6. ASSUME NEW k \in Ends, VerdictWaits(k)
          PROVE  ClassicGame'
        <3>1. Near(1)
            BY <1>1, <2>6 DEF VerdictWaits
        <3>2. UNCHANGED view
            BY <1>3, <3>1 DEF Scores
        <3>3. view # seen
            <4>1. view.winner = k
                BY <1>2, <2>6 DEF VerdictWaits, Views
            <4> QED BY <1>1, <4>1 DEF Ends, Undecided
        <3>4. late' = TRUE
            BY <1>5, <3>3 DEF Settled
        <3>5. VerdictWaits(k)'
            BY <1>4, <2>6, <3>2, <3>4 DEF VerdictWaits, Under
        <3> QED BY <1>4, <2>1, <2>2, <3>2, <3>5 DEF ClassicGame
    <2> QED BY <1>8, <2>1, <2>3, <2>4, <2>5, <2>6 DEF ClassicGame
<1> QED BY <1>1, <1>3, <1>4, <1>7, <1>8, <1>9, <1>10, <1>11, StillShown

LEMMA RenderInv ==
    ASSUME GameInv, Render
    PROVE  GameInv'
<1>1. /\ rendered = seen /\ view # rendered /\ rendered' = view
      /\ UNCHANGED <<history, opts, named, view, seen, late, counter, ball, paddle,
                     dialog, carried>>
    BY DEF Render, courtVars
<1>2. LocalTypeOK'
    BY <1>1 DEF GameInv, LocalTypeOK, BallOnTable
<1>3. CASE page = "local"
    <2>1. /\ LocalTypeOK /\ Shown /\ view \in Views /\ seen \in Views
        BY <1>3, InGame
    <2>2. InPlay'
        BY <1>1, <2>1 DEF Shown, InPlay
    <2>3. counter' > 0 => Waiting'
        BY <1>1, <2>1 DEF Shown, Waiting, Inherits
    <2>4. opts.mode = "timed" => TimedGame'
        BY <1>1, <2>1 DEF Shown, TimedGame, Views
    <2>5. Inherits => Stuck'
        BY <1>1, <2>1 DEF Shown, Stuck
    <2>6. ClassicGame => ClassicGame'
        BY <1>1 DEF ClassicGame, Fine, Under, StartWaits, GoalWaits, VerdictWaits, Near,
                    Fresh
    <2> QED BY <1>1, <1>2, <1>3, <2>1, <2>2, <2>3, <2>4, <2>5, <2>6, StillShown DEF Shown
<1>4. CASE page # "local"
    <2>1. Away'
        BY <1>1, <1>4 DEF GameInv, Away, page
    <2> QED BY <1>1, <1>2, <1>4, <2>1 DEF GameInv, page, Ordered
<1> QED BY <1>3, <1>4

(* Time is up, as the effects see it. *)
LEMMA TimedEffects ==
    ASSUME GameInv, page = "local", opts.mode = "timed",
           NEW v, v = ScoreLimit(TimeUp(view))
    PROVE  /\ v \in Views /\ v.seconds = view.seconds
           /\ rendered.seconds > 0 => v.winner = Undecided
           /\ rendered.seconds <= 0 => v.winner = Ahead(rendered.score)
<1>1. /\ view \in Views /\ rendered \in Views /\ seen \in Views
      /\ TimedGame
    BY InGame
<1>2. v = TimeUp(view)
    BY DEF ScoreLimit, Limited
<1>3. PICK a : a = Ahead(rendered.score)
    OBVIOUS
<1>4. a \in {Undecided, Draw} \cup Ends
    <2>1. rendered.score \in [Ends -> 0..MaxScore]
        BY <1>1 DEF Views
    <2>2. rendered.score[1] \in Int /\ rendered.score[2] \in Int
        BY <2>1 DEF Ends
    <2>3. \/ rendered.score[1] = rendered.score[2]
          \/ rendered.score[1] > rendered.score[2]
          \/ rendered.score[1] < rendered.score[2]
        BY <2>2
    <2>4. a = Draw \/ a = 1 \/ a = 2
        BY <1>3, <2>3 DEF Ahead
    <2> QED BY <2>4 DEF Ends
<1>5. CASE rendered.seconds > 0
    <2>1. v = view
        BY <1>2, <1>5 DEF TimeUp
    <2>2. seen.seconds > 0
        BY <1>1, <1>5 DEF TimedGame, Views
    <2>3. ~(rendered.seconds <= 0)
        BY <1>1, <1>5 DEF Views
    <2> QED BY <1>1, <2>1, <2>2, <2>3 DEF TimedGame
<1>6. CASE /\ ~(rendered.seconds > 0)
           /\ rendered.seconds = seen.seconds /\ rendered.score = seen.score
    <2>1. v = view
        BY <1>2, <1>6 DEF TimeUp
    <2>2. rendered.seconds <= 0 /\ seen.seconds <= 0
        BY <1>1, <1>6 DEF Views
    <2> QED BY <1>1, <1>6, <2>1, <2>2 DEF TimedGame
<1>7. CASE /\ ~(rendered.seconds > 0)
           /\ ~(rendered.seconds = seen.seconds /\ rendered.score = seen.score)
    <2>1. v = [view EXCEPT !.winner = a]
        BY <1>2, <1>3, <1>7 DEF TimeUp
    <2>2. v \in Views /\ v.seconds = view.seconds /\ v.winner = a
        BY <1>1, <1>4, <2>1 DEF Views
    <2> QED BY <1>3, <1>7, <2>2
<1> QED BY <1>5, <1>6, <1>7

(* The verdict about a classic game: there is nothing to decide, or k won. *)
Decided(v, k) ==
    /\ ~view.paused /\ view.winner = Undecided
    /\ view.score[k] = opts.limit /\ Under(view, 3 - k)
    /\ v = [view EXCEPT !.paused = TRUE, !.winner = k]
    /\ Near(1)

Judged(v) ==
    \/ v = view /\ Fine(view)
    \/ \E k \in Ends : Decided(v, k)

LEMMA ClassicEffects ==
    ASSUME GameInv, page = "local", opts.mode # "timed", ~Inherits, rendered # seen,
           NEW v, v = ScoreLimit(TimeUp(view))
    PROVE  /\ v \in Views /\ rendered = view /\ v.seconds = view.seconds
           /\ IF counter > 0 THEN v = view ELSE Judged(v)
<1>1. /\ opts \in Options /\ view \in Views /\ rendered \in Views /\ seen \in Views
      /\ ClassicGame /\ (counter > 0 => Waiting)
    BY InGame DEF Shown
<1>2. rendered = view /\ view # seen
    BY <1>1 DEF ClassicGame
<1>3. TimeUp(view) = view
    BY <1>1 DEF TimeUp, ClassicGame
<1>4. opts.limit \in Nat \ {0} /\ opts.speed \in Nat /\ Width \in Nat
    BY <1>1, Sizes
<1>5. view.score \in [Ends -> 0..MaxScore] /\ seen.score \in [Ends -> 0..MaxScore]
      /\ MaxScore \in Nat
    BY <1>1, SizesAssumption DEF Views
<1>6. (view.score = seen.score \/ \A k \in Ends : ~(view.score[k] >= opts.limit))
          => v = view
    BY <1>2, <1>3 DEF ScoreLimit, Limited, Reached
<1>7. CASE StartWaits /\ ~(counter > 0)
    <2>1. seen.winner = Undecided /\ seen.score = Cleared.score
        BY <1>7 DEF StartWaits, Fresh
    <2>2. view.score = seen.score /\ view.winner = seen.winner
        BY <1>1, <1>7 DEF StartWaits, Views
    <2>3. \A k \in Ends : Under(view, k)
        BY <1>4, <2>1, <2>2 DEF Under, Cleared
    <2> QED BY <1>1, <1>2, <1>6, <2>1, <2>2, <2>3 DEF Fine, Judged
<1>8. ASSUME NEW k \in Ends, GoalWaits(k), ~(counter > 0)
      PROVE  /\ v \in Views /\ v.seconds = view.seconds
             /\ (v = view /\ Fine(view)) \/ Decided(v, k)
    <2>1. /\ ~view.paused /\ view.winner = Undecided
          /\ view.score[k] = seen.score[k] + 1
          /\ \A j \in Ends : j # k => view.score[j] = seen.score[j]
        BY <1>1, <1>5, <1>8 DEF GoalWaits, Views
    <2>2. 3 - k \in Ends /\ 3 - k # k /\ \A j \in Ends : j # k => j = 3 - k
        BY DEF Ends
    <2>3. seen.score[k] < opts.limit /\ seen.score[3 - k] < opts.limit
        BY <1>8, <2>2 DEF GoalWaits, Under
    <2>4. view.score[3 - k] < opts.limit
        BY <2>1, <2>2, <2>3
    <2>5. CASE view.score[k] < opts.limit
        <3>1. \A j \in Ends : Under(view, j)
            BY <2>2, <2>4, <2>5 DEF Under
        <3>2. v = view
            BY <1>4, <1>5, <1>6, <3>1 DEF Under
        <3> QED BY <1>1, <2>1, <3>1, <3>2 DEF Fine
    <2>6. CASE ~(view.score[k] < opts.limit)
        <3>1. view.score[k] = opts.limit
            BY <1>4, <1>5, <2>1, <2>3, <2>6
        <3>2. Near(1)
            <4>1. Near(0) => Near(1)
                <5>1. Width \div 2 - 1 * opts.speed <= Width \div 2 - 0 * opts.speed
                      /\ Width \div 2 + 0 * opts.speed <= Width \div 2 + 1 * opts.speed
                    BY <1>4
                <5> QED BY <1>4, <5>1 DEF Near
            <4> QED BY <1>8, <4>1 DEF GoalWaits
        <3>3. v = [view EXCEPT !.paused = TRUE, !.winner = k]
            <4>1. /\ Reached(view.score, k) /\ ~Reached(view.score, 3 - k)
                  /\ view.score[3 - k] # opts.limit
                BY <1>4, <1>5, <2>2, <2>4, <3>1 DEF Reached
            <4>2. view.score # seen.score
                BY <1>5, <2>1
            <4>3. PICK w : w = IF \A j \in Ends : view.score[j] = opts.limit THEN Draw
                               ELSE IF Reached(view.score, 2) THEN 2 ELSE 1
                OBVIOUS
            <4>4. v = [view EXCEPT !.paused = TRUE, !.winner = w]
                <5>1. ~\A j \in Ends : ~Reached(view.score, j)
                    BY <4>1
                <5>2. v = Limited(view, view.score)
                    BY <1>2, <1>3, <4>2 DEF ScoreLimit
                <5> QED BY <4>3, <5>1, <5>2 DEF Limited
            <4>5. k = 1 \/ k = 2
                BY DEF Ends
            <4>6. w = IF Reached(view.score, 2) THEN 2 ELSE 1
                BY <2>2, <4>1, <4>3
            <4>7. w = k
                <5>1. CASE k = 1
                    <6>1. 3 - k = 2
                        BY <5>1
                    <6> QED BY <4>1, <4>6, <5>1, <6>1
                <5>2. CASE k = 2
                    BY <4>1, <4>6, <5>2
                <5> QED BY <4>5, <5>1, <5>2
            <4> QED BY <4>4, <4>7
        <3>4. v \in Views /\ v.seconds = view.seconds
            BY <1>1, <3>3 DEF Views
        <3> QED BY <2>1, <2>4, <3>1, <3>2, <3>3, <3>4 DEF Under, Decided
    <2> QED BY <2>5, <2>6
<1>9. ASSUME NEW k \in Ends, VerdictWaits(k), ~(counter > 0)
      PROVE  v = view /\ Fine(view)
    <2>1. view.score = seen.score /\ view.paused /\ view.winner = k
        BY <1>1, <1>9 DEF VerdictWaits, Views
    <2>2. v = view
        BY <1>6, <2>1
    <2>3. k # Undecided
        BY DEF Ends, Undecided
    <2> QED BY <1>9, <2>1, <2>2, <2>3 DEF Fine, VerdictWaits, Under
<1>10. CASE view = seen
    BY <1>2, <1>10
<1>11. CASE counter > 0
    <2>1. \A k \in Ends : ~(view.score[k] >= opts.limit)
        BY <1>1, <1>4, <1>11 DEF Waiting, Cleared
    <2> QED BY <1>1, <1>2, <1>6, <1>11, <2>1
<1> QED BY <1>1, <1>2, <1>7, <1>8, <1>9, <1>10, <1>11 DEF ClassicGame, Judged

(* Nothing is decided twice in a game that took over a score. *)
LEMMA StuckEffects ==
    ASSUME GameInv, page = "local", Inherits, rendered # seen,
           NEW v, v = ScoreLimit(TimeUp(view))
    PROVE  v = view /\ rendered = view
<1>1. /\ opts \in Options /\ Stuck
    BY InGame DEF Shown
<1>2. rendered = view /\ TimeUp(view) = view
    BY <1>1 DEF Stuck, TimeUp
<1>3. opts.limit \in Nat \ {0}
    BY <1>1, Sizes
<1>4. \A k \in Ends : ~Reached(rendered.score, k)
    BY <1>1, <1>2, <1>3 DEF Stuck, Reached, Cleared
<1> QED BY <1>2, <1>4 DEF ScoreLimit, Limited

LEMMA EffectsInv ==
    ASSUME GameInv, Effects
    PROVE  GameInv'
<1>1. /\ page = "local" /\ rendered # seen
      /\ seen' = rendered /\ late' = FALSE
      /\ UNCHANGED <<history, opts, named, rendered, counter, ball, paddle, dialog,
                     carried>>
    BY DEF Effects, courtVars
<1>2. PICK v : v = ScoreLimit(TimeUp(view))
    OBVIOUS
<1>3. view' = v
    BY <1>2 DEF Effects
<1>4. /\ LocalTypeOK /\ Shown /\ rendered \in Views /\ view \in Views /\ seen \in Views
    BY <1>1, InGame
<1>5. InPlay'
    BY <1>1, <1>4 DEF Shown, InPlay
<1>6. ASSUME v.paused, v.score = view.score, v.seconds = view.seconds,
             Inherits \/ v.winner = Undecided, counter' > 0
      PROVE  Waiting'
    BY <1>1, <1>3, <1>4, <1>6 DEF Shown, Waiting, Inherits
<1>7. CASE opts.mode = "timed"
    <2>1. /\ v \in Views /\ v.seconds = view.seconds
          /\ rendered.seconds > 0 => v.winner = Undecided
          /\ rendered.seconds <= 0 => v.winner = Ahead(rendered.score)
        BY <1>1, <1>2, <1>7, TimedEffects
    <2>2. TimedGame'
        <3>1. TimedGame
            BY <1>4, <1>7 DEF Shown
        <3> QED BY <1>1, <1>3, <1>4, <2>1, <3>1 DEF TimedGame, Views
    <2>3. LocalTypeOK'
        BY <1>1, <1>3, <1>4, <2>1 DEF LocalTypeOK, BallOnTable
    <2>4. counter' > 0 => Waiting'
        <3>1. v.score = view.score /\ v.paused = view.paused
            BY <1>2, <1>4, <1>7 DEF ScoreLimit, Limited, TimeUp, Views
        <3> QED BY <1>1, <1>4, <1>6, <2>1, <3>1 DEF Shown, Waiting
    <2> QED BY <1>1, <1>5, <1>7, <2>2, <2>3, <2>4, StillShown, InGame
<1>8. CASE Inherits
    <2>1. v = view /\ rendered = view
        BY <1>1, <1>2, <1>8, StuckEffects
    <2>2. LocalTypeOK'
        BY <1>1, <1>3, <1>4, <2>1 DEF LocalTypeOK, BallOnTable
    <2>3. counter' > 0 => Waiting'
        BY <1>1, <1>4, <1>6, <1>8, <2>1 DEF Shown, Waiting
    <2>4. Stuck'
        BY <1>1, <1>3, <1>4, <1>8, <2>1 DEF Shown, Stuck
    <2> QED BY <1>1, <1>5, <1>8, <2>2, <2>3, <2>4, StillShown, InGame
<1>9. CASE opts.mode # "timed" /\ ~Inherits
    <2>1. /\ v \in Views /\ rendered = view /\ v.seconds = view.seconds
          /\ IF counter > 0 THEN v = view ELSE Judged(v)
        BY <1>1, <1>2, <1>9, ClassicEffects
    <2>2. LocalTypeOK'
        BY <1>1, <1>3, <1>4, <2>1 DEF LocalTypeOK, BallOnTable
    <2>3. ClassicGame
        BY <1>1, <1>4, <1>9, InGame DEF Shown
    <2>4. ASSUME v = view, Fine(view)
          PROVE  ClassicGame'
        <3>1. Fine(view)'
            BY <1>1, <1>3, <2>4 DEF Fine, Under
        <3> QED BY <1>1, <1>3, <2>1, <2>3, <2>4, <3>1 DEF ClassicGame
    <2>5. ASSUME NEW k \in Ends, Decided(v, k)
          PROVE  ClassicGame'
        <3>1. Near(1)'
            BY <1>1, <2>5 DEF Near, Decided
        <3>2. VerdictWaits(k)'
            BY <1>1, <1>3, <2>1, <2>5, <3>1 DEF VerdictWaits, Under, Decided
        <3> QED BY <1>1, <1>3, <2>1, <2>3, <3>2 DEF ClassicGame
    <2>6. ASSUME counter > 0
          PROVE  ClassicGame' /\ Waiting'
        <3>1. v = view
            BY <2>1, <2>6
        <3>2. ClassicGame'
            BY <1>1, <1>3, <2>1, <2>3, <2>6, <3>1 DEF ClassicGame
        <3>3. Waiting'
            BY <1>1, <1>4, <1>6, <2>6, <3>1 DEF Shown, Waiting
        <3> QED BY <3>2, <3>3
    <2>7. ClassicGame'
        BY <2>1, <2>4, <2>5, <2>6 DEF Judged
    <2> QED BY <1>1, <1>5, <1>9, <2>2, <2>6, <2>7, StillShown
<1> QED BY <1>7, <1>8, <1>9

LEMMA CountdownInv ==
    ASSUME GameInv, Countdown
    PROVE  GameInv'
<1>1. /\ page = "local" /\ Settled /\ counter > 0 /\ counter' = counter - 1
      /\ UNCHANGED <<history, opts, named, rendered, seen, late, ball, paddle, dialog,
                     carried>>
    BY DEF Countdown, courtVars
<1>2. /\ LocalTypeOK /\ Shown /\ opts \in Options /\ view \in Views /\ counter \in 0..CountFrom
      /\ CountFrom \in Nat /\ Waiting /\ view.paused
    BY <1>1, InGame, SizesAssumption DEF Shown, LocalTypeOK, Waiting
<1>3. PICK v : v = [view EXCEPT !.paused = @ /\ counter > 1]
    OBVIOUS
<1>4. view' = v
    BY <1>3 DEF Countdown
<1>5. InPlay'
    BY <1>1, <1>2 DEF Shown, InPlay
<1>6. counter' \in 0..CountFrom
    BY <1>1, <1>2
<1>7. CASE counter > 1
    <2>1. v = view
        <3>1. PICK p : p = (view.paused /\ counter > 1)
            OBVIOUS
        <3>2. view.paused \in BOOLEAN /\ view.paused
            BY <1>2 DEF Views
        <3>3. p = view.paused
            BY <1>7, <3>1, <3>2
        <3>4. v = [view EXCEPT !.paused = p]
            BY <1>3, <3>1
        <3> QED BY <1>2, <3>3, <3>4 DEF Views
    <2>2. LocalTypeOK'
        BY <1>1, <1>2, <1>4, <1>6, <2>1 DEF LocalTypeOK, BallOnTable
    <2>3. Waiting'
        BY <1>1, <1>2, <1>4, <2>1 DEF Waiting, Inherits
    <2>4. opts.mode = "timed" => TimedGame'
        BY <1>1, <1>2, <1>4, <2>1 DEF Shown, TimedGame
    <2>5. Inherits => Stuck'
        BY <1>1, <1>2, <1>4, <2>1 DEF Shown, Stuck
    <2>6. opts.mode = "classic" /\ ~Inherits => ClassicGame'
        <3>1. counter' > 0
            BY <1>1, <1>2, <1>7
        <3> QED BY <1>1, <1>2, <1>4, <2>1, <3>1 DEF Shown, ClassicGame
    <2> QED BY <1>1, <1>5, <2>2, <2>3, <2>4, <2>5, <2>6, StillShown
<1>8. CASE ~(counter > 1)
    <2>1. v = [view EXCEPT !.paused = FALSE]
        <3>1. PICK p : p = (view.paused /\ counter > 1)
            OBVIOUS
        <3>2. p = FALSE
            BY <1>8, <3>1
        <3>3. v = [view EXCEPT !.paused = p]
            BY <1>3, <3>1
        <3> QED BY <3>2, <3>3
    <2>2. v \in Views /\ v.winner = view.winner /\ v.seconds = view.seconds
          /\ v.score = view.score
        BY <1>2, <2>1 DEF Views
    <2>3. LocalTypeOK'
        BY <1>1, <1>2, <1>4, <1>6, <2>2 DEF LocalTypeOK, BallOnTable
    <2>4. ~(counter' > 0)
        BY <1>1, <1>2, <1>8
    <2>5. opts.mode = "timed" => TimedGame'
        BY <1>1, <1>2, <1>4, <2>2 DEF Shown, TimedGame
    <2>6. Inherits => Stuck'
        BY <1>1, <1>2, <1>4, <2>2, ~Inherits \/ Inherits DEF Shown, Stuck, Settled, Views
    <2>7. opts.mode = "classic" /\ ~Inherits => ClassicGame'
        <3>1. ~Inherits => StartWaits'
            BY <1>1, <1>2, <1>4, <2>1 DEF StartWaits, Fresh, Settled, Waiting
        <3>2. rendered' = seen'
            BY <1>1 DEF Settled
        <3> QED BY <1>1, <1>2, <1>4, <2>2, <3>1, <3>2 DEF Shown, ClassicGame
    <2> QED BY <1>1, <1>5, <2>3, <2>4, <2>5, <2>6, <2>7, StillShown
<1> QED BY <1>7, <1>8

LEMMA SecondInv ==
    ASSUME GameInv, Second
    PROVE  GameInv'
<1>1. /\ page = "local" /\ Settled /\ ~seen.paused /\ opts.mode = "timed"
      /\ UNCHANGED <<history, opts, named, rendered, seen, late, counter, ball, paddle,
                     dialog, carried>>
    BY DEF Second, timerSetter, courtVars
<1>2. /\ LocalTypeOK /\ Shown /\ view \in Views /\ seen \in Views /\ rendered \in Views
    BY <1>1, InGame
<1>3. PICK n : n = view.seconds - 1
    OBVIOUS
<1>4. PICK p : p = (view.paused \/ view.seconds <= 1)
    OBVIOUS
<1>5. view' = [view EXCEPT !.seconds = n, !.paused = p]
    BY <1>3, <1>4 DEF Second, timerSetter
<1>6. view.seconds \in Int /\ n \in Int /\ n <= view.seconds
    BY <1>2, <1>3 DEF Views
<1>7. view' \in Views /\ view'.seconds = n /\ view'.winner = view.winner
    BY <1>2, <1>4, <1>5, <1>6 DEF Views
<1>8. LocalTypeOK'
    BY <1>1, <1>2, <1>7 DEF LocalTypeOK, BallOnTable
<1>9. InPlay' /\ ~(counter' > 0)
    BY <1>1, <1>2 DEF Shown, InPlay, Waiting
<1>10. TimedGame'
    BY <1>1, <1>2, <1>6, <1>7 DEF Shown, TimedGame, Views
<1> QED BY <1>1, <1>8, <1>9, <1>10, InGame, StillShown

LEMMA DialogInv ==
    ASSUME GameInv, Dialog
    PROVE  GameInv'
<1>1. CASE dialog > 1
    <2>1. /\ page = "local" /\ dialog' = dialog - 1
          /\ UNCHANGED <<history, opts, named, view, rendered, seen, late, counter,
                         ball, paddle, carried>>
        BY <1>1 DEF Dialog, courtVars
    <2>2. LocalTypeOK /\ Shown
        BY <2>1, InGame
    <2>3. dialog' \in 1..CountFrom
        BY <1>1, <2>1, <2>2, SizesAssumption DEF LocalTypeOK
    <2>4. LocalTypeOK'
        BY <2>1, <2>2, <2>3 DEF LocalTypeOK, BallOnTable
    <2>5. Shown'
        BY <2>1, <2>2 DEF Shown, InPlay, TimedGame, ClassicGame, Fine, Under, StartWaits,
                          GoalWaits, VerdictWaits, Near, Fresh, Waiting, Inherits,
                    Stuck
    <2> QED BY <2>1, <2>4, <2>5 DEF GameInv, page, Ordered
<1>2. CASE ~(dialog > 1)
    BY <1>2, BackInv DEF Dialog
<1> QED BY <1>1, <1>2

----------------------------------------------------------------------------
(* The theorems. *)
LEMMA GameInit ==
    ASSUME LocalInit
    PROVE  GameInv
<1>1. /\ opts.limit \in Limits /\ opts.time \in Times
    BY SizesAssumption DEF LocalInit
<1>2. opts \in Options
    BY <1>1, SizesAssumption DEF LocalInit, Options, Modes
<1>3. Flying(ball, opts) /\ paddle \in [Ends -> Places(opts)]
    <2>1. /\ opts.speed = Default.speed /\ opts.paddle = Default.paddle
        BY DEF LocalInit
    <2>2. ball = Kickoff(opts.speed) /\ paddle = Middle(opts.paddle)
        BY <2>1 DEF LocalInit
    <2> QED BY <1>2, <2>2, KickoffFlies, MiddleInPlace
<1>4. paddle \in [Ends -> Int]
    <2>1. Places(opts) \subseteq Int
        BY <1>2, Sizes DEF Places
    <2> QED BY <1>3, <2>1
<1>5. history \in Seq({"home", "create", "local", "online"}) /\ Len(history) = 1
      /\ page = "home"
    BY DEF LocalInit, page
<1>6. CountFrom \in 0..CountFrom /\ CountFrom \in 1..CountFrom /\ 1 \in 1..MaxPages
    BY SizesAssumption
<1>7. /\ {view, rendered, seen} \subseteq Views /\ Fresh(view)
      /\ carried \in [Ends -> 0..MaxScore]
    <2>1. Cleared.score \in [Ends -> 0..MaxScore]
        BY FreshCleared DEF Views
    <2> QED BY <2>1, FreshCleared DEF LocalInit
<1>8. LocalTypeOK
    <2>1. counter = CountFrom /\ dialog = CountFrom /\ named = TRUE /\ late = FALSE
        BY DEF LocalInit
    <2> QED BY <1>2, <1>3, <1>4, <1>5, <1>6, <1>7, <2>1
            DEF LocalTypeOK, Options, BallOnTable, Flying
<1>9. Ordered
    <2>1. \A i \in 2..Len(history) : FALSE
        BY <1>5
    <2> QED BY <2>1 DEF Ordered
<1> QED BY <1>5, <1>7, <1>8, <1>9 DEF GameInv, Away, Fresh

LEMMA GameNext ==
    ASSUME GameInv, [LocalNext]_localVars
    PROVE  GameInv'
<1>1. ASSUME OpenCreate PROVE GameInv'
    BY <1>1, PushInv DEF OpenCreate, Pages
<1>2. ASSUME Play PROVE GameInv'
    BY <1>2, PushInv DEF Play, Pages
<1>3. ASSUME GoOnline PROVE GameInv'
    BY <1>3, PushInv DEF GoOnline, Pages
<1>4. ASSUME Leave PROVE GameInv'
    BY <1>4, BackInv DEF Leave
<1>5. ASSUME UNCHANGED localVars PROVE GameInv'
    <2>1. UNCHANGED <<history, opts, named, view, rendered, seen, late, counter, ball,
                      paddle, dialog, carried>>
        BY <1>5 DEF localVars, courtVars
    <2>2. LocalTypeOK' /\ page' = page
        BY <2>1 DEF GameInv, LocalTypeOK, BallOnTable, page
    <2>3. Shown => Shown'
        BY <2>1 DEF Shown, InPlay, TimedGame, ClassicGame, Fine, Under, StartWaits,
                    GoalWaits, VerdictWaits, Near, Fresh, Waiting, Inherits,
                    Stuck
    <2>4. Away => Away'
        BY <2>1, <2>2 DEF Away
    <2> QED BY <2>1, <2>2, <2>3, <2>4 DEF GameInv, Ordered
<1> QED BY <1>1, <1>2, <1>3, <1>4, <1>5, OnGoalInv, ChooseInv, NamePlayerInv, FrameInv,
           RenderInv, EffectsInv, CountdownInv, SecondInv, DialogInv DEF LocalNext

(* The invariant of the local game: which changes of the score, the pause and
   the winner wait for being rendered and for their effects, where the ball is
   meanwhile, and that other pages find the context as a game starts with it. *)
THEOREM GameInvariant == LocalSpec => []GameInv
<1>1. LocalInit => GameInv
    BY GameInit
<1>2. GameInv /\ [LocalNext]_localVars => GameInv'
    BY GameNext
<1> QED BY <1>1, <1>2, PTL DEF LocalSpec

(* Every variable stays in its range; the ball is not thrown off the table by a
   paddle's edge, for every size of ball and paddle and every speed. *)
THEOREM GameTypeOK == LocalSpec => []LocalTypeOK
<1>1. GameInv => LocalTypeOK
    BY DEF GameInv
<1> QED BY <1>1, GameInvariant, PTL

(* WinDialog names whoever has more points, and in a classic game somebody who
   has just reached the limit, although goals may fall between the end of the
   game and its verdict; a game that was decided by the score of another, before
   it began, is excepted. *)
THEOREM VerdictIsRight == LocalSpec => []VerdictMatchesScore
<1>1. ASSUME GameInv PROVE VerdictMatchesScore
    <2>1. SUFFICES ASSUME page = "local", Settled, view.winner # Undecided, ~Inherits
                   PROVE  /\ view.winner = Ahead(view.score)
                          /\ opts.mode = "classic" =>
                                view.winner \in Ends /\ view.score[view.winner] = opts.limit
        BY DEF VerdictMatchesScore
    <2>2. Shown /\ view \in Views /\ seen \in Views /\ view = seen /\ rendered = seen
          /\ opts \in Options
        BY <1>1, <2>1, InGame DEF Settled
    <2>3. CASE opts.mode = "timed"
        <3>1. ~(seen.seconds > 0) /\ seen.seconds \in Int
            BY <2>1, <2>2, <2>3 DEF Shown, TimedGame, Views
        <3>2. view.winner = Ahead(view.score)
            BY <2>2, <2>3, <3>1 DEF Shown, TimedGame
        <3> QED BY <2>3, <3>2
    <2>4. CASE opts.mode # "timed"
        <3>1. ClassicGame /\ ~(counter > 0)
            BY <1>1, <2>1, <2>2, <2>4, InGame DEF Shown, Waiting
        <3>2. ~StartWaits
            BY <2>1, <2>2 DEF StartWaits, Fresh
        <3>3. ASSUME NEW k \in Ends, GoalWaits(k) PROVE FALSE
            <4>1. seen.score \in [Ends -> 0..MaxScore] /\ MaxScore \in Nat
                BY <2>2, SizesAssumption DEF Views
            <4>2. view.score[k] = seen.score[k] + 1
                BY <2>2, <3>3, <4>1 DEF GoalWaits, Views
            <4> QED BY <2>2, <4>1, <4>2
        <3>4. ASSUME NEW k \in Ends, VerdictWaits(k) PROVE FALSE
            BY <2>1, <2>2, <3>4 DEF VerdictWaits
        <3>5. Fine(view)
            BY <3>1, <3>2, <3>3, <3>4 DEF ClassicGame
        <3>6. /\ view.winner \in Ends /\ view.score[view.winner] = opts.limit
              /\ view.score[3 - view.winner] < opts.limit
            BY <2>1, <3>5 DEF Fine, Under
        <3>7. view.score \in [Ends -> 0..MaxScore] /\ opts.limit \in Nat
            BY <2>2, Sizes DEF Views
        <3>8. CASE view.winner = 1
            <4>1. view.score[1] > view.score[2]
                BY <3>6, <3>7, <3>8 DEF Ends
            <4> QED BY <3>6, <3>7, <3>8, <4>1 DEF Ahead, Ends
        <3>9. CASE view.winner = 2
            <4>1. view.score[1] < view.score[2]
                BY <3>6, <3>7, <3>9 DEF Ends
            <4>2. ~(view.score[1] > view.score[2]) /\ view.score[1] # view.score[2]
                BY <3>7, <4>1 DEF Ends
            <4> QED BY <3>6, <3>9, <4>1, <4>2 DEF Ahead
        <3> QED BY <3>6, <3>8, <3>9 DEF Ends
    <2> QED BY <2>3, <2>4
<1> QED BY <1>1, GameInvariant, PTL

(* Until its countdown is over a game is paused and nobody has points, whatever
   the tab showed before; nobody has won, either, unless the page was rendered
   first with a score of an online game that had reached its limit. *)
THEOREM StartsFresh == LocalSpec => []FreshStart
<1>1. GameInv => FreshStart
    BY DEF GameInv, Shown, Waiting, FreshStart
<1> QED BY <1>1, GameInvariant, PTL

(* The score of a local game grows only when the ball was beside the paddle
   that missed it, one frame before. *)
THEOREM LocalGoalWasReachable == LocalSpec => GoalWasReachable
<1> DEFINE Fair == \A k \in Ends :
        page = "local" /\ view'.score[k] > view.score[k] => Beside(ball, 3 - k)
<1>1. ASSUME GameInv, [LocalNext]_localVars PROVE [Fair]_localVars
    <2>1. SUFFICES ASSUME page = "local", NEW k \in Ends,
                          view'.score[k] > view.score[k]
                   PROVE  Beside(ball, 3 - k)
        OBVIOUS
    <2>2. /\ opts \in Options /\ Shown /\ view \in Views
        BY <1>1, <2>1, InGame
    <2>3. \A j \in Ends : view.score[j] \in Nat
        BY <2>2, SizesAssumption DEF Views
    <2>4. CASE Frame
        <3>1. PICK j \in Ends : Scores(j)
            BY <2>1, <2>2, <2>3, <2>4, FrameFlight DEF Shown
        <3>2. j = k
            BY <2>1, <2>2, <2>3, <3>1, ScorePlus DEF Scores
        <3> QED BY <3>1, <3>2 DEF Scores
    <2>5. view'.score = view.score => FALSE
        BY <2>1, <2>3
    <2>6. view'.score = Cleared.score => FALSE
        BY <2>1, <2>3 DEF Cleared
    <2>7. CASE Effects
        <3>1. PICK v : v = ScoreLimit(TimeUp(view))
            OBVIOUS
        <3>2. v.score = view.score
            BY <2>2, <3>1 DEF ScoreLimit, Limited, TimeUp, Views
        <3> QED BY <2>5, <2>7, <3>1, <3>2 DEF Effects
    <2>8. ASSUME NEW pages, Show(pages) PROVE FALSE
        <3>1. CleanUp.view \in Views /\ Fresh(CleanUp.view)
            BY <1>1, LeavesClean
        <3>2. PICK w : w = CleanUp.view
            OBVIOUS
        <3>3. PICK t : t = opts.time
            OBVIOUS
        <3>4. PICK v : v = [w EXCEPT !.seconds = t]
            OBVIOUS
        <3>5. t \in Int
            BY <2>2, <3>3, Sizes DEF Options
        <3>6. v \in Views /\ v.score = w.score
            BY <3>1, <3>2, <3>4, <3>5, WithSeconds
        <3>7. PICK s : s = [view EXCEPT !.seconds = opts.time].score
            OBVIOUS
        <3>8. view' = w \/ view' = Limited(v, s)
            BY <2>8, <3>2, <3>3, <3>4, <3>7 DEF Show
        <3>9. view'.score = w.score
            <4>1. CASE view' = w
                BY <4>1
            <4>2. CASE view' = Limited(v, s)
                <5>1. WatchedLimit(v, s, view')
                    BY <3>6, <4>2, LimitedView
                <5> QED BY <3>6, <5>1 DEF WatchedLimit
            <4> QED BY <3>8, <4>1, <4>2
        <3> QED BY <2>6, <3>1, <3>2, <3>9 DEF Fresh
    <2>9. CASE Dialog
        <3>1. UNCHANGED view \/ Show(Below)
            BY <2>9 DEF Dialog, Back
        <3> QED BY <2>5, <2>8, <3>1
    <2>10. CASE OpenCreate \/ Play \/ GoOnline \/ Leave
        BY <2>8, <2>10 DEF OpenCreate, Play, GoOnline, Leave, Push, Back
    <2>11. CASE Choose \/ NamePlayer \/ Render \/ UNCHANGED localVars
        BY <2>5, <2>11 DEF Choose, NamePlayer, Render, localVars
    <2>12. CASE OnGoal
        BY <2>1, <2>12 DEF OnGoal
    <2>13. CASE Countdown
        <3>1. view'.score = view.score
            BY <2>2, <2>13 DEF Countdown, Views
        <3> QED BY <2>5, <3>1
    <2>14. CASE Second
        <3>1. view'.score = view.score
            BY <2>2, <2>14 DEF Second, timerSetter, Views
        <3> QED BY <2>5, <3>1
    <2> QED BY <1>1, <2>4, <2>7, <2>9, <2>10, <2>11, <2>12, <2>13, <2>14 DEF LocalNext
<1>2. GameInv /\ [LocalNext]_localVars => [Fair]_localVars
    BY <1>1
<1>3. LocalSpec => [][Fair]_localVars
    BY <1>2, GameInvariant, PTL DEF LocalSpec
<1> QED BY <1>3 DEF GoalWasReachable

==============================================================================
