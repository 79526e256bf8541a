---------------------------- MODULE BracketProof ----------------------------
(***************************************************************************)
(* Theorems about Bracket, for any players.                                *)
(***************************************************************************)
EXTENDS Bracket, FiniteSetTheorems, TLAPS

(* The shape of a tournament; what its rounds hold is not looked at. *)
Tournaments(entrants) ==
    [status   : {"PLAYING", "COMPLETED"},
     round    : 0..2,
     entrants : [Rounds -> {entrants[r] : r \in Rounds}],
     ids      : [Rounds -> Seq(Matches)],
     left     : [Rounds -> Int],
     winner   : [Matches -> Players \cup {Null}],
     starting : BOOLEAN,
     paying   : {NoMatch} \cup Matches]

(* A round that was not started has no matches and nothing left, also when
   matches have been counted in it; the tournament is over once. *)
Opening(b) ==
    b.round = 0 =>
        /\ b.entrants[0] = Seeds
        /\ b.ids[1] = <<>> /\ b.left[1] = 0
        /\ b.starting => b.ids[0] = <<>> /\ b.left[0] <= 0
        /\ ~b.starting => b.ids[0] = <<1, 2>>

Ending(b) ==
    b.round = 1 =>
        /\ b.entrants[1] = <<b.entrants[1][1], b.entrants[1][2]>>
        /\ \A i \in 1..2 :
              /\ b.entrants[1][i] \in Players \cup {Null}
              /\ b.entrants[1][i] # Null => b.winner[i] # Null
        /\ b.starting => b.ids[1] = <<>> /\ b.left[1] <= 0
        /\ ~b.starting => b.ids[1] = <<3>>

PaidOnce(b) ==
    /\ b.left[2] <= 0
    /\ b.status = "PLAYING" =>
          b.round # 2 /\ b.paying = NoMatch /\ Len(paid) = 0
    /\ b.status = "COMPLETED" =>
          /\ b.round = 2 /\ ~b.starting
          /\ Len(paid) + (IF b.paying = NoMatch THEN 0 ELSE 1) <= 1

InOrder(b) ==
    /\ b \in Tournaments(b.entrants)
    /\ Opening(b) /\ Ending(b) /\ PaidOnce(b)

(* The matches of the rounds that are started are there. *)
Made ==
    /\ bracket.round = 0 => next = IF bracket.starting THEN 1 ELSE 3
    /\ bracket.round = 1 => next = IF bracket.starting THEN 3 ELSE 4

MatchesShape ==
    /\ next \in 1..4
    /\ active \subseteq 1..(next - 1)
    /\ player \in [Matches -> [Sides -> Players \cup {Null}]]
    /\ \A m \in Matches : m < next => \A k \in Sides : player[m][k] \in Players
    /\ stage \in [Matches -> {"none", "pending", "playing", "completed"}]
    /\ armed \in [Matches -> BOOLEAN]
    /\ rows \in [Matches -> Nat]
    /\ status \in [Players -> {"idle", "matched"}]
    /\ matchId \in [Players -> {NoMatch} \cup Matches]
    /\ departing \subseteq Players
    /\ connected \subseteq Players /\ quitters \subseteq Players
    /\ paid \in Seq(Players \cup {Null})

(* A match that is not completed has no winner and no row. *)
Decided ==
    \A m \in Matches :
        /\ rows[m] <= 1
        /\ armed[m] => stage[m] = "pending"
        /\ m >= next => stage[m] = "none"
        /\ stage[m] # "completed" => rows[m] = 0 /\ bracket.winner[m] = Null

(* A player that names a match is a side of it; whoever departs is idle, so
   that the other side alone is a winner. *)
OwnMatch ==
    /\ \A p \in Players : matchId[p] # NoMatch =>
          /\ matchId[p] < next
          /\ \E k \in Sides : player[matchId[p]][k] = p
    /\ \A p \in departing : status[p] = "idle" /\ bracket.status = "COMPLETED"

BracketInv ==
    InOrder(bracket) /\ Made /\ MatchesShape /\ Decided /\ OwnMatch

LEMMA BracketStart == Init => BracketInv
<1> SUFFICES ASSUME Init PROVE BracketInv
  OBVIOUS
<1>1. bracket \in Tournaments(bracket.entrants)
  BY DEF Init, Tournaments, Matches, NoMatch, Rounds
<1>2. Opening(bracket) /\ Ending(bracket) /\ PaidOnce(bracket) /\ Made
  BY DEF Init, Opening, Ending, PaidOnce, Made, Rounds, NoMatch
<1>3. MatchesShape
  BY PlayersAssumption DEF Init, MatchesShape, Matches, Sides, NoMatch
<1>4. Decided /\ OwnMatch
  BY DEF Init, Decided, OwnMatch, Matches, NoMatch
<1> QED BY <1>1, <1>2, <1>3, <1>4 DEF BracketInv, InOrder

----------------------------------------------------------------------------
(* Counting a match keeps the order of the rounds, whichever match it is: the
   second time the tournament would be over it is completed already, and its
   round has nothing left. *)
LEMMA CountedFields ==
    ASSUME NEW b, InOrder(b), NEW m \in Matches, NEW w \in Players
    PROVE  LET c == Counted(b, m, w) IN
           /\ c \in Tournaments(c.entrants)
           /\ c.status = b.status /\ c.round = b.round /\ c.ids = b.ids
           /\ c.starting = b.starting /\ c.paying = b.paying
           /\ c.winner = [b.winner EXCEPT ![m] = w]
           /\ c.left = [b.left EXCEPT ![b.round] = @ - 1]
           /\ \A r \in Rounds : r # b.round + 1 => c.entrants[r] = b.entrants[r]
           /\ c.entrants[b.round + 1] = Through(b, [b.winner EXCEPT ![m] = w])
<1> DEFINE c == Counted(b, m, w)
           W == [b.winner EXCEPT ![m] = w]
           x == [b.entrants EXCEPT ![b.round + 1] = Through(b, W)]
           L == [b.left EXCEPT ![b.round] = @ - 1]
<1>1. b \in Tournaments(b.entrants)
  BY DEF InOrder
<1>2. b.round \in 0..2 /\ b.round + 1 \in Rounds
  BY <1>1 DEF Tournaments, Rounds
<1>3. c = [b EXCEPT !.winner = W, !.entrants = x, !.left = L]
  BY DEF Counted
<1>4. /\ \A r \in Rounds : r # b.round + 1 => x[r] = b.entrants[r]
      /\ x[b.round + 1] = Through(b, W)
      /\ x \in [Rounds -> {x[r] : r \in Rounds}]
  BY <1>1, <1>2 DEF Tournaments
<1>5. W \in [Matches -> Players \cup {Null}] /\ L \in [Rounds -> Int]
  BY <1>1, <1>2 DEF Tournaments, Rounds
<1> HIDE DEF c, W, x, L
<1>6. /\ c.status = b.status /\ c.round = b.round /\ c.ids = b.ids
      /\ c.starting = b.starting /\ c.paying = b.paying
      /\ c.winner = W /\ c.left = L /\ c.entrants = x
  BY <1>1, <1>3 DEF Tournaments
<1>7. c \in Tournaments(x)
  BY <1>1, <1>3, <1>4, <1>5 DEF Tournaments
<1> USE DEF c, W, x, L
<1> QED BY <1>4, <1>6, <1>7

LEMMA ThroughPairs ==
    ASSUME NEW b, NEW W \in [Matches -> Players \cup {Null}]
    PROVE  /\ b.ids[b.round] = <<1, 2>> =>
                 /\ Through(b, W) = <<W[1], W[2]>> /\ Len(Through(b, W)) = 2
           /\ b.ids[b.round] = <<3>> => Len(Through(b, W)) = 1
<1>1. b.ids[b.round] = <<1, 2>> => Through(b, W) = <<W[1], W[2]>>
  <2> HAVE b.ids[b.round] = <<1, 2>>
  <2>1. Through(b, W) = [i \in 1..2 |-> W[b.ids[b.round][i]]]
    BY DEF Through
  <2> QED BY <2>1
<1>2. b.ids[b.round] = <<3>> => Through(b, W) = <<W[3]>>
  <2> HAVE b.ids[b.round] = <<3>>
  <2>1. Through(b, W) = [i \in 1..1 |-> W[b.ids[b.round][i]]]
    BY DEF Through
  <2> QED BY <2>1
<1> QED BY <1>1, <1>2

LEMMA CountedKeeps ==
    ASSUME NEW b, InOrder(b), NEW m \in Matches, NEW w \in Players
    PROVE  InOrder(Counted(b, m, w))
<1> DEFINE c == Counted(b, m, w)
<1>1. b \in Tournaments(b.entrants) /\ c \in Tournaments(c.entrants)
  BY CountedFields DEF InOrder
<1>2. /\ c.status = b.status /\ c.round = b.round /\ c.ids = b.ids
      /\ c.starting = b.starting /\ c.paying = b.paying
      /\ c.winner = [b.winner EXCEPT ![m] = w]
      /\ c.left = [b.left EXCEPT ![b.round] = @ - 1]
      /\ \A r \in Rounds : r # b.round + 1 => c.entrants[r] = b.entrants[r]
  BY CountedFields
<1> HIDE DEF c
<1>3. /\ b.round \in 0..2 /\ b.left \in [Rounds -> Int]
      /\ b.winner \in [Matches -> Players \cup {Null}]
  BY <1>1 DEF Tournaments
<1>4. \A r \in Rounds : c.left[r] = IF r = b.round THEN b.left[r] - 1 ELSE b.left[r]
  BY <1>2, <1>3 DEF Rounds
<1>5. Opening(c)
  BY <1>2, <1>3, <1>4 DEF InOrder, Opening, Rounds
<1>6. \A i \in Matches : b.winner[i] # Null => c.winner[i] # Null
  BY <1>2, <1>3, PlayersAssumption
<1>7. Ending(c)
  BY <1>2, <1>3, <1>4, <1>6 DEF InOrder, Ending, Rounds, Matches
<1>8. PaidOnce(c)
  BY <1>2, <1>3, <1>4 DEF InOrder, PaidOnce, Rounds
<1> USE DEF c
<1> QED BY <1>1, <1>5, <1>7, <1>8 DEF InOrder

(* d is the tournament b after the result of match m. *)
GoesOn(b, d, m, w) ==
    /\ d.winner = [b.winner EXCEPT ![m] = w]
    /\ d.left = [b.left EXCEPT ![b.round] = @ - 1]
    /\ d.entrants = Counted(b, m, w).entrants
    /\ \/ b.left[b.round] # 1 /\ d.round = b.round /\ d.starting = b.starting
       \/ b.left[b.round] = 1 /\ b.round = 0 /\ ~b.starting /\ d.round = 1 /\ d.starting
       \/ b.left[b.round] = 1 /\ b.round = 1 /\ ~b.starting /\ d.round = 2
    /\ b.status = "COMPLETED" => d.status = "COMPLETED"

(* someOneWins: the round that is over was started, and is the first one or the
   last. *)
LEMMA WonKeeps ==
    ASSUME NEW b, InOrder(b), NEW m \in Matches, NEW w \in Players
    PROVE  InOrder(Won(b, m, w)) /\ GoesOn(b, Won(b, m, w), m, w)
<1> DEFINE c == Counted(b, m, w)
           W == [b.winner EXCEPT ![m] = w]
<1>1. InOrder(c) /\ c \in Tournaments(c.entrants) /\ b \in Tournaments(b.entrants)
  BY CountedKeeps DEF InOrder
<1>2. /\ c.status = b.status /\ c.round = b.round /\ c.ids = b.ids
      /\ c.starting = b.starting /\ c.paying = b.paying
      /\ c.winner = W
      /\ c.left = [b.left EXCEPT ![b.round] = @ - 1]
      /\ c.entrants[b.round + 1] = Through(b, W)
  BY CountedFields
<1>3. Won(b, m, w) = Advance(c, m, b.left[b.round] = 1)
  BY DEF Won
<1>4. W \in [Matches -> Players \cup {Null}]
  BY <1>1 DEF Tournaments
<1> HIDE DEF c, W
<1>5. CASE b.left[b.round] # 1
  <2>1. Won(b, m, w) = c
    BY <1>3, <1>5, Zenon DEF Advance
  <2> QED BY <1>1, <1>2, <1>5, <2>1 DEF GoesOn, W, c
<1>6. CASE b.left[b.round] = 1 /\ b.round = 0
  <2>1. ~b.starting /\ b.ids[0] = <<1, 2>> /\ b.ids[1] = <<>> /\ b.left[1] = 0
    BY <1>6 DEF InOrder, Opening
  <2>2. c.entrants[1] = <<W[1], W[2]>> /\ Len(c.entrants[1]) = 2
    BY <1>2, <1>4, <1>6, <2>1, ThroughPairs
  <2>3. PICK r \in 0..2 : r = c.round + 1 /\ r = 1
    BY <1>2, <1>6
  <2>4. Len(c.entrants[r]) > 1
    <3>1. Len(c.entrants[1]) > 1
      BY <2>2
    <3> QED BY <3>1, <2>3, Zenon
  <2>5. Won(b, m, w) = [c EXCEPT !.round = r, !.starting = TRUE]
    BY <1>3, <1>6, <2>3, <2>4, Zenon DEF Advance
  <2> DEFINE d == Won(b, m, w)
  <2> HIDE DEF d
  <2>6. /\ d.round = r /\ d.starting = TRUE /\ d.status = c.status /\ d.paying = c.paying
        /\ d.entrants = c.entrants /\ d.ids = c.ids /\ d.left = c.left /\ d.winner = c.winner
        /\ d \in Tournaments(c.entrants)
    <3>1. d = [c EXCEPT !.round = r, !.starting = TRUE]
      BY <2>5 DEF d
    <3> QED BY <1>1, <3>1 DEF Tournaments
  <2>7. c.left[1] = 0 /\ c.left[2] <= 0 /\ c.status = "PLAYING"
    BY <1>1, <1>2, <1>6, <2>1 DEF InOrder, PaidOnce, Tournaments, Opening
  <2>8. Opening(d) /\ Ending(d)
    <3>1. W[1] \in Players \cup {Null} /\ W[2] \in Players \cup {Null}
      BY <1>4 DEF Matches
    <3> QED BY <1>2, <2>1, <2>2, <2>3, <2>6, <2>7, <3>1 DEF Opening, Ending
  <2>9. PaidOnce(d)
    BY <1>1, <2>3, <2>6, <2>7 DEF InOrder, PaidOnce
  <2>10. InOrder(d)
    BY <2>6, <2>8, <2>9 DEF InOrder
  <2>11. GoesOn(b, d, m, w)
    BY <1>2, <1>6, <2>1, <2>3, <2>6, <2>7 DEF GoesOn, W, c
  <2> QED BY <2>10, <2>11 DEF d
<1>7. CASE b.left[b.round] = 1 /\ b.round = 1
  <2>1. ~b.starting /\ b.ids[1] = <<3>>
    BY <1>7 DEF InOrder, Ending
  <2>2. Len(c.entrants[2]) = 1
    BY <1>2, <1>4, <1>7, <2>1, ThroughPairs
  <2>3. PICK r \in 0..2 : r = c.round + 1 /\ r = 2
    BY <1>2, <1>7
  <2>4. ~(Len(c.entrants[r]) > 1)
    <3>1. ~(Len(c.entrants[2]) > 1)
      BY <2>2
    <3> QED BY <3>1, <2>3, Zenon
  <2>5. Won(b, m, w) = [c EXCEPT !.round = r, !.status = "COMPLETED", !.paying = m]
    BY <1>3, <1>7, <2>3, <2>4, Zenon DEF Advance
  <2> DEFINE d == Won(b, m, w)
  <2> HIDE DEF d
  <2>6. /\ d.round = r /\ d.starting = c.starting /\ d.status = "COMPLETED" /\ d.paying = m
        /\ d.entrants = c.entrants /\ d.ids = c.ids /\ d.left = c.left /\ d.winner = c.winner
        /\ d \in Tournaments(c.entrants)
    <3>1. d = [c EXCEPT !.round = r, !.status = "COMPLETED", !.paying = m]
      BY <2>5 DEF d
    <3> QED BY <1>1, <3>1 DEF Tournaments
  <2>7. b.status = "PLAYING" /\ Len(paid) = 0 /\ c.left[2] <= 0
    BY <1>1, <1>7 DEF InOrder, PaidOnce, Tournaments
  <2>8. Opening(d) /\ Ending(d) /\ PaidOnce(d)
    BY <1>2, <2>1, <2>3, <2>6, <2>7 DEF Opening, Ending, PaidOnce
  <2>9. InOrder(d)
    BY <2>6, <2>8 DEF InOrder
  <2>10. GoesOn(b, d, m, w)
    BY <1>2, <1>7, <2>1, <2>3, <2>6, <2>7 DEF GoesOn, W, c
  <2> QED BY <2>9, <2>10 DEF d
<1>8. b.round = 2 => b.left[b.round] # 1
  BY <1>1 DEF InOrder, PaidOnce, Tournaments, Rounds
<1>9. b.round \in {0, 1, 2}
  BY <1>1 DEF Tournaments
<1> QED BY <1>5, <1>6, <1>7, <1>8, <1>9

----------------------------------------------------------------------------
(* Matches that go on without a result. *)
LEMMA TimerKeeps ==
    ASSUME BracketInv, NEW m \in Matches, TimerFires(m) PROVE BracketInv'
<1>1. /\ armed[m] /\ armed' = [armed EXCEPT ![m] = FALSE]
      /\ stage' = [stage EXCEPT ![m] = "playing"]
      /\ UNCHANGED <<connected, status, matchId, departing, bracket, next, active, player,
                     rows, quitters, paid>>
  BY DEF TimerFires, playerVars, endVars
<1>2. InOrder(bracket)' /\ Made' /\ OwnMatch'
  BY <1>1 DEF BracketInv, InOrder, Opening, Ending, PaidOnce, Made, OwnMatch
<1>3. MatchesShape' /\ Decided'
  BY <1>1 DEF BracketInv, MatchesShape, Decided
<1> QED BY <1>2, <1>3 DEF BracketInv

LEMMA PayKeeps == ASSUME BracketInv, Pay PROVE BracketInv'
<1>1. /\ bracket.paying # NoMatch
      /\ bracket' = [bracket EXCEPT !.paying = NoMatch]
      /\ paid' = Append(paid, bracket.winner[bracket.paying])
      /\ UNCHANGED <<connected, status, matchId, departing, next, active, player, stage, armed,
                     rows, quitters>>
  BY DEF Pay, AddScoreToPlayer, playerVars, matchVars
<1>2. bracket \in Tournaments(bracket.entrants) /\ paid \in Seq(Players \cup {Null})
  BY DEF BracketInv, InOrder, MatchesShape
<1>3. /\ bracket'.status = bracket.status /\ bracket'.round = bracket.round
      /\ bracket'.entrants = bracket.entrants /\ bracket'.ids = bracket.ids
      /\ bracket'.left = bracket.left /\ bracket'.winner = bracket.winner
      /\ bracket'.starting = bracket.starting /\ bracket'.paying = NoMatch
      /\ bracket' \in Tournaments(bracket.entrants)
  BY <1>1, <1>2 DEF Tournaments
<1>4. bracket.paying \in Matches /\ bracket.winner[bracket.paying] \in Players \cup {Null}
  BY <1>1, <1>2 DEF Tournaments
<1>5. paid' \in Seq(Players \cup {Null}) /\ Len(paid') = Len(paid) + 1
  BY <1>1, <1>2, <1>4
<1>6. bracket.status = "COMPLETED" /\ Len(paid) + 1 <= 1
  BY <1>1, <1>2 DEF BracketInv, InOrder, PaidOnce, Tournaments
<1>7. InOrder(bracket)'
  BY <1>2, <1>3, <1>5, <1>6 DEF BracketInv, InOrder, Opening, Ending, PaidOnce
<1>8. Made' /\ MatchesShape' /\ Decided' /\ OwnMatch'
  BY <1>1, <1>3, <1>5 DEF BracketInv, Made, MatchesShape, Decided, OwnMatch
<1> QED BY <1>7, <1>8 DEF BracketInv

(* The same as facts about a step. *)
LEMMA ResultKeeps ==
    ASSUME BracketInv, NEW m \in Matches, NEW w \in Players,
           bracket' = Won(bracket, m, w), UNCHANGED <<next, paid>>
    PROVE  /\ InOrder(bracket)' /\ Made'
           /\ bracket'.winner = [bracket.winner EXCEPT ![m] = w]
           /\ bracket.status = "COMPLETED" => bracket'.status = "COMPLETED"
<1>1. InOrder(bracket) /\ bracket \in Tournaments(bracket.entrants) /\ Made
  BY DEF BracketInv, InOrder
<1>2. InOrder(Won(bracket, m, w)) /\ GoesOn(bracket, Won(bracket, m, w), m, w)
  BY <1>1, WonKeeps
<1>3. InOrder(bracket)'
  BY <1>2 DEF InOrder, Opening, Ending, PaidOnce
<1>4. GoesOn(bracket, bracket', m, w)
  BY <1>2
<1>5. Made'
  BY <1>1, <1>4 DEF Made, GoesOn, Tournaments
<1> QED BY <1>3, <1>4, <1>5 DEF GoesOn

LEMMA GoalKeeps ==
    ASSUME BracketInv, NEW m \in Matches, NEW k \in Sides, Goal(m, k) PROVE BracketInv'
<1> DEFINE w == player[m][k]
<1>1. /\ m \in active /\ stage[m] = "playing"
      /\ bracket' = Won(bracket, m, w)
      /\ matchId' = [matchId EXCEPT ![w] = NoMatch]
      /\ stage' = [stage EXCEPT ![m] = "completed"]
      /\ rows' = [rows EXCEPT ![m] = @ + 1]
      /\ UNCHANGED <<connected, status, departing, next, active, player, armed, quitters, paid>>
  BY DEF Goal, CreateTournamentGame, endVars
<1>2. m < next /\ w \in Players
  BY <1>1 DEF BracketInv, MatchesShape
<1> HIDE DEF w
<1>3. /\ InOrder(bracket)' /\ Made'
      /\ bracket'.winner = [bracket.winner EXCEPT ![m] = w]
      /\ bracket.status = "COMPLETED" => bracket'.status = "COMPLETED"
  BY <1>1, <1>2, ResultKeeps
<1>4. bracket.winner \in [Matches -> Players \cup {Null}] /\ rows[m] = 0 /\ ~armed[m]
  BY <1>1 DEF BracketInv, InOrder, Tournaments, Decided
<1>5. MatchesShape'
  BY <1>1, <1>2 DEF BracketInv, MatchesShape
<1>6. Decided'
  BY <1>1, <1>2, <1>3, <1>4 DEF BracketInv, Decided, MatchesShape
<1>7. OwnMatch'
  BY <1>1, <1>2, <1>3 DEF BracketInv, OwnMatch, MatchesShape
<1> QED BY <1>3, <1>5, <1>6, <1>7 DEF BracketInv

----------------------------------------------------------------------------
(* A player that leaves. *)
LEMMA StayersAreOthers ==
    ASSUME MatchesShape, NEW m \in Matches, NEW st, NEW p \in Players, NEW k \in Sides,
           player[m][k] = p, st[p] = "idle"
    PROVE  \/ Stayers(m, st) = {} /\ Cardinality(Stayers(m, st)) = 0
           \/ \E j \in Sides : Stayers(m, st) = {j} /\ Cardinality(Stayers(m, st)) = 1
<1>1. Stayers(m, st) \subseteq Sides \ {k}
  BY DEF Stayers
<1>2. Stayers(m, st) = {} \/ \E j \in Sides : Stayers(m, st) = {j}
  BY <1>1 DEF Sides
<1> QED BY <1>2, FS_EmptySet, FS_Singleton

(* The statuses when p has become idle. *)
Idle(st, p) ==
    /\ st \in [Players -> {"idle", "matched"}]
    /\ st[p] = "idle"
    /\ \A q \in departing : st[q] = "idle"

LEMMA WalkoverKeeps ==
    ASSUME BracketInv, NEW p \in Players, NEW st, Idle(st, p), NEW m \in Matches,
           matchId[p] = m, m \in active, Walkover(m, st),
           UNCHANGED <<next, active, player, paid>>
    PROVE  /\ InOrder(bracket)' /\ Made' /\ Decided'
           /\ \A q \in Players : matchId'[q] \in {matchId[q], NoMatch}
           /\ matchId' \in [Players -> {NoMatch} \cup Matches]
           /\ stage' \in [Matches -> {"none", "pending", "playing", "completed"}]
           /\ rows' \in [Matches -> Nat] /\ status' = st /\ armed' = armed
           /\ bracket.status = "COMPLETED" => bracket'.status = "COMPLETED"
<1> DEFINE stay == Stayers(m, st)
<1>1. /\ stage[m] = "playing" /\ status' = st /\ armed' = armed
      /\ matchId' = [q \in Players |->
              IF \E k \in stay : q = player[m][k] THEN NoMatch ELSE matchId[q]]
      /\ stage' = [stage EXCEPT ![m] = IF stay = {} THEN @ ELSE "completed"]
      /\ rows' = [rows EXCEPT ![m] = @ + Cardinality(stay)]
  BY DEF Walkover, CreateTournamentGame
<1>2. PICK k \in Sides : player[m][k] = p
  BY DEF BracketInv, OwnMatch, NoMatch, Matches
<1>3. \/ stay = {} /\ Cardinality(stay) = 0
      \/ \E j \in Sides : stay = {j} /\ Cardinality(stay) = 1
  BY <1>2, StayersAreOthers DEF BracketInv, Idle
<1>4. m < next /\ rows[m] = 0 /\ ~armed[m] /\ \A j \in Sides : player[m][j] \in Players
  BY <1>1 DEF BracketInv, MatchesShape, Decided
<1>5. CASE stay = {} /\ Cardinality(stay) = 0
  <2>1. bracket' = bracket
    BY <1>5 DEF Walkover
  <2>2. stage' = stage /\ rows' = rows
    BY <1>1, <1>5 DEF BracketInv, MatchesShape
  <2>3. InOrder(bracket)' /\ Made' /\ Decided'
    BY <1>1, <2>1, <2>2 DEF BracketInv, InOrder, Opening, Ending, PaidOnce, Made, Decided
  <2> QED BY <1>1, <2>1, <2>2, <2>3 DEF BracketInv, MatchesShape, NoMatch, Matches
<1>6. CASE \E j \in Sides : stay = {j} /\ Cardinality(stay) = 1
  <2>1. PICK j \in Sides : stay = {j} /\ Cardinality(stay) = 1
    BY <1>6
  <2>2. bracket' = Won(bracket, m, player[m][j])
    BY <2>1 DEF Walkover, Sides
  <2>3. /\ InOrder(bracket)' /\ Made'
        /\ bracket'.winner = [bracket.winner EXCEPT ![m] = player[m][j]]
        /\ bracket.status = "COMPLETED" => bracket'.status = "COMPLETED"
    BY <1>4, <2>2, ResultKeeps
  <2>4. bracket.winner \in [Matches -> Players \cup {Null}]
    BY DEF BracketInv, InOrder, Tournaments
  <2>5. /\ stage' = [stage EXCEPT ![m] = "completed"] /\ rows' = [rows EXCEPT ![m] = @ + 1]
    BY <1>1, <2>1
  <2>6. Decided'
    BY <1>1, <1>4, <2>3, <2>4, <2>5 DEF BracketInv, MatchesShape, Decided
  <2> QED BY <1>1, <2>3, <2>5, <2>6 DEF BracketInv, MatchesShape, NoMatch, Matches
<1> QED BY <1>3, <1>5, <1>6

LEMMA DefaultKeeps ==
    ASSUME BracketInv, NEW p \in Players, NEW st, Idle(st, p), NEW m \in Matches, NEW online,
           m \in active, Default(m, st, online),
           UNCHANGED <<next, active, player, paid>>
    PROVE  /\ InOrder(bracket)' /\ Made' /\ Decided'
           /\ \A q \in Players : matchId'[q] \in {matchId[q], NoMatch}
           /\ matchId' \in [Players -> {NoMatch} \cup Matches]
           /\ stage' \in [Matches -> {"none", "pending", "playing", "completed"}]
           /\ armed' \in [Matches -> BOOLEAN]
           /\ rows' = rows
           /\ status' \in [Players -> {"idle", "matched"}]
           /\ \A q \in Players : st[q] = "idle" => status'[q] = "idle"
           /\ bracket.status = "COMPLETED" => bracket'.status = "COMPLETED"
<1> DEFINE two == {player[m][k] : k \in Sides}
<1>1. /\ stage[m] # "playing" /\ rows' = rows
      /\ status' = [q \in Players |-> IF q \in two THEN "idle" ELSE st[q]]
      /\ matchId' = [q \in Players |-> IF q \in two THEN NoMatch ELSE matchId[q]]
      /\ stage' = [stage EXCEPT ![m] = "completed"]
      /\ armed' = [armed EXCEPT ![m] = FALSE]
  BY DEF Default
<1>2. m < next /\ \A j \in Sides : player[m][j] \in Players
  BY DEF BracketInv, MatchesShape
<1>3. \/ bracket' = bracket
      \/ \E j \in Sides : bracket' = Won(bracket, m, player[m][j])
  BY DEF Default, Sides
<1>4. /\ InOrder(bracket)' /\ Made'
      /\ \A i \in Matches : i # m => bracket'.winner[i] = bracket.winner[i]
      /\ bracket.status = "COMPLETED" => bracket'.status = "COMPLETED"
  <2>1. CASE bracket' = bracket
    BY <2>1 DEF BracketInv, InOrder, Opening, Ending, PaidOnce, Made
  <2>2. CASE \E j \in Sides : bracket' = Won(bracket, m, player[m][j])
    <3>1. PICK j \in Sides : bracket' = Won(bracket, m, player[m][j])
      BY <2>2
    <3>2. /\ InOrder(bracket)' /\ Made'
          /\ bracket'.winner = [bracket.winner EXCEPT ![m] = player[m][j]]
          /\ bracket.status = "COMPLETED" => bracket'.status = "COMPLETED"
      BY <1>2, <3>1, ResultKeeps
    <3>3. bracket.winner \in [Matches -> Players \cup {Null}]
      BY DEF BracketInv, InOrder, Tournaments
    <3> QED BY <3>2, <3>3
  <2> QED BY <1>3, <2>1, <2>2
<1>5. Decided'
  <2>1. /\ stage \in [Matches -> {"none", "pending", "playing", "completed"}]
        /\ armed \in [Matches -> BOOLEAN] /\ next' = next /\ next \in 1..4
    BY DEF BracketInv, MatchesShape
  <2>2. stage'[m] = "completed" /\ ~armed'[m] /\ rows'[m] = rows[m]
    BY <1>1, <2>1
  <2>3. ASSUME NEW i \in Matches, i # m
        PROVE  stage'[i] = stage[i] /\ (armed'[i] <=> armed[i]) /\ rows'[i] = rows[i]
    BY <1>1, <2>1, <2>3
  <2> SUFFICES ASSUME NEW i \in Matches
               PROVE  /\ rows'[i] <= 1
                      /\ armed'[i] => stage'[i] = "pending"
                      /\ i >= next' => stage'[i] = "none"
                      /\ stage'[i] # "completed" => rows'[i] = 0 /\ bracket'.winner[i] = Null
    BY DEF Decided
  <2>4. CASE i = m
    BY <1>2, <2>1, <2>2, <2>4 DEF BracketInv, Decided, Matches
  <2>5. CASE i # m
    BY <1>4, <2>1, <2>3, <2>5 DEF BracketInv, Decided
  <2> QED BY <2>4, <2>5
<1>6. /\ status' \in [Players -> {"idle", "matched"}]
      /\ \A q \in Players : st[q] = "idle" => status'[q] = "idle"
  BY <1>1 DEF Idle
<1> QED BY <1>1, <1>4, <1>5, <1>6 DEF BracketInv, MatchesShape, NoMatch, Matches

LEMMA PlayerLeavesKeeps ==
    ASSUME BracketInv, NEW p \in Players, NEW st, Idle(st, p), NEW online,
           PlayerLeaves(p, st, online),
           departing' \subseteq departing, connected' \subseteq connected,
           UNCHANGED <<quitters, paid>>
    PROVE  BracketInv'
<1>1. UNCHANGED <<next, active, player>>
  BY DEF PlayerLeaves
<1>2. /\ InOrder(bracket)' /\ Made' /\ Decided'
      /\ \A q \in Players : matchId'[q] \in {matchId[q], NoMatch}
      /\ matchId' \in [Players -> {NoMatch} \cup Matches]
      /\ stage' \in [Matches -> {"none", "pending", "playing", "completed"}]
      /\ armed' \in [Matches -> BOOLEAN]
      /\ rows' \in [Matches -> Nat]
      /\ status' \in [Players -> {"idle", "matched"}]
      /\ \A q \in Players : st[q] = "idle" => status'[q] = "idle"
      /\ bracket.status = "COMPLETED" => bracket'.status = "COMPLETED"
  <2>1. CASE matchId[p] \in active
    <3>1. matchId[p] \in Matches /\ rows \in [Matches -> Nat] /\ armed \in [Matches -> BOOLEAN]
          /\ st \in [Players -> {"idle", "matched"}]
      BY <2>1 DEF BracketInv, MatchesShape, Matches, NoMatch, Idle
    <3>2. CASE Walkover(matchId[p], st)
      BY <1>1, <2>1, <3>1, <3>2, WalkoverKeeps
    <3>3. CASE Default(matchId[p], st, online)
      BY <1>1, <2>1, <3>1, <3>3, DefaultKeeps
    <3> QED BY <2>1, <3>2, <3>3 DEF PlayerLeaves
  <2>2. CASE matchId[p] \notin active
    <3>1. status' = st /\ UNCHANGED <<matchId, bracket, stage, armed, rows>>
      BY <2>2 DEF PlayerLeaves
    <3>2. InOrder(bracket)' /\ Made' /\ Decided'
      BY <1>1, <3>1 DEF BracketInv, InOrder, Opening, Ending, PaidOnce, Made, Decided
    <3> QED BY <3>1, <3>2 DEF BracketInv, MatchesShape, Idle
  <2> QED BY <2>1, <2>2
<1>3. MatchesShape'
  BY <1>1, <1>2 DEF BracketInv, MatchesShape
<1>4. OwnMatch'
  <2>1. \A q \in departing' : status'[q] = "idle" /\ bracket'.status = "COMPLETED"
    BY <1>2 DEF BracketInv, OwnMatch, MatchesShape, Idle
  <2>2. ASSUME NEW q \in Players, matchId'[q] # NoMatch
        PROVE  matchId'[q] < next' /\ \E k \in Sides : player'[matchId'[q]][k] = q
    <3>1. matchId'[q] = matchId[q]
      BY <1>2, <2>2
    <3> QED BY <1>1, <2>2, <3>1 DEF BracketInv, OwnMatch
  <2> QED BY <2>1, <2>2 DEF OwnMatch
<1> QED BY <1>2, <1>3, <1>4 DEF BracketInv

LEMMA IdleAgain ==
    ASSUME BracketInv, NEW p \in Players
    PROVE  /\ Idle([status EXCEPT ![p] = "idle"], p)
           /\ p \in departing => Idle(status, p)
BY DEF BracketInv, MatchesShape, OwnMatch, Idle

(* removePlayer: of a tournament that is completed, which is in its last round. *)
LEMMA RemovedKeeps ==
    ASSUME BracketInv, NEW p \in Players, RemovePlayer(p), bracket.status = "COMPLETED"
    PROVE  /\ InOrder(bracket)' /\ Made' /\ bracket'.status = "COMPLETED"
           /\ bracket'.winner = bracket.winner
           /\ UNCHANGED <<matchVars, paid, quitters>>
<1>1. bracket \in Tournaments(bracket.entrants) /\ bracket.round = 2
  BY DEF BracketInv, InOrder, PaidOnce
<1>2. /\ UNCHANGED <<matchVars, paid, quitters>>
      /\ \/ bracket' = bracket
         \/ \E kept : bracket' = [bracket EXCEPT !.entrants[bracket.round] = kept]
  BY Zenon DEF RemovePlayer, Crash, endVars
<1>3. /\ bracket'.status = bracket.status /\ bracket'.round = bracket.round
      /\ bracket'.ids = bracket.ids /\ bracket'.left = bracket.left
      /\ bracket'.winner = bracket.winner /\ bracket'.starting = bracket.starting
      /\ bracket'.paying = bracket.paying
      /\ bracket' \in Tournaments(bracket'.entrants)
  <2>1. CASE bracket' = bracket
    BY <1>1, <2>1
  <2>2. CASE \E kept : bracket' = [bracket EXCEPT !.entrants[bracket.round] = kept]
    <3>1. PICK kept : bracket' = [bracket EXCEPT !.entrants[bracket.round] = kept]
      BY <2>2
    <3> DEFINE x == [bracket.entrants EXCEPT ![bracket.round] = kept]
    <3>2. x \in [Rounds -> {x[r] : r \in Rounds}]
      BY <1>1 DEF Tournaments, Rounds
    <3>3. bracket' = [bracket EXCEPT !.entrants = x]
      BY <3>1
    <3> HIDE DEF x
    <3> QED BY <1>1, <3>2, <3>3 DEF Tournaments
  <2> QED BY <1>2, <2>1, <2>2
<1>4. InOrder(bracket)' /\ Made'
  BY <1>1, <1>2, <1>3 DEF BracketInv, InOrder, Opening, Ending, PaidOnce, Made, matchVars
<1> QED BY <1>2, <1>3, <1>4

----------------------------------------------------------------------------
(* A round starts: its n matches follow those that are there, and have a side
   for each of its players. *)
Field(e) == e \in [1..Len(e) -> Players] /\ Len(e) \in {2, 4}

LEMMA FieldToStart ==
    ASSUME BracketInv, bracket.starting, Null \notin ToSet(bracket.entrants[bracket.round])
    PROVE  /\ Field(bracket.entrants[bracket.round])
           /\ bracket.status = "PLAYING" /\ departing = {}
           /\ \/ /\ bracket.round = 0 /\ next = 1 /\ Len(bracket.entrants[bracket.round]) = 4
              \/ /\ bracket.round = 1 /\ next = 3 /\ Len(bracket.entrants[bracket.round]) = 2
                 /\ bracket.winner[1] # Null /\ bracket.winner[2] # Null
<1>1. bracket \in Tournaments(bracket.entrants)
      /\ Opening(bracket) /\ Ending(bracket) /\ PaidOnce(bracket) /\ Made /\ OwnMatch
  BY DEF BracketInv, InOrder
<1>2. bracket.status = "PLAYING" /\ bracket.round \in {0, 1} /\ departing = {}
  BY <1>1 DEF PaidOnce, Tournaments, OwnMatch
<1>3. CASE bracket.round = 0
  <2>1. bracket.entrants[bracket.round] = Seeds
    BY <1>1, <1>3 DEF Opening
  <2>2. Len(Seeds) = 4
    <3>1. Seeds = <<Seeds[1], Seeds[2], Seeds[3], Seeds[4]>>
      BY PlayersAssumption
    <3> QED BY <3>1
  <2>3. next = 1
    BY <1>1, <1>3 DEF Made
  <2> QED BY <1>2, <1>3, <2>1, <2>2, <2>3, PlayersAssumption DEF Field
<1>4. CASE bracket.round = 1
  <2> DEFINE e == bracket.entrants[1]
  <2>1. /\ e = <<e[1], e[2]>>
        /\ \A i \in 1..2 : e[i] \in Players \cup {Null} /\ (e[i] # Null => bracket.winner[i] # Null)
        /\ next = 3
    BY <1>1, <1>4 DEF Ending, Made
  <2>2. e[1] \in ToSet(e) /\ e[2] \in ToSet(e) /\ Len(e) = 2
    <3> HIDE DEF e
    <3>1. Len(e) = 2 /\ DOMAIN e = 1..2
      BY <2>1
    <3> QED BY <3>1 DEF ToSet
  <2>3. Null \notin ToSet(e)
    BY <1>4
  <2> HIDE DEF e
  <2>4. Field(e) /\ bracket.winner[1] # Null /\ bracket.winner[2] # Null
    BY <2>1, <2>2, <2>3 DEF Field
  <2> USE DEF e
  <2>5. bracket.entrants[bracket.round] = e
    BY <1>4
  <2> QED BY <1>2, <1>4, <2>1, <2>2, <2>4, <2>5
<1> QED BY <1>2, <1>3, <1>4

HasSeat(e, first, n, q) ==
    \E m \in first..(first + n - 1) : \E k \in Sides : e[2 * (m - first) + k] = q

LEMMA SeatsTaken ==
    ASSUME NEW e, Field(e), NEW n \in Nat, n = Len(e) \div 2, NEW first \in 1..4
    PROVE  /\ 2 * n = Len(e)
           /\ {first + j - 1 : j \in 1..n} = first..(first + n - 1)
           /\ \A m \in first..(first + n - 1) : \A k \in Sides :
                 2 * (m - first) + k \in 1..Len(e)
           /\ \A q \in ToSet(e) : HasSeat(e, first, n, q)
<1>1. 2 * n = Len(e) /\ n \in {1, 2}
  <2>1. CASE Len(e) = 2
    BY <2>1
  <2>2. CASE Len(e) = 4
    BY <2>2
  <2> QED BY <2>1, <2>2 DEF Field
<1>2. {first + j - 1 : j \in 1..n} = first..(first + n - 1)
  <2>1. ASSUME NEW m \in first..(first + n - 1) PROVE \E j \in 1..n : m = first + j - 1
    <3>1. m - first + 1 \in 1..n /\ m = first + (m - first + 1) - 1
      BY <1>1
    <3> QED BY <3>1
  <2> QED BY <1>1, <2>1
<1>3. ASSUME NEW m \in first..(first + n - 1), NEW k \in Sides
      PROVE  2 * (m - first) + k \in 1..Len(e)
  BY <1>1 DEF Sides
<1>4. ASSUME NEW q \in ToSet(e)
      PROVE  HasSeat(e, first, n, q)
  <2>1. PICK i \in 1..(2 * n) : e[i] = q
    BY <1>1 DEF Field, ToSet
  <2>3. PICK m \in first..(first + n - 1) : 2 * (m - first) + 1 = i \/ 2 * (m - first) + 2 = i
    <3>1. CASE i \in {1, 2}
      BY <1>1, <3>1
    <3>2. CASE i \in {3, 4}
      <4> DEFINE m == first + 1
      <4>1. m \in first..(first + n - 1)
        BY <1>1, <2>1, <3>2
      <4>2. 2 * (m - first) + 1 = i \/ 2 * (m - first) + 2 = i
        BY <3>2
      <4> HIDE DEF m
      <4> QED BY <4>1, <4>2
    <3> QED BY <1>1, <2>1, <3>1, <3>2
  <2>4. \E k \in Sides : 2 * (m - first) + k = i
    BY <2>3 DEF Sides
  <2>5. \E k \in Sides : e[2 * (m - first) + k] = q
    BY <2>1, <2>4
  <2> QED BY <2>5 DEF HasSeat
<1> QED BY <1>1, <1>2, <1>3, <1>4

LEMMA StartKeeps == ASSUME BracketInv, Start PROVE BracketInv'
<1> DEFINE b == bracket
           e == b.entrants[b.round]
           n == Len(e) \div 2
           games == {next + j - 1 : j \in 1..n}
           seat(m, k) == e[2 * (m - next) + k]
<1>1. bracket.starting
  BY DEF Start, Pairs
<1>2. CASE Null \in ToSet(e)
  <2>1. UNCHANGED <<bracket, matchVars, playerVars, quitters, paid>>
    BY <1>2 DEF Start, Pairs, Crash
  <2> QED BY <2>1 DEF BracketInv, InOrder, Opening, Ending, PaidOnce, Made, MatchesShape,
                      Decided, OwnMatch, matchVars, playerVars
<1>3. CASE Null \notin ToSet(e)
  <2>1. /\ bracket' = [b EXCEPT !.starting = FALSE,
                          !.ids[b.round] = [j \in 1..n |-> next + j - 1],
                          !.left[b.round] = @ + n]
        /\ next' = next + n
        /\ active' = active \cup games
        /\ player' = [m \in Matches |->
              IF m \in games THEN [k \in Sides |-> seat(m, k)] ELSE player[m]]
        /\ stage' = [m \in Matches |-> IF m \in games THEN "pending" ELSE stage[m]]
        /\ armed' = [m \in Matches |-> m \in games \/ armed[m]]
        /\ status' = [p \in Players |-> IF p \in ToSet(e) THEN "matched" ELSE status[p]]
        /\ matchId' = [p \in Players |-> IF p \in ToSet(e)
                          THEN CHOOSE m \in games : \E k \in Sides : seat(m, k) = p
                          ELSE matchId[p]]
        /\ UNCHANGED <<connected, departing, rows, quitters, paid>>
    BY <1>3 DEF Start, Pairs, endVars
  <2>2. /\ Field(e) /\ b.status = "PLAYING" /\ departing = {}
        /\ \/ b.round = 0 /\ next = 1 /\ Len(e) = 4
           \/ b.round = 1 /\ next = 3 /\ Len(e) = 2
    BY <1>1, <1>3, FieldToStart
  <2>3. /\ n \in {1, 2} /\ next \in 1..3 /\ next + n \in 3..4
        /\ (b.round = 0 /\ next = 1 /\ n = 2) \/ (b.round = 1 /\ next = 3 /\ n = 1)
    <3>1. CASE b.round = 0 /\ next = 1 /\ Len(e) = 4
      BY <3>1
    <3>2. CASE b.round = 1 /\ next = 3 /\ Len(e) = 2
      BY <3>2
    <3> QED BY <2>2, <3>1, <3>2
  <2> DEFINE last == next + n - 1
  <2>4. /\ games = next..last
        /\ \A m \in next..last : \A k \in Sides : 2 * (m - next) + k \in 1..Len(e)
        /\ \A q \in ToSet(e) : \E m \in next..last : \E k \in Sides : e[2 * (m - next) + k] = q
    <3>1. n = Len(e) \div 2 /\ games = {next + j - 1 : j \in 1..n}
      OBVIOUS
    <3> HIDE DEF e, n, games
    <3>2. n \in Nat /\ next \in 1..4
      BY <2>3
    <3>3. Field(e) /\ n = Len(e) \div 2
      BY <2>2, <3>1
    <3>4. {next + j - 1 : j \in 1..n} = next..(next + n - 1)
      BY <3>2, <3>3, SeatsTaken, Zenon
    <3>5. \A m \in next..(next + n - 1) : \A k \in Sides : 2 * (m - next) + k \in 1..Len(e)
      BY <3>2, <3>3, SeatsTaken, Zenon
    <3>6. \A q \in ToSet(e) : HasSeat(e, next, n, q)
      BY <3>2, <3>3, SeatsTaken, Zenon
    <3> QED BY <3>1, <3>4, <3>5, <3>6 DEF HasSeat
  <2> HIDE DEF games
  <2>5. /\ \A m \in games : m \in Matches /\ m >= next /\ m < next'
        /\ \A m \in Matches : m < next' <=> m < next \/ m \in games
    <3>1. next' = next + n
      BY <2>1
    <3> HIDE DEF n
    <3> QED BY <2>3, <2>4, <3>1 DEF Matches
  <2>6. \A m \in games : \A k \in Sides : seat(m, k) \in Players
    <3> HIDE DEF e
    <3> QED BY <2>2, <2>4 DEF Field
  <2>7. \A q \in ToSet(e) : \E m \in games : \E k \in Sides : seat(m, k) = q
    BY <2>4
  <2> HIDE DEF e, n, seat
  <2>8. \A p \in Players : p \in ToSet(e) =>
           matchId'[p] \in games /\ \E k \in Sides : seat(matchId'[p], k) = p
    <3> SUFFICES ASSUME NEW p \in Players, p \in ToSet(e)
                 PROVE  matchId'[p] \in games /\ \E k \in Sides : seat(matchId'[p], k) = p
      OBVIOUS
    <3>1. matchId'[p] = CHOOSE m \in games : \E k \in Sides : seat(m, k) = p
      BY <2>1
    <3>2. \E m \in games : \E k \in Sides : seat(m, k) = p
      BY <2>7
    <3> QED BY <3>1, <3>2, Zenon
  <2>9. MatchesShape'
    <3>1. next' \in 1..4 /\ active' \subseteq 1..(next' - 1)
      <4>1. next' = next + n /\ next' \in 1..4 /\ active' = active \cup games
        BY <2>1, <2>3
      <4>2. \A m \in games : m \in 1..(next' - 1)
        BY <2>5, <4>1 DEF Matches
      <4>3. \A m \in active : m \in 1..(next' - 1)
        BY <2>3, <4>1 DEF BracketInv, MatchesShape
      <4> QED BY <4>1, <4>2, <4>3
    <3>2. player' \in [Matches -> [Sides -> Players \cup {Null}]]
      BY <2>1, <2>6 DEF BracketInv, MatchesShape
    <3>3. \A m \in Matches : m < next' => \A k \in Sides : player'[m][k] \in Players
      BY <2>1, <2>5, <2>6 DEF BracketInv, MatchesShape
    <3>4. /\ stage' \in [Matches -> {"none", "pending", "playing", "completed"}]
          /\ status' \in [Players -> {"idle", "matched"}]
      BY <2>1 DEF BracketInv, MatchesShape
    <3>5. armed' \in [Matches -> BOOLEAN]
      BY <2>1, Zenon DEF BracketInv, MatchesShape
    <3>6. matchId' \in [Players -> {NoMatch} \cup Matches]
      <4>1. \A p \in Players : matchId'[p] \in {NoMatch} \cup Matches
        BY <2>1, <2>5, <2>8 DEF BracketInv, MatchesShape
      <4> QED BY <2>1, <4>1
    <3> QED BY <2>1, <3>1, <3>2, <3>3, <3>4, <3>5, <3>6 DEF BracketInv, MatchesShape
  <2>10. b \in Tournaments(b.entrants) /\ b.round \in 0..1
    BY <2>2 DEF BracketInv, InOrder
  <2>11. /\ bracket'.status = b.status /\ bracket'.round = b.round
         /\ bracket'.entrants = b.entrants /\ bracket'.winner = b.winner
         /\ bracket'.starting = FALSE /\ bracket'.paying = b.paying
         /\ bracket'.ids = [b.ids EXCEPT ![b.round] = [j \in 1..n |-> next + j - 1]]
         /\ bracket'.left = [b.left EXCEPT ![b.round] = @ + n]
    BY <2>1, <2>10 DEF Tournaments
  <2>12. Decided'
    <3> SUFFICES ASSUME NEW m \in Matches
                 PROVE  /\ rows'[m] <= 1
                        /\ armed'[m] => stage'[m] = "pending"
                        /\ m >= next' => stage'[m] = "none"
                        /\ stage'[m] # "completed" => rows'[m] = 0 /\ bracket'.winner[m] = Null
      BY DEF Decided
    <3>1. CASE m \in games
      <4>1. stage[m] = "none" /\ rows[m] = 0 /\ bracket.winner[m] = Null
        BY <2>5, <3>1 DEF BracketInv, Decided
      <4>2. stage'[m] = "pending" /\ rows'[m] = 0 /\ bracket'.winner[m] = Null /\ ~(m >= next')
        BY <2>1, <2>3, <2>5, <2>11, <3>1, <4>1 DEF Matches
      <4> QED BY <4>2
    <3>2. CASE m \notin games
      <4>1. stage'[m] = stage[m] /\ (armed'[m] <=> armed[m]) /\ rows'[m] = rows[m]
            /\ bracket'.winner[m] = bracket.winner[m]
        BY <2>1, <2>11, <3>2
      <4>2. m >= next' => m >= next
        BY <2>1, <2>3 DEF Matches
      <4> QED BY <4>1, <4>2 DEF BracketInv, Decided
    <3> QED BY <3>1, <3>2
  <2>13. OwnMatch'
    <3>1. departing' = {}
      BY <2>1, <2>2
    <3>2. ASSUME NEW p \in Players, matchId'[p] # NoMatch
          PROVE  matchId'[p] < next' /\ \E k \in Sides : player'[matchId'[p]][k] = p
      <4>1. CASE p \in ToSet(e)
        <5>1. matchId'[p] \in games /\ \E k \in Sides : seat(matchId'[p], k) = p
          BY <2>8, <4>1
        <5>2. \A k \in Sides : player'[matchId'[p]][k] = seat(matchId'[p], k)
          BY <2>1, <2>5, <5>1
        <5> QED BY <2>5, <5>1, <5>2
      <4>2. CASE p \notin ToSet(e)
        <5>1. matchId'[p] = matchId[p]
          BY <2>1, <4>2
        <5>2. matchId[p] \in Matches /\ matchId[p] < next /\ \E k \in Sides : player[matchId[p]][k] = p
          BY <3>2, <5>1 DEF BracketInv, MatchesShape, OwnMatch
        <5>3. matchId[p] \notin games
          BY <2>3, <2>5, <5>2 DEF Matches
        <5>4. player'[matchId[p]] = player[matchId[p]] /\ matchId[p] < next'
          BY <2>1, <2>5, <5>2, <5>3
        <5> QED BY <5>1, <5>2, <5>4
      <4> QED BY <4>1, <4>2
    <3> QED BY <3>1, <3>2 DEF OwnMatch
  <2>14. InOrder(bracket)' /\ Made'
    <3>1. /\ bracket'.ids[b.round] = [j \in 1..n |-> next + j - 1]
          /\ \A r \in Rounds : r # b.round =>
                bracket'.ids[r] = b.ids[r] /\ bracket'.left[r] = b.left[r]
          /\ bracket'.ids \in [Rounds -> Seq(Matches)] /\ bracket'.left \in [Rounds -> Int]
      <4>1. [j \in 1..n |-> next + j - 1] \in Seq(Matches)
        <5>1. \A j \in 1..n : next + j - 1 \in Matches
          BY <2>3 DEF Matches
        <5> QED BY <2>3, <5>1
      <4> DEFINE g == [j \in 1..n |-> next + j - 1]
      <4> HIDE DEF g
      <4>2. bracket'.ids = [b.ids EXCEPT ![b.round] = g] /\ g \in Seq(Matches)
        BY <2>11, <4>1 DEF g
      <4>3. n \in Int
        BY <2>3
      <4>4. bracket'.ids[b.round] = g
        BY <2>10, <4>2 DEF Tournaments, Rounds
      <4> QED BY <2>10, <2>11, <4>2, <4>3, <4>4 DEF Tournaments, Rounds, g
    <3>2. bracket' \in Tournaments(bracket'.entrants)
      <4> DEFINE ids == [b.ids EXCEPT ![b.round] = [j \in 1..n |-> next + j - 1]]
                 left == [b.left EXCEPT ![b.round] = @ + n]
      <4>1. bracket' = [b EXCEPT !.starting = FALSE, !.ids = ids, !.left = left]
        BY <2>1
      <4>2. ids \in [Rounds -> Seq(Matches)] /\ left \in [Rounds -> Int]
        BY <2>11, <3>1
      <4> HIDE DEF ids, left
      <4>3. bracket' \in Tournaments(b.entrants)
        BY <2>10, <4>1, <4>2 DEF Tournaments
      <4> QED BY <2>11, <4>3, Zenon
    <3>3. Opening(bracket)' /\ Ending(bracket)' /\ Made'
      <4>1. CASE b.round = 0 /\ next = 1 /\ n = 2
        <5>1. [j \in 1..n |-> next + j - 1] = <<1, 2>>
          BY <4>1
        <5> QED BY <1>1, <2>1, <2>11, <3>1, <4>1, <5>1
                DEF BracketInv, InOrder, Opening, Ending, Made, Rounds
      <4>2. CASE b.round = 1 /\ next = 3 /\ n = 1
        <5>1. [j \in 1..n |-> next + j - 1] = <<3>>
          BY <4>2
        <5> QED BY <1>1, <2>1, <2>11, <3>1, <4>2, <5>1
                DEF BracketInv, InOrder, Opening, Ending, Made, Rounds
      <4> QED BY <2>3, <4>1, <4>2
    <3>4. PaidOnce(bracket)'
      BY <2>1, <2>2, <2>10, <2>11, <3>1 DEF BracketInv, InOrder, PaidOnce, Rounds
    <3> QED BY <3>2, <3>3, <3>4 DEF InOrder
  <2> QED BY <2>9, <2>12, <2>13, <2>14 DEF BracketInv
<1> QED BY <1>2, <1>3

----------------------------------------------------------------------------
(* The players that leave, each by its own way. *)
LEMMA LeaveTournamentKeeps ==
    ASSUME BracketInv, NEW p \in Players, LeaveTournament(p) PROVE BracketInv'
<1>1. UNCHANGED <<connected, status, matchId, departing>>
  BY DEF LeaveTournament
<1>2. CASE bracket.status = "PLAYING"
  <2>1. UNCHANGED <<bracket, matchVars, quitters, paid>>
    BY <1>2 DEF LeaveTournament, endVars
  <2> QED BY <1>1, <2>1 DEF BracketInv, InOrder, Opening, Ending, PaidOnce, Made, MatchesShape,
                            Decided, OwnMatch, matchVars
<1>3. CASE bracket.status # "PLAYING"
  <2>1. RemovePlayer(p) /\ bracket.status = "COMPLETED"
    BY <1>3 DEF LeaveTournament, BracketInv, InOrder, Tournaments
  <2>2. /\ InOrder(bracket)' /\ Made' /\ bracket'.status = "COMPLETED"
        /\ bracket'.winner = bracket.winner
        /\ UNCHANGED <<matchVars, paid, quitters>>
    BY <2>1, RemovedKeeps
  <2> QED BY <1>1, <2>2 DEF BracketInv, MatchesShape, Decided, OwnMatch, matchVars
<1> QED BY <1>2, <1>3

LEMMA DropOutAfterKeeps ==
    ASSUME BracketInv, NEW p \in Players, DropOutAfter(p) PROVE BracketInv'
<1>1. /\ RemovePlayer(p) /\ bracket.status = "COMPLETED"
      /\ connected' = connected \ {p} /\ departing' = departing \cup {p}
      /\ status' = [status EXCEPT ![p] = "idle"] /\ matchId' = matchId
  BY DEF DropOutAfter
<1>2. /\ InOrder(bracket)' /\ Made' /\ bracket'.status = "COMPLETED"
      /\ bracket'.winner = bracket.winner
      /\ UNCHANGED <<next, active, player, stage, armed, rows, paid, quitters>>
  BY <1>1, RemovedKeeps DEF matchVars
<1>3. MatchesShape'
  BY <1>1, <1>2 DEF BracketInv, MatchesShape
<1>4. \A q \in departing' : status'[q] = "idle"
  BY <1>1 DEF BracketInv, MatchesShape, OwnMatch
<1>5. Decided' /\ OwnMatch'
  BY <1>1, <1>2, <1>4 DEF BracketInv, Decided, OwnMatch
<1> QED BY <1>2, <1>3, <1>5 DEF BracketInv

LEMMA DropOutKeeps ==
    ASSUME BracketInv, NEW p \in Players, DropOut(p) PROVE BracketInv'
<1> DEFINE idle == [status EXCEPT ![p] = "idle"]
<1>1. /\ connected' = connected \ {p} /\ bracket.status = "PLAYING"
      /\ UNCHANGED <<departing, quitters, paid>>
  BY DEF DropOut
<1>2. Idle(idle, p)
  BY IdleAgain
<1>3. CASE Cardinality(listed \ connected') >= 4
  <2>1. /\ active' = {}
        /\ armed' = [m \in Matches |-> m \notin active /\ armed[m]]
        /\ status' = idle
        /\ UNCHANGED <<matchId, bracket, next, player, stage, rows>>
    BY <1>3 DEF DropOut
  <2>2. departing = {} /\ idle \in [Players -> {"idle", "matched"}]
    BY <1>1, <1>2 DEF BracketInv, OwnMatch, Idle
  <2> HIDE DEF idle
  <2>3. armed' \in [Matches -> BOOLEAN] /\ \A m \in Matches : armed'[m] => armed[m]
    BY <2>1, Zenon
  <2>4. InOrder(bracket)' /\ Made'
    BY <1>1, <2>1 DEF BracketInv, InOrder, Opening, Ending, PaidOnce, Made
  <2>5. MatchesShape'
    BY <1>1, <2>1, <2>2, <2>3 DEF BracketInv, MatchesShape
  <2>6. Decided' /\ OwnMatch'
    BY <1>1, <2>1, <2>2, <2>3 DEF BracketInv, Decided, OwnMatch
  <2> QED BY <2>4, <2>5, <2>6 DEF BracketInv
<1>4. CASE ~(Cardinality(listed \ connected') >= 4)
  <2>1. PlayerLeaves(p, idle, connected')
    BY <1>4 DEF DropOut
  <2> HIDE DEF idle
  <2> QED BY <1>1, <1>2, <2>1, PlayerLeavesKeeps
<1> QED BY <1>3, <1>4

LEMMA ImLeftKeeps ==
    ASSUME BracketInv, NEW p \in Players, ImLeft(p) PROVE BracketInv'
<1> DEFINE idle == [status EXCEPT ![p] = "idle"]
<1>1. /\ PlayerLeaves(p, idle, connected)
      /\ UNCHANGED <<connected, departing, quitters, paid>>
  BY DEF ImLeft, endVars
<1>2. Idle(idle, p)
  BY IdleAgain
<1> HIDE DEF idle
<1> QED BY <1>1, <1>2, PlayerLeavesKeeps

LEMMA DisconnectKeeps ==
    ASSUME BracketInv, NEW p \in Players, Disconnect(p) PROVE BracketInv'
<1> DEFINE idle == [status EXCEPT ![p] = "idle"]
<1>1. /\ PlayerLeaves(p, idle, connected') /\ connected' = connected \ {p}
      /\ UNCHANGED <<departing, quitters, paid>>
  BY DEF Disconnect, endVars
<1>2. Idle(idle, p)
  BY IdleAgain
<1> HIDE DEF idle
<1> QED BY <1>1, <1>2, PlayerLeavesKeeps

LEMMA DepartKeeps ==
    ASSUME BracketInv, NEW p \in Players, Depart(p) PROVE BracketInv'
<1>1. /\ p \in departing /\ departing' = departing \ {p}
      /\ PlayerLeaves(p, status, connected)
      /\ UNCHANGED <<connected, quitters, paid>>
  BY DEF Depart, endVars
<1>2. Idle(status, p)
  BY <1>1, IdleAgain
<1> QED BY <1>1, <1>2, PlayerLeavesKeeps

LEMMA BracketStep == BracketInv /\ [Next]_vars => BracketInv'
<1> SUFFICES ASSUME BracketInv, [Next]_vars PROVE BracketInv'
  OBVIOUS
<1>1. CASE Start
  BY <1>1, StartKeeps
<1>2. CASE Pay
  BY <1>2, PayKeeps
<1>3. CASE \E m \in Matches : TimerFires(m)
  BY <1>3, TimerKeeps
<1>4. CASE \E m \in Matches, k \in Sides : Goal(m, k)
  BY <1>4, GoalKeeps
<1>5. CASE \E p \in Players : LeaveTournament(p)
  BY <1>5, LeaveTournamentKeeps
<1>6. CASE \E p \in Players : Depart(p)
  BY <1>6, DepartKeeps
<1>7. CASE \E p \in quitters : Quit(p)
  <2>1. PICK p \in Players : Quit(p)
    BY <1>7 DEF BracketInv, MatchesShape
  <2>2. CASE ImLeft(p)
    BY <2>2, ImLeftKeeps
  <2>3. CASE DropOut(p)
    BY <2>3, DropOutKeeps
  <2>4. CASE DropOutAfter(p)
    BY <2>4, DropOutAfterKeeps
  <2>5. CASE Disconnect(p)
    BY <2>5, DisconnectKeeps
  <2> QED BY <2>1, <2>2, <2>3, <2>4, <2>5 DEF Quit
<1>8. CASE UNCHANGED vars
  BY <1>8 DEF BracketInv, InOrder, Opening, Ending, PaidOnce, Made, MatchesShape, Decided,
              OwnMatch, vars, playerVars, matchVars, endVars
<1> QED BY <1>1, <1>2, <1>3, <1>4, <1>5, <1>6, <1>7, <1>8 DEF Next

----------------------------------------------------------------------------
(* The rounds of a tournament keep their order and its matches their sides and
   results, whoever quits and whenever. *)
THEOREM RoundsInOrder == Spec => []BracketInv
BY BracketStart, BracketStep, PTL DEF Spec

(* endMatch and someOneWins give the prize, and a match its row of Games, once,
   although a match that is over stays in activeMatches and is ended again. *)
THEOREM ResultsGivenOnce == Spec => []GivenOnce
<1>1. BracketInv => GivenOnce
  <2> SUFFICES ASSUME BracketInv PROVE GivenOnce
    OBVIOUS
  <2>1. paid \in Seq(Players \cup {Null}) /\ bracket \in Tournaments(bracket.entrants)
        /\ PaidOnce(bracket)
    BY DEF BracketInv, InOrder, MatchesShape
  <2>2. PrizeOnce
    BY <2>1 DEF PaidOnce, PrizeOnce, Tournaments
  <2>3. OneRowPerMatch
    BY DEF BracketInv, Decided, OneRowPerMatch
  <2> QED BY <2>2, <2>3 DEF GivenOnce
<1> QED BY <1>1, RoundsInOrder, PTL

(* start makes the final for two players that have won their semifinals,
   although matches_completed is counted for whichever match is ended. *)
THEOREM FinalAfterSemifinals == Spec => FinalFollowsSemifinals
<1>1. ASSUME BracketInv, [Next]_vars, 3 \notin active, 3 \in active'
      PROVE  stage[1] = "completed" /\ stage[2] = "completed"
  <2>1. Start
    <3>1. UNCHANGED active \/ active' = {} \/ Start
      BY <1>1, Zenon DEF Next, Start, Pay, TimerFires, Goal, LeaveTournament, Depart, Quit, ImLeft,
            DropOut, DropOutAfter, Disconnect, PlayerLeaves, RemovePlayer, Crash, vars, matchVars
    <3> QED BY <1>1, <3>1
  <2>2. Null \notin ToSet(bracket.entrants[bracket.round])
    BY <1>1, <2>1 DEF Start, Pairs, Crash, matchVars
  <2>3. bracket.starting
    BY <2>1 DEF Start, Pairs
  <2> DEFINE e == bracket.entrants[bracket.round]
             n == Len(e) \div 2
  <2>4. active' = active \cup {next + j - 1 : j \in 1..n}
    BY <2>1, <2>2 DEF Start, Pairs
  <2>5. \/ next = 1 /\ Len(e) = 4
        \/ bracket.winner[1] # Null /\ bracket.winner[2] # Null
    BY <1>1, <2>2, <2>3, FieldToStart
  <2>6. CASE next = 1 /\ Len(e) = 4
    <3>1. \A j \in 1..n : next + j - 1 # 3
      <4> HIDE DEF e
      <4>1. n = 2
        BY <2>6
      <4> HIDE DEF n
      <4> QED BY <2>6, <4>1
    <3> HIDE DEF n
    <3> QED BY <1>1, <2>4, <3>1
  <2>7. CASE bracket.winner[1] # Null /\ bracket.winner[2] # Null
    BY <1>1, <2>7 DEF BracketInv, Decided, Matches
  <2> QED BY <2>5, <2>6, <2>7
<1> QED BY <1>1, RoundsInOrder, PTL DEF Spec, FinalFollowsSemifinals
----------------------------------------------------------------------------
(* What the page of the bracket reads of the tournament: the players of each
   round come from the pair of matches before it, and only a match that was
   made has a winner, one of its two sides. *)
Finalists(e) ==
    /\ e = <<e[1], e[2]>>
    /\ e[1] \in {Null, Seeds[1], Seeds[2]}
    /\ e[2] \in {Null, Seeds[3], Seeds[4]}

Winners(b) ==
    \A m \in Matches : b.winner[m] # Null =>
        m < next /\ \E k \in Sides : b.winner[m] = player[m][k]

Drawn(b) ==
    /\ b.entrants[0] = Seeds
    /\ next > 1 => \A k \in Sides :
          player[1][k] = Seeds[k] /\ player[2][k] = Seeds[2 + k]
    /\ next > 3 => \A k \in Sides : player[3][k] = b.entrants[1][k]
    /\ Winners(b)
    /\ b.round = 0 => next <= 3 /\ b.entrants[2] = <<>>
    /\ b.entrants[1] = <<>> \/ Finalists(b.entrants[1])
    /\ \/ b.entrants[2] = <<>>
       \/ /\ Finalists(b.entrants[1])
          /\ b.entrants[2] = <<b.entrants[2][1]>>
          /\ b.entrants[2][1] \in {Null, b.entrants[1][1], b.entrants[1][2]}

(* A tournament that nobody quits: its counters tell how many matches of the
   round are not over, and each round holds the winners of the one before. *)
Over(m) == stage[m] = "completed"
Unplayed(m) == IF Over(m) THEN 0 ELSE 1

Calm(b) ==
    /\ \A m \in Matches : Over(m) <=> b.winner[m] # Null
    /\ b.round = 0 =>
          /\ b.left[0] = IF b.starting THEN 0 ELSE Unplayed(1) + Unplayed(2)
          /\ ~(Over(1) /\ Over(2))
          /\ b.entrants[1] = IF Over(1) \/ Over(2)
                             THEN <<b.winner[1], b.winner[2]>> ELSE <<>>
    /\ b.round > 0 =>
          Over(1) /\ Over(2) /\ b.entrants[1] = <<b.winner[1], b.winner[2]>>
    /\ b.round = 1 =>
          /\ b.left[1] = IF b.starting THEN 0 ELSE 1
          /\ ~Over(3) /\ b.entrants[2] = <<>>
    /\ b.round = 2 => Over(3) /\ b.entrants[2] = <<b.winner[3]>>

PageInv ==
    /\ Drawn(bracket)
    /\ quitters = {} => departing = {} /\ (listed = Players => Calm(bracket))

LEMMA PageStart == Init => PageInv
<1> SUFFICES ASSUME Init PROVE PageInv
  OBVIOUS
<1>1. /\ bracket.entrants = [r \in Rounds |-> IF r = 0 THEN Seeds ELSE <<>>]
      /\ bracket.winner = [m \in Matches |-> Null]
      /\ bracket.left = [r \in Rounds |-> 0]
      /\ bracket.round = 0 /\ bracket.starting
      /\ next = 1 /\ departing = {}
      /\ stage = [m \in Matches |-> "none"]
  BY DEF Init
<1>2. Drawn(bracket)
  BY <1>1 DEF Drawn, Winners, Rounds
<1>3. Calm(bracket)
  BY <1>1 DEF Calm, Over, Unplayed, Rounds, Matches
<1> QED BY <1>1, <1>2, <1>3 DEF PageInv

(* What a result changes of the entrants: the round after the current one. *)
LEMMA EntrantsAfter ==
    ASSUME NEW b, InOrder(b), NEW m \in Matches, NEW w \in Players
    PROVE  LET d == Won(b, m, w) IN
           /\ d.entrants[0] = b.entrants[0]
           /\ b.round = 0 =>
                 /\ d.entrants[1] = IF b.starting THEN <<>> ELSE <<d.winner[1], d.winner[2]>>
                 /\ d.entrants[2] = b.entrants[2]
           /\ b.round = 1 =>
                 /\ d.entrants[1] = b.entrants[1]
                 /\ d.entrants[2] = IF b.starting THEN <<>> ELSE <<d.winner[3]>>
           /\ b.round = 2 =>
                 d.entrants[1] = b.entrants[1] /\ d.entrants[2] = b.entrants[2]
<1> DEFINE d == Won(b, m, w)
           W == [b.winner EXCEPT ![m] = w]
<1>1. /\ d.winner = W
      /\ \A r \in Rounds : r # b.round + 1 => d.entrants[r] = b.entrants[r]
      /\ d.entrants[b.round + 1] = Through(b, W)
  <2> DEFINE c == Counted(b, m, w)
  <2> HIDE DEF d
  <2>1. /\ c \in Tournaments(c.entrants)
        /\ c.status = b.status /\ c.round = b.round /\ c.ids = b.ids
        /\ c.starting = b.starting /\ c.paying = b.paying
        /\ c.winner = W /\ c.left = [b.left EXCEPT ![b.round] = @ - 1]
        /\ \A r \in Rounds : r # b.round + 1 => c.entrants[r] = b.entrants[r]
        /\ c.entrants[b.round + 1] = Through(b, W)
    BY CountedFields
  <2>2. GoesOn(b, d, m, w)
    BY WonKeeps DEF d
  <2> HIDE DEF W
  <2>3. d.winner = W /\ d.entrants = c.entrants
    BY <2>2, Zenon DEF GoesOn, W
  <2> HIDE DEF c
  <2> QED BY <2>1, <2>3, Zenon
<1>2. b \in Tournaments(b.entrants) /\ W \in [Matches -> Players \cup {Null}]
      /\ Opening(b) /\ Ending(b)
  BY DEF InOrder, Tournaments
<1> HIDE DEF d, W
<1>3. /\ b.ids[b.round] = <<>> => Through(b, W) = <<>>
      /\ b.ids[b.round] = <<1, 2>> => Through(b, W) = <<W[1], W[2]>>
      /\ b.ids[b.round] = <<3>> => Through(b, W) = <<W[3]>>
  <2>1. b.ids[b.round] = <<>> => Through(b, W) = <<>>
    <3> HAVE b.ids[b.round] = <<>>
    <3>1. Through(b, W) = [i \in {} |-> W[b.ids[b.round][i]]]
      BY DEF Through
    <3> QED BY <3>1
  <2>2. b.ids[b.round] = <<3>> => Through(b, W) = <<W[3]>>
    <3> HAVE b.ids[b.round] = <<3>>
    <3>1. Through(b, W) = [i \in 1..1 |-> W[b.ids[b.round][i]]]
      BY DEF Through
    <3> QED BY <3>1
  <2> QED BY <1>2, <2>1, <2>2, ThroughPairs
<1>4. b.round \in 0..2
  BY <1>2 DEF Tournaments
<1>5. CASE b.round = 0
  <2>1. d.entrants[1] = Through(b, W) /\ d.entrants[2] = b.entrants[2]
        /\ d.entrants[0] = b.entrants[0]
    BY <1>1, <1>5 DEF Rounds
  <2>2. b.ids[b.round] = IF b.starting THEN <<>> ELSE <<1, 2>>
    BY <1>2, <1>5 DEF Opening
  <2> QED BY <1>1, <1>3, <1>5, <2>1, <2>2 DEF d
<1>6. CASE b.round = 1
  <2>1. d.entrants[2] = Through(b, W) /\ d.entrants[1] = b.entrants[1]
        /\ d.entrants[0] = b.entrants[0]
    BY <1>1, <1>6 DEF Rounds
  <2>2. b.ids[b.round] = IF b.starting THEN <<>> ELSE <<3>>
    BY <1>2, <1>6 DEF Ending
  <2> QED BY <1>1, <1>3, <1>6, <2>1, <2>2 DEF d
<1>7. CASE b.round = 2
  <2>1. d.entrants[2] = b.entrants[2] /\ d.entrants[1] = b.entrants[1]
        /\ d.entrants[0] = b.entrants[0]
    BY <1>1, <1>7 DEF Rounds
  <2> QED BY <1>7, <2>1 DEF d
<1> QED BY <1>4, <1>5, <1>6, <1>7

(* A result of a match that was made, for one of its sides. *)
ResultOf(b, d) ==
    \E m \in Matches, k \in Sides : m < next /\ d = Won(b, m, player[m][k])

LEMMA DrawnWon ==
    ASSUME BracketInv, NEW d, Drawn(bracket), ResultOf(bracket, d)
    PROVE  Drawn(d)
<1> DEFINE b == bracket
<1>1. PICK m \in Matches, k \in Sides : m < next /\ d = Won(b, m, player[m][k])
  BY DEF ResultOf
<1>2. PICK w \in Players : w = player[m][k]
  BY <1>1 DEF BracketInv, MatchesShape
<1>3. InOrder(b) /\ b \in Tournaments(b.entrants) /\ Ending(b) /\ Made
  BY DEF BracketInv, InOrder
<1>4. GoesOn(b, d, m, w) /\ d = Won(b, m, w)
  BY <1>1, <1>2, <1>3, WonKeeps
<1>5. /\ d.entrants[0] = b.entrants[0]
      /\ b.round = 0 =>
            /\ d.entrants[1] = IF b.starting THEN <<>> ELSE <<d.winner[1], d.winner[2]>>
            /\ d.entrants[2] = b.entrants[2]
      /\ b.round = 1 =>
            /\ d.entrants[1] = b.entrants[1]
            /\ d.entrants[2] = IF b.starting THEN <<>> ELSE <<d.winner[3]>>
      /\ b.round = 2 =>
            d.entrants[1] = b.entrants[1] /\ d.entrants[2] = b.entrants[2]
  BY <1>3, <1>4, EntrantsAfter
<1> HIDE DEF b
<1>6. Drawn(b)
  BY DEF b
<1>7. b.winner \in [Matches -> Players \cup {Null}] /\ b.round \in 0..2 /\ next \in 1..4
  BY <1>3 DEF Tournaments, BracketInv, MatchesShape
<1>8. Winners(d)
  <2>1. d.winner = [b.winner EXCEPT ![m] = w]
    BY <1>4 DEF GoesOn
  <2> QED BY <1>1, <1>2, <1>6, <1>7, <2>1 DEF Drawn, Winners
<1>9. d.round = 0 => b.round = 0
  BY <1>4, <1>7 DEF GoesOn
<1>10. CASE b.round = 0
  <2>1. next <= 3 /\ b.entrants[2] = <<>>
    BY <1>6, <1>10 DEF Drawn
  <2>2. next > 1
    BY <1>1, <1>7 DEF Matches
  <2>3. d.winner[1] \in {Null, Seeds[1], Seeds[2]} /\ d.winner[2] \in {Null, Seeds[3], Seeds[4]}
    BY <1>6, <1>8, <2>2 DEF Drawn, Winners, Sides, Matches
  <2>4. d.entrants[1] = <<>> \/ Finalists(d.entrants[1])
    BY <1>5, <1>10, <2>3 DEF Finalists
  <2> QED BY <1>5, <1>6, <1>7, <1>8, <1>10, <2>1, <2>4 DEF Drawn
<1>11. CASE b.round = 1
  <2>1. d.entrants[1] = b.entrants[1] /\ d.entrants[0] = b.entrants[0]
    BY <1>5, <1>11
  <2>2. Finalists(b.entrants[1])
    <3>1. b.entrants[1] = <<b.entrants[1][1], b.entrants[1][2]>>
      BY <1>3, <1>11 DEF Ending, b
    <3>2. b.entrants[1] # <<>>
      BY <3>1
    <3> QED BY <1>6, <3>2 DEF Drawn
  <2>3. d.winner[3] \in {Null, b.entrants[1][1], b.entrants[1][2]}
    BY <1>6, <1>7, <1>8 DEF Drawn, Winners, Sides, Matches
  <2>4. \/ d.entrants[2] = <<>>
        \/ /\ d.entrants[2] = <<d.entrants[2][1]>>
           /\ d.entrants[2][1] \in {Null, b.entrants[1][1], b.entrants[1][2]}
    BY <1>5, <1>11, <2>3
  <2> QED BY <1>6, <1>8, <1>9, <1>11, <2>1, <2>2, <2>4 DEF Drawn
<1>12. CASE b.round = 2
  <2>1. /\ d.entrants[1] = b.entrants[1] /\ d.entrants[0] = b.entrants[0]
        /\ d.entrants[2] = b.entrants[2]
    BY <1>5, <1>12
  <2> QED BY <1>6, <1>8, <1>9, <1>12, <2>1 DEF Drawn
<1> QED BY <1>7, <1>10, <1>11, <1>12

(* A round that starts leaves the entrants alone, and makes its matches of
   them. *)
LEMMA StartSides ==
    ASSUME BracketInv, Start, Null \notin ToSet(bracket.entrants[bracket.round])
    PROVE  LET b == bracket  e == b.entrants[b.round] IN
           /\ bracket'.entrants = b.entrants /\ bracket'.winner = b.winner
           /\ bracket'.round = b.round /\ ~bracket'.starting
           /\ UNCHANGED <<departing, quitters, listed>>
           /\ \/ /\ b.round = 0 /\ next = 1 /\ next' = 3
                 /\ bracket'.left[0] = b.left[0] + 2
                 /\ \A k \in Sides : player'[1][k] = e[k] /\ player'[2][k] = e[2 + k]
                 /\ stage'[1] = "pending" /\ stage'[2] = "pending" /\ stage'[3] = stage[3]
              \/ /\ b.round = 1 /\ next = 3 /\ next' = 4
                 /\ bracket'.left[1] = b.left[1] + 1
                 /\ \A k \in Sides : player'[3][k] = e[k]
                 /\ player'[1] = player[1] /\ player'[2] = player[2]
                 /\ stage'[3] = "pending" /\ stage'[1] = stage[1] /\ stage'[2] = stage[2]
<1> DEFINE b == bracket
           e == b.entrants[b.round]
           n == Len(e) \div 2
           games == {next + j - 1 : j \in 1..n}
           seat(m, k) == e[2 * (m - next) + k]
<1>1. /\ b.starting
      /\ bracket' = [b EXCEPT !.starting = FALSE,
                        !.ids[b.round] = [j \in 1..n |-> next + j - 1],
                        !.left[b.round] = @ + n]
      /\ next' = next + n
      /\ player' = [m \in Matches |->
            IF m \in games THEN [k \in Sides |-> seat(m, k)] ELSE player[m]]
      /\ stage' = [m \in Matches |-> IF m \in games THEN "pending" ELSE stage[m]]
      /\ UNCHANGED <<departing, quitters, listed>>
  BY DEF Start, Pairs, endVars
<1>2. b \in Tournaments(b.entrants)
  BY DEF BracketInv, InOrder
<1>3. /\ bracket'.entrants = b.entrants /\ bracket'.winner = b.winner
      /\ bracket'.round = b.round /\ ~bracket'.starting
      /\ bracket'.left = [b.left EXCEPT ![b.round] = @ + n]
  BY <1>1, <1>2 DEF Tournaments
<1>4. \/ b.round = 0 /\ next = 1 /\ Len(e) = 4
      \/ b.round = 1 /\ next = 3 /\ Len(e) = 2
  BY <1>1, FieldToStart
<1> HIDE DEF e
<1>5. CASE b.round = 0 /\ next = 1 /\ Len(e) = 4
  <2>1. n = 2
    BY <1>5
  <2> HIDE DEF n
  <2>2. games = {1, 2}
    BY <1>5, <2>1
  <2> HIDE DEF games
  <2>3. \A k \in Sides : seat(1, k) = e[k] /\ seat(2, k) = e[2 + k]
    BY <1>5 DEF Sides
  <2> HIDE DEF seat
  <2>4. next' = 3 /\ bracket'.left[0] = b.left[0] + 2
    BY <1>1, <1>2, <1>3, <1>5, <2>1 DEF Tournaments, Rounds
  <2>5. \A k \in Sides : player'[1][k] = e[k] /\ player'[2][k] = e[2 + k]
    BY <1>1, <2>2, <2>3 DEF Matches
  <2>6. stage'[1] = "pending" /\ stage'[2] = "pending" /\ stage'[3] = stage[3]
    BY <1>1, <2>2 DEF Matches
  <2> QED BY <1>1, <1>3, <1>5, <2>4, <2>5, <2>6 DEF e
<1>6. CASE b.round = 1 /\ next = 3 /\ Len(e) = 2
  <2>1. n = 1
    BY <1>6
  <2> HIDE DEF n
  <2>2. games = {3}
    BY <1>6, <2>1
  <2> HIDE DEF games
  <2>3. \A k \in Sides : seat(3, k) = e[k]
    BY <1>6 DEF Sides
  <2> HIDE DEF seat
  <2>4. next' = 4 /\ bracket'.left[1] = b.left[1] + 1
    BY <1>1, <1>2, <1>3, <1>6, <2>1 DEF Tournaments, Rounds
  <2>5. /\ \A k \in Sides : player'[3][k] = e[k]
        /\ player'[1] = player[1] /\ player'[2] = player[2]
    BY <1>1, <2>2, <2>3 DEF Matches
  <2>6. stage'[3] = "pending" /\ stage'[1] = stage[1] /\ stage'[2] = stage[2]
    BY <1>1, <2>2 DEF Matches
  <2> QED BY <1>1, <1>3, <1>6, <2>4, <2>5, <2>6 DEF e
<1> QED BY <1>4, <1>5, <1>6

LEMMA StartTells == ASSUME BracketInv, PageInv, Start PROVE PageInv'
<1> DEFINE b == bracket
           e == b.entrants[b.round]
<1>1. CASE Null \in ToSet(e)
  <2>1. UNCHANGED <<bracket, matchVars, playerVars, quitters>>
    BY <1>1 DEF Start, Pairs, Crash
  <2> QED BY <2>1 DEF PageInv, Drawn, Winners, Calm, Over, Unplayed, matchVars, playerVars
<1>2. CASE Null \notin ToSet(e)
  <2>1. /\ bracket'.entrants = b.entrants /\ bracket'.winner = b.winner
        /\ bracket'.round = b.round /\ ~bracket'.starting
        /\ UNCHANGED <<departing, quitters, listed>>
        /\ \/ /\ b.round = 0 /\ next = 1 /\ next' = 3
              /\ bracket'.left[0] = b.left[0] + 2
              /\ \A k \in Sides : player'[1][k] = e[k] /\ player'[2][k] = e[2 + k]
              /\ stage'[1] = "pending" /\ stage'[2] = "pending" /\ stage'[3] = stage[3]
           \/ /\ b.round = 1 /\ next = 3 /\ next' = 4
              /\ bracket'.left[1] = b.left[1] + 1
              /\ \A k \in Sides : player'[3][k] = e[k]
              /\ player'[1] = player[1] /\ player'[2] = player[2]
              /\ stage'[3] = "pending" /\ stage'[1] = stage[1] /\ stage'[2] = stage[2]
    BY <1>2, StartSides
  <2>2. b.starting
    BY DEF Start, Pairs
  <2>3. b.winner \in [Matches -> Players \cup {Null}] /\ b.left \in [Rounds -> Int] /\ Decided
        /\ b.round \in 0..2
    BY DEF BracketInv, InOrder, Tournaments
  <2>4. Drawn(b)
    BY DEF PageInv
  <2>5. CASE b.round = 0 /\ next = 1
    <3>1. \A m \in Matches : bracket'.winner[m] = Null
      BY <2>1, <2>4, <2>5 DEF Drawn, Winners, Matches
    <3>2. Winners(bracket)'
      BY <3>1 DEF Winners
    <3>3. next' = 3 /\ \A k \in Sides : player'[1][k] = Seeds[k] /\ player'[2][k] = Seeds[2 + k]
      BY <2>1, <2>4, <2>5 DEF Drawn
    <3>4. Drawn(bracket)'
      BY <2>1, <2>4, <3>2, <3>3 DEF Drawn, Finalists
    <3>5. ASSUME Calm(b) PROVE Calm(bracket)'
      <4>1. stage'[1] = "pending" /\ stage'[2] = "pending" /\ stage'[3] = stage[3]
            /\ stage[1] = "none" /\ stage[2] = "none" /\ stage[3] = "none"
        BY <2>1, <2>3, <2>5 DEF Decided, Matches
      <4>2. \A m \in Matches : ~Over(m)' /\ ~Over(m)
        BY <4>1 DEF Over, Matches
      <4>3. b.entrants[1] = <<>> /\ b.left[0] = 0
        BY <2>2, <2>5, <3>5, <4>2 DEF Calm, Matches
      <4>4. bracket'.left[0] = 2 /\ Unplayed(1)' = 1 /\ Unplayed(2)' = 1
        BY <2>1, <2>5, <4>2, <4>3 DEF Unplayed, Matches
      <4> QED BY <2>1, <2>5, <3>1, <4>2, <4>3, <4>4 DEF Calm, Matches
    <3> QED BY <2>1, <3>4, <3>5 DEF PageInv
  <2>6. CASE b.round = 1 /\ next = 3
    <3>1. Winners(bracket)'
      <4>1. \A m \in Matches : b.winner[m] # Null => m \in {1, 2}
        BY <2>4, <2>6 DEF Drawn, Winners, Matches
      <4> QED BY <2>1, <2>4, <2>6, <4>1 DEF Drawn, Winners
    <3>2. /\ next' = 4 /\ \A k \in Sides : player'[3][k] = b.entrants[1][k]
          /\ player'[1] = player[1] /\ player'[2] = player[2]
      BY <2>1, <2>6
    <3>3. Drawn(bracket)'
      BY <2>1, <2>4, <2>6, <3>1, <3>2 DEF Drawn, Finalists
    <3>4. ASSUME Calm(b) PROVE Calm(bracket)'
      <4>1. stage'[1] = stage[1] /\ stage'[2] = stage[2] /\ stage'[3] = "pending" /\ stage[3] = "none"
        BY <2>1, <2>3, <2>6 DEF Decided, Matches
      <4>2. \A m \in Matches : Over(m)' <=> Over(m)
        BY <4>1 DEF Over, Matches
      <4> QED BY <2>1, <2>2, <2>6, <3>4, <4>2 DEF Calm, Matches
    <3> QED BY <2>1, <3>3, <3>4 DEF PageInv
  <2> QED BY <2>1, <2>5, <2>6
<1> QED BY <1>1, <1>2

(* Steps that neither give a result nor start a round. *)
LEMMA StillTells ==
    ASSUME PageInv, UNCHANGED <<next, player, stage, quitters>>,
           bracket'.entrants = bracket.entrants, bracket'.winner = bracket.winner,
           bracket'.round = bracket.round, bracket'.left = bracket.left,
           bracket'.starting = bracket.starting,
           quitters = {} => departing' = {} /\ (listed' = listed \/ listed' # Players)
    PROVE  PageInv'
<1>1. Drawn(bracket)'
  BY DEF PageInv, Drawn, Winners, Finalists
<1>2. Calm(bracket) => Calm(bracket)'
  BY DEF Calm, Over, Unplayed
<1> QED BY <1>1, <1>2 DEF PageInv

LEMMA TimerTells ==
    ASSUME BracketInv, PageInv, NEW m \in Matches, TimerFires(m) PROVE PageInv'
<1>1. /\ armed[m] /\ stage' = [stage EXCEPT ![m] = "playing"]
      /\ UNCHANGED <<bracket, next, player, departing, listed, quitters>>
  BY DEF TimerFires, playerVars, endVars
<1>2. stage[m] = "pending" /\ stage \in [Matches -> {"none", "pending", "playing", "completed"}]
  BY <1>1 DEF BracketInv, Decided, MatchesShape
<1>3. \A i \in Matches : Over(i)' <=> Over(i)
  BY <1>1, <1>2 DEF Over
<1>4. Drawn(bracket)'
  BY <1>1 DEF PageInv, Drawn, Winners, Finalists
<1>5. Calm(bracket) => Calm(bracket)'
  BY <1>1, <1>3 DEF Calm, Unplayed, Matches
<1> QED BY <1>1, <1>4, <1>5 DEF PageInv

(* The last goal of a match is its only result while nobody quits. *)
LEMMA CalmGoal ==
    ASSUME BracketInv, NEW m \in Matches, NEW k \in Sides, Goal(m, k),
           Drawn(bracket), Calm(bracket)
    PROVE  Calm(bracket)'
<1> DEFINE b == bracket
           d == bracket'
<1>1. /\ m \in active /\ stage[m] = "playing" /\ d = Won(b, m, player[m][k])
      /\ stage' = [stage EXCEPT ![m] = "completed"]
  BY DEF Goal
<1>2. PICK w \in Players : w = player[m][k]
  BY <1>1 DEF BracketInv, MatchesShape
<1>3. InOrder(b) /\ b \in Tournaments(b.entrants) /\ Made /\ Decided
      /\ Opening(b) /\ Ending(b)
      /\ stage \in [Matches -> {"none", "pending", "playing", "completed"}]
  BY DEF BracketInv, InOrder, MatchesShape
<1>4. GoesOn(b, d, m, w)
  BY <1>1, <1>2, <1>3, WonKeeps
<1>5. /\ d.entrants[0] = b.entrants[0]
      /\ b.round = 0 =>
            /\ d.entrants[1] = IF b.starting THEN <<>> ELSE <<d.winner[1], d.winner[2]>>
            /\ d.entrants[2] = b.entrants[2]
      /\ b.round = 1 =>
            /\ d.entrants[1] = b.entrants[1]
            /\ d.entrants[2] = IF b.starting THEN <<>> ELSE <<d.winner[3]>>
      /\ b.round = 2 =>
            d.entrants[1] = b.entrants[1] /\ d.entrants[2] = b.entrants[2]
  BY <1>1, <1>2, <1>3, EntrantsAfter
<1> HIDE DEF b, d
<1>6. Drawn(b) /\ Calm(b)
  BY DEF b
<1>7. /\ b.winner \in [Matches -> Players \cup {Null}] /\ b.left \in [Rounds -> Int]
      /\ b.round \in 0..2 /\ b.starting \in BOOLEAN
  BY <1>3 DEF Tournaments
<1>8. /\ d.winner[m] # Null /\ Over(m)' /\ ~Over(m)
      /\ \A i \in Matches : i # m => d.winner[i] = b.winner[i] /\ (Over(i)' <=> Over(i))
  BY <1>1, <1>2, <1>3, <1>4, <1>7, PlayersAssumption DEF GoesOn, Over
<1>9. m < next
  BY <1>1 DEF BracketInv, MatchesShape
<1>10. \A i \in Matches : Over(i)' <=> d.winner[i] # Null
  BY <1>6, <1>8 DEF Calm
<1>11. CASE b.round = 0
  <2>1. ~b.starting /\ next <= 3 /\ m \in {1, 2}
    BY <1>3, <1>6, <1>9, <1>11 DEF Made, Matches, Drawn, b
  <2>2. b.left[0] = Unplayed(1) + Unplayed(2) /\ ~(Over(1) /\ Over(2))
    BY <1>6, <1>11, <2>1 DEF Calm
  <2>3. d.left[0] = b.left[0] - 1
    BY <1>4, <1>7, <1>11 DEF GoesOn, Rounds
  <2>4. d.entrants[1] = <<d.winner[1], d.winner[2]>> /\ d.entrants[2] = b.entrants[2]
        /\ b.entrants[2] = <<>>
    BY <1>5, <1>6, <1>11, <2>1 DEF Drawn
  <2>5. ~Over(3)' /\ (Over(1)' \/ Over(2)')
    <3>1. stage[3] = "none"
      BY <1>3, <2>1 DEF Decided, Matches, MatchesShape, BracketInv
    <3>2. ~Over(3)
      BY <3>1 DEF Over
    <3> QED BY <1>8, <2>1, <3>2 DEF Matches
  <2>6. CASE b.left[0] = 1
    <3>1. d.round = 1 /\ d.starting
      BY <1>4, <1>11, <2>6 DEF GoesOn
    <3>2. Over(1)' /\ Over(2)'
      BY <1>8, <2>1, <2>2, <2>6 DEF Unplayed, Matches
    <3>3. d.left[1] = 0
      BY <1>3, <1>4, <1>7, <1>11 DEF GoesOn, Opening, Rounds
    <3> QED BY <1>10, <2>4, <2>5, <3>1, <3>2, <3>3 DEF Calm, d
  <2>7. CASE b.left[0] # 1
    <3>1. d.round = 0 /\ ~d.starting
      BY <1>4, <1>11, <2>1, <2>7 DEF GoesOn
    <3>2. ~(Over(1)' /\ Over(2)') /\ d.left[0] = Unplayed(1)' + Unplayed(2)'
      BY <1>8, <2>1, <2>2, <2>3, <2>7 DEF Unplayed, Matches
    <3> QED BY <1>10, <2>4, <2>5, <3>1, <3>2 DEF Calm, d
  <2> QED BY <2>6, <2>7
<1>12. CASE b.round = 1
  <2>1. Over(1) /\ Over(2) /\ m = 3
    BY <1>6, <1>8, <1>12 DEF Calm, Matches
  <2>2. ~b.starting
    BY <1>3, <1>9, <1>12, <2>1 DEF Made, b
  <2>3. b.left[1] = 1
    BY <1>6, <1>12, <2>2 DEF Calm
  <2>4. d.round = 2
    BY <1>4, <1>12, <2>3 DEF GoesOn
  <2>5. /\ d.entrants[1] = <<d.winner[1], d.winner[2]>> /\ d.entrants[2] = <<d.winner[3]>>
        /\ Over(1)' /\ Over(2)' /\ Over(3)'
    BY <1>5, <1>6, <1>8, <1>12, <2>1, <2>2 DEF Calm, Matches
  <2> QED BY <1>10, <2>4, <2>5 DEF Calm, d
<1>13. CASE b.round = 2
  BY <1>6, <1>8, <1>13 DEF Calm, Matches
<1> QED BY <1>7, <1>11, <1>12, <1>13

LEMMA GoalTells ==
    ASSUME BracketInv, PageInv, NEW m \in Matches, NEW k \in Sides, Goal(m, k) PROVE PageInv'
<1>1. /\ m \in active /\ bracket' = Won(bracket, m, player[m][k])
      /\ UNCHANGED <<next, player, departing, listed, quitters>>
  BY DEF Goal, endVars
<1>2. m < next
  BY <1>1 DEF BracketInv, MatchesShape
<1>3. ResultOf(bracket, bracket')
  BY <1>1, <1>2 DEF ResultOf
<1>4. Drawn(bracket)'
  <2>1. PICK d : d = bracket'
    OBVIOUS
  <2>2. Drawn(d)
    BY <1>3, <2>1, DrawnWon DEF PageInv
  <2> QED BY <1>1, <2>1, <2>2 DEF Drawn, Winners, Finalists
<1>5. Calm(bracket) => Calm(bracket)'
  BY CalmGoal DEF PageInv
<1> QED BY <1>1, <1>4, <1>5 DEF PageInv

(* A player that leaves its match: the other side wins, or nobody. *)
LEMMA LeavingTells ==
    ASSUME BracketInv, PageInv, NEW p \in Players, NEW st, Idle(st, p), NEW online,
           PlayerLeaves(p, st, online), quitters # {}, UNCHANGED quitters
    PROVE  PageInv'
<1>1. UNCHANGED <<next, active, player>>
  BY DEF PlayerLeaves
<1>2. bracket' = bracket \/ ResultOf(bracket, bracket')
  <2>1. CASE matchId[p] \notin active
    BY <2>1 DEF PlayerLeaves
  <2>2. CASE matchId[p] \in active
    <3> DEFINE m == matchId[p]
    <3>1. m \in Matches /\ m < next /\ \E k \in Sides : player[m][k] = p
      BY <2>2 DEF BracketInv, MatchesShape, OwnMatch, Matches, NoMatch
    <3> HIDE DEF m
    <3>2. CASE Default(m, st, online)
      BY <3>1, <3>2 DEF Default, ResultOf, Sides
    <3>3. CASE Walkover(m, st)
      <4>1. Stayers(m, st) = {} \/ \E j \in Sides : Stayers(m, st) = {j}
        BY <3>1, StayersAreOthers DEF BracketInv, Idle
      <4>2. CASE Stayers(m, st) = {}
        BY <3>3, <4>2 DEF Walkover
      <4>3. CASE \E j \in Sides : Stayers(m, st) = {j}
        <5>1. PICK j \in Sides : Stayers(m, st) = {j}
          BY <4>3
        <5>2. bracket' = Won(bracket, m, player[m][j])
          BY <3>3, <5>1 DEF Walkover, Sides
        <5> QED BY <3>1, <5>2 DEF ResultOf
      <4> QED BY <4>1, <4>2, <4>3
    <3> QED BY <2>2, <3>2, <3>3 DEF PlayerLeaves, m
  <2> QED BY <2>1, <2>2
<1>3. PICK d : d = bracket'
  OBVIOUS
<1>4. Drawn(d)
  BY <1>2, <1>3, DrawnWon DEF PageInv
<1> QED BY <1>1, <1>3, <1>4 DEF PageInv, Drawn, Winners, Finalists

(* removePlayer: the champion is taken out, or nobody. *)
LEMMA RemovedTells ==
    ASSUME BracketInv, PageInv, NEW p \in Players, RemovePlayer(p), bracket.status = "COMPLETED",
           quitters # {} \/ departing' = departing
    PROVE  PageInv'
<1> DEFINE e == bracket.entrants[2]
<1>1. bracket \in Tournaments(bracket.entrants) /\ bracket.round = 2 /\ Drawn(bracket)
  BY DEF BracketInv, InOrder, PaidOnce, PageInv
<1>2. UNCHANGED <<matchVars, quitters>>
  BY DEF RemovePlayer, Crash, endVars
<1>3. CASE Null \in ToSet(e)
  <2>1. UNCHANGED <<bracket, listed>>
    BY <1>1, <1>3 DEF RemovePlayer, Crash
  <2> QED BY <1>2, <2>1, StillTells DEF PageInv, matchVars
<1>4. CASE Null \notin ToSet(e)
  <2>1. bracket' = [bracket EXCEPT !.entrants[2] = Without(e, p)] /\ listed' = listed \ {p}
    BY <1>1, <1>4 DEF RemovePlayer
  <2>2. /\ bracket'.winner = bracket.winner /\ bracket'.round = bracket.round
        /\ bracket'.entrants = [bracket.entrants EXCEPT ![2] = Without(e, p)]
    BY <1>1, <2>1 DEF Tournaments
  <2>3. Without(e, p) \in {<<>>, e}
    <3>1. e = <<>> \/ e = <<e[1]>>
      BY <1>1 DEF Drawn
    <3> HIDE DEF e
    <3>2. CASE p \notin ToSet(e)
      BY <3>2 DEF Without
    <3>3. CASE p \in ToSet(e)
      <4>1. e = <<e[1]>> /\ DOMAIN e = {1} /\ Len(e) = 1
        <5>1. e # <<>>
          BY <3>3 DEF ToSet
        <5> QED BY <3>1, <5>1
      <4>2. \E i \in DOMAIN e : e[i] = p
        BY <3>3 DEF ToSet
      <4>3. PICK i : i = CHOOSE j \in DOMAIN e : e[j] = p
        OBVIOUS
      <4>4. i = 1
        BY <4>1, <4>2, <4>3
      <4>5. Without(e, p) = RemoveAt(e, 1)
        BY <3>3, <4>3, <4>4 DEF Without
      <4>6. SubSeq(e, 1, 0) = <<>> /\ SubSeq(e, 2, 1) = <<>>
        BY <4>1
      <4>7. RemoveAt(e, 1) = SubSeq(e, 1, 0) \o SubSeq(e, 2, 1)
        BY <4>1 DEF RemoveAt
      <4> QED BY <4>5, <4>6, <4>7
    <3> QED BY <3>2, <3>3
  <2>4. /\ bracket'.entrants[0] = bracket.entrants[0] /\ bracket'.entrants[1] = bracket.entrants[1]
        /\ bracket'.entrants[2] \in {<<>>, bracket.entrants[2]}
    BY <1>1, <2>2, <2>3 DEF Tournaments, Rounds
  <2>5. Drawn(bracket)'
    BY <1>1, <1>2, <2>2, <2>4 DEF Drawn, Winners, Finalists, matchVars
  <2>6. listed' # Players
    BY <2>1
  <2> QED BY <1>2, <2>5, <2>6 DEF PageInv
<1> QED BY <1>3, <1>4

LEMMA LeaveTournamentTells ==
    ASSUME BracketInv, PageInv, NEW p \in Players, LeaveTournament(p) PROVE PageInv'
<1>1. departing' = departing
  BY DEF LeaveTournament
<1>2. CASE bracket.status = "PLAYING"
  <2>1. UNCHANGED <<bracket, matchVars, quitters, listed>>
    BY <1>2 DEF LeaveTournament, endVars
  <2> QED BY <1>1, <2>1, StillTells DEF PageInv, matchVars
<1>3. CASE bracket.status # "PLAYING"
  <2>1. RemovePlayer(p) /\ bracket.status = "COMPLETED"
    BY <1>3 DEF LeaveTournament, BracketInv, InOrder, Tournaments
  <2> QED BY <1>1, <2>1, RemovedTells
<1> QED BY <1>2, <1>3

LEMMA QuitTells ==
    ASSUME BracketInv, PageInv, NEW p \in quitters, Quit(p) PROVE PageInv'
<1> DEFINE idle == [status EXCEPT ![p] = "idle"]
<1>1. p \in Players /\ quitters # {}
  BY DEF BracketInv, MatchesShape
<1>2. Idle(idle, p)
  BY <1>1, IdleAgain
<1>3. CASE ImLeft(p)
  <2>1. PlayerLeaves(p, idle, connected) /\ UNCHANGED quitters
    BY <1>3 DEF ImLeft, endVars
  <2> HIDE DEF idle
  <2> QED BY <1>1, <1>2, <2>1, LeavingTells
<1>4. CASE DropOut(p)
  <2>1. CASE Cardinality(listed \ connected') >= 4
    <3>1. UNCHANGED <<bracket, next, player, stage, quitters>>
      BY <1>4, <2>1 DEF DropOut
    <3> QED BY <1>1, <3>1, StillTells
  <2>2. CASE ~(Cardinality(listed \ connected') >= 4)
    <3>1. PlayerLeaves(p, idle, connected') /\ UNCHANGED quitters
      BY <1>4, <2>2 DEF DropOut
    <3> HIDE DEF idle
    <3>2. PICK online : online = connected'
      OBVIOUS
    <3> QED BY <1>1, <1>2, <3>1, <3>2, LeavingTells
  <2> QED BY <2>1, <2>2
<1>5. CASE DropOutAfter(p)
  <2>1. RemovePlayer(p) /\ bracket.status = "COMPLETED"
    BY <1>5 DEF DropOutAfter
  <2> QED BY <1>1, <2>1, RemovedTells
<1>6. CASE Disconnect(p)
  <2>1. PlayerLeaves(p, idle, connected') /\ UNCHANGED quitters
    BY <1>6 DEF Disconnect, endVars
  <2> HIDE DEF idle
  <2>2. PICK online : online = connected'
    OBVIOUS
  <2> QED BY <1>1, <1>2, <2>1, <2>2, LeavingTells
<1> QED BY <1>3, <1>4, <1>5, <1>6 DEF Quit

LEMMA DepartTells ==
    ASSUME BracketInv, PageInv, NEW p \in Players, Depart(p) PROVE PageInv'
<1>1. /\ p \in departing /\ PlayerLeaves(p, status, connected)
      /\ UNCHANGED quitters
  BY DEF Depart, endVars
<1>2. Idle(status, p) /\ quitters # {}
  BY <1>1, IdleAgain DEF PageInv
<1> QED BY <1>1, <1>2, LeavingTells

LEMMA PageStep == BracketInv /\ PageInv /\ [Next]_vars => PageInv'
<1> SUFFICES ASSUME BracketInv, PageInv, [Next]_vars PROVE PageInv'
  OBVIOUS
<1>1. CASE Start
  BY <1>1, StartTells
<1>2. CASE Pay
  <2>1. bracket' = [bracket EXCEPT !.paying = NoMatch] /\ bracket \in Tournaments(bracket.entrants)
        /\ UNCHANGED <<playerVars, matchVars, quitters>>
    BY <1>2 DEF Pay, BracketInv, InOrder
  <2>2. /\ bracket'.entrants = bracket.entrants /\ bracket'.winner = bracket.winner
        /\ bracket'.round = bracket.round /\ bracket'.left = bracket.left
        /\ bracket'.starting = bracket.starting
    BY <2>1 DEF Tournaments
  <2> QED BY <2>1, <2>2, StillTells DEF PageInv, playerVars, matchVars
<1>3. CASE \E m \in Matches : TimerFires(m)
  BY <1>3, TimerTells
<1>4. CASE \E m \in Matches, k \in Sides : Goal(m, k)
  BY <1>4, GoalTells
<1>5. CASE \E p \in Players : LeaveTournament(p)
  BY <1>5, LeaveTournamentTells
<1>6. CASE \E p \in Players : Depart(p)
  BY <1>6, DepartTells
<1>7. CASE \E p \in quitters : Quit(p)
  BY <1>7, QuitTells
<1>8. CASE UNCHANGED vars
  BY <1>8, StillTells DEF PageInv, vars, playerVars, matchVars, endVars
<1> QED BY <1>1, <1>2, <1>3, <1>4, <1>5, <1>6, <1>7, <1>8 DEF Next

(* The page that getBracketData is shown on reads as a tree: whoever sits in the
   finals has come from the two seats before, and the champion from the finals,
   whatever the quitters have ended, counted or left. *)
THEOREM PageIsTree == Spec => []BracketIsTree
<1>1. PageInv => BracketIsTree
  <2> SUFFICES ASSUME PageInv PROVE BracketIsTree
    OBVIOUS
  <2> DEFINE e == bracket.entrants
  <2>1. /\ e[0] = Seeds
        /\ e[1] = <<>> \/ Finalists(e[1])
        /\ \/ e[2] = <<>>
           \/ Finalists(e[1]) /\ e[2] = <<e[2][1]>> /\ e[2][1] \in {Null, e[1][1], e[1][2]}
    BY DEF PageInv, Drawn
  <2>2. /\ Seats.semifinals = [i \in 1..4 |-> Seated(e[0], i)]
        /\ Seats.finals = [i \in 1..2 |-> Seated(e[1], i)]
        /\ Champion = Seated(e[2], 1)
    BY DEF Seats, Champion, BracketData, PlayersData
  <2> HIDE DEF e
  <2>3. \A i \in 1..4 : Seats.semifinals[i] = Seeds[i]
    BY <2>1, <2>2, PlayersAssumption DEF Seated
  <2>4. CASE e[1] = <<>>
    <3>1. DOMAIN e[1] = {} /\ e[2] = <<>>
      <4>1. ~Finalists(e[1])
        BY <2>4 DEF Finalists
      <4> QED BY <2>1, <2>4, <4>1
    <3>2. DOMAIN e[2] = {}
      BY <3>1
    <3>3. Champion = Null /\ \A j \in 1..2 : Seats.finals[j] = Null
      BY <2>2, <3>1, <3>2 DEF Seated
    <3> QED BY <3>3 DEF BracketIsTree
  <2>5. CASE Finalists(e[1])
    <3>1. DOMAIN e[1] = 1..2
      BY <2>5 DEF Finalists
    <3>2. Seats.finals[1] = e[1][1] /\ Seats.finals[2] = e[1][2] /\ DOMAIN Seats.finals = 1..2
      BY <2>2, <3>1 DEF Seated
    <3>3. Champion \in {Null, e[1][1], e[1][2]}
      <4>1. CASE e[2] = <<>>
        BY <2>2, <4>1 DEF Seated
      <4>2. CASE e[2] = <<e[2][1]>> /\ e[2][1] \in {Null, e[1][1], e[1][2]}
        <5>1. 1 \in DOMAIN e[2]
          BY <4>2
        <5> QED BY <2>2, <4>2, <5>1 DEF Seated
      <4> QED BY <2>1, <4>1, <4>2
    <3>4. Champion # Null => Champion \in ToSet(Seats.finals)
      BY <3>2, <3>3 DEF ToSet
    <3>5. ASSUME NEW j \in 1..2, Seats.finals[j] # Null
          PROVE  Seats.finals[j] \in {Seats.semifinals[2 * j - 1], Seats.semifinals[2 * j]}
      <4>1. CASE j = 1
        BY <2>3, <2>5, <3>2, <3>5, <4>1 DEF Finalists
      <4>2. CASE j = 2
        BY <2>3, <2>5, <3>2, <3>5, <4>2 DEF Finalists
      <4> QED BY <4>1, <4>2
    <3> QED BY <3>4, <3>5 DEF BracketIsTree
  <2> QED BY <2>1, <2>4, <2>5
<1> QED BY <1>1, BracketStart, BracketStep, PageStart, PageStep, PTL DEF Spec

(* Who has lost while nobody quits: the sides of a match that is over but for
   its winner. *)
LEMMA LosersAreDimmed ==
    ASSUME BracketInv, PageInv, quitters = {}, listed = Players,
           stage[1] = "completed" <=> stage[2] = "completed", NEW p \in Players
    PROVE  Dimmed(p) <=> HasLost(p)
<1> DEFINE b == bracket
           e == bracket.entrants
<1>1. Drawn(b) /\ Calm(b) /\ b.round \in 0..2 /\ Made /\ Decided
      /\ player \in [Matches -> [Sides -> Players \cup {Null}]]
      /\ b.winner \in [Matches -> Players \cup {Null}]
  BY DEF PageInv, BracketInv, InOrder, Tournaments, MatchesShape
<1>2. Dimmed(p) <=> \/ Len(e[1]) = 2 /\ p \notin ToSet(e[1])
                    \/ Len(e[2]) = 1 /\ p \notin ToSet(e[2])
  BY DEF Dimmed, BracketData, PlayersData
<1>3. ASSUME NEW m \in Matches
      PROVE  ToSet(player[m]) = {player[m][1], player[m][2]}
  BY <1>1 DEF ToSet, Sides
<1>4. HasLost(p) <=> \E m \in Matches :
          Over(m) /\ p \in {player[m][1], player[m][2]} /\ b.winner[m] # p
  BY <1>3 DEF HasLost, Over
<1> HIDE DEF b
<1>5. CASE b.round = 0
  <2>1. ~Over(1) /\ ~Over(2) /\ e[1] = <<>> /\ e[2] = <<>>
    BY <1>1, <1>5 DEF Calm, Over, Drawn, b
  <2>2. ~Over(3)
    <3>1. 3 >= next
      BY <1>1, <1>5 DEF Drawn, BracketInv, MatchesShape
    <3> QED BY <1>1, <3>1 DEF Decided, Over, Matches
  <2> QED BY <1>2, <1>4, <2>1, <2>2 DEF Matches
<1>6. CASE b.round > 0
  <2> DEFINE x == b.winner[1]
             y == b.winner[2]
             z == b.winner[3]
  <2>1. Over(1) /\ Over(2) /\ e[1] = <<x, y>> /\ x # Null /\ y # Null
    BY <1>1, <1>6 DEF Calm, Matches, b
  <2>2. /\ x \in {Seeds[1], Seeds[2]} /\ y \in {Seeds[3], Seeds[4]}
        /\ player[1][1] = Seeds[1] /\ player[1][2] = Seeds[2]
        /\ player[2][1] = Seeds[3] /\ player[2][2] = Seeds[4]
    <3>1. next > 1
      BY <1>1, <2>1 DEF Drawn, Winners, Matches, BracketInv, MatchesShape
    <3>2. \A k \in Sides : player[1][k] = Seeds[k] /\ player[2][k] = Seeds[2 + k]
      BY <1>1, <3>1 DEF Drawn
    <3> QED BY <1>1, <2>1, <3>2 DEF Drawn, Winners, Sides, Matches
  <2>3. Len(e[1]) = 2 /\ ToSet(e[1]) = {x, y}
    BY <2>1 DEF ToSet
  <2> HIDE DEF x, y, z, e
  <2>4. p \in {Seeds[1], Seeds[2], Seeds[3], Seeds[4]}
        /\ Seeds[1] \notin {Seeds[3], Seeds[4]} /\ Seeds[2] \notin {Seeds[3], Seeds[4]}
    BY PlayersAssumption
  <2>5. p \notin {x, y} <=> \/ p \in {player[1][1], player[1][2]} /\ x # p
                            \/ p \in {player[2][1], player[2][2]} /\ y # p
    BY <2>2, <2>4
  <2>6. CASE b.round = 1
    <3>1. ~Over(3) /\ e[2] = <<>>
      BY <1>1, <2>6 DEF Calm, b, e
    <3>2. Len(e[2]) # 1
      BY <3>1
    <3> QED BY <1>2, <1>4, <2>1, <2>3, <2>5, <3>1, <3>2 DEF Matches, x, y
  <2>7. CASE b.round = 2
    <3>1. Over(3) /\ e[2] = <<z>> /\ z # Null
      BY <1>1, <2>7 DEF Calm, Matches, b, e, z
    <3>2. next > 3 /\ z \in {player[3][1], player[3][2]}
      BY <1>1, <3>1 DEF Drawn, Winners, Matches, Sides, BracketInv, MatchesShape, z
    <3>3. player[3][1] = x /\ player[3][2] = y
      BY <1>1, <2>1, <3>2 DEF Drawn, Sides, b, e
    <3>4. Len(e[2]) = 1 /\ ToSet(e[2]) = {z}
      BY <3>1 DEF ToSet
    <3> QED BY <1>2, <1>4, <2>1, <2>3, <2>5, <3>1, <3>2, <3>3, <3>4 DEF Matches, x, y, z
  <2> QED BY <1>1, <1>6, <2>6, <2>7
<1> QED BY <1>1, <1>5, <1>6

(* The page of the bracket tells who plays whom, and dims exactly those that have
   lost as long as nobody quits, but while just one semifinal is over. *)
THEOREM PageTells == Spec => []PageTellsBracket
<1>1. BracketInv /\ PageInv => DimmedIsOut
  BY LosersAreDimmed DEF DimmedIsOut
<1> QED BY <1>1, BracketStart, BracketStep, PageStart, PageStep, PageIsTree, PTL
        DEF Spec, PageTellsBracket
=============================================================================
