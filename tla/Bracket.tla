------------------------------- MODULE Bracket -------------------------------
(***************************************************************************)
(* A tournament of the Transcendence game server from the moment it is     *)
(* full: its rounds and matches, the players that leave or lose their      *)
(* connection, and the prize (backend/src/game).  Module Lobby models how  *)
(* a tournament fills up, module Matchmaking the casual matches.           *)
(*                                                                         *)
(* An action is what one callback does up to its end or its first await.   *)
(* The players do nothing but play this tournament or leave it, and a goal *)
(* that does not decide a match changes nothing here.                      *)
(***************************************************************************)
EXTENDS Integers, Sequences, FiniteSets, SequencesExt

CONSTANTS
    Players,
    Null,           \* JavaScript's null in place of a player
    Seeds,          \* the players in the order in which they joined
    Quitters        \* bound: the sets of players that leave the pages of the
                    \* game or lose the connection

ASSUME PlayersAssumption ==
    /\ Null \notin Players
    /\ Seeds \in [1..4 -> Players]
    /\ \A i, j \in 1..4 : Seeds[i] = Seeds[j] => i = j
    /\ Players = {Seeds[i] : i \in 1..4}
    /\ Quitters \subseteq SUBSET Players

Matches == 1..3     \* ids in the order of creation: two semifinals, the final
NoMatch == 0
Rounds == 0..3
Sides == {1, 2}

VARIABLES
    connected,      \* players whose socket is connected
    status,         \* player.status: "idle" or "matched"
    matchId,        \* player.matchId, NoMatch for null
    member,         \* players whose current_tournament is this one
    listed,         \* tournament.players
    departing,      \* disconnected players, awaiting removePlayerFromTournament
    bracket,        \* the tournament, see Init
    next,           \* the id of the next match
    active,         \* the keys of activeMatches
    player, stage, armed,   \* of a match: player1 and player2, status, timer
    rows,           \* of a match: its rows in table Games
    destroyed,      \* destroyTournament was called
    quitters,       \* bound: the players that may leave, chosen at first
    paid,           \* the players that got the prize
    crashed         \* an uncaught TypeError has ended the process

playerVars == <<connected, status, matchId, member, listed, departing>>
matchVars == <<next, active, player, stage, armed, rows>>
endVars == <<destroyed, quitters, paid, crashed>>
vars == <<playerVars, bracket, matchVars, endVars>>

(* The fourth player has joined, and updateTournamentStatus is awaited before
   startooo. *)
Init ==
    /\ connected = Players
    /\ status = [p \in Players |-> "idle"]
    /\ matchId = [p \in Players |-> NoMatch]
    /\ member = Players
    /\ listed = Players
    /\ departing = {}
    /\ bracket =
         [status   |-> "PLAYING",
          round    |-> 0,
          entrants |-> [r \in Rounds |-> IF r = 0 THEN Seeds ELSE <<>>],
          ids      |-> [r \in Rounds |-> <<>>],     \* rounds[r].matches
          left     |-> [r \in Rounds |-> 0],        \* matches_completed
          winner   |-> [m \in Matches |-> Null],
          starting |-> TRUE,        \* start will be called
          paying   |-> NoMatch]     \* whose winner will be paid
    /\ next = 1
    /\ active = {}
    /\ player = [m \in Matches |-> [k \in Sides |-> Null]]
    /\ stage = [m \in Matches |-> "none"]
    /\ armed = [m \in Matches |-> FALSE]
    /\ rows = [m \in Matches |-> 0]
    /\ destroyed = FALSE
    /\ quitters \in Quitters
    /\ paid = <<>>
    /\ crashed = FALSE

Crash ==
    /\ crashed' = TRUE
    /\ UNCHANGED <<bracket, matchVars, destroyed, quitters, paid>>

(* createTournamentGame writes n rows, addScoreToPlayer the prize. *)
CreateTournamentGame(m, n) == rows' = [rows EXCEPT ![m] = @ + n]

AddScoreToPlayer(p) == paid' = Append(paid, p)

----------------------------------------------------------------------------
(* start: the players of the round meet in pairs.  addPVPMatch returns nothing
   for a pair with a null, and reading the id of that throws. *)
Pairs(count) ==
    LET b == bracket
        e == b.entrants[b.round]
        games == {next + j - 1 : j \in 1..(Len(e) \div 2)}
        seat(m, k) == e[2 * (m - next) + k]
    IN
    /\ b.starting
    /\ IF Null \in ToSet(e)
       THEN Crash /\ UNCHANGED playerVars
       ELSE /\ bracket' = [b EXCEPT
                   !.starting = FALSE,
                   !.ids[b.round] = [j \in 1..(Len(e) \div 2) |-> next + j - 1],
                   !.left[b.round] = @ + count]
            /\ next' = next + Len(e) \div 2
            /\ active' = active \cup games
            /\ player' = [m \in Matches |-> IF m \in games
                              THEN [k \in Sides |-> seat(m, k)] ELSE player[m]]
            /\ stage' = [m \in Matches |->
                              IF m \in games THEN "pending" ELSE stage[m]]
            /\ armed' = [m \in Matches |-> m \in games \/ armed[m]]
            /\ status' = [p \in Players |->
                              IF p \in ToSet(e) THEN "matched" ELSE status[p]]
            /\ matchId' = [p \in Players |-> IF p \in ToSet(e)
                  THEN CHOOSE m \in games : \E k \in Sides : seat(m, k) = p
                  ELSE matchId[p]]
            /\ UNCHANGED <<connected, member, listed, departing, rows, endVars>>

StartUncounted == Pairs(0)      \* fault: addMatch does not count

Start == Pairs(Len(bracket.entrants[bracket.round]) \div 2)

(* The timer of addPVPMatch. *)
TimerFires(m) ==
    /\ armed[m]
    /\ armed' = [armed EXCEPT ![m] = FALSE]
    /\ stage' = [stage EXCEPT ![m] = "playing"]
    /\ UNCHANGED <<playerVars, bracket, next, active, player, rows, endVars>>

(* fault: the first player goes through *)
ThroughFirst(b, winner) ==
    [i \in DOMAIN b.ids[b.round] |-> player[b.ids[b.round][i]][1]]

(* fault: the winners are filled in from the end *)
ThroughReversed(b, winner) ==
    [i \in DOMAIN b.ids[b.round] |->
        winner[b.ids[b.round][Len(b.ids[b.round]) + 1 - i]]]

(* someOneWins fills the next round with the winners of the current one, then
   counts the match as played, in the current round, whichever round it is
   of.  The last match of a round starts the next one in 3 s, or ends the
   tournament. *)
Through(b, winner) ==
    [i \in DOMAIN b.ids[b.round] |-> winner[b.ids[b.round][i]]]

Advance(b, m, over) ==
    IF ~over THEN b
    ELSE IF Len(b.entrants[b.round + 1]) > 1
    THEN [b EXCEPT !.round = @ + 1, !.starting = TRUE]
    ELSE [b EXCEPT !.round = @ + 1, !.status = "COMPLETED", !.paying = m]

Counted(b, m, w) ==
    LET winner == [b.winner EXCEPT ![m] = w]
        entrants == [b.entrants EXCEPT ![b.round + 1] = Through(b, winner)]
        left == [b.left EXCEPT ![b.round] = @ - 1]
    IN
    [b EXCEPT !.winner = winner, !.entrants = entrants, !.left = left]

(* fault: a round is over as soon as nothing is left *)
WonAtMostNone(b, m, w) ==
    Advance(Counted(b, m, w), m, b.left[b.round] <= 1)

Won(b, m, w) == Advance(Counted(b, m, w), m, b.left[b.round] = 1)

(* The last goal of a match. *)
Goal(m, k) ==
    LET w == player[m][k] IN
    /\ m \in active
    /\ stage[m] = "playing"
    /\ bracket' = Won(bracket, m, w)
    /\ matchId' = [matchId EXCEPT ![w] = NoMatch]
    /\ stage' = [stage EXCEPT ![m] = "completed"]
    /\ CreateTournamentGame(m, 1)
    /\ UNCHANGED <<connected, status, member, listed, departing, next, active,
                   player, armed, endVars>>

(* updateTournamentStatus is done: the winner the match has now is paid. *)
Pay ==
    /\ bracket.paying # NoMatch
    /\ AddScoreToPlayer(bracket.winner[bracket.paying])
    /\ bracket' = [bracket EXCEPT !.paying = NoMatch]
    /\ UNCHANGED <<playerVars, matchVars, destroyed, quitters, crashed>>

----------------------------------------------------------------------------
(* endMatch, as in module Matchmaking, but with someOneWins for the winner, and
   the match stays in activeMatches in any case.  st are the statuses when the
   player that leaves is idle. *)

Stayers(m, st) == {k \in Sides : st[player[m][k]] # "idle"}

Walkover(m, st) ==
    LET stay == Stayers(m, st)
        first == IF 1 \in stay THEN Won(bracket, m, player[m][1]) ELSE bracket
    IN
    /\ stage[m] = "playing"
    /\ bracket' = IF 2 \in stay THEN Won(first, m, player[m][2]) ELSE first
    /\ status' = st
    /\ matchId' = [p \in Players |->
            IF \E k \in stay : p = player[m][k] THEN NoMatch ELSE matchId[p]]
    /\ stage' = [stage EXCEPT ![m] = IF stay = {} THEN @ ELSE "completed"]
    /\ CreateTournamentGame(m, Cardinality(stay))
    /\ UNCHANGED armed

(* Also when the match is over: player1 wins when it is connected. *)
Default(m, st, online) ==
    LET two == {player[m][k] : k \in Sides} IN
    /\ stage[m] # "playing"
    /\ bracket' = IF player[m][1] \in online THEN Won(bracket, m, player[m][1])
                  ELSE IF player[m][2] \in online
                  THEN Won(bracket, m, player[m][2])
                  ELSE bracket
    /\ status' = [p \in Players |-> IF p \in two THEN "idle" ELSE st[p]]
    /\ matchId' = [p \in Players |-> IF p \in two THEN NoMatch ELSE matchId[p]]
    /\ stage' = [stage EXCEPT ![m] = "completed"]
    /\ armed' = [armed EXCEPT ![m] = FALSE]
    /\ UNCHANGED rows

PlayerLeaves(p, st, online) ==
    /\ UNCHANGED <<next, active, player>>
    /\ IF matchId[p] \in active
       THEN Walkover(matchId[p], st) \/ Default(matchId[p], st, online)
       ELSE status' = st /\ UNCHANGED <<matchId, bracket, stage, armed, rows>>

(* "im_left": the player leaves the pages of the game. *)
ImLeft(p) ==
    /\ p \in connected
    /\ PlayerLeaves(p, [status EXCEPT ![p] = "idle"], connected)
    /\ UNCHANGED <<connected, member, listed, departing, endVars>>

(* removePlayer filters the players of the round, where a player is once, and
   reads the id of every one. *)
Without(e, p) ==
    IF p \in ToSet(e) THEN RemoveAt(e, CHOOSE i \in DOMAIN e : e[i] = p) ELSE e

RemovePlayer(p) ==
    LET b == bracket
        e == b.entrants[b.round]
    IN
    IF Null \in ToSet(e)
    THEN Crash /\ UNCHANGED <<member, listed>>
    ELSE /\ bracket' = [b EXCEPT !.entrants[b.round] = Without(e, p)]
         /\ listed' = listed \ {p}
         /\ member' = member \ {p}
         /\ UNCHANGED <<matchVars, endVars>>

(* "tournament::leave".  in_plrs is counted down from 4 and compared with 4
   then: destroyTournament is never called here. *)
LeaveTournament(p) ==
    /\ p \in connected \cap member
    /\ IF bracket.status = "PLAYING"
       THEN /\ member' = member \ {p}
            /\ UNCHANGED <<listed, bracket, matchVars, endVars>>
       ELSE RemovePlayer(p)
    /\ UNCHANGED <<connected, status, matchId, departing>>

(* "disconnect" of a member while the tournament is played; the last of all
   its players destroys it. *)
DropOut(p) ==
    LET idle == [status EXCEPT ![p] = "idle"] IN
    /\ p \in connected \cap member
    /\ bracket.status = "PLAYING"
    /\ connected' = connected \ {p}
    /\ IF Cardinality(listed \ connected') >= 4
       THEN /\ destroyed' = TRUE
            /\ active' = {}
            /\ armed' = [m \in Matches |-> m \notin active /\ armed[m]]
            /\ status' = idle
            /\ UNCHANGED <<matchId, bracket, next, player, stage, rows>>
       ELSE /\ PlayerLeaves(p, idle, connected')
            /\ UNCHANGED destroyed
    /\ UNCHANGED <<member, listed, departing, quitters, paid, crashed>>

(* "disconnect" of anyone else: a member of a tournament that is completed is
   removed from it first, and leaves its match after getBracketData. *)
DropOutAfter(p) ==
    /\ p \in connected \cap member
    /\ bracket.status = "COMPLETED"
    /\ connected' = connected \ {p}
    /\ status' = [status EXCEPT ![p] = "idle"]
    /\ departing' = departing \cup {p}
    /\ RemovePlayer(p)
    /\ UNCHANGED matchId

Depart(p) ==
    /\ p \in departing
    /\ departing' = departing \ {p}
    /\ PlayerLeaves(p, status, connected)
    /\ UNCHANGED <<connected, member, listed, endVars>>

Disconnect(p) ==
    /\ p \in connected \ member
    /\ connected' = connected \ {p}
    /\ PlayerLeaves(p, [status EXCEPT ![p] = "idle"], connected')
    /\ UNCHANGED <<member, listed, departing, endVars>>

Quit(p) == ImLeft(p) \/ DropOut(p) \/ DropOutAfter(p) \/ Disconnect(p)

Next ==
    /\ ~crashed
    /\ \/ Start
       \/ Pay
       \/ \E m \in Matches : TimerFires(m)
       \/ \E m \in Matches, k \in Sides : Goal(m, k)
       \/ \E p \in Players : LeaveTournament(p) \/ Depart(p)
       \/ \E p \in quitters : Quit(p)

Spec == Init /\ [][Next]_vars

(* Timers fire and the database answers in the end; and a match is won in the
   end by somebody, which is up to its players. *)
Fairness ==
    /\ WF_vars(~crashed /\ Start)
    /\ WF_vars(~crashed /\ Pay)
    /\ \A m \in Matches :
          /\ WF_vars(~crashed /\ TimerFires(m))
          /\ WF_vars(~crashed /\ \E k \in Sides : Goal(m, k))

FairSpec == Spec /\ Fairness

----------------------------------------------------------------------------
(* The page of the bracket as it is answered at this moment: the players of a
   round, null for a winner that is not known yet. *)
PlayersData(r) == bracket.entrants[r]

BracketData ==
    [semifinals |-> PlayersData(0),
     finals     |-> PlayersData(1),
     winner     |-> PlayersData(2)]

(* The page shows the default user in a seat of the semifinals or the finals
   that has no player. *)
Seated(data, i) == IF i \in DOMAIN data THEN data[i] ELSE Null

Seats ==
    [semifinals |-> [i \in 1..4 |-> Seated(BracketData.semifinals, i)],
     finals     |-> [i \in 1..2 |-> Seated(BracketData.finals, i)]]

Champion == Seated(BracketData.winner, 1)

(* PlayerCard: a player that is not of the finals when there are two, and one
   that is not the winner when there is one.  Two finals are there as soon as
   one semifinal is over. *)
Dimmed(p) ==
    LET data == BracketData IN
    \/ Len(data.finals) = 2 /\ p \notin ToSet(data.finals)
    \/ Len(data.winner) = 1 /\ p \notin ToSet(data.winner)

----------------------------------------------------------------------------
(* Every variable stays in its range; the tournament has three rounds, the last
   for the champion. *)
TypeOK ==
    /\ connected \subseteq Players
    /\ status \in [Players -> {"idle", "matched"}]
    /\ matchId \in [Players -> {NoMatch} \cup Matches]
    /\ member \subseteq Players /\ listed \subseteq Players
    /\ departing \subseteq Players
    /\ bracket.status \in {"PLAYING", "COMPLETED"}
    /\ bracket.round \in 0..2
    /\ bracket.entrants \in [Rounds -> Seq(Players \cup {Null})]
    /\ bracket.ids \in [Rounds -> Seq(Matches)]
    /\ bracket.left \in [Rounds -> Int]
    /\ bracket.winner \in [Matches -> Players \cup {Null}]
    /\ bracket.starting \in BOOLEAN
    /\ bracket.paying \in {NoMatch} \cup Matches
    /\ next \in 1..4
    /\ active \subseteq Matches
    /\ player \in [Matches -> [Sides -> Players \cup {Null}]]
    /\ stage \in [Matches -> {"none", "pending", "playing", "completed"}]
    /\ armed \in [Matches -> BOOLEAN]
    /\ rows \in [Matches -> Nat]
    /\ paid \in Seq(Players)
    /\ destroyed \in BOOLEAN /\ crashed \in BOOLEAN

(* The prize is given once, however often the matches of the tournament are
   ended again by players that leave after them. *)
PrizeOnce == Len(paid) + (IF bracket.paying = NoMatch THEN 0 ELSE 1) <= 1

(* A match has one row of Games at most, whatever the order of its last goal
   and the players that leave. *)
OneRowPerMatch == \A m \in Matches : rows[m] <= 1

(* Neither the prize nor a result is given a second time, although a match that
   is over may be ended again. *)
GivenOnce == PrizeOnce /\ OneRowPerMatch

(* The final is made when both semifinals are over, although someOneWins
   counts matches and does not look at them. *)
FinalFollowsSemifinals ==
    [][3 \notin active /\ 3 \in active' =>
          stage[1] = "completed" /\ stage[2] = "completed"]_vars

(* The page reads as a tree, whoever quits: a finalist sits in one of the two
   seats before it, and the champion in one of the two of the finals. *)
BracketIsTree ==
    /\ \A j \in 1..2 : Seats.finals[j] # Null =>
          Seats.finals[j] \in {Seats.semifinals[2 * j - 1], Seats.semifinals[2 * j]}
    /\ Champion # Null => Champion \in ToSet(Seats.finals)

HasLost(p) ==
    \E m \in Matches :
        /\ stage[m] = "completed"
        /\ p \in ToSet(player[m])
        /\ bracket.winner[m] # p

(* While nobody quits or leaves after the end, and unless just one semifinal is
   over, the page dims exactly the players that have lost. *)
DimmedIsOut ==
    (/\ quitters = {}
     /\ listed = Players
     /\ stage[1] = "completed" <=> stage[2] = "completed")
    => \A p \in Players : Dimmed(p) <=> HasLost(p)

(* The page of the bracket tells who plays whom and who is out. *)
PageTellsBracket == BracketIsTree /\ DimmedIsOut

(* While nobody quits, the tournament ends and the one who has won a semifinal
   and the final is paid, also when players leave the page of the tournament. *)
ChampionIsPaid ==
    quitters = {} =>
        <>(\E p \in Players, m \in {1, 2} :
               /\ bracket.winner[m] = p /\ bracket.winner[3] = p
               /\ paid = <<p>>)

==============================================================================
