---------------------------- MODULE MatchHistory ----------------------------
(***************************************************************************)
(* What the Transcendence server keeps of its matches: the rows of table   *)
(* Games, the scores of the users, and what a profile tells of them        *)
(* (models/game.js, controllers/gameController.js, the page of a profile). *)
(*                                                                         *)
(* A step of module Matchmaking that decides a match calls createGame, and *)
(* addScoreToPlayer follows when the row is there: two statements that the *)
(* database answers at any time and in any order.  Nobody catches their    *)
(* failure, which ends the process.  Tournaments write to both tables,     *)
(* too.                                                                    *)
(***************************************************************************)
EXTENDS Matchmaking, FiniteSets

CONSTANTS
    NoUser,         \* "[object Object]", which is the id of no user
    TournamentPrize,    \* prize_value, in units of 100
    MaxWork         \* bound: matches and statements of tournaments, all in all

ASSUME HistoryAssumption ==
    /\ NoUser \notin Users
    /\ TournamentPrize \in Nat
    /\ MaxWork \in Nat

HistoryLimit == 50

VARIABLES
    games,      \* table Games, row by row
    score,      \* Users.score, in units of 100
    writing,    \* createGame is under way: the row, and who is to be paid then
    paying,     \* the row is there, and addScoreToPlayer is under way
    prizes,     \* what tournaments have paid to a user (history variable)
    running     \* the process runs

tableVars == <<games, score, writing, paying, prizes, running>>

HistoryInit ==
    /\ Init
    /\ games = <<>>
    /\ score = [u \in Users |-> 0]
    /\ writing = {} /\ paying = {}
    /\ prizes = [u \in Users |-> 0]
    /\ running = TRUE

----------------------------------------------------------------------------
PlayersOf(m) == [k \in Sides |-> UserOf[player[m][k]]]

(* createGame, with the winner as the caller has written it. *)
Row(m, points, winner) ==
    [match |-> m, players |-> PlayersOf(m), goals |-> points, winner |-> winner]

CreateGames(orders) ==
    /\ writing' = writing \cup orders
    /\ UNCHANGED <<games, score, paying, prizes, running>>

(* match_someOneWins gives createGame the Player object for the id of the
   winner, and addScoreToPlayer its id. *)
RecordGoal(m, k) ==
    IF goals'[m][k] < WinGoals
    THEN UNCHANGED tableVars
    ELSE CreateGames({[row   |-> Row(m, goals'[m], NoUser),
                       payee |-> PlayersOf(m)[k]]})

(* fault: the goals of the other side *)
StayRowSwapped(m, k) ==
    Row(m, [j \in Sides |-> IF j = k THEN 0 ELSE 3], PlayersOf(m)[k])

(* endMatch writes a row for each player that has not left. *)
StayRow(m, k) ==
    Row(m, [j \in Sides |-> IF j = k THEN 3 ELSE 0], PlayersOf(m)[k])

RecordStays(m, stay) ==
    CreateGames({[row |-> StayRow(m, k), payee |-> PlayersOf(m)[k]] : k \in stay})

(* im_left and disconnect, status' being what endMatch reads. *)
RecordLeave(s) ==
    LET m == matchId[s] IN
    IF m \in active /\ stage[m] = "playing"
    THEN RecordStays(m, Stayers(m, status'))
    ELSE UNCHANGED tableVars

(* The row is written, and then() asks for the score. *)
RowWritten(w) ==
    /\ w \in writing
    /\ games' = Append(games, w.row)
    /\ writing' = writing \ {w}
    /\ paying' = paying \cup {w}
    /\ UNCHANGED <<score, prizes, running>>

(* addScoreToPlayer *)
AddScore(u, points) == score' = [score EXCEPT ![u] = @ + points]

(* fault: it is asked for when the match is decided and when the row is there *)
ScoreAddedTwice(w) ==
    /\ w \in paying
    /\ AddScore(w.payee, 2)
    /\ paying' = paying \ {w}
    /\ UNCHANGED <<games, writing, prizes, running>>

ScoreAdded(w) ==
    /\ w \in paying
    /\ AddScore(w.payee, 1)
    /\ paying' = paying \ {w}
    /\ UNCHANGED <<games, writing, prizes, running>>

(* createGame or addScoreToPlayer is rejected: nobody catches that, and no
   other statement is answered any more. *)
StatementFails ==
    /\ writing \cup paying # {}
    /\ running' = FALSE
    /\ UNCHANGED <<games, score, writing, paying, prizes>>

(* createTournamentGame, for a match of a tournament: module Bracket says which
   and when. *)
TournamentRows == {i \in DOMAIN games : games[i].match = NoMatch}

Work ==
    next - 1 + Cardinality(TournamentRows) + Cardinality({u \in Users : prizes[u] > 0})

TournamentGame(winner, loser) ==
    /\ winner # loser
    /\ games' = Append(games,
           [match |-> NoMatch, players |-> [k \in Sides |-> IF k = 1 THEN winner ELSE loser],
            goals |-> [k \in Sides |-> IF k = 1 THEN 3 ELSE 0], winner |-> winner])
    /\ UNCHANGED <<score, writing, paying, prizes, running>>

(* addScoreToPlayer, for a champion *)
TournamentPays(u) ==
    /\ prizes[u] < MaxWork
    /\ AddScore(u, TournamentPrize)
    /\ prizes' = [prizes EXCEPT ![u] = @ + TournamentPrize]
    /\ UNCHANGED <<games, writing, paying, running>>

HistoryNext ==
    /\ running
    /\ \/ \E s \in Sessions : (Connect(s) \/ Matchmake(s)) /\ UNCHANGED tableVars
       \/ \E s, t \in Sessions : Challenge(s, t) /\ UNCHANGED tableVars
       \/ \E m \in Matches : TimerFires(m) /\ UNCHANGED tableVars
       \/ \E m \in Matches, k \in Sides : Goal(m, k) /\ RecordGoal(m, k)
       \/ \E s \in Sessions : (ImLeft(s) \/ Disconnect(s)) /\ RecordLeave(s)
       \/ /\ \/ \E w \in writing : RowWritten(w)
             \/ \E w \in paying : ScoreAdded(w)
             \/ StatementFails
             \/ \E u, v \in Users : TournamentGame(u, v)
             \/ \E u \in Users : TournamentPays(u)
          /\ UNCHANGED vars
    /\ Work' <= MaxWork

HistorySpec == HistoryInit /\ [][HistoryNext]_<<vars, tableVars>>

----------------------------------------------------------------------------
RowsWith(u) == {i \in DOMAIN games : \E k \in Sides : games[i].players[k] = u}
RowsWonBy(u) == {i \in DOMAIN games : games[i].winner = u}

(* ORDER BY g.time DESC: the j-th of the rows, from the newest. *)
Newest(rows, j) ==
    CHOOSE i \in rows : Cardinality({l \in rows : l > i}) = j - 1

(* getUserGameHistory: the rows of a user with tournament_id NULL, the newest
   first. *)
CasualRows(u) == RowsWith(u) \ TournamentRows

UserGameHistory(u) ==
    LET rows == CasualRows(u)
        own  == Cardinality(rows)
    IN  [j \in 1..(IF own < HistoryLimit THEN own ELSE HistoryLimit) |->
            games[Newest(rows, j)]]

(* getGameHistory tells a row as its user sees it.  No row is without a
   winner, and levels and names are left out. *)
FormattedGame(g, u) ==
    LET k == IF g.players[1] = u THEN 1 ELSE 2 IN
    [match         |-> g.match,
     opponent      |-> g.players[3 - k],
     score         |-> g.goals[k],
     opponentScore |-> g.goals[3 - k],
     won           |-> g.winner = u]

GameHistory(u) ==
    [i \in DOMAIN UserGameHistory(u) |-> FormattedGame(UserGameHistory(u)[i], u)]

(* The score in green on the card of a game, and the one in red. *)
Green(card) == IF card.won THEN card.score ELSE card.opponentScore
Red(card) == IF card.won THEN card.opponentScore ELSE card.score

(* getUserStats *)
UserStats(u) ==
    [match_count |-> Cardinality(RowsWith(u)),
     win_count   |-> Cardinality(RowsWonBy(u)),
     lose_count  |-> Cardinality(RowsWith(u) \ RowsWonBy(u))]

----------------------------------------------------------------------------
(* The tables stay in their ranges. *)
HistoryTypeOK ==
    /\ \A i \in DOMAIN games :
          /\ games[i].match \in Matches \cup {NoMatch}
          /\ games[i].players \in [Sides -> Users]
          /\ games[i].goals \in [Sides -> 0..WinGoals \cup {3}]
          /\ games[i].winner \in Users \cup {NoUser}
    /\ score \in [Users -> Nat]

(* The prizes of a user that are under way, and those whose row is there. *)
PaidNow(u) == {w \in paying : w.payee = u}
Owed(u) == {w \in writing \cup paying : w.payee = u}

(* A prize for each match that was decided for one of the user's connections,
   whether by the last goal or by a leaver. *)
Earned(u) ==
    {e \in Matches \X Sides :
        results[e[1]][e[2]] > 0 /\ UserOf[player[e[1]][e[2]]] = u}

(* No prize is lost or paid twice as long as the process runs: what the score
   of a user lacks is under way. *)
ScoreIsEarned ==
    \A u \in Users :
        score[u] + Cardinality(Owed(u)) = Cardinality(Earned(u)) + prizes[u]

(* Of a match between two users that one of them has left, the card of either
   shows the higher score in green, and just one of the two has won. *)
CardsTellTheWinner ==
    \A i \in DOMAIN games :
        LET g == games[i]
            cards == {FormattedGame(g, g.players[k]) : k \in Sides}
        IN  g.winner # NoUser /\ g.players[1] # g.players[2] =>
                /\ \A card \in cards : Green(card) > Red(card)
                /\ Cardinality({card \in cards : card.won}) = 1

(* A profile that is read between any two statements adds up: its tables are in
   range and the score is what was earned; the figures count the cards and the
   rows of tournaments, as long as the cards show every other row; a win that is
   told has its prize, which may be under way, and a prize has its row. *)
ProfileAddsUp ==
    /\ HistoryTypeOK
    /\ ScoreIsEarned
    /\ \A u \in Users :
           LET cards == GameHistory(u)
               count(won) == Cardinality({i \in DOMAIN cards : cards[i].won = won})
               won == RowsWonBy(u)
           IN  /\ Cardinality(CasualRows(u)) <= HistoryLimit =>
                      /\ UserStats(u).win_count
                            = count(TRUE) + Cardinality(won \cap TournamentRows)
                      /\ UserStats(u).lose_count
                            = count(FALSE)
                                + Cardinality((RowsWith(u) \cap TournamentRows) \ won)
               /\ Cardinality(won \ TournamentRows)
                      <= score[u] - prizes[u] + Cardinality(PaidNow(u))
               /\ score[u] - prizes[u] + Cardinality(PaidNow(u))
                      <= Cardinality(CasualRows(u))

==============================================================================
