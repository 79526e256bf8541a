----------------------------- MODULE Matchmaking -----------------------------
(***************************************************************************)
(* Casual matches of the Transcendence game server: the queue, challenges  *)
(* between friends, the sessions of matches, goals, and players that leave *)
(* or lose their connection (backend/src/game).  Matches of a tournament   *)
(* are in module Bracket.                                                  *)
(*                                                                         *)
(* Node runs one callback at a time and none of the callbacks modelled     *)
(* here awaits anything, so an action is one callback: an event of a       *)
(* socket, the timer of a match, or a goal seen by gameplayLoop.  Clients  *)
(* may send any event at any time.                                         *)
(***************************************************************************)
EXTENDS Integers, Sequences

CONSTANTS
    Users,
    Sessions,       \* connections: each is one socket with its Player object
    Nobody,         \* the players of a match that does not exist yet
    UserOf,         \* the user that opens a connection
    MaxMatches,     \* bound: how many matches are created
    WinGoals        \* WIN_GOALS

ASSUME ConstantsAssumption ==
    /\ UserOf \in [Sessions -> Users]
    /\ Nobody \notin Sessions
    /\ MaxMatches \in Nat
    /\ WinGoals \in Nat \ {0}

Matches == 1..MaxMatches
Sides == {1, 2}
NoMatch == 0

VARIABLES
    conn,           \* "new", "online" or "gone", of a connection
    status,         \* player.status: "idle" or "matched"
    matchId,        \* player.matchId, NoMatch for null
    queue,          \* PlayersQueue.players
    next,           \* autoMatchId
    active,         \* the keys of activeMatches
    player,         \* player[m]: player1 and player2
    stage,          \* match.status, "none" before m exists
    armed,          \* match.timer is pending
    goals,          \* goals[m][side]
    results         \* results[m][side]: Games rows with this side as winner

playerVars == <<conn, status, matchId, queue>>
matchVars == <<next, active, player, stage, armed, goals, results>>
vars == <<playerVars, matchVars>>

Init ==
    /\ conn = [s \in Sessions |-> "new"]
    /\ status = [s \in Sessions |-> "idle"]
    /\ matchId = [s \in Sessions |-> NoMatch]
    /\ queue = <<>>
    /\ next = 1
    /\ active = {}
    /\ player = [m \in Matches |-> [k \in Sides |-> Nobody]]
    /\ stage = [m \in Matches |-> "none"]
    /\ armed = [m \in Matches |-> FALSE]
    /\ goals = [m \in Matches |-> [k \in Sides |-> 0]]
    /\ results = [m \in Matches |-> [k \in Sides |-> 0]]

Online(s) == conn[s] = "online"
Live(m) == stage[m] \in {"pending", "playing"}

----------------------------------------------------------------------------
(* A user has one connection to the game at most: the next one is refused
   as long as online_players has the user. *)
Connect(s) ==
    /\ conn[s] = "new"
    /\ conn' = [conn EXCEPT ![s] =
          IF \E t \in Sessions : Online(t) /\ UserOf[t] = UserOf[s]
          THEN "gone" ELSE "online"]
    /\ UNCHANGED <<status, matchId, queue, matchVars>>

(* new Match, the timer, the players' fields and addMatch: tryMatch and
   requestPVPMatch do the same. *)
NewMatch(a, b) ==
    /\ next <= MaxMatches
    /\ next' = next + 1
    /\ active' = active \cup {next}
    /\ player' = [player EXCEPT ![next] =
                      [k \in Sides |-> IF k = 1 THEN a ELSE b]]
    /\ stage' = [stage EXCEPT ![next] = "pending"]
    /\ armed' = [armed EXCEPT ![next] = TRUE]
    /\ status' = [status EXCEPT ![a] = "matched", ![b] = "matched"]
    /\ matchId' = [matchId EXCEPT ![a] = next, ![b] = next]
    /\ UNCHANGED <<goals, results>>

(* "matchmake": addPlayer, which queues the player whatever it is doing, and
   tryMatch, where popTwo takes the first two when enough are waiting. *)
Matchmake(s) ==
    LET waiting == Append(queue, s) IN
    /\ Online(s)
    /\ IF Len(waiting) >= 2
       THEN /\ NewMatch(waiting[1], waiting[2])
            /\ queue' = Tail(Tail(waiting))
       ELSE /\ queue' = waiting
            /\ UNCHANGED <<status, matchId, matchVars>>
    /\ UNCHANGED conn

(* "matchmake::pvp": the challenge of an online player is accepted. *)
Challenge(s, t) ==
    /\ Online(s) /\ Online(t)
    /\ NewMatch(s, t)
    /\ UNCHANGED <<conn, queue>>

(* The timer set with the match, when play begins. *)
TimerFires(m) ==
    /\ armed[m]
    /\ armed' = [armed EXCEPT ![m] = FALSE]
    /\ stage' = [stage EXCEPT ![m] = "playing"]
    /\ UNCHANGED <<playerVars, next, active, player, goals, results>>

(* gameplayLoop finds the ball behind a paddle; the last goal decides the match
   in match_someOneWins. *)
Goal(m, k) ==
    LET after == goals[m][k] + 1 IN
    /\ m \in active
    /\ stage[m] = "playing"
    /\ goals' = [goals EXCEPT ![m][k] = after]
    /\ IF after >= WinGoals
       THEN /\ stage' = [stage EXCEPT ![m] = "completed"]
            /\ results' = [results EXCEPT ![m][k] = @ + 1]
       ELSE UNCHANGED <<stage, results>>
    /\ UNCHANGED <<playerVars, next, active, player, armed>>

----------------------------------------------------------------------------
(* endMatch, called for a player whose status has just become idle; st are the
   statuses at that moment. *)

Stayers(m, st) == {k \in Sides : st[player[m][k]] # "idle"}

(* A match that is played goes 3-0 to each player that is not idle, one after
   the other, and stays in activeMatches. *)
Walkover(m, st) ==
    LET stay == Stayers(m, st)
        last == IF 2 \in stay THEN 2 ELSE 1
    IN
    /\ stage[m] = "playing"
    /\ status' = st
    /\ IF stay = {}
       THEN UNCHANGED <<stage, goals, results>>
       ELSE /\ stage' = [stage EXCEPT ![m] = "completed"]
            /\ goals' = [goals EXCEPT ![m] =
                             [k \in Sides |-> IF k = last THEN 3 ELSE 0]]
            /\ results' = [results EXCEPT ![m] =
                   [k \in Sides |-> IF k \in stay THEN @[k] + 1 ELSE @[k]]]
    /\ UNCHANGED <<matchId, queue, next, active, player, armed>>

(* Any other match is over without a result, which is told to player1 when that
   is connected, to player2 otherwise. *)
Abandon(m, st) ==
    LET a == player[m][1]
        b == player[m][2]
    IN
    /\ stage[m] # "playing"
    /\ status' = [st EXCEPT ![a] = "idle", ![b] = "idle"]
    /\ matchId' = [matchId EXCEPT ![a] = NoMatch, ![b] = NoMatch]
    /\ stage' = [stage EXCEPT ![m] = "completed"]
    /\ active' = active \ {m}
    /\ armed' = [armed EXCEPT ![m] = FALSE]
    /\ UNCHANGED <<queue, next, player, goals, results>>

(* playerLeaves: nothing without a match, or with one that is gone. *)
PlayerLeaves(s, st) ==
    IF matchId[s] \in active
    THEN Walkover(matchId[s], st) \/ Abandon(matchId[s], st)
    ELSE status' = st /\ UNCHANGED <<matchId, queue, matchVars>>

(* "im_left": the player leaves the pages of the game, idle from now on. *)
LeaveAs(s, now) ==
    /\ Online(s)
    /\ PlayerLeaves(s, [status EXCEPT ![s] = now])
    /\ UNCHANGED conn

ImLeftBusy(s) == LeaveAs(s, status[s])          \* fault: status is not set

ImLeft(s) == LeaveAs(s, "idle")

(* "disconnect", for a player in no tournament. *)
Disconnect(s) ==
    /\ Online(s)
    /\ conn' = [conn EXCEPT ![s] = "gone"]
    /\ PlayerLeaves(s, [status EXCEPT ![s] = "idle"])

Next ==
    \/ \E s \in Sessions :
          Connect(s) \/ Matchmake(s) \/ ImLeft(s) \/ Disconnect(s)
    \/ \E s, t \in Sessions : Challenge(s, t)
    \/ \E m \in Matches : TimerFires(m)
    \/ \E m \in Matches, k \in Sides : Goal(m, k)

Spec == Init /\ [][Next]_vars

----------------------------------------------------------------------------
(* Every variable stays in its range. *)
TypeOK ==
    /\ conn \in [Sessions -> {"new", "online", "gone"}]
    /\ status \in [Sessions -> {"idle", "matched"}]
    /\ matchId \in [Sessions -> {NoMatch} \cup Matches]
    /\ queue \in Seq(Sessions)
    /\ next \in 1..(MaxMatches + 1)
    /\ active \subseteq Matches
    /\ player \in [Matches -> [Sides -> Sessions \cup {Nobody}]]
    /\ stage \in [Matches -> {"none", "pending", "playing", "completed"}]
    /\ armed \in [Matches -> BOOLEAN]
    /\ goals \in [Matches -> [Sides -> Nat]]
    /\ results \in [Matches -> [Sides -> Nat]]

(* A match yields one row of Games at most, whatever the order of goals,
   leavers and lost connections: endMatch and match_someOneWins both write
   one, and the score of 100 with it. *)
OneResultPerMatch ==
    \A m \in Matches : results[m][1] + results[m][2] <= 1

(* Nobody waits while somebody else does: tryMatch follows every addition. *)
WaitersArePaired == Len(queue) <= 1

(* A match that is prepared or played can be found by gameplayLoop and by
   endMatch, and a match that has left activeMatches is over. *)
LiveMatchesAreActive == \A m \in Matches : Live(m) => m \in active

(* A player's matchId names a match it plays in, so that nobody ends the
   match of others. *)
MatchIdIsOwn ==
    \A s \in Sessions : matchId[s] # NoMatch =>
        \E k \in Sides : player[matchId[s]][k] = s

(* The server keeps the promises of MatchLife; two results of a match, for one
   side or for both, are no verdict of it. *)
Verdict(m) == results[m][1] + 2 * results[m][2]
Life == INSTANCE MatchLife WITH verdict <- [m \in Matches |-> Verdict(m)]
KeepsMatchLife == Life!Spec

==============================================================================
