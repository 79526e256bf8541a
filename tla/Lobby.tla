-------------------------------- MODULE Lobby --------------------------------
(***************************************************************************)
(* How the tournaments of the Transcendence game server fill up, until they*)
(* start (backend/src/game): players create, join and leave tournaments,   *)
(* lose their connection and come back.  Module Bracket goes on from there.*)
(*                                                                         *)
(* An action is what one callback does up to its end or its next await of  *)
(* the database; the callbacks that wait are in creating, joining and      *)
(* starting.                                                               *)
(***************************************************************************)
EXTENDS Integers, FiniteSets

CONSTANTS
    Users,
    Sessions,       \* connections: each is one socket with its Player object
    UserOf,         \* the user that opens a connection
    Tournaments,
    NoTournament,
    Slots           \* max_players

ASSUME LobbyAssumption ==
    /\ UserOf \in [Sessions -> Users]
    /\ NoTournament \notin Tournaments
    /\ Slots \in Nat \ {0}

VARIABLES
    conn,           \* "new", "online", "closing" or "gone", of a connection
    current,        \* player.current_tournament and player.tid
    phase,          \* tournament.status, "none" and "created" before it has one
    players,        \* tournament.players, an array: <<s, n>> is the n-th time
                    \* that s stands in it
    empty_slots,    \* tournament.empty_slots
    active,         \* the keys of activeTournaments
    creating,       \* <<s, t>>: create waits for the row of t
    joining,        \* <<s, t>>: addPlayerToTournament waits for the bracket
    starting,       \* <<s, t>>: it waits for updateTournamentStatus
    started,        \* how often startooo was called
    crashed         \* an uncaught TypeError has ended the process

waiting == <<creating, joining, starting>>
vars == <<conn, current, phase, players, empty_slots, active, waiting, started,
          crashed>>

Init ==
    /\ conn = [s \in Sessions |-> "new"]
    /\ current = [s \in Sessions |-> NoTournament]
    /\ phase = [t \in Tournaments |-> "none"]
    /\ players = [t \in Tournaments |-> {}]
    /\ empty_slots = [t \in Tournaments |-> Slots]
    /\ active = {}
    /\ creating = {} /\ joining = {} /\ starting = {}
    /\ started = [t \in Tournaments |-> 0]
    /\ crashed = FALSE

Online(s) == conn[s] = "online"

(* In online_players until the end of the callback of disconnect. *)
Known(u) == \E s \in Sessions : conn[s] \in {"online", "closing"} /\ UserOf[s] = u

Connect(s) ==
    /\ conn[s] = "new"
    /\ conn' = [conn EXCEPT ![s] = IF Known(UserOf[s]) THEN "gone" ELSE "online"]
    /\ UNCHANGED <<current, phase, players, empty_slots, active, waiting,
                   started, crashed>>

Copies(s, t) == {p \in players[t] : p[1] = s}

(* addPlayerToTournament, up to getBracketData: addPlayer pushes whoever comes,
   also one that is listed already. *)
AddPlayer(s, t) ==
    /\ players' = [players EXCEPT ![t] = @ \cup {<<s, Cardinality(Copies(s, t)) + 1>>}]
    /\ empty_slots' = [empty_slots EXCEPT ![t] = @ - 1]
    /\ current' = [current EXCEPT ![s] = t]
    /\ joining' = joining \cup {<<s, t>>}

(* "tournament::create": the player is in no tournament when it asks; what it
   does while the row is inserted and read back does not matter.  It may join
   another tournament meanwhile, which still lists it when the new one has taken
   it away, and join that one again. *)
Create(s, t) ==
    /\ Online(s)
    /\ current[s] = NoTournament
    /\ phase[t] = "none"
    /\ phase' = [phase EXCEPT ![t] = "created"]
    /\ creating' = creating \cup {<<s, t>>}
    /\ UNCHANGED <<conn, current, players, empty_slots, active, joining,
                   starting, started, crashed>>

Created(s, t) ==
    /\ <<s, t>> \in creating
    /\ creating' = creating \ {<<s, t>>}
    /\ phase' = [phase EXCEPT ![t] = "PENDING"]
    /\ active' = active \cup {t}
    /\ AddPlayer(s, t)
    /\ UNCHANGED <<conn, starting, started, crashed>>

(* "tournament::join", with an alias that is free there. *)
MayJoin(s, t) ==
    /\ Online(s)
    /\ current[s] = NoTournament
    /\ t \in active
    /\ Cardinality(players[t]) # Slots
    /\ phase[t] = "PENDING"

Join(s, t) ==
    /\ MayJoin(s, t)
    /\ AddPlayer(s, t)
    /\ UNCHANGED <<conn, phase, active, creating, starting, started, crashed>>

(* The rest of addPlayerToTournament: whoever finds the tournament full starts
   it, one callback only because the status is set at once. *)
JoinedAs(s, t, now) ==
    /\ <<s, t>> \in joining
    /\ joining' = joining \ {<<s, t>>}
    /\ IF empty_slots[t] = 0 /\ phase[t] # "PLAYING"
       THEN /\ phase' = [phase EXCEPT ![t] = now]
            /\ starting' = starting \cup {<<s, t>>}
       ELSE UNCHANGED <<phase, starting>>
    /\ UNCHANGED <<conn, current, players, empty_slots, active, creating,
                   started, crashed>>

JoinedLate(s, t) == JoinedAs(s, t, "PENDING")   \* fault: status is not set

Joined(s, t) == JoinedAs(s, t, "PLAYING")

(* startooo: the players meet in pairs, and one that is left over has nobody
   to meet: addPVPMatch returns nothing, and reading its id throws. *)
Start(s, t) ==
    /\ <<s, t>> \in starting
    /\ starting' = starting \ {<<s, t>>}
    /\ started' = [started EXCEPT ![t] = @ + 1]
    /\ crashed' = (Cardinality(players[t]) % 2 = 1)
    /\ UNCHANGED <<conn, current, phase, players, empty_slots, active, creating,
                   joining>>

(* removePlayerFromTournament: removePlayer goes by the id of the user, however
   often that is listed, and counts one slot. *)
Remove(s, t, then) ==
    /\ players' = [players EXCEPT ![t] = {p \in @ : UserOf[p[1]] # UserOf[s]}]
    /\ empty_slots' = [empty_slots EXCEPT ![t] = @ + 1]
    /\ current' = [current EXCEPT ![s] = then]

RemovePlayer(s, t) == Remove(s, t, NoTournament)

(* "tournament::leave": once it is played, a tournament keeps its players. *)
LeaveIf(s, t, removed) ==
    /\ Online(s)
    /\ current[s] = t
    /\ IF removed
       THEN RemovePlayer(s, t)
       ELSE /\ current' = [current EXCEPT ![s] = NoTournament]
            /\ UNCHANGED <<players, empty_slots>>
    /\ UNCHANGED <<conn, phase, active, waiting, started, crashed>>

LeaveAlways(s, t) == LeaveIf(s, t, TRUE)    \* fault: status is not looked at

Leave(s, t) == LeaveIf(s, t, phase[t] # "PLAYING")

(* "disconnect": a tournament that is played and has lost all its players is
   destroyed; from another one the player is removed, and the user is known
   until the bracket is sent to the others. *)
Disconnect(s) ==
    LET t == current[s]
        offline == {p \in players[t] : p[1] = s \/ ~Online(p[1])}
        playing == t # NoTournament /\ phase[t] = "PLAYING"
    IN
    /\ Online(s)
    /\ IF t = NoTournament \/ playing
       THEN /\ conn' = [conn EXCEPT ![s] = "gone"]
            /\ active' = IF playing /\ t \in active
                                /\ Cardinality(offline) >= Slots
                         THEN active \ {t} ELSE active
            /\ UNCHANGED <<current, players, empty_slots>>
       ELSE /\ conn' = [conn EXCEPT ![s] = "closing"]
            /\ RemovePlayer(s, t)
            /\ UNCHANGED active
    /\ UNCHANGED <<phase, waiting, started, crashed>>

Closed(s) ==
    /\ conn[s] = "closing"
    /\ conn' = [conn EXCEPT ![s] = "gone"]
    /\ UNCHANGED <<current, phase, players, empty_slots, active, waiting,
                   started, crashed>>

Next ==
    /\ ~crashed
    /\ \E s \in Sessions :
          \/ Connect(s) \/ Disconnect(s) \/ Closed(s)
          \/ \E t \in Tournaments :
                \/ Create(s, t) \/ Created(s, t)
                \/ Join(s, t) \/ Joined(s, t) \/ Start(s, t)
                \/ Leave(s, t)

Spec == Init /\ [][Next]_vars

----------------------------------------------------------------------------
(* Every variable stays in its range. *)
TypeOK ==
    /\ conn \in [Sessions -> {"new", "online", "closing", "gone"}]
    /\ current \in [Sessions -> Tournaments \cup {NoTournament}]
    /\ phase \in [Tournaments -> {"none", "created", "PENDING", "PLAYING"}]
    /\ players \in [Tournaments -> SUBSET (Sessions \X Nat)]
    /\ empty_slots \in [Tournaments -> {n \in Int : n <= Slots}]
    /\ active \subseteq Tournaments
    /\ creating \subseteq Sessions \X Tournaments
    /\ joining \subseteq Sessions \X Tournaments
    /\ starting \subseteq Sessions \X Tournaments
    /\ started \in [Tournaments -> Nat]
    /\ crashed \in BOOLEAN

(* A tournament starts once, by one of the callbacks that find it full after
   their awaits: a second start would create its matches twice. *)
StartsOnce == \A t \in Tournaments : started[t] <= 1

(* The array of a tournament is never longer than its seats, although a full one
   stays open until its status is set, some awaits later, the slots are counted
   apart from the array, and a player may stand in it more than once. *)
NoOverbooking == \A t \in Tournaments : Cardinality(players[t]) <= Slots

(* The players of a tournament that is played stay the same until it starts and
   after: whoever leaves is still an opponent of the others. *)
FieldIsFixed ==
    [][\A t \in Tournaments :
          phase[t] = "PLAYING" => players'[t] = players[t]]_vars

(* A connected player that is in a tournament is one of its players, also after
   other connections of its user have come and gone. *)
MembersAreListed ==
    \A s \in Sessions : Online(s) /\ current[s] # NoTournament =>
        Copies(s, current[s]) # {}

(* The table of a tournament is kept through all the awaits. *)
LobbyIsKept == StartsOnce /\ NoOverbooking /\ MembersAreListed

==============================================================================
