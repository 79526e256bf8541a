----------------------------- MODULE LobbyProof -----------------------------
(***************************************************************************)
(* Theorems about Lobby and TournamentPages, for any users, connections,   *)
(* tabs, tournaments and number of seats.                                  *)
(***************************************************************************)
EXTENDS TournamentPages, FiniteSetTheorems, TLAPS

(* The shape of the state; how far slots are counted is not needed. *)
Shape ==
    /\ conn \in [Sessions -> {"new", "online", "closing", "gone"}]
    /\ current \in [Sessions -> Tournaments \cup {NoTournament}]
    /\ phase \in [Tournaments -> {"none", "created", "PENDING", "PLAYING"}]
    /\ players \in [Tournaments -> SUBSET (Sessions \X Nat)]
    /\ creating \subseteq Sessions \X Tournaments
    /\ joining \subseteq Sessions \X Tournaments
    /\ starting \subseteq Sessions \X Tournaments
    /\ started \in [Tournaments -> Nat]

(* A tournament that create still waits for is new, and one callback waits;
   nobody is in it. *)
CreatingOK ==
    /\ \A w \in creating : phase[w[2]] = "created"
    /\ \A v, w \in creating : v[2] = w[2] => v = w
    /\ \A w \in joining : phase[w[2]] \in {"PENDING", "PLAYING"}
    /\ \A t \in Tournaments : phase[t] \in {"none", "created"} => players[t] = {}

(* Of the callbacks that find a tournament full one will start it, and it does
   so when the tournament is PLAYING. *)
StartingOK ==
    /\ \A t \in Tournaments : phase[t] # "PLAYING" => started[t] = 0
    /\ \A w \in starting : phase[w[2]] = "PLAYING" /\ started[w[2]] = 0
    /\ \A v, w \in starting : v[2] = w[2] => v = w

(* A user has one connection that is known, for which another one is refused:
   removing the user's entries removes its own. *)
OneKnown ==
    \A r, s \in Sessions :
        /\ conn[r] \in {"online", "closing"} /\ conn[s] \in {"online", "closing"}
        /\ UserOf[r] = UserOf[s]
        => r = s

(* A connection that has not been made has sent nothing. *)
Fresh ==
    \A s \in Sessions : conn[s] = "new" =>
        /\ current[s] = NoTournament
        /\ \A w \in creating : w[1] # s

SeatsAreFinite == \A t \in Tournaments : IsFiniteSet(players[t])

LobbyInv ==
    /\ Shape /\ CreatingOK /\ StartingOK /\ OneKnown
    /\ Fresh /\ SeatsAreFinite /\ LobbyIsKept

LEMMA LobbyStart == Init => LobbyInv
<1> SUFFICES ASSUME Init PROVE LobbyInv
  OBVIOUS
<1>1. Shape /\ CreatingOK /\ StartingOK /\ OneKnown /\ Fresh
  BY LobbyAssumption DEF Init, Shape, CreatingOK, StartingOK, OneKnown, Fresh
<1>2. SeatsAreFinite /\ NoOverbooking
  BY FS_EmptySet, LobbyAssumption DEF Init, SeatsAreFinite, NoOverbooking
<1>3. StartsOnce /\ MembersAreListed
  BY DEF Init, StartsOnce, MembersAreListed, Online, Copies
<1> QED BY <1>1, <1>2, <1>3 DEF LobbyInv, LobbyIsKept


(* Steps that change connections only, and make nobody online or known that
   was not. *)
LEMMA ConnectionEnds ==
    ASSUME LobbyInv, NEW s \in Sessions,
           conn' = [conn EXCEPT ![s] = "gone"],
           UNCHANGED <<current, phase, players, creating, joining, starting, started>>
    PROVE  LobbyInv'
<1>1. Shape' /\ CreatingOK' /\ StartingOK' /\ SeatsAreFinite' /\ Fresh'
  BY DEF LobbyInv, Shape, CreatingOK, StartingOK, SeatsAreFinite, Fresh
<1>2. OneKnown'
  BY DEF LobbyInv, Shape, OneKnown
<1>3. LobbyIsKept'
  BY DEF LobbyInv, LobbyIsKept, StartsOnce, NoOverbooking, MembersAreListed, Shape, Online, Copies
<1> QED BY <1>1, <1>2, <1>3 DEF LobbyInv

LEMMA ConnectKeeps ==
    ASSUME LobbyInv, NEW s \in Sessions, Connect(s) PROVE LobbyInv'
<1>1. CASE Known(UserOf[s])
  BY <1>1, ConnectionEnds DEF Connect, waiting
<1>2. CASE ~Known(UserOf[s])
  <2>1. /\ conn' = [conn EXCEPT ![s] = "online"]
        /\ UNCHANGED <<current, phase, players, creating, joining, starting, started>>
        /\ conn[s] = "new"
    BY <1>2 DEF Connect, waiting
  <2>2. Shape' /\ CreatingOK' /\ StartingOK' /\ SeatsAreFinite'
    BY <2>1 DEF LobbyInv, Shape, CreatingOK, StartingOK, SeatsAreFinite
  <2>3. OneKnown'
    BY <1>2, <2>1 DEF LobbyInv, Shape, OneKnown, Known
  <2>4. current[s] = NoTournament
    BY <2>1 DEF LobbyInv, Fresh
  <2>5. LobbyIsKept'
    BY <2>1, <2>4
       DEF LobbyInv, LobbyIsKept, StartsOnce, NoOverbooking, MembersAreListed, Shape, Online, Copies
  <2> QED BY <2>1, <2>2, <2>3, <2>5 DEF LobbyInv, Fresh, Shape
<1> QED BY <1>1, <1>2

(* How often a player stands in a tournament is a number. *)
LEMMA CopiesAreFinite ==
    ASSUME SeatsAreFinite, NEW s, NEW t \in Tournaments
    PROVE  Cardinality(Copies(s, t)) \in Nat
<1>1. Copies(s, t) \subseteq players[t] /\ IsFiniteSet(players[t])
  BY DEF Copies, SeatsAreFinite
<1>2. IsFiniteSet(Copies(s, t))
  BY <1>1, FS_Subset
<1> QED BY <1>2, FS_CardinalityType

LEMMA SeatTaken ==
    ASSUME Shape, SeatsAreFinite, NoOverbooking, NEW t \in Tournaments, NEW p,
           Cardinality(players[t]) # Slots,
           players' = [players EXCEPT ![t] = @ \cup {p}]
    PROVE  SeatsAreFinite' /\ NoOverbooking'
<1>1. IsFiniteSet(players[t]) /\ Cardinality(players[t]) \in Nat /\ Cardinality(players[t]) < Slots
  BY FS_CardinalityType, LobbyAssumption DEF SeatsAreFinite, NoOverbooking
<1>2. /\ IsFiniteSet(players[t] \cup {p})
      /\ Cardinality(players[t] \cup {p}) \in {Cardinality(players[t]), Cardinality(players[t]) + 1}
  BY <1>1, FS_AddElement
<1>3. Cardinality(players[t] \cup {p}) <= Slots
  BY <1>1, <1>2, LobbyAssumption
<1>4. \A u \in Tournaments : players'[u] = IF u = t THEN players[t] \cup {p} ELSE players[u]
  BY DEF Shape
<1> QED BY <1>2, <1>3, <1>4 DEF SeatsAreFinite, NoOverbooking

(* A player gets a seat of a tournament that is open from now on. *)
LEMMA SeatGiven ==
    ASSUME LobbyInv, NEW s \in Sessions, NEW t \in Tournaments, NEW n \in Nat,
           conn[s] # "new",
           phase[t] \in {"created", "PENDING"}, Cardinality(players[t]) # Slots,
           phase' = [phase EXCEPT ![t] = "PENDING"],
           creating' \subseteq creating, \A w \in creating' : w[2] # t,
           players' = [players EXCEPT ![t] = @ \cup {<<s, n>>}],
           current' = [current EXCEPT ![s] = t],
           joining' = joining \cup {<<s, t>>},
           UNCHANGED <<conn, starting, started>>
    PROVE  LobbyInv'
<1> DEFINE p == <<s, n>>
<1>p. p \in Sessions \X Nat /\ p[1] = s /\ players' = [players EXCEPT ![t] = @ \cup {p}]
  OBVIOUS
<1> HIDE DEF p
<1>1. Shape'
  BY <1>p DEF LobbyInv, Shape
<1>2. CreatingOK'
  BY <1>p DEF LobbyInv, Shape, CreatingOK
<1>3. StartingOK'
  BY DEF LobbyInv, Shape, StartingOK
<1>4. OneKnown' /\ Fresh'
  BY DEF LobbyInv, Shape, OneKnown, Fresh
<1>5. SeatsAreFinite' /\ NoOverbooking'
  BY <1>p, SeatTaken DEF LobbyInv, LobbyIsKept
<1>6. StartsOnce'
  BY DEF LobbyInv, LobbyIsKept, StartsOnce, Shape
<1>7. MembersAreListed'
  <2> SUFFICES ASSUME NEW r \in Sessions, conn[r] = "online", current'[r] # NoTournament
               PROVE  \E q \in players'[current'[r]] : q[1] = r
    BY DEF MembersAreListed, Online, Copies
  <2>1. CASE r = s
    BY <1>p, <2>1 DEF LobbyInv, Shape
  <2>2. CASE r # s
    <3>1. current'[r] = current[r] /\ current[r] \in Tournaments
      BY <2>2, LobbyAssumption DEF LobbyInv, Shape
    <3>2. \E q \in players[current[r]] : q[1] = r
      BY <3>1 DEF LobbyInv, LobbyIsKept, MembersAreListed, Online, Copies
    <3>3. players[current[r]] \subseteq players'[current[r]]
      BY <1>p, <3>1 DEF LobbyInv, Shape
    <3> QED BY <3>1, <3>2, <3>3
  <2> QED BY <2>1, <2>2
<1> QED BY <1>1, <1>2, <1>3, <1>4, <1>5, <1>6, <1>7 DEF LobbyInv, LobbyIsKept

LEMMA JoinKeeps ==
    ASSUME LobbyInv, NEW s \in Sessions, NEW t \in Tournaments, Join(s, t) PROVE LobbyInv'
<1>1. \A w \in creating : w[2] # t
  BY DEF Join, MayJoin, LobbyInv, CreatingOK, Shape
<1>2. phase' = [phase EXCEPT ![t] = "PENDING"]
  BY DEF Join, MayJoin, LobbyInv, Shape
<1>3. Cardinality(Copies(s, t)) + 1 \in Nat
  BY CopiesAreFinite DEF LobbyInv
<1> QED BY <1>1, <1>2, <1>3, SeatGiven DEF Join, MayJoin, AddPlayer, Online

LEMMA CreatedKeeps ==
    ASSUME LobbyInv, NEW s \in Sessions, NEW t \in Tournaments, Created(s, t) PROVE LobbyInv'
<1>1. \A w \in creating' : w[2] # t
  BY DEF Created, LobbyInv, CreatingOK
<1>2. conn[s] # "new"
  BY DEF Created, LobbyInv, Fresh
<1>3. phase[t] = "created" /\ players[t] = {}
  BY DEF Created, LobbyInv, CreatingOK
<1>4. Cardinality(players[t]) # Slots
  BY <1>3, FS_EmptySet, LobbyAssumption
<1>5. Cardinality(Copies(s, t)) + 1 \in Nat
  BY CopiesAreFinite DEF LobbyInv
<1> QED BY <1>1, <1>2, <1>3, <1>4, <1>5, SeatGiven DEF Created, AddPlayer

LEMMA CreateKeeps ==
    ASSUME LobbyInv, NEW s \in Sessions, NEW t \in Tournaments, Create(s, t) PROVE LobbyInv'
<1>1. Shape' /\ CreatingOK'
  BY DEF Create, LobbyInv, Shape, CreatingOK
<1>2. StartingOK' /\ OneKnown' /\ Fresh' /\ SeatsAreFinite'
  BY DEF Create, LobbyInv, Shape, StartingOK, OneKnown, Fresh, SeatsAreFinite, Online
<1>3. LobbyIsKept'
  BY DEF Create, LobbyInv, LobbyIsKept, StartsOnce, NoOverbooking, MembersAreListed, Online, Copies
<1> QED BY <1>1, <1>2, <1>3 DEF LobbyInv

LEMMA JoinedKeeps ==
    ASSUME LobbyInv, NEW s \in Sessions, NEW t \in Tournaments, Joined(s, t) PROVE LobbyInv'
<1>1. UNCHANGED <<conn, current, players, creating, started>> /\ joining' \subseteq joining
  BY DEF Joined, JoinedAs
<1>2. \/ UNCHANGED <<phase, starting>>
      \/ /\ phase[t] = "PENDING"
         /\ phase' = [phase EXCEPT ![t] = "PLAYING"]
         /\ starting' = starting \cup {<<s, t>>}
  BY DEF Joined, JoinedAs, LobbyInv, CreatingOK
<1>3. Shape' /\ CreatingOK'
  BY <1>1, <1>2 DEF LobbyInv, Shape, CreatingOK
<1>4. StartingOK'
  BY <1>1, <1>2 DEF LobbyInv, Shape, StartingOK
<1>5. OneKnown' /\ Fresh' /\ SeatsAreFinite' /\ LobbyIsKept'
  BY <1>1 DEF LobbyInv, OneKnown, Fresh, SeatsAreFinite, LobbyIsKept, StartsOnce,
              NoOverbooking, MembersAreListed, Online, Copies
<1> QED BY <1>3, <1>4, <1>5 DEF LobbyInv

LEMMA StartKeeps ==
    ASSUME LobbyInv, NEW s \in Sessions, NEW t \in Tournaments, Start(s, t) PROVE LobbyInv'
<1>1. /\ UNCHANGED <<conn, current, phase, players, creating, joining>>
      /\ <<s, t>> \in starting
      /\ starting' = starting \ {<<s, t>>}
      /\ started' = [started EXCEPT ![t] = @ + 1]
  BY DEF Start
<1>2. Shape' /\ CreatingOK' /\ OneKnown' /\ Fresh' /\ SeatsAreFinite'
  BY <1>1 DEF LobbyInv, Shape, CreatingOK, OneKnown, Fresh, SeatsAreFinite
<1>3. phase[t] = "PLAYING" /\ started[t] = 0
  BY <1>1 DEF LobbyInv, StartingOK
<1>4. \A w \in starting' : w[2] # t
  BY <1>1 DEF LobbyInv, StartingOK
<1>5. StartingOK'
  BY <1>1, <1>3, <1>4 DEF LobbyInv, Shape, StartingOK
<1>6. LobbyIsKept'
  BY <1>1, <1>3 DEF LobbyInv, Shape, LobbyIsKept, StartsOnce, NoOverbooking, MembersAreListed, Online, Copies
<1> QED BY <1>2, <1>5, <1>6 DEF LobbyInv

(* A player that is known is removed with all entries of its user, and these
   are of no other connection that is known. *)
LEMMA RemoveKeeps ==
    ASSUME LobbyInv, NEW s \in Sessions, NEW t \in Tournaments,
           conn[s] = "online",
           conn' = conn \/ conn' = [conn EXCEPT ![s] = "closing"],
           RemovePlayer(s, t),
           UNCHANGED <<phase, creating, joining, starting, started>>
    PROVE  LobbyInv'
<1>1. /\ players' = [players EXCEPT ![t] = {p \in players[t] : UserOf[p[1]] # UserOf[s]}]
      /\ current' = [current EXCEPT ![s] = NoTournament]
  BY DEF RemovePlayer, Remove
<1>2. \A u \in Tournaments : players'[u] \subseteq players[u]
  BY <1>1 DEF LobbyInv, Shape
<1>3. Shape' /\ StartingOK'
  BY <1>1 DEF LobbyInv, Shape, StartingOK
<1>4. CreatingOK'
  BY <1>2 DEF LobbyInv, CreatingOK
<1>5. OneKnown' /\ Fresh'
  BY <1>1 DEF LobbyInv, Shape, OneKnown, Fresh
<1>6. SeatsAreFinite' /\ NoOverbooking'
  <2> SUFFICES ASSUME NEW u \in Tournaments
               PROVE  IsFiniteSet(players'[u]) /\ Cardinality(players'[u]) <= Slots
    BY DEF SeatsAreFinite, NoOverbooking
  <2>1. IsFiniteSet(players[u]) /\ Cardinality(players[u]) <= Slots
    BY DEF LobbyInv, LobbyIsKept, SeatsAreFinite, NoOverbooking
  <2>2. IsFiniteSet(players'[u]) /\ Cardinality(players'[u]) <= Cardinality(players[u])
    BY <1>2, <2>1, FS_Subset
  <2> QED BY <2>1, <2>2, FS_CardinalityType, LobbyAssumption
<1>7. MembersAreListed'
  <2> SUFFICES ASSUME NEW r \in Sessions, conn'[r] = "online", current'[r] # NoTournament
               PROVE  \E p \in players'[current'[r]] : p[1] = r
    BY DEF MembersAreListed, Online, Copies
  <2>1. r # s /\ conn[r] = "online" /\ current'[r] = current[r]
    BY <1>1 DEF LobbyInv, Shape
  <2>2. UserOf[r] # UserOf[s]
    BY <2>1 DEF LobbyInv, OneKnown
  <2>3. current[r] \in Tournaments /\ \E p \in players[current[r]] : p[1] = r
    BY <2>1 DEF LobbyInv, LobbyIsKept, MembersAreListed, Online, Shape, Copies
  <2> QED BY <1>1, <2>1, <2>2, <2>3 DEF LobbyInv, Shape
<1>8. StartsOnce'
  BY DEF LobbyInv, LobbyIsKept, StartsOnce
<1> QED BY <1>3, <1>4, <1>5, <1>6, <1>7, <1>8 DEF LobbyInv, LobbyIsKept

LEMMA LeaveKeeps ==
    ASSUME LobbyInv, NEW s \in Sessions, NEW t \in Tournaments, Leave(s, t) PROVE LobbyInv'
<1>1. CASE phase[t] # "PLAYING"
  BY <1>1, RemoveKeeps DEF Leave, LeaveIf, Online, waiting
<1>2. CASE phase[t] = "PLAYING"
  <2>1. /\ current' = [current EXCEPT ![s] = NoTournament]
        /\ UNCHANGED <<conn, phase, players, creating, joining, starting, started>>
    BY <1>2 DEF Leave, LeaveIf, waiting
  <2>2. Shape' /\ CreatingOK' /\ StartingOK' /\ OneKnown' /\ Fresh' /\ SeatsAreFinite'
    BY <2>1 DEF LobbyInv, Shape, CreatingOK, StartingOK, OneKnown, Fresh, SeatsAreFinite
  <2>3. LobbyIsKept'
    BY <2>1 DEF LobbyInv, Shape, LobbyIsKept, StartsOnce, NoOverbooking, MembersAreListed, Online, Copies
  <2> QED BY <2>2, <2>3 DEF LobbyInv
<1> QED BY <1>1, <1>2

LEMMA DisconnectKeeps ==
    ASSUME LobbyInv, NEW s \in Sessions, Disconnect(s) PROVE LobbyInv'
<1>1. CASE current[s] = NoTournament \/ phase[current[s]] = "PLAYING"
  <2>1. /\ conn' = [conn EXCEPT ![s] = "gone"]
        /\ UNCHANGED <<current, phase, players, creating, joining, starting, started>>
    BY <1>1 DEF Disconnect, waiting
  <2> QED BY <2>1, ConnectionEnds
<1>2. CASE current[s] # NoTournament /\ phase[current[s]] # "PLAYING"
  <2>1. /\ current[s] \in Tournaments
        /\ conn[s] = "online"
        /\ conn' = [conn EXCEPT ![s] = "closing"]
        /\ RemovePlayer(s, current[s])
        /\ UNCHANGED <<phase, creating, joining, starting, started>>
    BY <1>2 DEF Disconnect, Online, waiting, LobbyInv, Shape
  <2> QED BY <2>1, RemoveKeeps
<1> QED BY <1>1, <1>2

LEMMA LobbyStep == LobbyInv /\ [Next]_vars => LobbyInv'
<1> SUFFICES ASSUME LobbyInv, [Next]_vars PROVE LobbyInv'
  OBVIOUS
<1>1. ASSUME NEW s \in Sessions, Connect(s) \/ Disconnect(s) \/ Closed(s) PROVE LobbyInv'
  <2>1. CASE Closed(s)
    BY <2>1, ConnectionEnds DEF Closed, waiting
  <2> QED BY <1>1, <2>1, ConnectKeeps, DisconnectKeeps
<1>2. ASSUME NEW s \in Sessions, NEW t \in Tournaments,
             \/ Create(s, t) \/ Created(s, t)
             \/ Join(s, t) \/ Joined(s, t) \/ Start(s, t)
             \/ Leave(s, t)
      PROVE  LobbyInv'
  BY <1>2, CreateKeeps, CreatedKeeps, JoinKeeps, JoinedKeeps, StartKeeps, LeaveKeeps
<1>3. CASE UNCHANGED vars
  BY <1>3 DEF vars, waiting, LobbyInv, Shape, CreatingOK, StartingOK, OneKnown, Fresh,
              SeatsAreFinite, LobbyIsKept, StartsOnce, NoOverbooking, MembersAreListed, Online, Copies
<1> QED BY <1>1, <1>2, <1>3 DEF Next

LEMMA LobbyInvariant == Spec => []LobbyInv
<1> QED BY LobbyStart, LobbyStep, PTL DEF Spec

----------------------------------------------------------------------------
(* Seats are given back by players that had taken one: the free ones and the
   players that are in the tournament are no more than there are. *)
Inside(t) == {s \in Sessions : current[s] = t}

SlotsLeft(t) == IsFiniteSet(Inside(t)) /\ empty_slots[t] + Cardinality(Inside(t)) <= Slots

Rest ==
    /\ active \subseteq Tournaments
    /\ crashed \in BOOLEAN
    /\ empty_slots \in [Tournaments -> Int]
    /\ \A t \in Tournaments : SlotsLeft(t)

LEMMA RestStart == ASSUME Init PROVE Rest
<1>1. active \subseteq Tournaments /\ crashed \in BOOLEAN
  BY DEF Init
<1>2. empty_slots = [t \in Tournaments |-> Slots] /\ Slots \in Int
  BY LobbyAssumption DEF Init
<1>3. ASSUME NEW t \in Tournaments PROVE SlotsLeft(t)
  <2>1. Inside(t) = {} /\ empty_slots[t] = Slots
    BY LobbyAssumption DEF Init, Inside
  <2> QED BY <2>1, FS_EmptySet, LobbyAssumption DEF SlotsLeft
<1> QED BY <1>1, <1>2, <1>3 DEF Rest

LEMMA FewerInside ==
    ASSUME NEW t \in Tournaments, SlotsLeft(t), empty_slots \in [Tournaments -> Int],
           empty_slots'[t] = empty_slots[t], Inside(t)' \subseteq Inside(t)
    PROVE  SlotsLeft(t)'
<1>1. IsFiniteSet(Inside(t)') /\ Cardinality(Inside(t)') <= Cardinality(Inside(t))
  BY FS_Subset DEF SlotsLeft
<1>2. Cardinality(Inside(t)') \in Nat /\ Cardinality(Inside(t)) \in Nat
  BY <1>1, FS_CardinalityType DEF SlotsLeft
<1> QED BY <1>1, <1>2, LobbyAssumption DEF SlotsLeft

LEMMA OneMore ==
    ASSUME LobbyInv, Rest, NEW s \in Sessions, NEW t \in Tournaments, AddPlayer(s, t)
    PROVE  empty_slots' \in [Tournaments -> Int] /\ \A u \in Tournaments : SlotsLeft(u)'
<1>1. /\ current' = [current EXCEPT ![s] = t]
      /\ empty_slots' = [empty_slots EXCEPT ![t] = empty_slots[t] - 1]
      /\ empty_slots' \in [Tournaments -> Int] /\ empty_slots \in [Tournaments -> Int]
  BY DEF AddPlayer, Rest
<1>2. ASSUME NEW u \in Tournaments, u # t PROVE SlotsLeft(u)'
  <2>1. Inside(u)' \subseteq Inside(u) /\ empty_slots'[u] = empty_slots[u]
    BY <1>1, <1>2 DEF Inside, LobbyInv, Shape
  <2> QED BY <1>1, <2>1, FewerInside DEF Rest
<1>3. SlotsLeft(t)'
  <2> DEFINE now == {r \in Sessions : current'[r] = t}
  <2>1. now \subseteq Inside(t) \cup {s} /\ empty_slots'[t] = empty_slots[t] - 1
    BY <1>1 DEF Inside, LobbyInv, Shape
  <2>2. IsFiniteSet(Inside(t)) /\ empty_slots[t] + Cardinality(Inside(t)) <= Slots
    BY DEF Rest, SlotsLeft
  <2>3. /\ IsFiniteSet(Inside(t) \cup {s})
        /\ Cardinality(Inside(t) \cup {s}) \in {Cardinality(Inside(t)), Cardinality(Inside(t)) + 1}
    BY <2>2, FS_AddElement
  <2> HIDE DEF now
  <2>4. IsFiniteSet(now) /\ Cardinality(now) <= Cardinality(Inside(t) \cup {s})
    BY <2>1, <2>3, FS_Subset
  <2>5. Cardinality(now) \in Nat /\ Cardinality(Inside(t)) \in Nat /\ empty_slots[t] \in Int
    BY <1>1, <2>2, <2>4, FS_CardinalityType
  <2>6. empty_slots'[t] + Cardinality(now) <= Slots
    BY <2>1, <2>2, <2>3, <2>4, <2>5, LobbyAssumption
  <2> USE DEF now
  <2> QED BY <2>4, <2>6 DEF SlotsLeft, Inside
<1> QED BY <1>1, <1>2, <1>3

LEMMA OneLess ==
    ASSUME LobbyInv, Rest, NEW s \in Sessions, NEW t \in Tournaments,
           current[s] = t, RemovePlayer(s, t)
    PROVE  empty_slots' \in [Tournaments -> Int] /\ \A u \in Tournaments : SlotsLeft(u)'
<1>1. /\ current' = [current EXCEPT ![s] = NoTournament]
      /\ empty_slots' = [empty_slots EXCEPT ![t] = empty_slots[t] + 1]
      /\ empty_slots' \in [Tournaments -> Int] /\ empty_slots \in [Tournaments -> Int]
  BY DEF RemovePlayer, Remove, Rest
<1>2. ASSUME NEW u \in Tournaments, u # t PROVE SlotsLeft(u)'
  <2>1. Inside(u)' \subseteq Inside(u) /\ empty_slots'[u] = empty_slots[u]
    BY <1>1, <1>2, LobbyAssumption DEF Inside, LobbyInv, Shape
  <2> QED BY <1>1, <2>1, FewerInside DEF Rest
<1>3. SlotsLeft(t)'
  <2> DEFINE now == {r \in Sessions : current'[r] = t}
  <2>1. now = Inside(t) \ {s} /\ s \in Inside(t) /\ empty_slots'[t] = empty_slots[t] + 1
    BY <1>1, LobbyAssumption DEF Inside, LobbyInv, Shape
  <2>2. IsFiniteSet(Inside(t)) /\ empty_slots[t] + Cardinality(Inside(t)) <= Slots
    BY DEF Rest, SlotsLeft
  <2> HIDE DEF now
  <2>3. IsFiniteSet(now) /\ Cardinality(now) = Cardinality(Inside(t)) - 1
    BY <2>1, <2>2, FS_RemoveElement
  <2>4. Cardinality(Inside(t)) \in Nat /\ empty_slots[t] \in Int
    BY <1>1, <2>2, FS_CardinalityType
  <2>5. empty_slots'[t] + Cardinality(now) <= Slots
    BY <2>1, <2>2, <2>3, <2>4, LobbyAssumption
  <2> USE DEF now
  <2> QED BY <2>3, <2>5 DEF SlotsLeft, Inside
<1> QED BY <1>1, <1>2, <1>3

(* Steps in which nobody joins and no seat is given back. *)
LEMMA NoneInside ==
    ASSUME LobbyInv, Rest, empty_slots' = empty_slots,
           \A s \in Sessions : current'[s] \in {current[s], NoTournament}
    PROVE  empty_slots' \in [Tournaments -> Int] /\ \A u \in Tournaments : SlotsLeft(u)'
<1>1. \A u \in Tournaments : Inside(u)' \subseteq Inside(u)
  BY LobbyAssumption DEF Inside
<1> QED BY <1>1, FewerInside DEF Rest

LEMMA RestStep == LobbyInv /\ Rest /\ [Next]_vars => Rest'
<1> SUFFICES ASSUME LobbyInv, Rest, [Next]_vars PROVE Rest'
  OBVIOUS
<1>1. active' \subseteq Tournaments /\ crashed' \in BOOLEAN
  BY DEF Rest, Next, vars, Connect, Disconnect, Closed, Create, Created, Join, Joined,
         JoinedAs, Start, Leave, LeaveIf
<1>2. CASE UNCHANGED vars
  <2>1. empty_slots' = empty_slots /\ current' = current
    BY <1>2 DEF vars
  <2> QED BY <1>1, <2>1, NoneInside DEF Rest
<1>3. ASSUME NEW s \in Sessions, Connect(s) \/ Disconnect(s) \/ Closed(s) PROVE Rest'
  <2>1. CASE Connect(s) \/ Closed(s)
    BY <1>1, <2>1, NoneInside DEF Connect, Closed, Rest
  <2>2. CASE Disconnect(s)
    <3>1. CASE current[s] = NoTournament \/ phase[current[s]] = "PLAYING"
      BY <1>1, <2>2, <3>1, NoneInside DEF Disconnect, Rest
    <3>2. CASE current[s] # NoTournament /\ phase[current[s]] # "PLAYING"
      <4>1. current[s] \in Tournaments /\ RemovePlayer(s, current[s])
        BY <2>2, <3>2 DEF Disconnect, LobbyInv, Shape
      <4> QED BY <1>1, <4>1, OneLess DEF Rest
    <3> QED BY <3>1, <3>2
  <2> QED BY <1>3, <2>1, <2>2
<1>4. ASSUME NEW s \in Sessions, NEW t \in Tournaments,
             Create(s, t) \/ Joined(s, t) \/ Start(s, t)
      PROVE  Rest'
  <2>1. empty_slots' = empty_slots /\ current' = current
    BY <1>4 DEF Create, Joined, JoinedAs, Start
  <2> QED BY <1>1, <2>1, NoneInside DEF Rest
<1>5. ASSUME NEW s \in Sessions, NEW t \in Tournaments, Created(s, t) \/ Join(s, t)
      PROVE  Rest'
  BY <1>1, <1>5, OneMore DEF Created, Join, Rest
<1>6. ASSUME NEW s \in Sessions, NEW t \in Tournaments, Leave(s, t) PROVE Rest'
  <2>1. CASE phase[t] # "PLAYING"
    BY <1>1, <1>6, <2>1, OneLess DEF Leave, LeaveIf, Rest
  <2>2. CASE phase[t] = "PLAYING"
    <3>1. empty_slots' = empty_slots /\ current' = [current EXCEPT ![s] = NoTournament]
      BY <1>6, <2>2 DEF Leave, LeaveIf
    <3>2. \A r \in Sessions : current'[r] \in {current[r], NoTournament}
      BY <3>1 DEF LobbyInv, Shape
    <3> QED BY <1>1, <3>1, <3>2, NoneInside DEF Rest
  <2> QED BY <2>1, <2>2
<1> QED BY <1>2, <1>3, <1>4, <1>5, <1>6 DEF Next

LEMMA RestInvariant == Spec => [](LobbyInv /\ Rest)
<1>1. Init => LobbyInv /\ Rest
  BY LobbyStart, RestStart
<1>2. LobbyInv /\ Rest /\ [Next]_vars => (LobbyInv /\ Rest)'
  BY LobbyStep, RestStep
<1> QED BY <1>1, <1>2, PTL DEF Spec

(* The variables stay in their ranges; in particular no more seats become free
   than a tournament has, although removePlayer counts one for any number of
   entries and a player may be in two tournaments (tournament.js:44). *)
LEMMA RestIsType == LobbyInv /\ Rest => TypeOK
<1> SUFFICES ASSUME LobbyInv, Rest PROVE TypeOK
  OBVIOUS
<1>1. ASSUME NEW t \in Tournaments PROVE empty_slots[t] \in {n \in Int : n <= Slots}
  <2>1. Cardinality(Inside(t)) \in Nat
    BY FS_CardinalityType DEF Rest, SlotsLeft
  <2> QED BY <2>1, LobbyAssumption DEF Rest, SlotsLeft
<1>2. empty_slots \in [Tournaments -> {n \in Int : n <= Slots}]
  BY <1>1 DEF Rest
<1> QED BY <1>2 DEF LobbyInv, Shape, Rest, TypeOK

THEOREM TypeCorrect == Spec => []TypeOK
<1> QED BY RestInvariant, RestIsType, PTL

----------------------------------------------------------------------------
(* However callbacks and connections interleave, a tournament starts once, has
   no more players than seats, and lists those that think they are in it
   (services/tournament.js). *)
THEOREM LobbyKept == Spec => []LobbyIsKept
<1>1. LobbyInv => LobbyIsKept
  BY DEF LobbyInv
<1> QED BY <1>1, LobbyInvariant, PTL

(* From the moment a tournament is PLAYING its players stay the same
   (listeners/tournament.js): only those that join, create, leave and disconnect
   touch them, and each of them looks at the status first. *)
LEMMA FieldStep ==
    LobbyInv /\ [Next]_vars =>
        \A t \in Tournaments : phase[t] = "PLAYING" => players'[t] = players[t]
<1> SUFFICES ASSUME LobbyInv, [Next]_vars,
                    NEW u \in Tournaments, phase[u] = "PLAYING"
             PROVE  players'[u] = players[u]
  OBVIOUS
<1>1. ASSUME NEW s \in Sessions, NEW t \in Tournaments, phase[t] # "PLAYING",
             RemovePlayer(s, t) \/ AddPlayer(s, t)
      PROVE  players'[u] = players[u]
  BY <1>1 DEF RemovePlayer, Remove, AddPlayer, LobbyInv, Shape
<1>2. ASSUME NEW s \in Sessions, NEW t \in Tournaments,
             Created(s, t) \/ Join(s, t) \/ Leave(s, t)
      PROVE  players'[u] = players[u]
  <2>1. CASE Created(s, t)
    BY <1>1, <2>1 DEF Created, LobbyInv, CreatingOK
  <2>2. CASE Join(s, t)
    BY <1>1, <2>2 DEF Join, MayJoin
  <2>3. CASE Leave(s, t)
    BY <1>1, <2>3 DEF Leave, LeaveIf
  <2> QED BY <1>2, <2>1, <2>2, <2>3
<1>3. ASSUME NEW s \in Sessions, Disconnect(s) PROVE players'[u] = players[u]
  BY <1>1, <1>3 DEF Disconnect, LobbyInv, Shape
<1> QED BY <1>2, <1>3 DEF Next, Connect, Closed, Create, Joined, JoinedAs, Start, vars

THEOREM FieldFixed == Spec => FieldIsFixed
<1>1. LobbyInv /\ LobbyInv' /\ [Next]_vars =>
        [\A t \in Tournaments : phase[t] = "PLAYING" => players'[t] = players[t]]_vars
  BY FieldStep
<1> QED BY <1>1, LobbyInvariant, PTL DEF Spec, FieldIsFixed

----------------------------------------------------------------------------
(* Packets in queues. *)
Sent == {p \in Packets : p.event = "join" => p.t \in Tournaments}

LEMMA HoldsAppend ==
    ASSUME NEW q \in Seq(Packets), NEW p \in Packets, NEW e
    PROVE  Holds(Append(q, p), e) <=> Holds(q, e) \/ p.event = e
  BY DEF Holds

LEMMA HoldsTail ==
    ASSUME NEW q \in Seq(Packets), q # <<>>, NEW e, Head(q).event # e
    PROVE  Holds(Tail(q), e) <=> Holds(q, e)
<1>1. ASSUME NEW i \in DOMAIN Tail(q) PROVE i + 1 \in DOMAIN q /\ Tail(q)[i] = q[i + 1]
  BY <1>1
<1>2. ASSUME NEW i \in DOMAIN q, q[i].event = e
      PROVE  i - 1 \in DOMAIN Tail(q) /\ Tail(q)[i - 1] = q[i]
  BY <1>2
<1> QED BY <1>1, <1>2 DEF Holds

LEMMA HoldsConcat ==
    ASSUME NEW q \in Seq(Packets), NEW r \in Seq(Packets), NEW e
    PROVE  Holds(q \o r, e) <=> Holds(q, e) \/ Holds(r, e)
<1>1. ASSUME NEW i \in DOMAIN q PROVE i \in DOMAIN (q \o r) /\ (q \o r)[i] = q[i]
  BY <1>1
<1>2. ASSUME NEW i \in DOMAIN r
      PROVE  i + Len(q) \in DOMAIN (q \o r) /\ (q \o r)[i + Len(q)] = r[i]
  BY <1>2
<1>3. ASSUME NEW i \in DOMAIN (q \o r)
      PROVE  \/ i \in DOMAIN q /\ (q \o r)[i] = q[i]
             \/ i - Len(q) \in DOMAIN r /\ (q \o r)[i] = r[i - Len(q)]
  BY <1>3
<1>4. ASSUME Holds(q \o r, e) PROVE Holds(q, e) \/ Holds(r, e)
  <2>1. PICK i \in DOMAIN (q \o r) : (q \o r)[i].event = e
    BY <1>4 DEF Holds
  <2> QED BY <1>3, <2>1 DEF Holds
<1>5. ASSUME Holds(q, e) PROVE Holds(q \o r, e)
  BY <1>1, <1>5 DEF Holds
<1>6. ASSUME Holds(r, e) PROVE Holds(q \o r, e)
  BY <1>2, <1>6 DEF Holds
<1> QED BY <1>4, <1>5, <1>6

(* After every leave in the queue the bracket is asked for. *)
AsksAgain(q) ==
    \A i \in DOMAIN q : q[i].event = "leave" =>
        \E j \in DOMAIN q : j > i /\ q[j].event = "bracket"

LEMMA AsksAgainTail ==
    ASSUME NEW q \in Seq(Packets), q # <<>>, AsksAgain(q)
    PROVE  AsksAgain(Tail(q))
<1> SUFFICES ASSUME NEW i \in DOMAIN Tail(q), Tail(q)[i].event = "leave"
             PROVE  \E j \in DOMAIN Tail(q) : j > i /\ Tail(q)[j].event = "bracket"
  BY DEF AsksAgain
<1>1. i + 1 \in DOMAIN q /\ q[i + 1].event = "leave"
  OBVIOUS
<1>2. PICK j \in DOMAIN q : j > i + 1 /\ q[j].event = "bracket"
  BY <1>1 DEF AsksAgain
<1>3. j - 1 \in DOMAIN Tail(q) /\ Tail(q)[j - 1] = q[j] /\ j - 1 > i
  BY <1>2
<1> QED BY <1>2, <1>3

LEMMA AsksAgainLeft ==
    ASSUME NEW q \in Seq(Packets), q # <<>>, AsksAgain(q), Head(q).event = "leave"
    PROVE  Holds(Tail(q), "bracket")
<1>1. 1 \in DOMAIN q /\ q[1].event = "leave"
  OBVIOUS
<1>2. PICK j \in DOMAIN q : j > 1 /\ q[j].event = "bracket"
  BY <1>1 DEF AsksAgain
<1>3. j - 1 \in DOMAIN Tail(q) /\ Tail(q)[j - 1] = q[j]
  BY <1>2
<1> QED BY <1>2, <1>3 DEF Holds

LEMMA AsksAgainShown ==
    ASSUME NEW q \in Seq(Packets)
    PROVE  AsksAgain(q \o <<Event("bracket")>>)
<1> DEFINE r == q \o <<Event("bracket")>>
<1>1. Len(r) = Len(q) + 1 /\ r[Len(r)] = Event("bracket") /\ DOMAIN r = 1..Len(r)
  BY DEF Event, Packet, Packets
<1>2. \A i \in DOMAIN r : r[i].event = "leave" => i < Len(r)
  BY <1>1 DEF Event, Packet
<1> QED BY <1>1, <1>2 DEF AsksAgain, Event, Packet

----------------------------------------------------------------------------
(* What holds of a tab: its connection was made for it; a leave is followed by
   a question for the bracket while that page is shown; and if the page was
   shown through a connection whose player is in no tournament, the answer that
   takes it away is on its way. *)
TabOK(d) ==
    /\ link[d] # NoLink => TabOf[link[d]] = d /\ conn[link[d]] # "new"
    /\ asked[d] # NoLink => conn[asked[d]] # "new"
    /\ page[d] = "bracket" => AsksAgain(outbox[d])
    /\ /\ page[d] = "bracket" /\ asked[d] = link[d]
       /\ link[d] # NoLink /\ conn[link[d]] = "online"
       /\ current[link[d]] = NoTournament
       => Holds(inbox[d], "nothing") \/ Holds(outbox[d], "bracket")
    /\ /\ link[d] # NoLink /\ conn[link[d]] = "online"
       /\ current[link[d]] # NoTournament
       => \/ page[d] \in {"bracket", "online"}
          \/ Holds(inbox[d], "joined")
          \/ Holds(outbox[d], "leave")

PagesShape ==
    /\ page \in [Tabs -> Pages]
    /\ link \in [Tabs -> Sessions \cup {NoLink}]
    /\ outbox \in [Tabs -> Seq(Sent)]
    /\ inbox \in [Tabs -> Seq(Packets)]
    /\ asked \in [Tabs -> Sessions \cup {NoLink}]

PagesInv == LobbyInv /\ PagesShape /\ \A d \in Tabs : TabOK(d)

LEMMA SentArePackets ==
    ASSUME NEW q \in Seq(Sent) PROVE q \in Seq(Packets)
<1>1. Len(q) \in Nat /\ DOMAIN q = 1..Len(q) /\ \A i \in DOMAIN q : q[i] \in Packets
  BY DEF Sent
<1> QED BY <1>1

LEMMA Events ==
    \A e \in {"create", "leave", "bracket", "joined", "nothing", "start"} :
        Event(e) \in Packets /\ Event(e) \in Sent /\ Event(e).event = e
  BY DEF Event, Packet, Packets, Sent

LEMMA PagesStart == PagesInit => PagesInv
<1> SUFFICES ASSUME PagesInit PROVE PagesInv
  OBVIOUS
<1>1. LobbyInv
  BY LobbyStart DEF PagesInit
<1>2. ASSUME NEW d \in Tabs PROVE Asks(page[d]) \in Seq(Sent)
  BY Events DEF Asks
<1>3. PagesShape
  <2>1. page \in [Tabs -> Pages] /\ link \in [Tabs -> Sessions \cup {NoLink}]
    BY TabsAssumption DEF PagesInit, Pages
  <2>2. outbox \in [Tabs -> Seq(Sent)]
    BY <1>2 DEF PagesInit
  <2>3. inbox \in [Tabs -> Seq(Packets)] /\ asked \in [Tabs -> Sessions \cup {NoLink}]
    BY DEF PagesInit
  <2> QED BY <2>1, <2>2, <2>3 DEF PagesShape
<1>4. ASSUME NEW d \in Tabs, page[d] = "bracket" PROVE AsksAgain(outbox[d])
  BY <1>4, Events DEF PagesInit, Asks, AsksAgain, Event, Packet
<1> QED BY <1>1, <1>3, <1>4 DEF PagesInv, TabOK, PagesInit

(* A connection that is made is never made again. *)
LEMMA ConnectionsGoOn ==
    ASSUME LobbyInv, [Next]_vars, NEW s \in Sessions, conn[s] # "new"
    PROVE  conn'[s] # "new" /\ (conn'[s] = "online" => conn[s] = "online")
<1>1. ASSUME NEW r \in Sessions, Connect(r) \/ Disconnect(r) \/ Closed(r)
      PROVE  conn'[s] # "new" /\ (conn'[s] = "online" => conn[s] = "online")
  BY <1>1 DEF Connect, Disconnect, Closed, LobbyInv, Shape
<1> QED BY <1>1 DEF Next, Create, Created, Join, Joined, JoinedAs, Start, Leave, LeaveIf, vars

(* A tab that neither does nor hears anything. *)
LEMMA TabApart ==
    ASSUME PagesInv, [Next]_vars, NEW d \in Tabs,
           page'[d] = page[d], link'[d] = link[d], outbox'[d] = outbox[d],
           inbox'[d] = inbox[d], asked'[d] = asked[d],
           \/ link[d] = NoLink
           \/ conn'[link[d]] # "online"
           \/ current'[link[d]] = current[link[d]]
    PROVE  TabOK(d)'
<1>1. link[d] \in Sessions \cup {NoLink} /\ asked[d] \in Sessions \cup {NoLink}
  BY DEF PagesInv, PagesShape
<1>2. LobbyInv /\ TabOK(d)
  BY DEF PagesInv
<1>3. asked[d] # NoLink => conn'[asked[d]] # "new"
  BY <1>1, <1>2, ConnectionsGoOn DEF TabOK
<1>4. link[d] # NoLink =>
        conn'[link[d]] # "new" /\ (conn'[link[d]] = "online" => conn[link[d]] = "online")
  BY <1>1, <1>2, ConnectionsGoOn DEF TabOK
<1>5. /\ Holds(inbox[d], "nothing")' = Holds(inbox[d], "nothing")
      /\ Holds(inbox[d], "joined")' = Holds(inbox[d], "joined")
      /\ Holds(outbox[d], "bracket")' = Holds(outbox[d], "bracket")
      /\ Holds(outbox[d], "leave")' = Holds(outbox[d], "leave")
      /\ AsksAgain(outbox[d])' = AsksAgain(outbox[d])
  BY DEF Holds, AsksAgain
<1>6. AsksAgain(outbox'[d]) = AsksAgain(outbox[d])
  OBVIOUS
<1> QED BY <1>2, <1>3, <1>4, <1>5, <1>6 DEF TabOK

(* What Show does to the tab. *)
LEMMA Shown ==
    ASSUME PagesShape, NEW d \in Tabs, NEW p \in Pages, Show(d, p)
    PROVE  /\ page' = [page EXCEPT ![d] = p]
           /\ outbox' \in [Tabs -> Seq(Sent)] /\ asked' \in [Tabs -> Sessions \cup {NoLink}]
           /\ \A e \in Tabs \ {d} : outbox'[e] = outbox[e] /\ asked'[e] = asked[e]
           /\ page[d] = p => outbox'[d] = outbox[d] /\ asked'[d] = asked[d]
           /\ page[d] # p =>
                /\ asked'[d] = NoLink
                /\ p \notin PagesThatStay => Holds(outbox'[d], "leave")
                /\ p = "bracket" => AsksAgain(outbox'[d])
           /\ Holds(outbox[d], "leave") => Holds(outbox'[d], "leave")
<1>1. CASE page[d] = p
  BY <1>1 DEF Show, PagesShape
<1>2. CASE page[d] # p
  <2>1. /\ outbox' = [outbox EXCEPT ![d] = outbox[d] \o Quits(p) \o Asks(p)]
        /\ page' = [page EXCEPT ![d] = p] /\ asked' = [asked EXCEPT ![d] = NoLink]
    BY <1>2 DEF Show
  <2> DEFINE new == outbox[d] \o Quits(p) \o Asks(p)
  <2>2. /\ outbox[d] \in Seq(Sent) /\ outbox[d] \in Seq(Packets)
        /\ Quits(p) \in Seq(Sent) /\ Quits(p) \in Seq(Packets)
        /\ Asks(p) \in Seq(Sent) /\ Asks(p) \in Seq(Packets)
    BY SentArePackets, Events DEF PagesShape, Quits, Asks
  <2>3. new \in Seq(Sent) /\ outbox[d] \o Quits(p) \in Seq(Packets)
    BY <2>2
  <2>4. new = outbox'[d]
    BY <2>1 DEF PagesShape
  <2>5. Holds(new, "leave") <=> Holds(outbox[d], "leave") \/ Holds(Quits(p), "leave") \/ Holds(Asks(p), "leave")
    BY <2>2, <2>3, HoldsConcat
  <2>6. p \notin PagesThatStay => Holds(Quits(p), "leave")
    BY Events DEF Quits, Holds
  <2>7. p = "bracket" => AsksAgain(new)
    BY <2>3, AsksAgainShown DEF Asks
  <2> HIDE DEF new
  <2> QED BY <1>2, <2>1, <2>3, <2>4, <2>5, <2>6, <2>7 DEF PagesShape
<1> QED BY <1>1, <1>2

(* A tab goes to a page, which may be the one it shows, while the server does
   nothing; what it has heard before is not lost, unless the page replaces it. *)
LEMMA TabShows ==
    ASSUME PagesInv, NEW d \in Tabs, NEW p \in Pages, Show(d, p),
           UNCHANGED <<lobbyVars, link>>,
           Holds(inbox[d], "joined") /\ p \notin {"bracket", "online"} => Holds(inbox'[d], "joined"),
           Holds(inbox[d], "nothing") /\ p = "bracket" => Holds(inbox'[d], "nothing")
    PROVE  TabOK(d)'
<1>1. TabOK(d) /\ PagesShape
  BY DEF PagesInv
<1>2. /\ page' = [page EXCEPT ![d] = p]
      /\ asked' \in [Tabs -> Sessions \cup {NoLink}]
      /\ page[d] = p => outbox'[d] = outbox[d] /\ asked'[d] = asked[d]
      /\ page[d] # p =>
           /\ asked'[d] = NoLink
           /\ p \notin PagesThatStay => Holds(outbox'[d], "leave")
           /\ p = "bracket" => AsksAgain(outbox'[d])
      /\ Holds(outbox[d], "leave") => Holds(outbox'[d], "leave")
  BY <1>1, Shown
<1>3. page'[d] = p /\ conn' = conn /\ current' = current /\ link' = link
  BY <1>1, <1>2 DEF PagesShape, lobbyVars, vars
<1>4. page[d] = p => /\ Holds(outbox'[d], "bracket") = Holds(outbox[d], "bracket")
                     /\ AsksAgain(outbox'[d]) = AsksAgain(outbox[d])
  BY <1>2
<1>5. /\ Holds(outbox[d], "bracket")' = Holds(outbox'[d], "bracket")
      /\ Holds(outbox[d], "leave")' = Holds(outbox'[d], "leave")
      /\ Holds(inbox[d], "nothing")' = Holds(inbox'[d], "nothing")
      /\ Holds(inbox[d], "joined")' = Holds(inbox'[d], "joined")
      /\ AsksAgain(outbox[d])' = AsksAgain(outbox'[d])
  BY DEF Holds, AsksAgain
<1> QED BY <1>1, <1>2, <1>3, <1>4, <1>5, TabsAssumption DEF TabOK, PagesThatStay, Pages

(* The server takes a packet of a tab. *)
LEMMA Served ==
    ASSUME PagesInv, NEW d \in Tabs, NEW event, Next1(d, event)
    PROVE  /\ link[d] \in Sessions /\ TabOf[link[d]] = d /\ conn[link[d]] = "online"
           /\ outbox[d] \in Seq(Sent) /\ Head(outbox[d]) \in Sent /\ Head(outbox[d]).event = event
           /\ outbox' \in [Tabs -> Seq(Sent)]
           /\ outbox' = [outbox EXCEPT ![d] = Tail(outbox[d])]
           /\ UNCHANGED <<page, link>>
           /\ page[d] = "bracket" => AsksAgain(Tail(outbox[d]))
           /\ page[d] = "bracket" /\ event = "leave" => Holds(Tail(outbox[d]), "bracket")
           /\ \A e \in {"leave", "bracket"} \ {event} :
                 Holds(Tail(outbox[d]), e) <=> Holds(outbox[d], e)
<1>1. /\ link[d] \in Sessions /\ TabOf[link[d]] = d /\ conn[link[d]] = "online"
      /\ UNCHANGED <<page, link>> /\ outbox[d] # <<>> /\ Head(outbox[d]).event = event
  BY DEF Next1, Online, PagesInv, PagesShape, TabOK
<1>2. outbox[d] \in Seq(Sent) /\ Head(outbox[d]) \in Sent /\ Tail(outbox[d]) \in Seq(Sent)
  BY <1>1 DEF PagesInv, PagesShape
<1>3. outbox[d] \in Seq(Packets)
  BY <1>2, SentArePackets
<1>4. outbox' = [outbox EXCEPT ![d] = Tail(outbox[d])] /\ outbox' \in [Tabs -> Seq(Sent)]
  BY <1>2 DEF Next1, PagesInv, PagesShape
<1>5. page[d] = "bracket" => AsksAgain(outbox[d])
  BY DEF PagesInv, TabOK
<1>6. page[d] = "bracket" => AsksAgain(Tail(outbox[d]))
  BY <1>1, <1>3, <1>5, AsksAgainTail
<1>7. page[d] = "bracket" /\ event = "leave" => Holds(Tail(outbox[d]), "bracket")
  BY <1>1, <1>3, <1>5, AsksAgainLeft
<1>8. \A e \in {"leave", "bracket"} \ {event} :
         Holds(Tail(outbox[d]), e) <=> Holds(outbox[d], e)
  BY <1>1, <1>3, HoldsTail
<1> QED BY <1>1, <1>2, <1>4, <1>6, <1>7, <1>8

(* Whatever a tab or the server does, it is a step of Lobby or none. *)
LEMMA LobbySteps == PagesInv /\ [PagesNext]_allVars => [Next]_vars
<1> SUFFICES ASSUME PagesInv, [PagesNext]_allVars PROVE [Next]_vars
  OBVIOUS
<1>1. CASE ~crashed /\ Unseen
  BY <1>1 DEF Unseen, Next
<1>2. ASSUME ~crashed, NEW s \in Sessions, NEW t \in Tournaments, CreatedAndSent(s, t)
      PROVE  Next
  BY <1>2 DEF CreatedAndSent, Next
<1>3. ASSUME NEW t \in Tournaments, Announce(t) PROVE UNCHANGED vars
  BY <1>3 DEF Announce, lobbyVars
<1>4. ASSUME ~crashed, NEW d \in Tabs, OnCreate(d) PROVE [Next]_vars
  BY <1>4, Served DEF OnCreate, Next, lobbyVars
<1>5. ASSUME ~crashed, NEW d \in Tabs, OnJoin(d) PROVE [Next]_vars
  <2>1. link[d] \in Sessions /\ Head(outbox[d]).t \in Tournaments
    BY <1>5, Served DEF OnJoin, Sent
  <2> QED BY <1>5, <2>1 DEF OnJoin, Next, lobbyVars
<1>6. ASSUME ~crashed, NEW d \in Tabs, OnLeave(d) PROVE [Next]_vars
  <2>1. link[d] \in Sessions /\ current[link[d]] \in Tournaments \cup {NoTournament}
    BY <1>6, Served DEF OnLeave, PagesInv, LobbyInv, Shape
  <2> QED BY <1>6, <2>1 DEF OnLeave, Next, lobbyVars
<1>7. ASSUME ~crashed, NEW d \in Tabs, NEW s \in Sessions, Relink(d, s) PROVE Next
  BY <1>7 DEF Relink, Next
<1>8. ASSUME NEW d \in Tabs,
             \/ \E p \in FirstPages : Navigate(d, p)
             \/ ClickCreate(d) \/ \E t \in Tournaments : ClickJoin(d, t)
             \/ Unlink(d) \/ OnBracket(d)
             \/ AfterJoined(d) \/ AfterNothing(d) \/ AfterStart(d) \/ ShowMatch(d)
      PROVE  UNCHANGED vars
  BY <1>8 DEF Navigate, ClickCreate, ClickJoin, Send, Unlink, OnBracket, AfterJoined,
              AfterNothing, AfterStart, ShowMatch, Take, lobbyVars
<1>9. CASE UNCHANGED allVars
  BY <1>9 DEF allVars, lobbyVars
<1> QED BY <1>1, <1>2, <1>3, <1>4, <1>5, <1>6, <1>7, <1>8, <1>9 DEF PagesNext

(* The tabs that a step does not touch. *)
LEMMA OthersApart ==
    ASSUME PagesInv, [Next]_vars, NEW d \in Tabs,
           \A e \in Tabs \ {d} :
              /\ page'[e] = page[e] /\ link'[e] = link[e] /\ outbox'[e] = outbox[e]
              /\ inbox'[e] = inbox[e] /\ asked'[e] = asked[e],
           \A s \in Sessions : TabOf[s] # d => current'[s] = current[s]
    PROVE  \A e \in Tabs \ {d} : TabOK(e)'
<1> SUFFICES ASSUME NEW e \in Tabs \ {d} PROVE TabOK(e)'
  OBVIOUS
<1>1. link[e] \in Sessions \cup {NoLink} /\ (link[e] # NoLink => TabOf[link[e]] = e)
  BY DEF PagesInv, PagesShape, TabOK
<1>2. link[e] = NoLink \/ current'[link[e]] = current[link[e]]
  BY <1>1
<1> QED BY <1>2, TabApart

LEMMA UnseenKeeps ==
    ASSUME PagesInv, [Next]_vars, Unseen PROVE PagesShape' /\ \A d \in Tabs : TabOK(d)'
<1>1. UNCHANGED <<page, link, outbox, inbox, asked>>
  BY DEF Unseen, pageVars
<1>2. PagesShape'
  BY <1>1 DEF PagesInv, PagesShape
<1>3. ASSUME NEW d \in Tabs PROVE TabOK(d)'
  <2>1. link[d] \in Sessions \cup {NoLink} /\ (link[d] # NoLink => TabOf[link[d]] # NoTab)
    BY TabsAssumption DEF PagesInv, PagesShape, TabOK
  <2>2. \/ link[d] = NoLink
        \/ conn'[link[d]] # "online"
        \/ current'[link[d]] = current[link[d]]
    <3> SUFFICES ASSUME link[d] # NoLink
                 PROVE  conn'[link[d]] # "online" \/ current'[link[d]] = current[link[d]]
      OBVIOUS
    <3>1. PICK s \in Sessions :
             \/ Disconnect(s) \/ Closed(s)
             \/ \E t \in Tournaments : Joined(s, t) \/ Start(s, t)
             \/ /\ TabOf[s] = NoTab
                /\ \/ Connect(s)
                   \/ \E t \in Tournaments : Create(s, t) \/ Join(s, t) \/ Leave(s, t)
      BY DEF Unseen
    <3>2. CASE Disconnect(s)
      BY <2>1, <3>2 DEF Disconnect, RemovePlayer, Remove, PagesInv, LobbyInv, Shape
    <3>3. CASE Closed(s) \/ (\E t \in Tournaments : Joined(s, t) \/ Start(s, t))
               \/ Connect(s) \/ (\E t \in Tournaments : Create(s, t))
      BY <3>3 DEF Closed, Joined, JoinedAs, Start, Connect, Create
    <3>4. ASSUME TabOf[s] = NoTab, NEW t \in Tournaments, Join(s, t) \/ Leave(s, t)
          PROVE  current'[link[d]] = current[link[d]]
      <4>1. link[d] \in Sessions /\ link[d] # s
        BY <2>1, <3>4
      <4>2. \E c : current' = [current EXCEPT ![s] = c]
        BY <3>4 DEF Join, AddPlayer, Leave, LeaveIf, RemovePlayer, Remove
      <4> QED BY <4>1, <4>2 DEF PagesInv, LobbyInv, Shape
    <3> QED BY <3>1, <3>2, <3>3, <3>4
  <2> QED BY <1>1, <2>2, TabApart
<1> QED BY <1>2, <1>3

LEMMA CreatedAndSentKeeps ==
    ASSUME PagesInv, [Next]_vars, NEW s \in Sessions, NEW t \in Tournaments, CreatedAndSent(s, t)
    PROVE  PagesShape' /\ \A d \in Tabs : TabOK(d)'
<1>1. /\ UNCHANGED <<page, link, outbox, asked, conn>>
      /\ current' = [current EXCEPT ![s] = t] /\ current'[s] = t
      /\ \A r \in Sessions \ {s} : current'[r] = current[r]
  BY DEF CreatedAndSent, Created, AddPlayer, PagesInv, LobbyInv, Shape
<1>2. \/ /\ link[TabOf[s]] # s \/ TabOf[s] = NoTab
         /\ inbox' = inbox
      \/ /\ TabOf[s] \in Tabs /\ link[TabOf[s]] = s
         /\ inbox' = [inbox EXCEPT ![TabOf[s]] = Append(inbox[TabOf[s]], Event("joined"))]
  BY TabsAssumption DEF CreatedAndSent, Emit
<1>3. PagesShape'
  <2>1. \A d \in Tabs : Append(inbox[d], Event("joined")) \in Seq(Packets)
    BY Events DEF PagesInv, PagesShape
  <2>2. inbox' \in [Tabs -> Seq(Packets)]
    BY <1>2, <2>1 DEF PagesInv, PagesShape
  <2> QED BY <1>1, <2>2 DEF PagesInv, PagesShape
<1>4. ASSUME NEW d \in Tabs, link[d] # s PROVE TabOK(d)'
  <2>1. inbox'[d] = inbox[d]
    BY <1>2, <1>4 DEF PagesInv, PagesShape
  <2>2. link[d] = NoLink \/ current'[link[d]] = current[link[d]]
    BY <1>1, <1>4 DEF PagesInv, PagesShape
  <2> QED BY <1>1, <2>1, <2>2, TabApart
<1>5. ASSUME NEW d \in Tabs, link[d] = s PROVE TabOK(d)'
  <2>1. TabOK(d) /\ s # NoLink /\ TabOf[s] = d
    BY <1>5, TabsAssumption DEF PagesInv, TabOK
  <2>2. inbox'[d] = Append(inbox[d], Event("joined"))
    BY <1>2, <1>5, <2>1, TabsAssumption DEF PagesInv, PagesShape
  <2>3. Holds(inbox'[d], "joined")
    BY <2>2, HoldsAppend, Events DEF PagesInv, PagesShape
  <2>4. Holds(inbox[d], "joined")' /\ AsksAgain(outbox[d])' = AsksAgain(outbox[d])
    BY <1>1, <2>3 DEF Holds, AsksAgain
  <2>5. current'[link'[d]] # NoTournament
    BY <1>1, <1>5, LobbyAssumption
  <2>6. asked'[d] # NoLink => conn'[asked'[d]] # "new"
    BY <1>1, <2>1 DEF TabOK
  <2> QED BY <1>1, <2>1, <2>4, <2>5, <2>6 DEF TabOK
<1> QED BY <1>3, <1>4, <1>5

LEMMA AnnounceKeeps ==
    ASSUME PagesInv, [Next]_vars, NEW t \in Tournaments, Announce(t)
    PROVE  PagesShape' /\ \A d \in Tabs : TabOK(d)'
<1>1. /\ UNCHANGED <<page, link, outbox, asked, conn, current>>
      /\ inbox' = [d \in Tabs |->
            inbox[d] \o [i \in 1..Cardinality(Copies(link[d], t)) |-> Event("start")]]
  BY DEF Announce, lobbyVars, vars
<1> DEFINE news(d) == [i \in 1..Cardinality(Copies(link[d], t)) |-> Event("start")]
<1>n. ASSUME NEW d \in Tabs
      PROVE  /\ news(d) \in Seq(Packets)
             /\ inbox[d] \in Seq(Packets)
             /\ inbox'[d] = inbox[d] \o news(d)
  <2>1. Cardinality(Copies(link[d], t)) \in Nat
    BY CopiesAreFinite DEF PagesInv, LobbyInv
  <2>2. news(d) \in Seq(Packets)
    BY <2>1, Events
  <2> QED BY <1>1, <2>2 DEF PagesInv, PagesShape
<1> HIDE DEF news
<1>2. PagesShape'
  <2>1. DOMAIN inbox' = Tabs /\ inbox' = [d \in Tabs |-> inbox'[d]]
    BY <1>1
  <2>2. ASSUME NEW d \in Tabs PROVE inbox'[d] \in Seq(Packets)
    <3>1. PICK q, r \in Seq(Packets) : q = inbox[d] /\ r = news(d)
      BY <1>n
    <3>2. q \o r \in Seq(Packets)
      OBVIOUS
    <3> QED BY <1>n, <3>1, <3>2
  <2>3. inbox' \in [Tabs -> Seq(Packets)]
    BY <2>1, <2>2
  <2> QED BY <1>1, <2>3 DEF PagesInv, PagesShape
<1>3. ASSUME NEW d \in Tabs PROVE TabOK(d)'
  <2>1. TabOK(d) /\ inbox[d] \in Seq(Packets)
    BY DEF PagesInv, PagesShape
  <2>2. \A e \in {"joined", "nothing"} : Holds(inbox[d], e) => Holds(inbox'[d], e)
    <3>1. PICK q, r \in Seq(Packets) : q = inbox[d] /\ r = news(d)
      BY <1>n
    <3>2. \A e : Holds(q, e) => Holds(q \o r, e)
      BY HoldsConcat
    <3> QED BY <1>n, <3>1, <3>2
  <2>3. /\ Holds(inbox[d], "joined")' = Holds(inbox'[d], "joined")
        /\ Holds(inbox[d], "nothing")' = Holds(inbox'[d], "nothing")
        /\ \A e \in {"leave", "bracket"} : Holds(outbox[d], e)' = Holds(outbox[d], e)
        /\ AsksAgain(outbox[d])' = AsksAgain(outbox[d])
    BY <1>1 DEF Holds, AsksAgain
  <2> QED BY <1>1, <2>1, <2>2, <2>3 DEF TabOK
<1> QED BY <1>2, <1>3

(* While the server takes a packet of one tab, it tells the others nothing. *)
LEMMA ServedAlone ==
    ASSUME PagesInv, [Next]_vars, NEW d \in Tabs, NEW event, Next1(d, event),
           inbox' \in [Tabs -> Seq(Packets)], asked' \in [Tabs -> Sessions \cup {NoLink}],
           \A e \in Tabs \ {d} : inbox'[e] = inbox[e] /\ asked'[e] = asked[e],
           \A r \in Sessions \ {link[d]} : current'[r] = current[r]
    PROVE  PagesShape' /\ \A e \in Tabs \ {d} : TabOK(e)'
<1>1. /\ outbox' \in [Tabs -> Seq(Sent)] /\ outbox' = [outbox EXCEPT ![d] = Tail(outbox[d])]
      /\ UNCHANGED <<page, link>> /\ TabOf[link[d]] = d
  BY Served
<1>2. PagesShape'
  BY <1>1 DEF PagesInv, PagesShape
<1>3. \A e \in Tabs \ {d} :
        /\ page'[e] = page[e] /\ link'[e] = link[e] /\ outbox'[e] = outbox[e]
        /\ inbox'[e] = inbox[e] /\ asked'[e] = asked[e]
  BY <1>1 DEF PagesInv, PagesShape
<1>4. \A r \in Sessions : TabOf[r] # d => current'[r] = current[r]
  BY <1>1
<1> QED BY <1>2, <1>3, <1>4, OthersApart

(* Packets of a tab: those that change nothing of its player's tournament, and
   those that do. *)
LEMMA OnCreateKeeps ==
    ASSUME PagesInv, [Next]_vars, NEW d \in Tabs, OnCreate(d)
    PROVE  PagesShape' /\ \A e \in Tabs : TabOK(e)'
<1>1. UNCHANGED <<inbox, asked, conn, current>>
  BY DEF OnCreate, Create, lobbyVars, vars
<1>2. Next1(d, "create")
  BY DEF OnCreate
<1>3. PagesShape' /\ \A e \in Tabs \ {d} : TabOK(e)'
  BY <1>1, <1>2, ServedAlone DEF PagesInv, PagesShape
<1>4. TabOK(d)'
  <2>1. TabOK(d) /\ outbox'[d] = Tail(outbox[d])
    BY <1>2, Served DEF PagesInv, PagesShape
  <2>2. /\ \A e \in {"joined", "nothing"} : Holds(inbox[d], e)' = Holds(inbox[d], e)
        /\ \A e \in {"leave", "bracket"} : Holds(outbox[d], e)' = Holds(Tail(outbox[d]), e)
        /\ AsksAgain(outbox[d])' = AsksAgain(Tail(outbox[d]))
    BY <1>1, <2>1 DEF Holds, AsksAgain
  <2> QED BY <1>1, <1>2, <2>1, <2>2, Served DEF TabOK
<1> QED BY <1>3, <1>4

LEMMA OnJoinKeeps ==
    ASSUME PagesInv, [Next]_vars, NEW d \in Tabs, OnJoin(d)
    PROVE  PagesShape' /\ \A e \in Tabs : TabOK(e)'
<1> DEFINE s == link[d]
           t == Head(outbox[d]).t
<1>1. Next1(d, "join") /\ asked' = asked
  BY DEF OnJoin
<1>2. /\ s \in Sessions /\ TabOf[s] = d /\ t \in Tournaments /\ outbox'[d] = Tail(outbox[d])
      /\ link'[d] = s /\ s # NoLink /\ d # NoTab
  <2>1. t \in Tournaments
    BY <1>1, Served DEF Sent
  <2>2. s \in Sessions /\ TabOf[s] = d /\ link'[d] = s
    BY <1>1, Served
  <2>3. outbox'[d] = Tail(outbox[d])
    BY <1>1, Served DEF PagesInv, PagesShape
  <2> QED BY <2>1, <2>2, <2>3, TabsAssumption
<1>3. CASE UNCHANGED <<lobbyVars, inbox>>
  <2>1. UNCHANGED <<inbox, asked, conn, current>>
    BY <1>1, <1>3 DEF lobbyVars, vars
  <2>2. PagesShape' /\ \A e \in Tabs \ {d} : TabOK(e)'
    BY <1>1, <2>1, ServedAlone DEF PagesInv, PagesShape
  <2>4. /\ \A e \in {"joined", "nothing"} : Holds(inbox[d], e)' = Holds(inbox[d], e)
        /\ \A e \in {"leave", "bracket"} : Holds(outbox[d], e)' = Holds(Tail(outbox[d]), e)
        /\ AsksAgain(outbox[d])' = AsksAgain(Tail(outbox[d]))
    BY <1>2, <2>1 DEF Holds, AsksAgain
  <2>5. TabOK(d)
    BY DEF PagesInv
  <2>6. /\ page' = page
        /\ page[d] = "bracket" => AsksAgain(Tail(outbox[d]))
        /\ \A e \in {"leave", "bracket"} : Holds(Tail(outbox[d]), e) <=> Holds(outbox[d], e)
    <3>1. page' = page /\ (page[d] = "bracket" => AsksAgain(Tail(outbox[d])))
      BY <1>1, Served
    <3>2. \A e \in {"leave", "bracket"} \ {"join"} :
             Holds(Tail(outbox[d]), e) <=> Holds(outbox[d], e)
      BY <1>1, Served
    <3> QED BY <3>1, <3>2
  <2>7. TabOK(d)'
    BY <1>2, <2>1, <2>4, <2>5, <2>6 DEF TabOK
  <2> QED BY <2>2, <2>7
<1>4. CASE Join(s, t) /\ Emit(s, "joined")
  <2>1. /\ conn' = conn /\ current' = [current EXCEPT ![s] = t] /\ current'[s] = t
        /\ \A r \in Sessions \ {s} : current'[r] = current[r]
    BY <1>2, <1>4 DEF Join, AddPlayer, PagesInv, LobbyInv, Shape
  <2>2. inbox' = [inbox EXCEPT ![d] = Append(inbox[d], Event("joined"))]
    BY <1>2, <1>4 DEF Emit
  <2>3. /\ Append(inbox[d], Event("joined")) \in Seq(Packets)
        /\ Holds(Append(inbox[d], Event("joined")), "joined")
    BY Events, HoldsAppend DEF PagesInv, PagesShape
  <2>4. inbox' \in [Tabs -> Seq(Packets)] /\ inbox'[d] = Append(inbox[d], Event("joined"))
    BY <2>2, <2>3 DEF PagesInv, PagesShape
  <2>5. \A e \in Tabs \ {d} : inbox'[e] = inbox[e] /\ asked'[e] = asked[e]
    BY <1>1, <2>2 DEF PagesInv, PagesShape
  <2>6. PagesShape' /\ \A e \in Tabs \ {d} : TabOK(e)'
    BY <1>1, <2>1, <2>4, <2>5, ServedAlone DEF PagesInv, PagesShape
  <2>7. /\ Holds(inbox[d], "joined")' /\ link'[d] = s /\ current'[s] # NoTournament
        /\ AsksAgain(outbox[d])' = AsksAgain(Tail(outbox[d]))
    BY <1>1, <1>2, <2>1, <2>3, <2>4, Served, LobbyAssumption DEF Holds, AsksAgain
  <2>8. TabOK(d)
    BY DEF PagesInv
  <2>9. TabOK(d)'
    BY <1>1, <2>1, <2>7, <2>8, Served DEF TabOK
  <2> QED BY <2>6, <2>9
<1> QED BY <1>3, <1>4 DEF OnJoin

LEMMA OnLeaveKeeps ==
    ASSUME PagesInv, [Next]_vars, NEW d \in Tabs, OnLeave(d)
    PROVE  PagesShape' /\ \A e \in Tabs : TabOK(e)'
<1> DEFINE s == link[d]
<1>1. Next1(d, "leave") /\ UNCHANGED <<asked, inbox>>
  BY DEF OnLeave
<1>2. s \in Sessions /\ TabOf[s] = d /\ outbox'[d] = Tail(outbox[d]) /\ link'[d] = s
  BY <1>1, Served DEF PagesInv, PagesShape
<1>3. /\ conn' = conn /\ current'[s] = NoTournament
      /\ \A r \in Sessions \ {s} : current'[r] = current[r]
  BY <1>2 DEF OnLeave, Leave, LeaveIf, RemovePlayer, Remove, lobbyVars, vars,
              PagesInv, LobbyInv, Shape
<1>4. PagesShape' /\ \A e \in Tabs \ {d} : TabOK(e)'
  BY <1>1, <1>3, ServedAlone DEF PagesInv, PagesShape
<1>5. TabOK(d)'
  <2>1. TabOK(d)
    BY DEF PagesInv
  <2>2. /\ Holds(outbox[d], "bracket")' = Holds(Tail(outbox[d]), "bracket")
        /\ AsksAgain(outbox[d])' = AsksAgain(Tail(outbox[d]))
    BY <1>2 DEF Holds, AsksAgain
  <2> QED BY <1>1, <1>2, <1>3, <2>1, <2>2, Served DEF TabOK
<1> QED BY <1>4, <1>5

LEMMA OnBracketKeeps ==
    ASSUME PagesInv, [Next]_vars, NEW d \in Tabs, OnBracket(d)
    PROVE  PagesShape' /\ \A e \in Tabs : TabOK(e)'
<1> DEFINE s == link[d]
<1>1. Next1(d, "bracket") /\ conn' = conn /\ current' = current
  BY DEF OnBracket, lobbyVars, vars
<1>2. s \in Sessions /\ TabOf[s] = d /\ outbox'[d] = Tail(outbox[d]) /\ link'[d] = s
      /\ conn[s] = "online" /\ d # NoTab
  BY <1>1, Served, TabsAssumption DEF PagesInv, PagesShape
<1>3. \/ asked' = asked
      \/ asked' = [asked EXCEPT ![d] = s]
  BY DEF OnBracket, PagesInv, PagesShape
<1>4. IF current[s] = NoTournament
      THEN inbox' = [inbox EXCEPT ![d] = Append(inbox[d], Event("nothing"))]
      ELSE inbox' = inbox
  BY <1>2 DEF OnBracket, Emit
<1>5. /\ Append(inbox[d], Event("nothing")) \in Seq(Packets)
      /\ Holds(Append(inbox[d], Event("nothing")), "nothing")
  BY Events, HoldsAppend DEF PagesInv, PagesShape
<1>6. inbox' \in [Tabs -> Seq(Packets)]
  BY <1>4, <1>5 DEF PagesInv, PagesShape
<1>7. /\ asked' \in [Tabs -> Sessions \cup {NoLink}]
      /\ \A e \in Tabs \ {d} : inbox'[e] = inbox[e] /\ asked'[e] = asked[e]
  BY <1>2, <1>3, <1>4 DEF PagesInv, PagesShape
<1>8. PagesShape' /\ \A e \in Tabs \ {d} : TabOK(e)'
  BY <1>1, <1>6, <1>7, ServedAlone
<1>9. TabOK(d)'
  <2>1. TabOK(d)
    BY DEF PagesInv
  <2>2. /\ Holds(outbox[d], "leave")' = Holds(Tail(outbox[d]), "leave")
        /\ AsksAgain(outbox[d])' = AsksAgain(Tail(outbox[d]))
    BY <1>2 DEF Holds, AsksAgain
  <2>3. IF current[s] = NoTournament THEN Holds(inbox[d], "nothing")'
        ELSE Holds(inbox[d], "joined")' = Holds(inbox[d], "joined")
    BY <1>4, <1>5 DEF Holds, PagesInv, PagesShape
  <2>4. asked'[d] # NoLink => conn'[asked'[d]] # "new"
    BY <1>1, <1>2, <1>3, <2>1 DEF TabOK, PagesInv, PagesShape
  <2> QED BY <1>1, <1>2, <2>1, <2>2, <2>3, <2>4, Served DEF TabOK
<1> QED BY <1>8, <1>9

(* The tab itself shows a page, with or without a packet that tells it to. *)
LEMMA ShowKeeps ==
    ASSUME PagesInv, [Next]_vars, NEW d \in Tabs, NEW p \in Pages, Show(d, p),
           UNCHANGED <<lobbyVars, link>>,
           inbox' \in [Tabs -> Seq(Packets)], \A e \in Tabs \ {d} : inbox'[e] = inbox[e],
           Holds(inbox[d], "joined") /\ p \notin {"bracket", "online"} => Holds(inbox'[d], "joined"),
           Holds(inbox[d], "nothing") /\ p = "bracket" => Holds(inbox'[d], "nothing")
    PROVE  PagesShape' /\ \A e \in Tabs : TabOK(e)'
<1>1. /\ page' = [page EXCEPT ![d] = p]
      /\ outbox' \in [Tabs -> Seq(Sent)] /\ asked' \in [Tabs -> Sessions \cup {NoLink}]
      /\ \A e \in Tabs \ {d} : outbox'[e] = outbox[e] /\ asked'[e] = asked[e]
  BY Shown DEF PagesInv
<1>2. PagesShape'
  BY <1>1 DEF PagesInv, PagesShape
<1>3. \A e \in Tabs \ {d} :
        /\ page'[e] = page[e] /\ link'[e] = link[e] /\ outbox'[e] = outbox[e]
        /\ inbox'[e] = inbox[e] /\ asked'[e] = asked[e]
  BY <1>1 DEF PagesInv, PagesShape
<1>4. \A e \in Tabs \ {d} : TabOK(e)'
  BY <1>3, OthersApart DEF lobbyVars, vars
<1>5. TabOK(d)'
  BY TabShows
<1> QED BY <1>2, <1>4, <1>5

LEMMA Taken ==
    ASSUME PagesInv, NEW d \in Tabs, NEW event, Take(d, event)
    PROVE  /\ inbox' \in [Tabs -> Seq(Packets)]
           /\ \A e \in Tabs \ {d} : inbox'[e] = inbox[e]
           /\ \A e \in {"joined", "nothing"} \ {event} : Holds(inbox[d], e) => Holds(inbox'[d], e)
           /\ UNCHANGED <<lobbyVars, link>>
<1>1. /\ inbox[d] \in Seq(Packets) /\ inbox[d] # <<>> /\ Head(inbox[d]).event = event
      /\ inbox' = [inbox EXCEPT ![d] = Tail(inbox[d])]
      /\ UNCHANGED <<lobbyVars, link>>
  BY DEF Take, PagesInv, PagesShape
<1>2. \A e \in {"joined", "nothing"} \ {event} : Holds(Tail(inbox[d]), e) <=> Holds(inbox[d], e)
  BY <1>1, HoldsTail
<1>3. Tail(inbox[d]) \in Seq(Packets)
  BY <1>1
<1>4. inbox'[d] = Tail(inbox[d])
  BY <1>1 DEF PagesInv, PagesShape
<1> QED BY <1>1, <1>2, <1>3, <1>4 DEF PagesInv, PagesShape

(* A packet that the tab takes without a change of the page. *)
LEMMA HeardKeeps ==
    ASSUME PagesInv, [Next]_vars, NEW d \in Tabs, NEW event, Take(d, event),
           event # "joined", event = "nothing" => page[d] # "bracket",
           UNCHANGED <<page, asked, outbox>>
    PROVE  PagesShape' /\ \A e \in Tabs : TabOK(e)'
<1>1. /\ inbox' \in [Tabs -> Seq(Packets)]
      /\ \A e \in Tabs \ {d} : inbox'[e] = inbox[e]
      /\ \A e \in {"joined", "nothing"} \ {event} : Holds(inbox[d], e) => Holds(inbox'[d], e)
      /\ UNCHANGED <<link, conn, current>>
  BY Taken DEF lobbyVars, vars
<1>2. PagesShape' /\ \A e \in Tabs \ {d} : TabOK(e)'
  BY <1>1, OthersApart DEF PagesInv, PagesShape
<1>3. TabOK(d)'
  <2>1. TabOK(d)
    BY DEF PagesInv
  <2>2. /\ \A e \in {"joined", "nothing"} : Holds(inbox[d], e)' = Holds(inbox'[d], e)
        /\ \A e \in {"leave", "bracket"} : Holds(outbox[d], e)' = Holds(outbox[d], e)
        /\ AsksAgain(outbox[d])' = AsksAgain(outbox[d])
    BY DEF Holds, AsksAgain
  <2> QED BY <1>1, <2>1, <2>2 DEF TabOK
<1> QED BY <1>2, <1>3

LEMMA SendKeeps ==
    ASSUME PagesInv, [Next]_vars, NEW d \in Tabs, NEW packet \in Sent, Send(d, packet)
    PROVE  PagesShape' /\ \A e \in Tabs : TabOK(e)'
<1>1. /\ page[d] = "list" /\ outbox' = [outbox EXCEPT ![d] = Append(outbox[d], packet)]
      /\ UNCHANGED <<page, link, inbox, asked, conn, current>>
  BY DEF Send, lobbyVars, vars
<1>2. packet \in Packets /\ outbox[d] \in Seq(Packets) /\ Append(outbox[d], packet) \in Seq(Sent)
  <2>1. packet \in Packets
    BY DEF Sent
  <2>2. outbox[d] \in Seq(Sent)
    BY DEF PagesInv, PagesShape
  <2> QED BY <2>1, <2>2, SentArePackets
<1>3. PagesShape' /\ \A e \in Tabs \ {d} : TabOK(e)'
  <2>1. PagesShape'
    BY <1>1, <1>2 DEF PagesInv, PagesShape
  <2>2. \A e \in Tabs \ {d} : outbox'[e] = outbox[e]
    BY <1>1 DEF PagesInv, PagesShape
  <2> QED BY <1>1, <2>1, <2>2, OthersApart
<1>4. TabOK(d)'
  <2>1. TabOK(d) /\ outbox'[d] = Append(outbox[d], packet)
    BY <1>1 DEF PagesInv, PagesShape
  <2>2. Holds(outbox[d], "leave") => Holds(outbox[d], "leave")'
    BY <1>2, <2>1, HoldsAppend DEF Holds
  <2>3. \A e \in {"joined", "nothing"} : Holds(inbox[d], e)' = Holds(inbox[d], e)
    BY <1>1 DEF Holds
  <2> QED BY <1>1, <2>1, <2>2, <2>3 DEF TabOK
<1> QED BY <1>3, <1>4

(* A connection that is made now has a player in no tournament, and the page
   was shown through an earlier one. *)
LEMMA RelinkKeeps ==
    ASSUME PagesInv, [Next]_vars, NEW d \in Tabs, NEW s \in Sessions, Relink(d, s)
    PROVE  PagesShape' /\ \A e \in Tabs : TabOK(e)'
<1>1. /\ TabOf[s] = d /\ conn[s] = "new" /\ conn'[s] # "new" /\ link' = [link EXCEPT ![d] = s]
      /\ UNCHANGED <<page, outbox, inbox, asked, current>>
  BY DEF Relink, Connect, PagesInv, LobbyInv, Shape
<1>2. PagesShape' /\ link'[d] = s
  BY <1>1 DEF PagesInv, PagesShape
<1>3. \A e \in Tabs \ {d} : TabOK(e)'
  BY <1>1, OthersApart DEF PagesInv, PagesShape
<1>4. TabOK(d)'
  <2>1. TabOK(d) /\ asked[d] # s
    BY <1>1, TabsAssumption DEF PagesInv, TabOK
  <2>2. current[s] = NoTournament
    BY <1>1 DEF PagesInv, LobbyInv, Fresh
  <2>3. asked[d] # NoLink => conn'[asked[d]] # "new"
    BY <2>1, ConnectionsGoOn DEF TabOK, PagesInv, PagesShape
  <2>4. AsksAgain(outbox[d])' = AsksAgain(outbox[d])
    BY <1>1 DEF AsksAgain
  <2> QED BY <1>1, <1>2, <2>1, <2>2, <2>3, <2>4 DEF TabOK
<1> QED BY <1>2, <1>3, <1>4

LEMMA UnlinkKeeps ==
    ASSUME PagesInv, [Next]_vars, NEW d \in Tabs, Unlink(d)
    PROVE  PagesShape' /\ \A e \in Tabs : TabOK(e)'
<1>1. /\ link' = [link EXCEPT ![d] = NoLink] /\ outbox' = [outbox EXCEPT ![d] = <<>>]
      /\ inbox' = [inbox EXCEPT ![d] = <<>>]
      /\ UNCHANGED <<page, asked, conn, current>>
  BY DEF Unlink, lobbyVars, vars
<1>2. PagesShape' /\ link'[d] = NoLink /\ outbox'[d] = <<>>
  BY <1>1 DEF PagesInv, PagesShape
<1>3. \A e \in Tabs \ {d} : TabOK(e)'
  BY <1>1, OthersApart DEF PagesInv, PagesShape
<1>4. TabOK(d)'
  <2>1. TabOK(d) /\ AsksAgain(outbox[d])'
    BY <1>2 DEF PagesInv, AsksAgain
  <2> QED BY <1>1, <1>2, <2>1 DEF TabOK
<1> QED BY <1>2, <1>3, <1>4

(* What one tab does, or the server with one packet of it. *)
TabSteps(d) ==
    \/ \E p \in FirstPages : Navigate(d, p)
    \/ ClickCreate(d) \/ \E t \in Tournaments : ClickJoin(d, t)
    \/ \E s \in Sessions : Relink(d, s)
    \/ Unlink(d)
    \/ OnCreate(d) \/ OnJoin(d) \/ OnLeave(d) \/ OnBracket(d)
    \/ AfterJoined(d) \/ AfterNothing(d) \/ AfterStart(d) \/ ShowMatch(d)

LEMMA PagesStep == PagesInv /\ [PagesNext]_allVars => PagesInv'
<1> SUFFICES ASSUME PagesInv, [PagesNext]_allVars PROVE PagesInv'
  OBVIOUS
<1>1. [Next]_vars /\ LobbyInv'
  BY LobbySteps, LobbyStep DEF PagesInv
<1>2. ASSUME NEW d \in Tabs, TabSteps(d)
      PROVE  PagesShape' /\ \A e \in Tabs : TabOK(e)'
  <2>1. ASSUME NEW p \in FirstPages, Navigate(d, p) PROVE PagesShape' /\ \A e \in Tabs : TabOK(e)'
    <3>1. p \in Pages /\ inbox' \in [Tabs -> Seq(Packets)]
      BY <2>1, TabsAssumption DEF Pages, Navigate, PagesInv, PagesShape
    <3>2. Holds(inbox'[d], "joined") = Holds(inbox[d], "joined")
          /\ Holds(inbox'[d], "nothing") = Holds(inbox[d], "nothing")
      BY <2>1 DEF Navigate
    <3> QED BY <1>1, <2>1, <3>1, <3>2, ShowKeeps DEF Navigate
  <2>2. CASE ClickCreate(d)
    BY <1>1, <2>2, Events, SendKeeps DEF ClickCreate
  <2>3. ASSUME NEW t \in Tournaments, ClickJoin(d, t) PROVE PagesShape' /\ \A e \in Tabs : TabOK(e)'
    <3>1. Packet("join", t) \in Sent
      BY DEF Sent, Packet, Packets
    <3> QED BY <1>1, <2>3, <3>1, SendKeeps DEF ClickJoin
  <2>4. CASE AfterJoined(d)
    BY <1>1, <2>4, Taken, ShowKeeps DEF AfterJoined, Pages
  <2>5. CASE AfterNothing(d)
    <3>1. CASE page[d] = "bracket"
      BY <1>1, <2>5, <3>1, Taken, ShowKeeps DEF AfterNothing, Pages
    <3>2. CASE page[d] # "bracket"
      BY <1>1, <2>5, <3>2, HeardKeeps DEF AfterNothing
    <3> QED BY <3>1, <3>2
  <2>6. CASE AfterStart(d)
    BY <1>1, <2>6, HeardKeeps DEF AfterStart
  <2>7. CASE ShowMatch(d)
    <3>1. inbox' = inbox
      BY <2>7 DEF ShowMatch
    <3>2. Holds(inbox'[d], "joined") = Holds(inbox[d], "joined")
          /\ Holds(inbox'[d], "nothing") = Holds(inbox[d], "nothing")
      BY <3>1
    <3> QED BY <1>1, <2>7, <3>1, <3>2, ShowKeeps DEF ShowMatch, Pages, PagesInv, PagesShape
  <2>8. CASE (\E s \in Sessions : Relink(d, s)) \/ Unlink(d)
    BY <1>1, <2>8, RelinkKeeps, UnlinkKeeps
  <2>9. CASE OnCreate(d) \/ OnJoin(d) \/ OnLeave(d) \/ OnBracket(d)
    BY <1>1, <2>9, OnCreateKeeps, OnJoinKeeps, OnLeaveKeeps, OnBracketKeeps
  <2> QED BY <1>2, <2>1, <2>2, <2>3, <2>4, <2>5, <2>6, <2>7, <2>8, <2>9 DEF TabSteps
<1>3. CASE Unseen \/ (\E s \in Sessions, t \in Tournaments : CreatedAndSent(s, t))
           \/ (\E t \in Tournaments : Announce(t))
  BY <1>1, <1>3, UnseenKeeps, CreatedAndSentKeeps, AnnounceKeeps DEF PagesInv
<1>4. CASE UNCHANGED allVars
  <2>1. UNCHANGED <<page, link, outbox, inbox, asked, conn, current>>
    BY <1>4 DEF allVars, lobbyVars, vars, pageVars
  <2>2. PagesShape'
    BY <2>1 DEF PagesInv, PagesShape
  <2>3. \A d \in Tabs : TabOK(d)'
    BY <1>1, <2>1, TabApart
  <2> QED BY <1>1, <2>2, <2>3 DEF PagesInv
<1>5. CASE PagesNext
  <2>1. CASE \E d \in Tabs : TabSteps(d)
    BY <1>1, <1>2, <2>1 DEF PagesInv
  <2> QED BY <1>3, <1>5, <2>1 DEF PagesNext, TabSteps
<1> QED BY <1>4, <1>5

LEMMA PagesInvariant == PagesSpec => []PagesInv
<1> QED BY PagesStart, PagesStep, PTL DEF PagesSpec

----------------------------------------------------------------------------
(* The pages drive the server of Lobby: whatever they send, and whatever is lost
   or kept, is a behaviour of it (context/SocketContext.tsx). *)
THEOREM PagesRunLobby == PagesSpec => Spec
<1>1. PagesInit => Init
  BY DEF PagesInit
<1> QED BY <1>1, LobbySteps, PagesInvariant, PTL DEF PagesSpec, Spec

(* Whoever is in a tournament looks at it, or is on the way there, or out of
   it (SocketContext.tsx:104). *)
THEOREM MembersLook == PagesSpec => []MembersAreOnPage
<1>1. PagesInv => MembersAreOnPage
  BY DEF PagesInv, TabOK, MembersAreOnPage, Online
<1> QED BY <1>1, PagesInvariant, PTL

(* Whoever looks at the bracket is in the tournament, once all packets of the
   connection it was shown through are handled (bracket/page.tsx). *)
THEOREM BracketHasMembers == PagesSpec => []BracketIsForMembers
<1>1. PagesInv => BracketIsForMembers
  BY DEF PagesInv, TabOK, BracketIsForMembers, Online, Holds
<1> QED BY <1>1, PagesInvariant, PTL

(* The bounds of what a tab does, and what waits for the start of a match. *)
Counted ==
    /\ opponents \subseteq Tabs
    /\ announced \subseteq Tournaments
    /\ clicks \in [Tabs -> 0..MaxClicks]

LEMMA Clicking ==
    ASSUME Counted, NEW d \in Tabs, Click(d)
    PROVE  clicks' \in [Tabs -> 0..MaxClicks]
<1>1. clicks[d] + 1 \in 0..MaxClicks
  BY TabsAssumption DEF Click, Counted
<1> QED BY <1>1 DEF Click, Counted

LEMMA CountedStep == Counted /\ [PagesNext]_allVars => Counted'
<1> SUFFICES ASSUME Counted, [PagesNext]_allVars PROVE Counted'
  OBVIOUS
<1>1. CASE UNCHANGED allVars
  BY <1>1 DEF allVars, pageVars, Counted
<1>2. CASE Unseen \/ (\E s \in Sessions, t \in Tournaments : CreatedAndSent(s, t))
           \/ (\E t \in Tournaments : Announce(t))
  BY <1>2 DEF Unseen, CreatedAndSent, Announce, pageVars, Counted
<1>3. ASSUME NEW d \in Tabs, TabSteps(d) PROVE Counted'
  <2>1. CASE clicks' = clicks
    BY <1>3, <2>1 DEF TabSteps, Navigate, ClickCreate, ClickJoin, Send, Relink, Unlink,
       OnCreate, OnJoin, OnLeave, OnBracket, Next1, AfterJoined, AfterNothing, AfterStart,
       ShowMatch, Take, Counted
  <2>2. CASE Click(d) /\ UNCHANGED <<opponents, announced>>
    BY <2>2, Clicking DEF Counted
  <2> QED BY <1>3, <2>1, <2>2 DEF TabSteps, Navigate, ClickCreate, ClickJoin, Send, Relink,
             Unlink, OnCreate, OnJoin, OnLeave, OnBracket, Next1, AfterJoined, AfterNothing,
             AfterStart, ShowMatch, Take
<1>4. CASE PagesNext
  <2>1. CASE \E d \in Tabs : TabSteps(d)
    BY <1>3, <2>1
  <2> QED BY <1>2, <1>4, <2>1 DEF PagesNext, TabSteps
<1> QED BY <1>1, <1>4

LEMMA CountedInvariant == PagesSpec => []Counted
<1>1. PagesInit => Counted
  BY TabsAssumption DEF PagesInit, Counted
<1> QED BY <1>1, CountedStep, PTL DEF PagesSpec

(* The pages of tournaments and their players go together: all that the run of
   TournamentPages checks, for any number of tabs, users and tournaments. *)
THEOREM PagesFit == PagesSpec => []PageFitsPlayer
<1>1. TypeOK /\ PagesInv /\ Counted => PagesTypeOK
  <2> SUFFICES ASSUME TypeOK, PagesInv, Counted PROVE PagesTypeOK
    OBVIOUS
  <2>1. \A d \in Tabs : outbox[d] \in Seq(Packets)
    BY SentArePackets DEF PagesInv, PagesShape
  <2>2. outbox \in [Tabs -> Seq(Packets)]
    BY <2>1 DEF PagesInv, PagesShape
  <2> QED BY <2>2 DEF PagesInv, PagesShape, Counted, PagesTypeOK
<1>2. PagesTypeOK /\ MembersAreOnPage /\ BracketIsForMembers => PageFitsPlayer
  BY DEF PageFitsPlayer
<1> QED BY <1>1, <1>2, PagesRunLobby, TypeCorrect, PagesInvariant, CountedInvariant,
           MembersLook, BracketHasMembers, PTL

=============================================================================
