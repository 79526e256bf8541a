---------------------------- MODULE FriendsProof ----------------------------
(***************************************************************************)
(* Theorems about Friends for all users and bounds: the table Friendships, *)
(* which what the bell shows does not reach, and the bell.                 *)
(***************************************************************************)
EXTENDS Friends, FiniteSetTheorems, TLAPS

\* What the invariants need to know of the shape of the state.
RowsOK ==
    /\ rows \subseteq [id : Nat, from : Users, to : Users, status : {"pending", "accepted"}]
    /\ nextRow \in Nat \ {0}
    /\ requests \in [Users -> SUBSET Users]
    /\ calls \subseteq [from : Users, to : Users, at : {"test", "insert", "note", "push"},
                      seen : Nat, note : Nat, nr : Nat]

\* Whoever has a row, a call or an entry in a list of requests has asked.
AskersWanted ==
    /\ \A r \in rows : <<r.from, r.to>> \in wanted
    /\ \A c \in calls : <<c.from, c.to>> \in wanted
    /\ \A u \in Users : \A v \in requests[u] : <<v, u>> \in wanted

\* Ids grow: a call has looked at the table before the next id is given.
SeenIsPast == \A c \in calls : c.seen <= nextRow

FriendsInv == RowsOK /\ AskersWanted /\ SeenIsPast /\ FriendsBothWanted /\ NoRowOverlooked

LEMMA InitInv == Init => FriendsInv
  BY UsersAssumption
     DEF Init, FriendsInv, RowsOK, AskersWanted, SeenIsPast, FriendsBothWanted, NoRowOverlooked

\* Steps that leave table and requests alone, and add no call.
LEMMA QuietStep ==
    ASSUME FriendsInv, rows' = rows, nextRow' = nextRow, requests' = requests,
           calls' \subseteq calls, wanted' = wanted
    PROVE  FriendsInv'
  BY DEF FriendsInv, RowsOK, AskersWanted, SeenIsPast, FriendsBothWanted, NoRowOverlooked

\* The calls go on, with the users that they had, and none is about to insert
\* that was not; the table may get the row of a call.
LEMMA GoesOn ==
    ASSUME FriendsInv, RowsOK', requests' = requests, wanted' = wanted,
           \A d \in calls' : \E c \in calls :
              /\ d.from = c.from /\ d.to = c.to /\ d.seen = c.seen
              /\ d.at = "insert" => c.at = "insert",
           \/ rows' = rows /\ nextRow' = nextRow
           \/ /\ nextRow' = nextRow + 1
              /\ \E c \in calls :
                    rows' = rows \cup {[id |-> nextRow, from |-> c.from, to |-> c.to,
                                       status |-> "pending"]}
    PROVE  FriendsInv'
<1> USE DEF FriendsInv
<1>2. AskersWanted'
  BY DEF AskersWanted
<1>3. SeenIsPast'
  BY DEF SeenIsPast, RowsOK
<1>4. FriendsBothWanted'
  BY DEF FriendsBothWanted
<1>5. NoRowOverlooked'
  <2> SUFFICES ASSUME NEW d \in calls', d.at = "insert", NEW r \in rows',
                      {r.from, r.to} = {d.from, d.to}
               PROVE  r.id >= d.seen
    BY DEF NoRowOverlooked
  <2>1. PICK c \in calls : d.from = c.from /\ d.to = c.to /\ d.seen = c.seen /\ c.at = "insert"
    OBVIOUS
  <2>2. CASE r \in rows
    BY <2>1, <2>2 DEF NoRowOverlooked
  <2>3. CASE r.id = nextRow
    BY <2>1, <2>3 DEF SeenIsPast, RowsOK
  <2> QED BY <2>2, <2>3
<1> QED BY <1>2, <1>3, <1>4, <1>5

LEMMA PressAddStep ==
    ASSUME FriendsInv, NEW u \in Users, NEW v \in Users, PressAdd(u, v) PROVE FriendsInv'
<1>1. PICK n \in 1..MaxCalls :
        calls' = calls \cup {[from |-> u, to |-> v, at |-> "test", seen |-> 1, note |-> 0, nr |-> n]}
  BY DEF PressAdd
<1>2. rows' = rows /\ nextRow' = nextRow /\ requests' = requests
      /\ wanted' = wanted \cup {<<u, v>>}
  BY DEF PressAdd, pageVars
<1> QED BY <1>1, <1>2, BoundsAssumption
        DEF FriendsInv, RowsOK, AskersWanted, SeenIsPast, FriendsBothWanted, NoRowOverlooked

LEMMA TestStep == ASSUME FriendsInv, NEW c \in calls, Test(c) PROVE FriendsInv'
<1>0. rows' = rows /\ nextRow' = nextRow /\ requests' = requests /\ wanted' = wanted
  BY DEF Test, pageVars
<1>1. CASE Pair(c.from, c.to) = {}
  <2> DEFINE d == [from |-> c.from, to |-> c.to, at |-> "insert", seen |-> nextRow,
                   note |-> 0, nr |-> c.nr]
  <2>1. calls' = (calls \ {c}) \cup {d}
    BY <1>1 DEF Test, Goes, FriendsInv, RowsOK
  <2>2. \A r \in rows : {r.from, r.to} # {d.from, d.to}
    BY <1>1 DEF Pair
  <2>3. RowsOK'
    BY <1>0, <2>1 DEF FriendsInv, RowsOK
  <2>4. AskersWanted' /\ FriendsBothWanted' /\ SeenIsPast'
    BY <1>0, <2>1 DEF FriendsInv, RowsOK, AskersWanted, FriendsBothWanted, SeenIsPast
  <2>5. NoRowOverlooked'
    BY <1>0, <2>1, <2>2 DEF FriendsInv, NoRowOverlooked
  <2> QED BY <2>3, <2>4, <2>5 DEF FriendsInv
<1>2. CASE Pair(c.from, c.to) # {}
  BY <1>0, <1>2, QuietStep DEF Test
<1> QED BY <1>1, <1>2

LEMMA InsertStep == ASSUME FriendsInv, NEW c \in calls, InsertRow(c) PROVE FriendsInv'
<1> DEFINE d == [from |-> c.from, to |-> c.to, at |-> "note", seen |-> c.seen,
                 note |-> 0, nr |-> c.nr]
<1>1. calls' = (calls \ {c}) \cup {d}
  BY DEF InsertRow, Goes, FriendsInv, RowsOK
<1>2. /\ requests' = requests /\ wanted' = wanted /\ nextRow' = nextRow + 1
      /\ rows' = rows \cup {[id |-> nextRow, from |-> c.from, to |-> c.to, status |-> "pending"]}
  BY DEF InsertRow, pageVars
<1>3. RowsOK'
  BY <1>1, <1>2 DEF FriendsInv, RowsOK
<1> QED BY <1>1, <1>2, <1>3, GoesOn

LEMMA NoteStep == ASSUME FriendsInv, nextNote \in Nat, NEW c \in calls, NoteRow(c) PROVE FriendsInv'
<1> DEFINE d == [from |-> c.from, to |-> c.to, at |-> "push", seen |-> c.seen,
                 note |-> nextNote, nr |-> c.nr]
<1>1. calls' = (calls \ {c}) \cup {d}
  BY DEF NoteRow, Goes, FriendsInv, RowsOK
<1>2. requests' = requests /\ wanted' = wanted /\ nextRow' = nextRow /\ rows' = rows
  BY DEF NoteRow, pageVars
<1>3. RowsOK'
  BY <1>1, <1>2 DEF FriendsInv, RowsOK
<1> QED BY <1>1, <1>2, <1>3, GoesOn

LEMMA AcceptStep ==
    ASSUME FriendsInv, NEW u \in Users, NEW v \in Users, Respond(u, v, "accepted") PROVE FriendsInv'
<1>1. /\ v \in requests[u] /\ calls' = calls /\ nextRow' = nextRow
      /\ wanted' = wanted \cup {<<u, v>>}
      /\ requests' = [requests EXCEPT ![u] = @ \ {v}]
  BY DEF Respond
<1>2. <<v, u>> \in wanted
  BY <1>1 DEF FriendsInv, AskersWanted
<1>3. \A r \in rows' :
         \E q \in rows : /\ r.id = q.id /\ r.from = q.from /\ r.to = q.to
                        /\ \/ r = q
                           \/ {r.from, r.to} = {u, v} /\ r.status = "accepted"
  BY DEF Respond, RespondRoute, Accepted, Pair, FriendsInv, RowsOK
<1>4. RowsOK'
  <2>1. rows' \subseteq [id : Nat, from : Users, to : Users, status : {"pending", "accepted"}]
    BY DEF Respond, RespondRoute, Accepted, FriendsInv, RowsOK
  <2> QED BY <1>1, <2>1 DEF FriendsInv, RowsOK
<1>5. AskersWanted'
  BY <1>1, <1>3 DEF FriendsInv, RowsOK, AskersWanted
<1>6. FriendsBothWanted'
  <2> SUFFICES ASSUME NEW r \in rows', r.status = "accepted"
               PROVE  <<r.from, r.to>> \in wanted' /\ <<r.to, r.from>> \in wanted'
    BY DEF FriendsBothWanted
  <2>1. CASE r \in rows
    BY <1>1, <2>1 DEF FriendsInv, FriendsBothWanted
  <2>2. CASE {r.from, r.to} = {u, v}
    <3>1. (r.from = u /\ r.to = v) \/ (r.from = v /\ r.to = u)
      BY <2>2, Zenon
    <3> QED BY <1>1, <1>2, <3>1
  <2> QED BY <1>3, <2>1, <2>2
<1>7. SeenIsPast' /\ NoRowOverlooked'
  BY <1>1, <1>3 DEF FriendsInv, SeenIsPast, NoRowOverlooked
<1> QED BY <1>4, <1>5, <1>6, <1>7 DEF FriendsInv

\* Deletions of a pair's rows, with any shorter list of requests.
LEMMA ClearStep ==
    ASSUME FriendsInv, NEW u, NEW v, rows' = Cleared(u, v), nextRow' = nextRow,
           calls' = calls, wanted' = wanted, requests' \in [Users -> SUBSET Users],
           \A x \in Users : requests'[x] \subseteq requests[x]
    PROVE  FriendsInv'
  BY DEF Cleared, FriendsInv, RowsOK, AskersWanted, SeenIsPast, FriendsBothWanted, NoRowOverlooked

\* A page that fetches its requests gets users that have asked.
LEMMA FetchStep ==
    ASSUME FriendsInv, NEW u \in Users, rows' = rows, nextRow' = nextRow, calls' = calls,
           wanted' = wanted, requests' = [requests EXCEPT ![u] = RequestsOf(u)]
    PROVE  FriendsInv'
<1>1. RequestsOf(u) \subseteq Users /\ \A v \in RequestsOf(u) : <<v, u>> \in wanted
  BY DEF RequestsOf, FriendsInv, RowsOK, AskersWanted
<1> QED BY <1>1 DEF FriendsInv, RowsOK, AskersWanted, SeenIsPast, FriendsBothWanted, NoRowOverlooked

\* The ids of notifications are numbers from 1 on; the table needs no other fact about them.
NoteIdsOK == nextNote \in Nat \ {0}

LEMMA NextStep == FriendsInv /\ NoteIdsOK /\ [Next]_vars => FriendsInv' /\ NoteIdsOK'
<1> SUFFICES ASSUME FriendsInv, NoteIdsOK, [Next]_vars PROVE FriendsInv' /\ NoteIdsOK'
  OBVIOUS
<1> USE DEF NoteIdsOK
<1>1. NoteIdsOK'
  <2>1. CASE UNCHANGED nextNote
    BY <2>1
  <2>2. CASE \E c \in calls : NoteRow(c)
    BY <2>2 DEF NoteRow, StoreNote
  <2>3. ASSUME NEW u \in Users, NEW v \in Users,
               \/ PressAdd(u, v) \/ PressRemove(u, v) \/ Respond(u, v, "accepted") \/ Respond(u, v, "rejected")
               \/ FetchProfile(u, v)
        PROVE  UNCHANGED nextNote
    BY <2>3 DEF PressAdd, PressRemove, Respond, FetchProfile, noteVars
  <2>4. ASSUME NEW c \in calls, Test(c) \/ InsertRow(c) \/ NoteFails(c) \/ Answer(c)
        PROVE  UNCHANGED nextNote
    BY <2>4 DEF Test, InsertRow, NoteFails, Answer, noteVars
  <2>5. ASSUME NEW u \in Users, FetchRequests(u) PROVE UNCHANGED nextNote
    BY <2>5 DEF FetchRequests, noteVars
  <2>6. ASSUME NEW u \in Users, NEW id \in NoteIds, ClickNote(u, id) PROVE UNCHANGED nextNote
    BY <2>6 DEF ClickNote, MarkRead
  <2>7. ASSUME BellNext PROVE UNCHANGED nextNote
    <3>1. ASSUME NEW u \in Users, NEW id \in NoteIds, MarkRead(u, id) \/ Delete(u, id)
          PROVE  UNCHANGED nextNote
      BY <3>1 DEF MarkRead, Delete
    <3>2. ASSUME NEW u \in Users,
                 LoadNotes(u) \/ NotesArrive(u) \/ ClearAll(u) \/ MarkAllRead(u)
          PROVE  UNCHANGED nextNote
      BY <3>2 DEF LoadNotes, NotesArrive, ClearAll, MarkAllRead
    <3>3. ASSUME NEW e \in edits, EditDone(e) PROVE UNCHANGED nextNote
      BY <3>3 DEF EditDone
    <3> QED BY <2>7, <3>1, <3>2, <3>3 DEF BellNext
  <2>8. ASSUME UNCHANGED vars PROVE UNCHANGED nextNote
    BY <2>8 DEF vars, noteVars
  <2> QED BY <2>1, <2>2, <2>3, <2>4, <2>5, <2>6, <2>7, <2>8 DEF Next
<1>2. CASE UNCHANGED friendVars
  BY <1>1, <1>2, QuietStep DEF friendVars
<1>3. ASSUME NEW u \in Users, NEW v \in Users,
             \/ PressAdd(u, v) \/ PressRemove(u, v) \/ Respond(u, v, "accepted") \/ Respond(u, v, "rejected")
             \/ FetchProfile(u, v)
      PROVE  FriendsInv'
  <2>1. CASE PressAdd(u, v)
    BY <2>1, PressAddStep
  <2>2. CASE PressRemove(u, v)
    BY <2>2, ClearStep DEF PressRemove, RemoveRoute, FriendsInv, RowsOK
  <2>3. CASE Respond(u, v, "accepted")
    BY <2>3, AcceptStep
  <2>4. CASE Respond(u, v, "rejected")
    BY <2>4, ClearStep DEF Respond, RespondRoute, FriendsInv, RowsOK
  <2>5. CASE FetchProfile(u, v)
    BY <2>5, QuietStep DEF FetchProfile
  <2> QED BY <1>3, <2>1, <2>2, <2>3, <2>4, <2>5
<1>4. ASSUME NEW c \in calls, Test(c) \/ InsertRow(c) \/ NoteRow(c) \/ NoteFails(c) \/ Answer(c)
      PROVE  FriendsInv'
  <2>1. CASE Test(c)
    BY <2>1, TestStep
  <2>2. CASE InsertRow(c)
    BY <2>2, InsertStep
  <2>3. CASE NoteRow(c)
    BY <2>3, NoteStep
  <2>4. CASE NoteFails(c)
    BY <2>4, QuietStep DEF NoteFails
  <2>5. CASE Answer(c)
    BY <2>5, QuietStep DEF Answer
  <2> QED BY <1>4, <2>1, <2>2, <2>3, <2>4, <2>5
<1>5. ASSUME NEW u \in Users, FetchRequests(u) PROVE FriendsInv'
  BY <1>5, FetchStep DEF FetchRequests
<1>6. ASSUME NEW u \in Users, NEW id \in NoteIds, ClickNote(u, id) PROVE FriendsInv'
  BY <1>6, FetchStep DEF ClickNote
<1>7. UNCHANGED vars => UNCHANGED friendVars
  BY DEF vars
<1> QED BY <1>1, <1>2, <1>3, <1>4, <1>5, <1>6, <1>7 DEF Next

LEMMA Invariance == Spec => [](FriendsInv /\ NoteIdsOK)
<1>1. Init => FriendsInv /\ NoteIdsOK
  BY InitInv DEF Init, NotesInit, NoteIdsOK
<1> QED BY <1>1, NextStep, PTL DEF Spec

(* Friends have both asked or accepted, for any number of users, rows and calls. *)
THEOREM BothWanted == Spec => []FriendsBothWanted
<1>1. FriendsInv => FriendsBothWanted
  BY DEF FriendsInv
<1> QED BY <1>1, Invariance, PTL

(* A call about to insert has seen every row of its pair that was there when it asked. *)
THEOREM RowsAreSeen == Spec => []NoRowOverlooked
<1>1. FriendsInv => NoRowOverlooked
  BY DEF FriendsInv
<1> QED BY <1>1, Invariance, PTL

(***************************************************************************)
(* The bell.  A list is filled in three ways: with the rows of the table,  *)
(* whose ids differ, with an event whose id it does not have, and from     *)
(* itself, by leaving entries out.                                         *)
(***************************************************************************)

\* The counts of the smaller numbers are those from 0 to the last, each once.
LEMMA NthOf ==
    ASSUME NEW S \in SUBSET Nat, IsFiniteSet(S), NEW j \in 1..Cardinality(S)
    PROVE  Nth(S, j) \in S /\ Cardinality({k \in S : k < Nth(S, j)}) = j - 1
<1> DEFINE below(i) == {k \in S : k < i}
           f == [i \in S |-> Cardinality(below(i)) + 1]
           T == 1..Cardinality(S)
<1>1. Cardinality(S) \in Nat
  BY FS_CardinalityType
<1>2. ASSUME NEW i \in S PROVE IsFiniteSet(below(i)) /\ Cardinality(below(i)) \in Nat
  <2>1. below(i) \in SUBSET S
    OBVIOUS
  <2> HIDE DEF below
  <2> QED BY <2>1, FS_Subset, FS_CardinalityType
<1>3. ASSUME NEW i \in S, NEW B \in SUBSET S, \A k \in below(i) : k \in B, i \in B
      PROVE  Cardinality(below(i)) + 1 <= Cardinality(B)
  <2>1. IsFiniteSet(B)
    BY FS_Subset
  <2>0. i \notin below(i)
    BY <1>3
  <2> HIDE DEF below
  <2>2. below(i) \cup {i} \in SUBSET B
    BY <1>3
  <2>3. Cardinality(below(i) \cup {i}) = Cardinality(below(i)) + 1
    BY <1>2, <2>0, FS_AddElement
  <2>4. Cardinality(below(i) \cup {i}) <= Cardinality(B)
    BY <2>1, <2>2, FS_Subset
  <2> QED BY <2>3, <2>4
<1>4. \A i \in S : Cardinality(below(i)) + 1 \in T
  <2> SUFFICES ASSUME NEW i \in S PROVE Cardinality(below(i)) + 1 \in T
    OBVIOUS
  <2>1. \A k \in below(i) : k \in S
    OBVIOUS
  <2> HIDE DEF below
  <2>2. Cardinality(below(i)) + 1 <= Cardinality(S)
    BY <1>3, <2>1
  <2> QED BY <1>1, <1>2, <2>2
<1>5. ASSUME NEW i \in S, NEW l \in S, i < l
      PROVE  Cardinality(below(i)) # Cardinality(below(l))
  <2>1. below(l) \in SUBSET S /\ i \in below(l) /\ \A k \in below(i) : k \in below(l)
    BY <1>5
  <2> HIDE DEF below
  <2>2. Cardinality(below(i)) + 1 <= Cardinality(below(l))
    BY <1>3, <2>1
  <2> QED BY <1>2, <2>2
<1>6. f \in Injection(S, T)
  <2>1. f \in [S -> T]
    BY <1>4
  <2>2. ASSUME NEW i \in S, NEW l \in S, f[i] = f[l] PROVE i = l
    <3> HIDE DEF below
    <3>1. Cardinality(below(i)) = Cardinality(below(l))
      BY <1>2, <2>2
    <3>2. ~(i < l) /\ ~(l < i)
      BY <1>5, <3>1
    <3> QED BY <3>2
  <2> QED BY <2>1, <2>2 DEF Injection, IsInjective
<1>7. IsFiniteSet(T) /\ Cardinality(T) = Cardinality(S)
  BY <1>1, FS_Interval
<1>8. f \in Surjection(S, T)
  <2> HIDE DEF f, T
  <2> QED BY <1>6, <1>7, FS_Injection
<1>9. PICK i \in S : f[i] = j
  BY <1>8 DEF Surjection
<1>10. Cardinality(below(i)) = j - 1
  <2> HIDE DEF below
  <2> QED BY <1>2, <1>9
<1> QED BY <1>10, Zenon DEF Nth

LEMMA NthOnce ==
    ASSUME NEW S \in SUBSET Nat, IsFiniteSet(S),
           NEW i \in 1..Cardinality(S), NEW j \in 1..Cardinality(S), Nth(S, i) = Nth(S, j)
    PROVE  i = j
<1>1. Cardinality({k \in S : k < Nth(S, i)}) = i - 1 /\ Cardinality({k \in S : k < Nth(S, j)}) = j - 1
  BY NthOf
<1>2. Cardinality(S) \in Nat /\ i - 1 = j - 1
  BY <1>1, FS_CardinalityType
<1> QED BY <1>2

\* What a bell may show, and a list that was read.
Shown == [id : NoteIds, read : BOOLEAN]
Lists == {list \in Seq(Shown) : \A i, j \in DOMAIN list : list[i].id = list[j].id => i = j}

Notes == [id : NoteIds, from : Users, to : Users, read : BOOLEAN]

LEMMA ReadList ==
    ASSUME notes \subseteq Notes, NEW u \in Users PROVE NotesOf(u) \in Lists
<1> DEFINE mine == {n \in notes : n.to = u}
           ids == {n.id : n \in mine}
           c == Cardinality(ids)
           id(j) == Nth(ids, c + 1 - j)
           list == [j \in 1..c |-> [id |-> id(j), read |-> \E n \in mine : n.id = id(j) /\ n.read]]
<1>1. ids \in SUBSET NoteIds /\ ids \in SUBSET Nat /\ IsFiniteSet(ids)
  <2>1. ids \in SUBSET NoteIds
    BY DEF Notes
  <2> HIDE DEF ids
  <2>2. \A i \in ids : i \in Nat /\ i <= MaxNotes
    BY <2>1, UsersAssumption DEF NoteIds
  <2> QED BY <2>1, <2>2, UsersAssumption, FS_BoundedSetOfNaturals
<1>2. NotesOf(u) = list
  BY DEF NotesOf
<1> HIDE DEF mine, ids
<1>3. c \in Nat
  BY <1>1, FS_CardinalityType
<1>4. \A j \in 1..c : id(j) \in NoteIds
  <2> SUFFICES ASSUME NEW j \in 1..c PROVE id(j) \in NoteIds
    OBVIOUS
  <2>1. c + 1 - j \in 1..c
    BY <1>3
  <2> QED BY <1>1, <2>1, NthOf
<1>5. ASSUME NEW i \in 1..c, NEW j \in 1..c, id(i) = id(j) PROVE i = j
  <2>1. c + 1 - i \in 1..c /\ c + 1 - j \in 1..c
    BY <1>3
  <2>2. c + 1 - i = c + 1 - j
    BY <1>1, <1>5, <2>1, NthOnce
  <2> QED BY <1>3, <2>2
<1> HIDE DEF c
<1> DEFINE isRead(j) == \E n \in mine : n.id = id(j) /\ n.read
<1>6. \A j \in 1..c : [id |-> id(j), read |-> isRead(j)] \in Shown
  <2>1. \A j \in 1..c : isRead(j) \in BOOLEAN
    BY Zenon
  <2> HIDE DEF isRead, id
  <2> QED BY <1>4, <2>1 DEF Shown
<1>7. list = [j \in 1..c |-> [id |-> id(j), read |-> isRead(j)]]
  OBVIOUS
<1> HIDE DEF isRead, id, list
<1>8. list \in Seq(Shown) /\ DOMAIN list = 1..c /\ \A j \in 1..c : list[j].id = id(j)
  BY <1>3, <1>6, <1>7
<1>9. \A i, j \in 1..c : list[i].id = list[j].id => i = j
  BY <1>5, <1>8
<1> QED BY <1>2, <1>8, <1>9 DEF Lists

LEMMA FilteredList ==
    ASSUME NEW list \in Lists, NEW id PROVE WithoutNote(list, id) \in Lists
<1> DEFINE kept == {i \in DOMAIN list : list[i].id # id}
           c == Cardinality(kept)
           rest == [j \in 1..c |-> list[Nth(kept, j)]]
<1>1. /\ list \in Seq(Shown) /\ DOMAIN list = 1..Len(list) /\ Len(list) \in Nat
      /\ \A i, j \in DOMAIN list : list[i].id = list[j].id => i = j
  BY DEF Lists
<1>2. kept \in SUBSET DOMAIN list /\ kept \in SUBSET Nat /\ IsFiniteSet(kept)
  <2>1. kept \in SUBSET DOMAIN list
    OBVIOUS
  <2> HIDE DEF kept
  <2>2. \A i \in kept : i \in Nat /\ i <= Len(list)
    BY <1>1, <2>1
  <2> QED BY <1>1, <2>1, <2>2, FS_BoundedSetOfNaturals
<1>3. WithoutNote(list, id) = rest
  BY DEF WithoutNote
<1> HIDE DEF kept
<1>4. c \in Nat
  BY <1>2, FS_CardinalityType
<1>5. \A j \in 1..c : Nth(kept, j) \in DOMAIN list
  BY <1>2, NthOf
<1>6. ASSUME NEW i \in 1..c, NEW j \in 1..c, Nth(kept, i) = Nth(kept, j) PROVE i = j
  BY <1>2, <1>6, NthOnce
<1> HIDE DEF c
<1>7. rest \in Seq(Shown)
  BY <1>1, <1>4, <1>5
<1>8. \A i, j \in 1..c : rest[i].id = rest[j].id => i = j
  BY <1>1, <1>5, <1>6
<1> QED BY <1>3, <1>7, <1>8 DEF Lists

LEMMA LongerList ==
    ASSUME NEW list \in Lists, NEW note \in Shown PROVE WithNote(list, note) \in Lists
<1>1. list \in Seq(Shown) /\ \A i, j \in DOMAIN list : list[i].id = list[j].id => i = j
  BY DEF Lists
<1>2. CASE Listed(list, note.id)
  BY <1>2 DEF WithNote
<1>3. CASE ~Listed(list, note.id)
  <2> DEFINE l == <<note>> \o list
  <2>1. /\ l \in Seq(Shown) /\ Len(l) = Len(list) + 1 /\ l[1] = note
        /\ \A i \in 2..Len(l) : l[i] = list[i - 1] /\ i - 1 \in DOMAIN list
    BY <1>1
  <2>2. WithNote(list, note) = l
    BY <1>3 DEF WithNote
  <2> HIDE DEF l
  <2>3. \A i \in 2..Len(l) : l[i].id # note.id
    BY <1>3, <2>1 DEF Listed
  <2>4. \A i, j \in DOMAIN l : l[i].id = l[j].id => i = j
    <3> SUFFICES ASSUME NEW i \in 1..Len(l), NEW j \in 1..Len(l), l[i].id = l[j].id PROVE i = j
      BY <2>1
    <3>1. CASE i = 1 \/ j = 1
      BY <2>1, <2>3, <3>1
    <3>2. CASE i # 1 /\ j # 1
      <4>1. i - 1 \in DOMAIN list /\ j - 1 \in DOMAIN list /\ l[i] = list[i - 1] /\ l[j] = list[j - 1]
        BY <2>1, <3>2
      <4>2. i - 1 = j - 1
        BY <1>1, <4>1
      <4> QED BY <4>2
    <3> QED BY <3>1, <3>2
  <2> QED BY <2>1, <2>2, <2>4 DEF Lists
<1> QED BY <1>2, <1>3

LEMMA MarkedList ==
    ASSUME NEW list \in Lists, NEW id
    PROVE  [i \in DOMAIN list |-> IF list[i].id = id THEN [list[i] EXCEPT !.read = TRUE] ELSE list[i]]
               \in Lists
<1> DEFINE l == [i \in DOMAIN list |->
                    IF list[i].id = id THEN [list[i] EXCEPT !.read = TRUE] ELSE list[i]]
<1>1. /\ list \in Seq(Shown) /\ DOMAIN list = 1..Len(list) /\ Len(list) \in Nat
      /\ \A i, j \in DOMAIN list : list[i].id = list[j].id => i = j
  BY DEF Lists
<1>2. \A i \in DOMAIN list : l[i] \in Shown /\ l[i].id = list[i].id
  <2>1. ASSUME NEW note \in Shown
        PROVE  [note EXCEPT !.read = TRUE] \in Shown /\ [note EXCEPT !.read = TRUE].id = note.id
    BY DEF Shown
  <2>2. \A i \in DOMAIN list : list[i] \in Shown
    BY <1>1
  <2> QED BY <2>1, <2>2
<1>3. DOMAIN l = 1..Len(list) /\ l = [i \in 1..Len(list) |-> l[i]]
  BY <1>1
<1> HIDE DEF l
<1>4. l \in Seq(Shown)
  BY <1>1, <1>2, <1>3
<1>5. l \in Lists
  BY <1>1, <1>2, <1>3, <1>4 DEF Lists
<1> QED BY <1>5 DEF l

BellInv ==
    /\ notes \subseteq Notes
    /\ bell \in [Users -> Lists]
    /\ snapshot \in [Users -> SUBSET Lists]

LEMMA BellInit == Init => BellInv
<1>1. <<>> \in Lists
  BY DEF Lists
<1> QED BY <1>1 DEF Init, NotesInit, BellInv

LEMMA PressStep ==
    ASSUME BellInv, NEW u \in Users, NEW id, UNCHANGED <<notes, snapshot>>,
           \/ bell' = [bell EXCEPT ![u] = [i \in DOMAIN @ |->
                          IF @[i].id = id THEN [@[i] EXCEPT !.read = TRUE] ELSE @[i]]]
           \/ bell' = [bell EXCEPT ![u] = WithoutNote(@, id)]
           \/ bell' = [bell EXCEPT ![u] = <<>>]
    PROVE  BellInv'
<1>1. bell[u] \in Lists
  BY DEF BellInv
<1>2. /\ [i \in DOMAIN bell[u] |->
            IF bell[u][i].id = id THEN [bell[u][i] EXCEPT !.read = TRUE] ELSE bell[u][i]] \in Lists
      /\ WithoutNote(bell[u], id) \in Lists
  BY <1>1, MarkedList, FilteredList
<1>3. <<>> \in Lists
  BY DEF Lists
<1> QED BY <1>2, <1>3 DEF BellInv

LEMMA BellStep ==
    ASSUME BellInv, FriendsInv, NoteIdsOK, [Next]_vars PROVE BellInv'
<1>1. CASE UNCHANGED noteVars
  BY <1>1 DEF noteVars, BellInv
<1>2. ASSUME NEW c \in calls, NoteRow(c) PROVE BellInv'
  <2>1. /\ nextNote <= MaxNotes /\ UNCHANGED <<bell, snapshot>>
        /\ notes' = notes \cup {[id |-> nextNote, from |-> c.from, to |-> c.to, read |-> FALSE]}
    BY <1>2 DEF NoteRow, StoreNote
  <2>2. nextNote \in NoteIds /\ c.from \in Users /\ c.to \in Users
    BY <2>1, UsersAssumption DEF NoteIdsOK, NoteIds, FriendsInv, RowsOK
  <2>3. [id |-> nextNote, from |-> c.from, to |-> c.to, read |-> FALSE] \in Notes
    BY <2>2 DEF Notes
  <2>4. notes' \subseteq Notes
    BY <2>1, <2>3 DEF BellInv
  <2> QED BY <2>1, <2>4 DEF BellInv
<1>3. ASSUME NEW c \in calls, Answer(c) PROVE BellInv'
  <2>1. /\ UNCHANGED <<notes, snapshot>> /\ c.to \in Users
        /\ \/ bell' = bell
           \/ /\ c.note \in NoteIds
              /\ bell' = [bell EXCEPT ![c.to] = WithNote(@, [id |-> c.note, read |-> FALSE])]
    BY <1>3 DEF Answer, PushNote, BellInv, Notes, FriendsInv, RowsOK
  <2>2. c.note \in NoteIds => WithNote(bell[c.to], [id |-> c.note, read |-> FALSE]) \in Lists
    BY <2>1, LongerList DEF BellInv, Shown
  <2> QED BY <2>1, <2>2 DEF BellInv
<1>4. ASSUME NEW u \in Users, NEW id \in NoteIds, MarkRead(u, id) \/ Delete(u, id) PROVE BellInv'
  BY <1>4, PressStep DEF MarkRead, Delete
<1>5. ASSUME NEW u \in Users, ClearAll(u) PROVE BellInv'
  <2>1. UNCHANGED <<notes, snapshot>> /\ bell' = [bell EXCEPT ![u] = <<>>]
    BY <1>5 DEF ClearAll
  <2> QED BY <2>1, PressStep
<1>6. ASSUME NEW u \in Users, LoadNotes(u) PROVE BellInv'
  BY <1>6, ReadList DEF LoadNotes, BellInv
<1>7. ASSUME NEW u \in Users, NotesArrive(u) PROVE BellInv'
  BY <1>7 DEF NotesArrive, BellInv
<1>8. ASSUME NEW u \in Users, MarkAllRead(u) PROVE BellInv'
  BY <1>8 DEF MarkAllRead, BellInv, Notes
<1>9. ASSUME NEW u \in Users, NEW e \in edits, e.user = u, EditDone(e) PROVE BellInv'
  <2>1. notes' \subseteq Notes /\ bell' = bell
    BY <1>9 DEF EditDone, ReadRow, Kept, BellInv, Notes
  <2>2. snapshot' = snapshot \/ snapshot' = [snapshot EXCEPT ![u] = {NotesOf(u)}]
    BY <1>9 DEF EditDone
  <2> QED BY <2>1, <2>2, ReadList DEF BellInv
<1>10. ASSUME NEW u \in Users, NEW id \in NoteIds, ClickNote(u, id) PROVE BellInv'
  BY <1>4, <1>10 DEF ClickNote
<1>11. CASE BellNext
  BY <1>4, <1>5, <1>6, <1>7, <1>8, <1>9, <1>11 DEF BellNext
<1>12. ASSUME NEW u \in Users, NEW v \in Users,
              \/ PressAdd(u, v) \/ PressRemove(u, v) \/ FetchProfile(u, v)
              \/ Respond(u, v, "accepted") \/ Respond(u, v, "rejected")
       PROVE  UNCHANGED noteVars
  BY <1>12 DEF PressAdd, PressRemove, FetchProfile, Respond
<1>13. ASSUME NEW c \in calls, Test(c) \/ InsertRow(c) \/ NoteFails(c) PROVE UNCHANGED noteVars
  BY <1>13 DEF Test, InsertRow, NoteFails
<1>14. ASSUME NEW u \in Users, FetchRequests(u) PROVE UNCHANGED noteVars
  BY <1>14 DEF FetchRequests
<1>15. UNCHANGED vars => UNCHANGED noteVars
  BY DEF vars
<1> QED BY <1>1, <1>2, <1>3, <1>10, <1>11, <1>12, <1>13, <1>14, <1>15 DEF Next

(* The bell shows a notification once, for any number of them: SocketContext adds an
   event only when the list has not come with it, and a list is replaced as a whole. *)
THEOREM ShownOnce == Spec => []NoteShownOnce
<1>1. BellInv => NoteShownOnce
  BY DEF BellInv, Lists, NoteShownOnce
<1>2. BellInv /\ FriendsInv /\ NoteIdsOK /\ [Next]_vars => BellInv'
  BY BellStep
<1> QED BY <1>1, <1>2, BellInit, Invariance, PTL DEF Spec
=============================================================================
