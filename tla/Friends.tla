------------------------------- MODULE Friends -------------------------------
(***************************************************************************)
(* Friend requests of Transcendence: the table Friendships and the routes  *)
(* on it (friendsModel.js, friendsController.js), the profile page with    *)
(* its button, and the page of friends with its list of requests.          *)
(*                                                                         *)
(* A request of the interface is cut where the controller awaits the       *)
(* database.  What a page shows was true when it was fetched; the buttons  *)
(* that it offers follow from what it shows.                               *)
(***************************************************************************)
EXTENDS Notifications

CONSTANTS MaxRows,      \* bound on the rows ever inserted in Friendships
          MaxCalls      \* bound on the calls of "add" under way

ASSUME BoundsAssumption == MaxRows \in Nat /\ MaxCalls \in Nat

VARIABLES rows,         \* Friendships: [id, from, to, status]
          nextRow,      \* the id of the next row
          calls,        \* calls of "add" under way: [from, to, at, seen, row]
          profile,      \* profile[u][v]: what u's page of v's profile shows
          requests,     \* the requests that u's page of friends lists
          wanted        \* history: <<u, v>> when u has asked v or accepted v

friendVars == <<rows, nextRow, calls, profile, requests, wanted>>
vars == <<noteVars, friendVars>>
pageVars == <<profile, requests>>

RowIds == 1..MaxRows
Statuses == {"none", "pending", "accepted"}
CallTypes == [from : Users, to : Users, at : {"test", "insert", "note", "push"},
              seen : 1..MaxRows + 1, note : {0} \cup NoteIds, nr : 1..MaxCalls]

TypeOK ==
    /\ NotesTypeOK
    /\ rows \subseteq [id : RowIds, from : Users, to : Users, status : Statuses \ {"none"}]
    /\ nextRow \in 1..MaxRows + 1
    /\ calls \subseteq CallTypes
    /\ profile \in [Users -> [Users -> Statuses]]
    /\ requests \in [Users -> SUBSET Users]
    /\ wanted \subseteq Users \X Users

Init ==
    /\ NotesInit
    /\ rows = {} /\ nextRow = 1 /\ calls = {} /\ wanted = {}
    /\ profile = [u \in Users |-> [v \in Users |-> "none"]]
    /\ requests = [u \in Users |-> {}]

(***************************************************************************)
(* The queries of friendsModel.js.                                         *)
(***************************************************************************)

\* fault: the rows that u has asked for
PairOneWay(u, v) == {r \in rows : r.from = u /\ r.to = v}
\* The rows of two users, whoever asked.
Pair(u, v) == {r \in rows : {r.from, r.to} = {u, v}}

\* getFriendshipStatus: LIMIT 1 of a scan, the row that was inserted first.
Status(u, v) ==
    IF Pair(u, v) = {} THEN "none"
    ELSE (CHOOSE r \in Pair(u, v) : \A q \in Pair(u, v) : r.id <= q.id).status

\* fault: the query finds the requests that u has sent as well
RequestsBothWays(u) == {v \in Users \ {u} : \E r \in Pair(u, v) : r.status = "pending"}
\* getRequests: the pending rows that are addressed to u.
RequestsOf(u) == {r.from : r \in {q \in rows : q.to = u /\ q.status = "pending"}}

\* respondFriend "accepted" sets both directions; removeFirend and "rejected" delete both.
Accepted(u, v) == {IF r \in Pair(u, v) THEN [r EXCEPT !.status = "accepted"] ELSE r : r \in rows}
Cleared(u, v) == rows \ Pair(u, v)

(***************************************************************************)
(* add: test, insert, store the notification, send it and answer.          *)
(***************************************************************************)

\* The button of the profile page, shown while the page believes in "none".
\* It stays until the answer arrives, so it can be pressed again.
PressAdd(u, v) ==
    /\ profile[u][v] = "none"
    /\ \E n \in 1..MaxCalls :
          /\ \A c \in calls : c.nr # n
          /\ \A k \in 1..n - 1 : \E c \in calls : c.nr = k
          /\ calls' = calls \cup {[from |-> u, to |-> v, at |-> "test", seen |-> 1,
                                   note |-> 0, nr |-> n]}
    /\ wanted' = wanted \cup {<<u, v>>}
    /\ UNCHANGED <<noteVars, rows, nextRow, pageVars>>

Goes(c, at, seen, note) ==
    calls' = (calls \ {c}) \cup {[from |-> c.from, to |-> c.to, at |-> at, seen |-> seen,
                                  note |-> note, nr |-> c.nr]}

\* getFriendshipStatus answers; any status but "none", which stands for no
\* row, ends the call with 400.
\* seen remembers which rows there had been.
Test(c) ==
    /\ c.at = "test"
    /\ IF Pair(c.from, c.to) = {}
         THEN Goes(c, "insert", nextRow, 0)
         ELSE calls' = calls \ {c}
    /\ UNCHANGED <<noteVars, rows, nextRow, pageVars, wanted>>

\* addFirend: nothing in the table forbids a second row of the pair.
InsertRow(c) ==
    /\ c.at = "insert" /\ nextRow <= MaxRows
    /\ rows' = rows \cup {[id |-> nextRow, from |-> c.from, to |-> c.to, status |-> "pending"]}
    /\ nextRow' = nextRow + 1
    /\ Goes(c, "note", c.seen, 0)
    /\ UNCHANGED <<noteVars, pageVars, wanted>>

\* getUserById and the insert of createNotification.
NoteRow(c) ==
    /\ c.at = "note"
    /\ StoreNote(c.from, c.to)
    /\ Goes(c, "push", c.seen, nextNote)
    /\ UNCHANGED <<rows, nextRow, pageVars, wanted>>

\* An error of createNotification is caught; the request is answered all the same.
NoteFails(c) ==
    /\ c.at = "note"
    /\ calls' = calls \ {c}
    /\ profile' = [profile EXCEPT ![c.from][c.to] = "pending"]
    /\ UNCHANGED <<noteVars, rows, nextRow, requests, wanted>>

\* The SELECT of createNotification, the event, and the answer to the page:
\* the row may have been deleted meanwhile, then there is no event.
Answer(c) ==
    /\ c.at = "push"
    /\ IF \E n \in notes : n.id = c.note
         THEN PushNote([id |-> c.note, to |-> c.to]) ELSE UNCHANGED bell
    /\ calls' = calls \ {c}
    /\ profile' = [profile EXCEPT ![c.from][c.to] = "pending"]
    /\ UNCHANGED <<notes, nextNote, snapshot, edits, rows, nextRow, requests, wanted>>

(***************************************************************************)
(* The other routes await one query each: they are steps.                  *)
(***************************************************************************)

\* removeFriendRequest and respond: whoever calls, for rows in both directions.
RemoveRoute(u, v) == rows' = Cleared(u, v)
RespondRoute(u, v, action) ==
    rows' = IF action = "accepted" THEN Accepted(u, v) ELSE Cleared(u, v)

\* "cancel request", or "remove friend" when it is confirmed: the profile
\* page offers the first of them to both sides of a request.
PressRemove(u, v) ==
    /\ profile[u][v] \in {"pending", "accepted"}
    /\ RemoveRoute(u, v)
    /\ profile' = [profile EXCEPT ![u][v] = "none"]
    /\ UNCHANGED <<noteVars, nextRow, calls, requests, wanted>>

\* responseRequest of the page of friends, for a request that it lists.
Respond(u, v, action) ==
    /\ v \in requests[u]
    /\ RespondRoute(u, v, action)
    /\ requests' = [requests EXCEPT ![u] = @ \ {v}]
    /\ wanted' = IF action = "accepted" THEN wanted \cup {<<u, v>>} ELSE wanted
    /\ UNCHANGED <<noteVars, nextRow, calls, profile>>

\* The pages fetch when they are opened: the page of friends the requests
\* (its list of friends is for display only), a profile getFriendshipStatus.
FetchRequests(u) ==
    /\ requests' = [requests EXCEPT ![u] = RequestsOf(u)]
    /\ UNCHANGED <<noteVars, rows, nextRow, calls, profile, wanted>>

FetchProfile(u, v) ==
    /\ profile' = [profile EXCEPT ![u][v] = Status(u, v)]
    /\ UNCHANGED <<noteVars, rows, nextRow, calls, requests, wanted>>

\* A click on a notification of this kind marks it and opens the page of friends.
ClickNote(u, id) ==
    /\ \E i \in DOMAIN bell[u] : bell[u][i].id = id /\ ~ bell[u][i].read
    /\ MarkRead(u, id)
    /\ requests' = [requests EXCEPT ![u] = RequestsOf(u)]
    /\ UNCHANGED <<rows, nextRow, calls, profile, wanted>>

Next ==
    \/ \E u \in Users, v \in Users :
          /\ u # v
          /\ \/ PressAdd(u, v) \/ PressRemove(u, v) \/ FetchProfile(u, v)
             \/ Respond(u, v, "accepted") \/ Respond(u, v, "rejected")
    \/ \E c \in calls : Test(c) \/ InsertRow(c) \/ NoteRow(c) \/ NoteFails(c) \/ Answer(c)
    \/ \E u \in Users : FetchRequests(u) \/ \E id \in NoteIds : ClickNote(u, id)
    \/ BellNext /\ UNCHANGED friendVars

Spec == Init /\ [][Next]_vars

(***************************************************************************)
(* Friends have both wanted it: each of them has asked or accepted the     *)
(* other at some time, whatever the pages showed that they pressed on      *)
(* (respondFriend itself does not look who asked, friendsModel.js:46).     *)
(***************************************************************************)
FriendsBothWanted ==
    \A r \in rows : r.status = "accepted" =>
        <<r.from, r.to>> \in wanted /\ <<r.to, r.from>> \in wanted

(***************************************************************************)
(* The rows that add overlooks are those inserted while it waited: a call  *)
(* about to insert has seen every row of the pair that was there when it   *)
(* asked, whichever side inserted it (friendsController.js:13-19).         *)
(***************************************************************************)
NoRowOverlooked ==
    \A c \in calls : c.at = "insert" =>
        \A r \in rows : {r.from, r.to} = {c.from, c.to} => r.id >= c.seen
=============================================================================
