---------------------------- MODULE Notifications ----------------------------
(***************************************************************************)
(* Notifications of Transcendence: the table Notifications with the routes *)
(* on it (notificationModel.js, notificationController.js) and the copy    *)
(* that each browser keeps (SocketContext.tsx), shown by the bell.         *)
(*                                                                         *)
(* A browser gets a notification in two ways: with the list that it        *)
(* fetches when its socket connects, and as an event of its own.  It       *)
(* changes its copy before it tells the server, so that the two may        *)
(* disagree while a request is under way.                                  *)
(***************************************************************************)
EXTENDS Integers, Sequences, FiniteSets

CONSTANTS Users,        \* the users, each with one browser
          MaxNotes,     \* bound on the rows ever stored
          MaxEdits      \* bound on the requests of the bells under way

ASSUME UsersAssumption == IsFiniteSet(Users) /\ MaxNotes \in Nat /\ MaxEdits \in Nat

VARIABLES notes,        \* rows of Notifications: [id, from, to, read]
          nextNote,     \* the id of the next row
          bell,         \* user -> what its browser lists, newest first: [id, read]
          snapshot,     \* user -> lists that were read and have not arrived
          edits         \* requests under way: [op, id, user]

noteVars == <<notes, nextNote, bell, snapshot, edits>>

NoteIds == 1..MaxNotes

NotesTypeOK ==
    /\ notes \subseteq [id : NoteIds, from : Users, to : Users, read : BOOLEAN]
    /\ nextNote \in 1..MaxNotes + 1
    /\ \A u \in Users : \A i \in DOMAIN bell[u] :
          bell[u][i] \in [id : NoteIds, read : BOOLEAN]
    /\ DOMAIN bell = Users /\ DOMAIN snapshot = Users
    /\ edits \subseteq [op : {"read", "delete", "clear"}, id : {0} \cup NoteIds, user : Users]

NotesInit ==
    /\ notes = {}
    /\ nextNote = 1
    /\ bell = [u \in Users |-> <<>>]
    /\ snapshot = [u \in Users |-> {}]
    /\ edits = {}

(***************************************************************************)
(* The queries of the server.  They take effect when the database runs     *)
(* them.                                                                   *)
(***************************************************************************)

\* createNotification up to the insert; its SELECT and the event follow later.
StoreNote(from, to) ==
    /\ nextNote <= MaxNotes
    /\ notes' = notes \cup {[id |-> nextNote, from |-> from, to |-> to, read |-> FALSE]}
    /\ nextNote' = nextNote + 1
    /\ UNCHANGED <<bell, snapshot, edits>>

\* The j-th smallest of a finite set of numbers.
Nth(S, j) == CHOOSE i \in S : Cardinality({k \in S : k < i}) = j - 1

\* getNotificationsForUser: the rows of the user, newest first.
NotesOf(user) ==
    LET mine == {n \in notes : n.to = user}
        ids == {n.id : n \in mine}
        id(j) == Nth(ids, Cardinality(ids) + 1 - j)
    IN  [j \in 1..Cardinality(ids) |->
            [id |-> id(j), read |-> \E n \in mine : n.id = id(j) /\ n.read]]

\* markAsRead: only the receiver's row changes.
ReadRow(id, user) ==
    {IF n.id = id /\ n.to = user THEN [n EXCEPT !.read = TRUE] ELSE n : n \in notes}

\* deleteNotification and deleteAllNotifications.
Kept(id, user) == {n \in notes : ~ (n.to = user /\ id \in {0, n.id})}

(***************************************************************************)
(* The browser.                                                            *)
(***************************************************************************)

\* The bound: a request of a bell is made only when there is room for it.
Requested(op, id, user) ==
    /\ Cardinality(edits) < MaxEdits
    /\ edits' = edits \cup {[op |-> op, id |-> id, user |-> user]}

Listed(list, id) == \E i \in DOMAIN list : list[i].id = id

\* fault: the event is added without looking for it
WithNoteAlways(list, note) == <<note>> \o list

\* The event "notification": added in front unless the id is there already.
WithNote(list, note) == IF Listed(list, note.id) THEN list ELSE <<note>> \o list

PushNote(note) ==
    bell' = [bell EXCEPT ![note.to] = WithNote(@, [id |-> note.id, read |-> FALSE])]

\* loadPersistedNotifications after "connect": the list is read ...
LoadNotes(user) ==
    /\ snapshot[user] = {}
    /\ snapshot' = [snapshot EXCEPT ![user] = {NotesOf(user)}]
    /\ UNCHANGED <<notes, nextNote, bell, edits>>

\* ... and replaces the copy when it arrives.
NotesArrive(user) ==
    /\ \E list \in snapshot[user] : bell' = [bell EXCEPT ![user] = list]
    /\ snapshot' = [snapshot EXCEPT ![user] = {}]
    /\ UNCHANGED <<notes, nextNote, edits>>

\* markAsRead of the context: the copy first, then the request.
MarkRead(user, id) ==
    /\ Listed(bell[user], id)
    /\ bell' = [bell EXCEPT ![user] =
                  [i \in DOMAIN @ |-> IF @[i].id = id THEN [@[i] EXCEPT !.read = TRUE] ELSE @[i]]]
    /\ Requested("read", id, user)
    /\ UNCHANGED <<notes, nextNote, snapshot>>

\* The filter of deleteNotification: the entries with other ids, in their order.
WithoutNote(list, id) ==
    LET kept == {i \in DOMAIN list : list[i].id # id}
    IN  [j \in 1..Cardinality(kept) |-> list[Nth(kept, j)]]

\* deleteNotification of the context.
Delete(user, id) ==
    /\ Listed(bell[user], id)
    /\ bell' = [bell EXCEPT ![user] = WithoutNote(@, id)]
    /\ Requested("delete", id, user)
    /\ UNCHANGED <<notes, nextNote, snapshot>>

\* clearAll of the context; its request has no id.
ClearAll(user) ==
    /\ bell[user] # <<>>
    /\ bell' = [bell EXCEPT ![user] = <<>>]
    /\ Requested("clear", 0, user)
    /\ UNCHANGED <<notes, nextNote, snapshot>>

\* The server handles a request; a delete that finds no row is answered with
\* 404, and the browser then fetches the list again.
EditDone(e) ==
    /\ edits' = edits \ {e}
    /\ notes' = IF e.op = "read" THEN ReadRow(e.id, e.user) ELSE Kept(e.id, e.user)
    /\ snapshot' = IF e.op = "delete" /\ notes' = notes
                     THEN [snapshot EXCEPT ![e.user] = {NotesOf(e.user)}] ELSE snapshot
    /\ UNCHANGED <<nextNote, bell>>

\* PUT /notifications/read-all, of any client of the interface.
MarkAllRead(user) ==
    /\ \E n \in notes : n.to = user /\ ~ n.read
    /\ notes' = {IF n.to = user THEN [n EXCEPT !.read = TRUE] ELSE n : n \in notes}
    /\ UNCHANGED <<nextNote, bell, snapshot, edits>>

BellNext ==
    \E u \in Users :
        \/ LoadNotes(u) \/ NotesArrive(u) \/ ClearAll(u) \/ MarkAllRead(u)
        \/ \E id \in NoteIds : MarkRead(u, id) \/ Delete(u, id)
        \/ \E e \in edits : e.user = u /\ EditDone(e)

(***************************************************************************)
(* The bell shows a notification once, although it may come with a list    *)
(* that was read after it was stored and then again as an event            *)
(* (SocketContext.tsx:207).                                                *)
(***************************************************************************)
NoteShownOnce ==
    \A u \in Users : \A i, j \in DOMAIN bell[u] : bell[u][i].id = bell[u][j].id => i = j
=============================================================================
