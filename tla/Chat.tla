-------------------------------- MODULE Chat --------------------------------
(***************************************************************************)
(* The chat server of Transcendence: the tables Messages and BlockedUsers  *)
(* with the queries on them, and the two events that a browser sends,      *)
(* privateMessage and gameInvite (chat/socket.js, chat/savedMessages.js,   *)
(* models/blockModel.js).  Who is online is in Presence.                   *)
(*                                                                         *)
(* The handler of an event is cut where it awaits the database, so that    *)
(* the handlers of several events, blocks and disconnections interleave.   *)
(* The events that reach a tab are in ChatPage.                            *)
(***************************************************************************)
EXTENDS Presence, Sequences, FiniteSets

CONSTANTS MaxCalls,     \* bound on the events ever sent
          PageSize      \* the messages that getMessages returns at most, 50

ASSUME SizesAssumption == MaxCalls \in Nat /\ PageSize \in Nat \ {0}

VARIABLES blocks,       \* BlockedUsers: <<blocker, blocked>>
          messages,     \* Messages: [id, from, to, read]
          notes,        \* the calls that stored a notification
          calls         \* the handlers: [kind, tab, from, to, at, row, answers, barred]

tables == <<blocks, messages, notes>>
serverVars == <<presence, tables, calls>>

Stages == {"check", "save", "sender", "receiver", "note", "push", "done"}
MessageIds == 1..MaxCalls

ServerTypeOK ==
    /\ PresenceTypeOK
    /\ blocks \subseteq Users \X Users
    /\ messages \subseteq [id : MessageIds, from : Users, to : Users, read : BOOLEAN]
    /\ notes \subseteq 1..MaxCalls
    /\ \A i \in DOMAIN calls :
          calls[i] \in [kind : {"message", "invite"}, tab : Tabs \cup {NoTab}, from : Users,
                        to : Users, at : Stages, row : {0} \cup MessageIds,
                        answers : 0..1, barred : BOOLEAN]

ServerInit ==
    /\ PresenceInit
    /\ blocks = {} /\ messages = {} /\ notes = {} /\ calls = <<>>

\* The handlers of the tab's events go on; what they emit to it is lost.
Closed(t) ==
    /\ Disconnect(t) \/ DisconnectInLobby(t)
    /\ calls' = [i \in DOMAIN calls |->
                    IF calls[i].tab = t THEN [calls[i] EXCEPT !.tab = NoTab] ELSE calls[i]]
    /\ UNCHANGED tables

(***************************************************************************)
(* The queries.                                                            *)
(***************************************************************************)

isUserBlocked(u, v) == <<u, v>> \in blocks
getBlockedUsers(u) == {v \in Users : isUserBlocked(u, v)}
\* fault: only the blocks of the sender count
BlockedBySender(u, v) == isUserBlocked(u, v)
areUsersBlocked(u, v) == isUserBlocked(u, v) \/ isUserBlocked(v, u)

Conversation(u, v) == {m \in messages : {m.from, m.to} = {u, v}}
\* The first PageSize messages in the order of their time.
getMessages(u, v) ==
    {m \in Conversation(u, v) :
        Cardinality({k \in Conversation(u, v) : k.id < m.id}) < PageSize}
unreadMessagesCounter(v) ==
    [u \in Users |-> Cardinality({m \in messages : m.from = u /\ m.to = v /\ ~ m.read})]

markMessageRead(sender, reader) ==
    messages' = {IF m.from = sender /\ m.to = reader THEN [m EXCEPT !.read = TRUE] ELSE m : m \in messages}

\* blockUser and unblockUser: whether the row was inserted or deleted.
\* (blocker_id, blocked_id) is unique and nobody blocks itself.
CanBlock(u, v) == u # v /\ ~ isUserBlocked(u, v)
blockUser(u, v) == blocks' = blocks \cup {<<u, v>>}
unblockUser(u, v) == blocks' = blocks \ {<<u, v>>}

(***************************************************************************)
(* The routes POST and DELETE /api/block.  One query each; a row that is   *)
(* there, or not there, makes it an error.                                 *)
(***************************************************************************)

BlockRoute(u, v, ok) ==
    /\ ok = CanBlock(u, v)
    /\ IF ok THEN blockUser(u, v) ELSE UNCHANGED blocks
    /\ UNCHANGED calls

\* History: a call is barred as long as there has been a block since it was sent.
BlockStands(u, v) == {<<u, v>>, <<v, u>>} \cap blocks # {}
UnblockRoute(u, v, ok) ==
    /\ ok = isUserBlocked(u, v)
    /\ unblockUser(u, v)
    /\ calls' = [i \in DOMAIN calls |->
                    [calls[i] EXCEPT !.barred =
                        @ /\ ~ ({calls[i].from, calls[i].to} = {u, v} /\ ~ isUserBlocked(v, u))]]

(***************************************************************************)
(* The handlers of privateMessage and gameInvite.                          *)
(***************************************************************************)

Pending(i, stage) == i \in DOMAIN calls /\ calls[i].at = stage
Goes(i, stage) == calls' = [calls EXCEPT ![i].at = stage]
Answers(i) ==
    calls' = [calls EXCEPT ![i].at = "done", ![i].answers = calls[i].answers + 1]

\* Up to areUsersBlocked.  A socket without a user, whose invitation would be
\* refused, is not kept.
Emit(t, to, kind) ==
    /\ t \in connected /\ Len(calls) < MaxCalls
    /\ calls' = Append(calls,
            [kind |-> kind, tab |-> t, from |-> Owner[t], to |-> to, at |-> "check",
             row |-> 0, answers |-> 0, barred |-> BlockStands(Owner[t], to)])
    /\ UNCHANGED <<presence, tables>>

\* messageBlocked or gameInviteError goes to the sender when there is a block.
CheckBlock(i) ==
    /\ Pending(i, "check")
    /\ IF areUsersBlocked(calls[i].from, calls[i].to) THEN Answers(i)
       ELSE Goes(i, IF calls[i].kind = "message" THEN "save" ELSE "sender")
    /\ UNCHANGED <<presence, tables>>

\* savedMessages.
Save(i) ==
    /\ Pending(i, "save")
    /\ LET id == Cardinality(messages) + 1
       IN /\ messages' = messages \cup
                {[id |-> id, from |-> calls[i].from, to |-> calls[i].to, read |-> FALSE]}
          /\ calls' = [calls EXCEPT ![i].at = "sender", ![i].row = id]
    /\ UNCHANGED <<presence, blocks, notes>>

\* getUserById of the sender, and of the receiver of an invitation, that is
\* found unless the account has been deleted.
FindSender(i) ==
    /\ Pending(i, "sender")
    /\ Goes(i, IF calls[i].kind = "message" THEN "note" ELSE "receiver")
    /\ UNCHANGED <<presence, tables>>
FindReceiver(i) ==
    /\ Pending(i, "receiver")
    /\ Goes(i, "note")
    /\ UNCHANGED <<presence, tables>>

\* createNotification.
StoreNotification(i) ==
    /\ Pending(i, "note")
    /\ notes' = notes \cup {i}
    /\ Goes(i, "push")
    /\ UNCHANGED <<presence, blocks, messages>>

\* An error before the message is stored ends its handler without an
\* answer; one of an invitation, or a user not found, is reported.
FailsEarly(i) ==
    /\ Pending(i, "check") \/ Pending(i, "save")
    /\ IF calls[i].kind = "message" THEN Goes(i, "done") ELSE Answers(i)
    /\ UNCHANGED <<presence, tables>>
InviteFails(i) ==
    /\ \E stage \in {"sender", "receiver", "note", "push"} : Pending(i, stage)
    /\ calls[i].kind = "invite"
    /\ Answers(i)
    /\ UNCHANGED <<presence, tables>>

\* The end of both handlers: gameInviteSent, or the message for the sender.
\* A message gets there also when its notification could not be made.
InviteSent(i) ==
    /\ Pending(i, "push") /\ calls[i].kind = "invite"
    /\ Answers(i)
    /\ UNCHANGED <<presence, tables>>

\* fault: a failed notification ends the handler
DeliverNotified(i) ==
    /\ Pending(i, "push") \/ Pending(i, "sender") \/ Pending(i, "note")
    /\ calls[i].kind = "message"
    /\ IF Pending(i, "push") THEN Answers(i) ELSE Goes(i, "done")
    /\ UNCHANGED <<presence, tables>>
\* fault: delivered before it is stored
DeliverFirst(i) ==
    /\ Pending(i, "save")
    /\ Answers(i)
    /\ UNCHANGED <<presence, tables>>
DeliverMessage(i) ==
    /\ Pending(i, "push") \/ Pending(i, "sender") \/ Pending(i, "note")
    /\ calls[i].kind = "message"
    /\ Answers(i)
    /\ UNCHANGED <<presence, tables>>

\* What a handler does next, its database answering or not.
Handler(i) ==
    \/ CheckBlock(i) \/ Save(i) \/ FindSender(i) \/ FindReceiver(i)
    \/ StoreNotification(i) \/ FailsEarly(i) \/ InviteFails(i) \/ InviteSent(i)

\* The tabs that get a message: the one that onlineUsers names, and the sender's.
Receivers(i) == {online[calls[i].to], calls[i].tab} \cap connected

ServerNext ==
    \/ \E t \in Tabs :
          /\ Connect(t, TRUE) \/ Connect(t, FALSE) \/ Removed(t) \/ Register(t)
          /\ UNCHANGED <<tables, calls>>
    \/ \E t \in Tabs : Closed(t)
    \/ \E i \in DOMAIN calls : Handler(i)

(***************************************************************************)
(* A block holds: what was sent when a block stood, in either direction,   *)
(* and has been blocked ever since, is neither stored nor notified         *)
(* (socket.js:212 and 285, both decided after an await).                   *)
(***************************************************************************)
BlockHolds ==
    \A i \in DOMAIN calls : calls[i].barred => calls[i].row = 0 /\ i \notin notes

(***************************************************************************)
(* Every handler answers its sender once: an invitation always, a message  *)
(* when it is stored, whatever fails in between (socket.js:264, 344).      *)
(***************************************************************************)
OneAnswer ==
    \A i \in DOMAIN calls : calls[i].at = "done" =>
        (calls[i].kind = "invite" \/ calls[i].row # 0 => calls[i].answers = 1)
=============================================================================
