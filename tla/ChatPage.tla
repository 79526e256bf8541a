------------------------------ MODULE ChatPage ------------------------------
(***************************************************************************)
(* The chat page of Transcendence (Chat/page.tsx) on the server of Chat:   *)
(* the conversation that a tab shows, what it believes of blocks, the      *)
(* badges of unread messages, and the buttons that follow from these.      *)
(*                                                                         *)
(* A message reaches a page with the list that it fetches when a           *)
(* conversation is selected, or as an event.  The list replaces what the   *)
(* page shows.  Answers are applied in the step of their query.            *)
(***************************************************************************)
EXTENDS Chat

CONSTANTS Away,         \* the tab is on another page
          NoOne,        \* nobody is selected
          Readers       \* bound: the tabs that ever open this page

ASSUME ReadersAssumption ==
    Readers \subseteq Tabs /\ Away \notin Users /\ NoOne \notin Users

VARIABLES selected,     \* isSelected
          shown,        \* messages: <<id, "live">> or <<id, "stored">>
          unread,       \* unreadCounts
          status,       \* blockStatus: [mine, theirs] for a user
          opened        \* history: <<u, v>> when u has opened the conversation with v

pageVars == <<selected, shown, unread, status, opened>>
vars == <<serverVars, pageVars>>

Mounted(t) == selected[t] # Away
NotBlocked == [mine |-> FALSE, theirs |-> FALSE]
ByMe == [mine |-> TRUE, theirs |-> FALSE]

TypeOK ==
    /\ ServerTypeOK
    /\ selected \in [Tabs -> Users \cup {Away, NoOne}]
    /\ shown \in [Tabs -> SUBSET (MessageIds \X {"live", "stored"})]
    /\ unread \in [Tabs -> [Users -> 0..MaxCalls]]
    /\ status \in [Tabs -> [Users -> [mine : BOOLEAN, theirs : BOOLEAN]]]
    /\ opened \subseteq Users \X Users

Init ==
    /\ ServerInit
    /\ selected = [t \in Tabs |-> Away]
    /\ shown = [t \in Tabs |-> {}]
    /\ unread = [t \in Tabs |-> [u \in Users |-> 0]]
    /\ status = [t \in Tabs |-> [u \in Users |-> NotBlocked]]
    /\ opened = {}

(***************************************************************************)
(* Opening and leaving.                                                    *)
(***************************************************************************)

\* fetchUnreadCounts and fetchBlockedUsers, that the page calls when it opens.
fetchUnreadCounts(t) == unreadMessagesCounter(Owner[t])
fetchBlockedUsers(t) ==
    [v \in Users |-> IF v \in getBlockedUsers(Owner[t]) THEN ByMe ELSE NotBlocked]

\* The page opens and registers its tab, if that is connected: its requests do
\* not need a socket.  With a user in its address it selects that one,
\* otherwise nobody.
Open(t) ==
    /\ t \in Readers /\ ~ Mounted(t)
    /\ IF t \in connected THEN Registered(t) ELSE UNCHANGED presence
    /\ selected' = [selected EXCEPT ![t] = NoOne]
    /\ unread' = [unread EXCEPT ![t] = fetchUnreadCounts(t)]
    /\ status' = [status EXCEPT ![t] = fetchBlockedUsers(t)]
    /\ UNCHANGED <<tables, calls, shown, opened>>

\* Another page: the state of this one is gone, answers that arrive are dropped.
Close(t) ==
    /\ Mounted(t)
    /\ selected' = [selected EXCEPT ![t] = Away]
    /\ shown' = [shown EXCEPT ![t] = {}]
    /\ unread' = [unread EXCEPT ![t] = [u \in Users |-> 0]]
    /\ status' = [status EXCEPT ![t] = [u \in Users |-> NotBlocked]]
    /\ UNCHANGED <<serverVars, opened>>

(***************************************************************************)
(* Selecting a conversation: fetchMessages, checkBlockStatus and the       *)
(* request that marks its messages, in any order.                          *)
(***************************************************************************)

\* handleContactSelect, or the user in the page's address.
Select(t, v) ==
    /\ Mounted(t) /\ v # Owner[t] /\ v # selected[t]
    /\ selected' = [selected EXCEPT ![t] = v]
    /\ opened' = opened \cup {<<Owner[t], v>>}
    /\ UNCHANGED <<serverVars, shown, unread, status>>

\* handleBackToContacts.
Back(t) ==
    /\ selected[t] \in Users
    /\ selected' = [selected EXCEPT ![t] = NoOne]
    /\ shown' = [shown EXCEPT ![t] = {}]
    /\ UNCHANGED <<serverVars, unread, status, opened>>

\* The list replaces what the page shows, messages that it has got as events too.
fetchMessages(t) ==
    /\ selected[t] \in Users
    /\ shown' = [shown EXCEPT ![t] =
                   {<<m.id, "stored">> : m \in getMessages(Owner[t], selected[t])}]
    /\ UNCHANGED <<serverVars, selected, unread, status, opened>>

\* Both directions are asked for, one after the other.
checkBlockStatus(t) ==
    /\ selected[t] \in Users
    /\ status' = [status EXCEPT ![t][selected[t]] =
                    [mine |-> isUserBlocked(Owner[t], selected[t]),
                     theirs |-> isUserBlocked(selected[t], Owner[t])]]
    /\ UNCHANGED <<serverVars, selected, shown, unread, opened>>

\* /api/messages/read for the selected user; the badge goes.
MarkConversation(t) ==
    /\ selected[t] \in Users
    /\ markMessageRead(selected[t], Owner[t])
    /\ unread' = [unread EXCEPT ![t][selected[t]] = 0]
    /\ UNCHANGED <<presence, blocks, notes, calls, selected, shown, status, opened>>

(***************************************************************************)
(* The buttons.                                                            *)
(***************************************************************************)

\* Neither is offered while the page believes in a block.
MayWrite(t) == selected[t] \in Users /\ status[t][selected[t]] = NotBlocked

sendMessage(t) ==
    /\ MayWrite(t)
    /\ Emit(t, selected[t], "message")
    /\ UNCHANGED pageVars

sendGameInvite(t) ==
    /\ MayWrite(t)
    /\ Emit(t, selected[t], "invite")
    /\ UNCHANGED pageVars

\* The button blocks, unless the page shows one of the two blocks.
handleBlockUser(t) ==
    /\ MayWrite(t)
    /\ \E ok \in BOOLEAN :
          /\ BlockRoute(Owner[t], selected[t], ok)
          /\ status' = IF ok THEN [status EXCEPT ![t][selected[t]] = ByMe] ELSE status
    /\ UNCHANGED <<presence, messages, notes, selected, shown, unread, opened>>

handleUnblockUser(t) ==
    /\ selected[t] \in Users /\ status[t][selected[t]].mine
    /\ \E ok \in BOOLEAN :
          /\ UnblockRoute(Owner[t], selected[t], ok)
          /\ status' = IF ok THEN [status EXCEPT ![t][selected[t]] = NotBlocked] ELSE status
    /\ UNCHANGED <<presence, messages, notes, selected, shown, unread, opened>>

(***************************************************************************)
(* A message arrives as an event: it is added to what the page shows, and  *)
(* the badges are fetched again, though the conversation may be open.      *)
(***************************************************************************)

handlePrivateMessage(i, t) == shown[t] \cup {<<calls[i].row, "live">>}

Deliver(i) ==
    /\ DeliverMessage(i)
    /\ shown' = [t \in Tabs |-> IF t \in Receivers(i) /\ Mounted(t)
                                THEN handlePrivateMessage(i, t) ELSE shown[t]]
    /\ unread' = [t \in Tabs |-> IF t \in Receivers(i) /\ Mounted(t)
                                 THEN fetchUnreadCounts(t) ELSE unread[t]]
    /\ UNCHANGED <<selected, status, opened>>

Page(t) ==
    \/ Open(t) \/ Close(t) \/ Back(t) \/ fetchMessages(t) \/ checkBlockStatus(t)
    \/ \E v \in Users : Select(t, v)
    \/ MarkConversation(t) \/ sendMessage(t) \/ sendGameInvite(t)
    \/ handleBlockUser(t) \/ handleUnblockUser(t)

Next ==
    \/ ServerNext /\ UNCHANGED pageVars
    \/ \E t \in Tabs : Page(t)
    \/ \E i \in DOMAIN calls : Deliver(i)

Spec == Init /\ [][Next]_vars

(***************************************************************************)
(* A message counts as read only when its receiver has opened the          *)
(* conversation with its sender, whichever tab asked and whenever the      *)
(* request was served (page.tsx:430, savedMessages.js:42).                 *)
(***************************************************************************)
ReadWasOpened ==
    \A m \in messages : m.read => <<m.to, m.from>> \in opened

(***************************************************************************)
(* What a page shows is stored, and it is a message of its user: a message *)
(* is stored before anybody gets it, and a failure shows nobody anything   *)
(* (socket.js:223-263).                                                    *)
(***************************************************************************)
ShownIsStored ==
    \A t \in Tabs : \A s \in shown[t] :
        \E m \in messages : m.id = s[1] /\ Owner[t] \in {m.from, m.to}

(***************************************************************************)
(* Pages and the table of messages tell the same story (page.tsx:312, 426).*)
(***************************************************************************)
PagesMatchMessages == ReadWasOpened /\ ShownIsStored
=============================================================================
