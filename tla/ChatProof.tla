------------------------------ MODULE ChatProof ------------------------------
(***************************************************************************)
(* Theorems about Presence, Chat, ChatPage and LogTime for all users, tabs *)
(* and bounds.                                                             *)
(***************************************************************************)
EXTENDS ChatPage, LogTime, FiniteSetTheorems, SequenceTheorems, WellFoundedInduction, TLAPS

(***************************************************************************)
(* Presence.                                                               *)
(***************************************************************************)

\* A tab stands only for its user, and a tab that is connected was accepted:
\* it is the socket of its user's Player.
PresenceInv ==
    /\ PresenceTypeOK
    /\ \A u \in Users :
          /\ latest[u] # NoTab => Owner[latest[u]] = u
          /\ online[u] # NoTab => Owner[online[u]] = u
    /\ \A t \in connected : players[Owner[t]] = t
    /\ NewestIsOnline

PresenceNext ==
    \E t \in Tabs :
        \/ Connect(t, TRUE) \/ Connect(t, FALSE) \/ Register(t)
        \/ Disconnect(t) \/ DisconnectInLobby(t) \/ Removed(t)

LEMMA PresenceStart == PresenceInit => PresenceInv
  BY TabsAssumption DEF PresenceInit, PresenceInv, PresenceTypeOK, NewestIsOnline

LEMMA ConnectKeeps ==
    ASSUME PresenceInv, NEW t \in Tabs, NEW valid \in BOOLEAN, Connect(t, valid)
    PROVE  PresenceInv'
<1>1. CASE valid /\ Accepted(t)
  BY <1>1, TabsAssumption
     DEF Connect, Accepted, PresenceInv, PresenceTypeOK, NewestIsOnline
<1>2. CASE valid /\ ~ Accepted(t)
  BY <1>2, TabsAssumption
     DEF Connect, Accepted, PresenceInv, PresenceTypeOK, NewestIsOnline
<1>3. CASE ~ valid
  BY <1>3, TabsAssumption
     DEF Connect, PresenceInv, PresenceTypeOK, NewestIsOnline
<1> QED BY <1>1, <1>2, <1>3

LEMMA RegisterKeeps ==
    ASSUME PresenceInv, NEW t \in connected, Registered(t) PROVE PresenceInv'
  BY TabsAssumption DEF Registered, PresenceInv, PresenceTypeOK, NewestIsOnline

LEMMA HangUpKeeps ==
    ASSUME PresenceInv, NEW t \in Tabs, Disconnect(t) \/ DisconnectInLobby(t)
    PROVE  PresenceInv'
<1>1. /\ t \in connected /\ connected' = connected \ {t} /\ latest' = latest
      /\ online' = [u \in Users |-> IF online[u] = t THEN NoTab ELSE online[u]]
      /\ players' = players \/ players' = [players EXCEPT ![Owner[t]] = NoTab]
  BY DEF Disconnect, DisconnectInLobby, HangUp, Offline
<1>2. \A s \in connected' : Owner[s] # Owner[t] /\ players'[Owner[s]] = s
  BY <1>1, TabsAssumption DEF PresenceInv, PresenceTypeOK
<1> QED BY <1>1, <1>2, TabsAssumption DEF PresenceInv, PresenceTypeOK, NewestIsOnline

LEMMA RemovedKeeps ==
    ASSUME PresenceInv, NEW t \in Tabs, Removed(t) PROVE PresenceInv'
  BY TabsAssumption DEF Removed, PresenceInv, PresenceTypeOK, NewestIsOnline

LEMMA PresenceStep == PresenceInv /\ [PresenceNext]_presence => PresenceInv'
<1> SUFFICES ASSUME PresenceInv, [PresenceNext]_presence PROVE PresenceInv'
  OBVIOUS
<1>1. CASE PresenceNext
  BY <1>1, ConnectKeeps, RegisterKeeps, HangUpKeeps, RemovedKeeps
     DEF PresenceNext, Register
<1>2. CASE UNCHANGED presence
  BY <1>2 DEF presence, PresenceInv, PresenceTypeOK, NewestIsOnline
<1> QED BY <1>1, <1>2

LEMMA PlayersOnline == PresenceInv => OnlineCanPlay
  BY TabsAssumption DEF PresenceInv, PresenceTypeOK, NewestIsOnline, OnlineCanPlay

\* No step of the chat or of its page moves a socket in another way.
LEMMA ChatIsPresence == [Next]_vars => [PresenceNext]_presence
<1> USE DEF presence
<1>1. ASSUME ServerNext PROVE [PresenceNext]_presence
  BY <1>1 DEF ServerNext, Closed, PresenceNext, Handler, CheckBlock, Save, FindSender,
     FindReceiver, StoreNotification, FailsEarly, InviteFails, InviteSent
<1>2. ASSUME NEW t \in Tabs, Page(t) PROVE [PresenceNext]_presence
  BY <1>2 DEF Page, Open, Close, Back, fetchMessages, checkBlockStatus, Select,
     MarkConversation, sendMessage, sendGameInvite, Emit, handleBlockUser,
     handleUnblockUser, PresenceNext, Register, serverVars
<1>3. ASSUME NEW i \in DOMAIN calls, Deliver(i) PROVE [PresenceNext]_presence
  BY <1>3 DEF Deliver, DeliverMessage
<1>4. UNCHANGED vars => UNCHANGED presence
  BY DEF vars, serverVars
<1> QED BY <1>1, <1>2, <1>3, <1>4 DEF Next

THEOREM ChatPresence == Spec => []PresenceInv
<1>1. Init => PresenceInv
  BY PresenceStart DEF Init, ServerInit
<1>2. PresenceInv /\ [Next]_vars => PresenceInv'
  BY PresenceStep, ChatIsPresence
<1> QED BY <1>1, <1>2, PTL DEF Spec

(***************************************************************************)
(* The entry of a user in onlineUsers is its newest connected tab.         *)
(***************************************************************************)
THEOREM ChatNewestIsOnline == Spec => []NewestIsOnline
<1>1. PresenceInv => NewestIsOnline
  BY DEF PresenceInv
<1> QED BY <1>1, ChatPresence, PTL

(***************************************************************************)
(* Who is shown online has its Player on the same connected socket.        *)
(***************************************************************************)
THEOREM ChatOnlineCanPlay == Spec => []OnlineCanPlay
  BY PlayersOnline, ChatPresence, PTL

(***************************************************************************)
(* The handlers.                                                           *)
(***************************************************************************)

Calls == [kind : {"message", "invite"}, tab : Tabs \cup {NoTab}, from : Users,
          to : Users, at : Stages, row : Nat, answers : Nat, barred : BOOLEAN]

\* The progress of call i, which is c: what it has stored, and whom it answered.
CallOK(c, i) ==
    /\ c.tab # NoTab => Owner[c.tab] = c.from
    /\ c.at \in {"check", "save"} => c.row = 0
    /\ c.kind = "message" /\ c.at \in {"sender", "note", "push"} => c.row # 0
    /\ c.kind = "message" => c.at # "receiver"
    /\ c.at # "done" => c.answers = 0
    /\ c.at = "done" /\ (c.kind = "invite" \/ c.row # 0) => c.answers = 1
    /\ c.row # 0 => \E m \in messages : m.id = c.row /\ m.from = c.from /\ m.to = c.to
    /\ c.barred => /\ c.row = 0 /\ i \notin notes /\ c.at \in {"check", "done"}
                   /\ BlockStands(c.from, c.to)

TablesOK ==
    /\ messages \subseteq [id : Nat, from : Users, to : Users, read : BOOLEAN]
    /\ IsFiniteSet(messages)
    /\ \A u \in Users : <<u, u>> \notin blocks
    /\ calls \in Seq(Calls)
    /\ notes \subseteq DOMAIN calls

CallsInv == TablesOK /\ \A i \in DOMAIN calls : CallOK(calls[i], i)

LEMMA AppendCall ==
    ASSUME CallsInv, NEW c \in Calls, calls' = Append(calls, c), UNCHANGED tables,
           CallOK(c, Len(calls) + 1)
    PROVE  CallsInv'
<1>1. /\ calls' \in Seq(Calls) /\ DOMAIN calls' = 1..(Len(calls) + 1)
      /\ DOMAIN calls = 1..Len(calls) /\ Len(calls) \in Nat
      /\ calls'[Len(calls) + 1] = c
      /\ \A j \in DOMAIN calls : calls'[j] = calls[j]
  BY DEF CallsInv, TablesOK
<1>2. \A d, j : CallOK(d, j)' <=> CallOK(d, j)
  BY DEF CallOK, tables, BlockStands
<1>3. TablesOK'
  BY <1>1 DEF CallsInv, TablesOK, tables
<1>4. \A i \in DOMAIN calls' : CallOK(calls'[i], i)
  BY <1>1 DEF CallsInv
<1> QED BY <1>2, <1>3, <1>4 DEF CallsInv

\* One call goes on, and what it does to the tables leaves the others right.
LEMMA ChangeCall ==
    ASSUME CallsInv, NEW i \in DOMAIN calls, NEW d \in Calls,
           calls' = [calls EXCEPT ![i] = d],
           messages' \subseteq [id : Nat, from : Users, to : Users, read : BOOLEAN],
           IsFiniteSet(messages'), messages \subseteq messages',
           notes' = notes \/ (notes' = notes \cup {i} /\ ~ d.barred),
           blocks' = blocks,
           CallOK(d, i)'
    PROVE  CallsInv'
<1>1. calls' \in Seq(Calls) /\ DOMAIN calls' = DOMAIN calls /\ calls'[i] = d
  BY DEF CallsInv, TablesOK
<1>2. \A j \in DOMAIN calls : j # i => calls'[j] = calls[j]
  BY DEF CallsInv, TablesOK
<1>3. TablesOK'
  BY <1>1 DEF CallsInv, TablesOK
<1>4. \A c : \A j \in DOMAIN calls \ {i} : CallOK(c, j) => CallOK(c, j)'
  BY DEF CallOK, BlockStands
<1>5. \A j \in DOMAIN calls : CallOK(calls[j], j)
  BY DEF CallsInv
<1>6. ASSUME NEW j \in DOMAIN calls' PROVE CallOK(calls[j], j)'
  BY <1>1, <1>2, <1>4, <1>5 DEF CallOK
<1> QED BY <1>3, <1>6 DEF CallsInv

\* Call c at another stage, with a row and a number of answers.
Moved(c, stage, row, answers) ==
    [kind |-> c.kind, tab |-> c.tab, from |-> c.from, to |-> c.to, at |-> stage,
     row |-> row, answers |-> answers, barred |-> c.barred]

LEMMA MovedIsCall ==
    ASSUME NEW c \in Calls, NEW stage \in Stages, NEW row \in Nat, NEW answers \in Nat
    PROVE  Moved(c, stage, row, answers) \in Calls
  BY DEF Calls, Moved

LEMMA GoesMoves ==
    ASSUME CallsInv, NEW i \in DOMAIN calls, NEW stage, Goes(i, stage)
    PROVE  calls' = [calls EXCEPT ![i] = Moved(calls[i], stage, calls[i].row, calls[i].answers)]
<1>1. calls[i] \in Calls
  BY DEF CallsInv, TablesOK
<1>2. [calls[i] EXCEPT !.at = stage] = Moved(calls[i], stage, calls[i].row, calls[i].answers)
  BY <1>1 DEF Calls, Moved
<1> QED BY <1>2 DEF Goes

LEMMA AnswersMoves ==
    ASSUME CallsInv, NEW i \in DOMAIN calls, Answers(i)
    PROVE  calls' = [calls EXCEPT ![i] = Moved(calls[i], "done", calls[i].row, calls[i].answers + 1)]
<1>1. calls[i] \in Calls
  BY DEF CallsInv, TablesOK
<1> DEFINE c == Moved(calls[i], "done", calls[i].row, calls[i].answers)
<1>2. [calls[i] EXCEPT !.at = "done"] = c
  BY <1>1 DEF Calls, Moved
<1>3. [c EXCEPT !.answers = calls[i].answers + 1]
        = Moved(calls[i], "done", calls[i].row, calls[i].answers + 1)
  BY <1>1 DEF Calls, Moved
<1>4. calls' = [calls EXCEPT ![i] = [[@ EXCEPT !.at = "done"] EXCEPT !.answers = calls[i].answers + 1]]
  BY <1>1 DEF Answers, CallsInv, TablesOK
<1> QED BY <1>2, <1>3, <1>4

\* A handler that goes to another stage, or answers, and stores nothing.
LEMMA GoesKeeps ==
    ASSUME CallsInv, NEW i \in DOMAIN calls, NEW stage \in Stages, Goes(i, stage),
           UNCHANGED tables,
           CallOK(Moved(calls[i], stage, calls[i].row, calls[i].answers), i)
    PROVE  CallsInv'
<1>1. calls[i] \in Calls
  BY DEF CallsInv, TablesOK
<1>2. PICK d \in Calls : d = Moved(calls[i], stage, calls[i].row, calls[i].answers)
  BY <1>1, MovedIsCall DEF Calls
<1>3. CallOK(d, i)'
  BY <1>2 DEF CallOK, BlockStands, tables
<1>4. calls' = [calls EXCEPT ![i] = d]
  BY <1>2, GoesMoves
<1>5. messages' = messages /\ notes' = notes /\ blocks' = blocks
  BY DEF tables
<1> QED BY <1>3, <1>4, <1>5, ChangeCall DEF CallsInv, TablesOK

LEMMA AnswersKeeps ==
    ASSUME CallsInv, NEW i \in DOMAIN calls, calls[i].at # "done", Answers(i),
           UNCHANGED tables
    PROVE  CallsInv'
<1>1. calls[i] \in Calls /\ CallOK(calls[i], i)
  BY DEF CallsInv, TablesOK
<1>2. PICK d \in Calls : d = Moved(calls[i], "done", calls[i].row, calls[i].answers + 1)
  <2>1. calls[i].row \in Nat /\ calls[i].answers + 1 \in Nat /\ "done" \in Stages
    BY <1>1 DEF Calls, Stages
  <2> QED BY <1>1, <2>1, MovedIsCall
<1>3. CallOK(d, i)'
  BY <1>1, <1>2 DEF CallOK, BlockStands, tables, Moved, Calls, Stages
<1>4. calls' = [calls EXCEPT ![i] = d]
  BY <1>2, AnswersMoves
<1>5. messages' = messages /\ notes' = notes /\ blocks' = blocks
  BY DEF tables
<1> QED BY <1>3, <1>4, <1>5, ChangeCall DEF CallsInv, TablesOK

LEMMA CheckKeeps == ASSUME CallsInv, NEW i \in DOMAIN calls, CheckBlock(i) PROVE CallsInv'
<1>1. calls[i] \in Calls /\ CallOK(calls[i], i)
  BY DEF CallsInv, TablesOK
<1>2. CASE areUsersBlocked(calls[i].from, calls[i].to)
  BY <1>2, AnswersKeeps DEF CheckBlock, Pending
<1>3. CASE ~ areUsersBlocked(calls[i].from, calls[i].to)
  <2>1. ~ calls[i].barred
    BY <1>1, <1>3 DEF CallOK, BlockStands, areUsersBlocked, isUserBlocked
  <2>2. PICK stage \in {"save", "sender"} :
           Goes(i, stage) /\ (calls[i].kind = "message" => stage = "save")
    BY <1>3 DEF CheckBlock
  <2>3. CallOK(Moved(calls[i], stage, calls[i].row, calls[i].answers), i)
    BY <1>1, <2>1, <2>2 DEF CallOK, Moved, CheckBlock, Pending
  <2> QED BY <2>2, <2>3, GoesKeeps DEF CheckBlock, Stages
<1> QED BY <1>2, <1>3

LEMMA SaveKeeps == ASSUME CallsInv, NEW i \in DOMAIN calls, Save(i) PROVE CallsInv'
<1> DEFINE id == Cardinality(messages) + 1
<1>1. calls[i] \in Calls /\ CallOK(calls[i], i) /\ calls[i].at = "save"
  BY DEF CallsInv, TablesOK, Save, Pending
<1>2. id \in Nat /\ id # 0
  BY FS_CardinalityType DEF CallsInv, TablesOK
<1>3. PICK m : m = [id |-> id, from |-> calls[i].from, to |-> calls[i].to, read |-> FALSE]
  OBVIOUS
<1>4. /\ messages' = messages \cup {m}
      /\ calls' = [calls EXCEPT ![i] = [[calls[i] EXCEPT !.at = "sender"] EXCEPT !.row = id]]
      /\ notes' = notes /\ blocks' = blocks
  BY <1>1, <1>3 DEF Save, CallsInv, TablesOK
<1>5. PICK d \in Calls : d = Moved(calls[i], "sender", id, calls[i].answers)
  <2>1. "sender" \in Stages /\ calls[i].answers \in Nat
    BY <1>1 DEF Calls, Stages
  <2> QED BY <1>1, <1>2, <2>1, MovedIsCall
<1>6. calls' = [calls EXCEPT ![i] = d]
  <2> DEFINE c == Moved(calls[i], "sender", calls[i].row, calls[i].answers)
  <2>1. [calls[i] EXCEPT !.at = "sender"] = c
    BY <1>1 DEF Calls, Moved
  <2>2. [c EXCEPT !.row = id] = d
    BY <1>5 DEF Moved
  <2> HIDE DEF id, c
  <2> QED BY <1>4, <2>1, <2>2
<1>7. CallOK(d, i)'
  BY <1>1, <1>2, <1>3, <1>4, <1>5 DEF CallOK, Moved
<1>8. /\ messages' \subseteq [id : Nat, from : Users, to : Users, read : BOOLEAN]
      /\ messages \subseteq messages'
  <2> HIDE DEF id
  <2>1. m \in [id : Nat, from : Users, to : Users, read : BOOLEAN]
    BY <1>1, <1>2, <1>3 DEF Calls
  <2> QED BY <1>4, <2>1 DEF CallsInv, TablesOK
<1>9. IsFiniteSet(messages')
  BY <1>4, FS_AddElement DEF CallsInv, TablesOK
<1> QED BY <1>4, <1>6, <1>7, <1>8, <1>9, ChangeCall

LEMMA FindKeeps ==
    ASSUME CallsInv, NEW i \in DOMAIN calls, FindSender(i) \/ FindReceiver(i) PROVE CallsInv'
<1>1. calls[i] \in Calls /\ CallOK(calls[i], i)
  BY DEF CallsInv, TablesOK
<1>2. PICK stage \in {"note", "receiver"} :
         Goes(i, stage) /\ (calls[i].kind = "message" => stage = "note")
  BY <1>1 DEF FindSender, FindReceiver
<1>3. calls[i].at \in {"sender", "receiver"} /\ UNCHANGED tables
  BY DEF FindSender, FindReceiver, Pending
<1>4. CallOK(Moved(calls[i], stage, calls[i].row, calls[i].answers), i)
  BY <1>1, <1>2, <1>3 DEF CallOK, Moved
<1> QED BY <1>2, <1>3, <1>4, GoesKeeps DEF Stages

LEMMA NoteKeeps ==
    ASSUME CallsInv, NEW i \in DOMAIN calls, StoreNotification(i) PROVE CallsInv'
<1>1. calls[i] \in Calls /\ CallOK(calls[i], i) /\ calls[i].at = "note"
  BY DEF CallsInv, TablesOK, StoreNotification, Pending
<1>2. /\ notes' = notes \cup {i} /\ messages' = messages /\ blocks' = blocks
      /\ Goes(i, "push")
  BY DEF StoreNotification
<1>3. PICK d \in Calls : d = Moved(calls[i], "push", calls[i].row, calls[i].answers)
  BY <1>1, MovedIsCall DEF Calls, Stages
<1>4. CallOK(d, i)' /\ ~ d.barred
  BY <1>1, <1>2, <1>3 DEF CallOK, Moved
<1>5. calls' = [calls EXCEPT ![i] = d]
  BY <1>2, <1>3, GoesMoves
<1> QED BY <1>2, <1>4, <1>5, ChangeCall DEF CallsInv, TablesOK

LEMMA EndKeeps ==
    ASSUME CallsInv, NEW i \in DOMAIN calls,
           FailsEarly(i) \/ InviteFails(i) \/ InviteSent(i) \/ DeliverMessage(i)
    PROVE  CallsInv'
<1>1. calls[i] \in Calls /\ CallOK(calls[i], i)
  BY DEF CallsInv, TablesOK
<1>2. UNCHANGED tables /\ calls[i].at # "done"
  BY DEF FailsEarly, InviteFails, InviteSent, DeliverMessage, Pending
<1>3. CASE Answers(i)
  BY <1>2, <1>3, AnswersKeeps
<1>4. CASE FailsEarly(i) /\ calls[i].kind = "message" /\ Goes(i, "done")
  <2>1. CallOK(Moved(calls[i], "done", calls[i].row, calls[i].answers), i)
    BY <1>1, <1>4 DEF CallOK, Moved, FailsEarly, Pending
  <2> QED BY <1>2, <1>4, <2>1, GoesKeeps DEF Stages
<1> QED BY <1>3, <1>4 DEF FailsEarly, InviteFails, InviteSent, DeliverMessage

LEMMA HandlerKeeps == ASSUME CallsInv, NEW i, Handler(i) PROVE CallsInv'
<1>1. i \in DOMAIN calls
  BY DEF Handler, CheckBlock, Save, FindSender, FindReceiver, StoreNotification,
         FailsEarly, InviteFails, InviteSent, Pending
<1> QED BY <1>1, CheckKeeps, SaveKeeps, FindKeeps, NoteKeeps, EndKeeps DEF Handler

(***************************************************************************)
(* Events of the tabs.                                                     *)
(***************************************************************************)

LEMMA EmitKeeps ==
    ASSUME CallsInv, PresenceInv, NEW t \in Tabs, NEW v \in Users,
           NEW kind \in {"message", "invite"}, Emit(t, v, kind)
    PROVE  CallsInv'
<1>1. PICK c : c = [kind |-> kind, tab |-> t, from |-> Owner[t], to |-> v, at |-> "check",
                    row |-> 0, answers |-> 0, barred |-> BlockStands(Owner[t], v)]
  OBVIOUS
<1>2. c \in Calls
  <2>1. Owner[t] \in Users /\ BlockStands(Owner[t], v) \in BOOLEAN /\ "check" \in Stages
    BY TabsAssumption DEF BlockStands, Stages
  <2> QED BY <1>1, <2>1 DEF Calls
<1>3. calls' = Append(calls, c) /\ UNCHANGED tables
  BY <1>1 DEF Emit
<1>4. Len(calls) + 1 \notin notes
  BY DEF CallsInv, TablesOK
<1>5. CallOK(c, Len(calls) + 1)
  BY <1>1, <1>4 DEF CallOK
<1> QED BY <1>2, <1>3, <1>5, AppendCall

LEMMA ClosedKeeps == ASSUME CallsInv, NEW t \in Tabs, Closed(t) PROVE CallsInv'
<1>1. /\ calls' = [i \in DOMAIN calls |-> IF calls[i].tab = t
                                          THEN [calls[i] EXCEPT !.tab = NoTab] ELSE calls[i]]
      /\ messages' = messages /\ notes' = notes /\ blocks' = blocks
  BY DEF Closed, tables
<1>2. ASSUME NEW i \in DOMAIN calls
      PROVE  /\ calls'[i] \in Calls
             /\ CallOK(calls[i], i) => CallOK(calls[i], i)'
  <2>1. calls[i] \in Calls
    BY DEF CallsInv, TablesOK
  <2>2. PICK d : d = calls'[i]
    OBVIOUS
  <2>3. CASE calls[i].tab = t
    <3>1. d = [kind |-> calls[i].kind, tab |-> NoTab, from |-> calls[i].from, to |-> calls[i].to,
               at |-> calls[i].at, row |-> calls[i].row, answers |-> calls[i].answers,
               barred |-> calls[i].barred]
      BY <1>1, <2>1, <2>2, <2>3 DEF Calls
    <3>2. d \in Calls
      BY <2>1, <3>1 DEF Calls
    <3>3. CallOK(calls[i], i) => CallOK(d, i)'
      BY <1>1, <3>1 DEF CallOK, BlockStands
    <3> QED BY <2>2, <3>2, <3>3 DEF CallOK
  <2>4. CASE calls[i].tab # t
    <3>1. d = calls[i]
      BY <1>1, <2>2, <2>4
    <3>2. CallOK(calls[i], i) => CallOK(d, i)'
      BY <1>1, <3>1 DEF CallOK, BlockStands
    <3> QED BY <2>1, <2>2, <3>1, <3>2 DEF CallOK
  <2> QED BY <2>3, <2>4
<1>3. calls' \in Seq(Calls) /\ DOMAIN calls' = DOMAIN calls
  <2>1. DOMAIN calls = 1..Len(calls) /\ Len(calls) \in Nat
    BY DEF CallsInv, TablesOK
  <2> QED BY <1>1, <1>2, <2>1
<1> QED BY <1>1, <1>2, <1>3 DEF CallsInv, TablesOK

LEMMA BlockKeeps ==
    ASSUME CallsInv, NEW u \in Users, NEW v \in Users, NEW ok, BlockRoute(u, v, ok),
           UNCHANGED <<messages, notes>>
    PROVE  CallsInv'
<1>1. calls' = calls /\ blocks \subseteq blocks' /\ \A w \in Users : <<w, w>> \notin blocks'
  <2>1. CASE u # v /\ blocks' = blocks \cup {<<u, v>>}
    BY <2>1 DEF BlockRoute, CallsInv, TablesOK
  <2>2. CASE blocks' = blocks
    BY <2>2 DEF BlockRoute, CallsInv, TablesOK
  <2> QED BY <2>1, <2>2 DEF BlockRoute, CanBlock, blockUser
<1>2. \A c, i : CallOK(c, i) => CallOK(c, i)'
  BY <1>1 DEF CallOK, BlockStands
<1>3. ASSUME NEW i \in DOMAIN calls' PROVE CallOK(calls[i], i)'
  BY <1>1, <1>2 DEF CallsInv, CallOK
<1> QED BY <1>1, <1>3 DEF CallsInv, TablesOK

\* When a pair is no longer blocked, neither are its calls barred.
LEMMA UnblockKeeps ==
    ASSUME CallsInv, NEW u \in Users, NEW v \in Users, NEW ok, UnblockRoute(u, v, ok),
           UNCHANGED <<messages, notes>>
    PROVE  CallsInv'
<1>1. blocks' = blocks \ {<<u, v>>} /\ messages' = messages /\ notes' = notes
  BY DEF UnblockRoute, unblockUser
<1>2. ASSUME NEW i \in DOMAIN calls
      PROVE  calls'[i] \in Calls /\ CallOK(calls[i], i)'
  <2>1. calls[i] \in Calls /\ CallOK(calls[i], i)
    BY DEF CallsInv, TablesOK
  <2>2. PICK d : d = calls'[i]
    OBVIOUS
  <2> DEFINE freed == {calls[i].from, calls[i].to} = {u, v} /\ ~ isUserBlocked(v, u)
  <2>3. d = [calls[i] EXCEPT !.barred = calls[i].barred /\ ~ freed]
    BY <2>2 DEF UnblockRoute
  <2>4. d \in Calls /\ (d.barred => calls[i].barred /\ ~ freed)
    BY <2>1, <2>3 DEF Calls
  <2>5. /\ d.kind = calls[i].kind /\ d.tab = calls[i].tab /\ d.from = calls[i].from
        /\ d.to = calls[i].to /\ d.at = calls[i].at /\ d.row = calls[i].row
        /\ d.answers = calls[i].answers
    BY <2>1, <2>3 DEF Calls
  <2>6. d.barred => BlockStands(d.from, d.to)'
    <3> SUFFICES ASSUME d.barred PROVE BlockStands(d.from, d.to)'
      OBVIOUS
    <3>1. <<d.from, d.to>> \in blocks \/ <<d.to, d.from>> \in blocks
      BY <2>1, <2>4, <2>5 DEF CallOK, BlockStands
    <3>2. CASE {d.from, d.to} # {u, v}
      BY <1>1, <3>1, <3>2 DEF BlockStands
    <3>3. CASE {d.from, d.to} = {u, v} /\ <<v, u>> \in blocks
      <4>1. u # v
        BY <3>3 DEF CallsInv, TablesOK
      <4> QED BY <1>1, <3>3, <4>1 DEF BlockStands
    <3> QED BY <2>4, <2>5, <3>2, <3>3 DEF isUserBlocked
  <2>7. CallOK(d, i)'
    BY <1>1, <2>1, <2>4, <2>5, <2>6 DEF CallOK
  <2> QED BY <2>2, <2>4, <2>7 DEF CallOK
<1>3. calls' \in Seq(Calls) /\ DOMAIN calls' = DOMAIN calls
  <2>1. DOMAIN calls = 1..Len(calls) /\ Len(calls) \in Nat
    BY DEF CallsInv, TablesOK
  <2>2. DOMAIN calls' = DOMAIN calls
    BY DEF UnblockRoute
  <2>3. calls' = [i \in 1..Len(calls) |-> calls'[i]]
    BY <2>1 DEF UnblockRoute
  <2> QED BY <1>2, <2>1, <2>2, <2>3
<1> QED BY <1>1, <1>2, <1>3 DEF CallsInv, TablesOK

LEMMA MarkKeeps ==
    ASSUME CallsInv, NEW u, NEW v, markMessageRead(u, v), UNCHANGED <<blocks, notes, calls>>
    PROVE  CallsInv'
<1> DEFINE Marked(m) == IF m.from = u /\ m.to = v THEN [m EXCEPT !.read = TRUE] ELSE m
<1>1. messages' = {Marked(m) : m \in messages}
  BY DEF markMessageRead
<1>2. ASSUME NEW m \in messages
      PROVE  /\ Marked(m) \in [id : Nat, from : Users, to : Users, read : BOOLEAN]
             /\ Marked(m).id = m.id /\ Marked(m).from = m.from /\ Marked(m).to = m.to
  BY DEF CallsInv, TablesOK
<1>3. IsFiniteSet(messages')
  <2> DEFINE f == [m \in messages |-> Marked(m)]
  <2>1. f \in Surjection(messages, messages')
    <3> HIDE DEF Marked
    <3> QED BY <1>1 DEF Surjection
  <2> QED BY <2>1, FS_Surjection DEF CallsInv, TablesOK
<1>4. ASSUME NEW i \in DOMAIN calls' PROVE CallOK(calls[i], i)'
  <2>1. CallOK(calls[i], i)
    BY DEF CallsInv
  <2>2. ASSUME NEW m \in messages
        PROVE  \E n \in messages' : n.id = m.id /\ n.from = m.from /\ n.to = m.to
    <3> HIDE DEF Marked
    <3>1. Marked(m) \in messages'
      BY <1>1
    <3> WITNESS Marked(m) \in messages'
    <3> QED BY <1>2
  <2> QED BY <2>1, <2>2 DEF CallOK, BlockStands
<1> QED BY <1>1, <1>2, <1>3, <1>4 DEF CallsInv, TablesOK

(***************************************************************************)
(* The pages.                                                              *)
(***************************************************************************)

Unrelated == <<selected, shown, opened>>

PageInv ==
    /\ selected \in [Tabs -> Users \cup {Away, NoOne}]
    /\ shown \in [Tabs -> SUBSET (Nat \X {"live", "stored"})]
    /\ \A t \in Tabs : selected[t] \in Users => <<Owner[t], selected[t]>> \in opened
    /\ ReadWasOpened
    /\ ShownIsStored

\* The messages that the server had stay, read as they were, or new ones join.
Kept ==
    /\ \A m \in messages : \E n \in messages' : n.id = m.id /\ n.from = m.from /\ n.to = m.to
    /\ \A n \in messages' : n.read => n \in messages

LEMMA ServerPageKeeps ==
    ASSUME PageInv, Kept, UNCHANGED Unrelated PROVE PageInv'
<1>1. ReadWasOpened'
  BY DEF PageInv, Kept, Unrelated, ReadWasOpened
<1>2. ShownIsStored'
  <2> SUFFICES ASSUME NEW t \in Tabs, NEW s \in shown[t]
               PROVE  \E m \in messages' : m.id = s[1] /\ Owner[t] \in {m.from, m.to}
    BY DEF ShownIsStored, Unrelated
  <2> QED BY DEF PageInv, ShownIsStored, Kept
<1> QED BY <1>1, <1>2 DEF PageInv, Unrelated

LEMMA HandlerKept == ASSUME TablesOK, NEW i, Handler(i) PROVE Kept
<1>1. CASE messages' = messages
  BY <1>1 DEF Kept
<1>2. CASE Save(i)
  <2>1. PICK m : /\ m.read = FALSE
                 /\ messages' = messages \cup {m}
    BY <1>2 DEF Save
  <2> QED BY <2>1 DEF Kept
<1> QED BY <1>1, <1>2 DEF Handler, CheckBlock, FindSender, FindReceiver,
        StoreNotification, FailsEarly, InviteFails, InviteSent, tables

LEMMA MarkPageKeeps ==
    ASSUME CallsInv, PageInv, NEW t \in Tabs, MarkConversation(t) PROVE PageInv'
<1> DEFINE v == selected[t]
           u == Owner[t]
           Marked(m) == IF m.from = v /\ m.to = u THEN [m EXCEPT !.read = TRUE] ELSE m
<1>1. messages' = {Marked(m) : m \in messages} /\ UNCHANGED Unrelated /\ <<u, v>> \in opened
  BY DEF MarkConversation, markMessageRead, PageInv, Unrelated
<1>2. ASSUME NEW m \in messages
      PROVE  /\ Marked(m).id = m.id /\ Marked(m).from = m.from /\ Marked(m).to = m.to
             /\ (m.from = v /\ m.to = u) \/ Marked(m) = m
  BY DEF CallsInv, TablesOK
<1> HIDE DEF Marked
<1>3. ReadWasOpened'
  <2> SUFFICES ASSUME NEW n \in messages', n.read PROVE <<n.to, n.from>> \in opened
    BY <1>1 DEF ReadWasOpened, Unrelated
  <2>1. PICK m \in messages : n = Marked(m)
    BY <1>1
  <2> QED BY <1>1, <1>2, <2>1 DEF PageInv, ReadWasOpened
<1>4. ShownIsStored'
  <2> SUFFICES ASSUME NEW r \in Tabs, NEW s \in shown[r]
               PROVE  \E m \in messages' : m.id = s[1] /\ Owner[r] \in {m.from, m.to}
    BY <1>1 DEF ShownIsStored, Unrelated
  <2>1. PICK m \in messages : m.id = s[1] /\ Owner[r] \in {m.from, m.to}
    BY DEF PageInv, ShownIsStored
  <2>2. Marked(m) \in messages'
    BY <1>1
  <2> QED BY <1>2, <2>1, <2>2
<1> QED BY <1>1, <1>3, <1>4 DEF PageInv, Unrelated

\* Pages that come, go and select; opened only grows.
LEMMA SelectionKeeps ==
    ASSUME PageInv, NEW t \in Tabs, messages' = messages,
           NEW v \in Users \cup {Away, NoOne}, selected' = [selected EXCEPT ![t] = v],
           shown' = shown \/ shown' = [shown EXCEPT ![t] = {}],
           opened' = opened \/ opened' = opened \cup {<<Owner[t], v>>},
           v \in Users => <<Owner[t], v>> \in opened'
    PROVE  PageInv'
<1>1. \A r \in Tabs : shown'[r] \in SUBSET shown[r]
  BY DEF PageInv
<1>2. shown' \in [Tabs -> SUBSET (Nat \X {"live", "stored"})]
  BY DEF PageInv
<1>3. ReadWasOpened' /\ ShownIsStored'
  BY <1>1 DEF PageInv, ReadWasOpened, ShownIsStored
<1>4. \A r \in Tabs : selected'[r] \in Users => <<Owner[r], selected'[r]>> \in opened'
  BY DEF PageInv
<1> QED BY <1>2, <1>3, <1>4 DEF PageInv

LEMMA FetchKeeps ==
    ASSUME TablesOK, PageInv, NEW t \in Tabs, fetchMessages(t) PROVE PageInv'
<1> DEFINE list == {<<m.id, "stored">> : m \in getMessages(Owner[t], selected[t])}
<1>1. /\ shown' = [shown EXCEPT ![t] = list]
      /\ messages' = messages /\ selected' = selected /\ opened' = opened
  BY DEF fetchMessages, serverVars, tables
<1>2. \A m \in getMessages(Owner[t], selected[t]) :
         m \in messages /\ {m.from, m.to} = {Owner[t], selected[t]}
  BY DEF getMessages, Conversation
<1>3. ASSUME NEW s \in list
      PROVE  /\ s \in Nat \X {"live", "stored"}
             /\ \E m \in messages : m.id = s[1] /\ Owner[t] \in {m.from, m.to}
  <2>1. PICK m \in getMessages(Owner[t], selected[t]) : s = <<m.id, "stored">>
    OBVIOUS
  <2>2. m \in messages /\ m.id \in Nat /\ Owner[t] \in {m.from, m.to}
    BY <1>2 DEF TablesOK
  <2> QED BY <2>1, <2>2
<1> HIDE DEF list
<1>4. shown' \in [Tabs -> SUBSET (Nat \X {"live", "stored"})]
  BY <1>1, <1>3 DEF PageInv
<1>5. ShownIsStored'
  BY <1>1, <1>3 DEF PageInv, ShownIsStored
<1> QED BY <1>1, <1>4, <1>5 DEF PageInv, ReadWasOpened

LEMMA DeliverKeeps ==
    ASSUME CallsInv, PresenceInv, PageInv, NEW i \in DOMAIN calls, Deliver(i)
    PROVE  PageInv'
<1> DEFINE c == calls[i]
<1>1. c \in Calls /\ CallOK(c, i)
  BY DEF CallsInv, TablesOK
<1>2. c.kind = "message" /\ c.at \in {"push", "sender", "note"}
  BY DEF Deliver, DeliverMessage, Pending
<1>3. PICK m \in messages : m.id = c.row /\ m.from = c.from /\ m.to = c.to
  BY <1>1, <1>2 DEF CallOK
<1>4. ASSUME NEW t \in Receivers(i) PROVE Owner[t] \in {m.from, m.to}
  <2>1. t \in Tabs /\ t # NoTab
    BY TabsAssumption DEF Receivers, PresenceInv, PresenceTypeOK
  <2>2. CASE t = online[c.to]
    BY <1>1, <1>3, <2>1, <2>2 DEF PresenceInv, Calls
  <2>3. CASE t = c.tab
    BY <1>1, <1>3, <2>1, <2>3 DEF CallOK
  <2> QED BY <2>2, <2>3 DEF Receivers
<1>5. /\ messages' = messages /\ selected' = selected /\ opened' = opened
      /\ shown' = [t \in Tabs |-> IF t \in Receivers(i) /\ Mounted(t)
                                  THEN shown[t] \cup {<<c.row, "live">>} ELSE shown[t]]
  BY DEF Deliver, DeliverMessage, tables, handlePrivateMessage
<1>6. c.row \in Nat
  BY <1>1 DEF Calls
<1> HIDE DEF c
<1>7. shown' \in [Tabs -> SUBSET (Nat \X {"live", "stored"})]
  BY <1>5, <1>6 DEF PageInv
<1>8. ASSUME NEW t \in Tabs, NEW s \in shown'[t]
      PROVE  \E n \in messages : n.id = s[1] /\ Owner[t] \in {n.from, n.to}
  <2>1. CASE s \in shown[t]
    BY <2>1 DEF PageInv, ShownIsStored
  <2>2. CASE t \in Receivers(i) /\ s = <<c.row, "live">>
    BY <1>3, <1>4, <2>2
  <2> QED BY <1>5, <2>1, <2>2
<1>9. ShownIsStored'
  BY <1>5, <1>8 DEF ShownIsStored
<1> QED BY <1>5, <1>7, <1>9 DEF PageInv, ReadWasOpened

(***************************************************************************)
(* The invariant.                                                          *)
(***************************************************************************)

Inv == PresenceInv /\ CallsInv /\ PageInv

LEMMA StartInv == Init => Inv
<1> SUFFICES ASSUME Init PROVE Inv
  OBVIOUS
<1>1. PresenceInv
  BY PresenceStart DEF Init, ServerInit
<1>2. CallsInv
  BY FS_EmptySet DEF Init, ServerInit, CallsInv, TablesOK
<1>3. PageInv
  BY ReadersAssumption DEF Init, ServerInit, PageInv, ReadWasOpened, ShownIsStored
<1> QED BY <1>1, <1>2, <1>3 DEF Inv

LEMMA QuietKeeps == ASSUME CallsInv, UNCHANGED <<tables, calls>> PROVE CallsInv'
<1>1. \A c, i : CallOK(c, i) => CallOK(c, i)'
  BY DEF CallOK, BlockStands, tables
<1>2. ASSUME NEW i \in DOMAIN calls' PROVE CallOK(calls[i], i)'
  BY <1>1 DEF CallsInv, CallOK
<1> QED BY <1>2 DEF CallsInv, TablesOK, tables

LEMMA ServerKeeps == ASSUME Inv, ServerNext, UNCHANGED pageVars PROVE CallsInv' /\ PageInv'
<1>1. UNCHANGED Unrelated
  BY DEF pageVars, Unrelated
<1>2. CASE \E t \in Tabs : UNCHANGED <<tables, calls>>
  BY <1>1, <1>2, QuietKeeps, ServerPageKeeps DEF Kept, tables, Inv
<1>3. ASSUME NEW t \in Tabs, Closed(t) PROVE CallsInv' /\ PageInv'
  BY <1>1, <1>3, ClosedKeeps, ServerPageKeeps DEF Kept, Closed, tables, Inv
<1>4. ASSUME NEW i \in DOMAIN calls, Handler(i) PROVE CallsInv' /\ PageInv'
  BY <1>1, <1>4, HandlerKeeps, HandlerKept, ServerPageKeeps DEF CallsInv, Inv
<1> QED BY <1>2, <1>3, <1>4 DEF ServerNext

LEMMA PageKeeps == ASSUME Inv, NEW t \in Tabs, Page(t) PROVE CallsInv' /\ PageInv'
<1> USE DEF Inv
<1>1. CASE Open(t) \/ Close(t) \/ Back(t) \/ \E v \in Users : Select(t, v)
  <2>1. UNCHANGED <<tables, calls>>
    BY <1>1 DEF Open, Close, Back, Select, serverVars
  <2>2. CASE Open(t)
    BY <2>1, <2>2, ReadersAssumption, SelectionKeeps, QuietKeeps DEF Open, tables
  <2>3. CASE Close(t)
    BY <2>1, <2>3, ReadersAssumption, SelectionKeeps, QuietKeeps DEF Close, tables
  <2>4. CASE Back(t)
    BY <2>1, <2>4, ReadersAssumption, SelectionKeeps, QuietKeeps DEF Back, tables
  <2>5. ASSUME NEW v \in Users, Select(t, v) PROVE CallsInv' /\ PageInv'
    BY <2>1, <2>5, SelectionKeeps, QuietKeeps DEF Select, tables
  <2> QED BY <1>1, <2>2, <2>3, <2>4, <2>5
<1>2. CASE fetchMessages(t)
  BY <1>2, FetchKeeps, QuietKeeps DEF fetchMessages, serverVars, CallsInv
<1>3. CASE checkBlockStatus(t)
  <2>1. UNCHANGED <<tables, calls>> /\ UNCHANGED Unrelated
    BY <1>3 DEF checkBlockStatus, serverVars, Unrelated
  <2> QED BY <2>1, QuietKeeps, ServerPageKeeps DEF Kept, tables
<1>4. CASE MarkConversation(t)
  BY <1>4, MarkPageKeeps, MarkKeeps DEF MarkConversation
<1>5. CASE sendMessage(t) \/ sendGameInvite(t)
  <2>1. PICK kind \in {"message", "invite"} : Emit(t, selected[t], kind)
    BY <1>5 DEF sendMessage, sendGameInvite
  <2>2. selected[t] \in Users /\ UNCHANGED Unrelated /\ messages' = messages
    BY <1>5 DEF sendMessage, sendGameInvite, MayWrite, Emit, tables, pageVars, Unrelated
  <2> QED BY <2>1, <2>2, EmitKeeps, ServerPageKeeps DEF Kept
<1>6. CASE handleBlockUser(t) \/ handleUnblockUser(t)
  <2>1. PICK ok : BlockRoute(Owner[t], selected[t], ok) \/ UnblockRoute(Owner[t], selected[t], ok)
    BY <1>6 DEF handleBlockUser, handleUnblockUser
  <2>2. /\ selected[t] \in Users /\ Owner[t] \in Users
        /\ UNCHANGED Unrelated /\ UNCHANGED <<messages, notes>>
    BY <1>6, TabsAssumption DEF handleBlockUser, handleUnblockUser, MayWrite, Unrelated
  <2> QED BY <2>1, <2>2, BlockKeeps, UnblockKeeps, ServerPageKeeps DEF Kept
<1> QED BY <1>1, <1>2, <1>3, <1>4, <1>5, <1>6 DEF Page

LEMMA StepInv == Inv /\ [Next]_vars => Inv'
<1> SUFFICES ASSUME Inv, [Next]_vars PROVE Inv'
  OBVIOUS
<1>1. PresenceInv'
  BY PresenceStep, ChatIsPresence DEF Inv
<1>2. ASSUME NEW i \in DOMAIN calls, Deliver(i) PROVE CallsInv' /\ PageInv'
  BY <1>2, EndKeeps, DeliverKeeps DEF Inv, Deliver
<1>3. CASE UNCHANGED vars
  <2>1. UNCHANGED <<tables, calls>> /\ UNCHANGED Unrelated
    BY <1>3 DEF vars, serverVars, pageVars, Unrelated
  <2> QED BY <1>1, <2>1, QuietKeeps, ServerPageKeeps DEF Kept, tables, Inv
<1> QED BY <1>1, <1>2, <1>3, ServerKeeps, PageKeeps DEF Next, Inv

THEOREM ChatInvariant == Spec => []Inv
  BY StartInv, StepInv, PTL DEF Spec

(***************************************************************************)
(* What was sent when a block stood, and has been blocked ever since, is   *)
(* neither stored nor notified, however the handlers interleave.           *)
(***************************************************************************)
THEOREM ChatBlockHolds == Spec => []BlockHolds
<1>1. Inv => BlockHolds
  BY DEF Inv, CallsInv, CallOK, BlockHolds
<1> QED BY <1>1, ChatInvariant, PTL

(***************************************************************************)
(* Every invitation and every stored message is answered once.             *)
(***************************************************************************)
THEOREM ChatOneAnswer == Spec => []OneAnswer
<1>1. Inv => OneAnswer
  BY DEF Inv, CallsInv, CallOK, OneAnswer
<1> QED BY <1>1, ChatInvariant, PTL

(***************************************************************************)
(* A message counts as read only when its receiver has opened the          *)
(* conversation with its sender.                                           *)
(***************************************************************************)
THEOREM ChatReadWasOpened == Spec => []ReadWasOpened
<1>1. Inv => ReadWasOpened
  BY DEF Inv, PageInv
<1> QED BY <1>1, ChatInvariant, PTL

(***************************************************************************)
(* What a page shows is stored and a message of its user.                  *)
(***************************************************************************)
THEOREM ChatShownIsStored == Spec => []ShownIsStored
<1>1. Inv => ShownIsStored
  BY DEF Inv, PageInv
<1> QED BY <1>1, ChatInvariant, PTL

(***************************************************************************)
(* Both statements about pages: nothing is shown or marked that was not    *)
(* stored and opened.                                                      *)
(***************************************************************************)
THEOREM ChatPagesMatchMessages == Spec => []PagesMatchMessages
<1>1. Inv => PagesMatchMessages
  BY DEF Inv, PageInv, PagesMatchMessages
<1> QED BY <1>1, ChatInvariant, PTL

(***************************************************************************)
(* Both statements about presence: the chat server shows as online whom    *)
(* the game server can reach, by the tab that it has accepted.             *)
(***************************************************************************)
THEOREM ChatPresenceIsKept == Spec => []PresenceIsKept
  BY ChatNewestIsOnline, ChatOnlineCanPlay, PTL DEF PresenceIsKept

(***************************************************************************)
(* The log of the time.                                                    *)
(***************************************************************************)

\* The calls of u about day that have not ended.
Unwritten(u, day) ==
    {i \in DOMAIN writes : writes[i].user = u /\ writes[i].day = day /\ writes[i].at # "done"}

Apart(x, y) == IF x <= y THEN y - x ELSE x - y

\* Nothing is dated tomorrow.
Dated ==
    /\ \A i \in DOMAIN writes : writes[i].day <= today
    /\ \A k \in DOMAIN rows : rows[k].created_at <= today
    /\ \A u \in Users, x \in Days : today < x => spent[<<u, x>>] = 0

\* A call that saw midnight spoils the days since its own, and those with the
\* same names a week later.
Spoilt ==
    \A i \in DOMAIN writes : writes[i].at # "done" /\ writes[i].day < today =>
        \A y \in writes[i].day..today :
            /\ <<writes[i].user, y>> \in nights
            /\ y < today => <<writes[i].user, y + Week>> \in nights

\* The rows in the chart with the name of a day are those of its date.
Named ==
    \A k \in DOMAIN rows : \A x \in Days :
        <<rows[k].user, x>> \notin nights =>
            /\ x = rows[k].created_at => rows[k].day_name = NameOf(x)
            /\ Apart(rows[k].created_at, x) < Week /\ rows[k].day_name = NameOf(x)
                => x = rows[k].created_at

Rising(f, top) == f[0] = 0 /\ \A m, n \in 0..top : m <= n => f[m] <= f[n]

\* What the first n calls still have to write for u and day is at most f[n].
Sums(f, u, day) ==
    /\ Rising(f, Len(writes))
    /\ \A i \in Unwritten(u, day) : f[i - 1] + writes[i].time <= f[i]

\* The time that is stored and the time that will be are at most that spent.
Budget(u, day) ==
    \E f \in [0..Len(writes) -> 0..spent[<<u, day>>]] :
        /\ Sums(f, u, day)
        /\ \A k \in RowsOf(u, day) : rows[k].hours_logged + f[Len(writes)] <= spent[<<u, day>>]

\* Without overlaps there is one row or none, one call or none, and nothing
\* is lost.
Exact(u, day) ==
    /\ \A i, j \in Unwritten(u, day) : i = j
    /\ \A k, l \in RowsOf(u, day) : k = l
    /\ \A i \in Unwritten(u, day) :
          /\ writes[i].at = "insert" => RowsOf(u, day) = {}
          /\ writes[i].at = "update" => RowsOf(u, day) # {}
          /\ RowsOf(u, day) = {} => writes[i].time = spent[<<u, day>>]
          /\ \A k \in RowsOf(u, day) :
                rows[k].hours_logged + writes[i].time = spent[<<u, day>>]
    /\ Unwritten(u, day) = {} =>
          /\ RowsOf(u, day) = {} => spent[<<u, day>>] = 0
          /\ \A k \in RowsOf(u, day) : rows[k].hours_logged = spent[<<u, day>>]

LogInv ==
    /\ PresenceInv /\ LogTypeOK /\ Dated /\ Spoilt /\ Named
    /\ \A u \in Users, x \in Days : <<u, x>> \notin nights =>
          /\ Budget(u, x)
          /\ <<u, x>> \notin overlapped => Exact(u, x)

LEMMA NameUnique ==
    ASSUME NEW x \in Nat, NEW y \in Nat, NameOf(x) = NameOf(y), Apart(x, y) < Week
    PROVE  x = y
<1> DEFINE p == x \div Week
           q == y \div Week
<1>1. Week \in Nat \ {0}
  BY WeekAssumption
<1>2. p \in Nat /\ q \in Nat /\ x = Week * p + (x % Week) /\ y = Week * q + (y % Week)
  BY <1>1
<1>3. (x % Week) = (y % Week) /\ (x % Week) \in Nat /\ x - y < Week /\ y - x < Week
  BY <1>1 DEF NameOf, Apart
<1> HIDE DEF p, q
<1>4. p <= q
  <2>1. SUFFICES ASSUME q + 1 <= p PROVE FALSE
    BY <1>2
  <2>2. Week * p >= Week * (q + 1)
    BY <2>1, <1>1, <1>2
  <2>3. Week * (q + 1) = Week * q + Week
    BY <1>1, <1>2
  <2> QED BY <2>2, <2>3, <1>1, <1>2, <1>3
<1>5. q <= p
  <2>1. SUFFICES ASSUME p + 1 <= q PROVE FALSE
    BY <1>2
  <2>2. Week * q >= Week * (p + 1)
    BY <2>1, <1>1, <1>2
  <2>3. Week * (p + 1) = Week * p + Week
    BY <1>1, <1>2
  <2> QED BY <2>2, <2>3, <1>1, <1>2, <1>3
<1>6. p = q
  BY <1>4, <1>5, <1>2
<1> QED BY <1>6, <1>2, <1>3

LEMMA NameInRange == ASSUME NEW x \in Nat PROVE NameOf(x) \in 0..(Week - 1)
  BY WeekAssumption DEF NameOf

LogCalls == [user : Users, time : Durations, day : Days,
             at : {"read", "insert", "update", "done"}]
LogRows == [user : Users, created_at : Days, day_name : 0..(Week - 1), hours_logged : Nat]

LEMMA LogTypes ==
    ASSUME LogTypeOK
    PROVE  /\ today \in Nat /\ Days \subseteq Nat /\ Week \in Nat \ {0}
           /\ rows \in Seq(LogRows) /\ writes \in Seq(LogCalls)
           /\ Len(writes) \in Nat /\ DOMAIN writes = 1..Len(writes)
           /\ Len(rows) \in Nat /\ DOMAIN rows = 1..Len(rows)
           /\ \A i \in DOMAIN writes :
                 /\ writes[i] \in LogCalls
                 /\ writes[i].user \in Users /\ writes[i].day \in Days
                 /\ writes[i].day \in Nat /\ writes[i].time \in Nat
           /\ \A k \in DOMAIN rows :
                 /\ rows[k] \in LogRows
                 /\ rows[k].user \in Users /\ rows[k].created_at \in Days
                 /\ rows[k].created_at \in Nat /\ rows[k].hours_logged \in Nat
           /\ \A u \in Users, x \in Days : spent[<<u, x>>] \in Nat
<1>1. today \in Nat /\ Days \subseteq Nat /\ Week \in Nat \ {0} /\ Durations \subseteq Nat
  BY WeekAssumption DEF LogTypeOK, Days
<1>2. rows \in Seq(LogRows) /\ writes \in Seq(LogCalls)
  BY DEF LogTypeOK, LogRows, LogCalls
<1>3. /\ Len(writes) \in Nat /\ DOMAIN writes = 1..Len(writes)
      /\ Len(rows) \in Nat /\ DOMAIN rows = 1..Len(rows)
  BY <1>2
<1>4. ASSUME NEW i \in DOMAIN writes
      PROVE  writes[i] \in LogCalls
  BY <1>2, <1>3, <1>4
<1>5. ASSUME NEW c \in LogCalls
      PROVE  c.user \in Users /\ c.day \in Days /\ c.day \in Nat /\ c.time \in Nat
  BY <1>1, <1>5 DEF LogCalls
<1>6. ASSUME NEW k \in DOMAIN rows
      PROVE  rows[k] \in LogRows
  BY <1>2, <1>3, <1>6
<1>7. ASSUME NEW r \in LogRows
      PROVE  /\ r.user \in Users /\ r.created_at \in Days /\ r.created_at \in Nat
             /\ r.hours_logged \in Nat
  BY <1>1, <1>7 DEF LogRows
<1>8. ASSUME NEW u \in Users, NEW x \in Days PROVE spent[<<u, x>>] \in Nat
  BY <1>8 DEF LogTypeOK
<1> QED BY <1>1, <1>2, <1>3, <1>4, <1>5, <1>6, <1>7, <1>8

\* A call moves, and stays the same call.
LEMMA CallMoves ==
    ASSUME LogTypeOK, NEW i \in DOMAIN writes,
           NEW stage \in {"read", "insert", "update", "done"},
           writes' = [writes EXCEPT ![i].at = stage]
    PROVE  /\ writes' \in Seq(LogCalls) /\ Len(writes') = Len(writes)
           /\ DOMAIN writes' = DOMAIN writes
           /\ \A j \in DOMAIN writes :
                 /\ writes'[j].user = writes[j].user /\ writes'[j].day = writes[j].day
                 /\ writes'[j].time = writes[j].time
                 /\ writes'[j].at = IF j = i THEN stage ELSE writes[j].at
<1>1. writes \in Seq(LogCalls) /\ DOMAIN writes = 1..Len(writes) /\ Len(writes) \in Nat
      /\ \A j \in DOMAIN writes : writes[j] \in LogCalls
  BY LogTypes
<1>2. PICK c : c = [writes[i] EXCEPT !.at = stage]
  OBVIOUS
<1>3. writes[i] \in LogCalls
  BY <1>1
<1>4. c \in LogCalls /\ c.user = writes[i].user /\ c.day = writes[i].day
      /\ c.time = writes[i].time /\ c.at = stage
  BY <1>2, <1>3 DEF LogCalls
<1>5. writes' = [writes EXCEPT ![i] = c]
  BY <1>2, Zenon
<1>6. writes' \in Seq(LogCalls) /\ Len(writes') = Len(writes) /\ DOMAIN writes' = DOMAIN writes
      /\ \A j \in DOMAIN writes : writes'[j] = IF j = i THEN c ELSE writes[j]
  BY <1>5, <1>1, <1>4
<1> QED BY <1>6, <1>4

LEMMA UnwrittenStays ==
    ASSUME LogTypeOK, NEW i \in DOMAIN writes, writes[i].at # "done",
           NEW stage \in {"read", "insert", "update"},
           writes' = [writes EXCEPT ![i].at = stage], NEW u, NEW x
    PROVE  Unwritten(u, x)' = Unwritten(u, x)
<1>1. /\ DOMAIN writes' = DOMAIN writes
      /\ \A j \in DOMAIN writes :
            /\ writes'[j].user = writes[j].user /\ writes'[j].day = writes[j].day
            /\ writes'[j].at = IF j = i THEN stage ELSE writes[j].at
  BY CallMoves
<1> QED BY <1>1 DEF Unwritten

LEMMA UnwrittenEnds ==
    ASSUME LogTypeOK, NEW i \in DOMAIN writes, Finished(i), NEW u, NEW x
    PROVE  Unwritten(u, x)' = Unwritten(u, x) \ {i}
<1>1. /\ DOMAIN writes' = DOMAIN writes
      /\ \A j \in DOMAIN writes :
            /\ writes'[j].user = writes[j].user /\ writes'[j].day = writes[j].day
            /\ writes'[j].at = IF j = i THEN "done" ELSE writes[j].at
  BY CallMoves DEF Finished
<1> QED BY <1>1 DEF Unwritten

\* A sum is lowered by t from its i-th term on.
Lowered(f, g, top, i, t) ==
    /\ Rising(g, top) /\ g[top] + t = f[top]
    /\ \A j \in 1..top : \A d \in Nat :
          j # i /\ f[j - 1] + d <= f[j] => g[j - 1] + d <= g[j]

LEMMA CanLower ==
    ASSUME NEW top \in Nat, NEW most \in Nat, NEW f \in [0..top -> 0..most], Rising(f, top),
           NEW i \in 1..top, NEW t \in Nat, f[i - 1] + t <= f[i]
    PROVE  \E g : g \in [0..top -> 0..most] /\ Lowered(f, g, top, i, t)
<1> USE DEF Rising
<1> DEFINE g == [n \in 0..top |-> IF n < i THEN f[n] ELSE f[n] - t]
<1>1. i - 1 \in 0..top /\ i \in 0..top /\ 0 \in 0..top /\ top \in 0..top
  OBVIOUS
<1>2. \A n \in 0..top : f[n] \in 0..most
  OBVIOUS
<1>3. f[i - 1] \in 0..most /\ f[i] \in 0..most
  BY <1>1, <1>2
<1>4. ASSUME NEW n \in 0..top, n < i PROVE g[n] = f[n] /\ g[n] \in 0..most /\ f[n] <= f[i - 1]
  BY <1>4, <1>1, <1>2
<1>5. ASSUME NEW n \in 0..top, i <= n
      PROVE  g[n] = f[n] - t /\ f[i - 1] <= g[n] /\ g[n] \in 0..most
  <2>1. f[i] <= f[n] /\ f[n] \in 0..most
    BY <1>5, <1>1, <1>2
  <2>2. g[n] = f[n] - t
    BY <1>5
  <2> QED BY <2>1, <2>2, <1>3
<1>6. \A n \in 0..top : n < i \/ i <= n
  OBVIOUS
<1>7. ASSUME NEW n \in 0..top PROVE g[n] \in 0..most
  BY <1>4, <1>5, <1>6, <1>7
<1>8. g \in [0..top -> 0..most]
  BY <1>7
<1> HIDE DEF g
<1>9. g[0] = 0 /\ g[top] + t = f[top]
  BY <1>1, <1>2, <1>4, <1>5
<1>10. ASSUME NEW m \in 0..top, NEW n \in 0..top, m <= n PROVE g[m] <= g[n]
  <2>1. f[m] <= f[n] /\ f[m] \in 0..most /\ f[n] \in 0..most
    BY <1>2, <1>10
  <2>2. CASE n < i
    <3>1. m < i
      BY <2>2, <1>10
    <3> QED BY <3>1, <2>2, <2>1, <1>4
  <2>3. CASE m < i /\ i <= n
    <3>1. g[m] \in 0..most /\ g[n] \in 0..most /\ g[m] <= f[i - 1] /\ f[i - 1] <= g[n]
      BY <2>3, <1>4, <1>5
    <3> QED BY <3>1, <1>3
  <2>4. CASE i <= m
    <3>1. i <= n
      BY <2>4, <1>10
    <3>2. g[m] = f[m] - t /\ g[n] = f[n] - t
      BY <3>1, <2>4, <1>5
    <3> QED BY <3>2, <2>1
  <2> QED BY <2>2, <2>3, <2>4, <1>6
<1>11. ASSUME NEW j \in 1..top, NEW d \in Nat, j # i, f[j - 1] + d <= f[j]
       PROVE  g[j - 1] + d <= g[j]
  <2>1. j \in 0..top /\ j - 1 \in 0..top
    OBVIOUS
  <2>2. f[j] \in 0..most /\ f[j - 1] \in 0..most
    BY <2>1, <1>2
  <2>3. CASE j < i
    <3>1. j - 1 < i
      BY <2>3
    <3> QED BY <3>1, <2>3, <2>1, <1>4, <1>11
  <2>4. CASE i < j
    <3>1. i <= j - 1 /\ i <= j
      BY <2>4
    <3>2. g[j - 1] = f[j - 1] - t /\ g[j] = f[j] - t
      BY <3>1, <2>1, <1>5
    <3> QED BY <3>2, <2>2, <1>11
  <2> QED BY <2>3, <2>4, <1>11
<1> QED BY <1>8, <1>9, <1>10, <1>11 DEF Lowered

\* A call that ends leaves room for its time.
LEMMA CallPaid ==
    ASSUME LogTypeOK, NEW u \in Users, NEW x \in Days, Budget(u, x),
           NEW i \in Unwritten(u, x), Finished(i), UNCHANGED spent
    PROVE  \E g \in [0..Len(writes') -> 0..spent'[<<u, x>>]] :
              /\ Sums(g, u, x)'
              /\ g[Len(writes')] + writes[i].time <= spent'[<<u, x>>]
              /\ \A k \in RowsOf(u, x) :
                    rows[k].hours_logged + writes[i].time + g[Len(writes')] <= spent'[<<u, x>>]
<1>1. /\ i \in DOMAIN writes /\ i \in 1..Len(writes) /\ Len(writes) \in Nat
      /\ DOMAIN writes = 1..Len(writes)
      /\ \A j \in DOMAIN writes : writes[j].time \in Nat
      /\ spent[<<u, x>>] \in Nat
      /\ \A k \in RowsOf(u, x) : rows[k].hours_logged \in Nat
  BY LogTypes DEF Unwritten, RowsOf
<1>2. /\ Len(writes') = Len(writes) /\ DOMAIN writes' = DOMAIN writes
      /\ \A j \in DOMAIN writes : writes'[j].time = writes[j].time
  BY <1>1, CallMoves DEF Finished
<1>3. Unwritten(u, x)' = Unwritten(u, x) \ {i}
  BY <1>1, UnwrittenEnds
<1>4. PICK f :
            /\ f \in [0..Len(writes) -> 0..spent[<<u, x>>]]
            /\ Sums(f, u, x)
            /\ \A k \in RowsOf(u, x) : rows[k].hours_logged + f[Len(writes)] <= spent[<<u, x>>]
  BY DEF Budget
<1>5. PICK t : t = writes[i].time
  OBVIOUS
<1>6. PICK top : top = Len(writes)
  OBVIOUS
<1>7. PICK most : most = spent[<<u, x>>]
  OBVIOUS
<1>8. t \in Nat /\ top \in Nat /\ most \in Nat /\ i \in 1..top
  BY <1>1, <1>5, <1>6, <1>7
<1>9. f \in [0..top -> 0..most]
  BY <1>4, <1>6, <1>7
<1>10. Rising(f, top) /\ f[i - 1] + t <= f[i]
  BY <1>4, <1>5, <1>6 DEF Sums
<1>11. PICK g : g \in [0..top -> 0..most] /\ Lowered(f, g, top, i, t)
  BY <1>8, <1>9, <1>10, CanLower
<1>12. ASSUME NEW j \in Unwritten(u, x)' PROVE g[j - 1] + writes'[j].time <= g[j]
  <2>1. /\ j \in 1..top /\ j # i /\ writes[j].time \in Nat
        /\ writes'[j].time = writes[j].time /\ f[j - 1] + writes[j].time <= f[j]
    BY <1>12, <1>1, <1>2, <1>3, <1>4, <1>6 DEF Sums, Unwritten
  <2> QED BY <2>1, <1>11 DEF Lowered
<1>13. Sums(g, u, x)'
  BY <1>12, <1>11, <1>2, <1>6 DEF Sums, Lowered
<1>14. /\ g[top] \in 0..most /\ f[top] \in 0..most
       /\ g[top] + t = f[top]
  <2>1. top \in 0..top
    BY <1>8
  <2> QED BY <2>1, <1>9, <1>11 DEF Lowered
<1>15. g[top] + t <= most
  BY <1>14, <1>8
<1>16. ASSUME NEW k \in RowsOf(u, x) PROVE rows[k].hours_logged + t + g[top] <= most
  <2>1. rows[k].hours_logged + f[top] <= most /\ rows[k].hours_logged \in Nat
    BY <1>4, <1>6, <1>7, <1>1
  <2> QED BY <2>1, <1>14, <1>8
<1>17. top = Len(writes') /\ most = spent'[<<u, x>>] /\ t = writes[i].time
  BY <1>2, <1>5, <1>6, <1>7
<1> QED BY <1>11, <1>13, <1>15, <1>16, <1>17, Zenon

LEMMA WrittenBudget ==
    ASSUME LogTypeOK, NEW u \in Users, NEW x \in Days, Budget(u, x),
           Unwritten(u, x)' = Unwritten(u, x), Len(writes') = Len(writes),
           \A i \in DOMAIN writes : writes'[i].time = writes[i].time,
           RowsOf(u, x)' = RowsOf(u, x), UNCHANGED spent,
           \A k \in RowsOf(u, x) : rows'[k].hours_logged = rows[k].hours_logged
    PROVE  Budget(u, x)'
<1>1. PICK f :
            /\ f \in [0..Len(writes) -> 0..spent[<<u, x>>]]
            /\ Sums(f, u, x)
            /\ \A k \in RowsOf(u, x) : rows[k].hours_logged + f[Len(writes)] <= spent[<<u, x>>]
  BY DEF Budget
<1>2. Unwritten(u, x) \subseteq DOMAIN writes
  BY DEF Unwritten
<1>3. ASSUME NEW i \in Unwritten(u, x)' PROVE f[i - 1] + writes'[i].time <= f[i]
  BY <1>1, <1>2, <1>3 DEF Sums
<1>4. Sums(f, u, x)'
  BY <1>1, <1>3 DEF Sums
<1>5. f \in [0..Len(writes') -> 0..spent'[<<u, x>>]]
  BY <1>1
<1>6. \A k \in RowsOf(u, x)' :
            rows'[k].hours_logged + f[Len(writes')] <= spent'[<<u, x>>]
  BY <1>1
<1> QED BY <1>4, <1>5, <1>6 DEF Budget

\* getLogtimeOfToday writes nothing.
LEMMA ReadKeeps ==
    ASSUME LogInv, PresenceInv', NEW i \in DOMAIN writes, Read(i) PROVE LogInv'
<1> DEFINE stage == IF RowsOf(writes[i].user, writes[i].day) = {} THEN "insert" ELSE "update"
<1>1. /\ writes[i].at = "read" /\ stage \in {"insert", "update"}
      /\ writes' = [writes EXCEPT ![i].at = stage]
      /\ UNCHANGED <<today, rows, spent, overlapped, nights>>
  BY DEF Read
<1>2. stage = IF RowsOf(writes[i].user, writes[i].day) = {} THEN "insert" ELSE "update"
  OBVIOUS
<1> HIDE DEF stage
<1>3. /\ writes' \in Seq(LogCalls) /\ Len(writes') = Len(writes)
      /\ DOMAIN writes' = DOMAIN writes
      /\ \A j \in DOMAIN writes :
            /\ writes'[j].user = writes[j].user /\ writes'[j].day = writes[j].day
            /\ writes'[j].time = writes[j].time
            /\ writes'[j].at = IF j = i THEN stage ELSE writes[j].at
  <2>1. stage \in {"read", "insert", "update", "done"} /\ LogTypeOK
    BY <1>1 DEF LogInv
  <2> QED BY <2>1, <1>1, CallMoves
<1>4. \A u, x : Unwritten(u, x)' = Unwritten(u, x)
  BY <1>1, UnwrittenStays DEF LogInv
<1>5. \A u, x : RowsOf(u, x)' = RowsOf(u, x)
  BY <1>1 DEF RowsOf
<1>6. LogTypeOK'
  BY <1>1, <1>3 DEF LogInv, LogTypeOK, LogCalls, PresenceInv
<1>7. Dated' /\ Named'
  BY <1>1, <1>3 DEF LogInv, Dated, Named
<1>8. Spoilt'
  BY <1>1, <1>3 DEF LogInv, Spoilt
<1>9. ASSUME NEW u \in Users, NEW x \in Days, <<u, x>> \notin nights' PROVE Budget(u, x)'
  BY <1>1, <1>3, <1>4, <1>5, <1>9, WrittenBudget DEF LogInv
<1>10. ASSUME NEW u \in Users, NEW x \in Days, <<u, x>> \notin nights', <<u, x>> \notin overlapped'
       PROVE  Exact(u, x)'
  <2>1. Exact(u, x)
    BY <1>1, <1>10 DEF LogInv
  <2>2. ASSUME NEW j \in Unwritten(u, x)
        PROVE  /\ j \in DOMAIN writes /\ writes'[j].time = writes[j].time
               /\ writes'[j].at = "insert" => RowsOf(u, x) = {}
               /\ writes'[j].at = "update" => RowsOf(u, x) # {}
    <3>1. j \in DOMAIN writes /\ writes[j].user = u /\ writes[j].day = x
      BY DEF Unwritten
    <3>2. CASE j = i
      BY <3>1, <3>2, <1>2, <1>3
    <3>3. CASE j # i
      BY <3>1, <3>3, <2>1, <1>3 DEF Exact
    <3> QED BY <3>2, <3>3
  <2> QED BY <2>1, <2>2, <1>1, <1>4, <1>5 DEF Exact
<1> QED BY <1>6, <1>7, <1>8, <1>9, <1>10 DEF LogInv

\* Inserting and updating end a call and leave the rest of the types.
LEMMA EndTypes ==
    ASSUME LogTypeOK, PresenceInv', NEW i \in DOMAIN writes, Finished(i),
           rows' \in Seq(LogRows), UNCHANGED <<today, spent>>
    PROVE  LogTypeOK'
<1>1. writes' \in Seq(LogCalls)
  BY CallMoves DEF Finished
<1> QED BY <1>1 DEF LogTypeOK, LogCalls, LogRows, PresenceInv

LEMMA EndSpoilt ==
    ASSUME LogTypeOK, Spoilt, NEW i \in DOMAIN writes, Finished(i), UNCHANGED <<today, nights>>
    PROVE  Spoilt'
<1>1. /\ DOMAIN writes' = DOMAIN writes
      /\ \A j \in DOMAIN writes :
            /\ writes'[j].user = writes[j].user /\ writes'[j].day = writes[j].day
            /\ writes'[j].at = IF j = i THEN "done" ELSE writes[j].at
  BY CallMoves DEF Finished
<1> QED BY <1>1 DEF Spoilt

LEMMA RowsPaid ==
    ASSUME LogTypeOK, NEW i \in DOMAIN writes, Update(i)
    PROVE  /\ rows' \in Seq(LogRows) /\ DOMAIN rows' = DOMAIN rows
           /\ \A k \in DOMAIN rows :
                 /\ rows'[k].user = rows[k].user
                 /\ rows'[k].created_at = rows[k].created_at
                 /\ rows'[k].day_name = rows[k].day_name
                 /\ rows'[k].hours_logged =
                       IF k \in RowsOf(writes[i].user, writes[i].day)
                       THEN rows[k].hours_logged + writes[i].time ELSE rows[k].hours_logged
<1>1. PICK t : t = writes[i].time
  OBVIOUS
<1>2. PICK K : K = RowsOf(writes[i].user, writes[i].day)
  OBVIOUS
<1>3. rows' = [k \in DOMAIN rows |->
                      IF k \in K THEN [rows[k] EXCEPT !.hours_logged = @ + t] ELSE rows[k]]
  BY <1>1, <1>2 DEF Update
<1>4. t \in Nat
  BY <1>1, LogTypes
<1>5. /\ rows \in Seq(LogRows) /\ Len(rows) \in Nat /\ DOMAIN rows = 1..Len(rows)
      /\ \A k \in DOMAIN rows : rows[k] \in LogRows
  BY LogTypes
<1>6. ASSUME NEW r \in LogRows, NEW s, s = [r EXCEPT !.hours_logged = @ + t]
      PROVE  /\ s \in LogRows /\ s.user = r.user /\ s.created_at = r.created_at
             /\ s.day_name = r.day_name /\ s.hours_logged = r.hours_logged + t
  BY <1>6, <1>4 DEF LogRows
<1>7. ASSUME NEW k \in DOMAIN rows
      PROVE  /\ rows'[k] \in LogRows
             /\ rows'[k].user = rows[k].user
             /\ rows'[k].created_at = rows[k].created_at
             /\ rows'[k].day_name = rows[k].day_name
             /\ rows'[k].hours_logged =
                   IF k \in K THEN rows[k].hours_logged + t ELSE rows[k].hours_logged
  <2>1. rows[k] \in LogRows
    BY <1>5
  <2>2. CASE k \in K
    <3>1. rows'[k] = [rows[k] EXCEPT !.hours_logged = @ + t]
      BY <2>2, <1>3
    <3> QED BY <3>1, <2>1, <2>2, <1>6
  <2>3. CASE k \notin K
    BY <2>3, <2>1, <1>3
  <2> QED BY <2>2, <2>3
<1>8. DOMAIN rows' = 1..Len(rows)
  BY <1>5, <1>3
<1>9. rows' = [k \in 1..Len(rows) |-> rows'[k]]
  BY <1>5, <1>3, Zenon
<1>10. rows' \in Seq(LogRows)
  BY <1>5, <1>7, <1>8, <1>9
<1> QED BY <1>5, <1>7, <1>8, <1>10, <1>1, <1>2

\* The update adds the time to each row of the user and the day.
LEMMA UpdateKeeps ==
    ASSUME LogInv, PresenceInv', NEW i \in DOMAIN writes, Update(i) PROVE LogInv'
<1>1. PICK v : v = writes[i].user
  OBVIOUS
<1>2. PICK d : d = writes[i].day
  OBVIOUS
<1>3. PICK t : t = writes[i].time
  OBVIOUS
<1>4. /\ writes[i].at = "update" /\ Finished(i)
      /\ rows' = [k \in DOMAIN rows |->
                    IF k \in RowsOf(v, d)
                    THEN [rows[k] EXCEPT !.hours_logged = @ + t] ELSE rows[k]]
      /\ UNCHANGED <<today, spent, overlapped, nights>>
  BY <1>1, <1>2, <1>3 DEF Update
<1>5. LogTypeOK /\ v \in Users /\ d \in Days /\ t \in Nat /\ i \in Unwritten(v, d)
      /\ \A k \in DOMAIN rows : rows[k].hours_logged \in Nat
  BY <1>1, <1>2, <1>3, <1>4, LogTypes DEF LogInv, Unwritten
<1>6. /\ Len(writes') = Len(writes) /\ DOMAIN writes' = DOMAIN writes
      /\ \A j \in DOMAIN writes :
            /\ writes'[j].user = writes[j].user /\ writes'[j].day = writes[j].day
            /\ writes'[j].time = writes[j].time
            /\ j # i => writes'[j].at = writes[j].at
  BY <1>4, <1>5, CallMoves DEF Finished
<1>7. \A u, x : Unwritten(u, x)' = Unwritten(u, x) \ {i}
  BY <1>4, <1>5, UnwrittenEnds
<1>8. /\ rows' \in Seq(LogRows) /\ DOMAIN rows' = DOMAIN rows
      /\ \A k \in DOMAIN rows :
            /\ rows'[k].user = rows[k].user
            /\ rows'[k].created_at = rows[k].created_at
            /\ rows'[k].day_name = rows[k].day_name
            /\ rows'[k].hours_logged =
                  IF k \in RowsOf(v, d) THEN rows[k].hours_logged + t ELSE rows[k].hours_logged
  BY <1>1, <1>2, <1>3, <1>5, RowsPaid
<1>9. \A u, x : RowsOf(u, x)' = RowsOf(u, x)
  BY <1>8 DEF RowsOf
<1>10. \A u, x : i \in Unwritten(u, x) => u = v /\ x = d
  BY <1>1, <1>2 DEF Unwritten
<1>11. \A u, x : \A k \in RowsOf(u, x) : k \in DOMAIN rows /\ (k \in RowsOf(v, d) => u = v /\ x = d)
  BY DEF RowsOf
<1>12. ASSUME NEW u, NEW x, ~ (u = v /\ x = d)
       PROVE  /\ Unwritten(u, x)' = Unwritten(u, x) /\ RowsOf(u, x)' = RowsOf(u, x)
              /\ \A k \in RowsOf(u, x) : rows'[k].hours_logged = rows[k].hours_logged
  <2>1. i \notin Unwritten(u, x)
    BY <1>10, <1>12
  <2>2. Unwritten(u, x)' = Unwritten(u, x)
    BY <2>1, <1>7
  <2>3. ASSUME NEW k \in RowsOf(u, x) PROVE rows'[k].hours_logged = rows[k].hours_logged
    <3>1. k \in DOMAIN rows /\ k \notin RowsOf(v, d)
      BY <1>11, <1>12
    <3> QED BY <3>1, <1>8
  <2> QED BY <2>2, <2>3, <1>9
<1>13. LogTypeOK'
  BY <1>4, <1>5, <1>8, EndTypes
<1>14. Dated' /\ Named'
  BY <1>4, <1>6, <1>8 DEF LogInv, Dated, Named
<1>15. Spoilt'
  BY <1>4, <1>5, EndSpoilt DEF LogInv
<1>16. ASSUME NEW u \in Users, NEW x \in Days, Budget(u, x) PROVE Budget(u, x)'
  <2>1. CASE u = v /\ x = d
    <3>1. PICK g : /\ g \in [0..Len(writes') -> 0..spent'[<<u, x>>]]
                   /\ Sums(g, u, x)'
                   /\ \A k \in RowsOf(u, x) :
                        rows[k].hours_logged + writes[i].time + g[Len(writes')] <= spent'[<<u, x>>]
      BY <2>1, <1>4, <1>5, <1>16, CallPaid
    <3>2. \A k \in RowsOf(u, x)' :
             rows'[k].hours_logged + g[Len(writes')] <= spent'[<<u, x>>]
      BY <3>1, <2>1, <1>3, <1>8, <1>9, <1>11
    <3> QED BY <3>1, <3>2 DEF Budget
  <2>2. CASE ~ (u = v /\ x = d)
    <3>1. Unwritten(u, x)' = Unwritten(u, x) /\ RowsOf(u, x)' = RowsOf(u, x)
          /\ \A k \in RowsOf(u, x) : rows'[k].hours_logged = rows[k].hours_logged
      BY <2>2, <1>12
    <3> QED BY <3>1, <1>4, <1>5, <1>6, <1>16, WrittenBudget
  <2> QED BY <2>1, <2>2
<1>17. ASSUME NEW u \in Users, NEW x \in Days, Exact(u, x) PROVE Exact(u, x)'
  <2>1. CASE u = v /\ x = d
    <3>1. Unwritten(u, x)' = {}
      BY <2>1, <1>5, <1>7, <1>17 DEF Exact
    <3>2. RowsOf(u, x) # {}
      BY <2>1, <1>4, <1>5, <1>17 DEF Exact
    <3>3. \A k \in RowsOf(u, x) : rows'[k].hours_logged = spent'[<<u, x>>]
      <4>1. ASSUME NEW k \in RowsOf(u, x) PROVE rows'[k].hours_logged = rows[k].hours_logged + t
        BY <2>1, <1>8, <1>11
      <4>2. \A k \in RowsOf(u, x) : rows[k].hours_logged + t = spent[<<u, x>>]
        BY <2>1, <1>3, <1>5, <1>17 DEF Exact
      <4> QED BY <4>1, <4>2, <1>4
    <3> QED BY <3>1, <3>2, <3>3, <1>9, <1>17 DEF Exact
  <2>2. CASE ~ (u = v /\ x = d)
    <3>1. Unwritten(u, x)' = Unwritten(u, x) /\ RowsOf(u, x)' = RowsOf(u, x)
          /\ \A k \in RowsOf(u, x) : rows'[k].hours_logged = rows[k].hours_logged
      BY <2>2, <1>12
    <3>2. \A j \in Unwritten(u, x) : /\ writes'[j].at = writes[j].at
                                     /\ writes'[j].time = writes[j].time
      BY <1>6, <1>10, <2>2 DEF Unwritten
    <3> QED BY <3>1, <3>2, <1>4, <1>17 DEF Exact
  <2> QED BY <2>1, <2>2
<1> QED BY <1>4, <1>13, <1>14, <1>15, <1>16, <1>17 DEF LogInv

\* A call that saw midnight spoils what its row could be taken for.
LEMMA LateRow ==
    ASSUME LogTypeOK, Dated, Spoilt, NEW i \in DOMAIN writes, writes[i].at # "done",
           writes[i].day < today
    PROVE  /\ <<writes[i].user, today>> \in nights
           /\ <<writes[i].user, writes[i].day>> \in nights
           /\ \A x \in Days :
                 Apart(today, x) < Week /\ NameOf(writes[i].day) = NameOf(x)
                    => <<writes[i].user, x>> \in nights
<1>1. PICK d : d = writes[i].day
  OBVIOUS
<1>2. d \in Nat /\ today \in Nat /\ Week \in Nat \ {0} /\ Days \subseteq Nat /\ d < today
  BY <1>1, LogTypes
<1>3. \A y \in d..today : /\ <<writes[i].user, y>> \in nights
                          /\ y < today => <<writes[i].user, y + Week>> \in nights
  BY <1>1 DEF Spoilt
<1>4. <<writes[i].user, today>> \in nights /\ <<writes[i].user, d>> \in nights
  <2>1. today \in d..today /\ d \in d..today
    BY <1>2
  <2> QED BY <2>1, <1>3
<1>5. ASSUME NEW x \in Days, Apart(today, x) < Week, NameOf(d) = NameOf(x)
      PROVE  <<writes[i].user, x>> \in nights
  <2>1. x \in Nat
    BY <1>2
  <2>2. Apart(d, x) < Week => d = x
    BY <2>1, <1>2, <1>5, NameUnique
  <2>3. CASE x <= today
    <3>1. x < d => Apart(d, x) < Week
      BY <2>1, <2>3, <1>2, <1>5 DEF Apart
    <3>2. x \in d..today
      BY <3>1, <2>1, <2>2, <2>3, <1>2
    <3> QED BY <3>2, <1>3
  <2>4. CASE today < x
    <3>1. x - today < Week /\ x - d >= Week
      <4>1. x - today < Week
        BY <2>1, <2>4, <1>2, <1>5 DEF Apart
      <4>2. x - d < Week => Apart(d, x) < Week
        BY <2>1, <2>4, <1>2 DEF Apart
      <4> QED BY <4>1, <4>2, <2>1, <2>2, <2>4, <1>2
    <3>2. x - Week \in d..today /\ x - Week < today /\ (x - Week) + Week = x
      BY <3>1, <2>1, <1>2
    <3> QED BY <3>2, <1>3
  <2> QED BY <2>1, <2>3, <2>4, <1>2
<1> QED BY <1>1, <1>4, <1>5

LEMMA RowInserted ==
    ASSUME LogTypeOK, NEW i \in DOMAIN writes, Insert(i)
    PROVE  /\ rows' \in Seq(LogRows)
           /\ Len(rows) + 1 \notin DOMAIN rows
           /\ DOMAIN rows' = DOMAIN rows \cup {Len(rows) + 1}
           /\ \A k \in DOMAIN rows : rows'[k] = rows[k]
           /\ rows'[Len(rows) + 1].user = writes[i].user
           /\ rows'[Len(rows) + 1].created_at = today
           /\ rows'[Len(rows) + 1].day_name = NameOf(writes[i].day)
           /\ rows'[Len(rows) + 1].hours_logged = writes[i].time
<1>1. rows \in Seq(LogRows) /\ Len(rows) \in Nat /\ DOMAIN rows = 1..Len(rows)
  BY LogTypes
<1>2. PICK r : r = [user |-> writes[i].user, created_at |-> today,
                    day_name |-> NameOf(writes[i].day), hours_logged |-> writes[i].time]
  OBVIOUS
<1>3. r \in LogRows
  <2>1. writes[i].user \in Users /\ writes[i].day \in Nat /\ writes[i].time \in Nat
    BY LogTypes
  <2>2. today \in Days
    BY DEF LogTypeOK
  <2>3. NameOf(writes[i].day) \in 0..(Week - 1)
    BY <2>1, NameInRange
  <2> QED BY <2>1, <2>2, <2>3, <1>2 DEF LogRows
<1>4. rows' = Append(rows, r)
  BY <1>2 DEF Insert
<1>5. /\ rows' \in Seq(LogRows) /\ Len(rows') = Len(rows) + 1
      /\ \A k \in DOMAIN rows : rows'[k] = rows[k]
      /\ rows'[Len(rows) + 1] = r
  BY <1>1, <1>3, <1>4
<1>6. DOMAIN rows' = DOMAIN rows \cup {Len(rows) + 1} /\ Len(rows) + 1 \notin DOMAIN rows
  BY <1>1, <1>5
<1> QED BY <1>2, <1>5, <1>6

\* The insertion after midnight goes to days that are spoilt already.
LEMMA InsertKeeps ==
    ASSUME LogInv, PresenceInv', NEW i \in DOMAIN writes, Insert(i) PROVE LogInv'
<1>1. PICK v : v = writes[i].user
  OBVIOUS
<1>2. PICK d : d = writes[i].day
  OBVIOUS
<1>3. PICK t : t = writes[i].time
  OBVIOUS
<1>4. PICK new : new = Len(rows) + 1
  OBVIOUS
<1>5. /\ writes[i].at = "insert" /\ Finished(i)
      /\ UNCHANGED <<today, spent, overlapped, nights>>
  BY DEF Insert
<1>6. /\ LogTypeOK /\ v \in Users /\ d \in Days /\ d \in Nat /\ t \in Nat /\ i \in Unwritten(v, d)
      /\ today \in Nat /\ today \in Days /\ d <= today
  BY <1>1, <1>2, <1>3, <1>5, LogTypes DEF LogInv, Unwritten, Dated, LogTypeOK
<1>7. /\ Len(writes') = Len(writes) /\ DOMAIN writes' = DOMAIN writes
      /\ \A j \in DOMAIN writes :
            /\ writes'[j].user = writes[j].user /\ writes'[j].day = writes[j].day
            /\ writes'[j].time = writes[j].time
            /\ j # i => writes'[j].at = writes[j].at
  BY <1>5, <1>6, CallMoves DEF Finished
<1>8. \A u, x : Unwritten(u, x)' = Unwritten(u, x) \ {i}
  BY <1>5, <1>6, UnwrittenEnds
<1>9. /\ rows' \in Seq(LogRows) /\ new \notin DOMAIN rows
      /\ DOMAIN rows' = DOMAIN rows \cup {new}
      /\ \A k \in DOMAIN rows : rows'[k] = rows[k]
      /\ rows'[new].user = v /\ rows'[new].created_at = today
      /\ rows'[new].day_name = NameOf(d) /\ rows'[new].hours_logged = t
  BY <1>1, <1>2, <1>3, <1>4, <1>6, RowInserted
<1>10. \A u, x : i \in Unwritten(u, x) => u = v /\ x = d
  BY <1>1, <1>2 DEF Unwritten
<1>11. /\ \A u, x : RowsOf(u, x)' =
                        IF u = v /\ x = today THEN RowsOf(u, x) \cup {new} ELSE RowsOf(u, x)
       /\ \A u, x : RowsOf(u, x) \subseteq DOMAIN rows
  BY <1>9, <1>5 DEF RowsOf
<1>12. d < today =>
          /\ <<v, today>> \in nights /\ <<v, d>> \in nights
          /\ \A x \in Days : Apart(today, x) < Week /\ NameOf(d) = NameOf(x)
                                => <<v, x>> \in nights
  BY <1>1, <1>2, <1>5, LateRow DEF LogInv
<1>13. LogTypeOK'
  BY <1>5, <1>6, <1>9, EndTypes
<1>14. Spoilt'
  BY <1>5, <1>6, EndSpoilt DEF LogInv
<1>15. Dated'
  <2>1. \A k \in DOMAIN rows' : rows'[k].created_at <= today'
    BY <1>5, <1>6, <1>9 DEF LogInv, Dated
  <2> QED BY <2>1, <1>5, <1>7 DEF LogInv, Dated
<1>16. Named'
  <2> SUFFICES ASSUME NEW k \in DOMAIN rows', NEW x \in Days,
                      <<rows'[k].user, x>> \notin nights'
               PROVE  /\ x = rows'[k].created_at => rows'[k].day_name = NameOf(x)
                      /\ Apart(rows'[k].created_at, x) < Week /\ rows'[k].day_name = NameOf(x)
                            => x = rows'[k].created_at
    BY DEF Named
  <2>1. CASE k \in DOMAIN rows
    BY <2>1, <1>5, <1>9 DEF LogInv, Named
  <2>2. CASE k = new
    <3>1. CASE d < today
      BY <3>1, <2>2, <1>5, <1>9, <1>12
    <3>2. CASE d = today
      <4>1. x \in Nat
        BY WeekAssumption DEF Days
      <4>2. Apart(today, x) < Week /\ NameOf(today) = NameOf(x) => today = x
        BY <4>1, <1>6, NameUnique
      <4> QED BY <4>2, <3>2, <2>2, <1>9
    <3> QED BY <3>1, <3>2, <1>6
  <2> QED BY <2>1, <2>2, <1>9
<1>17. ASSUME NEW u, NEW x, ~ (u = v /\ x = d), ~ (u = v /\ x = today)
       PROVE  /\ Unwritten(u, x)' = Unwritten(u, x) /\ RowsOf(u, x)' = RowsOf(u, x)
              /\ \A k \in RowsOf(u, x) : rows'[k].hours_logged = rows[k].hours_logged
  <2>1. i \notin Unwritten(u, x)
    BY <1>10, <1>17
  <2>2. Unwritten(u, x)' = Unwritten(u, x)
    BY <2>1, <1>8
  <2> QED BY <2>2, <1>9, <1>11, <1>17
<1>18. ASSUME NEW u, NEW x, <<u, x>> \notin nights, ~ (u = v /\ x = d /\ d = today)
       PROVE  ~ (u = v /\ x = d) /\ ~ (u = v /\ x = today)
  BY <1>18, <1>6, <1>12
<1>19. ASSUME NEW u \in Users, NEW x \in Days, <<u, x>> \notin nights, Budget(u, x)
       PROVE  Budget(u, x)'
  <2>1. CASE u = v /\ x = d /\ d = today
    <3>1. PICK g : /\ g \in [0..Len(writes') -> 0..spent'[<<u, x>>]]
                   /\ Sums(g, u, x)'
                   /\ g[Len(writes')] + writes[i].time <= spent'[<<u, x>>]
                   /\ \A k \in RowsOf(u, x) :
                        rows[k].hours_logged + writes[i].time + g[Len(writes')] <= spent'[<<u, x>>]
      BY <2>1, <1>5, <1>6, <1>19, CallPaid
    <3>2. PICK n : n = Len(writes')
      OBVIOUS
    <3>3. PICK most : most = spent'[<<u, x>>]
      OBVIOUS
    <3>4. g[n] \in 0..most /\ most \in Nat
      <4>1. most \in Nat /\ n \in Nat
        BY <3>2, <3>3, <1>5, <1>6, <1>7, LogTypes
      <4>2. g \in [0..n -> 0..most]
        BY <3>1, <3>2, <3>3
      <4> QED BY <4>1, <4>2
    <3>5. ASSUME NEW k \in RowsOf(u, x)' PROVE rows'[k].hours_logged + g[n] <= most
      <4>1. CASE k \in RowsOf(u, x)
        <5>1. /\ rows'[k].hours_logged = rows[k].hours_logged
              /\ rows[k].hours_logged \in Nat
          BY <4>1, <1>9, <1>11, <1>6, LogTypes
        <5>2. rows[k].hours_logged + t + g[n] <= most
          BY <4>1, <3>1, <3>2, <3>3, <1>3
        <5> QED BY <5>1, <5>2, <3>4, <1>6
      <4>2. CASE k = new
        <5>1. g[n] + t <= most
          BY <3>1, <3>2, <3>3, <1>3
        <5> QED BY <5>1, <4>2, <3>4, <1>6, <1>9
      <4>3. k \in RowsOf(u, x) \cup {new}
        BY <2>1, <1>11
      <4> QED BY <4>1, <4>2, <4>3
    <3> QED BY <3>1, <3>2, <3>3, <3>5 DEF Budget
  <2>2. CASE ~ (u = v /\ x = d /\ d = today)
    BY <2>2, <1>5, <1>6, <1>7, <1>17, <1>18, <1>19, WrittenBudget
  <2> QED BY <2>1, <2>2
<1>20. ASSUME NEW u \in Users, NEW x \in Days, <<u, x>> \notin nights, Exact(u, x)
       PROVE  Exact(u, x)'
  <2>1. CASE u = v /\ x = d /\ d = today
    <3>1. RowsOf(u, x) = {} /\ writes[i].time = spent[<<u, x>>]
      BY <2>1, <1>5, <1>6, <1>20 DEF Exact
    <3>2. RowsOf(u, x)' = {new} /\ rows'[new].hours_logged = spent'[<<u, x>>]
      BY <3>1, <2>1, <1>3, <1>5, <1>9, <1>11
    <3>3. Unwritten(u, x)' = {}
      BY <2>1, <1>6, <1>8, <1>20 DEF Exact
    <3> QED BY <3>2, <3>3 DEF Exact
  <2>2. CASE ~ (u = v /\ x = d /\ d = today)
    <3>1. /\ Unwritten(u, x)' = Unwritten(u, x) /\ RowsOf(u, x)' = RowsOf(u, x)
          /\ \A k \in RowsOf(u, x) : rows'[k].hours_logged = rows[k].hours_logged
      BY <2>2, <1>17, <1>18, <1>20
    <3>2. i \notin Unwritten(u, x)
      BY <2>2, <1>10, <1>18, <1>20
    <3>3. \A j \in Unwritten(u, x) : /\ writes'[j].at = writes[j].at
                                     /\ writes'[j].time = writes[j].time
      BY <3>2, <1>7 DEF Unwritten
    <3> QED BY <3>1, <3>3, <1>5, <1>20 DEF Exact
  <2> QED BY <2>1, <2>2
<1> QED BY <1>5, <1>13, <1>14, <1>15, <1>16, <1>19, <1>20 DEF LogInv

\* A sum is continued by d.
Raised(f, g, top, d) ==
    /\ Rising(g, top + 1) /\ g[top + 1] = f[top] + d
    /\ \A n \in 0..top : g[n] = f[n]

LEMMA CanRaise ==
    ASSUME NEW top \in Nat, NEW most \in Nat, NEW f \in [0..top -> 0..most], Rising(f, top),
           NEW d \in Nat
    PROVE  \E g : g \in [0..(top + 1) -> 0..(most + d)] /\ Raised(f, g, top, d)
<1> USE DEF Rising
<1> DEFINE g == [n \in 0..(top + 1) |-> IF n <= top THEN f[n] ELSE f[top] + d]
<1>1. top \in 0..top /\ 0 \in 0..top
  OBVIOUS
<1>2. \A n \in 0..top : f[n] \in 0..most /\ f[n] <= f[top]
  BY <1>1
<1>3. \A n \in 0..top : n \in 0..(top + 1) /\ n <= top /\ g[n] = f[n]
  OBVIOUS
<1>4. g[top + 1] = f[top] + d
  OBVIOUS
<1>5. \A n \in 0..(top + 1) : n \in 0..top \/ n = top + 1
  OBVIOUS
<1> HIDE DEF g
<1>6. ASSUME NEW n \in 0..(top + 1) PROVE g[n] \in 0..(most + d)
  BY <1>1, <1>2, <1>3, <1>4, <1>5
<1>7. g \in [0..(top + 1) -> 0..(most + d)]
  <2>1. g = [n \in 0..(top + 1) |-> g[n]]
    BY DEF g
  <2> QED BY <2>1, <1>6
<1>8. ASSUME NEW m \in 0..(top + 1), NEW n \in 0..(top + 1), m <= n PROVE g[m] <= g[n]
  <2>1. CASE n \in 0..top
    <3>1. m \in 0..top
      BY <2>1, <1>8
    <3> QED BY <3>1, <2>1, <1>3, <1>8
  <2>2. CASE n = top + 1 /\ m \in 0..top
    <3>1. g[m] = f[m] /\ f[m] <= f[top] /\ f[m] \in 0..most /\ f[top] \in 0..most
      BY <2>2, <1>1, <1>2, <1>3
    <3> QED BY <3>1, <2>2, <1>4
  <2>3. CASE n = top + 1 /\ m = top + 1
    <3>1. g[n] \in 0..(most + d)
      BY <1>6
    <3> QED BY <3>1, <2>3
  <2> QED BY <2>1, <2>2, <2>3, <1>5
<1>9. g[0] = 0
  BY <1>1, <1>3
<1> QED BY <1>3, <1>4, <1>7, <1>8, <1>9 DEF Raised

\* The end of a session appends a call.
LEMMA SessionKeeps ==
    ASSUME LogInv, PresenceInv', NEW v \in Users, LogSession(v) PROVE LogInv'
<1>1. PICK time \in Durations :
         /\ writes' = Append(writes, [user |-> v, time |-> time, day |-> today, at |-> "read"])
         /\ spent' = [spent EXCEPT ![<<v, today>>] = @ + time]
  BY DEF LogSession
<1>2. /\ UNCHANGED <<today, rows, nights>>
      /\ overlapped' = IF Writing(v) THEN overlapped \cup {<<v, today>>} ELSE overlapped
  BY DEF LogSession
<1>3. PICK c : c = [user |-> v, time |-> time, day |-> today, at |-> "read"]
  OBVIOUS
<1>4. PICK top : top = Len(writes)
  OBVIOUS
<1>5. /\ LogTypeOK /\ today \in Nat /\ today \in Days /\ top \in Nat /\ time \in Nat
      /\ writes \in Seq(LogCalls) /\ DOMAIN writes = 1..top
      /\ \A j \in DOMAIN writes : writes[j].time \in Nat
      /\ \A k \in DOMAIN rows : rows[k].hours_logged \in Nat
      /\ \A u \in Users, x \in Days : spent[<<u, x>>] \in Nat
  <2>1. LogTypeOK
    BY DEF LogInv
  <2>2. today \in Days
    BY <2>1 DEF LogTypeOK
  <2>3. time \in Nat
    BY WeekAssumption
  <2> QED BY <2>1, <2>2, <2>3, <1>4, LogTypes
<1>6. c \in LogCalls /\ c.user = v /\ c.time = time /\ c.day = today /\ c.at = "read"
  BY <1>3, <1>5 DEF LogCalls
<1>7. /\ writes' \in Seq(LogCalls) /\ Len(writes') = top + 1
      /\ DOMAIN writes' = DOMAIN writes \cup {top + 1}
      /\ top + 1 \notin DOMAIN writes
      /\ \A j \in DOMAIN writes : writes'[j] = writes[j]
      /\ writes'[top + 1] = c
  <2>1. writes' = Append(writes, c)
    BY <1>1, <1>3
  <2>2. /\ writes' \in Seq(LogCalls) /\ Len(writes') = top + 1
        /\ \A j \in DOMAIN writes : writes'[j] = writes[j]
        /\ writes'[top + 1] = c
    BY <2>1, <1>4, <1>5, <1>6
  <2> QED BY <2>2, <1>5
<1>8. /\ spent' \in [Users \X Days -> Nat]
      /\ spent'[<<v, today>>] = spent[<<v, today>>] + time
      /\ \A u \in Users, x \in Days : ~ (u = v /\ x = today) =>
            spent'[<<u, x>>] = spent[<<u, x>>]
  <2>1. spent \in [Users \X Days -> Nat]
    BY <1>5 DEF LogTypeOK
  <2>2. <<v, today>> \in Users \X Days
    BY <1>5
  <2>3. /\ spent' \in [Users \X Days -> Nat]
        /\ spent'[<<v, today>>] = spent[<<v, today>>] + time
        /\ \A k \in Users \X Days : k # <<v, today>> => spent'[k] = spent[k]
    BY <2>1, <2>2, <1>1, <1>5
  <2>4. \A u \in Users, x \in Days : ~ (u = v /\ x = today) =>
            <<u, x>> \in Users \X Days /\ <<u, x>> # <<v, today>>
    OBVIOUS
  <2> QED BY <2>3, <2>4
<1>9. /\ \A u, x : u = v /\ x = today =>
                         Unwritten(u, x)' = Unwritten(u, x) \cup {top + 1}
      /\ \A u, x : ~ (u = v /\ x = today) => Unwritten(u, x)' = Unwritten(u, x)
      /\ \A u, x : Unwritten(u, x) \subseteq DOMAIN writes
  BY <1>6, <1>7 DEF Unwritten
<1>10. \A u, x : /\ RowsOf(u, x)' = RowsOf(u, x)
                 /\ \A k \in RowsOf(u, x) : rows'[k] = rows[k] /\ rows[k].hours_logged \in Nat
  BY <1>2, <1>5 DEF RowsOf
<1>11. LogTypeOK'
  BY <1>2, <1>5, <1>7, <1>8 DEF LogTypeOK, LogCalls, PresenceInv
<1>12. Dated'
  <2>1. \A j \in DOMAIN writes' : writes'[j].day <= today
    BY <1>5, <1>6, <1>7 DEF LogInv, Dated
  <2>2. \A u \in Users, x \in Days : today < x => spent'[<<u, x>>] = 0
    BY <1>5, <1>8 DEF LogInv, Dated
  <2> QED BY <2>1, <2>2, <1>2 DEF LogInv, Dated
<1>13. Spoilt'
  <2>1. \A j \in DOMAIN writes' : writes'[j].day < today => j \in DOMAIN writes
    BY <1>5, <1>6, <1>7
  <2> QED BY <2>1, <1>2, <1>7 DEF LogInv, Spoilt
<1>14. Named'
  BY <1>2 DEF LogInv, Named
<1>15. ASSUME NEW u \in Users, NEW x \in Days, Budget(u, x) PROVE Budget(u, x)'
  <2>1. PICK d : d = IF u = v /\ x = today THEN time ELSE 0
    OBVIOUS
  <2>2. PICK most : most = spent[<<u, x>>]
    OBVIOUS
  <2>3. d \in Nat /\ most \in Nat /\ spent'[<<u, x>>] = most + d
    <3>1. CASE u = v /\ x = today
      BY <3>1, <2>1, <2>2, <1>5, <1>8
    <3>2. CASE ~ (u = v /\ x = today)
      BY <3>2, <2>1, <2>2, <1>5, <1>8
    <3> QED BY <3>1, <3>2
  <2>4. PICK f :
            /\ f \in [0..Len(writes) -> 0..spent[<<u, x>>]]
            /\ Sums(f, u, x)
            /\ \A k \in RowsOf(u, x) : rows[k].hours_logged + f[Len(writes)] <= spent[<<u, x>>]
    BY <1>15 DEF Budget
  <2>5. f \in [0..top -> 0..most] /\ Rising(f, top)
    BY <2>2, <2>4, <1>4 DEF Sums
  <2>6. PICK g : g \in [0..(top + 1) -> 0..(most + d)] /\ Raised(f, g, top, d)
    BY <2>3, <2>5, <1>5, CanRaise
  <2>7. /\ Rising(g, top + 1) /\ g[top + 1] = f[top] + d
         /\ \A n \in 0..top : g[n] = f[n]
    BY <2>6 DEF Raised
  <2>8. ASSUME NEW j \in Unwritten(u, x)' PROVE g[j - 1] + writes'[j].time <= g[j]
    <3>1. CASE j \in Unwritten(u, x)
      <4>1. j \in DOMAIN writes /\ j \in 0..top /\ j - 1 \in 0..top
        BY <3>1, <1>5, <1>9
      <4>2. f[j - 1] + writes[j].time <= f[j]
        BY <3>1, <2>4 DEF Sums
      <4> QED BY <4>1, <4>2, <2>7, <1>7
    <3>2. CASE j = top + 1 /\ u = v /\ x = today
      <4>1. j - 1 = top /\ top \in 0..top /\ writes'[j].time = d
        BY <3>2, <2>1, <1>5, <1>6, <1>7
      <4>2. g[j - 1] = f[top] /\ f[top] \in 0..most
        BY <4>1, <2>5, <2>7
      <4> QED BY <4>1, <4>2, <3>2, <2>3, <2>7
    <3>3. j \in Unwritten(u, x) \/ (j = top + 1 /\ u = v /\ x = today)
      BY <1>9
    <3> QED BY <3>1, <3>2, <3>3
  <2>9. Sums(g, u, x)'
    BY <2>8, <2>7, <1>7 DEF Sums
  <2>10. ASSUME NEW k \in RowsOf(u, x)'
        PROVE  rows'[k].hours_logged + g[top + 1] <= most + d
    <3>1. k \in RowsOf(u, x) /\ rows'[k] = rows[k] /\ rows[k].hours_logged \in Nat
      BY <1>10
    <3>2. rows[k].hours_logged + f[top] <= most /\ f[top] \in 0..most
      <4>1. top \in 0..top
        BY <1>5
      <4> QED BY <4>1, <3>1, <2>2, <2>4, <2>5, <1>4
    <3>3. g[top + 1] = f[top] + d
      BY <2>7
    <3> QED BY <3>1, <3>2, <3>3, <2>3
  <2> QED BY <2>3, <2>6, <2>9, <2>10, <1>7 DEF Budget
<1>16. ASSUME NEW u \in Users, NEW x \in Days, <<u, x>> \notin nights,
              <<u, x>> \notin overlapped'
       PROVE  Exact(u, x)'
  <2>1. Exact(u, x)
    <3>1. <<u, x>> \notin overlapped
      BY <1>2, <1>16
    <3> QED BY <3>1, <1>16 DEF LogInv
  <2>2. CASE u = v /\ x = today
    <3>1. Unwritten(u, x) = {}
      BY <2>2, <1>2, <1>16 DEF Writing, Unwritten
    <3>2. /\ Unwritten(u, x)' = {top + 1} /\ writes'[top + 1].at = "read"
          /\ writes'[top + 1].time = time
      BY <3>1, <2>2, <1>6, <1>7, <1>9
    <3>3. /\ RowsOf(u, x) = {} => spent[<<u, x>>] = 0
          /\ \A k \in RowsOf(u, x) : rows[k].hours_logged = spent[<<u, x>>]
          /\ \A k, l \in RowsOf(u, x) : k = l
      BY <3>1, <2>1 DEF Exact
    <3>4. RowsOf(u, x) = {} => time = spent'[<<u, x>>]
      BY <3>3, <2>2, <1>5, <1>8
    <3>5. \A k \in RowsOf(u, x) : rows'[k].hours_logged + time = spent'[<<u, x>>]
      BY <3>3, <2>2, <1>8, <1>10
    <3> QED BY <3>2, <3>3, <3>4, <3>5, <1>10 DEF Exact
  <2>3. CASE ~ (u = v /\ x = today)
    <3>1. Unwritten(u, x)' = Unwritten(u, x) /\ Unwritten(u, x) \subseteq DOMAIN writes
      BY <2>3, <1>9
    <3>2. \A j \in Unwritten(u, x) : writes'[j] = writes[j]
      BY <3>1, <1>7
    <3>3. spent'[<<u, x>>] = spent[<<u, x>>]
      BY <2>3, <1>8
    <3> QED BY <3>1, <3>2, <3>3, <2>1, <1>10 DEF Exact
  <2> QED BY <2>2, <2>3
<1> QED BY <1>2, <1>11, <1>12, <1>13, <1>14, <1>15, <1>16 DEF LogInv

\* Midnight spoils the days about which a call is under way, and no more.
LEMMA MidnightKeeps == ASSUME LogInv, PresenceInv', Midnight PROVE LogInv'
<1>1. /\ today' = today + 1 /\ UNCHANGED <<rows, writes, spent, overlapped>>
      /\ nights' = nights \cup
          {<<u, d>> : u \in {v \in Users : Writing(v)}, d \in {today, today + 1, today + Week}}
      /\ today < MaxDay
  BY DEF Midnight
<1>2. LogTypeOK /\ today \in Nat /\ Week \in Nat \ {0} /\ MaxDay \in Nat
  BY LogTypes, WeekAssumption DEF LogInv
<1>3. nights \subseteq nights'
  BY <1>1
<1>4. LogTypeOK'
  <2>1. today' \in Days
    BY <1>1, <1>2 DEF Days
  <2> QED BY <2>1, <1>1, <1>2 DEF LogTypeOK, PresenceInv
<1>5. Dated'
  <2>1. /\ \A i \in DOMAIN writes : writes[i].day \in Nat
        /\ \A k \in DOMAIN rows : rows[k].created_at \in Nat
        /\ Days \subseteq Nat
    BY <1>2, LogTypes
  <2>2. Dated
    BY DEF LogInv
  <2> QED BY <2>1, <2>2, <1>1, <1>2 DEF Dated
<1>6. Spoilt'
  <2> SUFFICES ASSUME NEW i \in DOMAIN writes, writes[i].at # "done",
                      NEW y \in writes[i].day..(today + 1)
               PROVE  /\ <<writes[i].user, y>> \in nights'
                      /\ y < today + 1 => <<writes[i].user, y + Week>> \in nights'
    BY <1>1 DEF Spoilt
  <2>1. PICK d : d = writes[i].day
    OBVIOUS
  <2>2. PICK v : v = writes[i].user
    OBVIOUS
  <2>3. /\ <<v, today>> \in nights' /\ <<v, today + 1>> \in nights'
        /\ <<v, today + Week>> \in nights'
    <3>1. v \in Users
      BY <2>2, <1>2, LogTypes
    <3>2. Writing(v)
      BY <2>2 DEF Writing
    <3> QED BY <3>1, <3>2, <1>1
  <2>4. d \in Nat /\ d <= today /\ y \in d..(today + 1)
    BY <2>1, <1>2, LogTypes DEF LogInv, Dated
  <2>5. CASE y < today
    <3>1. d < today /\ y \in d..today
      BY <2>4, <2>5, <1>2
    <3>2. <<v, y>> \in nights /\ <<v, y + Week>> \in nights
      BY <3>1, <2>1, <2>2, <2>5 DEF LogInv, Spoilt
    <3> QED BY <3>2, <2>2, <1>3
  <2>6. CASE y = today
    BY <2>2, <2>3, <2>6
  <2>7. CASE y = today + 1
    BY <2>2, <2>3, <2>7, <1>2
  <2> QED BY <2>4, <2>5, <2>6, <2>7, <1>2
<1>7. Named'
  <2>1. Named
    BY DEF LogInv
  <2> QED BY <2>1, <1>1, <1>3 DEF Named
<1>8. ASSUME NEW u, NEW x
      PROVE  (Budget(u, x) <=> Budget(u, x)') /\ (Exact(u, x) <=> Exact(u, x)')
  BY <1>1 DEF Budget, Sums, Exact, Unwritten, RowsOf
<1>9. ASSUME NEW u \in Users, NEW x \in Days, <<u, x>> \notin nights'
      PROVE  Budget(u, x)' /\ (<<u, x>> \notin overlapped' => Exact(u, x)')
  BY <1>1, <1>3, <1>8, <1>9 DEF LogInv
<1> QED BY <1>4, <1>5, <1>6, <1>7, <1>9 DEF LogInv

LEMMA QuietLog == ASSUME LogInv, PresenceInv', UNCHANGED logVars PROVE LogInv'
<1>1. UNCHANGED <<today, rows, writes, spent, overlapped, nights>>
  BY DEF logVars
<1>2. LogTypeOK'
  BY <1>1 DEF LogInv, LogTypeOK, PresenceInv
<1>3. Dated' /\ Spoilt' /\ Named'
  BY <1>1 DEF LogInv, Dated, Spoilt, Named
<1>4. ASSUME NEW u, NEW x
      PROVE  (Budget(u, x) <=> Budget(u, x)') /\ (Exact(u, x) <=> Exact(u, x)')
  BY <1>1 DEF Budget, Sums, Exact, Unwritten, RowsOf
<1> QED BY <1>1, <1>2, <1>3, <1>4 DEF LogInv

LEMMA LogStart == LogInit => LogInv
<1> SUFFICES ASSUME LogInit PROVE LogInv
  OBVIOUS
<1>1. PresenceInv
  BY PresenceStart DEF LogInit
<1>2. /\ today = 0 /\ rows = <<>> /\ writes = <<>>
      /\ spent = [k \in Users \X Days |-> 0]
      /\ DOMAIN writes = {} /\ DOMAIN rows = {} /\ Len(writes) = 0
  BY DEF LogInit
<1>3. 0 \in Days
  BY WeekAssumption DEF Days
<1>4. \A u \in Users, x \in Days : spent[<<u, x>>] = 0
  BY <1>2
<1>5. LogTypeOK
  <2>1. rows \in Seq(LogRows) /\ writes \in Seq(LogCalls)
    BY <1>2
  <2>2. spent \in [Users \X Days -> Nat]
    BY <1>2
  <2> QED BY <2>1, <2>2, <1>1, <1>2, <1>3 DEF LogTypeOK, LogRows, LogCalls, PresenceInv
<1>6. Dated /\ Spoilt /\ Named
  BY <1>2, <1>4 DEF Dated, Spoilt, Named
<1>7. \A u, x : Unwritten(u, x) = {} /\ RowsOf(u, x) = {}
  BY <1>2 DEF Unwritten, RowsOf
<1>8. ASSUME NEW u \in Users, NEW x \in Days PROVE Budget(u, x) /\ Exact(u, x)
  <2>1. PICK f : f = [n \in 0..0 |-> 0]
    OBVIOUS
  <2>2. f \in [0..Len(writes) -> 0..spent[<<u, x>>]]
    BY <2>1, <1>2, <1>4
  <2>3. Rising(f, 0)
    BY <2>1 DEF Rising
  <2>4. Sums(f, u, x)
    BY <2>3, <1>2, <1>7 DEF Sums
  <2>5. Budget(u, x)
    BY <2>2, <2>4, <1>7 DEF Budget
  <2> QED BY <2>5, <1>4, <1>7 DEF Exact
<1> QED BY <1>1, <1>5, <1>6, <1>8 DEF LogInv

\* The steps of the log are steps of the connections.
LEMMA LogIsPresence == ASSUME [LogNext]_<<presence, logVars>> PROVE [PresenceNext]_presence
  BY DEF LogNext, PresenceNext, presence

LEMMA LogStep == LogInv /\ [LogNext]_<<presence, logVars>> => LogInv'
<1> SUFFICES ASSUME LogInv, [LogNext]_<<presence, logVars>> PROVE LogInv'
  OBVIOUS
<1>1. PresenceInv'
  BY PresenceStep, LogIsPresence DEF LogInv
<1>2. CASE UNCHANGED logVars
  BY <1>1, <1>2, QuietLog
<1>3. ASSUME NEW t \in Tabs, LogSession(Owner[t]) PROVE LogInv'
  BY <1>1, <1>3, SessionKeeps, TabsAssumption
<1>4. ASSUME NEW i \in DOMAIN writes, Read(i) \/ Insert(i) \/ Update(i) PROVE LogInv'
  BY <1>1, <1>4, ReadKeeps, InsertKeeps, UpdateKeeps
<1>5. CASE Midnight
  BY <1>1, <1>5, MidnightKeeps
<1>6. UNCHANGED <<presence, logVars>> => UNCHANGED logVars
  OBVIOUS
<1> QED BY <1>2, <1>3, <1>4, <1>5, <1>6 DEF LogNext

(***************************************************************************)
(* The chart.                                                              *)
(***************************************************************************)

\* The rows of the week with a day's name are the rows of the day.
LEMMA NamedRows ==
    ASSUME LogInv, NEW u \in Users, NEW x \in Days, <<u, x>> \notin nights,
           x \in (today - Week + 1)..today
    PROVE  {k \in LogtimeOfUserWeek(u) : rows[k].day_name = NameOf(x)} = RowsOf(u, x)
<1>1. /\ LogTypeOK /\ today \in Nat /\ x \in Nat /\ Week \in Nat \ {0}
      /\ \A k \in DOMAIN rows : rows[k].created_at \in Nat
  BY LogTypes DEF LogInv
<1>2. ASSUME NEW k \in LogtimeOfUserWeek(u), rows[k].day_name = NameOf(x)
      PROVE  k \in RowsOf(u, x)
  <2>1. /\ k \in DOMAIN rows /\ rows[k].user = u
        /\ rows[k].created_at \in (today - Week + 1)..today
    BY DEF LogtimeOfUserWeek
  <2>2. Apart(rows[k].created_at, x) < Week
    BY <2>1, <1>1 DEF Apart
  <2>3. x = rows[k].created_at
    BY <2>1, <2>2, <1>2 DEF LogInv, Named
  <2> QED BY <2>1, <2>3 DEF RowsOf
<1>3. ASSUME NEW k \in RowsOf(u, x)
      PROVE  k \in LogtimeOfUserWeek(u) /\ rows[k].day_name = NameOf(x)
  <2>1. k \in DOMAIN rows /\ rows[k].user = u /\ rows[k].created_at = x
    BY DEF RowsOf
  <2>2. rows[k].day_name = NameOf(x)
    BY <2>1 DEF LogInv, Named
  <2> QED BY <2>1, <2>2 DEF LogtimeOfUserWeek
<1> QED BY <1>2, <1>3

LEMMA BarIsRow ==
    ASSUME LogInv, NEW u \in Users, NEW x \in Days, <<u, x>> \notin nights,
           x \in (today - Week + 1)..today
    PROVE  \/ RowsOf(u, x) = {} /\ Bar(u, x) = 0
           \/ \E k \in RowsOf(u, x) : Bar(u, x) = rows[k].hours_logged
<1>1. PICK named : named = {k \in LogtimeOfUserWeek(u) : rows[k].day_name = NameOf(x)}
  OBVIOUS
<1>2. named = RowsOf(u, x)
  BY <1>1, NamedRows
<1>3. Bar(u, x) = IF named = {} THEN 0 ELSE rows[FirstOf(named)].hours_logged
  BY <1>1, Zenon DEF Bar
<1>4. CASE named = {}
  BY <1>2, <1>3, <1>4
<1>5. CASE named # {}
  <2>1. named \in SUBSET Nat
    <3>1. DOMAIN rows \subseteq Nat
      BY LogTypes DEF LogInv
    <3> QED BY <3>1, <1>2 DEF RowsOf
  <2>2. \E k \in named : \A l \in named : <<l, k>> \notin OpToRel(<, Nat)
    BY <1>5, <2>1, NatLessThanWellFounded, WFMin, Zenon
  <2>3. \A k \in named, l \in named : <<l, k>> \notin OpToRel(<, Nat) => k <= l
    BY <2>1 DEF OpToRel
  <2>4. \E k \in named : \A l \in named : k <= l
    BY <2>2, <2>3
  <2>5. FirstOf(named) \in named
    BY <2>4, Zenon DEF FirstOf
  <2> QED BY <2>5, <1>2, <1>3, <1>5
<1> QED BY <1>4, <1>5

LEMMA ChartFollows == LogInv => LogIsKept
<1> SUFFICES ASSUME LogInv PROVE LogIsKept
  OBVIOUS
<1>1. LogTypeOK
  BY DEF LogInv
<1>2. ASSUME NEW u \in Users, NEW x \in (today - Week + 1)..today, x \in Days,
             <<u, x>> \notin nights
      PROVE  /\ Bar(u, x) <= spent[<<u, x>>]
             /\ ~ Writing(u) /\ <<u, x>> \notin overlapped => Bar(u, x) = spent[<<u, x>>]
  <2>1. \/ RowsOf(u, x) = {} /\ Bar(u, x) = 0
        \/ \E k \in RowsOf(u, x) : Bar(u, x) = rows[k].hours_logged
    BY <1>2, BarIsRow
  <2>2. /\ spent[<<u, x>>] \in Nat
        /\ \A k \in RowsOf(u, x) : rows[k].hours_logged \in Nat
    BY <1>1, <1>2, LogTypes DEF RowsOf
  <2>3. \A k \in RowsOf(u, x) : rows[k].hours_logged <= spent[<<u, x>>]
    <3>1. PICK f :
            /\ f \in [0..Len(writes) -> 0..spent[<<u, x>>]]
            /\ \A k \in RowsOf(u, x) : rows[k].hours_logged + f[Len(writes)] <= spent[<<u, x>>]
      BY <1>2 DEF LogInv, Budget
    <3>2. PICK n : n = f[Len(writes)]
      OBVIOUS
    <3>3. n \in Nat
      <4>1. Len(writes) \in 0..Len(writes)
        BY <1>1, LogTypes
      <4> QED BY <4>1, <3>1, <3>2, <2>2
    <3>4. \A k \in RowsOf(u, x) : rows[k].hours_logged + n <= spent[<<u, x>>]
      BY <3>1, <3>2
    <3> QED BY <3>3, <3>4, <2>2
  <2>4. Bar(u, x) <= spent[<<u, x>>]
    BY <2>1, <2>2, <2>3
  <2>5. ASSUME ~ Writing(u), <<u, x>> \notin overlapped PROVE Bar(u, x) = spent[<<u, x>>]
    <3>1. Unwritten(u, x) = {}
      BY <2>5 DEF Writing, Unwritten
    <3>2. Exact(u, x)
      BY <1>2, <2>5 DEF LogInv
    <3> QED BY <3>1, <3>2, <2>1 DEF Exact
  <2> QED BY <2>4, <2>5
<1> QED BY <1>1, <1>2 DEF LogIsKept, ChartIsTrue

THEOREM LogInvariant == LogSpec => []LogInv
  BY LogStart, LogStep, PTL DEF LogSpec

(***************************************************************************)
(* The chart never shows more than the time of the sessions of a day, and  *)
(* exactly that when no calls overlapped and none saw midnight.            *)
(***************************************************************************)
THEOREM LogKept == LogSpec => []LogIsKept
  BY LogInvariant, ChartFollows, PTL
=============================================================================
