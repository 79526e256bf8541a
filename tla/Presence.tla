------------------------------ MODULE Presence ------------------------------
(***************************************************************************)
(* Who is connected.  One socket of a tab serves the chat and the game:    *)
(* chat/socket.js keeps onlineUsers and game/socket.js online_players, and *)
(* each has a handler of the connection and one of its end.  They run in   *)
(* this order, and the second one refuses a user that is already there:    *)
(* the socket is closed before the connection's event is over.             *)
(***************************************************************************)
EXTENDS Naturals

CONSTANTS Users,        \* the users
          Tabs,         \* their tabs, each connected or not
          Owner,        \* Owner[t]: the user of tab t
          NoTab         \* no socket

ASSUME TabsAssumption == Owner \in [Tabs -> Users] /\ NoTab \notin Tabs

VARIABLES connected,    \* the tabs with a socket
          online,       \* onlineUsers: a socket for each user
          players,      \* online_players: the socket of the Player of each user
          latest        \* history: the tab of a user that registered last

presence == <<connected, online, players, latest>>

PresenceTypeOK ==
    /\ connected \subseteq Tabs
    /\ {online, players, latest} \subseteq [Users -> Tabs \cup {NoTab}]

PresenceInit ==
    /\ connected = {}
    /\ online = [u \in Users |-> NoTab]
    /\ players = [u \in Users |-> NoTab]
    /\ latest = [u \in Users |-> NoTab]

\* Only the entry that names this socket is deleted.
Offline(t) == [u \in Users |-> IF online[u] = t THEN NoTab ELSE online[u]]

\* fault: every tab is let in, as the chat does
AcceptedAll(t) == TRUE
\* The game server takes a user that has no Player, whose socket may be gone.
Accepted(t) == players[Owner[t]] = NoTab

\* The chat registers a socket with a valid token; then the game server
\* closes it if it has no user or that user is already connected, which takes
\* the entry of the user out of onlineUsers again.
Connect(t, valid) ==
    /\ t \notin connected
    /\ LET u == Owner[t]
           stays == valid /\ Accepted(t)
       IN /\ connected' = IF stays THEN connected \cup {t} ELSE connected
          /\ players' = IF stays THEN [players EXCEPT ![u] = t] ELSE players
          /\ online' = IF valid THEN [online EXCEPT ![u] = IF stays THEN t ELSE NoTab]
                       ELSE online
          /\ latest' = IF valid THEN [latest EXCEPT ![u] = t] ELSE latest

\* "register": sent after every connection and by the chat page when it opens.
Registered(t) ==
    /\ online' = [online EXCEPT ![Owner[t]] = t]
    /\ latest' = [latest EXCEPT ![Owner[t]] = t]
    /\ UNCHANGED <<connected, players>>

Register(t) == t \in connected /\ Registered(t)

(* The end of a connection.  The chat forgets it at once.  The game server
   first takes its player out of a tournament that has not begun, and then
   awaits the bracket that it sends to the others. *)
HangUp(t) ==
    /\ t \in connected
    /\ connected' = connected \ {t}
    /\ online' = Offline(t)
    /\ UNCHANGED latest

Disconnect(t) ==
    /\ HangUp(t)
    /\ players' = [players EXCEPT ![Owner[t]] = NoTab]

DisconnectInLobby(t) == HangUp(t) /\ UNCHANGED players

Removed(t) ==
    /\ t \notin connected /\ players[Owner[t]] = t
    /\ players' = [players EXCEPT ![Owner[t]] = NoTab]
    /\ UNCHANGED <<connected, online, latest>>

(***************************************************************************)
(* The entry of a user in onlineUsers is the tab that registered last, as  *)
(* long as that is connected, and there is none afterwards: no entry is    *)
(* left of a tab that was closed or refused (chat/socket.js:192, 352).     *)
(***************************************************************************)
NewestIsOnline ==
    \A u \in Users : online[u] = IF latest[u] \in connected THEN latest[u] ELSE NoTab

(***************************************************************************)
(* Whom the chat shows online has a Player of the game server on the same  *)
(* socket, which is connected, whatever tabs come and go while an earlier  *)
(* one is being taken out of its tournament (game/socket.js:149, 177).     *)
(***************************************************************************)
OnlineCanPlay ==
    \A u \in Users : online[u] # NoTab =>
        online[u] \in connected /\ players[u] = online[u]

(***************************************************************************)
(* The three tables of connections agree (chat/socket.js:200,              *)
(* game/socket.js:149).                                                    *)
(***************************************************************************)
PresenceIsKept == NewestIsOnline /\ OnlineCanPlay
=============================================================================
