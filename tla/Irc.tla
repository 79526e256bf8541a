--------------------------------- MODULE Irc ---------------------------------
(***************************************************************************)
(* The server of 0x14-IrcServer: its connections, their registration, and  *)
(* the channels.  One thread polls and handles one command of one client   *)
(* at a time, so an action is one turn of the loop of                      *)
(* MonitorClientMovements, with the handler it calls; QUIT takes two.      *)
(*                                                                         *)
(* Clients and channel members are found by file descriptor, and accept    *)
(* returns the lowest one that is free.  What is sent is not modelled, but *)
(* for one effect: main handles SIGPIPE by exiting, so a send to a client  *)
(* that has hung up may end the server.  Undefined behaviour ends it or    *)
(* goes on.  USER, TOPIC and +t only store what no other command reads.    *)
(***************************************************************************)
EXTENDS Integers, FiniteSets

CONSTANTS
    Fds,            \* the descriptors that accept may return
    Nicks, Chans, Keys, Limits,     \* the words that clients use
    NoNick, NoKey

ASSUME NamesAssumption ==
    /\ Fds \subseteq Nat /\ IsFiniteSet(Fds)
    /\ NoNick \notin Nicks
    /\ NoKey \notin Keys
    /\ Limits \subseteq Nat

Flags == {"i", "k", "l"}
DefaultLimit == 10

VARIABLES
    polled,         \* descriptors in pfds
    clients,        \* keys of Clients
    accepted,       \* clients that gave the password
    nick,           \* nickName, NoNick for ""
    channels,       \* keys of Channels
    chan,           \* their contents
    gone,           \* polled clients that have hung up
    again,          \* the entry of pfds that the loop goes round with after QUIT
    left,           \* history: <<f, c>> if a connection with descriptor f was
                    \* lost while it was in c or invited there
    crashed         \* the process has ended

ircVars == <<polled, clients, accepted, nick, channels, chan, gone, again, left, crashed>>
connVars == <<polled, clients, accepted, nick, gone, again, left>>

Contents ==
    [mode : SUBSET Flags, key : Keys \cup {NoKey},
     max_users : Limits \cup {DefaultLimit},
     members : SUBSET Fds, operators : SUBSET Fds, invited : SUBSET Fds]

NoMode == [mode |-> {}, key |-> NoKey, max_users |-> DefaultLimit,
           members |-> {}, operators |-> {}, invited |-> {}]

IrcInit ==
    /\ polled = {} /\ clients = {} /\ accepted = {}
    /\ nick = [f \in Fds |-> NoNick]
    /\ channels = {}
    /\ chan = [c \in Chans |-> NoMode]
    /\ gone = {} /\ again = {} /\ left = {}
    /\ crashed = FALSE

MayCrash == crashed' \in BOOLEAN

SendTo(fds) == IF fds \cap gone = {} THEN UNCHANGED crashed ELSE MayCrash

Member(f, c) == f \in chan[c].members
Operator(f, c) == f \in chan[c].operators
Known(g) == g \in clients /\ nick[g] # NoNick   \* getClient by nickname

----------------------------------------------------------------------------
(* Connections. *)

AcceptNewClient(f) ==
    /\ f \in Fds \ polled
    /\ \A g \in Fds \ polled : f <= g
    /\ polled' = polled \cup {f}
    /\ clients' = clients \cup {f}
    /\ accepted' = accepted \ {f}
    /\ nick' = [nick EXCEPT ![f] = NoNick]
    /\ UNCHANGED <<channels, chan, gone, again, left, crashed>>

(* The client closes its socket; what it has sent before is still read. *)
HangUp(f) ==
    /\ f \in polled \ gone
    /\ gone' = gone \cup {f}
    /\ UNCHANGED <<polled, clients, accepted, nick, channels, chan, again, left,
                   crashed>>

(* Both erases, in whichever handler. *)
Unlist(f) ==
    /\ clients' = clients \ {f}
    /\ accepted' = accepted \ {f}
    /\ nick' = [nick EXCEPT ![f] = NoNick]

Unpoll(f) ==
    /\ polled' = polled \ {f}
    /\ gone' = gone \ {f}

Forget(f) == Unlist(f) /\ Unpoll(f)

(* recv returns nothing: the channels keep the descriptor. *)
Disconnect(f) ==
    /\ f \in gone
    /\ Forget(f)
    /\ left' = left \cup {<<f, c>> : c \in {d \in Chans :
                                  f \in chan[d].members \cup chan[d].invited}}
    /\ UNCHANGED <<channels, chan, again, crashed>>

Pass(f) ==
    /\ f \in polled \ accepted
    /\ accepted' = accepted \cup {f}
    /\ UNCHANGED <<polled, clients, nick, channels, chan, gone, again, left, crashed>>

(* The entry in Clients stays, until the descriptor is used again. *)
WrongPass(f) ==
    /\ f \in polled \ accepted
    /\ Unpoll(f)
    /\ SendTo({f})
    /\ UNCHANGED <<clients, accepted, nick, channels, chan, again, left>>

(* Any other command before PASS; clientIt is used after its erase. *)
Refuse(f) ==
    /\ f \in polled \ accepted
    /\ Forget(f)
    /\ MayCrash
    /\ UNCHANGED <<channels, chan, again, left>>

(* An unknown command, PING, or one that a handler refuses. *)
Answer(f) ==
    /\ f \in polled \cap gone
    /\ SendTo({f})
    /\ UNCHANGED <<connVars, channels, chan>>

Nick(f, n) ==
    /\ f \in polled \cap accepted
    /\ \A g \in clients : nick[g] # n
    /\ nick' = [nick EXCEPT ![f] = n]
    /\ SendTo({f})
    /\ UNCHANGED <<polled, clients, accepted, channels, chan, gone, again, left>>

(* QUIT closes the descriptor and erases the client, with its invitations and
   memberships, but no channel.  The loop over the invitations goes on from the
   erased one. *)
Leave(f, uninvited) ==
    /\ f \in polled \cap accepted
    /\ Unlist(f)
    /\ again' = {f}
    /\ chan' = [c \in Chans |-> [chan[c] EXCEPT
            !.members = @ \ {f}, !.operators = @ \ {f},
            !.invited = @ \ uninvited]]
    /\ MayCrash
    /\ UNCHANGED <<polled, channels, gone, left>>

QuitInvited(f) == Leave(f, {})      \* fault: the invitations stay

Quit(f) == Leave(f, {f})

(* The loop has gone on with the same entry: recv fails, and what is read and
   written through Clients.end() ends the process or does no harm. *)
GoRound(f) ==
    /\ f \in again
    /\ again' = {}
    /\ Unpoll(f)
    /\ MayCrash
    /\ UNCHANGED <<clients, accepted, nick, channels, chan, left>>

----------------------------------------------------------------------------
(* Channels. *)

Change(c, new) ==
    /\ chan' = [chan EXCEPT ![c] = new]
    /\ UNCHANGED connVars

(* JOIN of a name that no channel has: the first member is its operator. *)
Found(f, c, key) ==
    /\ f \in polled \cap accepted
    /\ c \notin channels
    /\ channels' = channels \cup {c}
    /\ Change(c, [NoMode EXCEPT
            !.mode = IF key = NoKey THEN {} ELSE {"k"},
            !.key = key, !.members = {f}, !.operators = {f}])
    /\ SendTo({f})

(* The limit counts only where no invitation is needed. *)
Enter(f, c, key, room) ==
    LET ch == chan[c] IN
    /\ f \in polled \cap accepted
    /\ c \in channels
    /\ "k" \in ch.mode => key # NoKey /\ key = ch.key
    /\ IF "i" \in ch.mode THEN f \in ch.invited ELSE "l" \in ch.mode => room
    /\ Change(c, [ch EXCEPT !.members = @ \cup {f}])
    /\ SendTo(ch.members \cup {f})
    /\ UNCHANGED channels

(* fault: size() where the code has size() + 1 *)
JoinOneMore(f, c, key) ==
    Enter(f, c, key, Cardinality(chan[c].members) <= chan[c].max_users)

Join(f, c, key) ==
    Enter(f, c, key, Cardinality(chan[c].members) + 1 <= chan[c].max_users)

Message(f, recipients) ==
    /\ f \in polled \cap accepted
    /\ SendTo(recipients)
    /\ UNCHANGED <<connVars, channels, chan>>

Privmsg(f) ==
    \/ \E g \in clients : Known(g) /\ Message(f, {g})
    \/ \E c \in channels : Member(f, c) /\ Message(f, chan[c].members \ {f})

Invite(f, g, c) ==
    /\ f \in polled
    /\ c \in channels
    /\ Operator(f, c)
    /\ Known(g) /\ ~Member(g, c)
    /\ Change(c, [chan[c] EXCEPT !.invited = @ \cup {g}])
    /\ SendTo({f, g})
    /\ UNCHANGED channels

Without(ch, f) == [ch EXCEPT !.members = @ \ {f}, !.operators = @ \ {f}]

(* A channel from which the last member is kicked stays, empty. *)
Kick(f, g, c) ==
    /\ f \in polled \cap accepted
    /\ c \in channels
    /\ Operator(f, c)
    /\ Known(g) /\ Member(g, c)
    /\ Change(c, Without(chan[c], g))
    /\ SendTo(chan[c].members)
    /\ UNCHANGED channels

(* The last member to part erases the channel. *)
Part(f, c) ==
    LET rest == Without(chan[c], f) IN
    /\ f \in polled \cap accepted
    /\ c \in channels
    /\ Member(f, c)
    /\ channels' = IF rest.members = {} THEN channels \ {c} ELSE channels
    /\ Change(c, IF rest.members = {} THEN NoMode ELSE rest)
    /\ SendTo(chan[c].members)

----------------------------------------------------------------------------
(* MODE, one flag at a time. *)

Commands(f, c) ==
    /\ f \in polled \cap accepted
    /\ c \in channels
    /\ Operator(f, c)

ModeTo(f, c, new) ==
    /\ Commands(f, c)
    /\ Change(c, new)
    /\ SendTo(chan[c].members)
    /\ UNCHANGED channels

(* Without a sign s2nm reads an uninitialized action: it adds, removes or
   throws. *)
SetFlag(f, c, x) ==
    \/ \E mode \in {chan[c].mode \cup {x}, chan[c].mode \ {x}, chan[c].mode} :
          ModeTo(f, c, [chan[c] EXCEPT !.mode = mode])
    \/ \E key \in Keys :
          /\ x = "k"
          /\ ModeTo(f, c, [chan[c] EXCEPT !.mode = @ \cup {x}, !.key = key])
    \/ \E n \in Limits :
          /\ x = "l"
          /\ ModeTo(f, c, [chan[c] EXCEPT !.mode = @ \cup {x}, !.max_users = n])

(* fault: isOperator is not asked *)
AppointUnasked(f, g, c) ==
    /\ f \in polled \cap accepted
    /\ c \in channels /\ Member(f, c)
    /\ Known(g) /\ Member(g, c)
    /\ Change(c, [chan[c] EXCEPT !.operators = @ \cup {g}])
    /\ SendTo(chan[c].members)
    /\ UNCHANGED channels

(* +o *)
Appoint(f, g, c) ==
    /\ Known(g) /\ Member(g, c)
    /\ ModeTo(f, c, [chan[c] EXCEPT !.operators = @ \cup {g}])

(* -o takes the right from the operator that gives the command. *)
StepDown(f, g, c) ==
    /\ Known(g) /\ Member(g, c)
    /\ ModeTo(f, c, [chan[c] EXCEPT !.operators = @ \ {f}])

(* +o and -o of a client that is no member read through members.end(); KICK,
   PART and MODE look at arguments that may not be there. *)
BadArguments(f) ==
    /\ f \in polled \cap accepted
    /\ MayCrash
    /\ UNCHANGED <<connVars, channels, chan>>

----------------------------------------------------------------------------
Connection(f) ==
    \/ AcceptNewClient(f) \/ Disconnect(f)
    \/ Pass(f) \/ WrongPass(f) \/ Refuse(f) \/ Answer(f) \/ Quit(f)
    \/ \E n \in Nicks : Nick(f, n)
    \/ Privmsg(f) \/ BadArguments(f)

OnChannel(f, c) ==
    \/ \E key \in Keys \cup {NoKey} : Found(f, c, key) \/ Join(f, c, key)
    \/ Part(f, c)
    \/ \E g \in Fds : Invite(f, g, c) \/ Kick(f, g, c)
                      \/ Appoint(f, g, c) \/ StepDown(f, g, c)
    \/ \E x \in Flags : SetFlag(f, c, x)

IrcNext ==
    /\ ~crashed
    /\ \E f \in Fds :
          \/ HangUp(f)
          \/ GoRound(f)
          \/ again = {} /\ (Connection(f) \/ \E c \in Chans : OnChannel(f, c))

IrcSpec == IrcInit /\ [][IrcNext]_ircVars

----------------------------------------------------------------------------
(* Every variable stays in its range, and operators are members. *)
IrcTypeOK ==
    /\ polled \subseteq Fds /\ clients \subseteq Fds
    /\ accepted \subseteq clients
    /\ nick \in [Fds -> Nicks \cup {NoNick}]
    /\ channels \subseteq Chans
    /\ chan \in [Chans -> Contents]
    /\ \A c \in Chans : chan[c].operators \subseteq chan[c].members
    /\ gone \subseteq polled
    /\ again \subseteq polled /\ \A f, g \in again : f = g
    /\ left \subseteq Fds \X Chans
    /\ crashed \in BOOLEAN

(* Every descriptor that is polled has a client, as MonitorClientMovements uses
   what getClient returns without looking, except the one that has just quit:
   the loop looks for its client once, and there is none. *)
PolledAreClients == polled \ again \subseteq clients

(* Nicknames tell clients apart, whoever comes, goes and renames: INVITE, KICK
   and +o go by them. *)
NicksAreUnique ==
    \A f, g \in clients : nick[f] = nick[g] /\ nick[f] # NoNick => f = g

(* A descriptor in a channel is of a client with the password whose own
   connection has joined or was invited, or it is what a lost connection has left
   in that very channel: QUIT, a wrong password and a refusal leave nothing that
   the next connection with the descriptor would find. *)
ChannelsHoldClients ==
    \A c \in Chans : \A f \in chan[c].members \cup chan[c].invited :
        f \in polled \cap accepted \/ <<f, c>> \in left

(* The three tables agree on who is there, whichever way a client goes. *)
TablesAgree == PolledAreClients /\ NicksAreUnique /\ ChannelsHoldClients

(* Whoever enters a channel was invited where that is asked for, and does not
   enter a full one where it is not. *)
EntryStep ==
    \A c \in channels :
        LET new == chan'[c].members \ chan[c].members IN
        new # {} =>
            IF "i" \in chan[c].mode THEN new \subseteq chan[c].invited
            ELSE "l" \in chan[c].mode =>
                    Cardinality(chan'[c].members) <= chan[c].max_users

EntryObeysModes == [][EntryStep]_ircVars

(* Operators come from operators: a channel that has lost its last one never
   has another, until it is erased. *)
OperatorStep ==
    \A c \in channels \cap channels' :
        chan[c].operators = {} => chan'[c].operators = {}

OperatorsAreAppointed == [][OperatorStep]_ircVars

=============================================================================
