--------------------------- MODULE TournamentPages ---------------------------
(***************************************************************************)
(* The pages of tournaments in the browser (front-end/src/app/(app)/game/  *)
(* mode/tournament, context/SocketContext.tsx) on top of Lobby: what a tab *)
(* asks for when its page changes, what the server's answers do to its     *)
(* page, and what is lost with a connection.                               *)
(*                                                                         *)
(* A tab has one socket object, whose connections are sessions of Lobby,   *)
(* one after the other.  Packets keep their order within a connection;     *)
(* socket.io keeps those that are sent without a connection for the next.  *)
(* A session without a tab stands for a client that sends what it likes.   *)
(***************************************************************************)
EXTENDS Lobby, Sequences

CONSTANTS
    Tabs,
    NoTab,
    TabOf,          \* the tab that opens a session, if any
    NoLink,
    FirstPages,     \* bound: the pages a tab is opened at, and goes to by links
    MaxClicks       \* bound: what the user of a tab does, all in all

ASSUME TabsAssumption ==
    /\ NoTab \notin Tabs
    /\ TabOf \in [Sessions -> Tabs \cup {NoTab}]
    /\ NoLink \notin Sessions
    /\ FirstPages \subseteq {"other", "list", "bracket"}
    /\ MaxClicks \in Nat

Pages == {"other", "list", "bracket", "online"}

VARIABLES
    page,           \* page[d]: pathname
    link,           \* link[d]: the session that its socket goes through
    outbox,         \* outbox[d]: packets of the tab that are not handled yet
    inbox,          \* inbox[d]: packets of the server that are not handled yet
    asked,          \* asked[d]: the session that was asked for the bracket since
                    \* the page of it was shown
    opponents,      \* the tabs that wait for the profile of an opponent
    announced,      \* tournaments whose matches are announced
    clicks

lobbyVars == vars
pageVars == <<page, link, outbox, inbox, asked, opponents, announced, clicks>>
allVars == <<lobbyVars, pageVars>>

Packet(event, t) == [event |-> event, t |-> t]
Event(event) == Packet(event, NoTournament)

Holds(packets, event) ==
    \E i \in DOMAIN packets : packets[i].event = event

----------------------------------------------------------------------------
(* The tab. *)

(* The effects of a new pathname: every page but two of them leaves the
   tournament, and the page of the bracket asks for it. *)
PagesThatStay == {"online", "bracket"}

\* fault: the list counts as a page of the tournament
QuitsButOnList(p) ==
    IF p \notin PagesThatStay \cup {"list"} THEN <<Event("leave")>> ELSE <<>>

Quits(p) == IF p \notin PagesThatStay THEN <<Event("leave")>> ELSE <<>>

Asks(p) == IF p = "bracket" THEN <<Event("bracket")>> ELSE <<>>

(* The tab is opened anywhere but in a match; the effects that run while there
   is no socket send nothing, but the bracket is asked for once there is one. *)
PagesInit ==
    /\ Init
    /\ page \in [Tabs -> FirstPages]
    /\ link = [d \in Tabs |-> NoLink]
    /\ outbox = [d \in Tabs |-> Asks(page[d])]
    /\ inbox = [d \in Tabs |-> <<>>]
    /\ asked = [d \in Tabs |-> NoLink]
    /\ opponents = {}
    /\ announced = {}
    /\ clicks = [d \in Tabs |-> 0]

(* router.push and replace; pushing the page that is shown changes nothing. *)
Show(d, p) ==
    IF page[d] = p THEN UNCHANGED <<page, asked, outbox>>
    ELSE /\ page' = [page EXCEPT ![d] = p]
         /\ asked' = [asked EXCEPT ![d] = NoLink]
         /\ outbox' = [outbox EXCEPT ![d] = @ \o Quits(p) \o Asks(p)]

Click(d) ==
    /\ clicks[d] < MaxClicks
    /\ clicks' = [clicks EXCEPT ![d] = @ + 1]

(* A link, the buttons and the history of the browser, Confirmator for those
   who quit, and router.back when a match is over.  The page of a match sends
   whoever has no opponent back at once. *)
Navigate(d, p) ==
    /\ p \notin {page[d], "online"}
    /\ Click(d)
    /\ Show(d, p)
    /\ UNCHANGED <<lobbyVars, link, inbox, opponents, announced>>

Send(d, packet) ==
    /\ page[d] = "list"
    /\ Click(d)
    /\ outbox' = [outbox EXCEPT ![d] = Append(@, packet)]
    /\ UNCHANGED <<lobbyVars, page, link, inbox, asked, opponents, announced>>

(* The dialog of a new tournament; it stays open until the answer comes. *)
ClickCreate(d) == Send(d, Event("create"))

(* The card of a tournament that was not full when the list was fetched, which
   may be long ago, and the dialog for the alias. *)
ClickJoin(d, t) == phase[t] # "none" /\ Send(d, Packet("join", t))

----------------------------------------------------------------------------
(* The connection of the tab. *)

(* A socket that is not connected connects again, with what was sent meanwhile;
   if the server refuses the session, nobody listens to that. *)
Relink(d, s) ==
    /\ TabOf[s] = d /\ link[d] = NoLink
    /\ Connect(s)
    /\ link' = [link EXCEPT ![d] = s]
    /\ UNCHANGED <<page, outbox, inbox, asked, opponents, announced, clicks>>

(* The tab finds that its connection is lost, before the server or after. *)
Unlink(d) ==
    /\ link[d] # NoLink
    /\ link' = [link EXCEPT ![d] = NoLink]
    /\ outbox' = [outbox EXCEPT ![d] = <<>>]
    /\ inbox' = [inbox EXCEPT ![d] = <<>>]
    /\ UNCHANGED <<lobbyVars, page, asked, opponents, announced, clicks>>

----------------------------------------------------------------------------
(* The server handles the next packet of a tab. *)
Next1(d, event) ==
    /\ link[d] # NoLink /\ Online(link[d])
    /\ outbox[d] # <<>> /\ Head(outbox[d]).event = event
    /\ outbox' = [outbox EXCEPT ![d] = Tail(@)]
    /\ UNCHANGED <<page, link, opponents, announced, clicks>>

(* player.emit *)
Emit(s, event) ==
    IF TabOf[s] # NoTab /\ link[TabOf[s]] = s
    THEN inbox' = [inbox EXCEPT ![TabOf[s]] = Append(@, Event(event))]
    ELSE UNCHANGED inbox

(* Out of tournaments, a bound, the server is not asked to create one. *)
OnCreate(d) ==
    /\ Next1(d, "create")
    /\ \/ \E t \in Tournaments : Create(link[d], t)
       \/ /\ \/ current[link[d]] # NoTournament
             \/ \A t \in Tournaments : phase[t] # "none"
          /\ UNCHANGED lobbyVars
    /\ UNCHANGED <<inbox, asked>>

OnJoin(d) ==
    LET s == link[d]
        t == Head(outbox[d]).t
    IN
    /\ Next1(d, "join")
    /\ \/ Join(s, t) /\ Emit(s, "joined")
       \/ /\ ~MayJoin(s, t)
          /\ UNCHANGED <<lobbyVars, inbox>>
    /\ UNCHANGED asked

OnLeave(d) ==
    LET s == link[d] IN
    /\ Next1(d, "leave")
    /\ IF current[s] = NoTournament THEN UNCHANGED lobbyVars
       ELSE Leave(s, current[s])
    /\ UNCHANGED <<inbox, asked>>

(* The players of a tournament get its bracket, which changes no page; whoever
   is in none gets an empty one. *)
OnBracket(d) ==
    LET s == link[d] IN
    /\ Next1(d, "bracket")
    /\ asked' = [asked EXCEPT ![d] = IF page[d] = "bracket" THEN s ELSE @]
    /\ IF current[s] = NoTournament THEN Emit(s, "nothing")
       ELSE UNCHANGED inbox
    /\ UNCHANGED lobbyVars

(* Callbacks of Lobby that send something. *)
CreatedAndSent(s, t) ==
    /\ Created(s, t)
    /\ Emit(s, "joined")
    /\ UNCHANGED <<page, link, outbox, asked, opponents, announced, clicks>>

(* The timers of the first matches: "tournament::start", to a player that is
   listed twice for each time. *)
Announce(t) ==
    /\ started[t] > 0 /\ t \notin announced
    /\ announced' = announced \cup {t}
    /\ inbox' = [d \in Tabs |->
          inbox[d] \o [i \in 1..Cardinality(Copies(link[d], t)) |-> Event("start")]]
    /\ UNCHANGED <<lobbyVars, page, link, outbox, asked, opponents, clicks>>

----------------------------------------------------------------------------
(* The tab handles the next packet of the server. *)
Take(d, event) ==
    /\ inbox[d] # <<>> /\ Head(inbox[d]).event = event
    /\ inbox' = [inbox EXCEPT ![d] = Tail(@)]
    /\ UNCHANGED <<lobbyVars, link, announced, clicks>>

AfterJoined(d) == Take(d, "joined") /\ Show(d, "bracket") /\ UNCHANGED opponents

(* Only the page of the bracket listens to it. *)
AfterNothing(d) ==
    /\ Take(d, "nothing")
    /\ IF page[d] = "bracket" THEN Show(d, "list")
       ELSE UNCHANGED <<page, asked, outbox>>
    /\ UNCHANGED opponents

(* The profile of the opponent is fetched, and then the match is shown. *)
AfterStart(d) ==
    /\ Take(d, "start")
    /\ opponents' = opponents \cup {d}
    /\ UNCHANGED <<page, asked, outbox>>

ShowMatch(d) ==
    /\ d \in opponents
    /\ opponents' = opponents \ {d}
    /\ Show(d, "online")
    /\ UNCHANGED <<lobbyVars, link, inbox, announced, clicks>>

----------------------------------------------------------------------------
(* Steps of Lobby that no tab sends, nor sees; a session without a tab sends
   whatever it likes. *)
Unseen ==
    /\ UNCHANGED pageVars
    /\ \E s \in Sessions :
          \/ Disconnect(s) \/ Closed(s)
          \/ \E t \in Tournaments : Joined(s, t) \/ Start(s, t)
          \/ /\ TabOf[s] = NoTab
             /\ \/ Connect(s)
                \/ \E t \in Tournaments : Create(s, t) \/ Join(s, t) \/ Leave(s, t)

PagesNext ==
    /\ ~crashed
    /\ \/ Unseen
       \/ \E s \in Sessions, t \in Tournaments : CreatedAndSent(s, t)
       \/ \E t \in Tournaments : Announce(t)
       \/ \E d \in Tabs :
             \/ \E p \in FirstPages : Navigate(d, p)
             \/ ClickCreate(d)
             \/ \E t \in Tournaments : ClickJoin(d, t)
             \/ \E s \in Sessions : Relink(d, s)
             \/ Unlink(d)
             \/ OnCreate(d) \/ OnJoin(d) \/ OnLeave(d) \/ OnBracket(d)
             \/ AfterJoined(d) \/ AfterNothing(d) \/ AfterStart(d) \/ ShowMatch(d)

PagesSpec == PagesInit /\ [][PagesNext]_allVars

----------------------------------------------------------------------------
(* Every variable of the pages stays in its range. *)
Packets == [event : {"create", "join", "leave", "bracket", "joined", "nothing",
                     "start"},
            t : Tournaments \cup {NoTournament}]

PagesTypeOK ==
    /\ TypeOK
    /\ page \in [Tabs -> Pages]
    /\ link \in [Tabs -> Sessions \cup {NoLink}]
    /\ outbox \in [Tabs -> Seq(Packets)]
    /\ inbox \in [Tabs -> Seq(Packets)]
    /\ asked \in [Tabs -> Sessions \cup {NoLink}]
    /\ opponents \subseteq Tabs
    /\ announced \subseteq Tournaments
    /\ clicks \in [Tabs -> 0..MaxClicks]

(* "Once you leave this page, you will quit this tournament!": whoever is in a
   tournament looks at the bracket or at a match, or the packet that takes the
   page there, or the player out of the tournament, is under way. *)
MembersAreOnPage ==
    \A d \in Tabs :
        link[d] # NoLink /\ Online(link[d]) /\ current[link[d]] # NoTournament =>
            \/ page[d] \in {"bracket", "online"}
            \/ Holds(inbox[d], "joined")
            \/ Holds(outbox[d], "leave")

(* A bracket is shown to members: once the connection that its page was shown
   through has no more packets, the player is in a tournament. *)
BracketIsForMembers ==
    \A d \in Tabs :
        /\ page[d] = "bracket"
        /\ asked[d] # NoLink /\ asked[d] = link[d] /\ Online(link[d])
        /\ inbox[d] = <<>> /\ outbox[d] = <<>>
        => current[link[d]] # NoTournament

(* The page of a tab and the tournament of its player go together. *)
PageFitsPlayer == PagesTypeOK /\ MembersAreOnPage /\ BracketIsForMembers

==============================================================================
