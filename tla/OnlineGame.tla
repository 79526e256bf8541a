------------------------------ MODULE OnlineGame ------------------------------
(***************************************************************************)
(* A game over the network: the match as the server plays it, frame by     *)
(* frame (backend/src/game/entities/match.js), and the pages of the two    *)
(* players, from the search for an opponent to the dialog at the end       *)
(* (front-end/src/app/(app)/matchmaking, game/online).  Packets keep their *)
(* order; a page that is not shown, or not yet, does not hear them.        *)
(*                                                                         *)
(* Bound: there are two players, so their matches follow one another, and  *)
(* a history ends where a player is queued twice; module Matchmaking has   *)
(* the queue, and lost connections.                                        *)
(***************************************************************************)
EXTENDS Integers, Sequences

CONSTANTS
    Tabs,               \* of the two players
    Typists,            \* bound: those who press keys
    Width, Height,      \* BOARD_WIDTH and BOARD_HEIGHT, in a coarse unit
    Radius, Column, Tall, \* the ball's radius, 20, and scale.y of a paddle
    Spin,               \* 1 / 0.1, what the offset of a hit is divided by
    Speed, Step,        \* ball.speed, and the move of a paddle
    WinGoals,           \* WIN_GOALS, which a walkover gives, too
    MaxMatches,         \* bound: how many matches are made
    MaxInbox,           \* bound: how many packets a tab is behind the server
    MaxClicks           \* bound: how often a user goes elsewhere or presses a key

ASSUME BoardAssumption ==
    /\ Typists \subseteq Tabs
    /\ Width \in Nat /\ Height \in Nat /\ Radius \in Nat /\ Column \in Nat
    /\ Tall \in Nat /\ Spin \in Nat \ {0} /\ Speed \in Nat /\ Step \in Nat
    /\ WinGoals \in Nat \ {0} /\ MaxMatches \in Nat
    /\ MaxInbox \in Nat /\ MaxClicks \in Nat
    /\ Column + 2 * Radius <= Width /\ Tall <= Height
    /\ Speed <= Column         \* 8 and 20

Sides == {1, 2}
Keys == {"up", "down"}      \* ArrowUp and ArrowDown

VARIABLES
    (* the server *)
    queue,          \* PlayersQueue.players
    made,           \* autoMatchId
    seat,           \* player1 and player2 of the last match
    status,         \* of that match; "none" before
    inMatch,        \* players whose matchId is that match
    idle,           \* players whose status is IDLE
    goals,          \* of player1 and player2
    ball,           \* position and velocity
    positionY,      \* of player1's and player2's paddle
    pressed,        \* key_up and key_down of each player
    (* the tabs *)
    page,           \* "home", "search" or "online"
    follows,        \* the match whose start the tab has heard, 0 for none: its
                    \* page is shown, or on its way while the search is shown
    named,          \* the vid by which the page of the match has named its players
    opponent,       \* the tab knows one
    vid,
    profile,        \* the vid it will have once its opponent's profile is there
    score,          \* player1.score and player2.score of the context
    winner,         \* "none", "me" or "other"
    held,           \* keys that the page has seen pressed and not released
    lastPress,      \* "none" for null
    bound,          \* the vid that the handlers of the keys have
    missed,         \* history: since its start was heard, a goal was told
                    \* before the page was there, and none after it
    late,           \* history: a profile was on its way when the page came
    inbox, outbox,
    clicks

game == <<seat, status, inMatch, idle, goals, ball, positionY>>
server == <<queue, made, game, pressed>>
trip == <<page, follows, named, missed, late>>
rival == <<opponent, vid, profile>>
result == <<score, winner>>
hands == <<held, lastPress, bound>>
screen == <<trip, rival, result, hands>>
vars == <<server, screen, inbox, outbox, clicks>>

(* new Ball: it flies down to the left. *)
Kickoff == [x |-> Width \div 2, y |-> Height \div 2, vx |-> -Speed, vy |-> Speed]
Middle == Height \div 2 - Tall \div 2
Zero == [k \in Sides |-> 0]

Init ==
    /\ queue = <<>> /\ made = 0
    /\ seat \in [Sides -> Tabs]
    /\ seat[1] # seat[2]
    /\ status = "none"
    /\ inMatch = {} /\ idle = Tabs
    /\ goals = Zero
    /\ ball = Kickoff
    /\ positionY = [k \in Sides |-> Middle]
    /\ pressed = [d \in Tabs |-> {}]
    /\ page = [d \in Tabs |-> "home"]
    /\ follows = [d \in Tabs |-> 0]
    /\ named = [d \in Tabs |-> 0]
    /\ missed = [d \in Tabs |-> FALSE]
    /\ late = [d \in Tabs |-> FALSE]
    /\ opponent = [d \in Tabs |-> FALSE]
    /\ vid = [d \in Tabs |-> 0]
    /\ profile = [d \in Tabs |-> 0]
    /\ score = [d \in Tabs |-> Zero]
    /\ winner = [d \in Tabs |-> "none"]
    /\ held = [d \in Tabs |-> {}]
    /\ lastPress = [d \in Tabs |-> "none"]
    /\ bound = [d \in Tabs |-> 0]
    /\ inbox = [d \in Tabs |-> <<>>]
    /\ outbox = [d \in Tabs |-> <<>>]
    /\ clicks = [d \in Tabs |-> 0]

SideOf(d) == IF seat[1] = d THEN 1 ELSE 2
Other(k) == 3 - k

----------------------------------------------------------------------------
(* The server: the loop of a match. *)

(* input_handle: both keys may be held, and a paddle stops one step behind the
   edge at most. *)
Pushed(y, keys) ==
    LET risen == IF "up" \in keys /\ y > 0 THEN y - Step ELSE y
    IN IF "down" \in keys /\ risen + Tall < Height THEN risen + Step ELSE risen

Away(n) == IF n < 0 THEN -n ELSE n

Offset(by, y) ==
    LET n == by - y - Tall \div 2
    IN IF n < 0 THEN -((-n) \div Spin) ELSE n \div Spin

(* collision_detection: the first two tests there ask for more and do less than
   the last two. *)
Touches(by, y) == by + Radius >= y /\ by - Radius <= y + Tall

(* The ball is in the column of the paddle of side k. *)
Beside(b, k) ==
    IF k = 1 THEN b.x - Radius < Column ELSE b.x + Radius > Width - Column

Hit(b, ys) ==
    CASE Beside(b, 1) /\ Touches(b.y, ys[1]) ->
            [x |-> Column + Radius, y |-> b.y,
             vx |-> Away(b.vx), vy |-> Offset(b.y, ys[1])]
      [] Beside(b, 2) /\ Touches(b.y, ys[2]) ->
            [x |-> Width - Column - Radius, y |-> b.y,
             vx |-> -Away(b.vx), vy |-> Offset(b.y, ys[2])]
      [] OTHER -> b

(* The side that makes a goal, 0 for none; the ball is then served towards it,
   from its own height. *)
Scorer(b) ==
    CASE b.x + Radius > Width -> 1
      [] b.x - Radius < 0 -> 2
      [] OTHER -> 0

Serve(b, k, ys) ==
    IF k = 0 THEN b
    ELSE [x |-> Width \div 2, y |-> ys[k] + Tall \div 2, vy |-> 0,
          vx |-> IF k = 1 THEN -Speed ELSE Speed]

Fall(b) ==
    LET y == b.y + b.vy IN
    [b EXCEPT !.y = y,
              !.vy = IF y + Radius > Height \/ y - Radius < 0 THEN -@ ELSE @]

FlyFast(b) == [b EXCEPT !.x = @ + 4 * b.vx]         \* fault: too fast

Fly(b) == [b EXCEPT !.x = @ + b.vx]

Send(d, packets) == [inbox EXCEPT ![d] = @ \o packets]

OnGoal(k, g) == [event |-> "onGoal", goals |-> g[k], opponent_goals |-> g[Other(k)]]
OnEnd(win) == [event |-> "onEnd", win |-> win]
Plain(event) == [event |-> event]

NewsOfBy(k, by, g) ==           \* fault: from player1's side for both
    <<OnGoal(1, g)>> \o
    (IF g[by] >= WinGoals THEN <<OnEnd(k = by)>> ELSE <<>>)

(* What a goal tells the side k; the last one ends the match. *)
News(k, by, g) ==
    <<OnGoal(k, g)>> \o
    (IF g[by] >= WinGoals THEN <<OnEnd(k = by)>> ELSE <<>>)

Frame ==
    LET ys == [k \in Sides |-> Pushed(positionY[k], pressed[seat[k]])]
        b == Hit(Fly(ball), ys)
        by == Scorer(b)
        after == IF by = 0 THEN goals ELSE [goals EXCEPT ![by] = @ + 1]
    IN
    /\ status = "playing"
    /\ \A d \in Tabs : Len(inbox[d]) < MaxInbox
    /\ positionY' = ys
    /\ ball' = Fall(Serve(b, by, ys))
    /\ goals' = after
    /\ status' = IF by # 0 /\ after[by] >= WinGoals THEN "completed" ELSE status
    /\ inbox' = IF by = 0 THEN inbox
                ELSE [d \in Tabs |-> inbox[d] \o News(SideOf(d), by, after)]
    /\ UNCHANGED <<queue, made, seat, inMatch, idle, pressed, screen, outbox, clicks>>

----------------------------------------------------------------------------
(* The server: packets of the tabs, and the timer of a match. *)

Request(d, event) ==
    /\ outbox[d] # <<>> /\ Head(outbox[d]).event = event
    /\ outbox' = [outbox EXCEPT ![d] = Tail(@)]
    /\ UNCHANGED <<screen, clicks>>

(* "matchmake": the second in the queue makes a match. *)
OnMatchmake(d) ==
    /\ Request(d, "matchmake")
    /\ \A i \in DOMAIN queue : queue[i] # d
    /\ IF queue = <<>>
       THEN /\ queue' = <<d>>
            /\ UNCHANGED <<made, game, inbox>>
       ELSE LET new == [k \in Sides |-> IF k = 1 THEN queue[1] ELSE d] IN
            /\ made < MaxMatches
            /\ made' = made + 1
            /\ queue' = Tail(queue)
            /\ seat' = new
            /\ status' = "pending"
            /\ inMatch' = Tabs /\ idle' = {}
            /\ goals' = Zero
            /\ ball' = Kickoff
            /\ positionY' = [k \in Sides |-> Middle]
            /\ inbox' = [e \in Tabs |-> Append(inbox[e],
                   [event |-> "found", vid |-> IF new[1] = e THEN 1 ELSE 2])]
    /\ UNCHANGED pressed

(* The timer of a match. *)
Begin ==
    /\ status = "pending"
    /\ status' = "playing"
    /\ inbox' = [d \in Tabs |-> Append(inbox[d], [event |-> "start", match |-> made])]
    /\ UNCHANGED <<queue, made, seat, inMatch, idle, goals, ball, positionY,
                   pressed, screen, outbox, clicks>>

(* "im_left" and endMatch: whoever stays in a match that is played wins it; any
   other match is given up, which player1 is told. *)
Walkover(d) ==
    LET stay == Other(SideOf(d)) IN
    /\ status' = "completed"
    /\ goals' = [k \in Sides |-> IF k = stay THEN WinGoals ELSE 0]
    /\ inbox' = Send(seat[stay], <<OnGoal(stay, goals'), OnEnd(TRUE)>>)

OnImLeft(d) ==
    /\ Request(d, "im_left")
    /\ CASE d \notin inMatch ->
              idle' = idle \cup {d} /\ UNCHANGED <<status, goals, inMatch, inbox>>
         [] d \in inMatch /\ status = "playing" ->
              /\ idle' = idle \cup {d}
              /\ IF idle' = Tabs THEN UNCHANGED <<status, goals, inbox>>
                 ELSE Walkover(d)
              /\ UNCHANGED inMatch
         [] d \in inMatch /\ status # "playing" ->
              /\ idle' = Tabs /\ inMatch' = {}
              /\ status' = "completed"
              /\ inbox' = Send(seat[1], <<Plain("opponent_left")>>)
              /\ UNCHANGED goals
    /\ UNCHANGED <<queue, made, seat, ball, positionY, pressed>>

(* "key_pressed": the key is set for the player that the vid of the packet
   names in the sender's match. *)
OnKey(d) ==
    LET p == Head(outbox[d])
        who == seat[IF p.vid = 1 THEN 1 ELSE 2]
    IN
    /\ Request(d, "key")
    /\ pressed' = IF d \notin inMatch THEN pressed
                  ELSE [pressed EXCEPT ![who] =
                            IF p.pressed THEN @ \cup {p.key} ELSE @ \ {p.key}]
    /\ UNCHANGED <<queue, made, game, inbox>>

----------------------------------------------------------------------------
(* The tabs: pages. *)
Emit(d, packets) == outbox' = [outbox EXCEPT ![d] = @ \o packets]

Click(d) ==
    /\ clicks[d] < MaxClicks
    /\ clicks' = [clicks EXCEPT ![d] = @ + 1]

(* Home and every other page say "im_left" and forget the opponent. *)
GoHome(d) ==
    /\ page' = [page EXCEPT ![d] = "home"]
    /\ follows' = [follows EXCEPT ![d] = 0]
    /\ named' = [named EXCEPT ![d] = 0]
    /\ missed' = [missed EXCEPT ![d] = FALSE]
    /\ late' = [late EXCEPT ![d] = FALSE]
    /\ opponent' = [opponent EXCEPT ![d] = FALSE]
    /\ score' = [score EXCEPT ![d] = Zero]
    /\ winner' = [winner EXCEPT ![d] = "none"]
    /\ held' = [held EXCEPT ![d] = {}]
    /\ lastPress' = [lastPress EXCEPT ![d] = "none"]
    /\ bound' = [bound EXCEPT ![d] = 0]
    /\ Emit(d, <<Plain("im_left")>>)
    /\ UNCHANGED <<vid, profile>>

Leave(d) ==
    /\ page[d] # "home"
    /\ Click(d)
    /\ GoHome(d)
    /\ UNCHANGED <<server, inbox>>

(* The page of the search asks once, when it is shown. *)
Search(d) ==
    /\ page[d] = "home"
    /\ Click(d)
    /\ page' = [page EXCEPT ![d] = "search"]
    /\ Emit(d, <<Plain("matchmake")>>)
    /\ UNCHANGED <<server, inbox, follows, named, missed, late, rival, result, hands>>

(* The page of the match takes the place of the search.  Its first effects name
   the players, make the handlers of the keys and listen to goals and verdicts;
   whoever has no opponent is sent back, which is home. *)
Mount(d) ==
    /\ page[d] = "search" /\ follows[d] # 0
    /\ IF opponent[d]
       THEN /\ page' = [page EXCEPT ![d] = "online"]
            /\ named' = [named EXCEPT ![d] = vid[d]]
            /\ bound' = [bound EXCEPT ![d] = vid[d]]
            /\ late' = [late EXCEPT ![d] = profile[d] # 0]
            /\ UNCHANGED <<outbox, follows, missed, rival, result, held, lastPress>>
       ELSE GoHome(d)
    /\ UNCHANGED <<server, inbox, clicks>>

----------------------------------------------------------------------------
(* The tabs: packets of the server.  A packet that no page listens to is gone. *)
Receive(d, event) ==
    /\ inbox[d] # <<>> /\ Head(inbox[d]).event = event
    /\ inbox' = [inbox EXCEPT ![d] = Tail(@)]
    /\ UNCHANGED <<server, clicks>>

(* What the search listens to, and what the page of a match does. *)
Deaf(d, event) ==
    /\ page[d] # "search"
    /\ Receive(d, event)
    /\ UNCHANGED <<outbox, screen>>

Unheard(d, event) ==
    /\ page[d] # "online"
    /\ Receive(d, event)
    /\ missed' = [missed EXCEPT ![d] = @ \/ (event = "onGoal" /\ follows[d] # 0)]
    /\ UNCHANGED <<outbox, page, follows, named, late, rival, result, hands>>

(* handleMatchmake: the profile of the opponent is fetched first. *)
AfterFound(d) ==
    /\ page[d] = "search" /\ Receive(d, "found")
    /\ profile' = [profile EXCEPT ![d] = Head(inbox[d]).vid]
    /\ UNCHANGED <<outbox, trip, opponent, vid, result, hands>>

Profile(d) ==
    /\ profile[d] # 0
    /\ vid' = [vid EXCEPT ![d] = profile[d]]
    /\ opponent' = [opponent EXCEPT ![d] = TRUE]
    /\ profile' = [profile EXCEPT ![d] = 0]
    /\ UNCHANGED <<server, inbox, outbox, trip, result, hands, clicks>>

AfterOpponentLeft(d) ==
    /\ page[d] = "search" /\ Receive(d, "opponent_left")
    /\ opponent' = [opponent EXCEPT ![d] = FALSE]
    /\ vid' = [vid EXCEPT ![d] = 0]
    /\ Emit(d, <<Plain("matchmake")>>)
    /\ UNCHANGED <<trip, profile, result, hands>>

(* handleMatchStart: router.replace, which shows the page of the match later. *)
AfterStart(d) ==
    /\ page[d] = "search" /\ Receive(d, "start")
    /\ follows' = [follows EXCEPT ![d] = Head(inbox[d]).match]
    /\ missed' = [missed EXCEPT ![d] = FALSE]
    /\ UNCHANGED <<outbox, page, named, late, rival, result, hands>>

AfterGoal(d) ==
    /\ page[d] = "online" /\ Receive(d, "onGoal")
    /\ score' = [score EXCEPT ![d] =
           [k \in Sides |-> IF k = 1 THEN Head(inbox[d]).goals
                            ELSE Head(inbox[d]).opponent_goals]]
    /\ missed' = [missed EXCEPT ![d] = FALSE]
    /\ UNCHANGED <<outbox, page, follows, named, late, rival, winner, hands>>

AfterEnd(d) ==
    /\ page[d] = "online" /\ Receive(d, "onEnd")
    /\ winner' = [winner EXCEPT ![d] = IF Head(inbox[d]).win THEN "me" ELSE "other"]
    /\ UNCHANGED <<outbox, trip, rival, score, hands>>

(* Two places, of which the tab's user has the first if the vid is 1; player1 of
   the context is always that user.  The header names the players by the vid of
   the moment, the dialog as the page has named them. *)
Rival(d) == seat[Other(SideOf(d))]

Card(d, place, names) ==
    [who |-> IF (names = 1) <=> (place = 1) THEN d ELSE Rival(d),
     goals |-> IF (vid[d] = 1) <=> (place = 1) THEN score[d][1] ELSE score[d][2]]

(* WinDialog goes back after three seconds. *)
Dialog(d) ==
    /\ winner[d] # "none"
    /\ GoHome(d)
    /\ UNCHANGED <<server, inbox, clicks>>

----------------------------------------------------------------------------
(* The tabs: keys.  A key that is held may repeat.  Every change of lastPress
   makes the handlers anew, with the vid of that moment. *)
KeyPacket(d, key, down) ==
    <<[event |-> "key", key |-> key, pressed |-> down, vid |-> bound[d]]>>

Press(d, last) ==
    /\ lastPress' = [lastPress EXCEPT ![d] = last]
    /\ bound' = [bound EXCEPT ![d] = IF lastPress[d] = last THEN @ ELSE vid[d]]

KeyDown(d, key) ==
    /\ page[d] = "online" /\ d \in Typists
    /\ Click(d)
    /\ key \notin held[d] \/ lastPress[d] # key
    /\ held' = [held EXCEPT ![d] = @ \cup {key}]
    /\ Press(d, key)
    /\ IF lastPress[d] = key THEN UNCHANGED outbox
       ELSE Emit(d, KeyPacket(d, key, TRUE))
    /\ UNCHANGED <<server, inbox, trip, rival, result>>

KeyUpAfter(d, key, last) ==
    /\ page[d] = "online" /\ key \in held[d]
    /\ held' = [held EXCEPT ![d] = @ \ {key}]
    /\ Press(d, last)
    /\ Emit(d, KeyPacket(d, key, FALSE))
    /\ UNCHANGED <<server, inbox, trip, rival, result, clicks>>

(* fault: a key that is pressed again right away counts as repeated *)
KeyUpKept(d, key) == KeyUpAfter(d, key, lastPress[d])

KeyUp(d, key) == KeyUpAfter(d, key, "none")

Next ==
    \/ Frame \/ Begin
    \/ \E d \in Tabs :
          \/ OnMatchmake(d) \/ OnImLeft(d) \/ OnKey(d)
          \/ Search(d) \/ Mount(d) \/ Leave(d) \/ Dialog(d) \/ Profile(d)
          \/ AfterFound(d) \/ AfterOpponentLeft(d) \/ AfterStart(d)
          \/ AfterGoal(d) \/ AfterEnd(d)
          \/ \E e \in {"found", "opponent_left", "start"} : Deaf(d, e)
          \/ \E e \in {"onGoal", "onEnd"} : Unheard(d, e)
          \/ \E key \in Keys : KeyDown(d, key) \/ KeyUp(d, key)

Spec == Init /\ [][Next]_vars

----------------------------------------------------------------------------
(* Every variable stays in its range. *)
TypeOK ==
    /\ queue \in Seq(Tabs) /\ Len(queue) <= 1
    /\ made \in 0..MaxMatches
    /\ seat \in [Sides -> Tabs]
    /\ status \in {"none", "pending", "playing", "completed"}
    /\ inMatch \subseteq Tabs /\ idle \subseteq Tabs
    /\ goals \in [Sides -> 0..WinGoals]
    /\ positionY \in [Sides -> (-Step)..(Height - Tall + Step)]
    /\ pressed \in [Tabs -> SUBSET Keys]
    /\ page \in [Tabs -> {"home", "search", "online"}]
    /\ follows \in [Tabs -> 0..MaxMatches]
    /\ opponent \in [Tabs -> BOOLEAN]
    /\ missed \in [Tabs -> BOOLEAN] /\ late \in [Tabs -> BOOLEAN]
    /\ vid \in [Tabs -> 0..2] /\ profile \in [Tabs -> 0..2]
    /\ named \in [Tabs -> 0..2] /\ bound \in [Tabs -> 0..2]
    /\ score \in [Tabs -> [Sides -> 0..WinGoals]]
    /\ winner \in [Tabs -> {"none", "me", "other"}]
    /\ held \in [Tabs -> SUBSET Keys]
    /\ lastPress \in [Tabs -> Keys \cup {"none"}]
    /\ clicks \in [Tabs -> 0..MaxClicks]

(* Whom a place names, it shows the goals of. *)
CardsAreRight(d, names) ==
    \A place \in Sides :
        LET card == Card(d, place, names) IN card.goals = goals[SideOf(card.who)]

(* The page of a match shows the result that the server has stored: to the
   winner as victory, and so to one player only.  The scores beside it are right
   unless the last goal came before the page; in the dialog, too, unless a
   profile came after the page had named its players. *)
VerdictIsTrue ==
    \A d \in Tabs : page[d] = "online" /\ winner[d] # "none" /\ follows[d] = made =>
        /\ status = "completed"
        /\ (winner[d] = "me") <=> goals[SideOf(d)] > goals[Other(SideOf(d))]
        /\ ~missed[d] => CardsAreRight(d, vid[d])
        /\ ~missed[d] /\ ~late[d] => CardsAreRight(d, named[d])

(* A page that follows a match and has no packets left shows its score, unless
   the last goal came before the page. *)
ScoreIsCurrent ==
    \A d \in Tabs :
        /\ page[d] = "online" /\ follows[d] = made /\ inbox[d] = <<>>
        /\ status = "playing" /\ ~missed[d]
        => CardsAreRight(d, vid[d])

(* Pages tell the match that they follow, although its packets and those of the
   match before are heard by whatever page is shown. *)
PageTellsMatch == TypeOK /\ VerdictIsTrue /\ ScoreIsCurrent

(* While a match is played and one player presses keys, a key that is held moves
   a paddle, whatever other keys were pressed and released meanwhile; which
   paddle, a late profile may have changed.  The packets of a second player may
   then release the key. *)
HeldKeysArrive ==
    \A d \in Tabs :
        /\ page[d] = "online" /\ follows[d] = made /\ outbox[d] = <<>>
        /\ status = "playing" /\ Typists \subseteq {d}
        => held[d] \subseteq UNION {pressed[e] : e \in Tabs}

(* A goal is a miss: one frame before, the ball was in the column of the paddle
   that it passed, where that paddle could have hit it.  It is never so fast that
   it passes a paddle between two frames. *)
GoalWasReachable ==
    [][\A k \in Sides :
          goals'[k] > goals[k] /\ UNCHANGED outbox => Beside(ball, Other(k))]_vars

==============================================================================
