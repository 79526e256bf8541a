------------------------------ MODULE OnlineProof -----------------------------
(***************************************************************************)
(* Theorems about OnlineGame, for all sizes of the board and any number of *)
(* matches, packets and clicks.                                            *)
(***************************************************************************)
EXTENDS OnlineGame, SequenceTheorems, TLAPS

(***************************************************************************)
(* What the packets are, and the shape of the state.                       *)
(***************************************************************************)
Goals == 0..WinGoals

Packets ==
    [event : {"onGoal"}, goals : Goals, opponent_goals : Goals]
    \cup [event : {"onEnd"}, win : BOOLEAN]
    \cup [event : {"found"}, vid : Sides]
    \cup [event : {"start"}, match : 1..MaxMatches]
    \cup [event : {"opponent_left"}]

Requests ==
    [event : {"key"}, key : Keys, pressed : BOOLEAN, vid : 0..2]
    \cup [event : {"matchmake", "im_left"}]

Balls == [x : Int, y : Int, vx : {Speed, -Speed}, vy : Int]

MatchOK ==
    /\ seat \in [Sides -> Tabs] /\ seat[1] # seat[2]
    /\ status \in {"none", "pending", "playing", "completed"}
    /\ inMatch \subseteq Tabs /\ idle \subseteq Tabs
    /\ goals \in [Sides -> Goals]
    /\ status = "none" => inMatch = {}
    /\ status = "pending" => goals = Zero
    /\ status = "playing" => \A k \in Sides : goals[k] < WinGoals
    /\ ball \in Balls
    /\ positionY \in [Sides -> (-Step)..(Height - Tall + Step)]

ServerOK ==
    /\ queue \in Seq(Tabs) /\ Len(queue) <= 1
    /\ made \in 0..MaxMatches /\ (status # "none" => made > 0)
    /\ pressed \in [Tabs -> SUBSET Keys]
    /\ MatchOK

ScreenOK ==
    /\ page \in [Tabs -> {"home", "search", "online"}]
    /\ follows \in [Tabs -> 0..MaxMatches]
    /\ opponent \in [Tabs -> BOOLEAN]
    /\ missed \in [Tabs -> BOOLEAN] /\ late \in [Tabs -> BOOLEAN]
    /\ vid \in [Tabs -> 0..2] /\ profile \in [Tabs -> 0..2]
    /\ named \in [Tabs -> 0..2] /\ bound \in [Tabs -> 0..2]
    /\ score \in [Tabs -> [Sides -> Goals]]
    /\ winner \in [Tabs -> {"none", "me", "other"}]
    /\ held \in [Tabs -> SUBSET Keys]
    /\ lastPress \in [Tabs -> Keys \cup {"none"}]

BoxesOK ==
    /\ inbox \in [Tabs -> Seq(Packets)]
    /\ outbox \in [Tabs -> Seq(Requests)]

ShapeOK == ServerOK /\ ScreenOK /\ BoxesOK /\ clicks \in [Tabs -> 0..MaxClicks]

----------------------------------------------------------------------------
(* The loop of a match. *)

LEMMA PaddleStays ==
    ASSUME NEW y \in (-Step)..(Height - Tall + Step), NEW keys
    PROVE  Pushed(y, keys) \in (-Step)..(Height - Tall + Step)
<1> DEFINE risen == IF "up" \in keys /\ y > 0 THEN y - Step ELSE y
<1>1. risen \in (-Step)..(Height - Tall + Step)
  BY BoardAssumption
<1>2. Pushed(y, keys) = IF "down" \in keys /\ risen + Tall < Height THEN risen + Step ELSE risen
  BY DEF Pushed
<1> HIDE DEF risen
<1> QED BY <1>1, <1>2, BoardAssumption

LEMMA OffsetType ==
    ASSUME NEW by \in Int, NEW y \in Int PROVE Offset(by, y) \in Int
  BY BoardAssumption DEF Offset

\* A hit puts the ball beside its paddle, and keeps its speed across.
LEMMA HitKeeps ==
    ASSUME NEW b \in Balls, NEW ys \in [Sides -> Int]
    PROVE  /\ Hit(b, ys) \in Balls
           /\ \/ Hit(b, ys) = b
              \/ Hit(b, ys).x \in {Column + Radius, Width - Column - Radius}
<1>1. ys[1] \in Int /\ ys[2] \in Int
  BY DEF Sides
<1>2. b.x \in Int /\ b.y \in Int /\ b.vx \in {Speed, -Speed}
  BY DEF Balls
<1>3. Offset(b.y, ys[1]) \in Int /\ Offset(b.y, ys[2]) \in Int
  BY <1>1, <1>2, OffsetType
<1>4. Away(b.vx) = Speed
  BY <1>2, BoardAssumption DEF Away
<1> DEFINE left == [x |-> Column + Radius, y |-> b.y, vx |-> Speed, vy |-> Offset(b.y, ys[1])]
           right == [x |-> Width - Column - Radius, y |-> b.y, vx |-> -Speed,
                     vy |-> Offset(b.y, ys[2])]
<1>5. left \in Balls /\ right \in Balls
  BY <1>2, <1>3, BoardAssumption DEF Balls
<1>6. left.x = Column + Radius /\ right.x = Width - Column - Radius
  OBVIOUS
<1>7. Hit(b, ys) \in {left, right, b}
  BY <1>4, Zenon DEF Hit
<1> HIDE DEF left, right
<1> QED BY <1>5, <1>6, <1>7

LEMMA FlyKeeps ==
    ASSUME NEW b \in Balls PROVE Fly(b) \in Balls /\ Fly(b).x = b.x + b.vx
<1>1. b.x + b.vx \in Int
  BY BoardAssumption DEF Balls
<1> QED BY <1>1 DEF Fly, Balls

LEMMA ServeKeeps ==
    ASSUME NEW b \in Balls, NEW k \in 0..2, NEW ys \in [Sides -> Int]
    PROVE  Serve(b, k, ys) \in Balls
<1>1. CASE k = 0
  BY <1>1 DEF Serve
<1>2. CASE k # 0
  <2>1. ys[k] + Tall \div 2 \in Int /\ Width \div 2 \in Int
    BY <1>2, BoardAssumption DEF Sides
  <2> DEFINE v == IF k = 1 THEN -Speed ELSE Speed
  <2>2. v \in {Speed, -Speed}
    OBVIOUS
  <2>3. Serve(b, k, ys) = [x |-> Width \div 2, y |-> ys[k] + Tall \div 2, vy |-> 0, vx |-> v]
    BY <1>2 DEF Serve
  <2> HIDE DEF v
  <2> QED BY <2>1, <2>2, <2>3 DEF Balls
<1> QED BY <1>1, <1>2

LEMMA FallKeeps ==
    ASSUME NEW b \in Balls PROVE Fall(b) \in Balls
<1> DEFINE y == b.y + b.vy
           vy == IF y + Radius > Height \/ y - Radius < 0 THEN -b.vy ELSE b.vy
<1>1. y \in Int /\ vy \in Int
  BY DEF Balls
<1>2. Fall(b) = [b EXCEPT !.y = y, !.vy = vy]
  BY DEF Fall, Balls
<1> HIDE DEF y, vy
<1> QED BY <1>1, <1>2 DEF Balls

\* What one frame does: the ball stays a ball, and makes a goal only if it was
\* a frame away from the column that it missed.
Ahead == [k \in Sides |-> Pushed(positionY[k], pressed[seat[k]])]
Flown == Hit(Fly(ball), Ahead)

LEMMA AheadType ==
    ASSUME MatchOK PROVE /\ Ahead \in [Sides -> (-Step)..(Height - Tall + Step)]
                         /\ Ahead \in [Sides -> Int]
<1>1. \A k \in Sides : Ahead[k] \in (-Step)..(Height - Tall + Step)
  BY PaddleStays DEF MatchOK, Ahead
<1>2. \A k \in Sides : Ahead[k] \in Int
  BY <1>1, BoardAssumption
<1>3. Ahead = [k \in Sides |-> Ahead[k]]
  BY DEF Ahead
<1> QED BY <1>1, <1>2, <1>3

LEMMA FlownIsNear ==
    ASSUME MatchOK
    PROVE  /\ Flown \in Balls
           /\ Scorer(Flown) \in 0..2
           /\ \A k \in Sides : Scorer(Flown) = k => Beside(ball, Other(k))
<1>1. ball \in Balls /\ Fly(ball) \in Balls /\ Fly(ball).x = ball.x + ball.vx
  BY FlyKeeps DEF MatchOK
<1>2. /\ Flown \in Balls
      /\ Flown = Fly(ball) \/ Flown.x \in {Column + Radius, Width - Column - Radius}
  BY <1>1, AheadType, HitKeeps DEF Flown
<1>3. Flown.x \in Int /\ ball.x \in Int /\ ball.vx \in {Speed, -Speed}
  BY <1>1, <1>2 DEF Balls
<1>4. /\ Scorer(Flown) \in 0..2
      /\ Scorer(Flown) = 1 => Flown.x + Radius > Width
      /\ Scorer(Flown) = 2 => Flown.x - Radius < 0
  <2>1. CASE Flown.x + Radius > Width
    <3>1. ~(Flown.x - Radius < 0)
      BY <1>3, <2>1, BoardAssumption
    <3> QED BY <2>1, <3>1 DEF Scorer
  <2>2. CASE ~(Flown.x + Radius > Width) /\ Flown.x - Radius < 0
    BY <2>2 DEF Scorer
  <2>3. CASE ~(Flown.x + Radius > Width) /\ ~(Flown.x - Radius < 0)
    BY <2>3 DEF Scorer
  <2> QED BY <2>1, <2>2, <2>3
<1>5. Flown.x = ball.x + ball.vx \/ Flown.x \in {Column + Radius, Width - Column - Radius}
  BY <1>1, <1>2
<1> HIDE DEF Flown
<1>6. Scorer(Flown) = 1 => Beside(ball, 2)
  BY <1>3, <1>4, <1>5, BoardAssumption DEF Beside
<1>7. Scorer(Flown) = 2 => Beside(ball, 1)
  BY <1>3, <1>4, <1>5, BoardAssumption DEF Beside
<1> QED BY <1>2, <1>4, <1>6, <1>7 DEF Sides, Other

----------------------------------------------------------------------------
(* The shape of the state, one handler after the other. *)

LEMMA OtherSide == \A k \in Sides : Other(k) \in Sides /\ Other(k) # k /\ Other(Other(k)) = k
  BY DEF Sides, Other

LEMMA SideType == \A d : SideOf(d) \in Sides
  BY DEF SideOf, Sides

LEMMA GoalPacket ==
    ASSUME NEW k \in Sides, NEW g \in [Sides -> Goals]
    PROVE  OnGoal(k, g) \in [event : {"onGoal"}, goals : Goals, opponent_goals : Goals]
  BY OtherSide DEF OnGoal

LEMMA NewsType ==
    ASSUME NEW k \in Sides, NEW by \in Sides, NEW g \in [Sides -> Goals]
    PROVE  News(k, by, g) \in Seq(Packets)
<1>1. OnGoal(k, g) \in Packets
  BY GoalPacket DEF Packets
<1>2. OnEnd(k = by) \in Packets
  <2> DEFINE won == k = by
  <2>1. won \in BOOLEAN
    OBVIOUS
  <2> HIDE DEF won
  <2>2. OnEnd(won) \in Packets
    BY <2>1 DEF OnEnd, Packets
  <2> QED BY <2>2 DEF won
<1> DEFINE a == OnGoal(k, g)
           b == OnEnd(k = by)
<1>3. News(k, by, g) = <<a>> \o (IF g[by] >= WinGoals THEN <<b>> ELSE <<>>)
  BY DEF News
<1>4. a \in Packets /\ b \in Packets
  BY <1>1, <1>2
<1> HIDE DEF a, b
<1> QED BY <1>3, <1>4

LEMMA FrameShape ==
    ASSUME ShapeOK, Frame PROVE ShapeOK'
<1> DEFINE by == Scorer(Flown)
           after == IF by = 0 THEN goals ELSE [goals EXCEPT ![by] = @ + 1]
<1>1. /\ positionY' = Ahead /\ ball' = Fall(Serve(Flown, by, Ahead)) /\ goals' = after
      /\ status = "playing"
      /\ status' = IF by # 0 /\ after[by] >= WinGoals THEN "completed" ELSE status
      /\ inbox' = IF by = 0 THEN inbox
                  ELSE [d \in Tabs |-> inbox[d] \o News(SideOf(d), by, after)]
      /\ UNCHANGED <<queue, made, seat, inMatch, idle, pressed, screen, outbox, clicks>>
  BY DEF Frame, Ahead, Flown
<1>2. MatchOK /\ BoxesOK
  BY DEF ShapeOK, ServerOK
<1>3. by \in 0..2 /\ Flown \in Balls
  BY <1>2, FlownIsNear
<1> HIDE DEF by
<1>4. after \in [Sides -> Goals] /\ (by # 0 => after[by] = goals[by] + 1 /\ \A k \in Sides \ {by} : after[k] = goals[k])
  BY <1>1, <1>2, <1>3, BoardAssumption DEF MatchOK, Goals, Sides
<1>5. status' = "playing" => \A k \in Sides : after[k] < WinGoals
  BY <1>1, <1>2, <1>3, <1>4, BoardAssumption DEF MatchOK, Goals, Sides
<1> HIDE DEF after
<1>6. ball' \in Balls
  BY <1>1, <1>2, <1>3, AheadType, ServeKeeps, FallKeeps
<1>7. MatchOK'
  <2>1. /\ seat' = seat /\ inMatch' = inMatch /\ idle' = idle /\ positionY' = Ahead /\ goals' = after
        /\ status' \in {"playing", "completed"}
    BY <1>1
  <2> QED BY <1>2, <1>4, <1>5, <1>6, <2>1, AheadType DEF MatchOK
<1>8. inbox' \in [Tabs -> Seq(Packets)]
  <2>1. CASE by = 0
    BY <1>1, <1>2, <2>1 DEF BoxesOK
  <2>2. CASE by # 0
    <3>1. by \in Sides
      BY <1>3, <2>2 DEF Sides
    <3>2. \A d \in Tabs : inbox[d] \o News(SideOf(d), by, after) \in Seq(Packets)
      BY <1>2, <1>4, <3>1, NewsType, SideType DEF BoxesOK
    <3> QED BY <1>1, <2>2, <3>2
  <2> QED BY <2>1, <2>2
<1>9. ScreenOK'
  BY <1>1 DEF ShapeOK, ScreenOK, screen, trip, rival, result, hands
<1>10. UNCHANGED <<queue, made, pressed, outbox, clicks>>
  BY <1>1
<1> QED BY <1>1, <1>7, <1>8, <1>9, <1>10 DEF ShapeOK, ServerOK, BoxesOK

\* A packet that a tab sent, and the rest of them.
LEMMA RequestTaken ==
    ASSUME BoxesOK, NEW d \in Tabs, NEW event, Request(d, event)
    PROVE  /\ Head(outbox[d]) \in Requests /\ Head(outbox[d]).event = event
           /\ outbox' \in [Tabs -> Seq(Requests)]
  BY DEF BoxesOK, Request

LEMMA PairOf ==
    ASSUME NEW a \in Tabs, NEW b \in Tabs, a # b
    PROVE  /\ [k \in Sides |-> IF k = 1 THEN a ELSE b] \in [Sides -> Tabs]
           /\ [k \in Sides |-> IF k = 1 THEN a ELSE b][1] = a
           /\ [k \in Sides |-> IF k = 1 THEN a ELSE b][2] = b
  BY DEF Sides

LEMMA StartOfMatch ==
    /\ Kickoff \in Balls /\ Zero \in [Sides -> Goals]
    /\ [k \in Sides |-> Middle] \in [Sides -> (-Step)..(Height - Tall + Step)]
<1>1. Kickoff \in Balls
  <2>1. Width \div 2 \in Int /\ Height \div 2 \in Int /\ Speed \in Int
    BY BoardAssumption
  <2> QED BY <2>1 DEF Kickoff, Balls
<1>2. Middle \in (-Step)..(Height - Tall + Step)
  BY BoardAssumption DEF Middle
<1>3. 0 \in Goals
  BY BoardAssumption DEF Goals
<1> QED BY <1>1, <1>2, <1>3 DEF Zero

LEMMA MatchmakeShape ==
    ASSUME ShapeOK, NEW d \in Tabs, OnMatchmake(d) PROVE ShapeOK'
<1>1. ServerOK /\ ScreenOK /\ BoxesOK
  BY DEF ShapeOK
<1>2. /\ Request(d, "matchmake") /\ UNCHANGED <<pressed, screen, clicks>>
      /\ \A i \in DOMAIN queue : queue[i] # d
  BY DEF OnMatchmake, Request
<1>3. outbox' \in [Tabs -> Seq(Requests)]
  BY <1>1, <1>2, RequestTaken
<1>4. ScreenOK'
  BY <1>1, <1>2 DEF ScreenOK, screen, trip, rival, result, hands
<1>5. CASE queue = <<>>
  <2>1. queue' = <<d>> /\ UNCHANGED <<made, game, inbox>>
    BY <1>5 DEF OnMatchmake
  <2>2. ServerOK'
    BY <1>1, <1>2, <2>1 DEF ServerOK, MatchOK, game
  <2> QED BY <1>1, <1>2, <1>3, <1>4, <2>1, <2>2 DEF ShapeOK, BoxesOK
<1>6. CASE queue # <<>>
  <2> DEFINE new == [k \in Sides |-> IF k = 1 THEN queue[1] ELSE d]
             found(e) == [event |-> "found", vid |-> IF new[1] = e THEN 1 ELSE 2]
  <2>1. /\ made < MaxMatches /\ made' = made + 1 /\ queue' = Tail(queue)
        /\ seat' = new /\ status' = "pending" /\ inMatch' = Tabs /\ idle' = {} /\ goals' = Zero
        /\ ball' = Kickoff /\ positionY' = [k \in Sides |-> Middle]
        /\ inbox' = [e \in Tabs |-> Append(inbox[e], found(e))]
    BY <1>6 DEF OnMatchmake
  <2>2. queue[1] \in Tabs /\ queue[1] # d /\ Tail(queue) \in Seq(Tabs) /\ Len(Tail(queue)) <= 1
    BY <1>1, <1>2, <1>6 DEF ServerOK
  <2>3. new \in [Sides -> Tabs] /\ new[1] = queue[1] /\ new[2] = d
    BY <2>2, PairOf
  <2>4. \A e \in Tabs : found(e) \in Packets
    <3> SUFFICES ASSUME NEW e \in Tabs PROVE found(e) \in Packets
      OBVIOUS
    <3> DEFINE v == IF new[1] = e THEN 1 ELSE 2
    <3>1. v \in Sides
      BY DEF Sides
    <3> HIDE DEF v
    <3>2. [event |-> "found", vid |-> v] \in Packets
      BY <3>1 DEF Packets
    <3> QED BY <3>2 DEF v
  <2> HIDE DEF new, found
  <2>5. inbox' \in [Tabs -> Seq(Packets)]
    BY <1>1, <2>1, <2>4 DEF BoxesOK
  <2>6. MatchOK'
    BY <2>1, <2>2, <2>3, StartOfMatch DEF MatchOK
  <2>7. made' \in 0..MaxMatches /\ made' > 0
    BY <1>1, <2>1, BoardAssumption DEF ServerOK
  <2>8. queue' \in Seq(Tabs) /\ Len(queue') <= 1 /\ pressed' \in [Tabs -> SUBSET Keys]
    BY <1>1, <1>2, <2>1, <2>2 DEF ServerOK
  <2> QED BY <1>1, <1>2, <1>3, <1>4, <2>5, <2>6, <2>7, <2>8 DEF ShapeOK, BoxesOK, ServerOK
<1> QED BY <1>5, <1>6

LEMMA BeginShape == ASSUME ShapeOK, Begin PROVE ShapeOK'
<1>1. ServerOK /\ ScreenOK /\ BoxesOK /\ MatchOK
  BY DEF ShapeOK, ServerOK
<1>2. /\ status = "pending" /\ status' = "playing"
      /\ inbox' = [d \in Tabs |-> Append(inbox[d], [event |-> "start", match |-> made])]
      /\ UNCHANGED <<queue, made, seat, inMatch, idle, goals, ball, positionY,
                     pressed, screen, outbox, clicks>>
  BY DEF Begin
<1>3. goals = Zero /\ \A k \in Sides : goals[k] < WinGoals
  BY <1>1, <1>2, BoardAssumption DEF MatchOK, Zero
<1>4. MatchOK'
  BY <1>1, <1>2, <1>3 DEF MatchOK
<1>5. ScreenOK'
  BY <1>1, <1>2 DEF ScreenOK, screen, trip, rival, result, hands
<1>6. inbox' \in [Tabs -> Seq(Packets)]
  <2>1. made \in 1..MaxMatches
    BY <1>1, <1>2, BoardAssumption DEF ServerOK
  <2>2. [event |-> "start", match |-> made] \in Packets
    BY <2>1 DEF Packets
  <2> QED BY <1>1, <1>2, <2>2 DEF BoxesOK
<1> QED BY <1>1, <1>2, <1>4, <1>5, <1>6 DEF ShapeOK, ServerOK, BoxesOK

LEMMA EndPacket ==
    ASSUME NEW win \in BOOLEAN PROVE OnEnd(win) \in [event : {"onEnd"}, win : BOOLEAN]
  BY DEF OnEnd

LEMMA SendKeeps ==
    ASSUME BoxesOK, NEW d \in Tabs, NEW packets \in Seq(Packets)
    PROVE  Send(d, packets) \in [Tabs -> Seq(Packets)]
<1>1. inbox[d] \o packets \in Seq(Packets)
  BY DEF BoxesOK
<1> QED BY <1>1 DEF Send, BoxesOK

LEMMA WalkoverShape ==
    ASSUME MatchOK, BoxesOK, NEW d \in Tabs, Walkover(d)
    PROVE  /\ status' = "completed" /\ goals' \in [Sides -> Goals]
           /\ inbox' \in [Tabs -> Seq(Packets)]
<1> DEFINE stay == Other(SideOf(d))
<1>1. /\ status' = "completed"
      /\ goals' = [k \in Sides |-> IF k = stay THEN WinGoals ELSE 0]
      /\ inbox' = Send(seat[stay], <<OnGoal(stay, goals'), OnEnd(TRUE)>>)
  BY DEF Walkover
<1>2. stay \in Sides
  BY SideType, OtherSide
<1> HIDE DEF stay
<1>3. goals' \in [Sides -> Goals]
  BY <1>1, BoardAssumption DEF Goals
<1>4. OnGoal(stay, goals') \in Packets /\ OnEnd(TRUE) \in Packets
  BY <1>2, <1>3, GoalPacket, EndPacket DEF Packets
<1>5. <<OnGoal(stay, goals'), OnEnd(TRUE)>> \in Seq(Packets)
  <2> DEFINE a == OnGoal(stay, goals')
             b == OnEnd(TRUE)
  <2>1. a \in Packets /\ b \in Packets
    BY <1>4
  <2> HIDE DEF a, b
  <2>2. <<a, b>> \in Seq(Packets)
    BY <2>1
  <2> QED BY <2>2 DEF a, b
<1> QED BY <1>1, <1>2, <1>3, <1>5, SendKeeps DEF MatchOK

LEMMA ImLeftShape ==
    ASSUME ShapeOK, NEW d \in Tabs, OnImLeft(d) PROVE ShapeOK'
<1>1. ServerOK /\ ScreenOK /\ BoxesOK /\ MatchOK
  BY DEF ShapeOK, ServerOK
<1>2. /\ Request(d, "im_left") /\ UNCHANGED <<screen, clicks>>
      /\ UNCHANGED <<queue, made, seat, ball, positionY, pressed>>
  BY DEF OnImLeft, Request
<1>3. outbox' \in [Tabs -> Seq(Requests)]
  BY <1>1, <1>2, RequestTaken
<1>4. ScreenOK'
  BY <1>1, <1>2 DEF ScreenOK, screen, trip, rival, result, hands
<1>5. /\ inMatch' \subseteq Tabs /\ idle' \subseteq Tabs
      /\ goals' \in [Sides -> Goals] /\ inbox' \in [Tabs -> Seq(Packets)]
      /\ \/ UNCHANGED <<status, goals>>
         \/ status' = "completed"
      /\ status = "none" => UNCHANGED <<status, inMatch>>
  <2>1. CASE d \notin inMatch
    BY <1>1, <2>1 DEF OnImLeft, MatchOK, BoxesOK
  <2>2. CASE d \in inMatch /\ status = "playing"
    <3>1. /\ idle' = idle \cup {d} /\ inMatch' = inMatch
          /\ UNCHANGED <<status, goals, inbox>> \/ Walkover(d)
      BY <2>2 DEF OnImLeft
    <3> QED BY <1>1, <2>2, <3>1, WalkoverShape DEF MatchOK, BoxesOK
  <2>3. CASE d \in inMatch /\ status # "playing"
    <3>1. /\ idle' = Tabs /\ inMatch' = {} /\ status' = "completed" /\ goals' = goals
          /\ inbox' = Send(seat[1], <<Plain("opponent_left")>>)
      BY <2>3, Zenon DEF OnImLeft
    <3>2. Plain("opponent_left") \in Packets
      BY DEF Plain, Packets
    <3>3. <<Plain("opponent_left")>> \in Seq(Packets) /\ seat[1] \in Tabs
      BY <1>1, <3>2 DEF MatchOK, Sides
    <3> QED BY <1>1, <2>3, <3>1, <3>3, SendKeeps DEF MatchOK
  <2> QED BY <2>1, <2>2, <2>3
<1>6. MatchOK'
  BY <1>1, <1>2, <1>5 DEF MatchOK
<1> QED BY <1>1, <1>2, <1>3, <1>4, <1>5, <1>6 DEF ShapeOK, ServerOK, BoxesOK

LEMMA KeyShape ==
    ASSUME ShapeOK, NEW d \in Tabs, OnKey(d) PROVE ShapeOK'
<1> DEFINE p == Head(outbox[d])
           who == seat[IF p.vid = 1 THEN 1 ELSE 2]
<1>1. ServerOK /\ ScreenOK /\ BoxesOK
  BY DEF ShapeOK
<1>2. /\ Request(d, "key") /\ UNCHANGED <<screen, clicks>> /\ UNCHANGED <<queue, made, game, inbox>>
      /\ pressed' = IF d \notin inMatch THEN pressed
                    ELSE [pressed EXCEPT ![who] =
                              IF p.pressed THEN @ \cup {p.key} ELSE @ \ {p.key}]
  BY DEF OnKey, Request
<1>3. p \in Requests /\ p.event = "key" /\ outbox' \in [Tabs -> Seq(Requests)]
  BY <1>1, <1>2, RequestTaken
<1>4. p.key \in Keys
  BY <1>3 DEF Requests
<1> HIDE DEF p, who
<1>5. pressed' \in [Tabs -> SUBSET Keys]
  BY <1>1, <1>2, <1>4 DEF ServerOK
<1>6. MatchOK'
  BY <1>1, <1>2 DEF ServerOK, MatchOK, game
<1>7. ScreenOK'
  BY <1>1, <1>2 DEF ScreenOK, screen, trip, rival, result, hands
<1> QED BY <1>1, <1>2, <1>3, <1>5, <1>6, <1>7 DEF ShapeOK, ServerOK, BoxesOK, game

LEMMA ServerKept ==
    ASSUME ServerOK, UNCHANGED server PROVE ServerOK'
  BY DEF ServerOK, MatchOK, server, game

\* What a tab sends.
LEMMA EmitKeeps ==
    ASSUME BoxesOK, NEW d \in Tabs, NEW packets \in Seq(Requests), Emit(d, packets)
    PROVE  outbox' \in [Tabs -> Seq(Requests)]
<1>1. outbox[d] \o packets \in Seq(Requests)
  BY DEF BoxesOK
<1> QED BY <1>1 DEF Emit, BoxesOK

LEMMA PlainRequest ==
    <<Plain("matchmake")>> \in Seq(Requests) /\ <<Plain("im_left")>> \in Seq(Requests)
<1>1. Plain("matchmake") \in Requests /\ Plain("im_left") \in Requests
  BY DEF Plain, Requests
<1> QED BY <1>1

LEMMA ClickKeeps ==
    ASSUME clicks \in [Tabs -> 0..MaxClicks], NEW d \in Tabs, Click(d)
    PROVE  clicks' \in [Tabs -> 0..MaxClicks]
<1>1. clicks[d] + 1 \in 0..MaxClicks
  BY BoardAssumption DEF Click
<1> QED BY <1>1 DEF Click

LEMMA HomeShape ==
    ASSUME ScreenOK, BoxesOK, NEW d \in Tabs, GoHome(d)
    PROVE  ScreenOK' /\ outbox' \in [Tabs -> Seq(Requests)]
<1>1. Emit(d, <<Plain("im_left")>>)
  BY DEF GoHome
<1>2. /\ page' \in [Tabs -> {"home", "search", "online"}] /\ follows' \in [Tabs -> 0..MaxMatches]
      /\ opponent' \in [Tabs -> BOOLEAN]
      /\ missed' \in [Tabs -> BOOLEAN] /\ late' \in [Tabs -> BOOLEAN]
      /\ named' \in [Tabs -> 0..2] /\ bound' \in [Tabs -> 0..2] /\ UNCHANGED <<vid, profile>>
  BY BoardAssumption DEF GoHome, ScreenOK
<1>3. /\ score' \in [Tabs -> [Sides -> Goals]] /\ winner' \in [Tabs -> {"none", "me", "other"}]
      /\ held' \in [Tabs -> SUBSET Keys] /\ lastPress' \in [Tabs -> Keys \cup {"none"}]
  BY StartOfMatch DEF GoHome, ScreenOK
<1>4. ScreenOK'
  BY <1>2, <1>3 DEF ScreenOK
<1> QED BY <1>1, <1>4, EmitKeeps, PlainRequest

LEMMA ClicksShape ==
    ASSUME ShapeOK, NEW d \in Tabs, Leave(d) \/ Search(d) \/ Mount(d) \/ Dialog(d) PROVE ShapeOK'
<1>1. ServerOK /\ ScreenOK /\ BoxesOK /\ clicks \in [Tabs -> 0..MaxClicks] /\ ServerOK'
  BY ServerKept DEF ShapeOK, Leave, Search, Mount, Dialog
<1>2. clicks' \in [Tabs -> 0..MaxClicks] /\ inbox' = inbox
  BY <1>1, ClickKeeps DEF Leave, Search, Mount, Dialog
<1>3. CASE GoHome(d)
  BY <1>1, <1>2, <1>3, HomeShape DEF ShapeOK, BoxesOK
<1>4. CASE Search(d)
  <2>1. Emit(d, <<Plain("matchmake")>>)
    BY <1>4 DEF Search
  <2>2. ScreenOK'
    BY <1>1, <1>4 DEF Search, ScreenOK, rival, result, hands
  <2> QED BY <1>1, <1>2, <2>1, <2>2, EmitKeeps, PlainRequest DEF ShapeOK, BoxesOK
<1>5. CASE Mount(d) /\ opponent[d]
  <2>1. /\ UNCHANGED <<outbox, follows, missed, rival, result, held, lastPress>>
        /\ page' = [page EXCEPT ![d] = "online"]
        /\ named' = [named EXCEPT ![d] = vid[d]] /\ bound' = [bound EXCEPT ![d] = vid[d]]
        /\ \E awaited \in BOOLEAN : late' = [late EXCEPT ![d] = awaited]
    BY <1>5 DEF Mount
  <2> QED BY <1>1, <1>2, <2>1 DEF ShapeOK, ScreenOK, BoxesOK, rival, result
<1> QED BY <1>3, <1>4, <1>5 DEF Leave, Mount, Dialog

\* A packet that a tab hears, and the rest of them.
LEMMA PacketTaken ==
    ASSUME BoxesOK, NEW d \in Tabs, NEW event, Receive(d, event)
    PROVE  /\ inbox[d] # <<>> /\ Head(inbox[d]) \in Packets /\ Head(inbox[d]).event = event
           /\ inbox' = [inbox EXCEPT ![d] = Tail(inbox[d])]
           /\ inbox' \in [Tabs -> Seq(Packets)]
           /\ UNCHANGED server /\ UNCHANGED clicks
  BY DEF BoxesOK, Receive

LEMMA PacketParts ==
    ASSUME NEW p \in Packets
    PROVE  /\ p.event = "onGoal" => p.goals \in Goals /\ p.opponent_goals \in Goals
           /\ p.event = "found" => p.vid \in Sides
           /\ p.event = "start" => p.match \in 1..MaxMatches
  BY DEF Packets

LEMMA HeardShape ==
    ASSUME ShapeOK, NEW d \in Tabs,
           \/ AfterFound(d) \/ AfterOpponentLeft(d) \/ AfterStart(d) \/ AfterGoal(d) \/ AfterEnd(d)
           \/ \E e \in {"found", "opponent_left", "start"} : Deaf(d, e)
           \/ \E e \in {"onGoal", "onEnd"} : Unheard(d, e)
    PROVE  ShapeOK'
<1>1. ServerOK /\ ScreenOK /\ BoxesOK /\ clicks \in [Tabs -> 0..MaxClicks]
  BY DEF ShapeOK
<1>2. PICK event : Receive(d, event)
  BY DEF AfterFound, AfterOpponentLeft, AfterStart, AfterGoal, AfterEnd, Deaf, Unheard
<1>3. inbox' \in [Tabs -> Seq(Packets)] /\ ServerOK' /\ clicks' = clicks
  BY <1>1, <1>2, PacketTaken, ServerKept
<1> SUFFICES ScreenOK' /\ outbox' \in [Tabs -> Seq(Requests)]
  BY <1>1, <1>3 DEF ShapeOK, BoxesOK
<1>4. CASE AfterFound(d)
  <2>1. Head(inbox[d]).vid \in 0..2
    BY <1>1, <1>4, PacketTaken, PacketParts DEF AfterFound, Sides
  <2> QED BY <1>1, <1>4, <2>1 DEF AfterFound, ScreenOK, BoxesOK, trip, result, hands
<1>5. CASE AfterOpponentLeft(d)
  <2>1. Emit(d, <<Plain("matchmake")>>)
    BY <1>5 DEF AfterOpponentLeft
  <2>2. ScreenOK'
    BY <1>1, <1>5 DEF AfterOpponentLeft, ScreenOK, trip, result, hands
  <2> QED BY <1>1, <2>1, <2>2, EmitKeeps, PlainRequest
<1>6. CASE AfterStart(d)
  <2>1. Head(inbox[d]).match \in 0..MaxMatches
    BY <1>1, <1>6, PacketTaken, PacketParts, BoardAssumption DEF AfterStart
  <2> QED BY <1>1, <1>6, <2>1 DEF AfterStart, ScreenOK, BoxesOK, rival, result, hands
<1>7. CASE AfterGoal(d)
  <2> DEFINE told == [k \in Sides |-> IF k = 1 THEN Head(inbox[d]).goals
                                      ELSE Head(inbox[d]).opponent_goals]
  <2>1. Head(inbox[d]).goals \in Goals /\ Head(inbox[d]).opponent_goals \in Goals
    BY <1>1, <1>7, PacketTaken, PacketParts DEF AfterGoal
  <2>2. told \in [Sides -> Goals]
    BY <2>1
  <2>3. /\ score' = [score EXCEPT ![d] = told]
        /\ missed' = [missed EXCEPT ![d] = FALSE]
        /\ UNCHANGED <<outbox, page, follows, named, late, rival, winner, hands>>
    BY <1>7 DEF AfterGoal
  <2> HIDE DEF told
  <2> QED BY <1>1, <2>2, <2>3 DEF ScreenOK, BoxesOK, rival, hands
<1>8. CASE AfterEnd(d)
  <2>1. /\ \/ winner' = [winner EXCEPT ![d] = "me"]
           \/ winner' = [winner EXCEPT ![d] = "other"]
        /\ UNCHANGED <<outbox, trip, rival, score, hands>>
    BY <1>8, Zenon DEF AfterEnd
  <2> QED BY <1>1, <2>1 DEF ScreenOK, BoxesOK, trip, rival, hands
<1>9. ASSUME NEW e, Deaf(d, e) PROVE ScreenOK' /\ outbox' \in [Tabs -> Seq(Requests)]
  BY <1>1, <1>9 DEF Deaf, ScreenOK, BoxesOK, screen, trip, rival, result, hands
<1>10. ASSUME NEW e, Unheard(d, e) PROVE ScreenOK' /\ outbox' \in [Tabs -> Seq(Requests)]
  <2>1. /\ UNCHANGED <<outbox, page, follows, named, late, rival, result, hands>>
        /\ \E gone \in BOOLEAN : missed' = [missed EXCEPT ![d] = gone]
    <3>1. (missed[d] \/ (e = "onGoal" /\ follows[d] # 0)) \in BOOLEAN
      OBVIOUS
    <3> QED BY <1>10, <3>1 DEF Unheard
  <2> QED BY <1>1, <2>1 DEF ScreenOK, BoxesOK, rival, result, hands
<1> QED BY <1>4, <1>5, <1>6, <1>7, <1>8, <1>9, <1>10

LEMMA ProfileShape ==
    ASSUME ShapeOK, NEW d \in Tabs, Profile(d) PROVE ShapeOK'
<1>1. ServerOK /\ ScreenOK /\ BoxesOK /\ ServerOK'
  BY ServerKept DEF ShapeOK, Profile
<1>2. ScreenOK'
  BY <1>1 DEF Profile, ScreenOK, trip, result, hands
<1> QED BY <1>1, <1>2 DEF Profile, ShapeOK, BoxesOK

LEMMA KeysShape ==
    ASSUME ShapeOK, NEW d \in Tabs, NEW key \in Keys, KeyDown(d, key) \/ KeyUp(d, key)
    PROVE  ShapeOK'
<1>1. ServerOK /\ ScreenOK /\ BoxesOK /\ ServerOK' /\ clicks \in [Tabs -> 0..MaxClicks]
  BY ServerKept DEF ShapeOK, KeyDown, KeyUp, KeyUpAfter, Press
<1>2. ASSUME NEW down \in BOOLEAN PROVE KeyPacket(d, key, down) \in Seq(Requests)
  <2> DEFINE p == [event |-> "key", key |-> key, pressed |-> down, vid |-> bound[d]]
  <2>1. p \in Requests
    BY <1>1 DEF ScreenOK, Requests
  <2> HIDE DEF p
  <2>2. <<p>> \in Seq(Requests)
    BY <2>1
  <2> QED BY <2>2 DEF KeyPacket, p
<1>3. /\ clicks' \in [Tabs -> 0..MaxClicks] /\ inbox' = inbox
      /\ UNCHANGED <<trip, rival, result>>
  BY <1>1, ClickKeeps DEF KeyDown, KeyUp, KeyUpAfter
<1>4. outbox' \in [Tabs -> Seq(Requests)]
  <2>1. outbox' = outbox \/ \E down \in BOOLEAN : Emit(d, KeyPacket(d, key, down))
    BY DEF KeyDown, KeyUp, KeyUpAfter, Press
  <2> QED BY <1>1, <1>2, <2>1, EmitKeeps DEF BoxesOK
<1>5. PICK last \in Keys \cup {"none"} :
         /\ Press(d, last)
         /\ held' = [held EXCEPT ![d] = held[d] \cup {key}] \/ held' = [held EXCEPT ![d] = held[d] \ {key}]
  <2>1. CASE KeyDown(d, key)
    BY <2>1 DEF KeyDown
  <2>2. CASE KeyUp(d, key)
    BY <2>2 DEF KeyUp, KeyUpAfter
  <2> QED BY <2>1, <2>2
<1>6. held' \in [Tabs -> SUBSET Keys] /\ lastPress' \in [Tabs -> Keys \cup {"none"}]
      /\ bound' \in [Tabs -> 0..2]
  <2>1. held[d] \cup {key} \in SUBSET Keys /\ held[d] \ {key} \in SUBSET Keys
    BY <1>1 DEF ScreenOK
  <2>2. held' \in [Tabs -> SUBSET Keys]
    BY <1>1, <1>5, <2>1 DEF ScreenOK
  <2>3. lastPress' \in [Tabs -> Keys \cup {"none"}] /\ bound' \in [Tabs -> 0..2]
    BY <1>1, <1>5 DEF ScreenOK, Press
  <2> QED BY <2>2, <2>3
<1>7. ScreenOK'
  BY <1>1, <1>3, <1>6 DEF ScreenOK, trip, rival, result
<1> QED BY <1>1, <1>3, <1>4, <1>7 DEF ShapeOK, BoxesOK

LEMMA InitShape == Init => ShapeOK
<1> SUFFICES ASSUME Init PROVE ShapeOK
  OBVIOUS
<1>1. 0 \in 0..MaxMatches /\ 0 \in 0..MaxClicks
  BY BoardAssumption
<1>2. MatchOK
  BY StartOfMatch DEF Init, MatchOK
<1>3. ServerOK
  BY <1>1, <1>2 DEF Init, ServerOK
<1>4. ScreenOK
  BY <1>1, StartOfMatch DEF Init, ScreenOK
<1>5. BoxesOK /\ clicks \in [Tabs -> 0..MaxClicks]
  BY <1>1 DEF Init, BoxesOK
<1> QED BY <1>3, <1>4, <1>5 DEF ShapeOK

LEMMA ShapeStep == ShapeOK /\ [Next]_vars => ShapeOK'
<1> SUFFICES ASSUME ShapeOK, [Next]_vars PROVE ShapeOK'
  OBVIOUS
<1>1. CASE UNCHANGED vars
  BY <1>1 DEF vars, server, game, screen, trip, rival, result, hands, ShapeOK, ServerOK, MatchOK, ScreenOK, BoxesOK
<1>2. CASE Frame \/ Begin
  BY <1>2, FrameShape, BeginShape
<1>3. ASSUME NEW d \in Tabs, OnMatchmake(d) \/ OnImLeft(d) \/ OnKey(d) PROVE ShapeOK'
  BY <1>3, MatchmakeShape, ImLeftShape, KeyShape
<1>4. ASSUME NEW d \in Tabs, Search(d) \/ Mount(d) \/ Leave(d) \/ Dialog(d) \/ Profile(d) PROVE ShapeOK'
  BY <1>4, ClicksShape, ProfileShape
<1> QED BY <1>1, <1>2, <1>3, <1>4, HeardShape, KeysShape DEF Next

LEMMA ShapeInvariance == Spec => []ShapeOK
  BY InitShape, ShapeStep, PTL DEF Spec

(* A goal falls only when the ball was in the column of the paddle that it passed one
   frame before, for every board, and every speed that is not more than a column. *)
THEOREM OnlineGoalWasReachable == Spec => GoalWasReachable
<1> DEFINE GoalStep == \A k \in Sides : goals'[k] > goals[k] /\ UNCHANGED outbox
                                     => Beside(ball, Other(k))
<1>1. ShapeOK /\ [Next]_vars => [GoalStep]_vars
  <2> SUFFICES ASSUME ShapeOK, Next, NEW k \in Sides, goals'[k] > goals[k], UNCHANGED outbox
               PROVE  Beside(ball, Other(k))
    BY Zenon
  <2>1. MatchOK /\ BoxesOK /\ goals[k] \in Int
    BY BoardAssumption DEF ShapeOK, ServerOK, MatchOK, Goals
  <2>2. goals' # goals
    BY <2>1
  <2>3. CASE Frame
    <3> DEFINE by == Scorer(Flown)
    <3>1. goals' = IF by = 0 THEN goals ELSE [goals EXCEPT ![by] = @ + 1]
      BY <2>3 DEF Frame, Ahead, Flown
    <3>2. by \in 0..2 /\ (by = k => Beside(ball, Other(k)))
      BY <2>1, FlownIsNear
    <3> HIDE DEF by
    <3>3. by = k
      BY <2>1, <2>2, <3>1 DEF MatchOK
    <3> QED BY <3>2, <3>3
  <2>4. ASSUME NEW d \in Tabs, NEW event, Request(d, event) PROVE FALSE
    <3>1. outbox[d] \in Seq(Requests) /\ outbox[d] # <<>> /\ outbox'[d] = Tail(outbox[d])
      BY <2>1, <2>4 DEF Request, BoxesOK
    <3>2. Len(Tail(outbox[d])) # Len(outbox[d])
      BY <3>1
    <3> QED BY <3>1, <3>2
  <2>5. ~Begin
    BY <2>2 DEF Begin
  <2>6. ASSUME NEW d \in Tabs PROVE ~(OnMatchmake(d) \/ OnImLeft(d) \/ OnKey(d))
    BY <2>4 DEF OnMatchmake, OnImLeft, OnKey
  <2>7. ~UNCHANGED server
    BY <2>2 DEF server, game
  <2>8. ASSUME NEW d \in Tabs
        PROVE  /\ ~(Search(d) \/ Mount(d) \/ Leave(d) \/ Dialog(d) \/ Profile(d))
               /\ \A key \in Keys : ~KeyDown(d, key) /\ ~KeyUp(d, key)
    BY <2>7 DEF Search, Mount, Leave, Dialog, Profile, KeyDown, KeyUp, KeyUpAfter, Press
  <2>9. ASSUME NEW d \in Tabs, NEW event PROVE ~Receive(d, event)
    BY <2>7 DEF Receive
  <2>10. ASSUME NEW d \in Tabs
         PROVE  /\ ~(AfterFound(d) \/ AfterOpponentLeft(d) \/ AfterStart(d) \/ AfterGoal(d) \/ AfterEnd(d))
                /\ \A e : ~Deaf(d, e) /\ ~Unheard(d, e)
    BY <2>9 DEF AfterFound, AfterOpponentLeft, AfterStart, AfterGoal, AfterEnd, Deaf, Unheard
  <2> QED BY <2>3, <2>5, <2>6, <2>8, <2>10 DEF Next
<1>2. Spec => [][GoalStep]_vars
  BY <1>1, ShapeInvariance, PTL DEF Spec
<1> QED BY <1>2 DEF GoalWasReachable

(***************************************************************************)
(* The packets of a match tell its score.  A tab that follows the match    *)
(* takes all of them from its start on, whether its page is there or not,  *)
(* so what it was told last and what is still to come fit the match; and   *)
(* as the start of a match comes after all that was said of the one        *)
(* before, so does a start that has not been heard.                        *)
(***************************************************************************)

\* The score as the side k sees it, and as a packet tells it.
View(g, k) == [j \in Sides |-> IF j = 1 THEN g[k] ELSE g[Other(k)]]
Told(p) == [j \in Sides |-> IF j = 1 THEN p.goals ELSE p.opponent_goals]

\* The places of the packets s, from p on, after which another score is shown;
\* at p it is sc.
Scores(s, p, i) == i = p \/ s[i].event = "onGoal"
ShownAt(s, p, sc, i) == IF i = p THEN sc ELSE Told(s[i])
Last(s, i) == \A j \in i+1..Len(s) : s[j].event # "onGoal"

\* The last one is the score of a match that is played.
Current(st, g, k, s, p, sc) ==
    st = "playing" =>
        \A i \in p..Len(s) : Scores(s, p, i) /\ Last(s, i) => ShownAt(s, p, sc, i) = View(g, k)

\* A verdict comes when the match is over and all of its score was told.
Verdicts(st, g, k, s, p, sc) ==
    \A i \in p+1..Len(s) : s[i].event = "onEnd" =>
        /\ st = "completed"
        /\ s[i].win <=> g[k] > g[Other(k)]
        /\ Scores(s, p, i - 1) /\ ShownAt(s, p, sc, i - 1) = View(g, k)
        /\ Last(s, i)

Tells(st, g, k, s, p, sc) == Current(st, g, k, s, p, sc) /\ Verdicts(st, g, k, s, p, sc)

LEMMA TailPlaces ==
    ASSUME NEW s \in Seq(Packets), s # <<>>
    PROVE  /\ Tail(s) \in Seq(Packets) /\ Len(s) \in Nat \ {0} /\ Len(Tail(s)) = Len(s) - 1
           /\ Head(s) = s[1]
           /\ \A i \in 1..Len(Tail(s)) : Tail(s)[i] = s[i + 1]
  OBVIOUS

LEMMA TailLast ==
    ASSUME NEW s \in Seq(Packets), s # <<>>, NEW i \in Nat, Last(Tail(s), i)
    PROVE  Last(s, i + 1)
<1> DEFINE t == Tail(s)
<1>1. Len(s) \in Nat /\ Len(t) = Len(s) - 1 /\ \A j \in 1..Len(t) : t[j] = s[j + 1]
  BY TailPlaces
<1> HIDE DEF t
<1> SUFFICES ASSUME NEW j \in i+2..Len(s) PROVE s[j].event # "onGoal"
  BY DEF Last
<1>2. j - 1 \in i+1..Len(t) /\ j - 1 \in 1..Len(t) /\ (j - 1) + 1 = j
  BY <1>1
<1>3. t[j - 1] = s[j] /\ t[j - 1].event # "onGoal"
  BY <1>1, <1>2 DEF Last, t
<1> QED BY <1>3

LEMMA LastTail ==
    ASSUME NEW s \in Seq(Packets), s # <<>>, NEW i \in Nat, Last(s, i + 1)
    PROVE  Last(Tail(s), i)
<1> DEFINE t == Tail(s)
<1>1. Len(s) \in Nat /\ Len(t) = Len(s) - 1 /\ \A j \in 1..Len(t) : t[j] = s[j + 1]
  BY TailPlaces
<1> HIDE DEF t
<1> SUFFICES ASSUME NEW j \in i+1..Len(t) PROVE t[j].event # "onGoal"
  BY DEF Last, t
<1>2. j + 1 \in (i + 1)+1..Len(s) /\ t[j] = s[j + 1]
  BY <1>1
<1> QED BY <1>2 DEF Last

\* A packet before the start is heard.
LEMMA HeardBefore ==
    ASSUME NEW st, NEW g, NEW k, NEW s \in Seq(Packets), s # <<>>, NEW p \in Nat, NEW sc,
           Tells(st, g, k, s, p + 1, sc)
    PROVE  Tells(st, g, k, Tail(s), p, sc)
<1>1. PICK t \in Seq(Packets) : t = Tail(s)
  BY TailPlaces
<1>2. Len(s) \in Nat /\ Len(t) = Len(s) - 1 /\ \A i \in 1..Len(t) : t[i] = s[i + 1]
  BY <1>1, TailPlaces
<1>3. ASSUME NEW i \in p..Len(t)
      PROVE  /\ Scores(t, p, i) <=> Scores(s, p + 1, i + 1)
             /\ ShownAt(t, p, sc, i) = ShownAt(s, p + 1, sc, i + 1)
  BY <1>2 DEF Scores, ShownAt
<1>4. Current(st, g, k, t, p, sc)
  <2> SUFFICES ASSUME st = "playing", NEW i \in p..Len(t), Scores(t, p, i), Last(t, i)
               PROVE  ShownAt(t, p, sc, i) = View(g, k)
    BY DEF Current
  <2>1. i + 1 \in p + 1..Len(s) /\ Last(s, i + 1) /\ Scores(s, p + 1, i + 1)
    BY <1>1, <1>2, <1>3, TailLast
  <2> QED BY <1>3, <2>1 DEF Tells, Current
<1>5. Verdicts(st, g, k, t, p, sc)
  <2> SUFFICES ASSUME NEW i \in p+1..Len(t), t[i].event = "onEnd"
               PROVE  /\ st = "completed" /\ (t[i].win <=> g[k] > g[Other(k)])
                      /\ Scores(t, p, i - 1) /\ ShownAt(t, p, sc, i - 1) = View(g, k)
                      /\ Last(t, i)
    BY Zenon DEF Verdicts
  <2>1. t[i] = s[i + 1] /\ i + 1 \in (p + 1)+1..Len(s) /\ i - 1 \in p..Len(t)
        /\ (i + 1) - 1 = (i - 1) + 1 /\ i \in Nat
    BY <1>2
  <2>2. /\ st = "completed" /\ (s[i + 1].win <=> g[k] > g[Other(k)])
        /\ Scores(s, p + 1, (i + 1) - 1) /\ ShownAt(s, p + 1, sc, (i + 1) - 1) = View(g, k)
        /\ Last(s, i + 1)
    BY <2>1 DEF Tells, Verdicts
  <2>3. Last(t, i)
    BY <1>1, <2>1, <2>2, LastTail
  <2>4. Scores(t, p, i - 1) /\ ShownAt(t, p, sc, i - 1) = View(g, k)
    BY <1>3, <2>1, <2>2
  <2> QED BY <2>1, <2>2, <2>3, <2>4
<1> QED BY <1>1, <1>4, <1>5 DEF Tells

\* A page hears the next packet of its match.
ScoreAfter(p, sc) == IF p.event = "onGoal" THEN Told(p) ELSE sc

LEMMA HeardNext ==
    ASSUME NEW st, NEW g, NEW k, NEW s \in Seq(Packets), s # <<>>, NEW sc,
           Tells(st, g, k, s, 0, sc)
    PROVE  Tells(st, g, k, Tail(s), 0, ScoreAfter(Head(s), sc))
<1>1. PICK t \in Seq(Packets) : t = Tail(s)
  BY TailPlaces
<1>2. /\ Len(s) \in Nat \ {0} /\ Len(t) = Len(s) - 1 /\ \A i \in 1..Len(t) : t[i] = s[i + 1]
      /\ Head(s) = s[1]
  BY <1>1, TailPlaces
<1>3. PICK new : new = ScoreAfter(Head(s), sc)
  OBVIOUS
<1>4. ASSUME NEW i \in 1..Len(t)
      PROVE  /\ Scores(t, 0, i) <=> Scores(s, 0, i + 1)
             /\ ShownAt(t, 0, new, i) = ShownAt(s, 0, sc, i + 1)
  BY <1>2 DEF Scores, ShownAt
<1>5. /\ s[1].event = "onGoal" => new = ShownAt(s, 0, sc, 1)
      /\ s[1].event # "onGoal" => new = ShownAt(s, 0, sc, 0)
  BY <1>2, <1>3 DEF ScoreAfter, ShownAt
<1>6. Current(st, g, k, t, 0, new)
  <2> SUFFICES ASSUME st = "playing", NEW i \in 0..Len(t), Scores(t, 0, i), Last(t, i)
               PROVE  ShownAt(t, 0, new, i) = View(g, k)
    BY DEF Current
  <2>1. Last(s, i + 1)
    BY <1>1, TailLast
  <2>2. CASE i # 0
    <3>1. i \in 1..Len(t) /\ i + 1 \in 0..Len(s)
      BY <1>2, <2>2
    <3>2. Scores(s, 0, i + 1)
      BY <1>4, <3>1
    <3> QED BY <1>4, <2>1, <3>1, <3>2 DEF Tells, Current
  <2>3. CASE i = 0
    <3>1. ShownAt(t, 0, new, i) = new
      BY <2>3 DEF ShownAt
    <3>2. Last(s, 1) /\ 1 \in 0..Len(s) /\ 0 \in 0..Len(s)
      BY <1>2, <2>1, <2>3
    <3>3. CASE s[1].event = "onGoal"
      <4>1. Scores(s, 0, 1)
        BY <3>3 DEF Scores
      <4> QED BY <1>5, <3>1, <3>2, <3>3, <4>1 DEF Tells, Current
    <3>4. CASE s[1].event # "onGoal"
      <4>1. Scores(s, 0, 0)
        BY DEF Scores
      <4>2. Last(s, 0)
        BY <3>2, <3>4 DEF Last
      <4> QED BY <1>5, <3>1, <3>2, <3>4, <4>1, <4>2 DEF Tells, Current
    <3> QED BY <3>3, <3>4
  <2> QED BY <2>2, <2>3
<1>7. Verdicts(st, g, k, t, 0, new)
  <2> SUFFICES ASSUME NEW i \in 0+1..Len(t), t[i].event = "onEnd"
               PROVE  /\ st = "completed" /\ (t[i].win <=> g[k] > g[Other(k)])
                      /\ Scores(t, 0, i - 1) /\ ShownAt(t, 0, new, i - 1) = View(g, k)
                      /\ Last(t, i)
    BY Zenon DEF Verdicts
  <2>1. t[i] = s[i + 1] /\ i + 1 \in 0 + 1..Len(s) /\ (i + 1) - 1 = i /\ i \in Nat /\ i \in 1..Len(t)
    BY <1>2
  <2>2. /\ st = "completed" /\ (s[i + 1].win <=> g[k] > g[Other(k)])
        /\ Scores(s, 0, i) /\ ShownAt(s, 0, sc, i) = View(g, k)
        /\ Last(s, i + 1)
    BY <2>1 DEF Tells, Verdicts
  <2>3. Last(t, i)
    BY <1>1, <2>1, <2>2, LastTail
  <2>4. Scores(t, 0, i - 1) /\ ShownAt(t, 0, new, i - 1) = View(g, k)
    <3>1. CASE i = 1
      <4>1. s[1].event = "onGoal"
        BY <2>2, <3>1 DEF Scores
      <4>2. i - 1 = 0
        BY <3>1
      <4>3. Scores(t, 0, 0) /\ ShownAt(t, 0, new, 0) = new
        BY DEF Scores, ShownAt
      <4> QED BY <1>5, <2>2, <3>1, <4>1, <4>2, <4>3
    <3>2. CASE i # 1
      <4>1. i - 1 \in 1..Len(t) /\ (i - 1) + 1 = i
        BY <2>1, <3>2
      <4> QED BY <1>4, <2>2, <4>1
    <3> QED BY <3>1, <3>2
  <2> QED BY <2>1, <2>2, <2>3, <2>4
<1> QED BY <1>1, <1>3, <1>6, <1>7 DEF Tells

\* The verdict is heard.
LEMMA HeardVerdict ==
    ASSUME NEW st, NEW g, NEW k, NEW s \in Seq(Packets), s # <<>>, NEW sc,
           Tells(st, g, k, s, 0, sc), Head(s).event = "onEnd"
    PROVE  /\ st = "completed" /\ sc = View(g, k) /\ (Head(s).win <=> g[k] > g[Other(k)])
           /\ Last(Tail(s), 0)
<1>1. Len(s) \in Nat \ {0} /\ Head(s) = s[1] /\ 1 \in 0 + 1..Len(s) /\ 1 - 1 = 0
  BY TailPlaces
<1>2. /\ st = "completed" /\ (s[1].win <=> g[k] > g[Other(k)])
      /\ ShownAt(s, 0, sc, 0) = View(g, k) /\ Last(s, 1)
  BY <1>1 DEF Tells, Verdicts
<1>3. Last(Tail(s), 0)
  BY <1>2, LastTail
<1> QED BY <1>1, <1>2, <1>3 DEF ShownAt

----------------------------------------------------------------------------
(* What the server sends. *)

\* A packet that is neither a goal nor a verdict.
LEMMA SentOther ==
    ASSUME NEW st, NEW g, NEW k, NEW s \in Seq(Packets), NEW p \in 0..Len(s), NEW sc,
           Tells(st, g, k, s, p, sc),
           NEW q \in Packets, q.event # "onGoal", q.event # "onEnd"
    PROVE  Tells(st, g, k, Append(s, q), p, sc)
<1>1. PICK t : t = Append(s, q)
  OBVIOUS
<1>2. /\ Len(s) \in Nat /\ Len(t) = Len(s) + 1 /\ t[Len(t)] = q
      /\ \A i \in 1..Len(s) : t[i] = s[i]
  BY <1>1
<1>3. \A i \in p..Len(s) : ShownAt(t, p, sc, i) = ShownAt(s, p, sc, i)
                           /\ (Scores(t, p, i) <=> Scores(s, p, i))
  BY <1>2 DEF ShownAt, Scores
<1>4. \A i \in p..Len(s) : Last(t, i) <=> Last(s, i)
  BY <1>2 DEF Last
<1>5. ~Scores(t, p, Len(t))
  BY <1>2 DEF Scores
<1>6. Current(st, g, k, t, p, sc)
  <2> SUFFICES ASSUME st = "playing", NEW i \in p..Len(t), Scores(t, p, i), Last(t, i)
               PROVE  ShownAt(t, p, sc, i) = View(g, k)
    BY DEF Current
  <2>1. i \in p..Len(s)
    BY <1>2, <1>5
  <2> QED BY <1>3, <1>4, <2>1 DEF Tells, Current
<1>7. Verdicts(st, g, k, t, p, sc)
  <2> SUFFICES ASSUME NEW i \in p+1..Len(t), t[i].event = "onEnd"
               PROVE  /\ st = "completed" /\ (t[i].win <=> g[k] > g[Other(k)])
                      /\ Scores(t, p, i - 1) /\ ShownAt(t, p, sc, i - 1) = View(g, k)
                      /\ Last(t, i)
    BY Zenon DEF Verdicts
  <2>1. i \in p+1..Len(s) /\ i - 1 \in p..Len(s) /\ i \in p..Len(s) /\ t[i] = s[i]
    BY <1>2
  <2> QED BY <1>3, <1>4, <2>1 DEF Tells, Verdicts
<1> QED BY <1>1, <1>6, <1>7 DEF Tells

\* The match is over for who leaves it: no verdict is under way.
LEMMA SentNothing ==
    ASSUME NEW st, NEW st2, NEW g, NEW g2, NEW k, NEW s, NEW p, NEW sc,
           Tells(st, g, k, s, p, sc), st = "playing", st2 # "playing"
    PROVE  Tells(st2, g2, k, s, p, sc)
<1>1. \A i \in p+1..Len(s) : s[i].event # "onEnd"
  BY DEF Tells, Verdicts
<1> QED BY <1>1 DEF Tells, Current, Verdicts

\* A goal, and the verdict when it was the last.
LEMMA SentGoal ==
    ASSUME NEW st, NEW g, NEW g2, NEW k, NEW s \in Seq(Packets), NEW p \in 0..Len(s), NEW sc,
           Tells("playing", g, k, s, p, sc),
           NEW q \in Packets, q.event = "onGoal", Told(q) = View(g2, k)
    PROVE  Tells("playing", g2, k, Append(s, q), p, sc)
<1>1. PICK t : t = Append(s, q)
  OBVIOUS
<1>2. /\ Len(s) \in Nat /\ Len(t) = Len(s) + 1 /\ t[Len(t)] = q
      /\ \A i \in 1..Len(s) : t[i] = s[i]
  BY <1>1
<1>3. \A i \in p+1..Len(t) : t[i].event # "onEnd"
  <2>1. \A i \in p+1..Len(s) : s[i].event # "onEnd"
    BY DEF Tells, Verdicts
  <2> QED BY <1>2, <2>1
<1>4. Current("playing", g2, k, t, p, sc)
  <2> SUFFICES ASSUME NEW i \in p..Len(t), Last(t, i)
               PROVE  ShownAt(t, p, sc, i) = View(g2, k)
    BY DEF Current
  <2>1. i = Len(t)
    <3>1. Len(t) \in i+1..Len(t) => t[Len(t)].event # "onGoal"
      BY DEF Last
    <3> QED BY <1>2, <3>1
  <2>2. i # p /\ t[i] = q
    BY <1>2, <2>1
  <2> QED BY <2>2 DEF ShownAt
<1> QED BY <1>1, <1>3, <1>4 DEF Tells, Verdicts

LEMMA SentVerdict ==
    ASSUME NEW g, NEW k, NEW s \in Seq(Packets), NEW p \in Nat, p < Len(s), NEW sc,
           \A i \in p+1..Len(s) : s[i].event # "onEnd",
           s[Len(s)].event = "onGoal", Told(s[Len(s)]) = View(g, k),
           NEW q \in Packets, q.event = "onEnd", q.win <=> g[k] > g[Other(k)]
    PROVE  Tells("completed", g, k, Append(s, q), p, sc)
<1>1. PICK t : t = Append(s, q)
  OBVIOUS
<1>2. /\ Len(s) \in Nat /\ Len(t) = Len(s) + 1 /\ t[Len(t)] = q
      /\ \A i \in 1..Len(s) : t[i] = s[i]
  BY <1>1
<1>3. Verdicts("completed", g, k, t, p, sc)
  <2> SUFFICES ASSUME NEW i \in p+1..Len(t), t[i].event = "onEnd"
               PROVE  /\ "completed" = "completed" /\ (t[i].win <=> g[k] > g[Other(k)])
                      /\ Scores(t, p, i - 1) /\ ShownAt(t, p, sc, i - 1) = View(g, k)
                      /\ Last(t, i)
    BY Zenon DEF Verdicts
  <2>0. \A j \in p+1..Len(s) : t[j].event # "onEnd"
    BY <1>2
  <2>1. i = Len(t) /\ i - 1 = Len(s) /\ i - 1 # p /\ i - 1 \in 1..Len(s)
    BY <1>2, <2>0
  <2>2. Last(t, i)
    <3>1. PICK n \in Nat : n = Len(t)
      BY <1>2
    <3>2. \A j \in n+1..n : FALSE
      OBVIOUS
    <3> QED BY <2>1, <3>1, <3>2, Zenon DEF Last
  <2>3. t[i] = q /\ t[i - 1] = s[Len(s)]
    BY <1>2, <2>1
  <2>4. Scores(t, p, i - 1) /\ ShownAt(t, p, sc, i - 1) = View(g, k)
    BY <2>1, <2>3 DEF Scores, ShownAt
  <2> QED BY <2>2, <2>3, <2>4
<1> QED BY <1>1, <1>3 DEF Tells, Current

LEMMA SentNews ==
    ASSUME NEW g, NEW g2 \in [Sides -> Goals], NEW k \in Sides, NEW by \in Sides,
           NEW s \in Seq(Packets), NEW p \in 0..Len(s), NEW sc,
           Tells("playing", g, k, s, p, sc), g2[Other(by)] < WinGoals
    PROVE  Tells(IF g2[by] >= WinGoals THEN "completed" ELSE "playing", g2, k,
                 s \o News(k, by, g2), p, sc)
<1>1. PICK q \in Packets : q = OnGoal(k, g2) /\ q.event = "onGoal" /\ Told(q) = View(g2, k)
  <2> DEFINE q == OnGoal(k, g2)
  <2>1. q \in Packets
    BY GoalPacket DEF Packets
  <2>2. q.goals = g2[k] /\ q.opponent_goals = g2[Other(k)] /\ q.event = "onGoal"
    BY DEF OnGoal
  <2> QED BY <2>1, <2>2 DEF Told, View
<1>2. PICK e \in Packets : e = OnEnd(k = by) /\ e.event = "onEnd" /\ (e.win <=> k = by)
  <2>1. PICK won \in BOOLEAN : won = (k = by)
    OBVIOUS
  <2>2. OnEnd(won) \in Packets /\ OnEnd(won).event = "onEnd" /\ OnEnd(won).win = won
    BY <2>1, EndPacket DEF Packets, OnEnd
  <2> QED BY <2>1, <2>2
<1>3. News(k, by, g2) = <<q>> \o (IF g2[by] >= WinGoals THEN <<e>> ELSE <<>>)
  BY <1>1, <1>2 DEF News
<1>0. PICK t \in Seq(Packets) : t = Append(s, q)
  BY AppendProperties
<1>4. Tells("playing", g2, k, Append(s, q), p, sc)
  BY <1>1, SentGoal, Zenon
<1>5. CASE ~(g2[by] >= WinGoals)
  <2>1. s \o News(k, by, g2) = Append(s, q)
    BY <1>1, <1>3, <1>5
  <2> QED BY <1>4, <1>5, <2>1
<1>6. CASE g2[by] >= WinGoals
  <2>1. t = Append(s, q)
    BY <1>0
  <2>2. s \o News(k, by, g2) = Append(t, e)
    BY <1>1, <1>2, <1>3, <1>6, <2>1
  <2>3. Len(t) = Len(s) + 1 /\ Len(s) \in Nat /\ t[Len(t)] = q
    BY <2>1
  <2>4. e.win <=> g2[k] > g2[Other(k)]
    <3>1. g2[1] \in Int /\ g2[2] \in Int /\ g2[by] > g2[Other(by)]
      BY <1>6, OtherSide, BoardAssumption DEF Goals, Sides
    <3> QED BY <1>2, <3>1 DEF Sides, Other
  <2>5. \A i \in p+1..Len(t) : t[i].event # "onEnd"
    BY <1>4, <2>1 DEF Tells, Verdicts
  <2>6. Tells("completed", g2, k, Append(t, e), p, sc)
    BY <1>1, <1>2, <2>3, <2>4, <2>5, SentVerdict
  <2> QED BY <1>6, <2>2, <2>6
<1> QED BY <1>5, <1>6

----------------------------------------------------------------------------
(* The pages and their packets. *)

Begun == status \in {"playing", "completed"}
Following(d) == follows[d] # 0 /\ follows[d] = made
Leads(d) == goals[SideOf(d)] > goals[Other(SideOf(d))]

\* What is true of a tab that follows the match and was told sc last.
InTouchAt(d, sc) ==
    /\ Begun
    /\ Tells(status, goals, SideOf(d), inbox[d], 0, sc)
    /\ missed[d] \/ score[d] = sc
    /\ winner[d] # "none" =>
          /\ status = "completed" /\ sc = View(goals, SideOf(d))
          /\ winner[d] = "me" <=> Leads(d)
          /\ Last(inbox[d], 0)

InTouch(d) == \E sc \in [Sides -> Goals] : InTouchAt(d, sc)

PageOK(d) ==
    /\ follows[d] \in 0..made
    /\ page[d] # "online" => score[d] = Zero /\ winner[d] = "none"
    /\ page[d] = "online" => follows[d] # 0
    /\ Following(d) => InTouch(d)

\* What is true of the packets after the start of the match.
StartOK(d, p) ==
    /\ inbox[d][p].match \in 1..made
    /\ inbox[d][p].match = made =>
          Begun /\ Tells(status, goals, SideOf(d), inbox[d], p, Zero)

InboxOK(d) ==
    \A p \in DOMAIN inbox[d] : inbox[d][p].event = "start" => StartOK(d, p)

TabOK(d) == PageOK(d) /\ InboxOK(d)

OnlineInv == ShapeOK /\ \A d \in Tabs : TabOK(d)

MatchVars == <<made, status, goals, seat>>
TabVars(d) == <<page[d], follows[d], score[d], winner[d], missed[d]>>

\* Nothing happens to a tab and its match.
LEMMA TabKept ==
    ASSUME NEW d \in Tabs, TabOK(d), UNCHANGED MatchVars, UNCHANGED TabVars(d),
           inbox'[d] = inbox[d]
    PROVE  TabOK(d)'
<1>1. SideOf(d)' = SideOf(d) /\ Leads(d)' = Leads(d) /\ Begun' = Begun /\ Following(d)' = Following(d)
  BY DEF SideOf, Leads, MatchVars, TabVars, Begun, Following
<1>2. ASSUME NEW sc, InTouchAt(d, sc) PROVE InTouchAt(d, sc)'
  BY <1>1, <1>2 DEF InTouchAt, MatchVars, TabVars
<1>3. PageOK(d)'
  BY <1>1, <1>2 DEF TabOK, PageOK, InTouch, MatchVars, TabVars
<1>4. InboxOK(d)'
  BY <1>1 DEF TabOK, InboxOK, StartOK, MatchVars
<1> QED BY <1>3, <1>4 DEF TabOK

\* The tab shows another page, perhaps that of the match.
LEMMA PageTurned ==
    ASSUME NEW d \in Tabs, TabOK(d), UNCHANGED MatchVars, inbox'[d] = inbox[d],
           UNCHANGED <<follows[d], score[d], winner[d], missed[d]>>,
           page[d] # "online", page'[d] = "online" => follows[d] # 0
    PROVE  TabOK(d)'
<1>1. SideOf(d)' = SideOf(d) /\ Leads(d)' = Leads(d) /\ Begun' = Begun /\ Following(d)' = Following(d)
  BY DEF SideOf, Leads, MatchVars, Begun, Following
<1>2. ASSUME NEW sc, InTouchAt(d, sc) PROVE InTouchAt(d, sc)'
  BY <1>1, <1>2 DEF InTouchAt, MatchVars
<1>3. PageOK(d)'
  BY <1>1, <1>2 DEF TabOK, PageOK, InTouch, MatchVars
<1>4. InboxOK(d)'
  BY <1>1 DEF TabOK, InboxOK, StartOK, MatchVars
<1> QED BY <1>3, <1>4 DEF TabOK

\* The match is another one, or not begun yet; no packet is about its score.
LEMMA NotBegun ==
    ASSUME ShapeOK, NEW d \in Tabs, TabOK(d), UNCHANGED TabVars(d),
           made' \in Nat, made < made' \/ (made' = made /\ ~Begun),
           \/ inbox'[d] = inbox[d]
           \/ \E q \in Packets : q.event # "start" /\ inbox'[d] = Append(inbox[d], q)
    PROVE  TabOK(d)'
<1>1. made \in Nat /\ inbox[d] \in Seq(Packets) /\ made <= made'
  BY BoardAssumption DEF ShapeOK, ServerOK, BoxesOK
<1>2. follows[d] \in 0..made /\ (follows[d] # 0 => follows[d] # made')
  BY <1>1 DEF TabOK, PageOK, Following, InTouch, InTouchAt
<1>3. PageOK(d)'
  BY <1>1, <1>2 DEF TabOK, PageOK, Following, TabVars
<1>4. \A p \in DOMAIN inbox[d] : inbox[d][p].event = "start" =>
         inbox[d][p].match \in 1..made /\ inbox[d][p].match # made'
  BY <1>1 DEF TabOK, InboxOK, StartOK
<1>5. \A p \in DOMAIN inbox'[d] : inbox'[d][p].event = "start" =>
         p \in DOMAIN inbox[d] /\ inbox'[d][p] = inbox[d][p]
  BY <1>1
<1>6. InboxOK(d)'
  BY <1>1, <1>4, <1>5 DEF InboxOK, StartOK
<1> QED BY <1>3, <1>6 DEF TabOK

\* A packet that is not about the match.
LEMMA OtherPacket ==
    ASSUME ShapeOK, NEW d \in Tabs, TabOK(d), UNCHANGED MatchVars, UNCHANGED TabVars(d),
           NEW q \in Packets, q.event \notin {"onGoal", "onEnd", "start"},
           inbox'[d] = Append(inbox[d], q)
    PROVE  TabOK(d)'
<1>1. PICK s \in Seq(Packets) : s = inbox[d]
  BY DEF ShapeOK, BoxesOK
<1>2. /\ inbox'[d] = Append(s, q) /\ Len(s) \in Nat /\ Len(Append(s, q)) = Len(s) + 1
      /\ Append(s, q)[Len(s) + 1] = q /\ \A i \in 1..Len(s) : Append(s, q)[i] = s[i]
  BY <1>1
<1>3. ASSUME NEW p \in 0..Len(s), NEW sc, Tells(status, goals, SideOf(d), s, p, sc)
      PROVE  Tells(status, goals, SideOf(d), Append(s, q), p, sc)
  BY <1>3, SentOther
<1>4. Last(s, 0) => Last(Append(s, q), 0)
  BY <1>2 DEF Last
<1>5. SideOf(d)' = SideOf(d) /\ Leads(d)' = Leads(d) /\ Begun' = Begun /\ Following(d)' = Following(d)
  BY DEF SideOf, Leads, MatchVars, TabVars, Begun, Following
<1>6. PageOK(d)'
  <2>1. ASSUME NEW sc, InTouchAt(d, sc) PROVE InTouchAt(d, sc)'
    <3>1. Tells(status, goals, SideOf(d), Append(s, q), 0, sc)
      BY <1>1, <1>2, <1>3, <2>1 DEF InTouchAt
    <3> QED BY <1>1, <1>2, <1>4, <1>5, <2>1, <3>1 DEF InTouchAt, MatchVars, TabVars
  <2> QED BY <1>5, <2>1 DEF TabOK, PageOK, InTouch, MatchVars, TabVars
<1>7. InboxOK(d)'
  <2> SUFFICES ASSUME NEW p \in 1..Len(s)+1, Append(s, q)[p].event = "start"
               PROVE  StartOK(d, p)'
    BY <1>2 DEF InboxOK
  <2>1. p \in 1..Len(s) /\ Append(s, q)[p] = s[p] /\ p \in 0..Len(s)
    BY <1>2
  <2>2. StartOK(d, p)
    BY <1>1, <2>1 DEF TabOK, InboxOK
  <2> QED BY <1>1, <1>2, <1>3, <1>5, <2>1, <2>2 DEF StartOK, MatchVars
<1> QED BY <1>6, <1>7 DEF TabOK

\* The match that is played goes on, or ends, and the tab is told.
LEMMA ScoreSent ==
    ASSUME ShapeOK, NEW d \in Tabs, TabOK(d), UNCHANGED <<made, seat>>, UNCHANGED TabVars(d),
           status = "playing", status' \in {"playing", "completed"},
           NEW t \in Seq(Packets), inbox'[d] = t, Len(inbox[d]) <= Len(t),
           \A i \in 1..Len(t) :
              IF i <= Len(inbox[d]) THEN t[i] = inbox[d][i] ELSE t[i].event # "start",
           \A p \in 0..Len(inbox[d]), sc \in [Sides -> Goals] :
              Tells(status, goals, SideOf(d), inbox[d], p, sc)
              => Tells(status', goals', SideOf(d), t, p, sc)
    PROVE  TabOK(d)'
<1>1. PICK s \in Seq(Packets) : s = inbox[d]
  BY DEF ShapeOK, BoxesOK
<1>2. Len(s) \in Nat /\ Len(t) \in Nat /\ DOMAIN s = 1..Len(s) /\ DOMAIN t = 1..Len(t)
  BY <1>1
<1>3. SideOf(d)' = SideOf(d) /\ Following(d)' = Following(d) /\ Begun'
  BY DEF SideOf, TabVars, Following, Begun
<1>4. Zero \in [Sides -> Goals]
  BY StartOfMatch
<1>5. PageOK(d)'
  <2>1. Following(d) => InTouch(d)'
    <3> SUFFICES ASSUME Following(d) PROVE InTouch(d)'
      OBVIOUS
    <3>1. PICK sc \in [Sides -> Goals] : InTouchAt(d, sc)
      BY DEF TabOK, PageOK, InTouch
    <3>2. winner'[d] = "none" /\ score'[d] = score[d] /\ missed'[d] = missed[d]
      BY <3>1 DEF InTouchAt, TabVars
    <3>3. Tells(status', goals', SideOf(d), t, 0, sc)
      BY <1>1, <1>2, <3>1 DEF InTouchAt
    <3>4. InTouchAt(d, sc)'
      BY <1>3, <3>1, <3>2, <3>3 DEF InTouchAt
    <3> QED BY <3>1, <3>4 DEF InTouch
  <2> QED BY <1>3, <2>1 DEF TabOK, PageOK, TabVars
<1>6. InboxOK(d)'
  <2> SUFFICES ASSUME NEW p \in 1..Len(t), t[p].event = "start" PROVE StartOK(d, p)'
    BY <1>2 DEF InboxOK
  <2>1. p \in 1..Len(s) /\ t[p] = s[p] /\ p \in 0..Len(s)
    BY <1>1, <1>2
  <2>2. StartOK(d, p)
    BY <1>1, <1>2, <2>1 DEF TabOK, InboxOK
  <2>3. s[p].match \in 1..made /\
        (s[p].match = made => Tells(status', goals', SideOf(d), t, p, Zero))
    BY <1>1, <1>4, <2>1, <2>2 DEF StartOK
  <2> QED BY <1>3, <2>1, <2>3 DEF StartOK
<1> QED BY <1>5, <1>6 DEF TabOK

\* A page that is told of a goal.
LEMMA NewsSent ==
    ASSUME ShapeOK, NEW d \in Tabs, TabOK(d), UNCHANGED <<made, seat>>, UNCHANGED TabVars(d),
           status = "playing", NEW by \in Sides, goals' \in [Sides -> Goals],
           goals'[Other(by)] < WinGoals,
           status' = IF goals'[by] >= WinGoals THEN "completed" ELSE "playing",
           inbox'[d] = inbox[d] \o News(SideOf(d), by, goals')
    PROVE  TabOK(d)'
<1> DEFINE k == SideOf(d)
<1>0. k \in Sides
  BY SideType
<1>1. PICK s \in Seq(Packets) : s = inbox[d]
  BY DEF ShapeOK, BoxesOK
<1>2. PICK g2 \in [Sides -> Goals] : g2 = goals'
  OBVIOUS
<1>3. PICK news \in Seq(Packets) :
         news = News(k, by, g2) /\ \A i \in 1..Len(news) : news[i].event # "start"
  <2> DEFINE a == OnGoal(k, g2)
             b == OnEnd(k = by)
  <2>1. a.event # "start" /\ b.event # "start"
    BY DEF OnGoal, OnEnd
  <2>2. News(k, by, g2) = <<a>> \o (IF g2[by] >= WinGoals THEN <<b>> ELSE <<>>)
    BY DEF News
  <2>3. News(k, by, g2) \in Seq(Packets)
    BY <1>0, NewsType
  <2> HIDE DEF a, b, k
  <2>4. \A i \in 1..Len(News(k, by, g2)) : News(k, by, g2)[i].event # "start"
    BY <2>1, <2>2
  <2> QED BY <2>3, <2>4
<1>4. PICK t \in Seq(Packets) : t = s \o news
  BY ConcatProperties
<1>5. /\ Len(s) \in Nat /\ Len(news) \in Nat /\ Len(t) = Len(s) + Len(news)
      /\ \A i \in 1..Len(s) + Len(news) : t[i] = IF i <= Len(s) THEN s[i] ELSE news[i - Len(s)]
  BY <1>4, ConcatProperties, LenProperties
<1>6. \A i \in 1..Len(t) : IF i <= Len(s) THEN t[i] = s[i] ELSE t[i].event # "start"
  <2> SUFFICES ASSUME NEW i \in 1..Len(t) PROVE IF i <= Len(s) THEN t[i] = s[i] ELSE t[i].event # "start"
    OBVIOUS
  <2>1. CASE i <= Len(s)
    BY <1>5, <2>1
  <2>2. CASE ~(i <= Len(s))
    <3>1. i - Len(s) \in 1..Len(news) /\ t[i] = news[i - Len(s)]
      BY <1>5, <2>2
    <3> QED BY <1>3, <2>2, <3>1
  <2> QED BY <2>1, <2>2
<1> HIDE DEF k
<1>7. ASSUME NEW p \in 0..Len(s), NEW sc, Tells("playing", goals, k, s, p, sc)
      PROVE  Tells(status', g2, k, t, p, sc)
  <2>1. Tells(IF g2[by] >= WinGoals THEN "completed" ELSE "playing", g2, k, s \o News(k, by, g2), p, sc)
    BY <1>0, <1>2, <1>7, SentNews
  <2> QED BY <1>2, <1>3, <1>4, <2>1
<1>8. status' \in {"playing", "completed"} /\ inbox'[d] = t /\ Len(s) <= Len(t)
  BY <1>1, <1>2, <1>3, <1>4, <1>5 DEF k
<1> QED BY <1>1, <1>2, <1>6, <1>7, <1>8, ScoreSent DEF k

LEMMA FrameTells ==
    ASSUME OnlineInv, Frame PROVE \A d \in Tabs : TabOK(d)'
<1> SUFFICES ASSUME NEW d \in Tabs PROVE TabOK(d)'
  OBVIOUS
<1> DEFINE by == Scorer(Flown)
           after == IF by = 0 THEN goals ELSE [goals EXCEPT ![by] = @ + 1]
<1>1. /\ goals' = after /\ status = "playing"
      /\ status' = IF by # 0 /\ after[by] >= WinGoals THEN "completed" ELSE status
      /\ inbox' = IF by = 0 THEN inbox
                  ELSE [e \in Tabs |-> inbox[e] \o News(SideOf(e), by, after)]
      /\ UNCHANGED <<made, seat, screen>>
  BY DEF Frame, Ahead, Flown
<1>2. ShapeOK /\ TabOK(d) /\ ShapeOK' /\ MatchOK /\ MatchOK'
  BY FrameShape DEF OnlineInv, ShapeOK, ServerOK
<1>3. by \in 0..2
  BY <1>2, FlownIsNear
<1> HIDE DEF by
<1>4. UNCHANGED TabVars(d)
  BY <1>1 DEF TabVars, screen, trip, rival, result, hands
<1>5. CASE by = 0
  BY <1>1, <1>2, <1>4, <1>5, TabKept DEF MatchVars
<1>6. CASE by # 0
  <2>1. by \in Sides
    BY <1>3, <1>6 DEF Sides
  <2>2. goals' \in [Sides -> Goals] /\ goals'[Other(by)] = goals[Other(by)]
    BY <1>1, <1>2, <1>6, <2>1, OtherSide DEF MatchOK
  <2>3. goals'[Other(by)] < WinGoals
    BY <1>1, <1>2, <2>1, <2>2, OtherSide DEF MatchOK
  <2>4. /\ status' = IF goals'[by] >= WinGoals THEN "completed" ELSE "playing"
        /\ inbox'[d] = inbox[d] \o News(SideOf(d), by, goals')
    BY <1>1, <1>6
  <2> QED BY <1>1, <1>2, <1>4, <2>1, <2>2, <2>3, <2>4, NewsSent
<1> QED BY <1>5, <1>6

LEMMA BeginTells ==
    ASSUME OnlineInv, Begin PROVE \A d \in Tabs : TabOK(d)'
<1> SUFFICES ASSUME NEW d \in Tabs PROVE TabOK(d)'
  OBVIOUS
<1> DEFINE q == [event |-> "start", match |-> made]
<1>1. /\ status = "pending" /\ status' = "playing" /\ UNCHANGED <<made, seat, goals, screen>>
      /\ inbox'[d] = Append(inbox[d], q)
  BY DEF Begin
<1>2. ShapeOK /\ TabOK(d) /\ goals = Zero /\ made \in Nat /\ made > 0 /\ ~Begun
  BY <1>1, BoardAssumption DEF OnlineInv, ShapeOK, ServerOK, MatchOK, Begun
<1>3. PICK s \in Seq(Packets) : s = inbox[d]
  BY <1>2 DEF ShapeOK, BoxesOK
<1>4. PICK t : t = Append(s, q)
  OBVIOUS
<1>5. /\ Len(s) \in Nat /\ Len(t) = Len(s) + 1 /\ t[Len(t)] = q /\ DOMAIN t = 1..Len(t)
      /\ \A i \in 1..Len(s) : t[i] = s[i]
  BY <1>4
<1>6. PageOK(d)'
  <2>1. ~Following(d)
    BY <1>2 DEF TabOK, PageOK, InTouch, InTouchAt
  <2> QED BY <1>1, <1>2, <2>1 DEF TabOK, PageOK, Following, screen, trip, rival, result, hands
<1>7. View(goals, SideOf(d)) = Zero
  BY <1>2, SideType, OtherSide DEF View, Zero
<1>8. Tells("playing", goals, SideOf(d), t, Len(t), Zero)
  <2>1. \A i \in Len(t)..Len(t) : ShownAt(t, Len(t), Zero, i) = Zero
    BY <1>5 DEF ShownAt
  <2>2. Verdicts("playing", goals, SideOf(d), t, Len(t), Zero)
    <3>1. PICK n \in Nat : n = Len(t)
      BY <1>5
    <3>2. \A i \in n+1..n : FALSE
      OBVIOUS
    <3> QED BY <3>1, <3>2, Zenon DEF Verdicts
  <2> QED BY <1>7, <2>1, <2>2 DEF Tells, Current
<1>9. ASSUME NEW p \in 1..Len(t), t[p].event = "start"
      PROVE  /\ t[p].match \in 1..made
             /\ t[p].match = made => Tells("playing", goals, SideOf(d), t, p, Zero)
  <2>1. CASE p = Len(t)
    BY <1>2, <1>5, <1>8, <2>1
  <2>2. CASE p # Len(t)
    <3>1. p \in 1..Len(s) /\ t[p] = s[p] /\ p \in DOMAIN inbox[d]
      BY <1>3, <1>5, <2>2
    <3>2. StartOK(d, p)
      BY <1>2, <1>3, <1>9, <3>1 DEF TabOK, InboxOK
    <3> QED BY <1>2, <1>3, <3>1, <3>2 DEF StartOK
  <2> QED BY <2>1, <2>2
<1>10. /\ inbox'[d] = t /\ made' = made /\ goals' = goals /\ status' = "playing"
       /\ SideOf(d)' = SideOf(d)
  BY <1>1, <1>3, <1>4 DEF SideOf
<1>11. InboxOK(d)'
  BY <1>5, <1>9, <1>10 DEF InboxOK, StartOK, Begun
<1> QED BY <1>6, <1>11 DEF TabOK

(* Appending to a sequence of one packet, element by element. *)
LEMMA AppendToOne ==
    ASSUME NEW S, NEW x \in S, NEW y \in S
    PROVE  Append(<<x>>, y) = <<x, y>>
<1>0. <<x>> \in Seq(S) /\ <<x, y>> \in Seq(S)
  OBVIOUS
<1>1. Append(<<x>>, y) \in Seq(S)
  BY <1>0, AppendProperties
<1>2. Len(Append(<<x>>, y)) = 2 /\ Append(<<x>>, y)[1] = x /\ Append(<<x>>, y)[2] = y
  <2>1. PICK s \in Seq(S) : s = <<x>>
    BY <1>0
  <2>2. Len(s) = 1 /\ s[1] = x
    BY <2>1
  <2>3. Len(Append(s, y)) = 2 /\ Append(s, y)[1] = x /\ Append(s, y)[2] = y
    <3>1. Len(Append(s, y)) = Len(s) + 1
      BY AppendProperties
    <3>2. \A j \in 1..Len(s) : Append(s, y)[j] = s[j]
      BY AppendProperties
    <3>3. Append(s, y)[Len(s) + 1] = y
      BY AppendProperties
    <3>4. 1 \in 1..Len(s) /\ Len(s) + 1 = 2
      BY <2>2
    <3> QED BY <2>2, <3>1, <3>2, <3>3, <3>4
  <2> QED BY <2>1, <2>3
<1>3. Len(<<x, y>>) = 2 /\ <<x, y>>[1] = x /\ <<x, y>>[2] = y
  OBVIOUS
<1> QED
  <2>1. PICK s \in Seq(S) : s = Append(<<x>>, y)
    BY <1>1
  <2>2. PICK t \in Seq(S) : t = <<x, y>>
    BY <1>0
  <2>3. \A i \in 1..Len(s) : s[i] = t[i]
    BY <1>2, <1>3, <2>1, <2>2
  <2>4. s = t
    BY <1>2, <1>3, <2>1, <2>2, <2>3, SeqEqual
  <2> QED BY <2>1, <2>2, <2>4

LEMMA LastNews ==
    ASSUME NEW k, NEW g, g[k] = WinGoals
    PROVE  News(k, k, g) = <<OnGoal(k, g), OnEnd(TRUE)>>
<1>1. PICK a : a = OnGoal(k, g)
  OBVIOUS
<1>2. PICK b : b = OnEnd(TRUE)
  OBVIOUS
<1>3. OnEnd(k = k) = b
  BY <1>2 DEF OnEnd
<1>4. News(k, k, g) = <<a>> \o <<b>>
  <2>1. g[k] >= WinGoals
    BY BoardAssumption
  <2> QED BY <1>1, <1>3, <2>1, Zenon DEF News
<1>5. <<a>> \o <<b>> = <<a, b>>
  <2>1. <<a>> \in Seq({a, b}) /\ a \in {a, b} /\ b \in {a, b}
    OBVIOUS
  <2>2. <<a>> \o <<b>> = Append(<<a>>, b)
    BY <2>1, AppendIsConcat
  <2>3. Append(<<a>>, b) = <<a, b>>
    BY <2>1, AppendToOne
  <2> QED BY <2>2, <2>3
<1> QED BY <1>1, <1>2, <1>4, <1>5, Zenon

LEMMA WalkoverTells ==
    ASSUME OnlineInv, NEW d \in Tabs, Walkover(d), status = "playing",
           UNCHANGED <<made, seat, screen>>
    PROVE  \A e \in Tabs : TabOK(e)'
<1> SUFFICES ASSUME NEW e \in Tabs PROVE TabOK(e)'
  OBVIOUS
<1> DEFINE stay == Other(SideOf(d))
<1>1. /\ status' = "completed"
      /\ goals' = [k \in Sides |-> IF k = stay THEN WinGoals ELSE 0]
      /\ inbox' = Send(seat[stay], <<OnGoal(stay, goals'), OnEnd(TRUE)>>)
  BY DEF Walkover
<1>2. ShapeOK /\ TabOK(e) /\ MatchOK /\ BoxesOK /\ UNCHANGED TabVars(e)
  BY DEF OnlineInv, ShapeOK, ServerOK, TabVars, screen, trip, rival, result, hands
<1>3. stay \in Sides /\ Other(stay) \in Sides /\ Other(stay) # stay
  BY SideType, OtherSide
<1> HIDE DEF stay
<1>4. /\ goals' \in [Sides -> Goals] /\ goals'[stay] = WinGoals /\ goals'[Other(stay)] = 0
  BY <1>1, <1>3, BoardAssumption DEF Goals
<1>5. CASE e = seat[stay]
  <2>1. SideOf(e) = stay
    BY <1>2, <1>3, <1>5 DEF SideOf, MatchOK, Sides
  <2>2. News(stay, stay, goals') = <<OnGoal(stay, goals'), OnEnd(TRUE)>>
    BY <1>4, LastNews
  <2>3. inbox'[e] = inbox[e] \o News(SideOf(e), stay, goals')
    BY <1>1, <1>2, <1>5, <2>1, <2>2 DEF Send, BoxesOK
  <2>4. goals'[Other(stay)] < WinGoals /\ status' = IF goals'[stay] >= WinGoals THEN "completed" ELSE "playing"
    BY <1>1, <1>4, BoardAssumption
  <2> QED BY <1>2, <1>3, <1>4, <2>3, <2>4, NewsSent
<1>6. CASE e # seat[stay]
  <2>1. inbox'[e] = inbox[e]
    BY <1>1, <1>2, <1>6 DEF Send, BoxesOK
  <2>2. inbox[e] \in Seq(Packets) /\ Len(inbox[e]) \in Nat
    BY <1>2 DEF BoxesOK
  <2>3. \A p \in 0..Len(inbox[e]), sc \in [Sides -> Goals] :
           Tells(status, goals, SideOf(e), inbox[e], p, sc)
           => Tells(status', goals', SideOf(e), inbox[e], p, sc)
    BY <1>1, SentNothing
  <2>4. status' \in {"playing", "completed"} /\ UNCHANGED <<made, seat>>
    BY <1>1
  <2>5. PICK t \in Seq(Packets) : t = inbox[e]
    BY <2>2
  <2>6. \A i \in 1..Len(t) : IF i <= Len(inbox[e]) THEN t[i] = inbox[e][i] ELSE t[i].event # "start"
    BY <2>2, <2>5
  <2>7. Len(inbox[e]) <= Len(t) /\ inbox'[e] = t
    BY <2>1, <2>2, <2>5
  <2>8. \A p \in 0..Len(inbox[e]), sc \in [Sides -> Goals] :
           Tells(status, goals, SideOf(e), inbox[e], p, sc)
           => Tells(status', goals', SideOf(e), t, p, sc)
    BY <2>3, <2>5
  <2> QED BY <1>2, <2>4, <2>6, <2>7, <2>8, ScoreSent
<1> QED BY <1>5, <1>6

LEMMA ImLeftTells ==
    ASSUME OnlineInv, NEW d \in Tabs, OnImLeft(d) PROVE \A e \in Tabs : TabOK(e)'
<1> SUFFICES ASSUME NEW e \in Tabs PROVE TabOK(e)'
  OBVIOUS
<1>1. ShapeOK /\ TabOK(e) /\ MatchOK /\ BoxesOK
  BY DEF OnlineInv, ShapeOK, ServerOK
<1>2. UNCHANGED <<made, seat, screen>> /\ UNCHANGED TabVars(e)
  BY DEF OnImLeft, Request, TabVars, screen, trip, rival, result, hands
<1>3. CASE UNCHANGED <<status, goals, inbox>>
  BY <1>1, <1>2, <1>3, TabKept DEF MatchVars
<1>4. CASE d \notin inMatch
  BY <1>3, <1>4 DEF OnImLeft
<1>5. CASE d \in inMatch /\ status = "playing"
  <2>1. UNCHANGED <<status, goals, inbox>> \/ Walkover(d)
    BY <1>5 DEF OnImLeft
  <2> QED BY <1>2, <1>3, <1>5, <2>1, WalkoverTells
<1>6. CASE d \in inMatch /\ status # "playing"
  <2>1. /\ status' = "completed" /\ goals' = goals
        /\ inbox' = Send(seat[1], <<Plain("opponent_left")>>)
    BY <1>6, Zenon DEF OnImLeft
  <2>2. PICK q \in Packets : q = Plain("opponent_left") /\ q.event = "opponent_left"
    <3>1. Plain("opponent_left") \in Packets /\ Plain("opponent_left").event = "opponent_left"
      BY DEF Plain, Packets
    <3> QED BY <3>1
  <2>3. inbox'[e] = inbox[e] \/ inbox'[e] = Append(inbox[e], q)
    <3>1. PICK s \in Seq(Packets) : s = inbox[e]
      BY <1>1 DEF BoxesOK
    <3>2. s \o <<q>> = Append(s, q)
      BY AppendIsConcat
    <3>3. inbox'[e] = s \/ inbox'[e] = s \o <<q>>
      BY <1>1, <2>1, <2>2, <3>1 DEF Send, BoxesOK
    <3> QED BY <3>1, <3>2, <3>3
  <2>4. CASE status = "completed"
    BY <1>1, <1>2, <2>1, <2>2, <2>3, <2>4, TabKept, OtherPacket DEF MatchVars
  <2>5. CASE status # "completed"
    <3>1. ~Begun /\ made' = made /\ made' \in Nat
      BY <1>1, <1>2, <1>6, <2>5, BoardAssumption DEF Begun, ShapeOK, ServerOK
    <3> QED BY <1>1, <1>2, <2>2, <2>3, <3>1, NotBegun
  <2> QED BY <2>4, <2>5
<1> QED BY <1>4, <1>5, <1>6

LEMMA MatchmakeTells ==
    ASSUME OnlineInv, NEW d \in Tabs, OnMatchmake(d) PROVE \A e \in Tabs : TabOK(e)'
<1> SUFFICES ASSUME NEW e \in Tabs PROVE TabOK(e)'
  OBVIOUS
<1>1. ShapeOK /\ TabOK(e) /\ UNCHANGED TabVars(e)
  BY DEF OnlineInv, OnMatchmake, Request, TabVars, screen, trip, rival, result, hands
<1>2. CASE queue = <<>>
  BY <1>1, <1>2, TabKept DEF OnMatchmake, MatchVars, game
<1>3. CASE queue # <<>>
  <2>1. PICK v \in Sides : /\ made' = made + 1
                           /\ inbox'[e] = Append(inbox[e], [event |-> "found", vid |-> v])
    BY <1>3 DEF OnMatchmake, Sides
  <2>2. [event |-> "found", vid |-> v] \in Packets
    BY DEF Packets
  <2>3. made' \in Nat /\ made < made'
    BY <1>1, <2>1, BoardAssumption DEF ShapeOK, ServerOK
  <2> QED BY <1>1, <2>1, <2>2, <2>3, NotBegun
<1> QED BY <1>2, <1>3

----------------------------------------------------------------------------
(* What the tabs hear. *)

LEMMA InboxHeard ==
    ASSUME ShapeOK, NEW d \in Tabs, InboxOK(d), UNCHANGED MatchVars,
           inbox[d] # <<>>, inbox'[d] = Tail(inbox[d])
    PROVE  InboxOK(d)'
<1>1. PICK s \in Seq(Packets) : s = inbox[d] /\ s # <<>>
  BY DEF ShapeOK, BoxesOK
<1>2. PICK t \in Seq(Packets) : t = Tail(s)
  BY <1>1, TailPlaces
<1>3. /\ Len(s) \in Nat /\ Len(t) = Len(s) - 1 /\ \A i \in 1..Len(t) : t[i] = s[i + 1]
      /\ DOMAIN s = 1..Len(s) /\ DOMAIN t = 1..Len(t)
  BY <1>1, <1>2, TailPlaces
<1> SUFFICES ASSUME NEW p \in 1..Len(t), t[p].event = "start" PROVE StartOK(d, p)'
  BY <1>1, <1>2, <1>3 DEF InboxOK
<1>4. p + 1 \in 1..Len(s) /\ t[p] = s[p + 1] /\ p \in Nat
  BY <1>3
<1>5. StartOK(d, p + 1)
  BY <1>1, <1>3, <1>4 DEF InboxOK
<1>6. s[p + 1].match = made => Begun /\ Tells(status, goals, SideOf(d), t, p, Zero)
  BY <1>1, <1>2, <1>4, <1>5, HeardBefore DEF StartOK
<1>7. s[p + 1].match \in 1..made
  BY <1>1, <1>5 DEF StartOK
<1>8. inbox'[d] = t /\ SideOf(d)' = SideOf(d) /\ Begun' = Begun
  BY <1>1, <1>2 DEF SideOf, Begun, MatchVars
<1> QED BY <1>4, <1>6, <1>7, <1>8 DEF StartOK, MatchVars

\* A packet that is not a goal, and changes nothing that the tab shows of the match.
LEMMA QuietHeard ==
    ASSUME ShapeOK, NEW d \in Tabs, TabOK(d), UNCHANGED MatchVars, UNCHANGED TabVars(d),
           inbox[d] # <<>>, inbox'[d] = Tail(inbox[d]), Head(inbox[d]).event # "onGoal"
    PROVE  TabOK(d)'
<1>1. PICK s \in Seq(Packets) : s = inbox[d] /\ s # <<>>
  BY DEF ShapeOK, BoxesOK
<1>2. Len(s) \in Nat /\ Len(Tail(s)) = Len(s) - 1 /\ \A i \in 1..Len(Tail(s)) : Tail(s)[i] = s[i + 1]
  BY <1>1, TailPlaces
<1>3. Last(s, 0) => Last(Tail(s), 0)
  BY <1>2 DEF Last
<1>4. /\ SideOf(d)' = SideOf(d) /\ Leads(d)' = Leads(d) /\ Begun' = Begun
      /\ Following(d)' = Following(d)
  BY DEF SideOf, Leads, MatchVars, TabVars, Begun, Following
<1>5. ASSUME NEW sc, InTouchAt(d, sc) PROVE InTouchAt(d, sc)'
  <2>1. Tells(status, goals, SideOf(d), Tail(s), 0, sc)
    <3>1. Tells(status, goals, SideOf(d), Tail(s), 0, ScoreAfter(Head(s), sc))
      BY <1>1, <1>5, HeardNext DEF InTouchAt
    <3> QED BY <1>1, <3>1 DEF ScoreAfter
  <2> QED BY <1>1, <1>3, <1>4, <1>5, <2>1 DEF InTouchAt, MatchVars, TabVars
<1>6. PageOK(d)'
  BY <1>4, <1>5 DEF TabOK, PageOK, InTouch, MatchVars, TabVars
<1> QED BY <1>6, InboxHeard DEF TabOK

LEMMA HomeTells ==
    ASSUME ShapeOK, NEW d \in Tabs, TabOK(d), UNCHANGED MatchVars, GoHome(d),
           InboxOK(d)'
    PROVE  TabOK(d)'
<1>1. page'[d] = "home" /\ score'[d] = Zero /\ winner'[d] = "none" /\ follows'[d] = 0
  BY DEF GoHome, ShapeOK, ScreenOK
<1>2. made \in Nat /\ made' = made
  BY BoardAssumption DEF ShapeOK, ServerOK, MatchVars
<1> QED BY <1>1, <1>2 DEF TabOK, PageOK, Following

\* A goal is told, to the page of the match or to none.
LEMMA GoalHeard ==
    ASSUME ShapeOK, NEW d \in Tabs, TabOK(d), AfterGoal(d) \/ Unheard(d, "onGoal") PROVE PageOK(d)'
<1>1. PICK s \in Seq(Packets) : s = inbox[d] /\ s # <<>>
  BY DEF ShapeOK, BoxesOK, AfterGoal, Unheard, Receive
<1>2. PICK sc2 \in [Sides -> Goals] : sc2 = Told(Head(s))
  <2>1. Head(s) \in Packets /\ Head(s).event = "onGoal"
    BY <1>1 DEF AfterGoal, Unheard, Receive
  <2> QED BY <2>1, PacketParts DEF Told
<1>3. /\ UNCHANGED MatchVars /\ UNCHANGED <<page, follows, winner>>
      /\ Head(s).event = "onGoal" /\ inbox'[d] = Tail(s)
  BY <1>1 DEF AfterGoal, Unheard, Receive, server, game, MatchVars, result, ShapeOK, BoxesOK
<1>4. /\ SideOf(d)' = SideOf(d) /\ Begun' = Begun /\ Following(d)' = Following(d)
  BY <1>3 DEF SideOf, MatchVars, Begun, Following
<1>5. \/ page[d] = "online" /\ score'[d] = sc2
      \/ page[d] # "online" /\ score'[d] = score[d] /\ (missed'[d] \/ follows[d] = 0)
  <2>1. CASE AfterGoal(d)
    BY <1>1, <1>2, <2>1 DEF AfterGoal, Told, ShapeOK, ScreenOK
  <2>2. CASE Unheard(d, "onGoal")
    BY <2>2 DEF Unheard, result, ShapeOK, ScreenOK
  <2> QED BY <2>1, <2>2
<1>6. Following(d) => InTouch(d)'
  <2> SUFFICES ASSUME Following(d) PROVE InTouchAt(d, sc2)'
    BY DEF InTouch
  <2>1. PICK sc \in [Sides -> Goals] : InTouchAt(d, sc)
    BY DEF TabOK, PageOK, InTouch
  <2>2. Tells(status, goals, SideOf(d), Tail(s), 0, ScoreAfter(Head(s), sc))
    BY <1>1, <2>1, HeardNext DEF InTouchAt
  <2>3. ScoreAfter(Head(s), sc) = sc2
    BY <1>2, <1>3 DEF ScoreAfter
  <2>4. winner[d] = "none"
    <3>1. ~Last(s, 0)
      BY <1>1, <1>3, TailPlaces DEF Last
    <3> QED BY <1>1, <2>1, <3>1 DEF InTouchAt
  <2>5. missed'[d] \/ score'[d] = sc2
    BY <1>5 DEF Following
  <2> QED BY <1>3, <1>4, <2>1, <2>2, <2>3, <2>4, <2>5 DEF InTouchAt, MatchVars
<1> QED BY <1>3, <1>4, <1>5, <1>6 DEF TabOK, PageOK, MatchVars

LEMMA VerdictHeard ==
    ASSUME ShapeOK, NEW d \in Tabs, TabOK(d), AfterEnd(d) PROVE PageOK(d)'
<1>1. PICK s \in Seq(Packets) : s = inbox[d] /\ s # <<>>
  BY DEF ShapeOK, BoxesOK, AfterEnd, Receive
<1>2. /\ UNCHANGED MatchVars /\ UNCHANGED <<page, follows, score, missed>>
      /\ Head(s).event = "onEnd" /\ inbox'[d] = Tail(s)
      /\ page[d] = "online"
  BY <1>1 DEF AfterEnd, Receive, server, game, MatchVars, trip, ShapeOK, BoxesOK
<1>3. winner'[d] = "me" <=> Head(s).win
  <2>1. winner' = [winner EXCEPT ![d] = IF Head(s).win THEN "me" ELSE "other"]
    BY <1>1 DEF AfterEnd
  <2> QED BY <2>1 DEF ShapeOK, ScreenOK
<1>4. /\ SideOf(d)' = SideOf(d) /\ Begun' = Begun /\ Following(d)' = Following(d)
      /\ Leads(d)' = Leads(d)
  BY <1>2 DEF SideOf, MatchVars, Begun, Following, Leads
<1>5. ASSUME NEW sc, InTouchAt(d, sc) PROVE InTouchAt(d, sc)'
  <2>1. Tells(status, goals, SideOf(d), Tail(s), 0, sc)
    <3>1. Tells(status, goals, SideOf(d), Tail(s), 0, ScoreAfter(Head(s), sc))
      BY <1>1, <1>5, HeardNext DEF InTouchAt
    <3> QED BY <1>2, <3>1 DEF ScoreAfter
  <2>2. /\ status = "completed" /\ sc = View(goals, SideOf(d)) /\ (Head(s).win <=> Leads(d))
        /\ Last(Tail(s), 0)
    BY <1>1, <1>2, <1>5, HeardVerdict DEF InTouchAt, Leads
  <2> QED BY <1>2, <1>3, <1>4, <1>5, <2>1, <2>2 DEF InTouchAt, MatchVars
<1> QED BY <1>2, <1>4, <1>5 DEF TabOK, PageOK, InTouch, MatchVars

LEMMA StartHeard ==
    ASSUME ShapeOK, NEW d \in Tabs, TabOK(d), AfterStart(d) PROVE PageOK(d)'
<1>1. PICK s \in Seq(Packets) : s = inbox[d] /\ s # <<>>
  BY DEF ShapeOK, BoxesOK, AfterStart, Receive
<1>2. /\ UNCHANGED MatchVars /\ UNCHANGED <<page, score, winner>>
      /\ Head(s).event = "start" /\ inbox'[d] = Tail(s)
      /\ page[d] = "search" /\ follows'[d] = Head(s).match
  BY <1>1 DEF AfterStart, Receive, server, game, MatchVars, result, ShapeOK, ScreenOK, BoxesOK
<1>3. score[d] = Zero /\ winner[d] = "none" /\ Zero \in [Sides -> Goals]
  BY <1>2, StartOfMatch DEF TabOK, PageOK
<1>4. StartOK(d, 1) /\ Head(s) = s[1]
  BY <1>1, <1>2, TailPlaces DEF TabOK, InboxOK
<1>5. Head(s).match \in 0..made
  BY <1>1, <1>4 DEF StartOK
<1>6. ASSUME Head(s).match = made PROVE Begun /\ Tells(status, goals, SideOf(d), Tail(s), 0, Zero)
  <2>1. Begun /\ Tells(status, goals, SideOf(d), s, 0 + 1, Zero)
    BY <1>1, <1>4, <1>6 DEF StartOK
  <2> QED BY <1>1, <2>1, HeardBefore
<1>7. SideOf(d)' = SideOf(d) /\ Begun' = Begun
  BY <1>2 DEF SideOf, MatchVars, Begun
<1>8. Following(d)' => InTouch(d)'
  <2> SUFFICES ASSUME Following(d)' PROVE InTouchAt(d, Zero)'
    BY <1>3 DEF InTouch
  <2>1. Head(s).match = made
    BY <1>2 DEF Following, MatchVars
  <2> QED BY <1>2, <1>3, <1>6, <1>7, <2>1 DEF InTouchAt, MatchVars
<1> QED BY <1>2, <1>3, <1>5, <1>8 DEF PageOK, MatchVars

LEMMA HeardTells ==
    ASSUME OnlineInv, NEW d \in Tabs,
           \/ AfterFound(d) \/ AfterOpponentLeft(d) \/ AfterStart(d) \/ AfterGoal(d) \/ AfterEnd(d)
           \/ \E e \in {"found", "opponent_left", "start"} : Deaf(d, e)
           \/ \E e \in {"onGoal", "onEnd"} : Unheard(d, e)
    PROVE  \A e \in Tabs : TabOK(e)'
<1>1. ShapeOK /\ TabOK(d) /\ BoxesOK /\ ScreenOK
  BY DEF OnlineInv, ShapeOK
<1>2. PICK event : Receive(d, event)
  BY DEF AfterFound, AfterOpponentLeft, AfterStart, AfterGoal, AfterEnd, Deaf, Unheard
<1>3. /\ UNCHANGED MatchVars /\ inbox[d] # <<>> /\ inbox'[d] = Tail(inbox[d])
      /\ \A e \in Tabs : e # d => inbox'[e] = inbox[e]
  BY <1>1, <1>2 DEF Receive, server, game, MatchVars, BoxesOK
<1>4. InboxOK(d)'
  BY <1>1, <1>3, InboxHeard DEF TabOK
<1>5. ASSUME NEW e \in Tabs, e # d PROVE TabOK(e)'
  <2>1. UNCHANGED TabVars(e)
    BY <1>1, <1>5 DEF AfterFound, AfterOpponentLeft, AfterStart, AfterGoal, AfterEnd, Deaf, Unheard,
                      TabVars, screen, trip, result, ScreenOK
  <2> QED BY <1>3, <1>5, <2>1, TabKept DEF OnlineInv
<1>6. CASE AfterFound(d) \/ AfterOpponentLeft(d)
  <2>1. UNCHANGED TabVars(d) /\ Head(inbox[d]).event # "onGoal"
    BY <1>6 DEF AfterFound, AfterOpponentLeft, Receive, TabVars, trip, result
  <2> QED BY <1>1, <1>3, <1>5, <2>1, QuietHeard
<1>7. ASSUME NEW e \in {"found", "opponent_left", "start"}, Deaf(d, e) PROVE TabOK(d)'
  <2>1. UNCHANGED TabVars(d) /\ Head(inbox[d]).event # "onGoal"
    BY <1>7 DEF Deaf, Receive, TabVars, screen, trip, result
  <2> QED BY <1>1, <1>3, <2>1, QuietHeard
<1>8. CASE AfterStart(d)
  BY <1>1, <1>4, <1>5, <1>8, StartHeard DEF TabOK
<1>9. CASE AfterGoal(d) \/ Unheard(d, "onGoal")
  BY <1>1, <1>4, <1>5, <1>9, GoalHeard DEF TabOK
<1>10. CASE AfterEnd(d)
  BY <1>1, <1>4, <1>5, <1>10, VerdictHeard DEF TabOK
<1>11. CASE Unheard(d, "onEnd")
  <2>1. UNCHANGED <<page, follows, score, winner>> /\ Head(inbox[d]).event = "onEnd"
    BY <1>11 DEF Unheard, Receive, result
  <2>2. missed'[d] = missed[d]
    BY <1>1, <1>11 DEF Unheard, ScreenOK
  <2>3. UNCHANGED TabVars(d)
    BY <2>1, <2>2 DEF TabVars
  <2> QED BY <1>1, <1>3, <1>5, <2>1, <2>3, QuietHeard
<1> QED BY <1>5, <1>6, <1>7, <1>8, <1>9, <1>10, <1>11

----------------------------------------------------------------------------
(* The invariant. *)

LEMMA TabsTell ==
    ASSUME OnlineInv, NEW d \in Tabs,
           \/ Search(d) \/ Mount(d) \/ Leave(d) \/ Dialog(d) \/ Profile(d)
           \/ \E key \in Keys : KeyDown(d, key) \/ KeyUp(d, key)
    PROVE  \A e \in Tabs : TabOK(e)'
<1>1. ShapeOK /\ TabOK(d)
  BY DEF OnlineInv
<1>2. UNCHANGED MatchVars /\ inbox' = inbox
  BY DEF Search, Mount, Leave, Dialog, Profile, KeyDown, KeyUp, KeyUpAfter, Press, server, game, MatchVars
<1>3. ASSUME NEW e \in Tabs, e # d PROVE TabOK(e)'
  <2>1. UNCHANGED TabVars(e)
    BY <1>1, <1>3 DEF Search, Mount, Leave, Dialog, Profile, KeyDown, KeyUp, KeyUpAfter, GoHome,
                      TabVars, trip, result, ShapeOK, ScreenOK
  <2> QED BY <1>2, <1>3, <2>1, TabKept DEF OnlineInv
<1>4. CASE Profile(d) \/ \E key \in Keys : KeyDown(d, key) \/ KeyUp(d, key)
  <2>1. UNCHANGED TabVars(d)
    BY <1>4 DEF Profile, KeyDown, KeyUp, KeyUpAfter, TabVars, trip, result
  <2> QED BY <1>1, <1>2, <1>3, <2>1, TabKept
<1>5. InboxOK(d)'
  BY <1>1, <1>2 DEF TabOK, InboxOK, StartOK, MatchVars, SideOf, Begun
<1>6. CASE GoHome(d)
  BY <1>1, <1>2, <1>3, <1>5, <1>6, HomeTells
<1>7. CASE Search(d) \/ (Mount(d) /\ opponent[d])
  <2>1. /\ page[d] # "online" /\ UNCHANGED <<follows, score, winner, missed>>
        /\ page'[d] = "online" => follows[d] # 0
    BY <1>1, <1>7 DEF Search, Mount, result, ShapeOK, ScreenOK
  <2> QED BY <1>1, <1>2, <1>3, <2>1, PageTurned
<1> QED BY <1>4, <1>6, <1>7 DEF Leave, Dialog, Mount

LEMMA OnlineStep == OnlineInv /\ [Next]_vars => OnlineInv'
<1> SUFFICES ASSUME OnlineInv, [Next]_vars PROVE \A e \in Tabs : TabOK(e)'
  BY ShapeStep DEF OnlineInv
<1>1. CASE UNCHANGED vars
  BY <1>1, TabKept DEF OnlineInv, vars, server, game, screen, trip, rival, result, hands, MatchVars, TabVars
<1>2. ASSUME NEW d \in Tabs, OnKey(d) PROVE \A e \in Tabs : TabOK(e)'
  BY <1>2, TabKept DEF OnlineInv, OnKey, Request, game, screen, trip, rival, result, hands, MatchVars, TabVars
<1>3. ASSUME NEW d \in Tabs, OnMatchmake(d) \/ OnImLeft(d) PROVE \A e \in Tabs : TabOK(e)'
  BY <1>3, MatchmakeTells, ImLeftTells
<1> QED BY <1>1, <1>2, <1>3, FrameTells, BeginTells, HeardTells, TabsTell DEF Next

LEMMA OnlineInit == Init => OnlineInv
<1> SUFFICES ASSUME Init, NEW d \in Tabs PROVE TabOK(d)
  BY InitShape DEF OnlineInv
<1>1. /\ page[d] = "home" /\ score[d] = Zero /\ winner[d] = "none" /\ inbox[d] = <<>>
      /\ follows[d] = 0 /\ made = 0
  BY DEF Init
<1> QED BY <1>1 DEF TabOK, PageOK, InboxOK, Following

(* What is on the way to a page and what it shows fit the match that it follows. *)
THEOREM OnlineInvariant == Spec => []OnlineInv
  BY OnlineInit, OnlineStep, PTL DEF Spec

\* The names of a page are those of its vid, unless a profile came later.
NamesOK(d) == page[d] = "online" => late[d] \/ (named[d] = vid[d] /\ profile[d] = 0)
NamesInv == \A d \in Tabs : NamesOK(d)
NameVars(d) == <<page[d], late[d], named[d], vid[d], profile[d]>>

LEMMA NamesKept ==
    ASSUME NEW d, NamesOK(d), UNCHANGED NameVars(d) \/ page'[d] # "online" PROVE NamesOK(d)'
  BY DEF NamesOK, NameVars

LEMMA NamesStep ==
    ShapeOK /\ NamesInv /\ [Next]_vars => NamesInv'
<1> SUFFICES ASSUME ShapeOK, \A d \in Tabs : NamesOK(d), [Next]_vars, NEW d \in Tabs
             PROVE  NamesOK(d)'
  BY DEF NamesInv
<1>1. ScreenOK
  BY DEF ShapeOK
<1>2. ASSUME UNCHANGED <<page, late, named, vid, profile>> PROVE NamesOK(d)'
  BY <1>2, NamesKept DEF NameVars
<1>3. ASSUME UNCHANGED screen PROVE NamesOK(d)'
  BY <1>2, <1>3 DEF screen, trip, rival
<1>4. CASE UNCHANGED vars
  BY <1>3, <1>4 DEF vars
<1>5. CASE Frame \/ Begin
  BY <1>3, <1>5 DEF Frame, Begin
<1>6. ASSUME NEW e \in Tabs, OnMatchmake(e) \/ OnImLeft(e) \/ OnKey(e) PROVE NamesOK(d)'
  BY <1>3, <1>6 DEF OnMatchmake, OnImLeft, OnKey, Request
<1>7. ASSUME NEW e \in Tabs,
             \/ AfterStart(e) \/ AfterGoal(e) \/ AfterEnd(e)
             \/ \E key \in Keys : KeyDown(e, key) \/ KeyUp(e, key)
             \/ \E event : Deaf(e, event) \/ Unheard(e, event)
      PROVE  NamesOK(d)'
  BY <1>2, <1>7 DEF AfterStart, AfterGoal, AfterEnd, KeyDown, KeyUp, KeyUpAfter, Deaf, Unheard,
                    screen, trip, rival
<1>8. ASSUME NEW e \in Tabs,
             Search(e) \/ AfterFound(e) \/ AfterOpponentLeft(e) \/ GoHome(e)
      PROVE  NamesOK(d)'
  <2>1. UNCHANGED NameVars(d) \/ page'[d] # "online"
    BY <1>1, <1>8 DEF Search, AfterFound, AfterOpponentLeft, GoHome, NameVars, trip, rival, ScreenOK
  <2> QED BY <2>1, NamesKept
<1>9. ASSUME NEW e \in Tabs, Mount(e), opponent[e] PROVE NamesOK(d)'
  <2>1. CASE e # d
    <3>1. UNCHANGED NameVars(d)
      BY <1>1, <1>9, <2>1 DEF Mount, NameVars, rival, ScreenOK
    <3> QED BY <3>1, NamesKept
  <2>2. CASE e = d
    <3>1. named'[d] = vid'[d] /\ late'[d] = (profile'[d] # 0)
      BY <1>1, <1>9, <2>2 DEF Mount, rival, ScreenOK
    <3> QED BY <3>1 DEF NamesOK
  <2> QED BY <2>1, <2>2
<1>10. ASSUME NEW e \in Tabs, Profile(e) PROVE NamesOK(d)'
  <2>1. CASE e # d
    <3>1. UNCHANGED NameVars(d)
      BY <1>1, <1>10, <2>1 DEF Profile, NameVars, trip, ScreenOK
    <3> QED BY <3>1, NamesKept
  <2>2. CASE e = d
    BY <1>10, <2>2 DEF Profile, NamesOK, trip
  <2> QED BY <2>1, <2>2
<1> QED BY <1>4, <1>5, <1>6, <1>7, <1>8, <1>9, <1>10 DEF Next, Leave, Dialog, Mount

LEMMA NamesInvariance == Spec => []NamesInv
<1>1. Init => NamesInv
  BY DEF Init, NamesInv, NamesOK
<1> QED BY <1>1, NamesStep, ShapeInvariance, PTL DEF Spec

\* Cards, when the context has the score and the names are those of the vid.
LEMMA CardsOfView ==
    ASSUME ShapeOK, NEW d \in Tabs, score[d] = View(goals, SideOf(d)), NEW names, names = vid[d]
    PROVE  CardsAreRight(d, names)
<1>1. /\ score[d][1] = goals[SideOf(d)] /\ score[d][2] = goals[Other(SideOf(d))]
  BY DEF View, Sides
<1>2. SideOf(Rival(d)) = Other(SideOf(d))
  BY DEF Rival, SideOf, Other, ShapeOK, ServerOK, MatchOK
<1> SUFFICES ASSUME NEW place \in Sides
             PROVE  Card(d, place, names).goals = goals[SideOf(Card(d, place, names).who)]
  BY DEF CardsAreRight
<1>3. CASE (vid[d] = 1) <=> (place = 1)
  <2>1. Card(d, place, names) = [who |-> d, goals |-> score[d][1]]
    BY <1>3, Zenon DEF Card
  <2> QED BY <1>1, <2>1
<1>4. CASE ~((vid[d] = 1) <=> (place = 1))
  <2>1. Card(d, place, names) = [who |-> Rival(d), goals |-> score[d][2]]
    BY <1>4, Zenon DEF Card
  <2> QED BY <1>1, <1>2, <2>1
<1> QED BY <1>3, <1>4

(* Pages tell the match that they follow: the verdict is the one that the server has
   stored, and the scores beside it and those of a page without packets left are right,
   but for goals that were told before the page was there. *)
THEOREM PageTellsOnline == Spec => []PageTellsMatch
<1>1. OnlineInv /\ NamesInv => PageTellsMatch
  <2> SUFFICES ASSUME OnlineInv, \A d \in Tabs : NamesOK(d) PROVE PageTellsMatch
    BY DEF NamesInv
  <2>1. ShapeOK /\ TypeOK
    BY DEF OnlineInv, ShapeOK, ServerOK, MatchOK, ScreenOK, Goals, TypeOK
  <2>2. ASSUME NEW d \in Tabs, page[d] = "online", follows[d] = made
        PROVE  \E sc \in [Sides -> Goals] : InTouchAt(d, sc)
    BY <2>2 DEF OnlineInv, TabOK, PageOK, Following, InTouch
  <2>3. VerdictIsTrue
    <3> SUFFICES ASSUME NEW d \in Tabs, page[d] = "online", winner[d] # "none", follows[d] = made
                 PROVE  /\ status = "completed"
                        /\ (winner[d] = "me") <=> goals[SideOf(d)] > goals[Other(SideOf(d))]
                        /\ ~missed[d] => CardsAreRight(d, vid[d])
                        /\ ~missed[d] /\ ~late[d] => CardsAreRight(d, named[d])
      BY DEF VerdictIsTrue
    <3>1. PICK sc \in [Sides -> Goals] : InTouchAt(d, sc)
      BY <2>2
    <3>2. /\ status = "completed" /\ (winner[d] = "me" <=> Leads(d))
          /\ ~missed[d] => score[d] = View(goals, SideOf(d))
      BY <3>1 DEF InTouchAt
    <3>3. ~late[d] => named[d] = vid[d]
      BY DEF NamesOK
    <3> QED BY <2>1, <3>2, <3>3, CardsOfView DEF Leads
  <2>4. ScoreIsCurrent
    <3> SUFFICES ASSUME NEW d \in Tabs, page[d] = "online", follows[d] = made, inbox[d] = <<>>,
                        status = "playing", ~missed[d]
                 PROVE  CardsAreRight(d, vid[d])
      BY DEF ScoreIsCurrent
    <3>1. PICK sc \in [Sides -> Goals] : InTouchAt(d, sc)
      BY <2>2
    <3>2. Tells(status, goals, SideOf(d), <<>>, 0, score[d])
      BY <3>1 DEF InTouchAt
    <3>3. score[d] = View(goals, SideOf(d))
      <4>1. Len(<<>>) = 0 /\ 0 \in 0..0
        OBVIOUS
      <4>2. Scores(<<>>, 0, 0) /\ ShownAt(<<>>, 0, score[d], 0) = score[d]
        BY DEF Scores, ShownAt
      <4>3. Last(<<>>, 0)
        BY DEF Last
      <4> QED BY <3>2, <4>1, <4>2, <4>3 DEF Tells, Current
    <3> QED BY <2>1, <3>3, CardsOfView
  <2> QED BY <2>1, <2>3, <2>4 DEF PageTellsMatch
<1> QED BY <1>1, OnlineInvariant, NamesInvariance, PTL

(***************************************************************************)
(* Keys that are held.  The last packet about a key that is held presses   *)
(* it: lastPress is a key that is held, so a press is left out only if one *)
(* was sent after the last release.  Packets are heard in order, and while *)
(* a match is pending or played nobody is out of it.                       *)
(***************************************************************************)
About(p, key) == p.event = "key" /\ p.key = key

Arrives(s, key, moves) ==
    /\ \A i \in 1..Len(s) :
          About(s[i], key) /\ (\A j \in i+1..Len(s) : ~About(s[j], key)) => s[i].pressed
    /\ (\A i \in 1..Len(s) : ~About(s[i], key)) => moves

Moves(key) == \E e \in Tabs : key \in pressed[e]

Played(d) == Following(d) /\ status = "playing"

\* What is true of the keys of a tab.
HandOK(d) ==
    /\ page[d] # "online" => held[d] = {}
    /\ lastPress[d] \in held[d] \cup {"none"}
    /\ d \notin Typists =>
          held[d] = {} /\ \A i \in 1..Len(outbox[d]) : outbox[d][i].event # "key"
    /\ Played(d) /\ Typists \subseteq {d} =>
          \A key \in held[d] : Arrives(outbox[d], key, Moves(key))

NobodyIsOut == status \in {"pending", "playing"} => inMatch = Tabs

HandsInv == OnlineInv /\ NobodyIsOut /\ \A d \in Tabs : HandOK(d)

HandVars(d) == <<page[d], follows[d], held[d], lastPress[d]>>

\* t is s with the packet p behind it.
Behind(s, p, t) ==
    /\ s \in Seq(Requests) /\ t \in Seq(Requests) /\ Len(t) = Len(s) + 1
    /\ \A i \in 1..Len(s) : t[i] = s[i]
    /\ t[Len(t)] = p

LEMMA SentBehind ==
    ASSUME NEW s \in Seq(Requests), NEW p \in Requests
    PROVE  Behind(s, p, s \o <<p>>)
<1>1. s \o <<p>> = Append(s, p)
  BY AppendIsConcat
<1>2. PICK t : t = Append(s, p)
  OBVIOUS
<1>3. t \in Seq(Requests) /\ Len(t) = Len(s) + 1
  BY <1>2, AppendProperties
<1>4. \A i \in 1..Len(s) : t[i] = s[i]
  BY <1>2, AppendProperties
<1>5. t[Len(s) + 1] = p
  BY <1>2, AppendProperties
<1> QED BY <1>1, <1>2, <1>3, <1>4, <1>5 DEF Behind

LEMMA BehindIsQuiet ==
    ASSUME NEW s, NEW p, NEW t, Behind(s, p, t), NEW key, ~About(p, key),
           NEW moves, Arrives(s, key, moves)
    PROVE  Arrives(t, key, moves)
<1>1. Len(s) \in Nat /\ Len(t) = Len(s) + 1 /\ ~About(t[Len(t)], key)
  BY DEF Behind
<1>2. \A i \in 1..Len(s) : t[i] = s[i] /\ i \in 1..Len(t)
  BY <1>1 DEF Behind
<1>3. ASSUME NEW i \in 1..Len(t), About(t[i], key), \A j \in i+1..Len(t) : ~About(t[j], key)
      PROVE  t[i].pressed
  <2>1. i # Len(t)
    BY <1>1, <1>3, Zenon
  <2>2. i \in 1..Len(s) /\ t[i] = s[i]
    BY <1>1, <1>2, <2>1
  <2>3. ASSUME NEW j \in i+1..Len(s) PROVE ~About(s[j], key)
    <3>1. j \in 1..Len(s) /\ j \in i+1..Len(t)
      BY <1>1, <2>2
    <3> QED BY <1>2, <1>3, <3>1
  <2> QED BY <1>3, <2>2, <2>3 DEF Arrives
<1>4. ASSUME \A i \in 1..Len(t) : ~About(t[i], key) PROVE moves
  <2>1. \A i \in 1..Len(s) : ~About(s[i], key)
    BY <1>2, <1>4
  <2> QED BY <2>1 DEF Arrives
<1> QED BY <1>3, <1>4 DEF Arrives

LEMMA BehindPresses ==
    ASSUME NEW s, NEW p, NEW t, Behind(s, p, t), NEW key, About(p, key), p.pressed,
           NEW moves
    PROVE  Arrives(t, key, moves)
<1>1. /\ Len(s) \in Nat /\ Len(t) = Len(s) + 1 /\ t[Len(t)] = p /\ Len(t) \in 1..Len(t)
  BY DEF Behind
<1>2. ASSUME NEW i \in 1..Len(t), \A j \in i+1..Len(t) : ~About(t[j], key)
      PROVE  t[i].pressed
  <2>1. CASE i = Len(t)
    BY <1>1, <2>1
  <2>2. CASE i # Len(t)
    <3>1. Len(t) \in i+1..Len(t)
      BY <1>1, <2>2
    <3> QED BY <1>1, <1>2, <3>1
  <2> QED BY <2>1, <2>2
<1> QED BY <1>1, <1>2 DEF Arrives

\* The first packet is heard: a release, only if a press comes behind it.
LEMMA HeardArrives ==
    ASSUME NEW s \in Seq(Requests), s # <<>>, NEW key, NEW moves, Arrives(s, key, moves),
           NEW after,
           IF About(Head(s), key) THEN Head(s).pressed => after ELSE moves => after
    PROVE  Arrives(Tail(s), key, after)
<1>0. Tail(s) \in Seq(Requests)
  OBVIOUS
<1>1. PICK t \in Seq(Requests) : t = Tail(s)
  BY <1>0
<1>2. /\ Len(s) \in Nat \ {0} /\ Len(t) = Len(s) - 1 /\ Head(s) = s[1]
      /\ \A i \in 1..Len(t) : t[i] = s[i + 1]
  BY <1>1
<1>3. ASSUME NEW i \in 1..Len(t), About(t[i], key), \A j \in i+1..Len(t) : ~About(t[j], key)
      PROVE  t[i].pressed
  <2>1. i + 1 \in 1..Len(s) /\ t[i] = s[i + 1]
    BY <1>2
  <2>2. ASSUME NEW j \in i+1+1..Len(s) PROVE ~About(s[j], key)
    <3>1. j - 1 \in i+1..Len(t) /\ j - 1 \in 1..Len(t) /\ (j - 1) + 1 = j
      BY <1>2
    <3>2. t[j - 1] = s[(j - 1) + 1]
      BY <1>2, <3>1
    <3> QED BY <1>3, <3>1, <3>2
  <2> QED BY <1>3, <2>1, <2>2 DEF Arrives
<1>4. ASSUME \A i \in 1..Len(t) : ~About(t[i], key) PROVE after
  <2>1. ASSUME NEW j \in 1+1..Len(s) PROVE ~About(s[j], key)
    <3>1. j - 1 \in 1..Len(t) /\ (j - 1) + 1 = j
      BY <1>2
    <3>2. t[j - 1] = s[(j - 1) + 1]
      BY <1>2, <3>1
    <3> QED BY <1>4, <3>1, <3>2
  <2>2. 1 \in 1..Len(s)
    BY <1>2
  <2>3. CASE About(s[1], key)
    <3>1. s[1].pressed
      BY <2>1, <2>2, <2>3 DEF Arrives
    <3> QED BY <1>2, <2>3, <3>1
  <2>4. CASE ~About(s[1], key)
    <3>1. \A i \in 1..Len(s) : ~About(s[i], key)
      <4> SUFFICES ASSUME NEW i \in 1..Len(s) PROVE ~About(s[i], key)
        OBVIOUS
      <4>1. i = 1 \/ i \in 1+1..Len(s)
        BY <1>2
      <4> QED BY <2>1, <2>4, <4>1
    <3> QED BY <1>2, <2>4, <3>1 DEF Arrives
  <2> QED BY <2>3, <2>4
<1> QED BY <1>1, <1>3, <1>4 DEF Arrives

\* Nothing happens to the keys of a tab.
LEMMA HandKept ==
    ASSUME NEW d \in Tabs, HandOK(d), UNCHANGED HandVars(d), outbox'[d] = outbox[d],
           pressed' = pressed, Played(d)' => Played(d)
    PROVE  HandOK(d)'
<1>1. \A key : Moves(key)' = Moves(key)
  BY DEF Moves
<1> QED BY <1>1 DEF HandOK, HandVars

\* The server takes a packet of the tab.
LEMMA HandServed ==
    ASSUME NEW d \in Tabs, BoxesOK, HandOK(d), UNCHANGED HandVars(d),
           outbox[d] # <<>>, outbox'[d] = Tail(outbox[d]), Played(d)' => Played(d),
           \A key : Played(d)' /\ Typists \subseteq {d} =>
               IF About(Head(outbox[d]), key) THEN Head(outbox[d]).pressed => Moves(key)'
               ELSE Moves(key) => Moves(key)'
    PROVE  HandOK(d)'
<1>1. PICK s \in Seq(Requests) : s = outbox[d] /\ s # <<>>
  BY DEF BoxesOK
<1>0. Tail(s) \in Seq(Requests)
  BY <1>1
<1>2. PICK t \in Seq(Requests) : t = Tail(s)
  BY <1>0
<1>3. Len(s) \in Nat \ {0} /\ Len(t) = Len(s) - 1 /\ \A i \in 1..Len(t) : t[i] = s[i + 1]
  BY <1>1, <1>2
<1>4. ASSUME \A i \in 1..Len(s) : s[i].event # "key"
      PROVE  \A i \in 1..Len(t) : t[i].event # "key"
  <2> SUFFICES ASSUME NEW i \in 1..Len(t) PROVE t[i].event # "key"
    OBVIOUS
  <2>1. i + 1 \in 1..Len(s)
    BY <1>3
  <2> QED BY <1>3, <1>4, <2>1
<1>5. ASSUME Played(d)', Typists \subseteq {d}, NEW key \in held[d]
      PROVE  Arrives(t, key, Moves(key)')
  <2>1. Arrives(s, key, Moves(key))
    BY <1>1, <1>5 DEF HandOK
  <2>2. IF About(Head(s), key) THEN Head(s).pressed => Moves(key)' ELSE Moves(key) => Moves(key)'
    BY <1>1, <1>5
  <2> QED BY <1>1, <1>2, <2>1, <2>2, HeardArrives
<1>6. outbox'[d] = t
  BY <1>1, <1>2
<1> QED BY <1>1, <1>4, <1>5, <1>6 DEF HandOK, HandVars

LEMMA PlainIsRequest ==
    ASSUME NEW event \in {"matchmake", "im_left"}
    PROVE  Plain(event) \in Requests /\ Plain(event).event # "key"
  BY DEF Plain, Requests

\* The tab shows another page and tells the server.
LEMMA HandEmpty ==
    ASSUME NEW d \in Tabs, BoxesOK, HandOK(d), page'[d] # "online", held'[d] = {},
           lastPress'[d] = "none", NEW event \in {"matchmake", "im_left"},
           outbox'[d] = outbox[d] \o <<Plain(event)>>
    PROVE  HandOK(d)'
<1>1. PICK p \in Requests : p = Plain(event) /\ p.event # "key"
  BY PlainIsRequest
<1>2. PICK s \in Seq(Requests) : s = outbox[d]
  BY DEF BoxesOK
<1>3. PICK t : t = s \o <<p>>
  OBVIOUS
<1>4. Behind(s, p, t)
  BY <1>3, SentBehind
<1>5. ASSUME \A i \in 1..Len(s) : s[i].event # "key"
      PROVE  \A i \in 1..Len(t) : t[i].event # "key"
  <2> SUFFICES ASSUME NEW i \in 1..Len(t) PROVE t[i].event # "key"
    OBVIOUS
  <2>1. i \in 1..Len(s) \/ i = Len(t)
    BY <1>4 DEF Behind
  <2> QED BY <1>1, <1>4, <1>5, <2>1 DEF Behind
<1>6. outbox'[d] = t
  BY <1>1, <1>2, <1>3
<1>7. \A k \in held'[d] : FALSE
  OBVIOUS
<1> QED BY <1>2, <1>5, <1>6, <1>7 DEF HandOK

LEMMA PressedHand ==
    ASSUME NEW d \in Tabs, HandsInv, NEW key \in Keys, KeyDown(d, key) \/ KeyUp(d, key)
    PROVE  HandOK(d)'
<1>1. /\ BoxesOK /\ HandOK(d) /\ ShapeOK /\ page[d] = "online"
      /\ pressed' = pressed /\ Played(d)' = Played(d) /\ page' = page
  BY DEF HandsInv, OnlineInv, ShapeOK, KeyDown, KeyUp, KeyUpAfter, server, game, trip, Played,
         Following
<1>2. \A k : Moves(k)' = Moves(k)
  BY <1>1 DEF Moves
<1>3. PICK s \in Seq(Requests) : s = outbox[d]
  BY <1>1 DEF BoxesOK
<1>4. held[d] \subseteq Keys /\ "none" \notin Keys
  BY <1>1 DEF ShapeOK, ScreenOK, Keys
<1>5. d \in Typists
  <2>1. CASE KeyDown(d, key)
    BY <2>1 DEF KeyDown
  <2>2. CASE KeyUp(d, key)
    BY <1>1, <2>2 DEF KeyUp, KeyUpAfter, Press, HandOK
  <2> QED BY <2>1, <2>2
<1>6. CASE KeyDown(d, key) /\ lastPress[d] = key
  <2>1. key \in held[d]
    BY <1>1, <1>4, <1>6 DEF HandOK
  <2>2. held'[d] = held[d] /\ lastPress' = lastPress /\ outbox' = outbox
    BY <1>1, <1>6, <2>1 DEF KeyDown, ShapeOK, ScreenOK
  <2> QED BY <1>1, <1>2, <1>5, <2>2 DEF HandOK
<1>7. CASE KeyDown(d, key) /\ lastPress[d] # key
  <2>1. PICK p : p = [event |-> "key", key |-> key, pressed |-> TRUE, vid |-> bound[d]]
    OBVIOUS
  <2>2. p \in Requests /\ p.event = "key" /\ p.key = key /\ p.pressed
    BY <1>1, <2>1 DEF Requests, ShapeOK, ScreenOK
  <2>3. PICK t : t = s \o <<p>>
    OBVIOUS
  <2>4. Behind(s, p, t)
    BY <2>2, <2>3, SentBehind
  <2>5. held'[d] = held[d] \cup {key} /\ lastPress'[d] = key /\ outbox'[d] = t
    <3>1. outbox' = [outbox EXCEPT ![d] = @ \o <<p>>]
      BY <1>7, <2>1 DEF KeyDown, Emit, KeyPacket
    <3> QED BY <1>1, <1>3, <1>7, <2>3, <3>1 DEF KeyDown, Press, ShapeOK, ScreenOK, BoxesOK
  <2>6. ASSUME NEW k \in held[d] \cup {key}, Played(d), Typists \subseteq {d}
        PROVE  Arrives(t, k, Moves(k))
    <3>1. CASE k = key
      BY <2>2, <2>4, <3>1, BehindPresses DEF About
    <3>2. CASE k # key
      <4>1. ~About(p, k)
        BY <2>2, <3>2 DEF About
      <4>2. Arrives(s, k, Moves(k))
        BY <1>1, <1>3, <2>6, <3>2 DEF HandOK
      <4> QED BY <2>4, <4>1, <4>2, BehindIsQuiet
    <3> QED BY <3>1, <3>2
  <2> QED BY <1>1, <1>2, <1>5, <2>5, <2>6 DEF HandOK
<1>8. CASE KeyUp(d, key)
  <2>1. PICK p : p = [event |-> "key", key |-> key, pressed |-> FALSE, vid |-> bound[d]]
    OBVIOUS
  <2>2. p \in Requests /\ p.event = "key" /\ p.key = key
    BY <1>1, <2>1 DEF Requests, ShapeOK, ScreenOK
  <2>3. PICK t : t = s \o <<p>>
    OBVIOUS
  <2>4. Behind(s, p, t)
    BY <2>2, <2>3, SentBehind
  <2>5. held'[d] = held[d] \ {key} /\ lastPress'[d] = "none" /\ outbox'[d] = t
    <3>1. outbox' = [outbox EXCEPT ![d] = @ \o <<p>>]
      BY <1>8, <2>1 DEF KeyUp, KeyUpAfter, Press, Emit, KeyPacket
    <3> QED BY <1>1, <1>3, <1>8, <2>3, <3>1 DEF KeyUp, KeyUpAfter, Press, ShapeOK, ScreenOK, BoxesOK
  <2>6. ASSUME NEW k \in held[d] \ {key}, Played(d), Typists \subseteq {d}
        PROVE  Arrives(t, k, Moves(k))
    <3>1. ~About(p, k)
      BY <2>2 DEF About
    <3>2. Arrives(s, k, Moves(k))
      BY <1>1, <1>3, <2>6 DEF HandOK
    <3> QED BY <2>4, <3>1, <3>2, BehindIsQuiet
  <2> QED BY <1>1, <1>2, <1>5, <2>5, <2>6 DEF HandOK
<1> QED BY <1>6, <1>7, <1>8

\* The server takes a key: only a tab with a player has sent it.
LEMMA TakenHands ==
    ASSUME HandsInv, NEW e \in Tabs, OnKey(e), NEW d \in Tabs PROVE HandOK(d)'
<1>1. /\ BoxesOK /\ ShapeOK /\ MatchOK /\ HandOK(d) /\ HandOK(e) /\ pressed \in [Tabs -> SUBSET Keys]
  BY DEF HandsInv, OnlineInv, ShapeOK, ServerOK
<1>2. /\ outbox[e] # <<>> /\ Head(outbox[e]).event = "key"
      /\ outbox'[e] = Tail(outbox[e]) /\ \A c \in Tabs : c # e => outbox'[c] = outbox[c]
      /\ UNCHANGED HandVars(d) /\ Played(d)' = Played(d)
  BY <1>1 DEF OnKey, Request, BoxesOK, HandVars, screen, trip, rival, result, hands, game, Played, Following
<1>3. PICK s \in Seq(Requests) : s = outbox[e] /\ s # <<>>
  BY <1>1, <1>2 DEF BoxesOK
<1>4. e \in Typists
  <2>1. 1 \in 1..Len(s) /\ Head(s) = s[1]
    BY <1>3
  <2> QED BY <1>1, <1>2, <1>3, <2>1 DEF HandOK
<1>5. CASE d # e
  <2>1. ~(Typists \subseteq {d})
    BY <1>4, <1>5
  <2> QED BY <1>1, <1>2, <1>5, <2>1 DEF HandOK, HandVars
<1>6. CASE d = e
  <2>1. ASSUME NEW key, Played(d)
        PROVE  IF About(Head(s), key) THEN Head(s).pressed => Moves(key)'
               ELSE Moves(key) => Moves(key)'
    <3>1. d \in inMatch
      BY <2>1 DEF Played, HandsInv, NobodyIsOut
    <3>2. PICK p : p = Head(s)
      OBVIOUS
    <3>3. PICK who \in Tabs :
             pressed' = [pressed EXCEPT ![who] = IF p.pressed THEN @ \cup {p.key} ELSE @ \ {p.key}]
      BY <1>1, <1>3, <1>6, <3>1, <3>2 DEF OnKey, MatchOK, Sides
    <3>4. \A c \in Tabs : c # who => pressed'[c] = pressed[c]
      BY <1>1, <3>3
    <3>5. pressed'[who] = IF p.pressed THEN pressed[who] \cup {p.key} ELSE pressed[who] \ {p.key}
      BY <1>1, <3>3
    <3>6. p.event = "key"
      BY <1>2, <1>3, <3>2
    <3>7. CASE About(p, key)
      <4>1. p.pressed => key \in pressed'[who]
        BY <3>5, <3>7 DEF About
      <4> QED BY <3>2, <3>7, <4>1 DEF Moves
    <3>8. CASE ~About(p, key)
      <4>1. \A c \in Tabs : key \in pressed[c] => key \in pressed'[c]
        BY <3>4, <3>5, <3>6, <3>8 DEF About
      <4> QED BY <3>2, <3>8, <4>1 DEF Moves
    <3> QED BY <3>7, <3>8
  <2> QED BY <1>1, <1>2, <1>3, <1>6, <2>1, HandServed
<1> QED BY <1>5, <1>6

LEMMA RequestHands ==
    ASSUME HandsInv, NEW e \in Tabs, OnMatchmake(e) \/ OnImLeft(e), NEW d \in Tabs
    PROVE  HandOK(d)'
<1>1. /\ BoxesOK /\ ServerOK /\ ScreenOK /\ HandOK(d) /\ TabOK(d) /\ made \in Nat
  BY DEF HandsInv, OnlineInv, ShapeOK, ServerOK
<1>2. /\ outbox[e] # <<>> /\ Head(outbox[e]).event # "key"
      /\ outbox'[e] = Tail(outbox[e]) /\ \A c \in Tabs : c # e => outbox'[c] = outbox[c]
      /\ UNCHANGED HandVars(d) /\ pressed' = pressed
  BY <1>1 DEF OnMatchmake, OnImLeft, Request, BoxesOK, HandVars, screen, trip, rival, result, hands
<1>3. Played(d)' => Played(d)
  <2>1. CASE OnImLeft(e)
    BY <2>1 DEF OnImLeft, Request, Walkover, screen, trip, rival, result, hands, Played, Following
  <2>2. CASE OnMatchmake(e) /\ made' = made
    BY <2>2, <1>1 DEF OnMatchmake, Request, game, screen, trip, rival, result, hands, Played, Following
  <2>3. CASE OnMatchmake(e) /\ made' = made + 1
    <3>1. ~Following(d)'
      BY <1>1, <1>2, <2>3 DEF TabOK, PageOK, Following, HandVars
    <3> QED BY <3>1 DEF Played
  <2> QED BY <2>1, <2>2, <2>3 DEF OnMatchmake
<1>4. \A key : Moves(key)' = Moves(key)
  BY <1>2 DEF Moves
<1>5. CASE d # e
  BY <1>1, <1>2, <1>3, <1>5, HandKept
<1>6. CASE d = e
  <2>1. \A key : ~About(Head(outbox[d]), key)
    BY <1>2, <1>6 DEF About
  <2> QED BY <1>1, <1>2, <1>3, <1>4, <1>6, <2>1, HandServed
<1> QED BY <1>5, <1>6

LEMMA MatchHands ==
    ASSUME HandsInv, Frame \/ Begin, NEW d \in Tabs PROVE HandOK(d)'
<1>1. HandOK(d) /\ TabOK(d)
  BY DEF HandsInv, OnlineInv
<1>2. UNCHANGED HandVars(d) /\ outbox' = outbox /\ pressed' = pressed /\ made' = made
  BY DEF Frame, Begin, HandVars, screen, trip, rival, result, hands
<1>3. CASE Frame
  BY <1>1, <1>2, <1>3, HandKept DEF Frame, Played, Following, HandVars
<1>4. CASE Begin
  <2>1. ~Following(d)
    BY <1>1, <1>4 DEF Begin, TabOK, PageOK, InTouch, InTouchAt, Begun
  <2> QED BY <1>1, <1>2, <2>1, HandKept DEF Played, Following, HandVars
<1> QED BY <1>3, <1>4

LEMMA PageHands ==
    ASSUME HandsInv, NEW e \in Tabs, NEW d \in Tabs,
           \/ Search(e) \/ Mount(e) \/ Leave(e) \/ Dialog(e) \/ Profile(e)
           \/ AfterFound(e) \/ AfterOpponentLeft(e) \/ AfterStart(e) \/ AfterGoal(e) \/ AfterEnd(e)
           \/ \E event \in {"found", "opponent_left", "start"} : Deaf(e, event)
           \/ \E event \in {"onGoal", "onEnd"} : Unheard(e, event)
           \/ \E key \in Keys : KeyDown(e, key) \/ KeyUp(e, key)
    PROVE  HandOK(d)'
<1>1. /\ BoxesOK /\ ScreenOK /\ HandOK(d) /\ TabOK(d)
  BY DEF HandsInv, OnlineInv, ShapeOK
<1>2. /\ pressed' = pressed /\ made' = made /\ status' = status
  BY DEF Search, Mount, Leave, Dialog, Profile, AfterFound, AfterOpponentLeft, AfterStart, AfterGoal,
         AfterEnd, Deaf, Unheard, Receive, KeyDown, KeyUp, KeyUpAfter, Press, server, game
<1>3. CASE d # e
  <2>1. UNCHANGED HandVars(d) /\ outbox'[d] = outbox[d]
    BY <1>1, <1>3 DEF Search, Mount, Leave, Dialog, Profile, AfterFound, AfterOpponentLeft, AfterStart,
         AfterGoal, AfterEnd, Deaf, Unheard, KeyDown, KeyUp, KeyUpAfter, Press, GoHome, Emit, HandVars, screen, trip, rival, result, hands,
         ScreenOK, BoxesOK
  <2> QED BY <1>1, <1>2, <2>1, HandKept DEF Played, Following, HandVars
<1>4. CASE d = e /\ \E key \in Keys : KeyDown(e, key) \/ KeyUp(e, key)
  BY <1>4, PressedHand
<1>5. CASE \/ Profile(e) \/ AfterFound(e) \/ AfterGoal(e) \/ AfterEnd(e)
           \/ \E event \in {"found", "opponent_left", "start"} : Deaf(e, event)
           \/ \E event \in {"onGoal", "onEnd"} : Unheard(e, event)
  <2>1. UNCHANGED HandVars(d) /\ outbox' = outbox
    BY <1>5 DEF Profile, AfterFound, AfterGoal, AfterEnd, Deaf, Unheard, HandVars, screen, trip, rival, result, hands
  <2> QED BY <1>1, <1>2, <2>1, HandKept DEF Played, Following, HandVars
<1>6. ASSUME d = e, GoHome(d) PROVE HandOK(d)'
  BY <1>1, <1>6, HandEmpty DEF GoHome, Emit, ScreenOK, BoxesOK
<1>7. CASE d = e /\ (Leave(e) \/ Dialog(e))
  BY <1>6, <1>7 DEF Leave, Dialog
<1>8. CASE d = e /\ (Search(e) \/ AfterOpponentLeft(e))
  <2>1. page[d] # "online" /\ page'[d] # "online" /\ held' = held /\ lastPress' = lastPress
    BY <1>1, <1>8 DEF Search, AfterOpponentLeft, hands, trip, ScreenOK
  <2>2. held[d] = {} /\ lastPress[d] = "none"
    BY <1>1, <2>1 DEF HandOK
  <2>3. outbox'[d] = outbox[d] \o <<Plain("matchmake")>>
    BY <1>1, <1>8 DEF Search, AfterOpponentLeft, Emit, BoxesOK
  <2> QED BY <1>1, <2>1, <2>2, <2>3, HandEmpty
<1>9. CASE d = e /\ (AfterStart(e) \/ (Mount(e) /\ opponent[e]))
  <2>1. held' = held /\ lastPress' = lastPress /\ outbox' = outbox /\ page[d] = "search"
    BY <1>9 DEF AfterStart, Mount, hands
  <2>2. held[d] = {}
    BY <1>1, <2>1 DEF HandOK
  <2> QED BY <1>1, <2>1, <2>2 DEF HandOK
<1>10. CASE d = e /\ Mount(e) /\ ~opponent[e]
  BY <1>6, <1>10 DEF Mount
<1> QED BY <1>3, <1>4, <1>5, <1>7, <1>8, <1>9, <1>10

LEMMA NobodyGoesOut == ShapeOK /\ NobodyIsOut /\ [Next]_vars => NobodyIsOut'
<1> SUFFICES ASSUME ShapeOK, NobodyIsOut, [Next]_vars PROVE NobodyIsOut'
  OBVIOUS
<1>1. CASE Frame \/ Begin
  BY <1>1 DEF Frame, Begin, NobodyIsOut
<1>2. ASSUME NEW d \in Tabs, OnMatchmake(d) PROVE NobodyIsOut'
  BY <1>2 DEF OnMatchmake, game, NobodyIsOut
<1>3. ASSUME NEW d \in Tabs, OnImLeft(d) PROVE NobodyIsOut'
  BY <1>3 DEF OnImLeft, Walkover, NobodyIsOut
<1>4. ASSUME UNCHANGED <<status, inMatch>> PROVE NobodyIsOut'
  BY <1>4 DEF NobodyIsOut
<1>5. ASSUME NEW d \in Tabs, OnKey(d) PROVE NobodyIsOut'
  BY <1>4, <1>5 DEF OnKey, game
<1>6. ASSUME UNCHANGED server PROVE NobodyIsOut'
  BY <1>4, <1>6 DEF server, game
<1>7. CASE UNCHANGED vars
  BY <1>6, <1>7 DEF vars
<1>8. ASSUME NEW d \in Tabs,
             \/ Search(d) \/ Mount(d) \/ Leave(d) \/ Dialog(d) \/ Profile(d)
             \/ \E key \in Keys : KeyDown(d, key) \/ KeyUp(d, key)
      PROVE  NobodyIsOut'
  BY <1>6, <1>8 DEF Search, Mount, Leave, Dialog, Profile, KeyDown, KeyUp, KeyUpAfter, Press
<1>9. ASSUME NEW d \in Tabs, NEW event, Receive(d, event) PROVE NobodyIsOut'
  BY <1>6, <1>9 DEF Receive
<1>10. ASSUME NEW d \in Tabs,
              \/ AfterFound(d) \/ AfterOpponentLeft(d) \/ AfterStart(d) \/ AfterGoal(d) \/ AfterEnd(d)
              \/ \E e : Deaf(d, e) \/ Unheard(d, e)
       PROVE  NobodyIsOut'
  BY <1>9, <1>10 DEF AfterFound, AfterOpponentLeft, AfterStart, AfterGoal, AfterEnd, Deaf, Unheard
<1> QED BY <1>1, <1>2, <1>3, <1>5, <1>7, <1>8, <1>10 DEF Next

LEMMA HandsStep == HandsInv /\ [Next]_vars => HandsInv'
<1> SUFFICES ASSUME HandsInv, [Next]_vars, NEW d \in Tabs PROVE HandOK(d)'
  BY OnlineStep, NobodyGoesOut DEF HandsInv, OnlineInv
<1>1. CASE UNCHANGED vars
  BY <1>1, HandKept DEF HandsInv, vars, server, game, screen, trip, rival, result, hands, HandVars, Played, Following
<1>2. CASE Frame \/ Begin
  BY <1>2, MatchHands
<1>3. ASSUME NEW e \in Tabs, OnMatchmake(e) \/ OnImLeft(e) \/ OnKey(e) PROVE HandOK(d)'
  BY <1>3, RequestHands, TakenHands
<1> QED BY <1>1, <1>2, <1>3, PageHands DEF Next

LEMMA HandsInit == Init => HandsInv
<1> SUFFICES ASSUME Init, NEW d \in Tabs PROVE HandOK(d)
  BY OnlineInit DEF HandsInv, NobodyIsOut, Init
<1>1. /\ page[d] = "home" /\ held[d] = {} /\ lastPress[d] = "none" /\ outbox[d] = <<>>
  BY DEF Init
<1> QED BY <1>1 DEF HandOK

LEMMA HandsInvariance == Spec => []HandsInv
  BY HandsInit, HandsStep, PTL DEF Spec

(* While one player presses keys, a key that is held moves a paddle as soon as the server
   has heard all packets of its tab. *)
THEOREM HeldKeysMove == Spec => []HeldKeysArrive
<1>1. HandsInv => HeldKeysArrive
  <2> SUFFICES ASSUME HandsInv, NEW d \in Tabs, page[d] = "online", follows[d] = made,
                      outbox[d] = <<>>, status = "playing", Typists \subseteq {d},
                      NEW key \in held[d]
               PROVE  \E e \in Tabs : key \in pressed[e]
    BY DEF HeldKeysArrive
  <2>0. follows[d] # 0
    BY DEF HandsInv, OnlineInv, TabOK, PageOK
  <2>1. Arrives(<<>>, key, Moves(key))
    BY <2>0 DEF HandsInv, HandOK, Played, Following
  <2>2. \A i \in 1..Len(<<>>) : FALSE
    OBVIOUS
  <2> QED BY <2>1, <2>2, Zenon DEF Arrives, Moves
<1> QED BY <1>1, HandsInvariance, PTL
=============================================================================
