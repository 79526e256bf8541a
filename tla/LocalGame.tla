------------------------------ MODULE LocalGame ------------------------------
(***************************************************************************)
(* The game of two players at one keyboard (front-end/src/app/(app)/game/  *)
(* local): its settings, the countdown, the frames, the clock, the verdict *)
(* and the dialog at the end, in one tab, whose game context (score, pause *)
(* and settings) outlives the page and is shared with the online game.     *)
(*                                                                         *)
(* React works in three steps: a callback sets state, the state is         *)
(* rendered, and the effects run with what was rendered.  Frames of        *)
(* gameLoop come in between.                                               *)
(***************************************************************************)
EXTENDS Integers, Sequences

CONSTANTS
    Width, Height,      \* TABLE_WIDTH and TABLE_HEIGHT, in a coarse unit
    Column,             \* 20, the width of a paddle, in that unit
    Spin,               \* 1 / 0.1, what the offset of a hit is divided by
    Default,            \* gameDefaults: speed, ball and paddle
    Speeds, BallSizes, PaddleSizes, \* bound: what the sliders offer
    Limits, Times,      \* bound: score limits, and seconds of a timed game
    CountFrom,          \* 3, where the countdown and the dialog start
    MaxScore,           \* bound: points of a player in a timed game
    MaxPages            \* bound: entries of the browser's history

ASSUME SizesAssumption ==
    /\ Width \in Nat /\ Height \in Nat /\ Spin \in Nat \ {0}
    /\ Column \in Nat \ {0}
    /\ CountFrom \in Nat \ {0} /\ MaxScore \in Nat /\ MaxPages \in Nat \ {0}
    /\ Default.speed \in Speeds /\ Default.ball \in BallSizes
    /\ Default.paddle \in PaddleSizes
    /\ Limits \subseteq Nat \ {0} /\ Limits # {}
    /\ Times \subseteq Nat \ {0} /\ Times # {}

\* A ball is not faster than a paddle is wide, and far from both when it is
\* served; a paddle is not faster than half its height, and turns the ball by
\* no more than its radius.
ASSUME TableAssumption ==
    /\ Speeds \subseteq 1..Column
    /\ \A b \in BallSizes : b \in Nat /\ 2 * b <= Height /\ 2 * (Column + b) < Width
    /\ \A p \in PaddleSizes : p \in Nat /\ p <= Height
    /\ \A s \in Speeds, b \in BallSizes : 2 * s + b <= Width \div 2
    /\ \A s \in Speeds, p \in PaddleSizes : (s * 3) \div 2 <= p \div 2 + 1
    /\ \A b \in BallSizes, p \in PaddleSizes : (b + p - p \div 2) \div Spin <= b

Ends == {1, 2}
Modes == {"classic", "timed"}
Draw == 3               \* Winner.NO_ONE; a side otherwise
Undecided == 0          \* Winner.NULL

VARIABLES
    history,            \* the browser's, whose last entry is the page
    opts,               \* of the context: mode, limit, time, speed, ball, paddle
    named,              \* the name of player 2 is long enough
    view,               \* state: score, paused (context), seconds, winner (page)
    rendered,           \* view as it was last rendered
    seen,               \* view as the effects last saw it
    late,               \* a frame has come between a change and its effects
    counter,            \* the seconds of the countdown, CountFrom when away
    ball,               \* ballRef: x, y, vx, vy
    paddle,             \* playerYRef and opponentYRef
    dialog,             \* the counter of WinDialog
    carried             \* history: the score the page was first rendered with

courtVars == <<ball, paddle>>
localVars == <<history, opts, named, view, rendered, seen, late, counter, courtVars,
          dialog, carried>>

page == history[Len(history)]
Settled == view = rendered /\ rendered = seen

Kickoff(speed) == [x |-> Width \div 2, y |-> Height \div 2, vx |-> speed, vy |-> 0]
Middle(size) == [k \in Ends |-> Height \div 2 - size \div 2]

(* The page of the game is not shown: nothing of it is left but the context. *)
Cleared == [score |-> [k \in Ends |-> 0], paused |-> TRUE,
            seconds |-> 0, winner |-> Undecided]

LocalInit ==
    /\ history = <<"home">>
    /\ opts = [mode |-> "classic", limit |-> CHOOSE l \in Limits : TRUE,
               time |-> CHOOSE t \in Times : TRUE, speed |-> Default.speed,
               ball |-> Default.ball, paddle |-> Default.paddle]
    /\ named = TRUE
    /\ view = Cleared /\ rendered = Cleared /\ seen = Cleared
    /\ late = FALSE
    /\ counter = CountFrom
    /\ ball = Kickoff(Default.speed)
    /\ paddle = Middle(Default.paddle)
    /\ dialog = CountFrom
    /\ carried = Cleared.score

----------------------------------------------------------------------------
(* Pages. *)

(* resetGame, the cleanup of the page, also sets score, pause and winner; the
   mode, limit and time of the settings stay.  The page of the online game
   clears the score and the names. *)
ResetOptions == [opts EXCEPT !.speed = Default.speed, !.ball = Default.ball,
                             !.paddle = Default.paddle]

ResetGameUnpaused == [Cleared EXCEPT !.paused = view.paused]    \* fault

ResetGame == Cleared

CleanUp ==
    CASE page = "local" ->
            [opts |-> ResetOptions, view |-> ResetGame, named |-> named]
      [] page = "online" ->
            [opts |-> opts, named |-> FALSE,
             view |-> [view EXCEPT !.score = Cleared.score]]
      [] OTHER -> [opts |-> opts, view |-> view, named |-> named]

(* What the effect of Header that watches the limit makes of v; the score is
   the one that was rendered. *)
Reached(score, k) == score[k] >= opts.limit

Limited(v, score) ==
    IF opts.mode = "timed" \/ \A k \in Ends : ~Reached(score, k) THEN v
    ELSE [v EXCEPT !.paused = TRUE,
                   !.winner = IF \A k \in Ends : score[k] = opts.limit THEN Draw
                              ELSE IF Reached(score, 2) THEN 2 ELSE 1]

(* Another page is shown: it is rendered with the context as it is, and then
   the cleanup of the old page and the first effects of the new one run.  What
   the cleanup sets is seen at the next rendering, which matters on this page
   only. *)
Show(pages) ==
    LET left == CleanUp
        first == [view EXCEPT !.seconds = opts.time]
    IN
    /\ history' = pages
    /\ opts' = left.opts
    /\ named' = left.named
    /\ IF pages[Len(pages)] = "local"
       THEN /\ rendered' = first /\ seen' = first
            /\ view' = Limited([left.view EXCEPT !.seconds = opts.time], first.score)
            /\ carried' = first.score
       ELSE /\ view' = left.view /\ rendered' = left.view /\ seen' = left.view
            /\ carried' = Cleared.score
    /\ late' = FALSE
    /\ counter' = CountFrom
    /\ ball' = Kickoff(opts.speed)
    /\ paddle' = Middle(opts.paddle)
    /\ dialog' = CountFrom

Push(p) == Len(history) < MaxPages /\ Show(Append(history, p))

Below == IF Len(history) = 1 THEN <<"home">> ELSE SubSeq(history, 1, Len(history) - 1)

(* router.back, from a button, the browser or WinDialog. *)
Back == Show(Below)

OpenCreate == page = "home" /\ Push("create")

(* The button is disabled while the name of player 2 is shorter than 4. *)
Play == page = "create" /\ named /\ Push("local")

(* "matchmake::pvp" or "tournament::start" takes the tab to the online game,
   wherever it is. *)
GoOnline == page # "online" /\ Push("online")

(* "gameplay::onGoal" writes the score of the online game to the context. *)
OnGoal ==
    /\ page = "online"
    /\ \E k \in Ends :
          /\ view.score[k] < MaxScore
          /\ view' = [view EXCEPT !.score[k] = @ + 1]
    /\ rendered' = view' /\ seen' = view'
    /\ UNCHANGED <<history, opts, named, late, counter, courtVars, dialog,
                   carried>>

(* GameModeSettings: the limit is disabled in a timed game, and the time in a
   classic one. *)
ChooseMode ==
    \/ \E m \in Modes : opts' = [opts EXCEPT !.mode = m]
    \/ /\ opts.mode = "classic"
       /\ \E l \in Limits : opts' = [opts EXCEPT !.limit = l]
    \/ /\ opts.mode = "timed"
       /\ \E t \in Times : opts' = [opts EXCEPT !.time = t]

ChooseBall ==
    \/ \E s \in Speeds : opts' = [opts EXCEPT !.speed = s]
    \/ \E b \in BallSizes : opts' = [opts EXCEPT !.ball = b]
    \/ \E p \in PaddleSizes : opts' = [opts EXCEPT !.paddle = p]

Choose ==
    /\ page = "create"
    /\ ChooseMode \/ ChooseBall
    /\ UNCHANGED <<history, named, view, rendered, seen, late, counter, courtVars,
                   dialog, carried>>

NamePlayer ==
    /\ page = "create"
    /\ named' = ~named
    /\ UNCHANGED <<history, opts, view, rendered, seen, late, counter, courtVars,
                   dialog, carried>>

----------------------------------------------------------------------------
(* A frame: gameLoop goes on as long as its effect saw neither a pause nor a
   winner. *)

(* The paddles: both keys may be held, and a paddle stops one step behind the
   edge at most. *)
Moved(y, up, down, o) ==
    LET step == (o.speed * 3) \div 2
        risen == IF up /\ y > 0 THEN y - step ELSE y
    IN IF down /\ risen + o.paddle < Height THEN risen + step ELSE risen

Magnitude(n) == IF n < 0 THEN -n ELSE n

Twist(offset) ==
    IF offset < 0 THEN -((-offset) \div Spin) ELSE offset \div Spin

Meets(b, y, o) == b.y + o.ball >= y /\ b.y - o.ball <= y + o.paddle

Slice(b, y, o) == Twist(b.y - (y + o.paddle \div 2))

HitLeft(b, y, o) ==
    IF b.x - o.ball <= Column /\ Meets(b, y, o)
    THEN [b EXCEPT !.vx = Magnitude(@), !.vy = Slice(b, y, o), !.x = Column + o.ball]
    ELSE b

HitRight(b, y, o) ==
    IF b.x + o.ball >= Width - Column /\ Meets(b, y, o)
    THEN [b EXCEPT !.vx = -Magnitude(@), !.vy = Slice(b, y, o),
                   !.x = Width - Column - o.ball]
    ELSE b

BounceAtTop(b, o) ==    \* fault: one wall is forgotten
    IF b.y - o.ball <= 0 THEN [b EXCEPT !.vy = -@] ELSE b

Bounce(b, o) ==
    IF b.y - o.ball <= 0 \/ b.y + o.ball >= Height
    THEN [b EXCEPT !.vy = -@] ELSE b

(* The ball is behind side 1 or 2; 0 otherwise. *)
Missed(b, o) ==
    CASE b.x - o.ball < 0 -> 1
      [] b.x + o.ball > Width -> 2
      [] OTHER -> 0

(* The ball is served from the height of the paddle that missed, away from it. *)
Served(b, side, ps, o) ==
    IF side = 0 THEN b
    ELSE [x |-> Width \div 2, y |-> ps[side] + o.paddle \div 2, vy |-> 0,
          vx |-> IF side = 1 THEN o.speed ELSE -o.speed]

MoveTwice(b) == [b EXCEPT !.x = @ + 2 * b.vx, !.y = @ + b.vy]   \* fault

Move(b) == [b EXCEPT !.x = @ + b.vx, !.y = @ + b.vy]

Flown(ps) ==
    Bounce(HitRight(HitLeft(Move(ball), ps[1], opts), ps[2], opts), opts)

Frame ==
    /\ page = "local"
    /\ ~seen.paused /\ seen.winner = Undecided
    /\ ~late
    /\ \E up, down \in [Ends -> BOOLEAN] :
          paddle' = [k \in Ends |-> Moved(paddle[k], up[k], down[k], opts)]
    /\ LET flown == Flown(paddle')
           side == Missed(flown, opts)
       IN
       /\ ball' = Served(flown, side, paddle', opts)
       /\ IF side = 0 THEN UNCHANGED view
          ELSE /\ view.score[3 - side] < MaxScore
               /\ view' = [view EXCEPT !.score[3 - side] = @ + 1]
    /\ late' = ~Settled
    /\ UNCHANGED <<history, opts, named, rendered, seen, counter, dialog,
                   carried>>

----------------------------------------------------------------------------
(* Rendering, and the effects of Header. *)
Render ==
    /\ rendered = seen /\ view # rendered
    /\ rendered' = view
    /\ UNCHANGED <<history, opts, named, view, seen, late, counter, courtVars,
                   dialog, carried>>

Ahead(score) ==
    CASE score[1] = score[2] -> Draw
      [] score[1] > score[2] -> 1
      [] score[1] < score[2] -> 2

(* Time is up: run when a score or the seconds have changed. *)
TimeUpOnce(v) ==        \* fault: the scores are not among what it depends on
    IF rendered.seconds > 0 \/ rendered.seconds = seen.seconds THEN v
    ELSE [v EXCEPT !.winner = Ahead(rendered.score)]

TimeUp(v) ==
    IF \/ rendered.seconds > 0
       \/ rendered.seconds = seen.seconds /\ rendered.score = seen.score
    THEN v
    ELSE [v EXCEPT !.winner = Ahead(rendered.score)]

(* The limit: run when a score has changed. *)
ScoreLimit(v) == IF rendered.score = seen.score THEN v ELSE Limited(v, rendered.score)

Effects ==
    /\ page = "local"
    /\ rendered # seen
    /\ view' = ScoreLimit(TimeUp(view))
    /\ seen' = rendered
    /\ late' = FALSE
    /\ UNCHANGED <<history, opts, named, rendered, counter, courtVars, dialog,
                   carried>>

----------------------------------------------------------------------------
(* Intervals of a second: rendering and effects are done by then. *)

Countdown ==
    /\ page = "local" /\ Settled
    /\ counter > 0
    /\ counter' = counter - 1
    /\ view' = [view EXCEPT !.paused = @ /\ counter > 1]
    /\ UNCHANGED <<history, opts, named, rendered, seen, late, courtVars, dialog,
                   carried>>

timerSetter ==
    /\ page = "local" /\ Settled
    /\ ~seen.paused /\ opts.mode = "timed"
    /\ view' = [view EXCEPT !.seconds = @ - 1,
                            !.paused = @ \/ view.seconds <= 1]
    /\ UNCHANGED <<history, opts, named, rendered, seen, late, counter, courtVars,
                   dialog, carried>>

(* fault: the effect runs when the page is shown, paused as it is, and never
   again *)
SecondOnMount == counter = CountFrom /\ timerSetter

Second == timerSetter

(* WinDialog counts down and goes back. *)
Dialog ==
    /\ page = "local" /\ Settled
    /\ view.winner # Undecided
    /\ IF dialog > 1
       THEN /\ dialog' = dialog - 1
            /\ UNCHANGED <<history, opts, named, view, rendered, seen, late,
                           counter, courtVars, carried>>
       ELSE Back

Leave == page # "home" /\ Back

LocalNext ==
    \/ OpenCreate \/ Play \/ GoOnline \/ OnGoal \/ Choose \/ NamePlayer \/ Leave
    \/ Frame \/ Render \/ Effects
    \/ Countdown \/ Second \/ Dialog

(* The timers of the page and React run. *)
Fairness ==
    /\ WF_localVars(Render) /\ WF_localVars(Effects)
    /\ WF_localVars(Countdown) /\ WF_localVars(Second) /\ WF_localVars(Dialog)

LocalSpec == LocalInit /\ [][LocalNext]_localVars /\ Fairness

----------------------------------------------------------------------------
(* The ball does not leave the table above or below, wherever the paddles push
   it. *)
BallOnTable == ball.y \in 0..Height

(* Every variable stays in its range. *)
Views == [score : [Ends -> 0..MaxScore], paused : BOOLEAN,
          seconds : Int, winner : {Undecided, Draw} \cup Ends]

LocalTypeOK ==
    /\ history \in Seq({"home", "create", "local", "online"})
    /\ Len(history) \in 1..MaxPages
    /\ opts \in [mode : Modes, limit : Limits, time : Times, speed : Speeds,
                 ball : BallSizes, paddle : PaddleSizes]
    /\ {view, rendered, seen} \subseteq Views
    /\ counter \in 0..CountFrom /\ dialog \in 1..CountFrom
    /\ BallOnTable
    /\ named \in BOOLEAN /\ late \in BOOLEAN
    /\ carried \in [Ends -> 0..MaxScore]
    /\ paddle \in [Ends -> Int]

(* The page came back from an online game whose score had reached its limit:
   its first effects give a verdict, and no game is played. *)
Inherits == opts.mode = "classic" /\ \E k \in Ends : carried[k] >= opts.limit

(* The winner that the dialog names has more points, and whoever won a classic
   game reached the limit, also when a goal falls between the end of the game
   and its verdict. *)
VerdictMatchesScore ==
    page = "local" /\ Settled /\ view.winner # Undecided /\ ~Inherits =>
        /\ view.winner = Ahead(view.score)
        /\ opts.mode = "classic" =>
              view.winner \in Ends /\ view.score[view.winner] = opts.limit

(* Until the countdown is over a game is paused, nobody is to have points and
   nobody has won, whatever was played before, here or online, unless the page
   took over a score that had reached its limit (online/page.tsx:106-112,
   local/page.tsx:106-121). *)
FreshStart ==
    page = "local" /\ counter > 0 =>
        /\ view.paused /\ view.score = Cleared.score
        /\ Inherits \/ view.winner = Undecided

(* A goal is a miss: one frame before, the ball was beside the paddle that
   could have hit it.  It is never too fast for that. *)
Beside(b, side) ==
    IF side = 1 THEN b.x - opts.ball <= Column
    ELSE b.x + opts.ball >= Width - Column

GoalWasReachable ==
    [][\A k \in Ends :
          page = "local" /\ view'.score[k] > view.score[k] =>
              Beside(ball, 3 - k)]_localVars

(* A timed game comes to its end. *)
TimedGameEnds == page = "local" /\ opts.mode = "timed" ~> page # "local"

==============================================================================
