---------------------------- MODULE Philosophers ----------------------------
(***************************************************************************)
(* The dining philosophers of 0x08-Philosophers: N philosopher threads     *)
(* running find_your_self, and the main thread, which runs check_if_died   *)
(* and is called the monitor here.                                         *)
(*                                                                         *)
(* One action is one critical step: a pthread_mutex_lock with the code up  *)
(* to the next lock, sleep or return.  Time is the number of Ticks, counted*)
(* per philosopher since its last meal (now - count_die, saturated at      *)
(* time_to_die) and down to the end of its my_usleep.  Nothing relates     *)
(* Ticks to steps: a thread may be descheduled for any length of time.     *)
(* PromptPhilosophers adds the assumption of a machine that keeps up.      *)
(***************************************************************************)
EXTENDS Integers

CONSTANTS
    N,              \* number_of_philosophers
    TimeToDie, TimeToEat, TimeToSleep,
    MealLimit       \* nbr_of_times_eat, NoLimit when not given

NoLimit == -1

ASSUME ArgumentsAssumption ==
    /\ N \in Nat \ {0}
    /\ TimeToDie \in Nat \ {0}
    /\ TimeToEat \in Nat \ {0}
    /\ TimeToSleep \in Nat \ {0}
    /\ MealLimit \in {NoLimit} \cup (Nat \ {0})

Philos == 1..N
Monitor == 0
Free == -1                          \* the owner of an unlocked mutex
Owners == {Free, Monitor} \cup Philos

RightFork(p) == p
LeftFork(p) == IF p = N THEN 1 ELSE p + 1

VARIABLES
    at,             \* where each philosopher is in find_your_self
    saying,         \* where it is in put_mssg, when it is there
    fork, died, msg, checkdeath, times,     \* the mutexes: their owner
    die,            \* the shared flag *die: TRUE (1) until a death is seen
    since,          \* since[p]: now - count_die of p, at most TimeToDie
    meals,          \* nbr_of_times_eat of each philosopher
    rest,           \* what is left of its my_usleep
    mon,            \* where the monitor is
    i,              \* the philosopher the monitor looks at
    out             \* the last line on standard output

vars == <<at, saying, fork, died, msg, checkdeath, times, die, since, meals,
          rest, mon, i, out>>

locks == <<fork, died, msg, checkdeath, times>>

(***************************************************************************)
(* The calls of put_mssg are the points in Saying; After is where          *)
(* find_your_self goes on when put_mssg returns, Pause the my_usleep it    *)
(* starts there.                                                           *)
(***************************************************************************)
After ==
    [say_right |-> "left", say_left |-> "times", say_eat |-> "eating",
     say_think |-> "say_sleep", say_sleep |-> "sleeping"]

Saying == DOMAIN After

Text ==
    [say_right |-> "fork", say_left |-> "fork",
     say_eat |-> "eat", say_think |-> "think",
     say_sleep |-> "sleep"]

Pause(point) ==
    CASE point = "eating" -> TimeToEat
      [] point = "sleeping" -> TimeToSleep
      [] OTHER -> 0

Points == Saying \cup {"delay", "right", "left", "times", "meal", "eating",
                       "put_left", "sleeping", "done"}

NoLine == [id |-> 0, text |-> ""]
DeathLine == [id |-> 1, text |-> "die"]   \* philo->id, always philo[0]
Lines == {NoLine, DeathLine} \cup
         {[id |-> p, text |-> Text[point]] : p \in Philos, point \in Saying}

(* gives_info and the start of find_your_self: an odd thread begins with
   usleep(100). *)
StartingAt(point) ==
    /\ at = [p \in Philos |-> IF p % 2 = 1 THEN point ELSE "right"]
    /\ saying = [p \in Philos |-> "start"]
    /\ fork = [f \in Philos |-> Free]
    /\ died = Free /\ msg = Free /\ checkdeath = Free /\ times = Free
    /\ die = TRUE
    /\ since = [p \in Philos |-> 0]
    /\ meals = [p \in Philos |-> MealLimit]
    /\ rest = [p \in Philos |-> 0]
    /\ mon = "times"
    /\ i = 1
    /\ out = NoLine

InitNoDelay == StartingAt("right")     \* fault: no usleep(100)

Init == StartingAt("delay")

Running == mon # "exited"

----------------------------------------------------------------------------
(* The philosopher threads. *)

GoTo(p, point) ==
    /\ at' = [at EXCEPT ![p] = point]
    /\ rest' = [rest EXCEPT ![p] = Pause(point)]

EndDelay(p) ==
    /\ at[p] = "delay"
    /\ GoTo(p, "right")
    /\ UNCHANGED <<saying, locks, die, since, meals, mon, i, out>>

LockRight(p) ==
    /\ at[p] = "right"
    /\ fork[RightFork(p)] = Free
    /\ fork' = [fork EXCEPT ![RightFork(p)] = p]
    /\ GoTo(p, "say_right")
    /\ UNCHANGED <<saying, died, msg, checkdeath, times, die, since, meals,
                   mon, i, out>>

(* fault: pthread_mutex_trylock, its result ignored *)
TryLockLeft(p) ==
    /\ at[p] = "left"
    /\ fork' = [fork EXCEPT ![LeftFork(p)] = IF @ = Free THEN p ELSE @]
    /\ GoTo(p, "say_left")
    /\ UNCHANGED <<saying, died, msg, checkdeath, times, die, since, meals,
                   mon, i, out>>

LockLeft(p) ==
    /\ at[p] = "left"
    /\ fork[LeftFork(p)] = Free
    /\ fork' = [fork EXCEPT ![LeftFork(p)] = p]
    /\ GoTo(p, "say_left")
    /\ UNCHANGED <<saying, died, msg, checkdeath, times, die, since, meals,
                   mon, i, out>>

(* put_mssg: lock died; lock msg; then either return at once, keeping both
   mutexes, when *die is 0, or print and unlock died, then msg. *)
LockDied(p) ==
    /\ at[p] \in Saying
    /\ saying[p] = "start"
    /\ died = Free
    /\ died' = p
    /\ saying' = [saying EXCEPT ![p] = "died"]
    /\ UNCHANGED <<at, rest, fork, msg, checkdeath, times, die, since, meals,
                   mon, i, out>>

(* fault: printf without locking msg or looking at *die *)
PrintAtOnce(p) ==
    /\ at[p] \in Saying
    /\ saying[p] = "died"
    /\ out' = [id |-> p, text |-> Text[at[p]]]
    /\ saying' = [saying EXCEPT ![p] = "printed"]
    /\ UNCHANGED <<at, rest, fork, died, msg, checkdeath, times, die, since,
                   meals, mon, i>>

LockMsgAndPrint(p) ==
    /\ at[p] \in Saying
    /\ saying[p] = "died"
    /\ msg = Free
    /\ die
    /\ msg' = p
    /\ out' = [id |-> p, text |-> Text[at[p]]]
    /\ saying' = [saying EXCEPT ![p] = "printed"]
    /\ UNCHANGED <<at, rest, fork, died, checkdeath, times, die, since, meals,
                   mon, i>>

LockMsgAndReturn(p) ==
    /\ at[p] \in Saying
    /\ saying[p] = "died"
    /\ msg = Free
    /\ ~die
    /\ msg' = p
    /\ saying' = [saying EXCEPT ![p] = "start"]
    /\ GoTo(p, After[at[p]])
    /\ UNCHANGED <<fork, died, checkdeath, times, die, since, meals, mon, i,
                   out>>

UnlockDied(p) ==
    /\ at[p] \in Saying
    /\ saying[p] = "printed"
    /\ died' = Free
    /\ saying' = [saying EXCEPT ![p] = "unlock"]
    /\ UNCHANGED <<at, rest, fork, msg, checkdeath, times, die, since, meals,
                   mon, i, out>>

UnlockMsg(p) ==
    /\ at[p] \in Saying
    /\ saying[p] = "unlock"
    /\ msg' = Free
    /\ saying' = [saying EXCEPT ![p] = "start"]
    /\ GoTo(p, After[at[p]])
    /\ UNCHANGED <<fork, died, checkdeath, times, die, since, meals, mon, i,
                   out>>

(* The middle of eat: times is locked, then checkdeath, and both released
   after count_die and nbr_of_times_eat are written.  Without a limit the
   counter only has to stay negative. *)
LockTimes(p) ==
    /\ at[p] = "times"
    /\ times = Free
    /\ times' = p
    /\ GoTo(p, "meal")
    /\ UNCHANGED <<saying, fork, died, msg, checkdeath, die, since, meals,
                   mon, i, out>>

StartMeal(p) ==
    /\ at[p] = "meal"
    /\ checkdeath = Free
    /\ since' = [since EXCEPT ![p] = 0]
    /\ meals' = [meals EXCEPT ![p] = IF @ < 0 THEN @ ELSE @ - 1]
    /\ times' = Free
    /\ GoTo(p, "say_eat")
    /\ UNCHANGED <<saying, fork, died, msg, checkdeath, die, mon, i, out>>

(* put_fork: one unlock after the other. *)
PutRight(p) ==
    /\ at[p] = "eating"
    /\ rest[p] = 0
    /\ fork' = [fork EXCEPT ![RightFork(p)] = Free]
    /\ GoTo(p, "put_left")
    /\ UNCHANGED <<saying, died, msg, checkdeath, times, die, since, meals,
                   mon, i, out>>

PutLeft(p) ==
    /\ at[p] = "put_left"
    /\ fork' = [fork EXCEPT ![LeftFork(p)] = Free]
    /\ GoTo(p, "say_think")
    /\ UNCHANGED <<saying, died, msg, checkdeath, times, die, since, meals,
                   mon, i, out>>

(* The end of sleeep and of the loop: handel_6_arg has made as many turns as
   the counter went down, so it is over when the counter is 0. *)
WakeUp(p) ==
    /\ at[p] = "sleeping"
    /\ rest[p] = 0
    /\ GoTo(p, IF meals[p] = 0 THEN "done" ELSE "right")
    /\ UNCHANGED <<saying, locks, die, since, meals, mon, i, out>>

Philosopher(p) ==
    /\ Running
    /\ \/ EndDelay(p) \/ LockRight(p) \/ LockLeft(p)
       \/ LockDied(p) \/ LockMsgAndPrint(p) \/ LockMsgAndReturn(p)
       \/ UnlockDied(p) \/ UnlockMsg(p)
       \/ LockTimes(p) \/ StartMeal(p) \/ PutRight(p) \/ PutLeft(p) \/ WakeUp(p)

----------------------------------------------------------------------------
(* The monitor: check_times, then the test of philo[i], for every i in turn. *)

(* The loop of check_times never moves its pointer: it reads the counter of
   philo[0], whichever philosopher is being looked at. *)
CheckTimes ==
    /\ mon = "times"
    /\ times = Free
    /\ mon' = IF meals[1] = 0 THEN "finished" ELSE "check"
    /\ UNCHANGED <<at, saying, locks, die, since, meals, rest, i, out>>

Starved(p) == TimeToDie <= since[p]

CheckAlive ==
    /\ mon = "check"
    /\ checkdeath = Free
    /\ ~Starved(i)
    /\ i' = IF i = N THEN 1 ELSE i + 1
    /\ mon' = "times"
    /\ UNCHANGED <<at, saying, locks, die, since, meals, rest, out>>

(* fault: checkdeath is unlocked before the death is announced *)
CheckStarvedUnlocked ==
    /\ mon = "check"
    /\ checkdeath = Free
    /\ Starved(i)
    /\ mon' = "dying"
    /\ UNCHANGED <<at, saying, locks, die, since, meals, rest, i, out>>

CheckStarved ==
    /\ mon = "check"
    /\ checkdeath = Free
    /\ Starved(i)
    /\ checkdeath' = Monitor
    /\ mon' = "dying"
    /\ UNCHANGED <<at, saying, fork, died, msg, times, die, since, meals, rest,
                   i, out>>

SetDie ==
    /\ mon = "dying"
    /\ died = Free
    /\ die' = FALSE
    /\ mon' = "announce"
    /\ UNCHANGED <<at, saying, locks, since, meals, rest, i, out>>

Announce ==
    /\ mon = "announce"
    /\ msg = Free
    /\ msg' = Monitor
    /\ out' = DeathLine
    /\ mon' = "announced"
    /\ UNCHANGED <<at, saying, fork, died, checkdeath, times, die, since,
                   meals, rest, i>>

(* create_philos, gives_info, started_life and main return: the process ends,
   and every thread with it. *)
Exit ==
    /\ mon \in {"finished", "announced"}
    /\ mon' = "exited"
    /\ UNCHANGED <<at, saying, locks, die, since, meals, rest, i, out>>

MonitorStep ==
    CheckTimes \/ CheckAlive \/ CheckStarved \/ SetDie \/ Announce \/ Exit

----------------------------------------------------------------------------
Tick ==
    /\ Running
    /\ since' = [p \in Philos |-> IF Starved(p) THEN since[p] ELSE since[p] + 1]
    /\ rest' = [p \in Philos |-> IF rest[p] = 0 THEN 0 ELSE rest[p] - 1]
    /\ UNCHANGED <<at, saying, locks, die, meals, mon, i, out>>

Next ==
    \/ \E p \in Philos : Philosopher(p)
    \/ MonitorStep
    \/ Tick

Spec == Init /\ [][Next]_vars

(* The operating system runs every thread that can run, and time passes.
   Nothing more: a mutex is given to any of its waiters. *)
Fairness ==
    /\ \A p \in Philos : WF_vars(Philosopher(p))
    /\ WF_vars(MonitorStep)
    /\ WF_vars(Tick)

FairSpec == Spec /\ Fairness

----------------------------------------------------------------------------
(* Every variable stays in its range, and each mutex has one owner at most. *)
TypeOK ==
    /\ at \in [Philos -> Points]
    /\ saying \in [Philos -> {"start", "died", "printed", "unlock"}]
    /\ fork \in [Philos -> Owners]
    /\ died \in Owners /\ msg \in Owners /\ checkdeath \in Owners
    /\ times \in Owners
    /\ die \in BOOLEAN
    /\ since \in [Philos -> 0..TimeToDie]
    /\ meals \in [Philos -> {NoLimit} \cup 0..MealLimit]
    /\ rest \in [Philos -> Nat]
    /\ mon \in {"times", "check", "dying", "announce", "announced",
                "finished", "exited"}
    /\ i \in Philos
    /\ out \in Lines

AtTable == {"times", "meal", "say_eat", "eating"}   \* both forks in hand

(* Two neighbours never eat at the same time: between the second lock of
   take_fork and put_fork a philosopher shares no fork with another one. *)
NeighboursNeverEatTogether ==
    \A p, q \in Philos :
        p # q /\ q = LeftFork(p) => ~(at[p] \in AtTable /\ at[q] \in AtTable)

(* A death is not announced on a stale reading: from the test of philo[i] to
   the exit, philosopher i stays without a meal for time_to_die, because the
   monitor keeps checkdeath, which eat needs to write count_die. *)
VictimHasStarved ==
    mon \in {"dying", "announce", "announced"} => Starved(i)

(* The line of a death is the last one: put_mssg prints nothing once the
   monitor has printed, because check_if_died returns with msg locked. *)
DeathLineIsLast ==
    [][out = DeathLine => UNCHANGED out]_vars

----------------------------------------------------------------------------
(* What the README promises. *)

(* "set death flag -> print death -> exit": once a death is seen the process
   ends. *)
DeathEndsProcess == ~die ~> mon = "exited"

============================================================================
