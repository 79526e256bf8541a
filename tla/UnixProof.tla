------------------------------ MODULE UnixProof ------------------------------
(***************************************************************************)
(* Theorems about the two Unix programs: Philosophers, for every number of *)
(* philosophers and every choice of the times, and Irc, for any            *)
(* descriptors, names and channels.  The two share nothing but this file.  *)
(*                                                                         *)
(* IInv is the inductive invariant of Philosophers.  What a philosopher or *)
(* the monitor may do follows from the mutexes it holds, so IInv says for  *)
(* each point which ones those are.  put_mssg breaks the pattern on its    *)
(* early return, which keeps died and msg: IInv claims msg for a           *)
(* philosopher only while it stands between its print and its unlock.      *)
(*                                                                         *)
(* IrcInv adds to the invariants of Irc who may have a nickname (Named):   *)
(* all handlers that look for a client by nickname then find one with the  *)
(* password.                                                               *)
(***************************************************************************)
EXTENDS Philosophers, Irc, FiniteSetTheorems, TLAPS

----------------------------------------------------------------------------
(* The philosophers. *)

HoldsRight == {"say_right", "left", "say_left"} \cup AtTable
HoldsLeft == {"say_left", "put_left"} \cup AtTable

ForksHeldBy(p) ==
    /\ at[p] \in HoldsRight => fork[RightFork(p)] = p
    /\ at[p] \in HoldsLeft => fork[LeftFork(p)] = p /\ LeftFork(p) # RightFork(p)

ForksHeld == \A p \in Philos : ForksHeldBy(p)

Printing(p) == saying[p] \in {"printed", "unlock"}

MsgHeld ==
    /\ \A p \in Philos : Printing(p) => msg = p
    /\ mon = "announced" => msg = Monitor
    /\ out = DeathLine => mon \in {"announced", "exited"}

CheckdeathHeld ==
    mon \in {"dying", "announce", "announced"} =>
        checkdeath = Monitor /\ Starved(i)

IInv == TypeOK /\ ForksHeld /\ MsgHeld /\ CheckdeathHeld

----------------------------------------------------------------------------
(* The two forks of a philosopher are forks of the table; a neighbour's
   right fork is the philosopher's left one. *)
LEMMA ForksOfTheTable ==
    \A p \in Philos : RightFork(p) \in Philos /\ LeftFork(p) \in Philos
BY ArgumentsAssumption DEF Philos, RightFork, LeftFork

LEMMA InitHolds == Init => IInv
<1> SUFFICES ASSUME Init PROVE IInv
  OBVIOUS
<1> USE DEF StartingAt
<1>1. TypeOK
  <2> USE ArgumentsAssumption DEF Init
  <2>1. at \in [Philos -> Points]
    BY DEF Points
  <2>2. meals \in [Philos -> {NoLimit} \cup 0..MealLimit]
    BY DEF NoLimit
  <2>3. /\ fork \in [Philos -> Owners]
        /\ died \in Owners /\ msg \in Owners /\ checkdeath \in Owners
        /\ times \in Owners
    BY DEF Owners
  <2>4. since \in [Philos -> 0..TimeToDie] /\ rest \in [Philos -> Nat]
    OBVIOUS
  <2>5. i \in Philos /\ out \in Lines
    BY DEF Philos, Lines
  <2> QED
    BY <2>1, <2>2, <2>3, <2>4, <2>5 DEF TypeOK
<1>2. ForksHeld
  BY DEF Init, ForksHeld, ForksHeldBy, HoldsRight, HoldsLeft, AtTable
<1>3. MsgHeld
  BY DEF Init, MsgHeld, Printing, NoLine, DeathLine
<1>4. CheckdeathHeld
  BY DEF Init, CheckdeathHeld
<1> QED
  BY <1>1, <1>2, <1>3, <1>4 DEF IInv

LEMMA TypeStep == TypeOK /\ [Next]_vars => TypeOK'
<1> SUFFICES ASSUME TypeOK, [Next]_vars PROVE TypeOK'
  OBVIOUS
<1> USE ForksOfTheTable, ArgumentsAssumption DEF TypeOK, locks
<1>1. ASSUME NEW p \in Philos, NEW point \in Points, GoTo(p, point)
      PROVE at' \in [Philos -> Points] /\ rest' \in [Philos -> Nat]
  BY <1>1 DEF GoTo, Pause
<1>2. ASSUME NEW p \in Philos, at[p] \in Saying
      PROVE After[at[p]] \in Points
  BY <1>2 DEF After, Saying, Points
<1>3. Philos \subseteq Owners /\ Free \in Owners /\ Monitor \in Owners
  BY DEF Owners
<1>4. ASSUME NEW p \in Philos, EndDelay(p) PROVE TypeOK'
  BY <1>4, <1>1 DEF EndDelay, Points
<1>5. ASSUME NEW p \in Philos, LockRight(p) PROVE TypeOK'
  BY <1>5, <1>1, <1>3 DEF LockRight, Points, Saying, After
<1>6. ASSUME NEW p \in Philos, LockLeft(p) PROVE TypeOK'
  BY <1>6, <1>1, <1>3 DEF LockLeft, Points, Saying, After
<1>7. ASSUME NEW p \in Philos, LockDied(p) PROVE TypeOK'
  BY <1>7, <1>3 DEF LockDied
<1>8. ASSUME NEW p \in Philos, LockMsgAndPrint(p) PROVE TypeOK'
  <2>1. out' \in Lines
    BY <1>8 DEF LockMsgAndPrint, Lines
  <2> QED BY <1>8, <1>3, <2>1 DEF LockMsgAndPrint
<1>9. ASSUME NEW p \in Philos, LockMsgAndReturn(p) PROVE TypeOK'
  BY <1>9, <1>1, <1>2, <1>3 DEF LockMsgAndReturn
<1>10. ASSUME NEW p \in Philos, UnlockDied(p) PROVE TypeOK'
  BY <1>10, <1>3 DEF UnlockDied
<1>11. ASSUME NEW p \in Philos, UnlockMsg(p) PROVE TypeOK'
  BY <1>11, <1>1, <1>2, <1>3 DEF UnlockMsg
<1>12. ASSUME NEW p \in Philos, LockTimes(p) PROVE TypeOK'
  BY <1>12, <1>1, <1>3 DEF LockTimes, Points
<1>13. ASSUME NEW p \in Philos, StartMeal(p) PROVE TypeOK'
  <2>1. meals' \in [Philos -> {NoLimit} \cup 0..MealLimit]
    BY <1>13 DEF StartMeal, NoLimit
  <2>2. since' \in [Philos -> 0..TimeToDie]
    BY <1>13 DEF StartMeal
  <2>3. at' \in [Philos -> Points] /\ rest' \in [Philos -> Nat]
    BY <1>13, <1>1 DEF StartMeal, Points, Saying, After
  <2> QED BY <1>13, <1>3, <2>1, <2>2, <2>3 DEF StartMeal
<1>14. ASSUME NEW p \in Philos, PutRight(p) \/ PutLeft(p) PROVE TypeOK'
  BY <1>14, <1>1, <1>3 DEF PutRight, PutLeft, Points, Saying, After
<1>15. ASSUME NEW p \in Philos, WakeUp(p) PROVE TypeOK'
  BY <1>15, <1>1 DEF WakeUp, Points
<1>16. CASE MonitorStep
  <2>1. CASE CheckTimes BY <2>1 DEF CheckTimes
  <2>2. CASE CheckAlive
    <3>1. i' \in Philos
      BY <2>2 DEF CheckAlive, Philos
    <3> QED BY <2>2, <3>1 DEF CheckAlive
  <2>3. CASE CheckStarved BY <2>3, <1>3 DEF CheckStarved
  <2>4. CASE SetDie BY <2>4 DEF SetDie
  <2>5. CASE Announce BY <2>5, <1>3 DEF Announce, Lines
  <2>6. CASE Exit BY <2>6 DEF Exit
  <2> QED BY <1>16, <2>1, <2>2, <2>3, <2>4, <2>5, <2>6 DEF MonitorStep
<1>17. CASE Tick
  BY <1>17 DEF Tick, Starved
<1>18. CASE UNCHANGED vars
  BY <1>18 DEF vars
<1> QED
  BY <1>4, <1>5, <1>6, <1>7, <1>8, <1>9, <1>10, <1>11, <1>12, <1>13, <1>14,
     <1>15, <1>16, <1>17, <1>18 DEF Next, Philosopher

----------------------------------------------------------------------------
(* A philosopher that goes on keeps the forks the new point needs, when no
   fork changes hands. *)
LEMMA ForksKept ==
    ASSUME TypeOK, ForksHeld, NEW p \in Philos, NEW point,
           GoTo(p, point), fork' = fork,
           point \in HoldsRight => at[p] \in HoldsRight,
           point \in HoldsLeft => at[p] \in HoldsLeft
    PROVE  ForksHeld'
<1> SUFFICES ASSUME NEW q \in Philos PROVE ForksHeldBy(q)'
  BY DEF ForksHeld
<1>1. CASE q = p
  BY <1>1 DEF GoTo, ForksHeld, ForksHeldBy, TypeOK
<1>2. CASE q # p
  BY <1>2 DEF GoTo, ForksHeld, ForksHeldBy, TypeOK
<1> QED BY <1>1, <1>2

LEMMA ForksStep == TypeOK /\ ForksHeld /\ [Next]_vars => ForksHeld'
<1> SUFFICES ASSUME TypeOK, ForksHeld, [Next]_vars PROVE ForksHeld'
  OBVIOUS
<1> USE ForksOfTheTable
<1>1. ASSUME NEW p \in Philos,
             LockMsgAndReturn(p) \/ UnlockMsg(p)
      PROVE  ForksHeld'
  <2>1. GoTo(p, After[at[p]]) /\ fork' = fork /\ at[p] \in Saying
    BY <1>1 DEF LockMsgAndReturn, UnlockMsg
  <2>2. /\ After[at[p]] \in HoldsRight => at[p] \in HoldsRight
        /\ After[at[p]] \in HoldsLeft => at[p] \in HoldsLeft
    BY <2>1 DEF After, Saying, HoldsRight, HoldsLeft, AtTable
  <2> QED BY <2>1, <2>2, ForksKept
<1>2. ASSUME NEW p \in Philos,
             EndDelay(p) \/ LockTimes(p) \/ StartMeal(p) \/ WakeUp(p)
      PROVE  ForksHeld'
  <2>1. CASE EndDelay(p)
    BY <2>1, ForksKept DEF EndDelay, locks, HoldsRight, HoldsLeft, AtTable
  <2>2. CASE LockTimes(p)
    BY <2>2, ForksKept DEF LockTimes, HoldsRight, HoldsLeft, AtTable
  <2>3. CASE StartMeal(p)
    BY <2>3, ForksKept DEF StartMeal, HoldsRight, HoldsLeft, AtTable
  <2>4. CASE WakeUp(p)
    BY <2>4, ForksKept DEF WakeUp, locks, HoldsRight, HoldsLeft, AtTable
  <2> QED BY <1>2, <2>1, <2>2, <2>3, <2>4
<1>3. ASSUME NEW p \in Philos, LockRight(p) PROVE ForksHeld'
  <2> SUFFICES ASSUME NEW q \in Philos PROVE ForksHeldBy(q)'
    BY DEF ForksHeld
  <2>1. fork' = [fork EXCEPT ![p] = p] /\ fork[p] = Free /\ Free # q
    BY <1>3 DEF LockRight, RightFork, Free, Philos
  <2>2. CASE q = p
    BY <1>3, <2>1, <2>2 DEF LockRight, GoTo, TypeOK, ForksHeldBy,
       HoldsRight, HoldsLeft, AtTable, RightFork
  <2>3. CASE q # p
    BY <1>3, <2>1, <2>3 DEF LockRight, GoTo, TypeOK, ForksHeld, ForksHeldBy
  <2> QED BY <2>2, <2>3
<1>4. ASSUME NEW p \in Philos, LockLeft(p) PROVE ForksHeld'
  <2> SUFFICES ASSUME NEW q \in Philos PROVE ForksHeldBy(q)'
    BY DEF ForksHeld
  <2>1. /\ fork' = [fork EXCEPT ![LeftFork(p)] = p]
        /\ fork[LeftFork(p)] = Free /\ Free # q
    BY <1>4 DEF LockLeft, Free, Philos
  <2>2. CASE q = p
    BY <1>4, <2>1, <2>2 DEF LockLeft, GoTo, TypeOK, ForksHeld, ForksHeldBy,
       HoldsRight, HoldsLeft, AtTable
  <2>3. CASE q # p
    BY <1>4, <2>1, <2>3 DEF LockLeft, GoTo, TypeOK, ForksHeld, ForksHeldBy
  <2> QED BY <2>2, <2>3
<1>5. ASSUME NEW p \in Philos, PutRight(p) \/ PutLeft(p) PROVE ForksHeld'
  <2> SUFFICES ASSUME NEW q \in Philos PROVE ForksHeldBy(q)'
    BY DEF ForksHeld
  <2>1. PICK f \in {RightFork(p), LeftFork(p)} :
            /\ fork' = [fork EXCEPT ![f] = Free] /\ fork[f] = p
            /\ f = LeftFork(p) \/ at'[p] = "put_left"
            /\ at' = [at EXCEPT ![p] = at'[p]] /\ at'[p] \in {"put_left", "say_think"}
            /\ at'[p] = "put_left" => f = RightFork(p)
    <3>1. CASE PutRight(p)
      BY <3>1 DEF PutRight, GoTo, TypeOK, ForksHeld, ForksHeldBy, HoldsRight, HoldsLeft, AtTable
    <3>2. CASE PutLeft(p)
      BY <3>2 DEF PutLeft, GoTo, TypeOK, ForksHeld, ForksHeldBy, HoldsRight, HoldsLeft, AtTable
    <3> QED BY <1>5, <3>1, <3>2
  <2>2. CASE q = p
    <3>1. CASE PutRight(p)
      <4>1. fork[LeftFork(p)] = p /\ LeftFork(p) # RightFork(p)
        BY <3>1 DEF PutRight, ForksHeld, ForksHeldBy, HoldsLeft, AtTable
      <4> QED BY <2>2, <3>1, <4>1 DEF PutRight, GoTo, TypeOK, ForksHeldBy, HoldsRight, HoldsLeft,
                 AtTable
    <3>2. CASE PutLeft(p)
      BY <2>2, <3>2 DEF PutLeft, GoTo, TypeOK, ForksHeldBy, HoldsRight, HoldsLeft, AtTable
    <3> QED BY <1>5, <3>1, <3>2
  <2>3. CASE q # p
    <3>1. at'[q] = at[q]
      BY <2>1, <2>3 DEF TypeOK
    <3>2. ASSUME NEW g \in Philos, fork[g] = q PROVE fork'[g] = q
      BY <2>1, <2>3, <3>2 DEF TypeOK
    <3> QED BY <3>1, <3>2 DEF ForksHeld, ForksHeldBy
  <2> QED BY <2>2, <2>3
<1>6. ASSUME UNCHANGED <<at, fork>> PROVE ForksHeld'
  BY <1>6 DEF ForksHeld, ForksHeldBy
<1>7. ASSUME NEW p \in Philos,
             LockDied(p) \/ LockMsgAndPrint(p) \/ UnlockDied(p)
      PROVE  ForksHeld'
  BY <1>7, <1>6 DEF LockDied, LockMsgAndPrint, UnlockDied
<1>8. CASE MonitorStep \/ Tick \/ UNCHANGED vars
  BY <1>8, <1>6 DEF MonitorStep, CheckTimes, CheckAlive, CheckStarved, SetDie,
     Announce, Exit, Tick, locks, vars
<1> QED
  BY <1>1, <1>2, <1>3, <1>4, <1>5, <1>7, <1>8 DEF Next, Philosopher

----------------------------------------------------------------------------
LEMMA MsgStep == TypeOK /\ MsgHeld /\ [Next]_vars => MsgHeld'
<1> SUFFICES ASSUME TypeOK, MsgHeld, [Next]_vars PROVE MsgHeld'
  OBVIOUS
<1> USE DEF TypeOK
<1>1. ASSUME UNCHANGED <<saying, msg, mon, out>> PROVE MsgHeld'
  BY <1>1 DEF MsgHeld, Printing
<1>2. ASSUME NEW p \in Philos,
             EndDelay(p) \/ LockRight(p) \/ LockLeft(p) \/ LockTimes(p)
             \/ StartMeal(p) \/ PutRight(p) \/ PutLeft(p) \/ WakeUp(p)
      PROVE  MsgHeld'
  BY <1>1, <1>2 DEF EndDelay, LockRight, LockLeft, LockTimes, StartMeal,
     PutRight, PutLeft, WakeUp, locks
<1>3. ASSUME NEW p \in Philos, LockDied(p) \/ UnlockDied(p)
      PROVE  MsgHeld'
  BY <1>3 DEF LockDied, UnlockDied, MsgHeld, Printing
<1>4. ASSUME NEW p \in Philos, LockMsgAndPrint(p) PROVE MsgHeld'
  <2>1. mon # "announced" /\ \A q \in Philos : ~Printing(q)
    BY <1>4 DEF LockMsgAndPrint, MsgHeld, Monitor, Free, Philos
  <2>2. out' # DeathLine
    <3>1. ASSUME NEW point \in Saying PROVE Text[point] # "die"
      <4>1. point \in {"say_right", "say_left", "say_eat", "say_think",
                       "say_sleep"}
        BY DEF Saying, After
      <4> QED BY <4>1 DEF Text
    <3>2. out'.text = Text[at[p]] /\ DeathLine.text = "die"
      BY <1>4 DEF LockMsgAndPrint, DeathLine
    <3> QED BY <1>4, <3>1, <3>2 DEF LockMsgAndPrint
  <2> QED BY <1>4, <2>1, <2>2 DEF LockMsgAndPrint, MsgHeld, Printing
<1>5. ASSUME NEW p \in Philos, LockMsgAndReturn(p) PROVE MsgHeld'
  <2>1. mon # "announced" /\ \A q \in Philos : ~Printing(q)
    BY <1>5 DEF LockMsgAndReturn, MsgHeld, Monitor, Free, Philos
  <2> QED BY <1>5, <2>1 DEF LockMsgAndReturn, MsgHeld, Printing
<1>6. ASSUME NEW p \in Philos, UnlockMsg(p) PROVE MsgHeld'
  <2>1. msg = p /\ mon # "announced"
    BY <1>6 DEF UnlockMsg, MsgHeld, Printing, Monitor, Philos
  <2>2. \A q \in Philos : q # p => ~Printing(q)
    BY <2>1 DEF MsgHeld
  <2> QED BY <1>6, <2>1, <2>2 DEF UnlockMsg, MsgHeld, Printing
<1>7. CASE Announce
  <2>1. \A q \in Philos : ~Printing(q)
    BY <1>7 DEF Announce, MsgHeld, Free, Philos
  <2> QED BY <1>7, <2>1 DEF Announce, MsgHeld, Printing
<1>8. CASE CheckTimes \/ CheckAlive \/ CheckStarved \/ SetDie \/ Exit
  BY <1>8 DEF CheckTimes, CheckAlive, CheckStarved, SetDie, Exit, locks,
     MsgHeld, Printing
<1>9. CASE Tick \/ UNCHANGED vars
  BY <1>9, <1>1 DEF Tick, locks, vars
<1> QED
  BY <1>2, <1>3, <1>4, <1>5, <1>6, <1>7, <1>8, <1>9 DEF Next, Philosopher,
     MonitorStep

LEMMA CheckdeathStep ==
    TypeOK /\ CheckdeathHeld /\ [Next]_vars => CheckdeathHeld'
<1> SUFFICES ASSUME TypeOK, CheckdeathHeld, [Next]_vars
             PROVE  CheckdeathHeld'
  OBVIOUS
<1> USE DEF TypeOK
<1>1. ASSUME UNCHANGED <<checkdeath, since, mon, i>> PROVE CheckdeathHeld'
  BY <1>1 DEF CheckdeathHeld, Starved
<1>2. ASSUME NEW p \in Philos, Philosopher(p) PROVE CheckdeathHeld'
  <2>1. CASE StartMeal(p)
    BY <2>1 DEF StartMeal, CheckdeathHeld, Free, Monitor
  <2> QED
    BY <1>1, <1>2, <2>1 DEF Philosopher, EndDelay, LockRight, LockLeft,
       LockDied, LockMsgAndPrint, LockMsgAndReturn, UnlockDied, UnlockMsg,
       LockTimes, PutRight, PutLeft, WakeUp, locks
<1>3. CASE CheckTimes \/ CheckAlive \/ Exit
  BY <1>3 DEF CheckTimes, CheckAlive, Exit, locks, CheckdeathHeld, Starved
<1>4. CASE CheckStarved \/ SetDie \/ Announce
  BY <1>4 DEF CheckStarved, SetDie, Announce, locks, CheckdeathHeld, Starved
<1>5. CASE Tick
  BY <1>5 DEF Tick, locks, CheckdeathHeld, Starved
<1>6. CASE UNCHANGED vars
  BY <1>6, <1>1 DEF vars
<1> QED
  BY <1>2, <1>3, <1>4, <1>5, <1>6 DEF Next, MonitorStep

----------------------------------------------------------------------------
THEOREM Invariance == Spec => []IInv
<1>1. IInv /\ [Next]_vars => IInv'
  BY TypeStep, ForksStep, MsgStep, CheckdeathStep DEF IInv
<1> QED
  BY <1>1, InitHolds, PTL DEF Spec

(* Every variable stays in its range, for any number of philosophers. *)
THEOREM TypeCorrect == Spec => []TypeOK
<1>1. IInv => TypeOK
  BY DEF IInv
<1> QED
  BY <1>1, Invariance, PTL

(* However many philosophers there are and however the threads of
   find_your_self are scheduled, take_fork and put_fork never let two
   neighbours eat together. *)
THEOREM Exclusion == Spec => []NeighboursNeverEatTogether
<1>1. IInv => NeighboursNeverEatTogether
  <2> SUFFICES ASSUME IInv, NEW p \in Philos, NEW q \in Philos,
                      p # q, q = LeftFork(p),
                      at[p] \in AtTable, at[q] \in AtTable
               PROVE  FALSE
    BY DEF NeighboursNeverEatTogether
  <2>1. fork[LeftFork(p)] = p /\ fork[RightFork(q)] = q
    BY DEF IInv, ForksHeld, ForksHeldBy, HoldsRight, HoldsLeft
  <2> QED BY <2>1 DEF RightFork
<1> QED
  BY <1>1, Invariance, PTL

(* check_if_died announces no death on a stale reading of count_die. *)
THEOREM VictimStarves == Spec => []VictimHasStarved
<1>1. IInv => VictimHasStarved
  BY DEF IInv, CheckdeathHeld, VictimHasStarved
<1> QED
  BY <1>1, Invariance, PTL

(* Nothing is printed after the line of a death: check_if_died keeps msg. *)
THEOREM NothingAfterDeath == Spec => DeathLineIsLast
<1>1. IInv /\ [Next]_vars => [out = DeathLine => UNCHANGED out]_vars
  <2> SUFFICES ASSUME IInv, Next, out = DeathLine PROVE out' = out
    BY DEF vars
  <2>1. (mon = "announced" /\ msg = Monitor) \/ mon = "exited"
    BY DEF IInv, MsgHeld
  <2>2. ASSUME NEW p \in Philos, Philosopher(p) PROVE out' = out
    BY <2>1, <2>2 DEF Philosopher, Running, EndDelay, LockRight, LockLeft,
       LockDied, LockMsgAndPrint, LockMsgAndReturn, UnlockDied, UnlockMsg,
       LockTimes, StartMeal, PutRight, PutLeft, WakeUp, Free, Monitor
  <2>3. CASE MonitorStep
    BY <2>1, <2>3 DEF MonitorStep, CheckTimes, CheckAlive, CheckStarved,
       SetDie, Announce, Exit
  <2>4. CASE Tick
    BY <2>4 DEF Tick
  <2> QED BY <2>2, <2>3, <2>4 DEF Next
<1> QED
  BY <1>1, Invariance, PTL DEF Spec, DeathLineIsLast

----------------------------------------------------------------------------
(* The chat server. *)

(* A nickname belongs to a client that is polled and gave the password; whoever
   has quit is no client. *)
Named ==
    /\ accepted \subseteq polled
    /\ again \cap clients = {}
    /\ \A f \in Fds : nick[f] # NoNick => f \in accepted

IrcInv ==
    IrcTypeOK /\ PolledAreClients /\ NicksAreUnique /\ Named /\ ChannelsHoldClients

LEMMA IrcInitHolds == IrcInit => IrcInv
<1> SUFFICES ASSUME IrcInit PROVE IrcInv
  OBVIOUS
<1>1. NoMode \in Contents
  BY DEF NoMode, Contents
<1>2. IrcTypeOK
  BY <1>1 DEF IrcInit, IrcTypeOK, NoMode
<1>3. PolledAreClients /\ NicksAreUnique /\ Named
  BY DEF IrcInit, PolledAreClients, NicksAreUnique, Named
<1>4. ChannelsHoldClients
  BY DEF IrcInit, ChannelsHoldClients, NoMode
<1> QED BY <1>2, <1>3, <1>4 DEF IrcInv

(* SendTo keeps the type of the one variable that it changes. *)
LEMMA SendKeepsType == ASSUME IrcTypeOK, NEW fds, SendTo(fds) PROVE crashed' \in BOOLEAN
BY DEF IrcTypeOK, SendTo, MayCrash

(***************************************************************************)
(* The handlers that leave the connections alone change one channel: the   *)
(* invariant needs that the new contents are well formed, and that what is *)
(* added are polled clients with the password.                             *)
(***************************************************************************)
LEMMA ChangeStep ==
    ASSUME IrcInv, NEW c \in Chans, NEW new \in Contents, Change(c, new),
           new.operators \subseteq new.members,
           new.members \cup new.invited \subseteq
              chan[c].members \cup chan[c].invited \cup (polled \cap accepted),
           channels' \subseteq Chans, crashed' \in BOOLEAN
    PROVE  IrcInv'
<1> USE DEF IrcInv, Change, connVars
<1>1. IrcTypeOK'
  BY DEF IrcTypeOK
<1>2. PolledAreClients' /\ NicksAreUnique' /\ Named'
  BY DEF PolledAreClients, NicksAreUnique, Named
<1>3. ChannelsHoldClients'
  <2> SUFFICES ASSUME NEW d \in Chans, NEW f \in chan'[d].members \cup chan'[d].invited
               PROVE  f \in polled \cap accepted \/ <<f, d>> \in left
    BY DEF ChannelsHoldClients
  <2>1. CASE d = c
    <3>1. chan'[d] = new
      BY <2>1 DEF IrcTypeOK
    <3> QED BY <2>1, <3>1 DEF ChannelsHoldClients
  <2>2. CASE d # c
    <3>1. chan'[d] = chan[d]
      BY <2>2 DEF IrcTypeOK
    <3> QED BY <3>1 DEF ChannelsHoldClients
  <2> QED BY <2>1, <2>2
<1> QED BY <1>1, <1>2, <1>3

(* Whoever is found by nickname is polled and gave the password. *)
LEMMA KnownIsAccepted ==
    ASSUME IrcInv, NEW g \in Fds, Known(g) PROVE g \in polled \cap accepted
BY DEF IrcInv, Named, Known

LEMMA FoundStep ==
    ASSUME IrcInv, NEW f \in Fds, NEW c \in Chans, NEW key \in Keys \cup {NoKey},
           Found(f, c, key)
    PROVE  IrcInv'
<1> DEFINE new == [NoMode EXCEPT !.mode = IF key = NoKey THEN {} ELSE {"k"},
                                 !.key = key, !.members = {f}, !.operators = {f}]
<1>1. /\ new \in Contents /\ new.members = {f} /\ new.operators = {f}
      /\ new.invited = {}
  BY DEF NoMode, Contents, Flags
<1>2. Change(c, new) /\ f \in polled \cap accepted
  BY DEF Found
<1>3. channels' \subseteq Chans /\ crashed' \in BOOLEAN
  BY SendKeepsType DEF Found, IrcInv, IrcTypeOK
<1> HIDE DEF new
<1> QED BY <1>1, <1>2, <1>3, ChangeStep

LEMMA JoinStep ==
    ASSUME IrcInv, NEW f \in Fds, NEW c \in Chans, NEW key \in Keys \cup {NoKey},
           Join(f, c, key)
    PROVE  IrcInv'
<1> DEFINE new == [chan[c] EXCEPT !.members = @ \cup {f}]
<1>1. /\ new \in Contents /\ new.members = chan[c].members \cup {f}
      /\ new.operators = chan[c].operators /\ new.invited = chan[c].invited
      /\ chan[c].operators \subseteq chan[c].members
  BY DEF IrcInv, IrcTypeOK, Contents
<1>2. Change(c, new) /\ f \in polled \cap accepted
  BY DEF Join, Enter
<1>3. channels' \subseteq Chans /\ crashed' \in BOOLEAN
  BY SendKeepsType DEF Join, Enter, IrcInv, IrcTypeOK
<1> HIDE DEF new
<1> QED BY <1>1, <1>2, <1>3, ChangeStep

LEMMA InviteStep ==
    ASSUME IrcInv, NEW f \in Fds, NEW g \in Fds, NEW c \in Chans, Invite(f, g, c)
    PROVE  IrcInv'
<1> DEFINE new == [chan[c] EXCEPT !.invited = @ \cup {g}]
<1>1. /\ new \in Contents /\ new.members = chan[c].members
      /\ new.operators = chan[c].operators
      /\ new.invited = chan[c].invited \cup {g}
      /\ chan[c].operators \subseteq chan[c].members
  BY DEF IrcInv, IrcTypeOK, Contents
<1>2. Change(c, new) /\ g \in polled \cap accepted
  BY KnownIsAccepted DEF Invite
<1>3. channels' \subseteq Chans /\ crashed' \in BOOLEAN
  BY SendKeepsType DEF Invite, IrcInv, IrcTypeOK
<1> HIDE DEF new
<1> QED BY <1>1, <1>2, <1>3, ChangeStep

LEMMA WithoutType ==
    ASSUME NEW ch \in Contents, ch.operators \subseteq ch.members, NEW f
    PROVE  /\ Without(ch, f) \in Contents
           /\ Without(ch, f).operators \subseteq Without(ch, f).members
           /\ Without(ch, f).members \subseteq ch.members
           /\ Without(ch, f).invited = ch.invited
BY DEF Without, Contents

LEMMA KickStep ==
    ASSUME IrcInv, NEW f \in Fds, NEW g \in Fds, NEW c \in Chans, Kick(f, g, c)
    PROVE  IrcInv'
<1>1. chan[c] \in Contents /\ chan[c].operators \subseteq chan[c].members
  BY DEF IrcInv, IrcTypeOK
<1>2. Change(c, Without(chan[c], g))
  BY DEF Kick
<1>3. channels' \subseteq Chans /\ crashed' \in BOOLEAN
  BY SendKeepsType DEF Kick, IrcInv, IrcTypeOK
<1> QED BY <1>1, <1>2, <1>3, WithoutType, ChangeStep

LEMMA PartStep ==
    ASSUME IrcInv, NEW f \in Fds, NEW c \in Chans, Part(f, c)
    PROVE  IrcInv'
<1> DEFINE others == Without(chan[c], f)
           new == IF others.members = {} THEN NoMode ELSE others
<1>1. chan[c] \in Contents /\ chan[c].operators \subseteq chan[c].members
  BY DEF IrcInv, IrcTypeOK
<1>2. /\ others \in Contents /\ others.operators \subseteq others.members
      /\ others.members \subseteq chan[c].members
      /\ others.invited = chan[c].invited
  BY <1>1, WithoutType
<1>3. /\ NoMode \in Contents /\ NoMode.operators = {} /\ NoMode.members = {}
      /\ NoMode.invited = {}
  BY DEF NoMode, Contents
<1>4. Change(c, new)
  BY DEF Part
<1>5. channels' \subseteq Chans /\ crashed' \in BOOLEAN
  BY SendKeepsType DEF Part, IrcInv, IrcTypeOK
<1> HIDE DEF others
<1>6. /\ new \in Contents /\ new.operators \subseteq new.members
      /\ new.members \subseteq chan[c].members
      /\ new.invited \subseteq chan[c].invited
  BY <1>2, <1>3
<1> HIDE DEF new
<1> QED BY <1>4, <1>5, <1>6, ChangeStep

(* MODE changes the modes, or the operators within the members. *)
LEMMA ModeStep ==
    ASSUME IrcInv, NEW f \in Fds, NEW c \in Chans, NEW new \in Contents,
           ModeTo(f, c, new), new.operators \subseteq new.members,
           new.members = chan[c].members, new.invited = chan[c].invited
    PROVE  IrcInv'
<1>1. Change(c, new)
  BY DEF ModeTo
<1>2. channels' \subseteq Chans /\ crashed' \in BOOLEAN
  BY SendKeepsType DEF ModeTo, IrcInv, IrcTypeOK
<1> QED BY <1>1, <1>2, ChangeStep

LEMMA SetFlagStep ==
    ASSUME IrcInv, NEW f \in Fds, NEW c \in Chans, NEW x \in Flags, SetFlag(f, c, x)
    PROVE  IrcInv'
<1>0. chan[c] \in Contents /\ chan[c].operators \subseteq chan[c].members
  BY DEF IrcInv, IrcTypeOK
<1>1. ASSUME NEW mode \in SUBSET Flags,
             ModeTo(f, c, [chan[c] EXCEPT !.mode = mode])
      PROVE  IrcInv'
  <2> DEFINE new == [chan[c] EXCEPT !.mode = mode]
  <2>1. /\ new \in Contents /\ new.operators = chan[c].operators
        /\ new.members = chan[c].members /\ new.invited = chan[c].invited
    BY <1>0 DEF Contents
  <2>2. ModeTo(f, c, new)
    BY <1>1
  <2> HIDE DEF new
  <2> QED BY <1>0, <2>1, <2>2, ModeStep
<1>2. ASSUME NEW key \in Keys,
             ModeTo(f, c, [chan[c] EXCEPT !.mode = @ \cup {x}, !.key = key])
      PROVE  IrcInv'
  <2> DEFINE new == [chan[c] EXCEPT !.mode = @ \cup {x}, !.key = key]
  <2>1. /\ new \in Contents /\ new.operators = chan[c].operators
        /\ new.members = chan[c].members /\ new.invited = chan[c].invited
    BY <1>0 DEF Contents
  <2>2. ModeTo(f, c, new)
    BY <1>2
  <2> HIDE DEF new
  <2> QED BY <1>0, <2>1, <2>2, ModeStep
<1>3. ASSUME NEW n \in Limits,
             ModeTo(f, c, [chan[c] EXCEPT !.mode = @ \cup {x}, !.max_users = n])
      PROVE  IrcInv'
  <2> DEFINE new == [chan[c] EXCEPT !.mode = @ \cup {x}, !.max_users = n]
  <2>1. /\ new \in Contents /\ new.operators = chan[c].operators
        /\ new.members = chan[c].members /\ new.invited = chan[c].invited
    BY <1>0 DEF Contents
  <2>2. ModeTo(f, c, new)
    BY <1>3
  <2> HIDE DEF new
  <2> QED BY <1>0, <2>1, <2>2, ModeStep
<1>4. {chan[c].mode \cup {x}, chan[c].mode \ {x}, chan[c].mode} \subseteq SUBSET Flags
  BY <1>0 DEF Contents
<1> QED BY <1>1, <1>2, <1>3, <1>4 DEF SetFlag

LEMMA RightsStep ==
    ASSUME IrcInv, NEW f \in Fds, NEW g \in Fds, NEW c \in Chans,
           Appoint(f, g, c) \/ StepDown(f, g, c)
    PROVE  IrcInv'
<1> DEFINE up == [chan[c] EXCEPT !.operators = @ \cup {g}]
           down == [chan[c] EXCEPT !.operators = @ \ {f}]
<1>0. chan[c] \in Contents /\ chan[c].operators \subseteq chan[c].members
  BY DEF IrcInv, IrcTypeOK
<1>1. g \in chan[c].members
  BY DEF Appoint, StepDown, Member
<1>2. /\ up \in Contents /\ up.operators \subseteq up.members
      /\ up.members = chan[c].members /\ up.invited = chan[c].invited
  BY <1>0, <1>1 DEF Contents
<1>3. /\ down \in Contents /\ down.operators \subseteq down.members
      /\ down.members = chan[c].members /\ down.invited = chan[c].invited
  BY <1>0 DEF Contents
<1>4. ModeTo(f, c, up) \/ ModeTo(f, c, down)
  BY DEF Appoint, StepDown
<1> HIDE DEF up, down
<1> QED BY <1>2, <1>3, <1>4, ModeStep

(***************************************************************************)
(* The handlers that leave the channels alone, or take one client out.     *)
(***************************************************************************)
LEMMA AcceptStep == ASSUME IrcInv, NEW f \in Fds, AcceptNewClient(f) PROVE IrcInv'
<1> USE DEF IrcInv, AcceptNewClient
<1>1. IrcTypeOK'
  BY DEF IrcTypeOK
<1>2. PolledAreClients' /\ Named'
  BY DEF IrcTypeOK, PolledAreClients, Named
<1>3. NicksAreUnique'
  BY DEF IrcTypeOK, NicksAreUnique
<1>4. ChannelsHoldClients'
  BY DEF Named, ChannelsHoldClients
<1> QED BY <1>1, <1>2, <1>3, <1>4

LEMMA PassStep ==
    ASSUME IrcInv, again = {}, NEW f \in Fds, Pass(f) \/ WrongPass(f) PROVE IrcInv'
<1> USE DEF IrcInv, Pass, WrongPass, Unpoll
<1>1. IrcTypeOK'
  BY SendKeepsType DEF IrcTypeOK, PolledAreClients
<1>2. PolledAreClients' /\ Named' /\ NicksAreUnique'
  BY DEF IrcTypeOK, PolledAreClients, Named, NicksAreUnique
<1>3. ChannelsHoldClients'
  BY DEF ChannelsHoldClients
<1> QED BY <1>1, <1>2, <1>3

(* Forget keeps what is said of the connections. *)
LEMMA ForgetStep ==
    ASSUME IrcInv, again = {}, again' = {}, NEW f \in Fds, Forget(f)
    PROVE  /\ polled' \subseteq Fds /\ clients' \subseteq Fds
           /\ accepted' \subseteq clients' /\ gone' \subseteq polled'
           /\ nick' \in [Fds -> Nicks \cup {NoNick}]
           /\ PolledAreClients' /\ NicksAreUnique' /\ Named'
           /\ (polled \cap accepted) \ {f} \subseteq polled' \cap accepted'
BY DEF IrcInv, Forget, Unlist, Unpoll, IrcTypeOK, PolledAreClients, NicksAreUnique, Named

(* What a lost connection leaves in channels is noted in left. *)
LEMMA DisconnectStep ==
    ASSUME IrcInv, again = {}, NEW f \in Fds, Disconnect(f) PROVE IrcInv'
<1>0. /\ Forget(f) /\ again' = {}
      /\ UNCHANGED <<channels, chan, crashed>>
  BY DEF Disconnect
<1>1. /\ left \subseteq left' /\ left' \subseteq Fds \X Chans
      /\ \A c \in Chans : f \in chan[c].members \cup chan[c].invited => <<f, c>> \in left'
  BY DEF Disconnect, IrcInv, IrcTypeOK
<1>2. IrcTypeOK'
  BY <1>0, <1>1, ForgetStep DEF IrcInv, IrcTypeOK
<1>3. ChannelsHoldClients'
  <2> SUFFICES ASSUME NEW c \in Chans, NEW g \in chan[c].members \cup chan[c].invited
               PROVE  g \in polled' \cap accepted' \/ <<g, c>> \in left'
    BY <1>0 DEF ChannelsHoldClients
  <2>1. g \in polled \cap accepted \/ <<g, c>> \in left
    BY DEF IrcInv, ChannelsHoldClients
  <2> QED BY <1>0, <1>1, <2>1, ForgetStep
<1> QED BY <1>0, <1>2, <1>3, ForgetStep DEF IrcInv

(* The client has not given the password, so no channel holds it. *)
LEMMA RefuseStep ==
    ASSUME IrcInv, again = {}, NEW f \in Fds, Refuse(f) PROVE IrcInv'
<1> USE DEF Refuse
<1>1. IrcTypeOK'
  BY ForgetStep DEF IrcInv, IrcTypeOK, MayCrash
<1>2. ChannelsHoldClients'
  BY ForgetStep DEF IrcInv, ChannelsHoldClients
<1> QED BY <1>1, <1>2, ForgetStep DEF IrcInv

(* Whoever quits is in no channel any more, and is the one that is polled
   without a client, until the loop has gone round. *)
LEMMA QuitStep ==
    ASSUME IrcInv, again = {}, NEW f \in Fds, Quit(f) PROVE IrcInv'
<1> DEFINE new(c) == [chan[c] EXCEPT !.members = @ \ {f},
                         !.operators = @ \ {f}, !.invited = @ \ {f}]
<1>1. ASSUME NEW c \in Chans
      PROVE  /\ new(c) \in Contents
             /\ new(c).operators \subseteq new(c).members
             /\ new(c).members = chan[c].members \ {f}
             /\ new(c).invited = chan[c].invited \ {f}
  <2>1. chan[c] \in Contents /\ chan[c].operators \subseteq chan[c].members
    BY DEF IrcInv, IrcTypeOK
  <2> QED BY <2>1 DEF Contents
<1>2. /\ Unlist(f) /\ crashed' \in BOOLEAN /\ f \in polled /\ again' = {f}
      /\ chan' = [c \in Chans |-> new(c)]
      /\ UNCHANGED <<polled, gone, channels, left>>
  BY DEF Quit, Leave, MayCrash
<1> HIDE DEF new
<1>3. IrcTypeOK'
  <2>1. /\ chan' \in [Chans -> Contents]
        /\ \A c \in Chans : chan'[c].operators \subseteq chan'[c].members
    BY <1>1, <1>2
  <2>2. /\ clients' \subseteq Fds /\ accepted' \subseteq clients'
        /\ nick' \in [Fds -> Nicks \cup {NoNick}]
    BY <1>2 DEF Unlist, IrcInv, IrcTypeOK
  <2> QED BY <1>2, <2>1, <2>2 DEF IrcInv, IrcTypeOK
<1>4. PolledAreClients' /\ NicksAreUnique' /\ Named'
  BY <1>2 DEF Unlist, IrcInv, IrcTypeOK, PolledAreClients, NicksAreUnique, Named
<1>5. ChannelsHoldClients'
  <2> SUFFICES ASSUME NEW c \in Chans, NEW g \in chan'[c].members \cup chan'[c].invited
               PROVE  g \in polled \cap accepted' \/ <<g, c>> \in left
    BY <1>2 DEF ChannelsHoldClients
  <2>1. g \in (chan[c].members \cup chan[c].invited) \ {f}
    BY <1>1, <1>2
  <2> QED BY <1>2, <2>1 DEF Unlist, IrcInv, ChannelsHoldClients
<1> QED BY <1>3, <1>4, <1>5 DEF IrcInv

LEMMA GoRoundStep == ASSUME IrcInv, NEW f \in Fds, GoRound(f) PROVE IrcInv'
<1>1. /\ f \in again /\ again' = {} /\ again = {f} /\ f \notin clients
      /\ f \notin accepted
  BY DEF GoRound, IrcInv, IrcTypeOK, Named
<1>2. /\ polled' = polled \ {f} /\ gone' = gone \ {f} /\ crashed' \in BOOLEAN
      /\ UNCHANGED <<clients, accepted, nick, channels, chan, left>>
  BY DEF GoRound, Unpoll, MayCrash
<1>3. IrcTypeOK'
  BY <1>1, <1>2 DEF IrcInv, IrcTypeOK
<1>4. PolledAreClients' /\ NicksAreUnique' /\ Named'
  BY <1>1, <1>2 DEF IrcInv, PolledAreClients, NicksAreUnique, Named
<1>5. ChannelsHoldClients'
  BY <1>1, <1>2 DEF IrcInv, ChannelsHoldClients
<1> QED BY <1>3, <1>4, <1>5 DEF IrcInv

LEMMA NickStep == ASSUME IrcInv, NEW f \in Fds, NEW n \in Nicks, Nick(f, n) PROVE IrcInv'
<1> USE DEF IrcInv, Nick
<1>1. IrcTypeOK'
  BY SendKeepsType DEF IrcTypeOK
<1>2. PolledAreClients' /\ Named'
  BY DEF IrcTypeOK, PolledAreClients, Named
<1>3. NicksAreUnique'
  BY DEF IrcTypeOK, NicksAreUnique
<1>4. ChannelsHoldClients'
  BY DEF ChannelsHoldClients
<1> QED BY <1>1, <1>2, <1>3, <1>4

(* HangUp, and the commands that only send. *)
LEMMA OtherStep ==
    ASSUME IrcInv, UNCHANGED <<polled, clients, accepted, nick, channels, chan, again, left>>,
           gone' \subseteq polled', crashed' \in BOOLEAN
    PROVE  IrcInv'
BY DEF IrcInv, IrcTypeOK, PolledAreClients, NicksAreUnique, Named, ChannelsHoldClients

LEMMA QuietStep ==
    ASSUME IrcInv, NEW f \in Fds,
           HangUp(f) \/ Answer(f) \/ Privmsg(f) \/ BadArguments(f)
    PROVE  IrcInv'
<1>0. IrcTypeOK
  BY DEF IrcInv
<1>1. UNCHANGED <<polled, clients, accepted, nick, channels, chan, again, left>>
  BY DEF HangUp, Answer, Privmsg, Message, BadArguments, connVars
<1>2. gone' \subseteq polled'
  BY <1>0 DEF HangUp, Answer, Privmsg, Message, BadArguments, connVars, IrcTypeOK
<1>3. crashed' \in BOOLEAN
  BY <1>0, SendKeepsType
     DEF HangUp, Answer, Privmsg, Message, BadArguments, IrcTypeOK, MayCrash
<1> QED BY <1>1, <1>2, <1>3, OtherStep

LEMMA NextStep == IrcInv /\ [IrcNext]_ircVars => IrcInv'
<1> SUFFICES ASSUME IrcInv, [IrcNext]_ircVars PROVE IrcInv'
  OBVIOUS
<1>1. CASE UNCHANGED ircVars
  BY <1>1 DEF ircVars, IrcInv, IrcTypeOK, PolledAreClients, NicksAreUnique, Named,
              ChannelsHoldClients
<1>2. ASSUME NEW f \in Fds, HangUp(f) \/ GoRound(f) \/ (again = {} /\ Connection(f))
      PROVE  IrcInv'
  BY <1>2, AcceptStep, PassStep, DisconnectStep, RefuseStep, QuitStep, GoRoundStep,
     NickStep, QuietStep DEF Connection
<1>3. ASSUME NEW f \in Fds, NEW c \in Chans, OnChannel(f, c) PROVE IrcInv'
  BY <1>3, FoundStep, JoinStep, InviteStep, KickStep, PartStep, SetFlagStep,
     RightsStep DEF OnChannel
<1>4. CASE IrcNext
  <2>1. PICK f \in Fds : \/ HangUp(f)
                         \/ GoRound(f)
                         \/ again = {} /\ (Connection(f) \/ \E c \in Chans : OnChannel(f, c))
    BY <1>4 DEF IrcNext
  <2>2. CASE \E c \in Chans : OnChannel(f, c)
    BY <1>3, <2>2
  <2>3. CASE HangUp(f) \/ GoRound(f) \/ (again = {} /\ Connection(f))
    BY <1>2, <2>3
  <2> QED BY <2>1, <2>2, <2>3
<1> QED BY <1>1, <1>4

LEMMA IrcInvariance == IrcSpec => []IrcInv
<1> QED BY IrcInitHolds, NextStep, PTL DEF IrcSpec

(* The state of the server stays well formed for any descriptors, names and
   channels, and operators stay members. *)
THEOREM IrcTypeCorrect == IrcSpec => []IrcTypeOK
<1>1. IrcInv => IrcTypeOK
  BY DEF IrcInv
<1> QED BY <1>1, IrcInvariance, PTL

(* MonitorClientMovements finds a client for every descriptor in pfds, except
   once for each that quits. *)
THEOREM PolledFound == IrcSpec => []PolledAreClients
<1>1. IrcInv => PolledAreClients
  BY DEF IrcInv
<1> QED BY <1>1, IrcInvariance, PTL

(* Two clients never have one nickname. *)
THEOREM NicksDiffer == IrcSpec => []NicksAreUnique
<1>1. IrcInv => NicksAreUnique
  BY DEF IrcInv
<1> QED BY <1>1, IrcInvariance, PTL

(* A channel holds descriptors of clients with the password, but for what lost
   connections have left in it. *)
THEOREM ChannelsCurrent == IrcSpec => []ChannelsHoldClients
<1>1. IrcInv => ChannelsHoldClients
  BY DEF IrcInv
<1> QED BY <1>1, IrcInvariance, PTL

(* The tables of descriptors, nicknames and channels agree on the clients,
   whichever way a client goes. *)
THEOREM TablesInAgreement == IrcSpec => []TablesAgree
<1>1. IrcInv => TablesAgree
  BY DEF IrcInv, TablesAgree
<1> QED BY <1>1, IrcInvariance, PTL

(***************************************************************************)
(* The two action properties.  All changes but JOIN add no member, and all *)
(* but +o, which asks for an operator, and JOIN of a new name no operator. *)
(***************************************************************************)
Steps == EntryStep /\ OperatorStep

LEMMA ShrinkSteps ==
    ASSUME IrcTypeOK, NEW c \in Chans, NEW new \in Contents, Change(c, new),
           c \in channels => new.members \subseteq chan[c].members,
           c \in channels /\ chan[c].operators = {} => new.operators = {}
    PROVE  Steps
<1>1. ASSUME NEW d \in channels
      PROVE  /\ chan'[d].members \subseteq chan[d].members
             /\ chan[d].operators = {} => chan'[d].operators = {}
  BY <1>1 DEF IrcTypeOK, Change
<1>2. EntryStep
  BY <1>1 DEF EntryStep
<1>3. OperatorStep
  BY <1>1 DEF OperatorStep
<1> QED BY <1>2, <1>3 DEF Steps

LEMMA SameSteps == ASSUME UNCHANGED chan PROVE Steps
BY DEF Steps, EntryStep, OperatorStep

LEMMA FoundSteps ==
    ASSUME IrcTypeOK, NEW f \in Fds, NEW c \in Chans, NEW key \in Keys \cup {NoKey},
           Found(f, c, key)
    PROVE  Steps
<1> DEFINE new == [NoMode EXCEPT !.mode = IF key = NoKey THEN {} ELSE {"k"},
                                 !.key = key, !.members = {f}, !.operators = {f}]
<1>1. new \in Contents
  BY DEF NoMode, Contents, Flags
<1>2. Change(c, new) /\ c \notin channels
  BY DEF Found
<1> HIDE DEF new
<1> QED BY <1>1, <1>2, ShrinkSteps

(* One descriptor is added, to a set that has room for one more. *)
LEMMA JoinSteps ==
    ASSUME IrcTypeOK, NEW f \in Fds, NEW c \in Chans, NEW key \in Keys \cup {NoKey},
           Join(f, c, key)
    PROVE  Steps
<1> USE DEF Join, Enter
<1> DEFINE members == chan[c].members
           new == [chan[c] EXCEPT !.members = @ \cup {f}]
<1>1. /\ chan[c] \in Contents /\ new.members = members \cup {f}
      /\ new.operators = chan[c].operators
  BY DEF IrcTypeOK, Contents
<1>2. \A d \in Chans : chan'[d] = IF d = c THEN new ELSE chan[d]
  BY DEF IrcTypeOK, Change
<1> HIDE DEF new
<1>3. OperatorStep
  BY <1>1, <1>2 DEF OperatorStep, IrcTypeOK
<1>4. EntryStep
  <2> SUFFICES ASSUME NEW d \in channels, chan'[d].members \ chan[d].members # {}
               PROVE  IF "i" \in chan[d].mode
                      THEN chan'[d].members \ chan[d].members \subseteq chan[d].invited
                      ELSE "l" \in chan[d].mode =>
                             Cardinality(chan'[d].members) <= chan[d].max_users
    BY DEF EntryStep
  <2>1. d = c /\ f \notin members /\ chan'[d].members = members \cup {f}
    BY <1>1, <1>2 DEF IrcTypeOK
  <2>2. IsFiniteSet(members)
    BY <1>1, NamesAssumption, FS_Subset DEF Contents
  <2>3. Cardinality(members \cup {f}) = Cardinality(members) + 1
    BY <2>1, <2>2, FS_AddElement
  <2>4. CASE "i" \in chan[c].mode
    BY <2>1, <2>4
  <2>5. CASE "i" \notin chan[c].mode
    BY <2>1, <2>3, <2>5
  <2> QED BY <2>1, <2>4, <2>5
<1> QED BY <1>3, <1>4 DEF Steps

LEMMA ChannelSteps ==
    ASSUME IrcTypeOK, NEW f \in Fds, NEW c \in Chans, OnChannel(f, c)
    PROVE  Steps
<1>0. chan[c] \in Contents /\ chan[c].operators \subseteq chan[c].members
  BY DEF IrcTypeOK
<1>1. CASE \E key \in Keys \cup {NoKey} : Found(f, c, key) \/ Join(f, c, key)
  BY <1>1, FoundSteps, JoinSteps
<1>2. CASE Part(f, c)
  <2>1. /\ Without(chan[c], f) \in Contents
        /\ Without(chan[c], f).members \subseteq chan[c].members
        /\ Without(chan[c], f).operators \subseteq chan[c].operators
    BY <1>0 DEF Without, Contents
  <2>2. NoMode \in Contents /\ NoMode.members = {} /\ NoMode.operators = {}
    BY DEF NoMode, Contents
  <2> QED BY <1>2, <2>1, <2>2, ShrinkSteps DEF Part
<1>3. ASSUME NEW g \in Fds, Kick(f, g, c) PROVE Steps
  <2>1. /\ Without(chan[c], g) \in Contents
        /\ Without(chan[c], g).members \subseteq chan[c].members
        /\ Without(chan[c], g).operators \subseteq chan[c].operators
    BY <1>0 DEF Without, Contents
  <2> QED BY <1>3, <2>1, ShrinkSteps DEF Kick
<1>4. ASSUME NEW g \in Fds, Invite(f, g, c) \/ Appoint(f, g, c) \/ StepDown(f, g, c)
      PROVE  Steps
  <2>1. chan[c].operators # {}
    BY <1>4 DEF Invite, Appoint, StepDown, ModeTo, Commands, Operator
  <2>2. \A d \in Chans : chan'[d].members = chan[d].members /\
                         (d # c => chan'[d] = chan[d])
    BY <1>0, <1>4 DEF Invite, Appoint, StepDown, ModeTo, Change, IrcTypeOK, Contents
  <2>3. EntryStep
    BY <2>2 DEF EntryStep, IrcTypeOK
  <2>4. OperatorStep
    BY <2>1, <2>2 DEF OperatorStep, IrcTypeOK
  <2> QED BY <2>3, <2>4 DEF Steps
<1>5. ASSUME NEW x \in Flags, SetFlag(f, c, x) PROVE Steps
  <2> DEFINE Kept(new) == /\ new \in Contents
                          /\ new.members = chan[c].members
                          /\ new.operators = chan[c].operators
  <2>1. \A mode \in SUBSET Flags : Kept([chan[c] EXCEPT !.mode = mode])
    BY <1>0 DEF Contents
  <2>2. \A key \in Keys : Kept([chan[c] EXCEPT !.mode = @ \cup {x}, !.key = key])
    BY <1>0 DEF Contents
  <2>3. \A n \in Limits :
           Kept([chan[c] EXCEPT !.mode = @ \cup {x}, !.max_users = n])
    BY <1>0 DEF Contents
  <2>4. chan[c].mode \in SUBSET Flags
    BY <1>0 DEF Contents
  <2>5. \E new : Kept(new) /\ ModeTo(f, c, new)
    BY <1>5, <2>1, <2>2, <2>3, <2>4 DEF SetFlag
  <2>6. PICK new : Kept(new) /\ ModeTo(f, c, new)
    BY <2>5
  <2> QED BY <2>6, ShrinkSteps DEF ModeTo
<1> QED BY <1>1, <1>2, <1>3, <1>4, <1>5 DEF OnChannel

LEMMA ConnectionSteps ==
    ASSUME IrcTypeOK, NEW f \in Fds, HangUp(f) \/ GoRound(f) \/ Connection(f)
    PROVE  Steps
<1>1. CASE Quit(f)
  <2>1. \A c \in Chans : /\ chan'[c].members \subseteq chan[c].members
                         /\ chan'[c].operators \subseteq chan[c].operators
    BY <1>1 DEF Quit, Leave, IrcTypeOK, Contents
  <2> QED BY <2>1 DEF Steps, EntryStep, OperatorStep, IrcTypeOK
<1>2. CASE ~Quit(f)
  BY <1>2, SameSteps
     DEF Connection, AcceptNewClient, HangUp, GoRound, Disconnect, Pass, WrongPass, Refuse,
         Answer, Nick, Privmsg, Message, BadArguments
<1> QED BY <1>1, <1>2

LEMMA EveryStep == IrcTypeOK /\ [IrcNext]_ircVars => [EntryStep]_ircVars /\ [OperatorStep]_ircVars
BY ChannelSteps, ConnectionSteps DEF IrcNext, Steps

(* Whoever enters a channel was invited where that is asked for, and finds room
   where it is not. *)
THEOREM EntryIsAllowed == IrcSpec => EntryObeysModes
<1>1. IrcTypeOK /\ [IrcNext]_ircVars => [EntryStep]_ircVars
  BY EveryStep
<1> QED BY <1>1, IrcTypeCorrect, PTL DEF IrcSpec, EntryObeysModes

(* A channel without an operator has none until it is erased. *)
THEOREM OperatorsFromOperators == IrcSpec => OperatorsAreAppointed
<1>1. IrcTypeOK /\ [IrcNext]_ircVars => [OperatorStep]_ircVars
  BY EveryStep
<1> QED BY <1>1, IrcTypeCorrect, PTL DEF IrcSpec, OperatorsAreAppointed

=============================================================================
