------------------------- MODULE PromptPhilosophers -------------------------
(***************************************************************************)
(* Philosophers on a machine that keeps up: a tick of the clock comes only *)
(* when every philosopher is asleep, waiting for a mutex or finished, and  *)
(* the monitor has looked at everyone since the last tick.  The usleep(100)*)
(* of the odd threads is shorter than a tick, and longer than what the     *)
(* other threads can do without waiting.  The examples of the README are   *)
(* claims about such a machine.                                            *)
(***************************************************************************)
EXTENDS Philosophers

VARIABLE looked     \* philosophers the monitor passed since the last tick

promptVars == <<vars, looked>>

(* What a philosopher waits for. *)
CanStep(p) ==
    CASE at[p] \in {"delay", "put_left"} -> TRUE
      [] at[p] = "right" -> fork[RightFork(p)] = Free
      [] at[p] = "left" -> fork[LeftFork(p)] = Free
      [] at[p] = "times" -> times = Free
      [] at[p] = "meal" -> checkdeath = Free
      [] at[p] \in {"eating", "sleeping"} -> rest[p] = 0
      [] at[p] = "done" -> FALSE
      [] at[p] \in Saying ->
            \/ saying[p] = "start" /\ died = Free
            \/ saying[p] = "died" /\ msg = Free
            \/ saying[p] \in {"printed", "unlock"}

PromptInit == Init /\ looked = 0

PromptDelay(p) ==
    at[p] = "delay" =>
        \A q \in Philos : at[q] # "delay" => ~CanStep(q)

PromptPhilosopher(p) ==
    /\ PromptDelay(p)
    /\ Philosopher(p)
    /\ UNCHANGED looked

PromptMonitor ==
    /\ MonitorStep
    /\ looked' = IF mon = "check" /\ looked < N THEN looked + 1 ELSE looked

PromptTick ==
    /\ \A p \in Philos : ~CanStep(p)
    /\ looked = N \/ mon \in {"dying", "announce"}
    /\ Tick
    /\ looked' = 0

PromptNext ==
    \/ \E p \in Philos : PromptPhilosopher(p)
    \/ PromptMonitor
    \/ PromptTick

PromptSpec ==
    /\ PromptInit /\ [][PromptNext]_promptVars
    /\ \A p \in Philos : WF_promptVars(PromptPhilosopher(p))
    /\ WF_promptVars(PromptMonitor)
    /\ WF_promptVars(PromptTick)

----------------------------------------------------------------------------
(* "should not die", "stops when all eat 7 times": with the arguments of the
   README's example nobody keeps the others from the forks, nobody starves on
   the way, and the monitor ends by reading the counter and not by a death. *)
MealsEndProcess == <>(mon = "finished")

============================================================================
