------------------------------- MODULE Toasts -------------------------------
(***************************************************************************)
(* The short messages of the pages: one state outside of React that only a *)
(* reducer changes, and that the toaster shows.  A message is closed in    *)
(* its own time or by the user, and removed by a timer much later, when    *)
(* another one may have taken its place.                                   *)
(***************************************************************************)
EXTENDS Naturals, Sequences

CONSTANTS TOAST_LIMIT,  \* the messages kept at a time
          MaxToasts     \* bound: the messages of a session

ASSUME ToastsAssumption == TOAST_LIMIT \in Nat \ {0} /\ MaxToasts \in Nat

VARIABLES toasts,         \* memoryState: the newest first
          count,          \* the last id that was given
          toastTimeouts,  \* the messages that wait for their removal
          closed          \* history: the messages that were closed
toastVars == <<toasts, count, toastTimeouts, closed>>

ToastIds == 1 .. MaxToasts
ToastsTypeOK ==
    /\ toasts \in Seq([id : ToastIds, open : BOOLEAN]) /\ Len(toasts) <= TOAST_LIMIT
    /\ count \in 0 .. MaxToasts
    /\ toastTimeouts \subseteq ToastIds
    /\ closed \subseteq ToastIds

ToastsInit == toasts = <<>> /\ count = 0 /\ toastTimeouts = {} /\ closed = {}

\* toast: genId, then ADD_TOAST.
Added(toast) ==
    SubSeq(<<toast>> \o toasts, 1,
           IF Len(toasts) < TOAST_LIMIT THEN Len(toasts) + 1 ELSE TOAST_LIMIT)
AddToast ==
    /\ count < MaxToasts
    /\ count' = count + 1
    /\ toasts' = Added([id |-> count + 1, open |-> TRUE])
    /\ UNCHANGED <<toastTimeouts, closed>>

\* onOpenChange of an open message: DISMISS_TOAST, which sets the timer.
Dismissed(id) == [i \in DOMAIN toasts |-> IF toasts[i].id = id
                                          THEN [toasts[i] EXCEPT !.open = FALSE]
                                          ELSE toasts[i]]
DismissToast(id) ==
    /\ \E i \in DOMAIN toasts : toasts[i] = [id |-> id, open |-> TRUE]
    /\ toasts' = Dismissed(id)
    /\ toastTimeouts' = toastTimeouts \cup {id}
    /\ closed' = closed \cup {id}
    /\ UNCHANGED count

\* The timer of addToRemoveQueue: REMOVE_TOAST.  An id is given once, so that the
\* filter drops one message at most.
RemainingNone(id) == <<>>
Without(i) == SubSeq(toasts, 1, i - 1) \o SubSeq(toasts, i + 1, Len(toasts))
Remaining(id) == IF \E i \in DOMAIN toasts : toasts[i].id = id
                 THEN Without(CHOOSE i \in DOMAIN toasts : toasts[i].id = id) ELSE toasts
RemoveToast(id) ==
    /\ id \in toastTimeouts
    /\ toastTimeouts' = toastTimeouts \ {id}
    /\ toasts' = Remaining(id)
    /\ UNCHANGED <<count, closed>>

\* The page is loaded again, and the state with it.
Reload ==
    /\ toasts' = <<>>
    /\ count' = 0
    /\ toastTimeouts' = {}
    /\ closed' = {}

ToastsNext == AddToast \/ Reload \/ \E id \in ToastIds : DismissToast(id) \/ RemoveToast(id)

ToastsSpec == ToastsInit /\ [][ToastsNext]_toastVars
-----------------------------------------------------------------------------
\* The newest message stays in view until it is closed itself, whenever the
\* timers of older ones go off; a closed one that is still kept is on its way
\* out (use-toast.ts).
NewestToastStays ==
    /\ ToastsTypeOK
    /\ count \in ToastIds \ closed => \E i \in DOMAIN toasts : toasts[i] = [id |-> count, open |-> TRUE]
    /\ \A i \in DOMAIN toasts : toasts[i].open \/ toasts[i].id \in toastTimeouts
=============================================================================
