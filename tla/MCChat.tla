------------------------------- MODULE MCChat -------------------------------
(* Two users, the first of them with two tabs.  The chat and the log of the
   time share nothing but who is connected: each is explored with it on its
   own, so that their states add up. *)
EXTENDS ChatPage, LogTime

CONSTANTS ada, bob, a1, a2, b1

MCUsers == {ada, bob}
MCTabs == {a1, a2, b1}
MCReaders == {a1, b1}
MCOwner == [t \in MCTabs |-> IF t = b1 THEN bob ELSE ada]
MCDurations == {1, 2}

VARIABLE scene
MCInit == scene \in {"chat", "log"} /\ Init /\ LogInit
MCNext ==
    /\ UNCHANGED scene
    /\ \/ scene = "chat" /\ Next /\ UNCHANGED logVars
       \/ scene = "log" /\ LogNext /\ UNCHANGED <<tables, calls, pageVars>>
MCSpec == MCInit /\ [][MCNext]_<<vars, logVars, scene>>
=============================================================================
