------------------------------ MODULE RunSlot ------------------------------
(***************************************************************************)
(* What a session promises of its run: there is one place, a run takes it  *)
(* once, somebody works for it until it ends or waits for the user, and    *)
(* nobody leaves it silently.                                              *)
(***************************************************************************)
CONSTANTS Runs, None

VARIABLES
    run,        \* the run that has the place, or None
    phase,      \* "idle", "running", "waiting_user_input" or "cancelling"
    working,    \* somebody works for the run
    forgotten,  \* a reset dropped what the run has said
    gone        \* runs that had the place or will never have it

vars == <<run, phase, working, forgotten, gone>>

Init == run = None /\ phase = "idle" /\ ~working /\ ~forgotten /\ gone = {}

Start(r) ==
    /\ run = None /\ r \notin gone
    /\ run' = r /\ phase' = "running" /\ working' /\ ~forgotten' /\ r \in gone'

\* Also a run that is being cancelled may still ask.
Suspend ==
    /\ working /\ ~working'
    /\ phase' = "waiting_user_input" /\ UNCHANGED <<run, forgotten>>

Resume ==
    /\ phase = "waiting_user_input" /\ phase' = "running"
    /\ ~working /\ working' /\ UNCHANGED <<run, forgotten>>

Cancel ==
    /\ run # None
    /\ phase' = "cancelling" /\ UNCHANGED <<run, working, forgotten>>

\* A run is left without being finished only if it is being cancelled or if a reset
\* took the question that was being answered.
Leave ==
    /\ working /\ ~working'
    /\ phase' \in {phase, "cancelling"} /\ (phase' = "cancelling" \/ forgotten)
    /\ UNCHANGED <<run, forgotten>>

Forget ==
    /\ run # None /\ forgotten' /\ UNCHANGED <<run, phase, working>>

Finish ==
    /\ working /\ run' = None /\ phase' = "idle" /\ ~working' /\ ~forgotten'

Decline == UNCHANGED <<run, phase, working, forgotten>>

Next ==
    /\ gone \subseteq gone'
    /\ \/ (\E r \in Runs : Start(r)) \/ Suspend \/ Resume \/ Cancel
       \/ Leave \/ Forget \/ Finish \/ Decline

Spec == Init /\ [][Next]_vars
=============================================================================
