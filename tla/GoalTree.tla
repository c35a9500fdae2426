------------------------------ MODULE GoalTree ------------------------------
(***************************************************************************)
(* The goals and facts of a session (agent/memory.go), the tools that      *)
(* change them, the delegated worker that runs such tools too              *)
(* (agent/worker.go), and their way through the event log: what the log    *)
(* says (handler/runtime_state.go) is what a restarted server works with.  *)
(*                                                                         *)
(* Main loop and worker share one goroutine.  Next to it a WebSocket       *)
(* handler stops the run or resets the session, and the server restarts.   *)
(* A tool call changes the state under the manager's lock, emits the new   *)
(* state, and its result is emitted by the loop that called it: three      *)
(* steps.  The log is replayed as it grows: `replayed' is what             *)
(* deriveRuntimeStateFromMessages would return now, the queue between them *)
(* (EventPersist) being empty.  Descriptions, results, the text of facts   *)
(* and the report are left out.                                            *)
(***************************************************************************)
EXTENDS Naturals, Sequences, FiniteSets

CONSTANTS Keys,                 \* keys of facts
          MaxFacts, MaxGoals,   \* maxFacts, maxGoals
          MaxWorkerIterations,  \* maxWorkerIterations
          MaxIds                \* bound: goals ever added

ASSUME GoalTreeAssumption ==
    /\ IsFiniteSet(Keys)
    /\ MaxFacts \in Nat /\ MaxGoals \in Nat /\ MaxIds \in Nat
    /\ MaxWorkerIterations \in Nat \ {0}

Ids    == 1..MaxIds
NoGoal == 0                 \* no id given
Stray  == MaxIds + 1        \* an id that no goal has
Status == {"pending", "running", "closed"}     \* closed: complete or rejected
Goal   == [id : Ids, parent : Ids \cup {NoGoal, Stray}, st : Status, blocking : BOOLEAN]

VARIABLES
    goals,      \* SubgoalManager.Goals
    facts,      \* keys of WorkingMemory.Facts
    replayed,   \* goals and facts as the event log tells them
    lastId,     \* ids given out
    pc,         \* where the engine's goroutine is
    call,       \* the tool call being carried out
    cancelled,  \* the run's context is done
    child,      \* the worker: its goal, its iteration, the status of its row
    resetPc,    \* where a reset is
    wiped,      \* history: kinds of state reset and not written to the log since
    dirty,      \* history: a reset came between a change and the event that tells it
    promised    \* history: blocking roots the model was told of, open since then

vars == <<goals, facts, replayed, lastId, pc, call, cancelled, child, resetPc,
          wiped, dirty, promised>>

Loops   == {"turn", "wTurn"}
NoCall  == [tool |-> "none", loop |-> "turn"]
NoChild == [goal |-> NoGoal, iter |-> 0, row |-> "none", end |-> "none"]

Init ==
    /\ goals = <<>> /\ facts = {}
    /\ replayed = [goals |-> <<>>, facts |-> {}]
    /\ lastId = 0
    /\ pc = "none" /\ call = NoCall /\ cancelled = FALSE /\ child = NoChild
    /\ resetPc = "idle" /\ wiped = {} /\ dirty = FALSE /\ promised = {}

---------------------------------------------------------------------------
(* SubgoalManager.                                                         *)

IdsOf(gs)     == {gs[i].id : i \in DOMAIN gs}
First(gs, id) == CHOOSE i \in DOMAIN gs :
                    gs[i].id = id /\ \A k \in 1..(i - 1) : gs[k].id # id

\* UpdateGoalStatus: the first goal of that id, whatever its status is.
UpdateGoalStatus(gs, id, st) ==
    IF id \in IdsOf(gs) THEN [gs EXCEPT ![First(gs, id)].st = st] ELSE gs

\* Mutant: a goal that a worker was given counts as closed.
IsTerminal_Running(g) == g.st # "pending"

IsTerminal(g) == g.st = "closed"

\* snapshotLocked: a goal whose parent is not in the list is a root too.
IsRoot(gs, g) == g.parent \notin IdsOf(gs)

\* CanFinalize: an open blocking root always has an open branch to report.
CanFinalize(gs) ==
    \A i \in DOMAIN gs :
        IsRoot(gs, gs[i]) /\ gs[i].blocking => IsTerminal(gs[i])

---------------------------------------------------------------------------
(* The event log, replayed.                                                *)

\* state_subgoals_updated and state_memory_updated carry the whole state.
LogState(kind) ==
    /\ replayed' = IF kind = "goals" THEN [replayed EXCEPT !.goals = goals]
                                     ELSE [replayed EXCEPT !.facts = facts]
    /\ wiped' = IF dirty THEN wiped ELSE wiped \ {kind}
    /\ dirty' = FALSE

CloseAll(gs, id) ==
    [i \in DOMAIN gs |-> IF gs[i].id = id THEN [gs[i] EXCEPT !.st = "closed"] ELSE gs[i]]

\* A tool_result is replayed from the arguments of its call; the flag `blocking' is
\* not among the ones read.
ReplayResult(c) ==
    CASE c.tool = "add" ->
            [replayed EXCEPT !.goals = Append(@,
                [id |-> c.id, parent |-> c.parent, st |-> "pending", blocking |-> FALSE])]
      [] c.tool = "close" -> [replayed EXCEPT !.goals = CloseAll(@, c.id)]
      [] c.tool = "save"  -> [replayed EXCEPT !.facts = @ \cup {c.key}]

---------------------------------------------------------------------------
(* Engine.Run returns, and its context with it.                            *)

Return == pc' = "none" /\ cancelled' = FALSE

---------------------------------------------------------------------------
(* Tool calls, of the main loop (pc = "turn") or of a worker ("wTurn").    *)

\* retryableToolExec does not begin a call under a context that is done.
Calls(l) == pc = l /\ ~cancelled

Carry(c) == call' = c /\ pc' = "emit" /\ UNCHANGED dirty

\* goal_manage add.  At the limit the call fails and changes nothing.
AddGoal(l, parent, blocking) ==
    LET id == lastId + 1
    IN  /\ Calls(l) /\ lastId < MaxIds /\ Len(goals) < MaxGoals
        /\ lastId' = id
        /\ goals' = Append(goals, [id |-> id, parent |-> parent, st |-> "pending",
                                   blocking |-> blocking])
        /\ Carry([tool |-> "add", id |-> id, parent |-> parent, loop |-> l])
        /\ UNCHANGED <<facts, replayed, cancelled, child, resetPc, wiped, promised>>

\* goal_manage complete or reject.
CloseGoal(l, id) ==
    /\ Calls(l) /\ id \in IdsOf(goals)
    /\ goals' = UpdateGoalStatus(goals, id, "closed")
    /\ promised' = promised \ {id}
    /\ Carry([tool |-> "close", id |-> id, loop |-> l])
    /\ UNCHANGED <<facts, replayed, lastId, cancelled, child, resetPc, wiped>>

\* memory_save_fact.  At the limit only a known key may be written.
SaveFact(l, k) ==
    /\ Calls(l)
    /\ k \in facts \/ Cardinality(facts) < MaxFacts
    /\ facts' = facts \cup {k}
    /\ Carry([tool |-> "save", key |-> k, loop |-> l])
    /\ UNCHANGED <<goals, replayed, lastId, cancelled, child, resetPc, wiped, promised>>

\* The tool emits the state it finds now.
EmitState ==
    /\ pc = "emit" /\ pc' = "result"
    /\ LogState(IF call.tool = "save" THEN "facts" ELSE "goals")
    /\ UNCHANGED <<goals, facts, lastId, call, cancelled, child, resetPc, promised>>

\* The loop emits the result; the main loop then looks at its context again.
EmitResult ==
    /\ pc = "result" /\ call' = NoCall
    /\ IF call.loop = "turn" /\ cancelled THEN Return
                                          ELSE pc' = call.loop /\ UNCHANGED cancelled
    /\ replayed' = ReplayResult(call)
    /\ promised' =
         IF /\ call.tool = "add"
            /\ \E i \in DOMAIN goals :
                 /\ goals[i].id = call.id /\ goals[i].blocking
                 /\ goals[i].parent \notin IdsOf(goals)
         THEN promised \cup {call.id}
         ELSE promised
    /\ UNCHANGED <<goals, facts, lastId, child, resetPc, wiped, dirty>>

\* The main loop finds the context done after the call and returns.
DropResult ==
    /\ pc = "result" /\ call.loop = "turn" /\ cancelled
    /\ Return /\ call' = NoCall
    /\ UNCHANGED <<goals, facts, replayed, lastId, child, resetPc,
                   wiped, dirty, promised>>

---------------------------------------------------------------------------
(* The main loop.                                                          *)

StartRun ==
    /\ pc = "none" /\ pc' = "turn"
    /\ UNCHANGED <<goals, facts, replayed, lastId, call, cancelled, child, resetPc,
                   wiped, dirty, promised>>

EndRun ==
    /\ pc = "turn" /\ Return
    /\ UNCHANGED <<goals, facts, replayed, lastId, call, child, resetPc,
                   wiped, dirty, promised>>

\* report_finalize, when the report itself has no issues; the run ends with it.  It is
\* not run by retryableToolExec: a stopped run may still get here.
FinalizeReport ==
    /\ pc = "turn" /\ Return
    /\ CanFinalize(goals)
    /\ UNCHANGED <<goals, facts, replayed, lastId, call, child, resetPc,
                   wiped, dirty, promised>>

---------------------------------------------------------------------------
(* DelegateTaskTool.Execute.                                               *)

\* StartChildRun; the goal may be none, or no longer there.
Delegate(id) ==
    /\ Calls("turn")
    /\ child' = [goal |-> id, iter |-> 0, row |-> "running", end |-> "none"]
    /\ pc' = "wStart"
    /\ UNCHANGED <<goals, facts, replayed, lastId, call, cancelled, resetPc, wiped, dirty,
                   promised>>

\* The goal is running, whatever it was before.
WorkerStart ==
    /\ pc = "wStart"
    /\ goals' = UpdateGoalStatus(goals, child.goal, "running")
    /\ pc' = IF child.goal \in IdsOf(goals) THEN "wStartEmit" ELSE "wTop"
    /\ UNCHANGED <<facts, replayed, lastId, call, cancelled, child, resetPc, wiped, dirty,
                   promised>>

WorkerStartEmit ==
    /\ pc = "wStartEmit" /\ pc' = "wTop"
    /\ LogState("goals")
    /\ UNCHANGED <<goals, facts, lastId, call, cancelled, child, resetPc, promised>>

\* The goal goes back to pending, whatever it is, and that is emitted.
GiveUp(end) ==
    /\ goals' = UpdateGoalStatus(goals, child.goal, "pending")
    /\ child' = [child EXCEPT !.end = end]
    /\ pc' = IF child.goal = NoGoal THEN "wRow" ELSE "wEmit"
    /\ UNCHANGED <<facts, replayed, lastId, call, cancelled, resetPc, wiped, dirty, promised>>

\* The look at the context at the loop's top: stopped, or out of the worker's own time.
WorkerCancelled ==
    /\ pc = "wTop" /\ child.iter < MaxWorkerIterations
    /\ GiveUp("cancelled")

\* The model is called; a stop may land during the call.
WorkerAsk ==
    /\ pc = "wTop" /\ child.iter < MaxWorkerIterations /\ ~cancelled
    /\ pc' = "wAsk"
    /\ UNCHANGED <<goals, facts, replayed, lastId, call, cancelled, child, resetPc,
                   wiped, dirty, promised>>

\* Mutant: the goal's new status is not emitted.
WorkerModelFails_Silent ==
    /\ pc = "wAsk"
    /\ goals' = UpdateGoalStatus(goals, child.goal, "pending")
    /\ child' = [child EXCEPT !.end = "failed"]
    /\ pc' = "wRow"
    /\ UNCHANGED <<facts, replayed, lastId, call, cancelled, resetPc, wiped, dirty, promised>>

WorkerModelFails == pc = "wAsk" /\ GiveUp("failed")

WorkerEmit ==
    /\ pc = "wEmit" /\ pc' = "wRow"
    /\ LogState("goals")
    /\ UNCHANGED <<goals, facts, lastId, call, cancelled, child, resetPc, promised>>

\* The goal keeps its status: a final answer, no answer, or too many iterations.
WorkerEnds ==
    /\ pc' = "wRow"
    /\ \/ /\ pc = "wAsk"
          /\ \E end \in {"completed", "failed"} : child' = [child EXCEPT !.end = end]
       \/ /\ pc = "wTop" /\ child.iter = MaxWorkerIterations
          /\ child' = [child EXCEPT !.end = "failed"]
    /\ UNCHANGED <<goals, facts, replayed, lastId, call, cancelled, resetPc, wiped, dirty,
                   promised>>

\* The model answers, with tool calls or with nothing to act on.
WorkerTurn ==
    /\ pc = "wAsk"
    /\ child' = [child EXCEPT !.iter = @ + 1]
    /\ pc' \in {"wTurn", "wTop"}
    /\ UNCHANGED <<goals, facts, replayed, lastId, call, cancelled, resetPc, wiped, dirty,
                   promised>>

\* The calls of the answer have been made, or failed without an effect.
WorkerTurnEnds ==
    /\ pc = "wTurn" /\ pc' = "wTop"
    /\ UNCHANGED <<goals, facts, replayed, lastId, call, cancelled, child, resetPc,
                   wiped, dirty, promised>>

\* Mutant: only the row of a worker that was not cancelled is written.
WorkerRow_NotCancelled ==
    /\ pc = "wRow" /\ pc' = "wDone"
    /\ child' = IF child.end = "cancelled" THEN child ELSE [child EXCEPT !.row = child.end]
    /\ UNCHANGED <<goals, facts, replayed, lastId, call, cancelled, resetPc, wiped, dirty,
                   promised>>

\* UpdateChildRunStatus, under a context a stop does not end.
WorkerRow ==
    /\ pc = "wRow" /\ pc' = "wDone"
    /\ child' = [child EXCEPT !.row = child.end]
    /\ UNCHANGED <<goals, facts, replayed, lastId, call, cancelled, resetPc, wiped, dirty,
                   promised>>

\* Back in the main loop, which returns without a word if its context is done.
WorkerDone ==
    /\ pc = "wDone"
    /\ IF cancelled THEN Return ELSE pc' = "turn" /\ UNCHANGED cancelled
    /\ child' = [NoChild EXCEPT !.row = child.row]
    /\ UNCHANGED <<goals, facts, replayed, lastId, call, resetPc,
                   wiped, dirty, promised>>

---------------------------------------------------------------------------
(* The WebSocket handler, and restarts.                                    *)

Stop ==
    /\ pc # "none" /\ ~cancelled /\ cancelled' = TRUE
    /\ UNCHANGED <<goals, facts, replayed, lastId, pc, call, child, resetPc,
                   wiped, dirty, promised>>

\* Session.Reset: CancelRun, Memory.Reset, Subgoals.Reset, then the report.  Nothing of
\* it enters the log.
ResetCancel ==
    /\ resetPc = "idle" /\ resetPc' = "facts"
    /\ cancelled' = (pc # "none")
    /\ UNCHANGED <<goals, facts, replayed, lastId, pc, call, child,
                   wiped, dirty, promised>>

\* A change has been made that is not in the log yet.
Unlogged == pc \in {"emit", "wStartEmit", "wEmit"}

ResetFacts ==
    /\ resetPc = "facts" /\ resetPc' = "goals"
    /\ facts' = {} /\ wiped' = wiped \cup {"facts"} /\ dirty' = Unlogged
    /\ UNCHANGED <<goals, replayed, lastId, pc, call, cancelled, child, promised>>

ResetGoals ==
    /\ resetPc = "goals" /\ resetPc' = "idle"
    /\ goals' = <<>>
    /\ wiped' = wiped \cup {"goals"} /\ dirty' = Unlogged /\ promised' = {}
    /\ UNCHANGED <<facts, replayed, lastId, pc, call, cancelled, child>>

\* The server restarts and the session is opened again: hydrateSessionFromPersistence.
Restart ==
    /\ goals' = replayed.goals /\ facts' = replayed.facts
    /\ pc' = "none" /\ call' = NoCall /\ cancelled' = FALSE /\ child' = NoChild
    /\ resetPc' = "idle" /\ wiped' = {} /\ dirty' = FALSE
    /\ UNCHANGED <<replayed, lastId, promised>>

ToolStep ==
    \E l \in Loops :
        \/ \E parent \in IdsOf(goals) \cup {NoGoal, Stray}, b \in BOOLEAN : AddGoal(l, parent, b)
        \/ \E id \in Ids : CloseGoal(l, id)
        \/ \E k \in Keys : SaveFact(l, k)

WorkerStep ==
    \/ WorkerStart \/ WorkerStartEmit \/ WorkerCancelled \/ WorkerAsk \/ WorkerModelFails
    \/ WorkerEmit \/ WorkerEnds \/ WorkerTurn \/ WorkerTurnEnds \/ WorkerRow \/ WorkerDone

MainStep ==
    \/ StartRun \/ EndRun \/ FinalizeReport
    \/ \E id \in IdsOf(goals) \cup {NoGoal, Stray} : Delegate(id)

HandlerStep == Stop \/ ResetCancel \/ ResetFacts \/ ResetGoals

Next ==
    \/ MainStep \/ ToolStep \/ EmitState \/ EmitResult \/ DropResult
    \/ WorkerStep \/ HandlerStep \/ Restart

Spec == Init /\ [][Next]_vars

---------------------------------------------------------------------------
(* Properties.                                                             *)

Call ==
    [tool : {"add"}, id : Ids, parent : Ids \cup {NoGoal, Stray}, loop : Loops]
    \cup [tool : {"close"}, id : Ids, loop : Loops]
    \cup [tool : {"save"}, key : Keys, loop : Loops]

Child ==
    [goal : Ids \cup {NoGoal, Stray}, iter : 0..MaxWorkerIterations,
     row : {"none", "running", "completed", "failed", "cancelled"},
     end : {"none", "completed", "failed", "cancelled"}]

CallPcs   == {"emit", "result"}
WorkerPcs == {"wStart", "wStartEmit", "wTop", "wAsk", "wTurn", "wEmit", "wRow"}

\* Types; a tool call is under way exactly at the steps of one.
TypeOK ==
    /\ goals \in Seq(Goal) /\ facts \in SUBSET Keys
    /\ replayed \in [goals : Seq(Goal), facts : SUBSET Keys]
    /\ lastId \in 0..MaxIds
    /\ pc \in {"none", "turn", "wDone"} \cup CallPcs \cup WorkerPcs
    /\ IF pc \in CallPcs THEN call \in Call ELSE call = NoCall
    /\ cancelled \in BOOLEAN
    /\ child \in Child
    /\ resetPc \in {"idle", "facts", "goals"}
    /\ wiped \in SUBSET {"goals", "facts"} /\ dirty \in BOOLEAN
    /\ promised \in SUBSET Ids

\* The goals of a list; of an id that comes more than once the first counts.
Firsts(gs) == {gs[i] : i \in {j \in DOMAIN gs : \A k \in 1..(j - 1) : gs[k].id # gs[j].id}}

FactsAgree == "facts" \notin wiped => facts = replayed.facts
GoalsAgree == "goals" \notin wiped => Firsts(goals) = Firsts(replayed.goals)

\* Between two tool calls the event log tells what the session holds: the same facts, the
\* same goals with the same status, parent and blocking flag.  A restart at that moment
\* loses nothing (agent/worker.go, handler/runtime_state.go).  State that a reset has
\* cleared is excepted until it is written again: a reset leaves no trace in the log.
ReplayAgrees ==
    pc \in {"none", "turn", "wTop", "wAsk", "wTurn", "wRow"} => FactsAgree /\ GoalsAgree

\* A blocking root goal that the model was told of (its tool_result was emitted) keeps
\* the report from being finalized until goal_manage closes it or the session is reset:
\* no stop, worker or restart on the way opens the gate (agent/memory.go CanFinalize).
GateHonoursPlan == CanFinalize(goals) => promised = {}

\* maxGoals and maxFacts hold through restarts: replay puts at most the goal added last
\* on top of a full list, and no fact (agent/memory.go, handler/runtime_state.go).
Limits == Len(goals) <= MaxGoals + 1 /\ Cardinality(facts) <= MaxFacts

\* A delegated run is not left `running' in the database once its worker is back in the
\* main loop, however the worker ended (agent/worker.go).
ChildSettled == pc \in {"none", "turn"} => child.row # "running"
==============================================================================
