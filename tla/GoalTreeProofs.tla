--------------------------- MODULE GoalTreeProofs ---------------------------
(***************************************************************************)
(* For every number of goals, facts and iterations: the types of GoalTree, *)
(* the promise of the finalize gate, the limits, and the settled child.    *)
(***************************************************************************)
EXTENDS GoalTree, TLAPS, FiniteSetTheorems, WellFoundedInduction

---------------------------------------------------------------------------
(* The inductive invariant.                                                *)

\* Every goal of P is an open blocking root of the list.
Holds(gs, P) ==
    \A id \in P : \E i \in DOMAIN gs :
        /\ gs[i].id = id /\ gs[i].blocking /\ gs[i].st # "closed"
        /\ gs[i].parent \notin IdsOf(gs)

\* No id is used before it is given out, as a parent neither.
Known(gs, n) ==
    \A i \in DOMAIN gs : gs[i].id <= n /\ (gs[i].parent <= n \/ gs[i].parent = Stray)

Emptied == goals = <<>> /\ promised = {}

AddOK ==
    pc \in CallPcs /\ call.tool = "add" =>
        /\ call.id <= lastId /\ (call.parent <= lastId \/ call.parent = Stray)
        /\ Len(goals) <= MaxGoals
        /\ \A i \in DOMAIN goals : goals[i].id = call.id => goals[i].st # "closed"
        /\ Emptied \/ call.id \in IdsOf(goals)
        /\ pc = "result" => Len(replayed.goals) <= MaxGoals /\ (Emptied \/ replayed.goals = goals)

CloseOK == pc \in CallPcs /\ call.tool = "close" => call.id \notin promised

SaveOK ==
    pc \in CallPcs /\ call.tool = "save" =>
        /\ MaxFacts > 0
        /\ facts = {} \/ call.key \in facts
        /\ pc = "result" => replayed.facts = {} \/ call.key \in replayed.facts

ChildOK ==
    /\ pc \in {"none", "turn", "wDone"} => child.row # "running"
    /\ pc \in CallPcs /\ call.loop = "turn" => child.row # "running"
    /\ pc = "wAsk" => child.iter < MaxWorkerIterations

GoalsOK ==
    /\ Holds(goals, promised) /\ Holds(replayed.goals, promised)
    /\ Known(goals, lastId) /\ Known(replayed.goals, lastId)

SizesOK ==
    /\ Len(goals) <= MaxGoals + 1 /\ Len(replayed.goals) <= MaxGoals + 1
    /\ Cardinality(facts) <= MaxFacts /\ Cardinality(replayed.facts) <= MaxFacts

IInv == TypeOK /\ GoalsOK /\ SizesOK /\ AddOK /\ CloseOK /\ SaveOK /\ ChildOK

---------------------------------------------------------------------------
(* Lists of goals.                                                         *)

\* The ids of a list are ids.
LEMMA IdsOfType ==
    ASSUME NEW gs \in Seq(Goal)
    PROVE  IdsOf(gs) \subseteq Ids
<1> SUFFICES ASSUME NEW i \in DOMAIN gs PROVE gs[i].id \in Ids
  BY DEF IdsOf
<1>1. gs[i] \in Goal
  OBVIOUS
<1> QED BY <1>1 DEF Goal

\* First finds a goal whose id is in the list, and none before it has that id.
LEMMA FirstExists ==
    ASSUME NEW gs \in Seq(Goal), NEW id \in IdsOf(gs)
    PROVE  /\ First(gs, id) \in DOMAIN gs /\ gs[First(gs, id)].id = id
           /\ \A k \in 1..(First(gs, id) - 1) : gs[k].id # id
<1> DEFINE T == {i \in DOMAIN gs : gs[i].id = id}
           R == {ss \in Nat \X Nat : ss[1] < ss[2]}
<1>1. T \subseteq Nat /\ T # {}
  BY DEF IdsOf
<1>2. IsWellFoundedOn(R, Nat)
  BY NatLessThanWellFounded DEF OpToRel
<1>3. \E x \in T : \A y \in T : ~ (<<y, x>> \in R)
  <2> HIDE DEF T, R
  <2> QED BY <1>1, <1>2, WFMin
<1>4. PICK x \in T : \A y \in T : ~ (<<y, x>> \in R)
  BY <1>3
<1>5. x \in DOMAIN gs /\ gs[x].id = id
  OBVIOUS
<1>6. ASSUME NEW k \in 1..(x - 1), gs[k].id = id PROVE FALSE
  <2>1. k \in T
    BY <1>5, <1>6
  <2>2. <<k, x>> \in Nat \X Nat /\ k < x
    BY <1>5, <1>6
  <2> QED BY <2>1, <2>2, <1>4
<1> QED BY <1>5, <1>6 DEF First

\* UpdateGoalStatus changes the status of at most one goal, of that id.
LEMMA UpdateGoalStatusOK ==
    ASSUME NEW gs \in Seq(Goal), NEW id, NEW st \in Status
    PROVE  LET u == UpdateGoalStatus(gs, id, st) IN
           /\ u \in Seq(Goal) /\ Len(u) = Len(gs) /\ DOMAIN u = DOMAIN gs
           /\ IdsOf(u) = IdsOf(gs)
           /\ \A i \in DOMAIN gs :
                /\ u[i].id = gs[i].id /\ u[i].parent = gs[i].parent
                /\ u[i].blocking = gs[i].blocking
                /\ u[i].st = gs[i].st \/ (u[i].st = st /\ gs[i].id = id)
<1>1. CASE id \notin IdsOf(gs)
  BY <1>1 DEF UpdateGoalStatus
<1>2. CASE id \in IdsOf(gs)
  <2> DEFINE f == First(gs, id)
             u == [gs EXCEPT ![f].st = st]
  <2>1. f \in DOMAIN gs /\ gs[f].id = id
    BY <1>2, FirstExists
  <2> HIDE DEF f
  <2>2. gs[f] \in Goal
    BY <2>1
  <2>3. [gs[f] EXCEPT !.st = st] \in Goal
    BY <2>2 DEF Goal
  <2>4. u \in Seq(Goal) /\ Len(u) = Len(gs) /\ DOMAIN u = DOMAIN gs
    BY <2>1, <2>3
  <2>5. \A i \in DOMAIN gs :
           /\ u[i].id = gs[i].id /\ u[i].parent = gs[i].parent
           /\ u[i].blocking = gs[i].blocking
           /\ u[i].st = gs[i].st \/ (u[i].st = st /\ gs[i].id = id)
    BY <2>1, <2>2 DEF Goal
  <2>6. IdsOf(u) = IdsOf(gs)
    BY <2>4, <2>5 DEF IdsOf
  <2>7. UpdateGoalStatus(gs, id, st) = u
    BY <1>2 DEF UpdateGoalStatus, f
  <2> HIDE DEF u
  <2> QED BY <2>4, <2>5, <2>6, <2>7
<1> QED BY <1>1, <1>2

\* So does CloseAll, for every goal of that id.
LEMMA CloseAllOK ==
    ASSUME NEW gs \in Seq(Goal), NEW id
    PROVE  LET u == CloseAll(gs, id) IN
           /\ u \in Seq(Goal) /\ Len(u) = Len(gs) /\ DOMAIN u = DOMAIN gs
           /\ IdsOf(u) = IdsOf(gs)
           /\ \A i \in DOMAIN gs :
                /\ u[i].id = gs[i].id /\ u[i].parent = gs[i].parent
                /\ u[i].blocking = gs[i].blocking
                /\ u[i].st = gs[i].st \/ gs[i].id = id
<1> DEFINE u == CloseAll(gs, id)
<1>1. \A i \in DOMAIN gs : gs[i] \in Goal /\ [gs[i] EXCEPT !.st = "closed"] \in Goal
  <2> TAKE i \in DOMAIN gs
  <2>1. gs[i] \in Goal
    OBVIOUS
  <2> QED BY <2>1 DEF Goal, Status
<1>2. u = [i \in 1..Len(gs) |-> IF gs[i].id = id THEN [gs[i] EXCEPT !.st = "closed"] ELSE gs[i]]
  BY DEF CloseAll
<1>3. u \in Seq(Goal) /\ Len(u) = Len(gs) /\ DOMAIN u = DOMAIN gs
  BY <1>1, <1>2
<1>4. \A i \in DOMAIN gs :
         /\ u[i].id = gs[i].id /\ u[i].parent = gs[i].parent
         /\ u[i].blocking = gs[i].blocking
         /\ u[i].st = gs[i].st \/ gs[i].id = id
  BY <1>1, <1>2 DEF Goal
<1>5. IdsOf(u) = IdsOf(gs)
  BY <1>3, <1>4 DEF IdsOf
<1> HIDE DEF u
<1>6. QED BY <1>3, <1>4, <1>5 DEF u

\* What a list holds survives a change of status that closes nothing promised.
LEMMA HoldsSameShape ==
    ASSUME NEW gs \in Seq(Goal), NEW u \in Seq(Goal), NEW P, Holds(gs, P),
           DOMAIN u = DOMAIN gs, IdsOf(u) = IdsOf(gs),
           \A i \in DOMAIN gs :
              /\ u[i].id = gs[i].id /\ u[i].parent = gs[i].parent
              /\ u[i].blocking = gs[i].blocking
              /\ u[i].st = gs[i].st \/ u[i].st # "closed" \/ gs[i].id \notin P
    PROVE  Holds(u, P)
BY DEF Holds

\* An added goal takes no promised goal below it.
LEMMA HoldsAppend ==
    ASSUME NEW gs \in Seq(Goal), NEW g \in Goal, NEW P, Holds(gs, P),
           g.id \in IdsOf(gs) \/ \A i \in DOMAIN gs : gs[i].parent # g.id
    PROVE  Holds(Append(gs, g), P)
<1> DEFINE u == Append(gs, g)
<1>1. DOMAIN u = 1..(Len(gs) + 1) /\ DOMAIN gs = 1..Len(gs)
  OBVIOUS
<1>2. \A i \in DOMAIN gs : i \in DOMAIN u /\ u[i] = gs[i]
  OBVIOUS
<1>3. u[Len(gs) + 1] = g
  OBVIOUS
<1>4. IdsOf(u) = IdsOf(gs) \cup {g.id}
  BY <1>1, <1>2, <1>3 DEF IdsOf
<1> HIDE DEF u
<1>5. SUFFICES ASSUME NEW id \in P
               PROVE \E i \in DOMAIN u : /\ u[i].id = id /\ u[i].blocking /\ u[i].st # "closed"
                                         /\ u[i].parent \notin IdsOf(u)
  BY DEF Holds, u
<1>6. PICK i \in DOMAIN gs : /\ gs[i].id = id /\ gs[i].blocking /\ gs[i].st # "closed"
                             /\ gs[i].parent \notin IdsOf(gs)
  BY DEF Holds
<1>7. u[i].parent \notin IdsOf(u)
  BY <1>2, <1>4, <1>6
<1> QED BY <1>2, <1>6, <1>7

\* The gate is shut while something promised is open.
LEMMA GateFromHolds ==
    ASSUME NEW gs \in Seq(Goal), NEW P, Holds(gs, P), CanFinalize(gs)
    PROVE  P = {}
BY DEF Holds, CanFinalize, IsRoot, IsTerminal

---------------------------------------------------------------------------
(* The first state, and the steps that leave lists and log alone.          *)

\* The empty session satisfies the invariant.
LEMMA InitIInv == Init => IInv
<1> SUFFICES ASSUME Init PROVE IInv
  OBVIOUS
<1> USE GoalTreeAssumption
<1>1. TypeOK
  <2>1. NoChild \in Child
    BY DEF NoChild, Child
  <2>2. goals \in Seq(Goal) /\ replayed \in [goals : Seq(Goal), facts : SUBSET Keys]
    BY DEF Init
  <2>3. pc = "none" /\ pc \notin CallPcs /\ call = NoCall
    BY DEF Init, CallPcs
  <2>4. facts \in SUBSET Keys /\ lastId \in 0..MaxIds /\ promised \in SUBSET Ids
    BY DEF Init
  <2> QED BY <2>1, <2>2, <2>3, <2>4 DEF Init, TypeOK
<1>2. GoalsOK
  BY DEF Init, GoalsOK, Holds, Known
<1>3. SizesOK
  BY FS_EmptySet DEF Init, SizesOK
<1>4. AddOK /\ CloseOK /\ SaveOK /\ ChildOK
  BY DEF Init, AddOK, CloseOK, SaveOK, ChildOK, CallPcs, NoChild
<1> QED BY <1>1, <1>2, <1>3, <1>4 DEF IInv

\* A step that neither changes the lists nor enters a tool call.
LEMMA QuietStep ==
    ASSUME IInv, TypeOK', ChildOK', UNCHANGED <<goals, facts, replayed, lastId, promised>>,
           pc' \notin CallPcs \/ UNCHANGED <<pc, call>>
    PROVE  IInv'
<1>1. GoalsOK'
  BY DEF IInv, GoalsOK, Holds, Known, IdsOf
<1>2. SizesOK'
  BY DEF IInv, SizesOK
<1>3. AddOK' /\ CloseOK' /\ SaveOK'
  <2>1. CASE pc' \notin CallPcs
    BY <2>1 DEF AddOK, CloseOK, SaveOK, CallPcs
  <2>2. CASE UNCHANGED <<pc, call>>
    BY <2>2 DEF IInv, AddOK, CloseOK, SaveOK, CallPcs, Emptied, IdsOf
  <2> QED BY <2>1, <2>2
<1> QED BY <1>1, <1>2, <1>3 DEF IInv

\* The steps of main loop, worker and handler that change neither lists nor log.
LEMMA QuietSteps ==
    ASSUME IInv,
           \/ StartRun \/ EndRun \/ FinalizeReport \/ DropResult
           \/ \E id \in IdsOf(goals) \cup {NoGoal, Stray} : Delegate(id)
           \/ WorkerAsk \/ WorkerEnds \/ WorkerTurn \/ WorkerTurnEnds \/ WorkerRow
           \/ WorkerDone \/ Stop \/ ResetCancel \/ UNCHANGED vars
    PROVE  IInv'
<1> USE GoalTreeAssumption
<1>0. TypeOK /\ ChildOK
  BY DEF IInv
<1>1. CASE StartRun \/ EndRun \/ FinalizeReport \/ DropResult
  <2>1. TypeOK'
    BY <1>0, <1>1 DEF TypeOK, StartRun, EndRun, FinalizeReport, DropResult, Return, CallPcs, WorkerPcs
  <2>2. ChildOK'
    BY <1>0, <1>1 DEF ChildOK, StartRun, EndRun, FinalizeReport, DropResult, Return, CallPcs
  <2> QED
    BY <1>1, <2>1, <2>2, QuietStep
       DEF StartRun, EndRun, FinalizeReport, DropResult, Return, CallPcs
<1>2. ASSUME NEW id \in IdsOf(goals) \cup {NoGoal, Stray}, Delegate(id) PROVE IInv'
  <2>0. id \in Ids \cup {NoGoal, Stray}
    BY <1>0, <1>2, IdsOfType DEF TypeOK
  <2>1. TypeOK'
    <3>1. child' \in Child
      BY <1>2, <2>0 DEF Delegate, Child
    <3> QED BY <1>0, <1>2, <3>1 DEF TypeOK, Delegate, Calls, CallPcs, WorkerPcs
  <2>2. ChildOK'
    BY <1>2 DEF ChildOK, Delegate, CallPcs
  <2> QED BY <1>2, <2>1, <2>2, QuietStep DEF Delegate, CallPcs
<1>3. CASE WorkerAsk \/ WorkerEnds \/ WorkerTurn
  <2>1. TypeOK'
    <3>1. child' \in Child
      BY <1>0, <1>3 DEF TypeOK, ChildOK, WorkerAsk, WorkerEnds, WorkerTurn, Child
    <3> QED BY <1>0, <1>3, <3>1 DEF TypeOK, WorkerAsk, WorkerEnds, WorkerTurn, CallPcs, WorkerPcs
  <2>2. ChildOK'
    BY <1>0, <1>3 DEF ChildOK, WorkerAsk, WorkerEnds, WorkerTurn, CallPcs
  <2> QED BY <1>3, <2>1, <2>2, QuietStep DEF WorkerAsk, WorkerEnds, WorkerTurn, CallPcs
<1>4. CASE WorkerTurnEnds \/ WorkerRow \/ WorkerDone
  <2>1. TypeOK'
    <3>1. CASE WorkerTurnEnds
      BY <1>0, <3>1 DEF TypeOK, WorkerTurnEnds, CallPcs, WorkerPcs
    <3>2. CASE WorkerRow
      <4>1. child' \in Child
        BY <1>0, <3>2 DEF TypeOK, WorkerRow, Child
      <4> QED BY <1>0, <3>2, <4>1 DEF TypeOK, WorkerRow, CallPcs, WorkerPcs
    <3>3. CASE WorkerDone
      <4>1. child' \in Child
        BY <1>0, <3>3 DEF TypeOK, WorkerDone, NoChild, Child
      <4> QED BY <1>0, <3>3, <4>1 DEF TypeOK, WorkerDone, Return, CallPcs, WorkerPcs
    <3> QED BY <1>4, <3>1, <3>2, <3>3
  <2>2. ChildOK'
    BY <1>0, <1>4 DEF TypeOK, Child, ChildOK, WorkerTurnEnds, WorkerRow, WorkerDone, Return,
                      NoChild, CallPcs
  <2> QED BY <1>4, <2>1, <2>2, QuietStep DEF WorkerTurnEnds, WorkerRow, WorkerDone, Return, CallPcs
<1>5. CASE Stop \/ ResetCancel \/ UNCHANGED vars
  <2>1. TypeOK'
    BY <1>0, <1>5 DEF TypeOK, Stop, ResetCancel, vars
  <2>2. ChildOK'
    BY <1>0, <1>5 DEF ChildOK, Stop, ResetCancel, vars
  <2> QED BY <1>5, <2>1, <2>2, QuietStep DEF Stop, ResetCancel, vars
<1> QED BY <1>1, <1>2, <1>3, <1>4, <1>5

---------------------------------------------------------------------------
(* The worker and its goal.                                                *)

\* The goal of a worker changes to a status that is not final.
LEMMA WorkerGoalStep ==
    ASSUME IInv, TypeOK', ChildOK', NEW st \in {"running", "pending"},
           goals' = UpdateGoalStatus(goals, child.goal, st), pc' \notin CallPcs,
           UNCHANGED <<facts, replayed, lastId, promised>>
    PROVE  IInv'
<1> DEFINE u == UpdateGoalStatus(goals, child.goal, st)
<1>0. goals \in Seq(Goal) /\ goals' \in Seq(Goal) /\ GoalsOK /\ SizesOK
  BY DEF IInv, TypeOK
<1>1. /\ u = goals' /\ Len(u) = Len(goals) /\ DOMAIN u = DOMAIN goals
      /\ IdsOf(u) = IdsOf(goals)
      /\ \A i \in DOMAIN goals :
           /\ u[i].id = goals[i].id /\ u[i].parent = goals[i].parent
           /\ u[i].blocking = goals[i].blocking
           /\ u[i].st = goals[i].st \/ u[i].st # "closed"
  BY <1>0, UpdateGoalStatusOK DEF Status
<1> HIDE DEF u
<1>2. Holds(u, promised)
  BY <1>0, <1>1, HoldsSameShape DEF GoalsOK
<1>3. Known(u, lastId)
  BY <1>0, <1>1 DEF GoalsOK, Known
<1>4. GoalsOK'
  <2>1. Holds(goals', promised') /\ Known(goals', lastId')
    BY <1>1, <1>2, <1>3
  <2>2. Holds(replayed.goals', promised') /\ Known(replayed.goals', lastId')
    BY <1>0 DEF GoalsOK
  <2> QED BY <2>1, <2>2 DEF GoalsOK, Holds, Known, IdsOf
<1>5. SizesOK'
  BY <1>0, <1>1 DEF SizesOK
<1>6. AddOK' /\ CloseOK' /\ SaveOK'
  BY DEF AddOK, CloseOK, SaveOK
<1> QED BY <1>4, <1>5, <1>6 DEF IInv

\* A worker's state event: the log tells the goals as they are.
LEMMA WorkerLogStep ==
    ASSUME IInv, TypeOK', ChildOK', LogState("goals"), pc' \notin CallPcs,
           UNCHANGED <<goals, facts, lastId, promised>>
    PROVE  IInv'
<1>0. GoalsOK /\ SizesOK /\ replayed \in [goals : Seq(Goal), facts : SUBSET Keys]
  BY DEF IInv, TypeOK
<1>1. replayed'.goals = goals /\ replayed'.facts = replayed.facts
  BY <1>0 DEF LogState
<1>2. GoalsOK'
  BY <1>0, <1>1 DEF GoalsOK, Holds, Known, IdsOf
<1>3. SizesOK'
  BY <1>0, <1>1 DEF SizesOK
<1>4. AddOK' /\ CloseOK' /\ SaveOK'
  BY DEF AddOK, CloseOK, SaveOK
<1> QED BY <1>2, <1>3, <1>4 DEF IInv

\* The worker's steps that change its goal or tell the log of it.
LEMMA WorkerSteps ==
    ASSUME IInv,
           \/ WorkerStart \/ WorkerStartEmit \/ WorkerCancelled \/ WorkerModelFails
           \/ WorkerEmit
    PROVE  IInv'
<1> USE GoalTreeAssumption
<1>0. TypeOK /\ ChildOK /\ child \in Child
  BY DEF IInv, TypeOK
<1>1. CASE WorkerStart
  <2>1. goals' \in Seq(Goal)
    BY <1>0, <1>1, UpdateGoalStatusOK DEF WorkerStart, TypeOK, Status
  <2>2. TypeOK'
    BY <1>0, <1>1, <2>1 DEF TypeOK, WorkerStart, CallPcs, WorkerPcs
  <2>3. ChildOK' /\ pc' \notin CallPcs
    BY <1>1 DEF ChildOK, WorkerStart, CallPcs
  <2> QED BY <1>1, <2>2, <2>3, WorkerGoalStep DEF WorkerStart
<1>2. CASE WorkerCancelled \/ WorkerModelFails
  <2>0. PICK end \in {"cancelled", "failed"} : GiveUp(end) /\ pc \in {"wTop", "wAsk"}
    BY <1>2 DEF WorkerCancelled, WorkerModelFails
  <2>1. goals' \in Seq(Goal)
    BY <1>0, <2>0, UpdateGoalStatusOK DEF GiveUp, TypeOK, Status
  <2>2. child' \in Child
    BY <1>0, <2>0 DEF GiveUp, Child
  <2>3. TypeOK'
    BY <1>0, <2>0, <2>1, <2>2 DEF TypeOK, GiveUp, CallPcs, WorkerPcs
  <2>4. ChildOK' /\ pc' \notin CallPcs
    BY <2>0 DEF ChildOK, GiveUp, CallPcs
  <2> QED BY <2>0, <2>3, <2>4, WorkerGoalStep DEF GiveUp
<1>3. CASE WorkerStartEmit \/ WorkerEmit
  <2>0. LogState("goals") /\ pc' \in {"wTop", "wRow"} /\ pc \notin CallPcs
    BY <1>3 DEF WorkerStartEmit, WorkerEmit, CallPcs
  <2>1. replayed' \in [goals : Seq(Goal), facts : SUBSET Keys]
    BY <1>0, <2>0 DEF LogState, TypeOK
  <2>2. wiped' \in SUBSET {"goals", "facts"} /\ dirty' \in BOOLEAN
    BY <1>0, <2>0 DEF LogState, TypeOK
  <2>3. TypeOK'
    BY <1>0, <1>3, <2>0, <2>1, <2>2 DEF TypeOK, WorkerStartEmit, WorkerEmit, CallPcs, WorkerPcs
  <2>4. ChildOK' /\ pc' \notin CallPcs
    BY <2>0 DEF ChildOK, CallPcs
  <2> QED BY <1>3, <2>0, <2>3, <2>4, WorkerLogStep DEF WorkerStartEmit, WorkerEmit
<1> QED BY <1>1, <1>2, <1>3

---------------------------------------------------------------------------
(* Resets and restarts.                                                    *)

\* Clearing facts or goals keeps the invariant: nothing stays promised.
LEMMA ResetSteps ==
    ASSUME IInv, ResetFacts \/ ResetGoals
    PROVE  IInv'
<1> USE GoalTreeAssumption
<1>0. TypeOK /\ GoalsOK /\ SizesOK /\ AddOK /\ CloseOK /\ SaveOK /\ ChildOK
  BY DEF IInv
<1>1. TypeOK'
  <2>0. Unlogged \in BOOLEAN
    BY DEF Unlogged
  <2>1. dirty' \in BOOLEAN
    BY <2>0, Zenon DEF ResetFacts, ResetGoals
  <2>2. goals' \in Seq(Goal) /\ facts' \in SUBSET Keys /\ promised' \in SUBSET Ids
    <3>1. CASE ResetFacts
      BY <1>0, <3>1 DEF TypeOK, ResetFacts
    <3>2. CASE ResetGoals
      BY <1>0, <3>2 DEF TypeOK, ResetGoals
    <3> QED BY <3>1, <3>2
  <2> QED BY <1>0, <2>1, <2>2 DEF TypeOK, ResetFacts, ResetGoals, CallPcs
<1>2. GoalsOK'
  BY <1>0 DEF GoalsOK, Holds, Known, IdsOf, ResetFacts, ResetGoals
<1>3. SizesOK'
  <2>1. Cardinality(facts') <= MaxFacts
    <3>1. facts' = {} \/ facts' = facts
      BY DEF ResetFacts, ResetGoals
    <3>2. Cardinality({}) <= MaxFacts
      BY FS_EmptySet
    <3> QED BY <1>0, <3>1, <3>2 DEF SizesOK
  <2>2. Len(goals') <= MaxGoals + 1
    BY <1>0 DEF SizesOK, ResetFacts, ResetGoals
  <2> QED BY <1>0, <2>1, <2>2 DEF SizesOK, ResetFacts, ResetGoals
<1>4. AddOK'
  <2>1. CASE ResetFacts
    BY <1>0, <2>1 DEF AddOK, ResetFacts, Emptied, IdsOf, CallPcs
  <2>2. CASE ResetGoals
    BY <1>0, <2>2 DEF AddOK, ResetGoals, Emptied, CallPcs
  <2> QED BY <2>1, <2>2
<1>5. CloseOK' /\ SaveOK'
  BY <1>0 DEF CloseOK, SaveOK, ResetFacts, ResetGoals, CallPcs
<1>6. ChildOK'
  BY <1>0 DEF ChildOK, ResetFacts, ResetGoals, CallPcs
<1> QED BY <1>1, <1>2, <1>3, <1>4, <1>5, <1>6 DEF IInv

\* A restart works with what the log tells.
LEMMA RestartStep ==
    ASSUME IInv, Restart
    PROVE  IInv'
<1> USE GoalTreeAssumption
<1>0. TypeOK /\ GoalsOK /\ SizesOK
  BY DEF IInv
<1>1. TypeOK'
  <2>1. NoChild \in Child
    BY DEF NoChild, Child
  <2>2. goals' \in Seq(Goal) /\ facts' \in SUBSET Keys
    BY <1>0 DEF TypeOK, Restart
  <2> QED BY <1>0, <2>1, <2>2 DEF TypeOK, Restart, CallPcs
<1>2. GoalsOK'
  BY <1>0 DEF GoalsOK, Holds, Known, IdsOf, Restart
<1>3. SizesOK'
  BY <1>0 DEF SizesOK, Restart
<1>4. AddOK' /\ CloseOK' /\ SaveOK' /\ ChildOK'
  BY DEF AddOK, CloseOK, SaveOK, ChildOK, Restart, CallPcs, NoChild
<1> QED BY <1>1, <1>2, <1>3, <1>4 DEF IInv

---------------------------------------------------------------------------
(* Tool calls.                                                             *)

\* A new goal has a new id, so that it takes no root below it.
LEMMA AddGoalStep ==
    ASSUME IInv, NEW l \in Loops, NEW parent \in IdsOf(goals) \cup {NoGoal, Stray},
           NEW blocking \in BOOLEAN, AddGoal(l, parent, blocking)
    PROVE  IInv'
<1> USE GoalTreeAssumption
<1> DEFINE id == lastId + 1
           g  == [id |-> id, parent |-> parent, st |-> "pending", blocking |-> blocking]
<1>0. TypeOK /\ GoalsOK /\ SizesOK /\ ChildOK /\ goals \in Seq(Goal) /\ lastId \in 0..MaxIds
  BY DEF IInv, TypeOK
<1>1. id \in Ids /\ id \in Nat /\ lastId \in Nat /\ id # Stray /\ lastId < id /\ lastId' = id
  BY <1>0 DEF AddGoal, Ids, Stray
<1>2. parent \in Ids \cup {NoGoal, Stray} /\ (parent <= lastId \/ parent = Stray)
  <2>1. CASE parent \in IdsOf(goals)
    BY <1>0, <2>1, IdsOfType DEF GoalsOK, Known, IdsOf
  <2>2. CASE parent \in {NoGoal, Stray}
    BY <1>1, <2>2 DEF NoGoal
  <2> QED BY <2>1, <2>2
<1>3. g \in Goal
  BY <1>1, <1>2 DEF Goal, Status
<1>4. goals' = Append(goals, g) /\ call' = [tool |-> "add", id |-> id, parent |-> parent, loop |-> l]
  BY DEF AddGoal, Carry
<1>5. call' \in Call /\ pc' = "emit"
  BY <1>1, <1>2, <1>4 DEF Call, AddGoal, Carry
<1> HIDE DEF id, g
<1>6. goals' \in Seq(Goal) /\ Len(goals') = Len(goals) + 1
  BY <1>0, <1>3, <1>4
<1>7. TypeOK'
  BY <1>0, <1>1, <1>5, <1>6 DEF TypeOK, AddGoal, Carry, CallPcs, WorkerPcs, Ids
<1>8. g.id = id /\ g.parent = parent /\ g.st = "pending"
  BY DEF g
<1>9. \A i \in DOMAIN goals' : (i \in DOMAIN goals /\ goals'[i] = goals[i]) \/ goals'[i] = g
  BY <1>0, <1>3, <1>4
<1>10. \A i \in DOMAIN goals : goals[i] \in Goal /\ goals[i].id \in Nat /\ goals[i].parent \in Nat
  <2> TAKE i \in DOMAIN goals
  <2>1. goals[i] \in Goal
    BY <1>0
  <2> QED BY <2>1 DEF Goal, Ids, NoGoal, Stray
<1>11. GoalsOK'
  <2>1. \A i \in DOMAIN goals : goals[i].parent # id
    BY <1>0, <1>1, <1>10 DEF GoalsOK, Known
  <2>2. Holds(goals', promised)
    BY <1>0, <1>3, <1>4, <1>8, <2>1, HoldsAppend DEF GoalsOK
  <2>3. Known(goals', id)
    <3> SUFFICES ASSUME NEW i \in DOMAIN goals'
                 PROVE  /\ goals'[i].id <= id
                        /\ goals'[i].parent <= id \/ goals'[i].parent = Stray
      BY DEF Known
    <3>1. CASE i \in DOMAIN goals /\ goals'[i] = goals[i]
      BY <1>0, <1>1, <1>10, <3>1 DEF GoalsOK, Known
    <3>2. CASE goals'[i] = g
      <4>1. parent \in Nat
        BY <1>2 DEF Ids, NoGoal, Stray
      <4> QED BY <1>1, <1>2, <1>8, <3>2, <4>1
    <3> QED BY <1>9, <3>1, <3>2
  <2>4. Known(replayed.goals, id)
    <3> SUFFICES ASSUME NEW i \in DOMAIN replayed.goals
                 PROVE  /\ replayed.goals[i].id <= id
                        /\ replayed.goals[i].parent <= id \/ replayed.goals[i].parent = Stray
      BY DEF Known
    <3>1. replayed.goals[i] \in Goal
      BY <1>0 DEF TypeOK
    <3>2. replayed.goals[i].id \in Nat /\ replayed.goals[i].parent \in Nat
      BY <3>1 DEF Goal, Ids, NoGoal, Stray
    <3> QED BY <1>0, <1>1, <3>2 DEF GoalsOK, Known
  <2>5. UNCHANGED <<replayed, promised>>
    BY DEF AddGoal
  <2> QED BY <1>0, <1>1, <2>2, <2>3, <2>4, <2>5 DEF GoalsOK
<1>12. Len(goals') <= MaxGoals
  BY <1>0, <1>6 DEF AddGoal
<1>13. SizesOK'
  BY <1>0, <1>6, <1>12 DEF SizesOK, AddGoal
<1>14. AddOK'
  <2>1. \A i \in DOMAIN goals' : goals'[i].id = id => goals'[i].st # "closed"
    BY <1>0, <1>1, <1>8, <1>9, <1>10 DEF GoalsOK, Known
  <2>2. Len(goals) + 1 \in DOMAIN goals' /\ goals'[Len(goals) + 1] = g
    BY <1>0, <1>3, <1>4
  <2>3. id \in IdsOf(goals)'
    BY <1>8, <2>2 DEF IdsOf
  <2>4. call'.id = id /\ call'.parent = parent
    BY <1>4
  <2>5. call'.id <= lastId' /\ (call'.parent <= lastId' \/ call'.parent = Stray)
    <3>1. parent \in Nat
      BY <1>2 DEF Ids, NoGoal, Stray
    <3> QED BY <1>1, <1>2, <2>4, <3>1
  <2>6. \A i \in DOMAIN goals' : goals'[i].id = call'.id => goals'[i].st # "closed"
    BY <2>1, <2>4
  <2>7. call'.id \in IdsOf(goals')
    BY <2>3, <2>4
  <2>8. pc' # "result"
    BY <1>5
  <2> QED BY <1>12, <2>5, <2>6, <2>7, <2>8 DEF AddOK
<1>15. CloseOK' /\ SaveOK'
  BY <1>4 DEF CloseOK, SaveOK
<1>16. ChildOK'
  BY <1>0, <1>4, <1>5 DEF ChildOK, AddGoal, Calls, CallPcs
<1> QED BY <1>7, <1>11, <1>13, <1>14, <1>15, <1>16 DEF IInv

\* Closing a goal ends its own promise only.
LEMMA CloseGoalStep ==
    ASSUME IInv, NEW l \in Loops, NEW id \in Ids, CloseGoal(l, id)
    PROVE  IInv'
<1> USE GoalTreeAssumption
<1> DEFINE u == UpdateGoalStatus(goals, id, "closed")
<1>0. TypeOK /\ GoalsOK /\ SizesOK /\ ChildOK /\ goals \in Seq(Goal)
  BY DEF IInv, TypeOK
<1>1. /\ u \in Seq(Goal) /\ Len(u) = Len(goals) /\ DOMAIN u = DOMAIN goals
      /\ IdsOf(u) = IdsOf(goals)
      /\ \A i \in DOMAIN goals :
           /\ u[i].id = goals[i].id /\ u[i].parent = goals[i].parent
           /\ u[i].blocking = goals[i].blocking
           /\ u[i].st = goals[i].st \/ goals[i].id = id
  BY <1>0, UpdateGoalStatusOK DEF Status
<1>2. goals' = u /\ promised' = promised \ {id} /\ pc' = "emit"
      /\ call' = [tool |-> "close", id |-> id, loop |-> l]
  BY DEF CloseGoal, Carry
<1> HIDE DEF u
<1>3. call' \in Call
  BY <1>2 DEF Call
<1>4. TypeOK'
  BY <1>0, <1>1, <1>2, <1>3 DEF TypeOK, CloseGoal, Carry, CallPcs, WorkerPcs
<1>5. GoalsOK'
  <2>1. Holds(goals, promised \ {id}) /\ Holds(replayed.goals, promised \ {id})
    BY <1>0 DEF GoalsOK, Holds
  <2>2. Holds(u, promised \ {id})
    BY <1>0, <1>1, <2>1, HoldsSameShape
  <2>3. Known(u, lastId)
    BY <1>0, <1>1 DEF GoalsOK, Known
  <2>4. UNCHANGED <<replayed, lastId>>
    BY DEF CloseGoal
  <2> QED BY <1>0, <1>2, <2>1, <2>2, <2>3, <2>4 DEF GoalsOK
<1>6. SizesOK'
  BY <1>0, <1>1, <1>2 DEF SizesOK, CloseGoal
<1>7. AddOK' /\ CloseOK' /\ SaveOK'
  BY <1>2 DEF AddOK, CloseOK, SaveOK
<1>8. ChildOK'
  BY <1>0, <1>2 DEF ChildOK, CloseGoal, Calls, CallPcs
<1> QED BY <1>4, <1>5, <1>6, <1>7, <1>8 DEF IInv

\* A fact is saved within the limit.
LEMMA SaveFactStep ==
    ASSUME IInv, NEW l \in Loops, NEW k \in Keys, SaveFact(l, k)
    PROVE  IInv'
<1> USE GoalTreeAssumption
<1>0. TypeOK /\ GoalsOK /\ SizesOK /\ ChildOK /\ facts \in SUBSET Keys
  BY DEF IInv, TypeOK
<1>1. IsFiniteSet(facts) /\ Cardinality(facts) \in Nat
  BY <1>0, FS_Subset, FS_CardinalityType
<1>2. facts' = facts \cup {k} /\ pc' = "emit" /\ call' = [tool |-> "save", key |-> k, loop |-> l]
  BY DEF SaveFact, Carry
<1>3. Cardinality(facts \cup {k}) <= MaxFacts /\ MaxFacts > 0
  <2>1. CASE k \in facts
    <3>1. Cardinality(facts) # 0
      BY <1>1, <2>1, FS_EmptySet
    <3>2. facts \cup {k} = facts
      BY <2>1
    <3>3. Cardinality(facts) <= MaxFacts
      BY <1>0 DEF SizesOK
    <3> QED BY <1>1, <3>1, <3>2, <3>3
  <2>2. CASE k \notin facts
    <3>1. Cardinality(facts \cup {k}) = Cardinality(facts) + 1
      BY <1>1, <2>2, FS_AddElement
    <3>2. Cardinality(facts) < MaxFacts
      BY <2>2 DEF SaveFact
    <3> QED BY <1>1, <3>1, <3>2
  <2> QED BY <2>1, <2>2
<1>4. call' \in Call
  BY <1>2 DEF Call
<1>5. TypeOK'
  BY <1>0, <1>2, <1>4 DEF TypeOK, SaveFact, Carry, CallPcs, WorkerPcs
<1>6. GoalsOK'
  BY <1>0 DEF GoalsOK, Holds, Known, IdsOf, SaveFact
<1>7. SizesOK'
  BY <1>0, <1>2, <1>3 DEF SizesOK, SaveFact
<1>8. AddOK' /\ CloseOK' /\ SaveOK'
  BY <1>2, <1>3 DEF AddOK, CloseOK, SaveOK
<1>9. ChildOK'
  BY <1>0, <1>2 DEF ChildOK, SaveFact, Calls, CallPcs
<1> QED BY <1>5, <1>6, <1>7, <1>8, <1>9 DEF IInv

\* The state event brings the log up to the session.
LEMMA EmitStateStep ==
    ASSUME IInv, EmitState
    PROVE  IInv'
<1> USE GoalTreeAssumption
<1>0. /\ TypeOK /\ GoalsOK /\ SizesOK /\ AddOK /\ CloseOK /\ SaveOK /\ ChildOK
      /\ replayed \in [goals : Seq(Goal), facts : SUBSET Keys] /\ call \in Call
  BY DEF IInv, TypeOK, EmitState, CallPcs
<1>1. pc = "emit" /\ pc' = "result" /\ UNCHANGED <<goals, facts, lastId, call, promised, child>>
  BY DEF EmitState
<1>2. \/ call.tool = "save" /\ replayed' = [replayed EXCEPT !.facts = facts]
      \/ call.tool # "save" /\ replayed' = [replayed EXCEPT !.goals = goals]
  BY DEF EmitState, LogState
<1>3. \/ call.tool = "save" /\ replayed'.facts = facts /\ replayed'.goals = replayed.goals
      \/ call.tool # "save" /\ replayed'.goals = goals /\ replayed'.facts = replayed.facts
  BY <1>0, <1>2
<1>4. TypeOK'
  <2>1. wiped' \in SUBSET {"goals", "facts"} /\ dirty' \in BOOLEAN
    BY <1>0 DEF TypeOK, EmitState, LogState
  <2>2. replayed' \in [goals : Seq(Goal), facts : SUBSET Keys]
    BY <1>0, <1>2 DEF TypeOK
  <2> QED BY <1>0, <1>1, <2>1, <2>2 DEF TypeOK, EmitState, CallPcs, WorkerPcs
<1>5. GoalsOK'
  BY <1>0, <1>1, <1>3 DEF GoalsOK, Holds, Known, IdsOf
<1>6. SizesOK'
  BY <1>0, <1>1, <1>3 DEF SizesOK
<1>7. AddOK'
  BY <1>0, <1>1, <1>3 DEF AddOK, CallPcs, Emptied, IdsOf
<1>8. CloseOK' /\ SaveOK'
  BY <1>0, <1>1, <1>3 DEF CloseOK, SaveOK, CallPcs
<1>9. ChildOK'
  BY <1>0, <1>1 DEF ChildOK, CallPcs
<1> QED BY <1>4, <1>5, <1>6, <1>7, <1>8, <1>9 DEF IInv

\* What the result adds to the log keeps the promises.
LEMMA ReplayedResultOK ==
    ASSUME IInv, pc = "result"
    PROVE  LET r == ReplayResult(call) IN
           /\ r \in [goals : Seq(Goal), facts : SUBSET Keys]
           /\ Holds(r.goals, promised) /\ Known(r.goals, lastId)
           /\ Len(r.goals) <= MaxGoals + 1 /\ Cardinality(r.facts) <= MaxFacts
           /\ call.tool = "add" => \A P : Holds(replayed.goals, P) /\ replayed.goals = goals
                                            /\ call.id \in IdsOf(goals) => Holds(r.goals, P)
<1> USE GoalTreeAssumption
<1> DEFINE r == ReplayResult(call)
<1>0. /\ TypeOK /\ GoalsOK /\ SizesOK /\ AddOK /\ CloseOK /\ SaveOK /\ call \in Call
      /\ replayed \in [goals : Seq(Goal), facts : SUBSET Keys] /\ pc \in CallPcs
      /\ replayed.goals \in Seq(Goal)
  BY DEF IInv, TypeOK, CallPcs
<1>1. CASE call.tool = "add"
  <2> DEFINE g == [id |-> call.id, parent |-> call.parent, st |-> "pending", blocking |-> FALSE]
             u == Append(replayed.goals, g)
  <2>0. call.id \in Ids /\ call.parent \in Ids \cup {NoGoal, Stray}
    BY <1>0, <1>1 DEF Call
  <2>1. g \in Goal /\ g.id = call.id /\ g.parent = call.parent
    BY <2>0 DEF Goal, Status
  <2>2. r = [replayed EXCEPT !.goals = u]
    BY <1>1 DEF ReplayResult
  <2> HIDE DEF g
  <2>3. u \in Seq(Goal) /\ Len(u) = Len(replayed.goals) + 1
    BY <1>0, <2>1
  <2>4. ASSUME NEW P, Holds(replayed.goals, P), P = {} \/ call.id \in IdsOf(replayed.goals)
        PROVE  Holds(u, P)
    <3>1. CASE P = {}
      BY <3>1 DEF Holds
    <3>2. CASE call.id \in IdsOf(replayed.goals)
      BY <1>0, <2>1, <2>4, <3>2, HoldsAppend
    <3> QED BY <2>4, <3>1, <3>2
  <2>5. promised = {} \/ (replayed.goals = goals /\ call.id \in IdsOf(goals))
    BY <1>0, <1>1 DEF AddOK, Emptied
  <2>6. Holds(u, promised)
    BY <1>0, <2>4, <2>5 DEF GoalsOK
  <2>7. \A i \in DOMAIN u : (i \in DOMAIN replayed.goals /\ u[i] = replayed.goals[i]) \/ u[i] = g
    BY <1>0, <2>1
  <2>8. Known(u, lastId)
    <3> HIDE DEF u
    <3> QED BY <1>0, <1>1, <2>1, <2>7 DEF GoalsOK, Known, AddOK
  <2>9. Len(u) <= MaxGoals + 1
    BY <1>0, <1>1, <2>3 DEF AddOK
  <2>10. r \in [goals : Seq(Goal), facts : SUBSET Keys] /\ r.goals = u /\ r.facts = replayed.facts
    BY <1>0, <2>2, <2>3
  <2> HIDE DEF u, r
  <2> QED BY <1>0, <2>4, <2>6, <2>8, <2>9, <2>10 DEF SizesOK, r
<1>2. CASE call.tool = "close"
  <2> DEFINE u == CloseAll(replayed.goals, call.id)
  <2>1. /\ u \in Seq(Goal) /\ Len(u) = Len(replayed.goals) /\ DOMAIN u = DOMAIN replayed.goals
        /\ IdsOf(u) = IdsOf(replayed.goals)
        /\ \A i \in DOMAIN replayed.goals :
             /\ u[i].id = replayed.goals[i].id /\ u[i].parent = replayed.goals[i].parent
             /\ u[i].blocking = replayed.goals[i].blocking
             /\ u[i].st = replayed.goals[i].st \/ replayed.goals[i].id = call.id
    BY <1>0, CloseAllOK
  <2>2. r = [replayed EXCEPT !.goals = u]
    BY <1>2 DEF ReplayResult
  <2> HIDE DEF u
  <2>3. r \in [goals : Seq(Goal), facts : SUBSET Keys] /\ r.goals = u /\ r.facts = replayed.facts
    BY <1>0, <2>1, <2>2
  <2>4. call.id \notin promised
    BY <1>0, <1>2 DEF CloseOK
  <2>5. Holds(u, promised)
    BY <1>0, <2>1, <2>4, HoldsSameShape DEF GoalsOK
  <2>6. Known(u, lastId)
    BY <1>0, <2>1 DEF GoalsOK, Known
  <2> HIDE DEF r
  <2> QED BY <1>0, <1>2, <2>1, <2>3, <2>5, <2>6 DEF SizesOK, r
<1>3. CASE call.tool = "save"
  <2>1. call.key \in Keys
    BY <1>0, <1>3 DEF Call
  <2>2. r = [replayed EXCEPT !.facts = @ \cup {call.key}]
    BY <1>3 DEF ReplayResult
  <2>3. /\ r \in [goals : Seq(Goal), facts : SUBSET Keys]
        /\ r.goals = replayed.goals /\ r.facts = replayed.facts \cup {call.key}
    BY <1>0, <2>1, <2>2
  <2>4. Cardinality(replayed.facts \cup {call.key}) <= MaxFacts
    <3>1. CASE replayed.facts = {}
      <4>1. replayed.facts \cup {call.key} = {call.key}
        BY <3>1
      <4>2. Cardinality({call.key}) = 1
        BY FS_Singleton
      <4>3. MaxFacts >= 1
        BY <1>0, <1>3 DEF SaveOK
      <4> QED BY <4>1, <4>2, <4>3
    <3>2. CASE call.key \in replayed.facts
      <4>1. replayed.facts \cup {call.key} = replayed.facts
        BY <3>2
      <4> QED BY <1>0, <4>1 DEF SizesOK
    <3> QED BY <1>0, <1>3, <3>1, <3>2 DEF SaveOK
  <2> HIDE DEF r
  <2> QED BY <1>0, <1>3, <2>3, <2>4 DEF SizesOK, GoalsOK, r
<1> QED BY <1>0, <1>1, <1>2, <1>3 DEF Call

\* The result makes the promise, of a goal that session and log both hold.
LEMMA EmitResultStep ==
    ASSUME IInv, EmitResult
    PROVE  IInv'
<1> USE GoalTreeAssumption
<1> DEFINE r == ReplayResult(call)
<1>0. /\ TypeOK /\ GoalsOK /\ SizesOK /\ AddOK /\ ChildOK /\ call \in Call
      /\ pc = "result" /\ pc \in CallPcs /\ goals \in Seq(Goal)
  BY DEF IInv, TypeOK, EmitResult, CallPcs
<1>1. /\ r \in [goals : Seq(Goal), facts : SUBSET Keys]
      /\ Holds(r.goals, promised) /\ Known(r.goals, lastId)
      /\ Len(r.goals) <= MaxGoals + 1 /\ Cardinality(r.facts) <= MaxFacts
      /\ call.tool = "add" => \A P : Holds(replayed.goals, P) /\ replayed.goals = goals
                                       /\ call.id \in IdsOf(goals) => Holds(r.goals, P)
  BY <1>0, ReplayedResultOK
<1>2. replayed' = r /\ call' = NoCall /\ UNCHANGED <<goals, facts, lastId, child>>
  BY DEF EmitResult
<1> HIDE DEF r
<1>3. pc' \in {"none", "turn", "wTurn"} /\ (pc' # "wTurn" => call.loop = "turn")
  BY <1>0 DEF EmitResult, Return, Call, Loops
<1>4. \/ promised' = promised
      \/ /\ call.tool = "add" /\ promised' = promised \cup {call.id} /\ call.id \in Ids
         /\ \E i \in DOMAIN goals : /\ goals[i].id = call.id /\ goals[i].blocking
                                     /\ goals[i].parent \notin IdsOf(goals)
  BY <1>0 DEF EmitResult, Call
<1>5. TypeOK'
  <2>1. cancelled' \in BOOLEAN
    BY <1>0 DEF TypeOK, EmitResult, Return
  <2>2. promised' \in SUBSET Ids
    BY <1>0, <1>4 DEF TypeOK
  <2> QED BY <1>0, <1>1, <1>2, <1>3, <2>1, <2>2 DEF TypeOK, EmitResult, CallPcs, WorkerPcs
<1>6. Holds(goals, promised') /\ Holds(r.goals, promised')
  <2>1. CASE promised' = promised
    BY <1>0, <1>1, <2>1 DEF GoalsOK
  <2>2. CASE promised' # promised
    <3>1. /\ call.tool = "add" /\ promised' = promised \cup {call.id}
          /\ \E i \in DOMAIN goals : /\ goals[i].id = call.id /\ goals[i].blocking
                                      /\ goals[i].parent \notin IdsOf(goals)
      BY <1>4, <2>2
    <3>2. \A i \in DOMAIN goals : goals[i].id = call.id => goals[i].st # "closed"
      BY <1>0, <3>1 DEF AddOK
    <3>3. Holds(goals, promised')
      BY <1>0, <3>1, <3>2 DEF GoalsOK, Holds
    <3>4. goals # <<>> /\ call.id \in IdsOf(goals)
      BY <3>1 DEF IdsOf
    <3>5. replayed.goals = goals
      BY <1>0, <3>1, <3>4 DEF AddOK, Emptied
    <3> QED BY <1>1, <3>1, <3>3, <3>4, <3>5
  <2> QED BY <2>1, <2>2
<1>7. GoalsOK'
  <2>1. Holds(goals', promised') /\ Holds(replayed'.goals, promised')
    BY <1>2, <1>6
  <2>2. Known(goals', lastId') /\ Known(replayed'.goals, lastId')
    BY <1>0, <1>1, <1>2 DEF GoalsOK
  <2> QED BY <2>1, <2>2 DEF GoalsOK
<1>8. SizesOK'
  BY <1>0, <1>1, <1>2 DEF SizesOK
<1>9. AddOK' /\ CloseOK' /\ SaveOK'
  BY <1>3 DEF AddOK, CloseOK, SaveOK, CallPcs
<1>10. ChildOK'
  BY <1>0, <1>2, <1>3 DEF ChildOK, CallPcs
<1> QED BY <1>5, <1>7, <1>8, <1>9, <1>10 DEF IInv

---------------------------------------------------------------------------
(* The theorems.                                                           *)

\* Every step keeps the invariant.
LEMMA NextIInv == IInv /\ [Next]_vars => IInv'
<1> SUFFICES ASSUME IInv, [Next]_vars PROVE IInv'
  OBVIOUS
<1>1. CASE MainStep \/ HandlerStep
  BY <1>1, QuietSteps, ResetSteps DEF MainStep, HandlerStep
<1>2. CASE ToolStep
  BY <1>2, AddGoalStep, CloseGoalStep, SaveFactStep DEF ToolStep
<1>3. CASE EmitState \/ EmitResult \/ DropResult
  BY <1>3, EmitStateStep, EmitResultStep, QuietSteps
<1>4. CASE WorkerStep
  BY <1>4, WorkerSteps, QuietSteps DEF WorkerStep
<1>5. CASE Restart
  BY <1>5, RestartStep
<1>6. CASE UNCHANGED vars
  BY <1>6, QuietSteps
<1> QED BY <1>1, <1>2, <1>3, <1>4, <1>5, <1>6 DEF Next

\* The inductive invariant holds of every behaviour of goals, facts, log and worker.
THEOREM SpecIInv == Spec => []IInv
<1> QED BY InitIInv, NextIInv, PTL DEF Spec

\* Types: goals, facts, log, call and worker keep their shape through stops, resets and
\* restarts (agent/memory.go, agent/worker.go).
THEOREM SpecTypeOK == Spec => []TypeOK
<1>1. IInv => TypeOK
  BY DEF IInv
<1> QED BY <1>1, SpecIInv, PTL

\* The gate of report_finalize is shut while a blocking root that the model was told of
\* is open, whatever stops, workers and restarts came in between (agent/memory.go).
THEOREM SpecGateHonoursPlan == Spec => []GateHonoursPlan
<1>1. IInv => GateHonoursPlan
  BY GateFromHolds DEF IInv, TypeOK, GoalsOK, GateHonoursPlan
<1> QED BY <1>1, SpecIInv, PTL

\* maxGoals (plus the one goal a replay repeats) and maxFacts are kept.
THEOREM SpecLimits == Spec => []Limits
<1>1. IInv => Limits
  BY DEF IInv, SizesOK, Limits
<1> QED BY <1>1, SpecIInv, PTL

\* No delegated run is left running once its worker is back (agent/worker.go).
THEOREM SpecChildSettled == Spec => []ChildSettled
<1>1. IInv => ChildSettled
  BY DEF IInv, ChildOK, ChildSettled
<1> QED BY <1>1, SpecIInv, PTL

---------------------------------------------------------------------------
(* The log tells what the session holds.                                   *)

\* While a call of the loop is under way, what it has changed is in the state, or a reset
\* has come in between and is on record.
InFlight ==
    pc \in CallPcs =>
        CASE call.tool = "add" ->
                call.id \in IdsOf(goals) \/ ("goals" \in wiped /\ (pc = "emit" => dirty))
          [] call.tool = "close" ->
                \A g \in Firsts(goals) : g.id = call.id => g.st = "closed"
          [] call.tool = "save" ->
                call.key \in facts \/ ("facts" \in wiped /\ (pc = "emit" => dirty))

\* The log tells the facts, and the goals, but for a change that is about to be emitted.
AgreeInv ==
    /\ ~(pc = "emit" /\ call.tool = "save") => FactsAgree
    /\ pc \notin {"wStartEmit", "wEmit"} /\ ~(pc = "emit" /\ call.tool # "save") => GoalsAgree
    /\ InFlight

\* The ids of a list are those of its first goals.
LEMMA FirstsIds ==
    ASSUME NEW gs \in Seq(Goal), NEW id
    PROVE  id \in IdsOf(gs) <=> \E g \in Firsts(gs) : g.id = id
<1>1. ASSUME id \in IdsOf(gs) PROVE \E g \in Firsts(gs) : g.id = id
  <2>1. PICK n : n = First(gs, id)
    OBVIOUS
  <2>2. n \in DOMAIN gs /\ gs[n].id = id /\ \A k \in 1..(n - 1) : gs[k].id # id
    BY <1>1, <2>1, FirstExists
  <2> QED BY <2>2 DEF Firsts
<1>2. ASSUME NEW g \in Firsts(gs), g.id = id PROVE id \in IdsOf(gs)
  BY <1>2 DEF Firsts, IdsOf
<1> QED BY <1>1, <1>2

\* A goal that is told a second time changes nothing.
LEMMA FirstsAppend ==
    ASSUME NEW rs \in Seq(Goal), NEW g \in Goal, g.id \in IdsOf(rs)
    PROVE  Firsts(Append(rs, g)) = Firsts(rs)
<1> DEFINE u == Append(rs, g)
<1>1. /\ DOMAIN u = 1..(Len(rs) + 1) /\ DOMAIN rs = 1..Len(rs) /\ Len(rs) \in Nat
      /\ \A i \in DOMAIN rs : i \in DOMAIN u /\ u[i] = rs[i]
      /\ u[Len(rs) + 1] = g
  OBVIOUS
<1> HIDE DEF u
<1>2. PICK n \in DOMAIN rs : rs[n].id = g.id
  BY DEF IdsOf
<1>3. \A i \in DOMAIN u : (\A k \in 1..(i - 1) : u[k].id # u[i].id) => i \in DOMAIN rs
  <2> SUFFICES ASSUME NEW i \in DOMAIN u, i \notin DOMAIN rs PROVE \E k \in 1..(i - 1) : u[k].id = u[i].id
    OBVIOUS
  <2>1. i = Len(rs) + 1 /\ n \in 1..(i - 1)
    BY <1>1
  <2> QED BY <1>1, <1>2, <2>1
<1>4. \A i \in DOMAIN rs : (\A k \in 1..(i - 1) : u[k].id # u[i].id) <=> (\A k \in 1..(i - 1) : rs[k].id # rs[i].id)
  <2> SUFFICES ASSUME NEW i \in DOMAIN rs
               PROVE  (\A k \in 1..(i - 1) : u[k].id # u[i].id) <=> (\A k \in 1..(i - 1) : rs[k].id # rs[i].id)
    OBVIOUS
  <2>1. \A k \in 1..(i - 1) : u[k] = rs[k]
    BY <1>1
  <2> QED BY <1>1, <2>1
<1>5. Firsts(u) = Firsts(rs)
  BY <1>1, <1>3, <1>4 DEF Firsts
<1> QED BY <1>5 DEF u

\* Nor does closing again what is closed.
LEMMA FirstsCloseAll ==
    ASSUME NEW rs \in Seq(Goal), NEW id, \A g \in Firsts(rs) : g.id = id => g.st = "closed"
    PROVE  Firsts(CloseAll(rs, id)) = Firsts(rs)
<1>0. PICK u : u = CloseAll(rs, id)
  OBVIOUS
<1>1. DOMAIN u = DOMAIN rs /\ \A i \in DOMAIN rs : u[i].id = rs[i].id
  BY <1>0, CloseAllOK
<1>2. \A i \in DOMAIN rs : (\A k \in 1..(i - 1) : u[k].id # u[i].id) <=> (\A k \in 1..(i - 1) : rs[k].id # rs[i].id)
  <2> SUFFICES ASSUME NEW i \in DOMAIN rs
               PROVE  (\A k \in 1..(i - 1) : u[k].id # u[i].id) <=> (\A k \in 1..(i - 1) : rs[k].id # rs[i].id)
    OBVIOUS
  <2>1. \A k \in 1..(i - 1) : k \in DOMAIN rs
    OBVIOUS
  <2> QED BY <1>1, <2>1
<1>3. \A i \in DOMAIN rs : (\A k \in 1..(i - 1) : rs[k].id # rs[i].id) => u[i] = rs[i]
  <2> SUFFICES ASSUME NEW i \in DOMAIN rs, \A k \in 1..(i - 1) : rs[k].id # rs[i].id PROVE u[i] = rs[i]
    OBVIOUS
  <2>1. rs[i] \in Goal /\ u[i] = IF rs[i].id = id THEN [rs[i] EXCEPT !.st = "closed"] ELSE rs[i]
    BY <1>0 DEF CloseAll
  <2>2. rs[i] \in Firsts(rs)
    BY DEF Firsts
  <2>3. rs[i].st = "closed" => [rs[i] EXCEPT !.st = "closed"] = rs[i]
    BY <2>1 DEF Goal
  <2> QED BY <2>1, <2>2, <2>3
<1>4. Firsts(u) = Firsts(rs)
  BY <1>1, <1>2, <1>3 DEF Firsts
<1> QED BY <1>0, <1>4

LEMMA FirstsClosed ==
    ASSUME NEW gs \in Seq(Goal), NEW id \in IdsOf(gs), NEW u, u = UpdateGoalStatus(gs, id, "closed"),
           NEW g \in Firsts(u), g.id = id
    PROVE  g.st = "closed"
<1>1. PICK n : n = First(gs, id)
  OBVIOUS
<1>2. /\ n \in DOMAIN gs /\ gs[n].id = id /\ u = [gs EXCEPT ![n].st = "closed"] /\ gs[n] \in Goal
      /\ \A k \in 1..(n - 1) : gs[k].id # id
  BY <1>1, FirstExists DEF UpdateGoalStatus
<1>3. u[n].st = "closed"
  BY <1>2 DEF Goal
<1>4. DOMAIN u = DOMAIN gs /\ \A i \in DOMAIN gs : u[i].id = gs[i].id
  BY UpdateGoalStatusOK DEF Status
<1>5. PICK i \in DOMAIN u : g = u[i] /\ \A k \in 1..(i - 1) : u[k].id # u[i].id
  BY DEF Firsts
<1>6. gs[i].id = id /\ \A k \in 1..(i - 1) : gs[k].id # id
  <2>1. \A k \in 1..(i - 1) : k \in DOMAIN gs
    BY <1>4
  <2> QED BY <1>4, <1>5, <2>1
<1>7. ~(i < n) /\ ~(n < i)
  BY <1>2, <1>4, <1>6
<1>8. i = n
  BY <1>2, <1>4, <1>7
<1> QED BY <1>3, <1>5, <1>8

LEMMA FirstsHas ==
    ASSUME NEW gs, NEW x
    PROVE  x \in Firsts(gs) <=> \E i \in DOMAIN gs : x = gs[i] /\ \A k \in 1..(i - 1) : gs[k].id # gs[i].id
BY DEF Firsts

LEMMA AgreeNext ==
    ASSUME NEW gs, NEW rs, gs = goals', rs = replayed'.goals, Firsts(gs) = Firsts(rs)
    PROVE  GoalsAgree'
<1>1. ASSUME NEW x
      PROVE  (\E i \in DOMAIN gs : x = gs[i] /\ \A k \in 1..(i - 1) : gs[k].id # gs[i].id)
             <=> (\E i \in DOMAIN rs : x = rs[i] /\ \A k \in 1..(i - 1) : rs[k].id # rs[i].id)
  <2>1. x \in Firsts(gs) <=> x \in Firsts(rs)
    OBVIOUS
  <2>2. x \in Firsts(gs) <=> \E i \in DOMAIN gs : x = gs[i] /\ \A k \in 1..(i - 1) : gs[k].id # gs[i].id
    BY FirstsHas
  <2>3. x \in Firsts(rs) <=> \E i \in DOMAIN rs : x = rs[i] /\ \A k \in 1..(i - 1) : rs[k].id # rs[i].id
    BY FirstsHas
  <2> QED BY <2>1, <2>2, <2>3
<1>2. ASSUME NEW x
      PROVE  x \in Firsts(goals)' <=> x \in Firsts(replayed.goals)'
  BY <1>1 DEF Firsts
<1>3. Firsts(goals)' = Firsts(replayed.goals)'
  BY <1>2
<1> QED BY <1>3 DEF GoalsAgree

LEMMA GoalsKept ==
    ASSUME GoalsAgree, goals' = goals, replayed'.goals = replayed.goals, "goals" \notin wiped' => "goals" \notin wiped
    PROVE  GoalsAgree'
<1>1. CASE "goals" \in wiped'
  BY <1>1 DEF GoalsAgree
<1>2. CASE "goals" \notin wiped'
  <2>1. PICK gs, rs : gs = goals /\ rs = replayed.goals
    OBVIOUS
  <2>2. Firsts(gs) = Firsts(rs)
    BY <1>2, <2>1 DEF GoalsAgree
  <2> QED BY <2>1, <2>2, AgreeNext
<1> QED BY <1>1, <1>2

LEMMA FirstsNext ==
    ASSUME NEW gs, gs = goals', NEW x
    PROVE  x \in Firsts(goals)' <=> x \in Firsts(gs)
<1>1. x \in Firsts(gs) <=> \E i \in DOMAIN gs : x = gs[i] /\ \A k \in 1..(i - 1) : gs[k].id # gs[i].id
  BY FirstsHas
<1>2. x \in Firsts(goals)' <=> \E i \in DOMAIN gs : x = gs[i] /\ \A k \in 1..(i - 1) : gs[k].id # gs[i].id
  BY DEF Firsts
<1> QED BY <1>1, <1>2

LEMMA InFlightKept ==
    ASSUME InFlight, UNCHANGED <<goals, facts, call>>, pc' \in CallPcs => pc \in CallPcs,
           pc' \in CallPcs => call \in Call,
           pc' = "emit" => pc = "emit" /\ (dirty => dirty'),
           \/ wiped \subseteq wiped'
           \/ pc' \in CallPcs /\ ~ (call.tool = "save" /\ "facts" \in wiped /\ "facts" \notin wiped')
              /\ ~ (call.tool = "add" /\ "goals" \in wiped /\ "goals" \notin wiped')
    PROVE  InFlight'
<1> SUFFICES ASSUME pc' \in CallPcs PROVE InFlight'
  BY DEF InFlight
<1>1. PICK gs : gs = goals
  OBVIOUS
<1>2. CASE call.tool = "add"
  BY <1>2 DEF InFlight, IdsOf, CallPcs
<1>3. CASE call.tool = "close"
  <2>1. \A g \in Firsts(gs) : g.id = call.id => g.st = "closed"
    BY <1>1, <1>3 DEF InFlight
  <2>2. \A g \in Firsts(goals)' : g.id = call'.id => g.st = "closed"
    BY <1>1, <2>1, FirstsNext
  <2> QED BY <1>3, <2>2 DEF InFlight
<1>4. CASE call.tool = "save"
  BY <1>4 DEF InFlight, CallPcs
<1> QED BY <1>2, <1>3, <1>4 DEF Call

\* A step that changes neither state nor log, and begins or ends no change.
LEMMA AgreeQuiet ==
    ASSUME IInv, AgreeInv, UNCHANGED <<goals, facts, replayed, wiped, dirty>>,
           \/ UNCHANGED <<pc, call>>
           \/ pc \notin {"emit", "wStartEmit", "wEmit"} /\ pc' \notin {"emit", "result", "wStartEmit", "wEmit"}
    PROVE  AgreeInv'
<1>1. CASE UNCHANGED <<pc, call>>
  <2>1. InFlight'
    BY <1>1, InFlightKept DEF AgreeInv, IInv, TypeOK
  <2> QED BY <1>1, <2>1, GoalsKept DEF AgreeInv, FactsAgree
<1>2. CASE pc \notin {"emit", "wStartEmit", "wEmit"} /\ pc' \notin {"emit", "result", "wStartEmit", "wEmit"}
  <2>1. FactsAgree /\ GoalsAgree
    BY <1>2 DEF AgreeInv
  <2>2. FactsAgree' /\ GoalsAgree'
    BY <2>1, GoalsKept DEF FactsAgree
  <2> QED BY <1>2, <2>2 DEF AgreeInv, InFlight, CallPcs
<1> QED BY <1>1, <1>2

LEMMA AgreeQuietSteps ==
    ASSUME IInv, AgreeInv,
           \/ StartRun \/ EndRun \/ FinalizeReport \/ DropResult
           \/ \E id \in IdsOf(goals) \cup {NoGoal, Stray} : Delegate(id)
           \/ WorkerAsk \/ WorkerEnds \/ WorkerTurn \/ WorkerTurnEnds \/ WorkerRow
           \/ WorkerDone \/ Stop \/ ResetCancel \/ UNCHANGED vars
    PROVE  AgreeInv'
<1>1. UNCHANGED <<goals, facts, replayed, wiped, dirty>>
  BY DEF StartRun, EndRun, FinalizeReport, DropResult, Delegate, WorkerAsk, WorkerEnds, WorkerTurn,
         WorkerTurnEnds, WorkerRow, WorkerDone, Stop, ResetCancel, vars, Return
<1>2. \/ UNCHANGED <<pc, call>>
      \/ pc \notin {"emit", "wStartEmit", "wEmit"} /\ pc' \notin {"emit", "result", "wStartEmit", "wEmit"}
  BY DEF StartRun, EndRun, FinalizeReport, DropResult, Delegate, Calls, WorkerAsk, WorkerEnds, WorkerTurn,
         WorkerTurnEnds, WorkerRow, WorkerDone, Stop, ResetCancel, vars, Return
<1> QED BY <1>1, <1>2, AgreeQuiet

\* A call changes one kind of state; the other kind is told by the log as before.
LEMMA AgreeToolStep ==
    ASSUME IInv, AgreeInv, ToolStep
    PROVE  AgreeInv'
<1>0. goals \in Seq(Goal) /\ DOMAIN goals = 1..Len(goals) /\ Len(goals) \in Nat
  BY DEF IInv, TypeOK
<1>1. \E l \in Loops : Calls(l)
  BY DEF ToolStep, AddGoal, CloseGoal, SaveFact
<1>2. FactsAgree /\ GoalsAgree /\ pc' = "emit" /\ UNCHANGED <<replayed, wiped, dirty>>
  BY <1>1 DEF AgreeInv, Calls, Loops, ToolStep, AddGoal, CloseGoal, SaveFact, Carry
<1>3. ASSUME NEW l \in Loops, NEW parent, NEW b, AddGoal(l, parent, b) PROVE AgreeInv'
  <2>1. /\ facts' = facts /\ call'.tool = "add" /\ call'.id = lastId + 1
        /\ goals' = Append(goals, [id |-> lastId + 1, parent |-> parent, st |-> "pending", blocking |-> b])
    BY <1>3 DEF AddGoal, Carry
  <2>2. Len(goals) + 1 \in DOMAIN goals' /\ goals'[Len(goals) + 1].id = lastId + 1
    BY <1>0, <2>1
  <2>3. call'.id \in IdsOf(goals)'
    BY <2>1, <2>2 DEF IdsOf
  <2>4. InFlight'
    BY <2>1, <2>3 DEF InFlight
  <2> QED BY <1>2, <2>1, <2>4 DEF AgreeInv, FactsAgree
<1>4. ASSUME NEW l \in Loops, NEW id \in Ids, CloseGoal(l, id) PROVE AgreeInv'
  <2>1. /\ facts' = facts /\ call'.tool = "close" /\ call'.id = id /\ id \in IdsOf(goals)
        /\ goals' = UpdateGoalStatus(goals, id, "closed")
    BY <1>4 DEF CloseGoal, Carry
  <2>2. PICK u : u = UpdateGoalStatus(goals, id, "closed")
    OBVIOUS
  <2>3. \A g \in Firsts(u) : g.id = id => g.st = "closed"
    BY <1>0, <2>1, <2>2, FirstsClosed
  <2>4. InFlight'
    <3>1. \A g \in Firsts(goals)' : g.id = call'.id => g.st = "closed"
      BY <2>1, <2>2, <2>3, FirstsNext
    <3> QED BY <2>1, <3>1 DEF InFlight
  <2> QED BY <1>2, <2>1, <2>4 DEF AgreeInv, FactsAgree
<1>5. ASSUME NEW l \in Loops, NEW k \in Keys, SaveFact(l, k) PROVE AgreeInv'
  <2>1. goals' = goals /\ call'.tool = "save" /\ call'.key = k /\ k \in facts'
    BY <1>5 DEF SaveFact, Carry
  <2>2. InFlight'
    BY <2>1 DEF InFlight
  <2>3. GoalsAgree'
    BY <1>2, <2>1, GoalsKept
  <2> QED BY <1>2, <2>1, <2>2, <2>3 DEF AgreeInv
<1> QED BY <1>3, <1>4, <1>5 DEF ToolStep

\* The log is told the state as it is.
LEMMA AgreeEmitState ==
    ASSUME IInv, AgreeInv, EmitState
    PROVE  AgreeInv'
<1>0. /\ pc = "emit" /\ pc' = "result" /\ call \in Call /\ UNCHANGED <<goals, facts, call>>
      /\ replayed \in [goals : Seq(Goal), facts : SUBSET Keys] /\ call.tool \in {"add", "close", "save"}
      /\ pc \in CallPcs
  BY DEF IInv, TypeOK, EmitState, CallPcs, Call
<1>1. CASE call.tool = "save"
  <2>1. /\ replayed' = [replayed EXCEPT !.facts = facts] /\ GoalsAgree
        /\ wiped' = IF dirty THEN wiped ELSE wiped \ {"facts"}
    BY <1>0, <1>1 DEF EmitState, LogState, AgreeInv
  <2>2. replayed'.facts = facts' /\ replayed'.goals = replayed.goals /\ ("goals" \notin wiped' => "goals" \notin wiped)
    BY <1>0, <2>1
  <2>3. FactsAgree' /\ GoalsAgree'
    BY <1>0, <2>1, <2>2, GoalsKept DEF FactsAgree
  <2>4. InFlight'
    BY <1>0, <1>1, <2>1 DEF AgreeInv, InFlight
  <2> QED BY <1>0, <2>3, <2>4 DEF AgreeInv
<1>2. CASE call.tool # "save"
  <2>1. /\ replayed' = [replayed EXCEPT !.goals = goals] /\ FactsAgree
        /\ wiped' = IF dirty THEN wiped ELSE wiped \ {"goals"}
    BY <1>0, <1>2 DEF EmitState, LogState, AgreeInv
  <2>2. replayed'.facts = replayed.facts /\ replayed'.goals = goals' /\ ("facts" \notin wiped' => "facts" \notin wiped)
    BY <1>0, <2>1
  <2>3. FactsAgree'
    BY <1>0, <2>1, <2>2 DEF FactsAgree
  <2>4. GoalsAgree'
    BY <2>2, AgreeNext
  <2>5. InFlight'
    <3>1. CASE call.tool = "add"
      BY <1>0, <2>1, <3>1 DEF AgreeInv, InFlight, IdsOf
    <3>2. CASE call.tool = "close"
      BY <1>0, <3>2, InFlightKept DEF AgreeInv, CallPcs
    <3> QED BY <1>0, <1>2, <3>1, <3>2
  <2> QED BY <1>0, <2>3, <2>4, <2>5 DEF AgreeInv
<1> QED BY <1>1, <1>2

\* What the replay of the result repeats is in the log already.
LEMMA AgreeEmitResult ==
    ASSUME IInv, AgreeInv, EmitResult
    PROVE  AgreeInv'
<1>0. /\ pc = "result" /\ call \in Call /\ UNCHANGED <<goals, facts, wiped>>
      /\ pc' \notin {"emit", "result", "wStartEmit", "wEmit"}
      /\ replayed \in [goals : Seq(Goal), facts : SUBSET Keys] /\ goals \in Seq(Goal)
      /\ replayed' = ReplayResult(call)
  BY DEF IInv, TypeOK, EmitResult, CallPcs, Call, Loops, Return
<1>1. FactsAgree /\ GoalsAgree /\ InFlight
  BY <1>0 DEF AgreeInv
<1>2. FactsAgree' /\ GoalsAgree'
  <2>1. CASE call.tool = "add"
    <3> DEFINE g == [id |-> call.id, parent |-> call.parent, st |-> "pending", blocking |-> FALSE]
    <3>1. g \in Goal /\ g.id = call.id
      BY <1>0, <2>1 DEF Call, Goal, Status
    <3> HIDE DEF g
    <3>2. replayed' = [replayed EXCEPT !.goals = Append(@, g)]
      BY <1>0, <2>1 DEF ReplayResult, g
    <3>3. replayed'.facts = replayed.facts /\ replayed'.goals = Append(replayed.goals, g)
      BY <1>0, <3>2
    <3>4. FactsAgree'
      BY <1>0, <1>1, <3>3 DEF FactsAgree
    <3>5. CASE "goals" \in wiped
      BY <1>0, <3>4, <3>5 DEF GoalsAgree
    <3>6. CASE "goals" \notin wiped
      <4>1. Firsts(goals) = Firsts(replayed.goals)
        BY <1>1, <3>6 DEF GoalsAgree
      <4>2. call.id \in IdsOf(replayed.goals)
        BY <1>0, <1>1, <2>1, <3>6, <4>1, FirstsIds DEF InFlight, CallPcs
      <4>3. Firsts(goals) = Firsts(Append(replayed.goals, g))
        BY <1>0, <3>1, <4>1, <4>2, FirstsAppend
      <4>4. GoalsAgree'
        BY <1>0, <3>3, <4>3, AgreeNext
      <4> QED BY <3>4, <4>4
    <3> QED BY <3>5, <3>6
  <2>2. CASE call.tool = "close"
    <3>1. replayed' = [replayed EXCEPT !.goals = CloseAll(@, call.id)]
      BY <1>0, <2>2 DEF ReplayResult
    <3>2. replayed'.facts = replayed.facts /\ replayed'.goals = CloseAll(replayed.goals, call.id)
      BY <1>0, <3>1
    <3>3. FactsAgree'
      BY <1>0, <1>1, <3>2 DEF FactsAgree
    <3>4. CASE "goals" \in wiped
      BY <1>0, <3>3, <3>4 DEF GoalsAgree
    <3>5. CASE "goals" \notin wiped
      <4>1. Firsts(goals) = Firsts(replayed.goals)
        BY <1>1, <3>5 DEF GoalsAgree
      <4>2. \A g \in Firsts(replayed.goals) : g.id = call.id => g.st = "closed"
        BY <1>0, <1>1, <2>2, <4>1 DEF InFlight, CallPcs
      <4>3. Firsts(goals) = Firsts(CloseAll(replayed.goals, call.id))
        BY <1>0, <4>1, <4>2, FirstsCloseAll
      <4>4. GoalsAgree'
        BY <1>0, <3>2, <4>3, AgreeNext
      <4> QED BY <3>3, <4>4
    <3> QED BY <3>4, <3>5
  <2>3. CASE call.tool = "save"
    <3>1. replayed' = [replayed EXCEPT !.facts = @ \cup {call.key}]
      BY <1>0, <2>3 DEF ReplayResult
    <3>2. replayed'.facts = replayed.facts \cup {call.key} /\ replayed'.goals = replayed.goals
      BY <1>0, <3>1
    <3>3. GoalsAgree'
      BY <1>0, <1>1, <3>2, GoalsKept
    <3>4. "facts" \notin wiped => call.key \in facts /\ facts = replayed.facts
      BY <1>0, <1>1, <2>3 DEF InFlight, CallPcs, FactsAgree
    <3>5. FactsAgree'
      BY <1>0, <3>2, <3>4 DEF FactsAgree
    <3> QED BY <3>3, <3>5
  <2> QED BY <1>0, <2>1, <2>2, <2>3 DEF Call
<1> QED BY <1>0, <1>2 DEF AgreeInv, InFlight, CallPcs

LEMMA AgreeWorkerSteps ==
    ASSUME IInv, AgreeInv,
           WorkerStart \/ WorkerStartEmit \/ WorkerCancelled \/ WorkerModelFails \/ WorkerEmit
    PROVE  AgreeInv'
<1>0. goals \in Seq(Goal) /\ replayed \in [goals : Seq(Goal), facts : SUBSET Keys]
  BY DEF IInv, TypeOK
<1>1. FactsAgree /\ pc' \notin {"emit", "result"}
  BY DEF AgreeInv, WorkerStart, WorkerStartEmit, WorkerCancelled, WorkerModelFails, WorkerEmit, GiveUp
<1>2. CASE WorkerStart \/ WorkerCancelled \/ WorkerModelFails
  <2>1. UNCHANGED <<facts, replayed, wiped>> /\ GoalsAgree
    BY <1>2 DEF AgreeInv, WorkerStart, WorkerCancelled, WorkerModelFails, GiveUp
  <2>2. pc' \in {"wStartEmit", "wEmit"} \/ goals' = goals
    <3>1. NoGoal \notin IdsOf(goals)
      BY <1>0, IdsOfType DEF Ids, NoGoal
    <3> QED BY <1>2, <3>1 DEF WorkerStart, WorkerCancelled, WorkerModelFails, GiveUp, UpdateGoalStatus
  <2>3. FactsAgree' /\ (goals' = goals => GoalsAgree')
    BY <1>1, <2>1, GoalsKept DEF FactsAgree
  <2> QED BY <1>1, <2>2, <2>3 DEF AgreeInv, InFlight, CallPcs
<1>3. CASE WorkerStartEmit \/ WorkerEmit
  <2>1. /\ replayed' = [replayed EXCEPT !.goals = goals] /\ goals' = goals /\ facts' = facts
        /\ wiped' = IF dirty THEN wiped ELSE wiped \ {"goals"}
    BY <1>3 DEF WorkerStartEmit, WorkerEmit, LogState
  <2>2. replayed'.goals = goals' /\ replayed'.facts = replayed.facts /\ ("facts" \notin wiped' => "facts" \notin wiped)
    BY <1>0, <2>1
  <2>3. GoalsAgree'
    BY <2>2, AgreeNext
  <2>4. FactsAgree'
    BY <1>1, <2>1, <2>2 DEF FactsAgree
  <2> QED BY <1>1, <2>3, <2>4 DEF AgreeInv, InFlight, CallPcs
<1> QED BY <1>2, <1>3

\* A reset puts what it clears on record.
LEMMA AgreeResets ==
    ASSUME IInv, AgreeInv, ResetFacts \/ ResetGoals
    PROVE  AgreeInv'
<1>0. UNCHANGED <<replayed, pc, call>> /\ (pc \in CallPcs => call \in Call)
  BY DEF ResetFacts, ResetGoals, IInv, TypeOK
<1>1. CASE ResetFacts
  <2>1. goals' = goals /\ "facts" \in wiped' /\ wiped' = wiped \cup {"facts"} /\ (pc = "emit" => dirty')
    BY <1>1 DEF ResetFacts, Unlogged
  <2>2. FactsAgree' /\ (GoalsAgree => GoalsAgree')
    BY <1>0, <2>1, GoalsKept DEF FactsAgree
  <2>3. InFlight'
    <3>1. PICK gs : gs = goals
      OBVIOUS
    <3>2. ASSUME pc \in CallPcs, call.tool = "close" PROVE \A g \in Firsts(goals)' : g.id = call'.id => g.st = "closed"
      <4>1. \A g \in Firsts(gs) : g.id = call.id => g.st = "closed"
        BY <3>1, <3>2 DEF AgreeInv, InFlight
      <4> QED BY <1>0, <2>1, <3>1, <4>1, FirstsNext
    <3>3. CASE call.tool = "close"
      BY <1>0, <3>2, <3>3 DEF InFlight
    <3>4. CASE call.tool = "add"
      BY <1>0, <2>1, <3>4 DEF AgreeInv, InFlight, IdsOf
    <3>5. CASE call.tool = "save"
      BY <1>0, <2>1, <3>5 DEF InFlight
    <3>6. CASE pc \notin CallPcs
      BY <1>0, <3>6 DEF InFlight
    <3> QED BY <1>0, <3>3, <3>4, <3>5, <3>6 DEF Call
  <2> QED BY <1>0, <2>2, <2>3 DEF AgreeInv
<1>2. CASE ResetGoals
  <2>1. /\ goals' = <<>> /\ facts' = facts /\ "goals" \in wiped' /\ wiped' = wiped \cup {"goals"}
        /\ (pc = "emit" => dirty')
    BY <1>2 DEF ResetGoals, Unlogged
  <2>2. GoalsAgree' /\ (FactsAgree => FactsAgree')
    BY <1>0, <2>1 DEF FactsAgree, GoalsAgree
  <2>4. Firsts(goals)' = {}
    BY <2>1 DEF Firsts
  <2>5. InFlight'
    <3>1. CASE call.tool = "add"
      BY <1>0, <2>1, <3>1 DEF InFlight
    <3>2. CASE call.tool = "close"
      BY <1>0, <2>4, <3>2 DEF InFlight
    <3>3. CASE call.tool = "save"
      BY <1>0, <2>1, <3>3 DEF AgreeInv, InFlight
    <3>4. CASE pc \notin CallPcs
      BY <1>0, <3>4 DEF InFlight
    <3> QED BY <1>0, <3>1, <3>2, <3>3, <3>4 DEF Call
  <2> QED BY <1>0, <2>2, <2>5 DEF AgreeInv
<1> QED BY <1>1, <1>2

LEMMA AgreeRestart == ASSUME IInv, AgreeInv, Restart PROVE AgreeInv'
<1>1. goals' = replayed'.goals /\ facts' = replayed'.facts /\ pc' = "none"
  BY DEF Restart
<1>2. GoalsAgree'
  BY <1>1, AgreeNext
<1> QED BY <1>1, <1>2 DEF AgreeInv, FactsAgree, InFlight, CallPcs

\* Between two tool calls the event log tells the facts and the goals of the session, with
\* their status, parents and blocking flags, but for what a reset has cleared since: the
\* state events carry the whole state, and replaying a result after them repeats what they
\* have told.
THEOREM SpecReplayAgrees == Spec => []ReplayAgrees
<1>1. Init => AgreeInv
  <2> SUFFICES ASSUME Init PROVE AgreeInv
    OBVIOUS
  <2>1. goals = replayed.goals /\ facts = replayed.facts /\ pc = "none"
    BY DEF Init
  <2> QED BY <2>1 DEF AgreeInv, FactsAgree, GoalsAgree, InFlight, CallPcs
<1>2. IInv /\ AgreeInv /\ [Next]_vars => AgreeInv'
  BY AgreeQuietSteps, AgreeToolStep, AgreeEmitState, AgreeEmitResult, AgreeWorkerSteps, AgreeResets, AgreeRestart
     DEF Next, MainStep, WorkerStep, HandlerStep
<1>3. AgreeInv => ReplayAgrees
  BY DEF AgreeInv, ReplayAgrees
<1> QED BY <1>1, <1>2, <1>3, SpecIInv, PTL DEF Spec
=============================================================================
