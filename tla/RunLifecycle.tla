---------------------------- MODULE RunLifecycle ----------------------------
(***************************************************************************)
(* The life of an analysis run inside one live session.                    *)
(*                                                                         *)
(* Three kinds of goroutine meet on one Session value                      *)
(* (server/session/types.go):                                              *)
(*                                                                         *)
(*   - one WebSocket handler per connection (handler/ws.go, WSHandler),    *)
(*     which reads user messages, stops and resets one after the other;    *)
(*   - one Engine.Run goroutine per launch (agent/engine.go), whose        *)
(*     emitted events run the hooks of handler/runtime_hooks.go inline;    *)
(*   - the run's row in the database, written by both without a lock.      *)
(*                                                                         *)
(* A message is named by its number m.  The same number names the run it   *)
(* starts (StartRun draws a fresh id), the context it creates and the      *)
(* engine goroutine it launches: a message makes at most one of each.      *)
(* Every critical section of Session.mu is one step; whatever the code     *)
(* does between two of them may be interleaved with the other goroutines.  *)
(***************************************************************************)
EXTENDS Integers, FiniteSets

CONSTANTS
    Conns,                  \* WebSocket connections open on the session
    EditScopes,             \* report edit scopes a message may carry
    NoEdit,                 \* the message carries no edit context
    MaxMsgs,                \* bound: user messages sent in a behaviour
    MaxMainLoopIterations,  \* maxMainLoopIterations of the engine
    MaxToolCalls,           \* bound: tool calls in one model turn
    DbMayFail               \* may a statement on analysis_runs fail?

ASSUME BoundsAssumption ==
    /\ MaxMsgs \in Nat
    /\ MaxMainLoopIterations \in Nat
    /\ MaxToolCalls \in Nat
    /\ DbMayFail \in BOOLEAN

ASSUME EditAssumption == NoEdit \notin EditScopes

Msgs == 1..MaxMsgs
NoRun == 0          \* ActiveRun == nil; also: no context, no message
AnyRun == 0         \* CancelRun("")
RunIds == Msgs \cup {NoRun}

Terminal == {"completed", "failed", "cancelled"}

VARIABLES
    nMsg,       \* messages sent so far
    activeRun,  \* Session.ActiveRun.RunID
    status,     \* Session.ActiveRun.Status, "idle" when ActiveRun is nil
    cancelCtx,  \* the context ActiveRun.Cancel cancels
    edit,       \* Session.EditState
    cancelled,  \* contexts that were cancelled
    db,         \* analysis_runs.status by run
    asked,      \* the newest user_request_input in the history is unanswered
    connPc,     \* where each connection's handler is
    connMsg,    \* the message it handles
    connEdit,   \* the edit context of that message
    connRun,    \* the handler's local runID / activeRunID
    engPc,      \* where each engine goroutine is
    engRun,     \* the run of its event dispatcher
    engIter,    \* iterations of its main loop
    engCalls,   \* tool calls left in its current turn
    engAsk,     \* does the turn end in a user_request_input?
    engRes,     \* the terminal status its last event carries
    wiped       \* history variable: a reset dropped the active run's history

sessVars == <<activeRun, status, cancelCtx, edit>>
connVars == <<connPc, connMsg, connEdit, connRun>>
engVars == <<engPc, engRun, engIter, engCalls, engAsk, engRes>>
vars == <<nMsg, sessVars, cancelled, db, asked, connVars, engVars, wiped>>

Init ==
    /\ nMsg = 0
    /\ activeRun = NoRun
    /\ status = "idle"
    /\ cancelCtx = NoRun
    /\ edit = NoEdit
    /\ cancelled = {}
    /\ db = [r \in Msgs |-> "absent"]
    /\ asked = FALSE
    /\ connPc = [c \in Conns |-> "read"]
    /\ connMsg = [c \in Conns |-> NoRun]
    /\ connEdit = [c \in Conns |-> NoEdit]
    /\ connRun = [c \in Conns |-> NoRun]
    /\ engPc = [x \in Msgs |-> "none"]
    /\ engRun = [x \in Msgs |-> NoRun]
    /\ engIter = [x \in Msgs |-> 0]
    /\ engCalls = [x \in Msgs |-> 0]
    /\ engAsk = [x \in Msgs |-> FALSE]
    /\ engRes = [x \in Msgs |-> "failed"]
    /\ wiped = FALSE

-----------------------------------------------------------------------------
(* The session's methods, each one critical section of Session.mu.         *)

(* CancelRun: the run is named, or any run is meant.  ActiveRun.Cancel is  *)
(* never nil while ActiveRun is set.                                       *)
CancelRun(r) ==
    IF activeRun # NoRun /\ r \in {AnyRun, activeRun}
    THEN /\ status' = "cancelling"
         /\ cancelled' = cancelled \cup {cancelCtx}
         /\ UNCHANGED <<activeRun, cancelCtx, edit>>
    ELSE UNCHANGED <<sessVars, cancelled>>

FinishRun(r) ==
    IF activeRun = r
    THEN /\ activeRun' = NoRun
         /\ status' = "idle"
         /\ cancelCtx' = NoRun
         /\ edit' = NoEdit
         /\ wiped' = FALSE
    ELSE UNCHANGED <<sessVars, wiped>>

(* A statement on analysis_runs; a failure is logged and forgotten.        *)
UpdateStatus(r, s) ==
    \/ db' = [db EXCEPT ![r] = s]
    \/ DbMayFail /\ UNCHANGED db

-----------------------------------------------------------------------------
(* The connection's handler.                                               *)

ConnGoto(c, pc) ==
    /\ connPc' = [connPc EXCEPT ![c] = pc]
    /\ UNCHANGED <<connMsg, connEdit, connRun>>

(* Back to ReadMessage; the locals of the message are gone.                *)
ConnRead(c) ==
    /\ connPc' = [connPc EXCEPT ![c] = "read"]
    /\ connMsg' = [connMsg EXCEPT ![c] = NoRun]
    /\ connEdit' = [connEdit EXCEPT ![c] = NoEdit]
    /\ connRun' = [connRun EXCEPT ![c] = NoRun]

(* A user message arrives: ConsumeWaitingRun decides, in one critical      *)
(* section, whether it answers a suspended run or asks for a new one.      *)
RecvUserMessage(c) ==
    /\ connPc[c] = "read"
    /\ nMsg < MaxMsgs
    /\ nMsg' = nMsg + 1
    /\ connMsg' = [connMsg EXCEPT ![c] = nMsg + 1]
    /\ \E e \in EditScopes \cup {NoEdit} : connEdit' = [connEdit EXCEPT ![c] = e]
    /\ IF status = "waiting_user_input"
       THEN /\ status' = "running"
            /\ connRun' = [connRun EXCEPT ![c] = activeRun]
            /\ connPc' = [connPc EXCEPT ![c] = "answer"]
       ELSE /\ connRun' = [connRun EXCEPT ![c] = nMsg + 1]
            /\ connPc' = [connPc EXCEPT ![c] = "prepare"]
            /\ UNCHANGED status
    /\ UNCHANGED <<activeRun, cancelCtx, edit, cancelled, db, asked, engVars, wiped>>

(* ProvideAskUserResult: with no unanswered question left in the history   *)
(* the handler reports an error and goes back to reading.                  *)
AnswerQuestion(c) ==
    /\ connPc[c] = "answer"
    /\ IF asked
       THEN asked' = FALSE /\ ConnGoto(c, "markRunning")
       ELSE ConnRead(c) /\ UNCHANGED asked
    /\ UNCHANGED <<nMsg, sessVars, cancelled, db, engVars, wiped>>

MarkRunning(c) ==
    /\ connPc[c] = "markRunning"
    /\ UpdateStatus(connRun[c], "running")
    /\ ConnGoto(c, "rearm")
    /\ UNCHANGED <<nMsg, sessVars, cancelled, asked, engVars, wiped>>

(* go Engine.Run: the goroutine begins at the top of its main loop.        *)
Launch(c) ==
    /\ engPc' = [engPc EXCEPT ![connMsg[c]] = "top"]
    /\ engRun' = [engRun EXCEPT ![connMsg[c]] = connRun[c]]
    /\ ConnRead(c)
    /\ UNCHANGED <<engIter, engCalls, engAsk, engRes>>

(* The resumed goroutine keeps being cancelled through the first context.  *)
Resume_KeepsCancelFunc(c) ==
    /\ connPc[c] = "rearm"
    /\ Launch(c)
    /\ UNCHANGED <<nMsg, sessVars, cancelled, db, asked, wiped>>

(* UpdateCancelFunc arms the run with the resumed context; Engine.Run      *)
(* starts again on the history that now holds the answer.                  *)
Resume(c) ==
    /\ connPc[c] = "rearm"
    /\ cancelCtx' = IF activeRun = connRun[c] THEN connMsg[c] ELSE cancelCtx
    /\ Launch(c)
    /\ UNCHANGED <<nMsg, activeRun, status, edit, cancelled, db, asked, wiped>>

(* runBeforeUserRunHooks -> PrepareUserRun: a report snapshot that cannot  *)
(* be loaded sends the handler back to reading; otherwise the message's    *)
(* edit context becomes the session's, before StartRun has accepted it.    *)
PrepareUserRun(c) ==
    /\ connPc[c] = "prepare"
    /\ \/ ConnRead(c) /\ UNCHANGED edit
       \/ ConnGoto(c, "start") /\ edit' = connEdit[c]
    /\ UNCHANGED <<nMsg, activeRun, status, cancelCtx, cancelled, db, asked, engVars, wiped>>

(* A run that is being cancelled no longer blocks a new one. *)
StartRun_OverCancelling(c) ==
    /\ connPc[c] = "start"
    /\ IF activeRun # NoRun /\ status # "cancelling"
       THEN ConnRead(c) /\ UNCHANGED <<activeRun, status, cancelCtx, wiped>>
       ELSE /\ activeRun' = connRun[c]
            /\ status' = "running"
            /\ cancelCtx' = connMsg[c]
            /\ wiped' = FALSE
            /\ ConnGoto(c, "create")
    /\ UNCHANGED <<nMsg, edit, cancelled, db, asked, engVars>>

StartRun(c) ==
    /\ connPc[c] = "start"
    /\ IF activeRun # NoRun
       THEN ConnRead(c) /\ UNCHANGED <<activeRun, status, cancelCtx, wiped>>
       ELSE /\ activeRun' = connRun[c]
            /\ status' = "running"
            /\ cancelCtx' = connMsg[c]
            /\ wiped' = FALSE
            /\ ConnGoto(c, "create")
    /\ UNCHANGED <<nMsg, edit, cancelled, db, asked, engVars>>

(* runRepo.Create; when it fails the handler cancels the run and returns.  *)
CreateRun(c) ==
    /\ connPc[c] = "create"
    /\ \/ /\ db' = [db EXCEPT ![connRun[c]] = "running"]
          /\ ConnGoto(c, "launch")
          /\ UNCHANGED <<sessVars, cancelled>>
       \/ /\ DbMayFail
          /\ CancelRun(connRun[c])
          /\ ConnRead(c)
          /\ UNCHANGED db
    /\ UNCHANGED <<nMsg, asked, engVars, wiped>>

LaunchRun(c) ==
    /\ connPc[c] = "launch"
    /\ Launch(c)
    /\ UNCHANGED <<nMsg, sessVars, cancelled, db, asked, wiped>>

(* A stop names a run (perhaps one long over) or any run.                  *)
Stop(c) ==
    /\ connPc[c] = "read"
    /\ \E r \in RunIds : CancelRun(r)
    /\ UNCHANGED <<nMsg, db, asked, connVars, engVars, wiped>>

(* Session.Reset: cancel, drop the engine's history, clear the report and  *)
(* edit state; three critical sections on two locks.                       *)
ResetCancel(c) ==
    /\ connPc[c] = "read"
    /\ CancelRun(AnyRun)
    /\ ConnGoto(c, "resetHistory")
    /\ UNCHANGED <<nMsg, db, asked, engVars, wiped>>

ResetHistory(c) ==
    /\ connPc[c] = "resetHistory"
    /\ asked' = FALSE
    /\ wiped' = (wiped \/ activeRun # NoRun)
    /\ ConnGoto(c, "resetReport")
    /\ UNCHANGED <<nMsg, sessVars, cancelled, db, engVars>>

ResetReport(c) ==
    /\ connPc[c] = "resetReport"
    /\ edit' = NoEdit
    /\ ConnRead(c)
    /\ UNCHANGED <<nMsg, activeRun, status, cancelCtx, cancelled, db, asked, engVars, wiped>>

-----------------------------------------------------------------------------
(* The engine goroutine.                                                   *)

EngGoto(x, pc) ==
    /\ engPc' = [engPc EXCEPT ![x] = pc]
    /\ UNCHANGED <<engRun, engIter, engCalls, engAsk, engRes>>

(* Engine.Run returns; its locals are gone.                                *)
EngReturn(x) ==
    /\ engPc' = [engPc EXCEPT ![x] = "exit"]
    /\ engRun' = [engRun EXCEPT ![x] = NoRun]
    /\ engIter' = [engIter EXCEPT ![x] = 0]
    /\ engCalls' = [engCalls EXCEPT ![x] = 0]
    /\ engAsk' = [engAsk EXCEPT ![x] = FALSE]
    /\ engRes' = [engRes EXCEPT ![x] = "failed"]

(* The goroutine is about to emit its terminal event.                      *)
EmitTerminal(x, res) ==
    /\ engPc' = [engPc EXCEPT ![x] = "finish"]
    /\ engRes' = [engRes EXCEPT ![x] = res]
    /\ UNCHANGED <<engRun, engIter, engCalls, engAsk>>

NextIteration(x) ==
    /\ engPc' = [engPc EXCEPT ![x] = "llm"]
    /\ engIter' = [engIter EXCEPT ![x] = @ + 1]
    /\ UNCHANGED <<engRun, engCalls, engAsk, engRes>>

(* The head of the main loop: cancelled, out of iterations, or one more.   *)
LoopTop(x) ==
    /\ engPc[x] = "top"
    /\ IF x \in cancelled THEN EmitTerminal(x, "cancelled")
       ELSE IF engIter[x] = MaxMainLoopIterations THEN EmitTerminal(x, "failed")
       ELSE NextIteration(x)
    /\ UNCHANGED <<nMsg, sessVars, cancelled, db, asked, connVars, wiped>>

ToolTurn(x, k, ask) ==
    /\ engPc' = [engPc EXCEPT ![x] = "tool"]
    /\ engCalls' = [engCalls EXCEPT ![x] = k]
    /\ engAsk' = [engAsk EXCEPT ![x] = ask]
    /\ asked' = (asked \/ ask)
    /\ UNCHANGED <<engRun, engIter, engRes>>

(* An error of the model ends the goroutine without an event. *)
ModelTurn_SilentError(x) ==
    /\ engPc[x] = "llm"
    /\ \/ (EmitTerminal(x, "completed") \/ EngReturn(x)) /\ UNCHANGED asked
       \/ \E k \in 1..MaxToolCalls, ask \in BOOLEAN : ToolTurn(x, k, ask)
    /\ UNCHANGED <<nMsg, sessVars, cancelled, db, connVars, wiped>>

(* ChatWithTools returns: an error or an empty answer, a final text, or a  *)
(* turn of tool calls, whose assistant message enters the history at once. *)
ModelTurn(x) ==
    /\ engPc[x] = "llm"
    /\ \/ (\E res \in {"failed", "completed"} : EmitTerminal(x, res)) /\ UNCHANGED asked
       \/ \E k \in 1..MaxToolCalls, ask \in BOOLEAN : ToolTurn(x, k, ask)
    /\ UNCHANGED <<nMsg, sessVars, cancelled, db, connVars, wiped>>

AsksNow(x) == engCalls[x] = 1 /\ engAsk[x]

(* One call of the turn is done.                                           *)
CallDone(x, pc) ==
    /\ engPc' = [engPc EXCEPT ![x] = pc]
    /\ engCalls' = [engCalls EXCEPT ![x] = @ - 1]
    /\ UNCHANGED <<engRun, engIter, engAsk, engRes>>

(* A tool call runs.  A user_request_input is emitted (or, with arguments  *)
(* that do not parse, fails the run) whatever the context says; after any  *)
(* other tool a cancelled context ends the goroutine on the spot, without  *)
(* an event.  A report_finalize that succeeded goes on to save the report. *)
RunTool(x) ==
    /\ engPc[x] = "tool"
    /\ \/ AsksNow(x) /\ (EmitTerminal(x, "failed") \/ CallDone(x, "suspend"))
       \/ ~AsksNow(x) /\ x \in cancelled /\ EngReturn(x)
       \/ /\ ~AsksNow(x) /\ x \notin cancelled
          /\ \/ CallDone(x, IF engCalls[x] = 1 THEN "top" ELSE "tool")
             \/ CallDone(x, "saving")
    /\ UNCHANGED <<nMsg, sessVars, cancelled, db, asked, connVars, wiped>>

(* reportLifecycleHook: finalizeAndPersistReport, and when it fails        *)
(* CancelRun, FinishRun and the failed status, all inside the emit.        *)
SaveReport(x) ==
    /\ engPc[x] = "saving"
    /\ \E pc \in {"emitted", "failCancel"} : EngGoto(x, pc)
    /\ UNCHANGED <<nMsg, sessVars, cancelled, db, asked, connVars, wiped>>

(* The hook fails the run but leaves its engine running. *)
SaveFailedCancel_Skipped(x) ==
    /\ engPc[x] = "failCancel"
    /\ EngGoto(x, "failFinish")
    /\ UNCHANGED <<nMsg, sessVars, cancelled, db, asked, connVars, wiped>>

SaveFailedCancel(x) ==
    /\ engPc[x] = "failCancel"
    /\ CancelRun(engRun[x])
    /\ EngGoto(x, "failFinish")
    /\ UNCHANGED <<nMsg, db, asked, connVars, wiped>>

SaveFailedFinish(x) ==
    /\ engPc[x] = "failFinish"
    /\ FinishRun(engRun[x])
    /\ EngGoto(x, IF activeRun = engRun[x] THEN "failPersist" ELSE "emitted")
    /\ UNCHANGED <<nMsg, cancelled, db, asked, connVars>>

(* The hook finishes the run but does not record it. *)
SaveFailedPersist_Skipped(x) ==
    /\ engPc[x] = "failPersist"
    /\ EngGoto(x, "emitted")
    /\ UNCHANGED <<nMsg, sessVars, cancelled, db, asked, connVars, wiped>>

SaveFailedPersist(x) ==
    /\ engPc[x] = "failPersist"
    /\ UpdateStatus(engRun[x], "failed")
    /\ EngGoto(x, "emitted")
    /\ UNCHANGED <<nMsg, sessVars, cancelled, asked, connVars, wiped>>

(* Back from the emit of the finalize result: the second context check.    *)
AfterEmit(x) ==
    /\ engPc[x] = "emitted"
    /\ IF x \in cancelled THEN EngReturn(x) ELSE EngGoto(x, "summary")
    /\ UNCHANGED <<nMsg, sessVars, cancelled, db, asked, connVars, wiped>>

(* finalResponseAfterFinalize: the closing text, or its error.             *)
Summarise(x) ==
    /\ engPc[x] = "summary"
    /\ \E res \in {"failed", "completed"} : EmitTerminal(x, res)
    /\ UNCHANGED <<nMsg, sessVars, cancelled, db, asked, connVars, wiped>>

(* runLifecycleHook on a terminal event: FinishRun, then, when the run was *)
(* still the active one, its status in the database.                       *)
Finish(x) ==
    /\ engPc[x] = "finish"
    /\ FinishRun(engRun[x])
    /\ IF activeRun = engRun[x] THEN EngGoto(x, "persist") ELSE EngReturn(x)
    /\ UNCHANGED <<nMsg, cancelled, db, asked, connVars>>

Persist(x) ==
    /\ engPc[x] = "persist"
    /\ UpdateStatus(engRun[x], engRes[x])
    /\ EngReturn(x)
    /\ UNCHANGED <<nMsg, sessVars, cancelled, asked, connVars, wiped>>

(* runLifecycleHook on user_request_input: SuspendRun does not look at the *)
(* status it overwrites; the status in the database follows.               *)
Suspend(x) ==
    /\ engPc[x] = "suspend"
    /\ IF activeRun = engRun[x]
       THEN status' = "waiting_user_input" /\ EngGoto(x, "persistWait")
       ELSE UNCHANGED status /\ EngReturn(x)
    /\ UNCHANGED <<nMsg, activeRun, cancelCtx, edit, cancelled, db, asked, connVars, wiped>>

(* The suspension is kept in memory only. *)
PersistWait_Skipped(x) ==
    /\ engPc[x] = "persistWait"
    /\ EngReturn(x)
    /\ UNCHANGED <<nMsg, sessVars, cancelled, db, asked, connVars, wiped>>

PersistWait(x) ==
    /\ engPc[x] = "persistWait"
    /\ UpdateStatus(engRun[x], "waiting_user_input")
    /\ EngReturn(x)
    /\ UNCHANGED <<nMsg, sessVars, cancelled, asked, connVars, wiped>>

-----------------------------------------------------------------------------
(* What a handler does by itself once it has read a message, and what its  *)
(* user may send.                                                          *)
ConnStep(c) ==
    \/ AnswerQuestion(c) \/ MarkRunning(c) \/ Resume(c)
    \/ PrepareUserRun(c) \/ StartRun(c) \/ CreateRun(c) \/ LaunchRun(c)
    \/ ResetHistory(c) \/ ResetReport(c)

UserStep(c) == RecvUserMessage(c) \/ Stop(c) \/ ResetCancel(c)

EngineStep(x) ==
    \/ LoopTop(x) \/ ModelTurn(x) \/ RunTool(x)
    \/ SaveReport(x) \/ SaveFailedCancel(x) \/ SaveFailedFinish(x) \/ SaveFailedPersist(x)
    \/ AfterEmit(x) \/ Summarise(x)
    \/ Finish(x) \/ Persist(x) \/ Suspend(x) \/ PersistWait(x)

Next ==
    \/ \E c \in Conns : ConnStep(c) \/ UserStep(c)
    \/ \E x \in Msgs : EngineStep(x)

Spec == Init /\ [][Next]_vars

(* Goroutines are scheduled: a handler that has read a message and an      *)
(* engine that runs keep going.  Model and tool calls return because each  *)
(* carries its own timeout.  Nothing makes a user send anything.           *)
Fairness ==
    /\ \A c \in Conns : WF_vars(ConnStep(c))
    /\ \A x \in Msgs : WF_vars(EngineStep(x))

FairSpec == Spec /\ Fairness
-----------------------------------------------------------------------------
ConnPcs == {"read", "answer", "markRunning", "rearm", "prepare", "start",
            "create", "launch", "resetHistory", "resetReport"}
EngPcs == {"none", "top", "llm", "tool", "saving", "failCancel", "failFinish",
           "failPersist", "emitted", "summary", "finish", "persist",
           "suspend", "persistWait", "exit"}
Statuses == {"idle", "running", "waiting_user_input", "cancelling"}
DbStatuses == {"absent", "running", "waiting_user_input"} \cup Terminal

SessTypeOK ==
    /\ nMsg \in 0..MaxMsgs
    /\ activeRun \in RunIds
    /\ status \in Statuses
    /\ (activeRun = NoRun) <=> (status = "idle")
    /\ cancelCtx \in RunIds
    /\ edit \in EditScopes \cup {NoEdit}
    /\ cancelled \subseteq Msgs
    /\ db \in [Msgs -> DbStatuses]
    /\ asked \in BOOLEAN
    /\ wiped \in BOOLEAN

ConnTypeOK ==
    /\ connPc \in [Conns -> ConnPcs]
    /\ connMsg \in [Conns -> RunIds]
    /\ connEdit \in [Conns -> EditScopes \cup {NoEdit}]
    /\ connRun \in [Conns -> RunIds]

EngTypeOK ==
    /\ engPc \in [Msgs -> EngPcs]
    /\ engRun \in [Msgs -> RunIds]
    /\ engIter \in [Msgs -> 0..MaxMainLoopIterations]
    /\ engCalls \in [Msgs -> 0..MaxToolCalls]
    /\ engAsk \in [Msgs -> BOOLEAN]
    /\ engRes \in [Msgs -> Terminal]

(* Every variable has its type, a run is active exactly when the session   *)
(* is not idle (Session.ActiveRun of session/types.go), and no main loop   *)
(* passes its iteration cap.                                               *)
TypeOK == SessTypeOK /\ ConnTypeOK /\ EngTypeOK

(* A handler holds the run between ConsumeWaitingRun or StartRun and the   *)
(* launch of the engine; an engine holds it from there until it has        *)
(* finished or suspended the run.  Past a failed save the engine lets go   *)
(* only because its context is cancelled.                                  *)
ConnOwns(c) == connPc[c] \in {"answer", "markRunning", "rearm", "create", "launch"}
EngOwns(x) ==
    \/ engPc[x] \in {"top", "llm", "tool", "saving", "failCancel", "failFinish",
                     "summary", "finish", "suspend"}
    \/ engPc[x] \in {"failPersist", "emitted"} /\ x \notin cancelled

Owned == (\E c \in Conns : ConnOwns(c)) \/ (\E x \in Msgs : EngOwns(x))

(* The session's history, report and edit state have one writer: at most   *)
(* one goroutine, handler or engine, holds a run, and it holds the active  *)
(* one.  The engine appends to the shared history without asking whether   *)
(* its run is still the active one, so two holders would mix two runs.     *)
SingleOwner ==
    /\ \A x, y \in Msgs : EngOwns(x) /\ EngOwns(y) => x = y
    /\ \A c, d \in Conns : ConnOwns(c) /\ ConnOwns(d) => c = d
    /\ \A c \in Conns, x \in Msgs : ~(ConnOwns(c) /\ EngOwns(x))
    /\ \A x \in Msgs : EngOwns(x) => activeRun = engRun[x]
    /\ \A c \in Conns : ConnOwns(c) => activeRun = connRun[c]

(* A stop reaches the engine that holds the run: while one runs, the       *)
(* session's cancel function is the one of that engine's own context, also *)
(* after the run was suspended and resumed under a new context             *)
(* (UpdateCancelFunc).                                                     *)
StopReachesEngine == \A x \in Msgs : EngOwns(x) => cancelCtx = x

(* A run that says "running" is being worked on: no path out of the        *)
(* handler or the engine forgets to finish, suspend or cancel it, except   *)
(* when a reset dropped the question a reply was for.                      *)
NoSilentAbandon == status = "running" => Owned \/ wiped

(* A run that waits for the user can be answered: the question is still    *)
(* unanswered in the history and nobody works on the run, so the next      *)
(* message resumes it instead of failing in ProvideAskUserResult.          *)
WaitingIsAnswerable ==
    status = "waiting_user_input" => ~Owned /\ (asked \/ wiped)

Quiescent ==
    /\ \A c \in Conns : connPc[c] = "read"
    /\ \A x \in Msgs : engPc[x] \in {"none", "exit"}

(* Once every goroutine has settled, a suspended run is recorded as        *)
(* waiting: the two writers of the status (MarkRunning in the handler,     *)
(* PersistWait in the engine's hook) cannot leave "running" behind.        *)
SuspensionRecorded ==
    Quiescent /\ status = "waiting_user_input" /\ ~DbMayFail
        => db[activeRun] = "waiting_user_input"

(* Once every goroutine has settled, the database calls a run running only *)
(* if the session still holds it: each path that lets a run go records how *)
(* it ended.                                                               *)
NoGhostRunning ==
    Quiescent /\ ~DbMayFail => \A r \in Msgs : db[r] = "running" => activeRun = r

(* No edit scope outlives its run: when the session is idle and no handler *)
(* is about to start a run, the edit state is empty.                       *)
EditClearedWhenIdle ==
    activeRun = NoRun /\ (\A c \in Conns : connPc[c] # "start") => edit = NoEdit

(* A running run comes to rest: it finishes, suspends, or somebody stops   *)
(* or resets it.                                                           *)
RunResolves ==
    \A r \in Msgs : (activeRun = r /\ status = "running")
        ~> (activeRun # r \/ status # "running" \/ wiped)

(* Messages that asked for a run and whose handler is past StartRun, or    *)
(* that never will ask.                                                    *)
PastStart ==
    {m \in 1..nMsg : \A c \in Conns :
        ~(connPc[c] \in {"prepare", "start"} /\ connRun[c] = m)}

Slot == INSTANCE RunSlot WITH
            Runs <- Msgs, None <- NoRun, run <- activeRun, phase <- status,
            working <- Owned, forgotten <- wiped, gone <- PastStart

(* The handlers, the engines and the locks of Session together keep the    *)
(* promise of RunSlot: the session has one place for a run, a run takes it *)
(* only when it is free and never again, and whoever works for a run       *)
(* finishes it, suspends it or leaves it cancelling.                       *)
KeepsOneSlot == Slot!Spec

-----------------------------------------------------------------------------
(* The inductive invariant behind the safety properties, in named parts.   *)

Handling(c) == connPc[c] \in {"answer", "markRunning", "rearm", "prepare",
                              "start", "create", "launch"}

(* Message numbers are fresh: nothing beyond nMsg is in use, two handlers  *)
(* never share one, and its goroutine has not been launched yet.           *)
SentMsgs == 1..nMsg

FreshMsgs ==
    /\ \A x \in Msgs \ SentMsgs : engPc[x] = "none" /\ x \notin cancelled /\ cancelCtx # x
    /\ \A c \in Conns : Handling(c) =>
          /\ connMsg[c] \in Msgs \cap SentMsgs
          /\ connRun[c] \in Msgs
          /\ engPc[connMsg[c]] = "none"
    /\ \A c, d \in Conns : Handling(c) /\ Handling(d) /\ connMsg[c] = connMsg[d] => c = d

(* A new run is named by its message; its context exists from StartRun on, *)
(* a resumed one only from UpdateCancelFunc on.                            *)
ContextOfMsg ==
    /\ \A c \in Conns : connPc[c] \in {"prepare", "start", "create", "launch"}
          => connRun[c] = connMsg[c]
    /\ \A c \in Conns : connPc[c] \in {"answer", "markRunning", "rearm", "prepare", "start"}
          => connMsg[c] \notin cancelled /\ cancelCtx # connMsg[c]
    /\ \A c \in Conns : connPc[c] \in {"create", "launch"} => cancelCtx = connMsg[c]
    /\ activeRun # NoRun => cancelCtx \in Msgs

(* The holder of a run finds it running or cancelling, and cancelling if   *)
(* its own context is already cancelled.                                   *)
OwnerStatus ==
    /\ \A c \in Conns : ConnOwns(c) => status \in {"running", "cancelling"}
    /\ \A x \in Msgs : EngOwns(x) => status \in {"running", "cancelling"}
    /\ \A c \in Conns : connPc[c] \in {"create", "launch"} /\ connMsg[c] \in cancelled
          => status = "cancelling"
    /\ \A x \in Msgs : EngOwns(x) /\ x \in cancelled => status = "cancelling"

(* Past the failed save the context is cancelled; a turn in progress has a *)
(* call left.                                                              *)
EngineLocals ==
    /\ \A x \in Msgs : engPc[x] \in {"failFinish", "failPersist"} => x \in cancelled
    /\ \A x \in Msgs : engPc[x] = "tool" => engCalls[x] >= 1

(* The question the user is asked is in the history before the run         *)
(* suspends and until the reply is entered, unless a reset dropped it.     *)
QuestionKept ==
    /\ \A x \in Msgs : engPc[x] = "tool" /\ engAsk[x] => asked \/ wiped
    /\ \A x \in Msgs : engPc[x] = "suspend" => asked \/ wiped
    /\ \A c \in Conns : connPc[c] = "answer" => asked \/ wiped

IInv ==
    /\ TypeOK
    /\ FreshMsgs
    /\ ContextOfMsg
    /\ SingleOwner
    /\ StopReachesEngine
    /\ OwnerStatus
    /\ EngineLocals
    /\ QuestionKept
    /\ NoSilentAbandon
    /\ WaitingIsAnswerable
    /\ EditClearedWhenIdle

(* Why the row of a run agrees with the session once everyone is at rest:  *)
(* runs are numbered by messages that were sent.                           *)
RunsSent == activeRun \in 0..nMsg /\ \A x \in Msgs : engRun[x] \in 0..nMsg

(* A run that has not been started is neither held nor written by anybody. *)
Unstarted ==
    \A c \in Conns : connPc[c] \in {"prepare", "start"} =>
        activeRun # connRun[c] /\ \A x \in Msgs : engRun[x] # connRun[c]

(* Who is to record how a run ended finds it gone from the session for     *)
(* good, so that nobody suspends it any more.                              *)
LetGo ==
    \A x \in Msgs : engPc[x] \in {"persist", "failPersist"} => engRun[x] \notin {NoRun, activeRun}

(* The row of a suspended run says so, or an engine is about to write it.  *)
WaitRecorded ==
    status = "waiting_user_input" /\ ~DbMayFail =>
        \/ db[activeRun] = "waiting_user_input"
        \/ \E x \in Msgs : engPc[x] = "persistWait" /\ engRun[x] = activeRun

(* A row says running only while the session holds the run or an engine is *)
(* about to write how it ended.                                            *)
RunRecorded ==
    ~DbMayFail => \A r \in Msgs : db[r] = "running" =>
        \/ activeRun = r
        \/ \E x \in Msgs : engPc[x] \in {"persist", "failPersist"} /\ engRun[x] = r

RecordInv == RunsSent /\ Unstarted /\ LetGo /\ WaitRecorded /\ RunRecorded

-----------------------------------------------------------------------------
(* What the repository says of this code and the code does not do.         *)

(* A stop is followed by an idle session (session/manager_test.go,         *)
(* TestManagerStopWaitsForActiveRunToFinish; the refusal of StartRun tells *)
(* the user to try again after stopping).                                  *)
StopEventuallyIdle == status = "cancelling" ~> status # "cancelling"
=============================================================================
