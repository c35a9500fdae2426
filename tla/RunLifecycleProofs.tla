------------------------- MODULE RunLifecycleProofs -------------------------
(***************************************************************************)
(* Proofs, for every set of connections and edit scopes and for all bounds,*)
(* that the session of RunLifecycle keeps its inductive invariant IInv:    *)
(* one lemma per action, and the theorems that follow.                     *)
(***************************************************************************)
EXTENDS RunLifecycle, TLAPS

(* Run, context and message numbers start at 1; 0 stands for none of them. *)
LEMMA NoRunFact == NoRun \notin Msgs /\ RunIds = Msgs \cup {NoRun}
  BY DEF NoRun, Msgs, RunIds

(* A goroutine that returns leaves well-typed locals behind.               *)
LEMMA EngReturnType == ASSUME NEW x \in Msgs, EngTypeOK, EngReturn(x) PROVE EngTypeOK'
  BY BoundsAssumption, NoRunFact DEF EngTypeOK, EngReturn, EngPcs, Terminal

(* A session that was just created satisfies the invariant.                *)
LEMMA InitInv == Init => IInv
<1> SUFFICES ASSUME Init PROVE IInv
  OBVIOUS
<1> USE NoRunFact DEF Init
<1>1. SessTypeOK
  <2>1. nMsg \in 0..MaxMsgs
    BY BoundsAssumption
  <2>2. db \in [Msgs -> DbStatuses]
    BY DEF DbStatuses
  <2> QED BY <2>1, <2>2 DEF SessTypeOK, Statuses
<1>2. ConnTypeOK /\ EngTypeOK
  BY BoundsAssumption DEF ConnTypeOK, EngTypeOK, ConnPcs, EngPcs, Terminal
<1>3. FreshMsgs /\ ContextOfMsg
  BY DEF FreshMsgs, Handling, ContextOfMsg
<1>4. SingleOwner /\ StopReachesEngine /\ OwnerStatus /\ EngineLocals
  BY DEF SingleOwner, StopReachesEngine, OwnerStatus, EngineLocals, ConnOwns, EngOwns
<1>5. QuestionKept /\ NoSilentAbandon /\ WaitingIsAnswerable /\ EditClearedWhenIdle
  BY DEF QuestionKept, NoSilentAbandon, WaitingIsAnswerable, EditClearedWhenIdle
<1> QED BY <1>1, <1>2, <1>3, <1>4, <1>5 DEF IInv, TypeOK

(* ConsumeWaitingRun: the handler takes a waiting run, which nobody holds, *)
(* or a message number nobody used before.                                 *)
LEMMA RecvUserMessageInv == ASSUME NEW c \in Conns, IInv, RecvUserMessage(c) PROVE IInv'
<1> DEFINE m == nMsg + 1
<1>1. /\ m \in Msgs \ SentMsgs
      /\ SentMsgs' = SentMsgs \cup {m}
      /\ nMsg' \in 0..MaxMsgs
  BY BoundsAssumption DEF IInv, TypeOK, SessTypeOK, Msgs, SentMsgs, RecvUserMessage
<1>2. /\ connPc[c] = "read"
      /\ connMsg' = [connMsg EXCEPT ![c] = m]
      /\ \/ /\ status = "waiting_user_input"
            /\ status' = "running"
            /\ connRun' = [connRun EXCEPT ![c] = activeRun]
            /\ connPc' = [connPc EXCEPT ![c] = "answer"]
         \/ /\ status' = status
            /\ connRun' = [connRun EXCEPT ![c] = m]
            /\ connPc' = [connPc EXCEPT ![c] = "prepare"]
      /\ \E e \in EditScopes \cup {NoEdit} : connEdit' = [connEdit EXCEPT ![c] = e]
      /\ UNCHANGED <<activeRun, cancelCtx, edit, cancelled, db, asked>>
      /\ UNCHANGED <<engPc, engRun, engIter, engCalls, engAsk, engRes, wiped>>
  BY DEF RecvUserMessage, engVars
<1> HIDE DEF m
<1>3. SessTypeOK' /\ EngTypeOK'
  BY <1>1, <1>2 DEF IInv, TypeOK, SessTypeOK, EngTypeOK, Statuses
<1>4. ConnTypeOK'
  BY <1>1, <1>2, NoRunFact DEF IInv, TypeOK, SessTypeOK, ConnTypeOK, ConnPcs
<1>5. FreshMsgs'
  <2>1. status = "waiting_user_input" => activeRun \in Msgs
    BY NoRunFact DEF IInv, TypeOK, SessTypeOK
  <2> QED BY <1>1, <1>2, <2>1 DEF IInv, TypeOK, ConnTypeOK, FreshMsgs, Handling
<1>6. ContextOfMsg'
  BY <1>1, <1>2 DEF IInv, TypeOK, ConnTypeOK, FreshMsgs, ContextOfMsg
<1>7. SingleOwner' /\ StopReachesEngine' /\ OwnerStatus' /\ EngineLocals'
  BY <1>2 DEF IInv, TypeOK, ConnTypeOK, SingleOwner, StopReachesEngine, OwnerStatus,
       EngineLocals, WaitingIsAnswerable, Owned, ConnOwns, EngOwns
<1>8. QuestionKept' /\ NoSilentAbandon' /\ WaitingIsAnswerable' /\ EditClearedWhenIdle'
  BY <1>2 DEF IInv, TypeOK, ConnTypeOK, QuestionKept, NoSilentAbandon, WaitingIsAnswerable,
       EditClearedWhenIdle, Owned, ConnOwns, EngOwns
<1> QED BY <1>3, <1>4, <1>5, <1>6, <1>7, <1>8 DEF IInv, TypeOK

(* ProvideAskUserResult: the reply is found a question, or a reset took it.*)
LEMMA AnswerQuestionInv == ASSUME NEW c \in Conns, IInv, AnswerQuestion(c) PROVE IInv'
<1> USE DEF AnswerQuestion, ConnGoto, ConnRead, sessVars, engVars
<1>1. SentMsgs' = SentMsgs
  BY DEF SentMsgs
<1>2. SessTypeOK'
  BY DEF IInv, TypeOK, SessTypeOK, Statuses
<1>3. ConnTypeOK'
  BY NoRunFact DEF IInv, TypeOK, ConnTypeOK, ConnPcs
<1>4. EngTypeOK'
  BY DEF IInv, TypeOK, EngTypeOK, EngPcs, Terminal
<1>5. FreshMsgs' /\ ContextOfMsg'
  BY <1>1 DEF IInv, TypeOK, ConnTypeOK, EngTypeOK, FreshMsgs, Handling, ContextOfMsg
<1>6. SingleOwner' /\ StopReachesEngine' /\ OwnerStatus' /\ EngineLocals'
  BY DEF IInv, TypeOK, ConnTypeOK, EngTypeOK, SingleOwner, StopReachesEngine,
       OwnerStatus, EngineLocals, ConnOwns, EngOwns
<1>7. QuestionKept' /\ NoSilentAbandon' /\ WaitingIsAnswerable' /\ EditClearedWhenIdle'
  BY DEF IInv, TypeOK, ConnTypeOK, EngTypeOK, QuestionKept, NoSilentAbandon,
       WaitingIsAnswerable, EditClearedWhenIdle, Owned, ConnOwns, EngOwns, SingleOwner,
       OwnerStatus
<1> QED BY <1>2, <1>3, <1>4, <1>5, <1>6, <1>7 DEF IInv, TypeOK

(* The handler's write of the running status touches the database only.    *)
LEMMA MarkRunningInv == ASSUME NEW c \in Conns, IInv, MarkRunning(c) PROVE IInv'
<1> USE DEF MarkRunning, UpdateStatus, ConnGoto, sessVars, engVars
<1>1. SentMsgs' = SentMsgs
  BY DEF SentMsgs
<1>2. SessTypeOK' /\ ConnTypeOK' /\ EngTypeOK'
  BY DEF IInv, TypeOK, SessTypeOK, ConnTypeOK, EngTypeOK, Statuses, ConnPcs, EngPcs,
       Terminal, DbStatuses
<1>3. FreshMsgs' /\ ContextOfMsg'
  BY <1>1 DEF IInv, TypeOK, ConnTypeOK, EngTypeOK, FreshMsgs, Handling, ContextOfMsg
<1>4. SingleOwner' /\ StopReachesEngine' /\ OwnerStatus' /\ EngineLocals'
  BY DEF IInv, TypeOK, ConnTypeOK, EngTypeOK, SingleOwner, StopReachesEngine,
       OwnerStatus, EngineLocals, ConnOwns, EngOwns
<1>5. QuestionKept' /\ NoSilentAbandon' /\ WaitingIsAnswerable' /\ EditClearedWhenIdle'
  BY DEF IInv, TypeOK, ConnTypeOK, EngTypeOK, QuestionKept, NoSilentAbandon,
       WaitingIsAnswerable, EditClearedWhenIdle, Owned, ConnOwns, EngOwns
<1> QED BY <1>2, <1>3, <1>4, <1>5 DEF IInv, TypeOK

(* UpdateCancelFunc and the launch hand the run from handler to engine.    *)
LEMMA ResumeInv == ASSUME NEW c \in Conns, IInv, Resume(c) PROVE IInv'
<1> USE DEF Resume, Launch, ConnRead
<1>1. SentMsgs' = SentMsgs
  BY DEF SentMsgs
<1>2. SessTypeOK' /\ ConnTypeOK' /\ EngTypeOK'
  BY NoRunFact DEF IInv, TypeOK, SessTypeOK, ConnTypeOK, EngTypeOK, Statuses, ConnPcs,
       EngPcs, Terminal
<1>3. FreshMsgs' /\ ContextOfMsg'
  BY <1>1, NoRunFact DEF IInv, TypeOK, ConnTypeOK, EngTypeOK, FreshMsgs, Handling,
       ContextOfMsg, SessTypeOK, OwnerStatus, SingleOwner, ConnOwns, EngOwns
<1>4. SingleOwner' /\ StopReachesEngine' /\ OwnerStatus' /\ EngineLocals'
  BY NoRunFact DEF IInv, TypeOK, ConnTypeOK, EngTypeOK, SingleOwner, StopReachesEngine,
       OwnerStatus, EngineLocals, ConnOwns, EngOwns, ContextOfMsg
<1>5. QuestionKept' /\ NoSilentAbandon' /\ WaitingIsAnswerable' /\ EditClearedWhenIdle'
  BY NoRunFact DEF IInv, TypeOK, ConnTypeOK, EngTypeOK, QuestionKept, NoSilentAbandon,
       WaitingIsAnswerable, EditClearedWhenIdle, Owned, ConnOwns, EngOwns, SessTypeOK,
       SingleOwner, OwnerStatus, FreshMsgs, Handling
<1> QED BY <1>2, <1>3, <1>4, <1>5 DEF IInv, TypeOK

(* PrepareUserRun changes the edit scope only, and is then at StartRun.    *)
LEMMA PrepareUserRunInv == ASSUME NEW c \in Conns, IInv, PrepareUserRun(c) PROVE IInv'
<1> USE DEF PrepareUserRun, ConnGoto, ConnRead, engVars
<1>1. SentMsgs' = SentMsgs
  BY DEF SentMsgs
<1>2. SessTypeOK' /\ ConnTypeOK' /\ EngTypeOK'
  BY NoRunFact DEF IInv, TypeOK, SessTypeOK, ConnTypeOK, EngTypeOK, Statuses, ConnPcs,
       EngPcs, Terminal
<1>3. FreshMsgs' /\ ContextOfMsg'
  BY <1>1 DEF IInv, TypeOK, ConnTypeOK, EngTypeOK, FreshMsgs, Handling, ContextOfMsg
<1>4. SingleOwner' /\ StopReachesEngine' /\ OwnerStatus' /\ EngineLocals'
  BY DEF IInv, TypeOK, ConnTypeOK, EngTypeOK, SingleOwner, StopReachesEngine,
       OwnerStatus, EngineLocals, ConnOwns, EngOwns
<1>5. QuestionKept' /\ NoSilentAbandon' /\ WaitingIsAnswerable' /\ EditClearedWhenIdle'
  BY DEF IInv, TypeOK, ConnTypeOK, EngTypeOK, QuestionKept, NoSilentAbandon,
       WaitingIsAnswerable, EditClearedWhenIdle, Owned, ConnOwns, EngOwns
<1> QED BY <1>2, <1>3, <1>4, <1>5 DEF IInv, TypeOK

(* StartRun accepts when nobody holds a run; the handler then holds it.    *)
LEMMA StartRunInv == ASSUME NEW c \in Conns, IInv, StartRun(c) PROVE IInv'
<1> USE DEF StartRun, ConnGoto, ConnRead, engVars
<1>1. SentMsgs' = SentMsgs
  BY DEF SentMsgs
<1>2. SessTypeOK'
  <2>1. connRun[c] \in Msgs /\ connMsg[c] \in RunIds /\ connEdit[c] \in EditScopes \cup {NoEdit}
    BY DEF IInv, TypeOK, ConnTypeOK, FreshMsgs, Handling
  <2> QED BY <2>1, NoRunFact DEF IInv, TypeOK, SessTypeOK, Statuses
<1>3. ConnTypeOK'
  BY NoRunFact DEF IInv, TypeOK, ConnTypeOK, ConnPcs
<1>4. EngTypeOK'
  BY DEF IInv, TypeOK, EngTypeOK, EngPcs, Terminal
<1>5. FreshMsgs' /\ ContextOfMsg'
  BY <1>1, NoRunFact DEF IInv, TypeOK, ConnTypeOK, EngTypeOK, FreshMsgs, Handling,
       ContextOfMsg, SessTypeOK, OwnerStatus, ConnOwns
<1>6. SingleOwner' /\ StopReachesEngine' /\ OwnerStatus' /\ EngineLocals'
  BY NoRunFact DEF IInv, TypeOK, ConnTypeOK, EngTypeOK, SingleOwner, StopReachesEngine,
       OwnerStatus, EngineLocals, ConnOwns, EngOwns, SessTypeOK, ContextOfMsg,
       FreshMsgs, Handling
<1>7. QuestionKept' /\ NoSilentAbandon' /\ WaitingIsAnswerable' /\ EditClearedWhenIdle'
  BY NoRunFact DEF IInv, TypeOK, ConnTypeOK, EngTypeOK, QuestionKept, NoSilentAbandon,
       WaitingIsAnswerable, EditClearedWhenIdle, Owned, ConnOwns, EngOwns, SessTypeOK,
       SingleOwner, OwnerStatus, FreshMsgs, Handling
<1> QED BY <1>2, <1>3, <1>4, <1>5, <1>6, <1>7 DEF IInv, TypeOK

(* runRepo.Create, or the cancellation of the run it failed for.           *)
LEMMA CreateRunInv == ASSUME NEW c \in Conns, IInv, CreateRun(c) PROVE IInv'
<1> USE DEF CreateRun, CancelRun, AnyRun, ConnGoto, ConnRead, sessVars, engVars
<1>1. SentMsgs' = SentMsgs
  BY DEF SentMsgs
<1>2. SessTypeOK'
  BY NoRunFact, BoundsAssumption DEF IInv, TypeOK, SessTypeOK, ConnTypeOK, EngTypeOK,
       ContextOfMsg, FreshMsgs, Handling, Statuses, DbStatuses, Terminal
<1>3. ConnTypeOK'
  BY NoRunFact DEF IInv, TypeOK, ConnTypeOK, ConnPcs
<1>4. EngTypeOK'
  BY DEF IInv, TypeOK, EngTypeOK, EngPcs, Terminal
<1>5. FreshMsgs' /\ ContextOfMsg'
  BY <1>1 DEF IInv, TypeOK, ConnTypeOK, EngTypeOK, FreshMsgs, Handling, ContextOfMsg
<1>6. SingleOwner' /\ StopReachesEngine' /\ OwnerStatus' /\ EngineLocals'
  BY DEF IInv, TypeOK, ConnTypeOK, EngTypeOK, SingleOwner, StopReachesEngine,
       OwnerStatus, EngineLocals, ConnOwns, EngOwns
<1>7. QuestionKept' /\ NoSilentAbandon' /\ WaitingIsAnswerable' /\ EditClearedWhenIdle'
  BY DEF IInv, TypeOK, ConnTypeOK, EngTypeOK, QuestionKept, NoSilentAbandon,
       WaitingIsAnswerable, EditClearedWhenIdle, Owned, ConnOwns, EngOwns, SessTypeOK,
       SingleOwner, OwnerStatus
<1> QED BY <1>2, <1>3, <1>4, <1>5, <1>6, <1>7 DEF IInv, TypeOK

(* The launch hands a new run from handler to engine.                      *)
LEMMA LaunchRunInv == ASSUME NEW c \in Conns, IInv, LaunchRun(c) PROVE IInv'
<1> USE DEF LaunchRun, Launch, ConnRead, sessVars
<1>1. SentMsgs' = SentMsgs
  BY DEF SentMsgs
<1>2. SessTypeOK' /\ ConnTypeOK' /\ EngTypeOK'
  BY NoRunFact DEF IInv, TypeOK, SessTypeOK, ConnTypeOK, EngTypeOK, Statuses, ConnPcs,
       EngPcs, Terminal
<1>3. FreshMsgs' /\ ContextOfMsg'
  BY <1>1 DEF IInv, TypeOK, ConnTypeOK, EngTypeOK, FreshMsgs, Handling, ContextOfMsg
<1>4. SingleOwner' /\ StopReachesEngine' /\ OwnerStatus' /\ EngineLocals'
  BY NoRunFact DEF IInv, TypeOK, ConnTypeOK, EngTypeOK, SingleOwner, StopReachesEngine,
       OwnerStatus, EngineLocals, ConnOwns, EngOwns, ContextOfMsg
<1>5. QuestionKept' /\ NoSilentAbandon' /\ WaitingIsAnswerable' /\ EditClearedWhenIdle'
  BY NoRunFact DEF IInv, TypeOK, ConnTypeOK, EngTypeOK, QuestionKept, NoSilentAbandon,
       WaitingIsAnswerable, EditClearedWhenIdle, Owned, ConnOwns, EngOwns, SessTypeOK,
       SingleOwner, OwnerStatus, FreshMsgs, Handling
<1> QED BY <1>2, <1>3, <1>4, <1>5 DEF IInv, TypeOK

(* A stop cancels the context of whoever holds the run.                    *)
LEMMA StopInv == ASSUME NEW c \in Conns, IInv, Stop(c) PROVE IInv'
<1> USE DEF Stop, CancelRun, AnyRun, sessVars, connVars, engVars
<1>1. SentMsgs' = SentMsgs
  BY DEF SentMsgs
<1>2. SessTypeOK' /\ ConnTypeOK' /\ EngTypeOK'
  BY NoRunFact DEF IInv, TypeOK, SessTypeOK, ConnTypeOK, EngTypeOK, Statuses, ConnPcs,
       EngPcs, Terminal, ContextOfMsg
<1>3. FreshMsgs' /\ ContextOfMsg'
  BY <1>1 DEF IInv, TypeOK, ConnTypeOK, EngTypeOK, FreshMsgs, Handling, ContextOfMsg
<1>4. SingleOwner' /\ StopReachesEngine' /\ OwnerStatus' /\ EngineLocals'
  BY DEF IInv, TypeOK, ConnTypeOK, EngTypeOK, SingleOwner, StopReachesEngine,
       OwnerStatus, EngineLocals, ConnOwns, EngOwns
<1>5. QuestionKept' /\ NoSilentAbandon' /\ WaitingIsAnswerable' /\ EditClearedWhenIdle'
  BY DEF IInv, TypeOK, ConnTypeOK, EngTypeOK, QuestionKept, NoSilentAbandon,
       WaitingIsAnswerable, EditClearedWhenIdle, Owned, ConnOwns, EngOwns
<1> QED BY <1>2, <1>3, <1>4, <1>5 DEF IInv, TypeOK

(* A reset cancels like a stop that names no run.                          *)
LEMMA ResetCancelInv == ASSUME NEW c \in Conns, IInv, ResetCancel(c) PROVE IInv'
<1> USE DEF ResetCancel, CancelRun, AnyRun, ConnGoto, sessVars, engVars
<1>1. SentMsgs' = SentMsgs
  BY DEF SentMsgs
<1>2. SessTypeOK' /\ ConnTypeOK' /\ EngTypeOK'
  BY NoRunFact DEF IInv, TypeOK, SessTypeOK, ConnTypeOK, EngTypeOK, Statuses, ConnPcs,
       EngPcs, Terminal, ContextOfMsg
<1>3. FreshMsgs' /\ ContextOfMsg'
  BY <1>1 DEF IInv, TypeOK, ConnTypeOK, EngTypeOK, FreshMsgs, Handling, ContextOfMsg
<1>4. SingleOwner' /\ StopReachesEngine' /\ OwnerStatus' /\ EngineLocals'
  BY DEF IInv, TypeOK, ConnTypeOK, EngTypeOK, SingleOwner, StopReachesEngine,
       OwnerStatus, EngineLocals, ConnOwns, EngOwns
<1>5. QuestionKept' /\ NoSilentAbandon' /\ WaitingIsAnswerable' /\ EditClearedWhenIdle'
  BY DEF IInv, TypeOK, ConnTypeOK, EngTypeOK, QuestionKept, NoSilentAbandon,
       WaitingIsAnswerable, EditClearedWhenIdle, Owned, ConnOwns, EngOwns
<1> QED BY <1>2, <1>3, <1>4, <1>5 DEF IInv, TypeOK

(* A reset may take the question the active run waits on.                  *)
LEMMA ResetHistoryInv == ASSUME NEW c \in Conns, IInv, ResetHistory(c) PROVE IInv'
<1> USE DEF ResetHistory, ConnGoto, sessVars, engVars
<1>1. SentMsgs' = SentMsgs
  BY DEF SentMsgs
<1>2. SessTypeOK' /\ ConnTypeOK' /\ EngTypeOK'
  BY DEF IInv, TypeOK, SessTypeOK, ConnTypeOK, EngTypeOK, Statuses, ConnPcs, EngPcs,
       Terminal
<1>3. FreshMsgs' /\ ContextOfMsg'
  BY <1>1 DEF IInv, TypeOK, ConnTypeOK, EngTypeOK, FreshMsgs, Handling, ContextOfMsg
<1>4. SingleOwner' /\ StopReachesEngine' /\ OwnerStatus' /\ EngineLocals'
  BY DEF IInv, TypeOK, ConnTypeOK, EngTypeOK, SingleOwner, StopReachesEngine,
       OwnerStatus, EngineLocals, ConnOwns, EngOwns
<1>5. QuestionKept' /\ NoSilentAbandon' /\ WaitingIsAnswerable' /\ EditClearedWhenIdle'
  BY DEF IInv, TypeOK, ConnTypeOK, EngTypeOK, QuestionKept, NoSilentAbandon,
       WaitingIsAnswerable, EditClearedWhenIdle, Owned, ConnOwns, EngOwns, SessTypeOK,
       SingleOwner, OwnerStatus
<1> QED BY <1>2, <1>3, <1>4, <1>5 DEF IInv, TypeOK

(* A reset clears the edit scope.                                          *)
LEMMA ResetReportInv == ASSUME NEW c \in Conns, IInv, ResetReport(c) PROVE IInv'
<1> USE DEF ResetReport, ConnRead, engVars
<1>1. SentMsgs' = SentMsgs
  BY DEF SentMsgs
<1>2. SessTypeOK' /\ ConnTypeOK' /\ EngTypeOK'
  BY NoRunFact DEF IInv, TypeOK, SessTypeOK, ConnTypeOK, EngTypeOK, Statuses, ConnPcs,
       EngPcs, Terminal
<1>3. FreshMsgs' /\ ContextOfMsg'
  BY <1>1 DEF IInv, TypeOK, ConnTypeOK, EngTypeOK, FreshMsgs, Handling, ContextOfMsg
<1>4. SingleOwner' /\ StopReachesEngine' /\ OwnerStatus' /\ EngineLocals'
  BY DEF IInv, TypeOK, ConnTypeOK, EngTypeOK, SingleOwner, StopReachesEngine,
       OwnerStatus, EngineLocals, ConnOwns, EngOwns
<1>5. QuestionKept' /\ NoSilentAbandon' /\ WaitingIsAnswerable' /\ EditClearedWhenIdle'
  BY DEF IInv, TypeOK, ConnTypeOK, EngTypeOK, QuestionKept, NoSilentAbandon,
       WaitingIsAnswerable, EditClearedWhenIdle, Owned, ConnOwns, EngOwns
<1> QED BY <1>2, <1>3, <1>4, <1>5 DEF IInv, TypeOK

(* The head of the main loop keeps the run in the engine's hands.          *)
LEMMA LoopTopInv == ASSUME NEW x \in Msgs, IInv, LoopTop(x) PROVE IInv'
<1> USE DEF LoopTop, EmitTerminal, NextIteration, sessVars, connVars
<1>1. SentMsgs' = SentMsgs
  BY DEF SentMsgs
<1>2. SessTypeOK' /\ ConnTypeOK' /\ EngTypeOK'
  BY BoundsAssumption DEF IInv, TypeOK, SessTypeOK, ConnTypeOK, EngTypeOK, Statuses,
       ConnPcs, EngPcs, Terminal
<1>3. FreshMsgs' /\ ContextOfMsg'
  BY <1>1 DEF IInv, TypeOK, ConnTypeOK, EngTypeOK, FreshMsgs, Handling, ContextOfMsg
<1>4. SingleOwner' /\ StopReachesEngine' /\ OwnerStatus' /\ EngineLocals'
  BY DEF IInv, TypeOK, ConnTypeOK, EngTypeOK, SingleOwner, StopReachesEngine,
       OwnerStatus, EngineLocals, ConnOwns, EngOwns
<1>5. QuestionKept' /\ NoSilentAbandon' /\ WaitingIsAnswerable' /\ EditClearedWhenIdle'
  BY DEF IInv, TypeOK, ConnTypeOK, EngTypeOK, QuestionKept, NoSilentAbandon,
       WaitingIsAnswerable, EditClearedWhenIdle, Owned, ConnOwns, EngOwns
<1> QED BY <1>2, <1>3, <1>4, <1>5 DEF IInv, TypeOK

(* A turn that asks the user has its question in the history.              *)
LEMMA ModelTurnInv == ASSUME NEW x \in Msgs, IInv, ModelTurn(x) PROVE IInv'
<1> USE DEF ModelTurn, EmitTerminal, ToolTurn, sessVars, connVars
<1>1. SentMsgs' = SentMsgs
  BY DEF SentMsgs
<1>2. SessTypeOK' /\ ConnTypeOK' /\ EngTypeOK'
  BY DEF IInv, TypeOK, SessTypeOK, ConnTypeOK, EngTypeOK, Statuses, ConnPcs, EngPcs,
       Terminal
<1>3. FreshMsgs' /\ ContextOfMsg'
  BY <1>1 DEF IInv, TypeOK, ConnTypeOK, EngTypeOK, FreshMsgs, Handling, ContextOfMsg
<1>4. SingleOwner' /\ StopReachesEngine' /\ OwnerStatus' /\ EngineLocals'
  BY DEF IInv, TypeOK, ConnTypeOK, EngTypeOK, SingleOwner, StopReachesEngine,
       OwnerStatus, EngineLocals, ConnOwns, EngOwns
<1>5. QuestionKept' /\ NoSilentAbandon' /\ WaitingIsAnswerable' /\ EditClearedWhenIdle'
  BY DEF IInv, TypeOK, ConnTypeOK, EngTypeOK, QuestionKept, NoSilentAbandon,
       WaitingIsAnswerable, EditClearedWhenIdle, Owned, ConnOwns, EngOwns, SingleOwner,
       OwnerStatus
<1> QED BY <1>2, <1>3, <1>4, <1>5 DEF IInv, TypeOK

(* A tool call keeps the run, or leaves it cancelling.                     *)
LEMMA RunToolInv == ASSUME NEW x \in Msgs, IInv, RunTool(x) PROVE IInv'
<1> USE DEF RunTool, AsksNow, EmitTerminal, CallDone, EngReturn, sessVars, connVars
<1>1. SentMsgs' = SentMsgs
  BY DEF SentMsgs
<1>2. SessTypeOK'
  BY DEF IInv, TypeOK, SessTypeOK, Statuses
<1>3. ConnTypeOK'
  BY DEF IInv, TypeOK, ConnTypeOK, ConnPcs
<1>4. EngTypeOK'
  <2>1. CASE EngReturn(x)
    BY <2>1, EngReturnType DEF IInv, TypeOK
  <2>2. CASE EmitTerminal(x, "failed")
    BY <2>2 DEF IInv, TypeOK, EngTypeOK, EngPcs, Terminal
  <2>3. ASSUME NEW pc \in EngPcs, CallDone(x, pc) PROVE EngTypeOK'
    <3>1. engCalls[x] - 1 \in 0..MaxToolCalls
      BY BoundsAssumption DEF IInv, TypeOK, EngTypeOK, EngineLocals
    <3> QED BY <2>3, <3>1 DEF IInv, TypeOK, EngTypeOK, EngPcs, Terminal
  <2> QED BY <2>1, <2>2, <2>3 DEF EngPcs
<1>5. FreshMsgs' /\ ContextOfMsg'
  BY <1>1 DEF IInv, TypeOK, ConnTypeOK, EngTypeOK, FreshMsgs, Handling, ContextOfMsg
<1>6. SingleOwner' /\ StopReachesEngine' /\ OwnerStatus' /\ EngineLocals'
  BY DEF IInv, TypeOK, ConnTypeOK, EngTypeOK, SingleOwner, StopReachesEngine,
       OwnerStatus, EngineLocals, ConnOwns, EngOwns
<1>7. QuestionKept' /\ NoSilentAbandon' /\ WaitingIsAnswerable' /\ EditClearedWhenIdle'
  BY DEF IInv, TypeOK, ConnTypeOK, EngTypeOK, QuestionKept, NoSilentAbandon,
       WaitingIsAnswerable, EditClearedWhenIdle, Owned, ConnOwns, EngOwns, SingleOwner,
       OwnerStatus
<1> QED BY <1>2, <1>3, <1>4, <1>5, <1>6, <1>7 DEF IInv, TypeOK

(* Saving the report keeps the run, or leaves it cancelling.               *)
LEMMA SaveReportInv == ASSUME NEW x \in Msgs, IInv, SaveReport(x) PROVE IInv'
<1> USE DEF SaveReport, EngGoto, sessVars, connVars
<1>1. SentMsgs' = SentMsgs
  BY DEF SentMsgs
<1>2. SessTypeOK' /\ ConnTypeOK' /\ EngTypeOK'
  BY DEF IInv, TypeOK, SessTypeOK, ConnTypeOK, EngTypeOK, Statuses, ConnPcs, EngPcs,
       Terminal
<1>3. FreshMsgs' /\ ContextOfMsg'
  BY <1>1 DEF IInv, TypeOK, ConnTypeOK, EngTypeOK, FreshMsgs, Handling, ContextOfMsg
<1>4. SingleOwner' /\ StopReachesEngine' /\ OwnerStatus' /\ EngineLocals'
  BY DEF IInv, TypeOK, ConnTypeOK, EngTypeOK, SingleOwner, StopReachesEngine,
       OwnerStatus, EngineLocals, ConnOwns, EngOwns
<1>5. QuestionKept' /\ NoSilentAbandon' /\ WaitingIsAnswerable' /\ EditClearedWhenIdle'
  BY DEF IInv, TypeOK, ConnTypeOK, EngTypeOK, QuestionKept, NoSilentAbandon,
       WaitingIsAnswerable, EditClearedWhenIdle, Owned, ConnOwns, EngOwns, SingleOwner,
       OwnerStatus
<1> QED BY <1>2, <1>3, <1>4, <1>5 DEF IInv, TypeOK

(* The hook cancels the engine's own context.                              *)
LEMMA SaveFailedCancelInv == ASSUME NEW x \in Msgs, IInv, SaveFailedCancel(x) PROVE IInv'
<1> USE DEF SaveFailedCancel, CancelRun, AnyRun, EngGoto, sessVars, connVars
<1>1. SentMsgs' = SentMsgs
  BY DEF SentMsgs
<1>2. SessTypeOK' /\ ConnTypeOK' /\ EngTypeOK'
  BY NoRunFact DEF IInv, TypeOK, SessTypeOK, ConnTypeOK, EngTypeOK, Statuses, ConnPcs,
       EngPcs, Terminal, ContextOfMsg
<1>3. FreshMsgs' /\ ContextOfMsg'
  BY <1>1 DEF IInv, TypeOK, ConnTypeOK, EngTypeOK, FreshMsgs, Handling, ContextOfMsg
<1>4. SingleOwner' /\ StopReachesEngine' /\ OwnerStatus' /\ EngineLocals'
  BY DEF IInv, TypeOK, ConnTypeOK, EngTypeOK, SingleOwner, StopReachesEngine,
       OwnerStatus, EngineLocals, ConnOwns, EngOwns, SessTypeOK
<1>5. QuestionKept' /\ NoSilentAbandon' /\ WaitingIsAnswerable' /\ EditClearedWhenIdle'
  BY DEF IInv, TypeOK, ConnTypeOK, EngTypeOK, QuestionKept, NoSilentAbandon,
       WaitingIsAnswerable, EditClearedWhenIdle, Owned, ConnOwns, EngOwns
<1> QED BY <1>2, <1>3, <1>4, <1>5 DEF IInv, TypeOK

(* The hook finishes a run whose engine is already cancelled.              *)
LEMMA SaveFailedFinishInv == ASSUME NEW x \in Msgs, IInv, SaveFailedFinish(x) PROVE IInv'
<1> USE DEF SaveFailedFinish, FinishRun, EngGoto, sessVars, connVars
<1>1. SentMsgs' = SentMsgs
  BY DEF SentMsgs
<1>2. SessTypeOK'
  BY NoRunFact DEF IInv, TypeOK, SessTypeOK, Statuses
<1>3. ConnTypeOK'
  BY DEF IInv, TypeOK, ConnTypeOK, ConnPcs
<1>4. EngTypeOK'
  BY DEF IInv, TypeOK, EngTypeOK, EngPcs, Terminal
<1>5. FreshMsgs' /\ ContextOfMsg'
  BY <1>1, NoRunFact DEF IInv, TypeOK, ConnTypeOK, EngTypeOK, FreshMsgs, Handling,
       ContextOfMsg, SessTypeOK, OwnerStatus, SingleOwner, ConnOwns, EngOwns
<1>6. SingleOwner' /\ StopReachesEngine' /\ OwnerStatus' /\ EngineLocals'
  BY DEF IInv, TypeOK, ConnTypeOK, EngTypeOK, SingleOwner, StopReachesEngine,
       OwnerStatus, EngineLocals, ConnOwns, EngOwns
<1>7. QuestionKept' /\ NoSilentAbandon' /\ WaitingIsAnswerable' /\ EditClearedWhenIdle'
  BY DEF IInv, TypeOK, ConnTypeOK, EngTypeOK, QuestionKept, NoSilentAbandon,
       WaitingIsAnswerable, EditClearedWhenIdle, Owned, ConnOwns, EngOwns, SingleOwner,
       OwnerStatus
<1> QED BY <1>2, <1>3, <1>4, <1>5, <1>6, <1>7 DEF IInv, TypeOK

(* The failed status is written by an engine that holds nothing.           *)
LEMMA SaveFailedPersistInv == ASSUME NEW x \in Msgs, IInv, SaveFailedPersist(x) PROVE IInv'
<1> USE DEF SaveFailedPersist, UpdateStatus, EngGoto, sessVars, connVars
<1>1. SentMsgs' = SentMsgs
  BY DEF SentMsgs
<1>2. SessTypeOK' /\ ConnTypeOK' /\ EngTypeOK'
  BY DEF IInv, TypeOK, SessTypeOK, ConnTypeOK, EngTypeOK, Statuses, ConnPcs, EngPcs,
       Terminal, DbStatuses
<1>3. FreshMsgs' /\ ContextOfMsg'
  BY <1>1 DEF IInv, TypeOK, ConnTypeOK, EngTypeOK, FreshMsgs, Handling, ContextOfMsg
<1>4. SingleOwner' /\ StopReachesEngine' /\ OwnerStatus' /\ EngineLocals'
  BY DEF IInv, TypeOK, ConnTypeOK, EngTypeOK, SingleOwner, StopReachesEngine,
       OwnerStatus, EngineLocals, ConnOwns, EngOwns
<1>5. QuestionKept' /\ NoSilentAbandon' /\ WaitingIsAnswerable' /\ EditClearedWhenIdle'
  BY DEF IInv, TypeOK, ConnTypeOK, EngTypeOK, QuestionKept, NoSilentAbandon,
       WaitingIsAnswerable, EditClearedWhenIdle, Owned, ConnOwns, EngOwns
<1> QED BY <1>2, <1>3, <1>4, <1>5 DEF IInv, TypeOK

(* The second context check lets a cancelled engine go.                    *)
LEMMA AfterEmitInv == ASSUME NEW x \in Msgs, IInv, AfterEmit(x) PROVE IInv'
<1> USE DEF AfterEmit, EngReturn, EngGoto, sessVars, connVars
<1>1. SentMsgs' = SentMsgs
  BY DEF SentMsgs
<1>2. SessTypeOK'
  BY DEF IInv, TypeOK, SessTypeOK, Statuses
<1>3. ConnTypeOK'
  BY DEF IInv, TypeOK, ConnTypeOK, ConnPcs
<1>4. EngTypeOK'
  <2>1. CASE x \in cancelled
    BY <2>1, EngReturnType DEF IInv, TypeOK
  <2>2. CASE x \notin cancelled
    BY <2>2 DEF IInv, TypeOK, EngTypeOK, EngPcs, Terminal
  <2> QED BY <2>1, <2>2
<1>5. FreshMsgs' /\ ContextOfMsg'
  BY <1>1 DEF IInv, TypeOK, ConnTypeOK, EngTypeOK, FreshMsgs, Handling, ContextOfMsg
<1>6. SingleOwner' /\ StopReachesEngine' /\ OwnerStatus' /\ EngineLocals'
  BY DEF IInv, TypeOK, ConnTypeOK, EngTypeOK, SingleOwner, StopReachesEngine,
       OwnerStatus, EngineLocals, ConnOwns, EngOwns
<1>7. QuestionKept' /\ NoSilentAbandon' /\ WaitingIsAnswerable' /\ EditClearedWhenIdle'
  BY DEF IInv, TypeOK, ConnTypeOK, EngTypeOK, QuestionKept, NoSilentAbandon,
       WaitingIsAnswerable, EditClearedWhenIdle, Owned, ConnOwns, EngOwns
<1> QED BY <1>2, <1>3, <1>4, <1>5, <1>6, <1>7 DEF IInv, TypeOK

(* The closing text keeps the run until its event is emitted.              *)
LEMMA SummariseInv == ASSUME NEW x \in Msgs, IInv, Summarise(x) PROVE IInv'
<1> USE DEF Summarise, EmitTerminal, sessVars, connVars
<1>1. SentMsgs' = SentMsgs
  BY DEF SentMsgs
<1>2. SessTypeOK' /\ ConnTypeOK' /\ EngTypeOK'
  BY DEF IInv, TypeOK, SessTypeOK, ConnTypeOK, EngTypeOK, Statuses, ConnPcs, EngPcs,
       Terminal
<1>3. FreshMsgs' /\ ContextOfMsg'
  BY <1>1 DEF IInv, TypeOK, ConnTypeOK, EngTypeOK, FreshMsgs, Handling, ContextOfMsg
<1>4. SingleOwner' /\ StopReachesEngine' /\ OwnerStatus' /\ EngineLocals'
  BY DEF IInv, TypeOK, ConnTypeOK, EngTypeOK, SingleOwner, StopReachesEngine,
       OwnerStatus, EngineLocals, ConnOwns, EngOwns
<1>5. QuestionKept' /\ NoSilentAbandon' /\ WaitingIsAnswerable' /\ EditClearedWhenIdle'
  BY DEF IInv, TypeOK, ConnTypeOK, EngTypeOK, QuestionKept, NoSilentAbandon,
       WaitingIsAnswerable, EditClearedWhenIdle, Owned, ConnOwns, EngOwns
<1> QED BY <1>2, <1>3, <1>4, <1>5 DEF IInv, TypeOK

(* FinishRun frees the session and its edit scope.                         *)
LEMMA FinishInv == ASSUME NEW x \in Msgs, IInv, Finish(x) PROVE IInv'
<1> USE DEF Finish, FinishRun, EngGoto, EngReturn, sessVars, connVars
<1>1. SentMsgs' = SentMsgs
  BY DEF SentMsgs
<1>2. SessTypeOK'
  BY NoRunFact DEF IInv, TypeOK, SessTypeOK, Statuses
<1>3. ConnTypeOK'
  BY DEF IInv, TypeOK, ConnTypeOK, ConnPcs
<1>4. EngTypeOK'
  <2>1. CASE activeRun = engRun[x]
    BY <2>1 DEF IInv, TypeOK, EngTypeOK, EngPcs, Terminal
  <2>2. CASE activeRun # engRun[x]
    BY <2>2, EngReturnType DEF IInv, TypeOK
  <2> QED BY <2>1, <2>2
<1>5. FreshMsgs' /\ ContextOfMsg'
  BY <1>1, NoRunFact DEF IInv, TypeOK, ConnTypeOK, EngTypeOK, FreshMsgs, Handling,
       ContextOfMsg, SessTypeOK, OwnerStatus, SingleOwner, ConnOwns, EngOwns
<1>6. SingleOwner' /\ StopReachesEngine' /\ OwnerStatus' /\ EngineLocals'
  BY DEF IInv, TypeOK, ConnTypeOK, EngTypeOK, SingleOwner, StopReachesEngine,
       OwnerStatus, EngineLocals, ConnOwns, EngOwns
<1>7. QuestionKept' /\ NoSilentAbandon' /\ WaitingIsAnswerable' /\ EditClearedWhenIdle'
  BY DEF IInv, TypeOK, ConnTypeOK, EngTypeOK, QuestionKept, NoSilentAbandon,
       WaitingIsAnswerable, EditClearedWhenIdle, Owned, ConnOwns, EngOwns, SingleOwner,
       OwnerStatus
<1> QED BY <1>2, <1>3, <1>4, <1>5, <1>6, <1>7 DEF IInv, TypeOK

(* The terminal status is written by an engine that holds nothing.         *)
LEMMA PersistInv == ASSUME NEW x \in Msgs, IInv, Persist(x) PROVE IInv'
<1> USE DEF Persist, UpdateStatus, EngReturn, sessVars, connVars
<1>1. SentMsgs' = SentMsgs
  BY DEF SentMsgs
<1>2. SessTypeOK' /\ ConnTypeOK' /\ EngTypeOK'
  BY NoRunFact, BoundsAssumption DEF IInv, TypeOK, SessTypeOK, ConnTypeOK, EngTypeOK,
       ContextOfMsg, FreshMsgs, Handling, Statuses, DbStatuses, Terminal, ConnPcs,
       EngineLocals, EngPcs
<1>3. FreshMsgs' /\ ContextOfMsg'
  BY <1>1 DEF IInv, TypeOK, ConnTypeOK, EngTypeOK, FreshMsgs, Handling, ContextOfMsg
<1>4. SingleOwner' /\ StopReachesEngine' /\ OwnerStatus' /\ EngineLocals'
  BY DEF IInv, TypeOK, ConnTypeOK, EngTypeOK, SingleOwner, StopReachesEngine,
       OwnerStatus, EngineLocals, ConnOwns, EngOwns
<1>5. QuestionKept' /\ NoSilentAbandon' /\ WaitingIsAnswerable' /\ EditClearedWhenIdle'
  BY DEF IInv, TypeOK, ConnTypeOK, EngTypeOK, QuestionKept, NoSilentAbandon,
       WaitingIsAnswerable, EditClearedWhenIdle, Owned, ConnOwns, EngOwns
<1> QED BY <1>2, <1>3, <1>4, <1>5 DEF IInv, TypeOK

(* SuspendRun leaves the run to the next message, question in place.       *)
LEMMA SuspendInv == ASSUME NEW x \in Msgs, IInv, Suspend(x) PROVE IInv'
<1> USE DEF Suspend, EngGoto, EngReturn, connVars
<1>1. SentMsgs' = SentMsgs
  BY DEF SentMsgs
<1>2. SessTypeOK'
  <2>1. EngOwns(x)
    BY DEF EngOwns
  <2>2. activeRun # NoRun
    BY <2>1 DEF IInv, TypeOK, SessTypeOK, OwnerStatus
  <2> QED BY <2>2 DEF IInv, TypeOK, SessTypeOK, Statuses
<1>3. ConnTypeOK'
  BY DEF IInv, TypeOK, ConnTypeOK, ConnPcs
<1>4. EngTypeOK'
  <2>1. CASE activeRun = engRun[x]
    BY <2>1 DEF IInv, TypeOK, EngTypeOK, EngPcs, Terminal
  <2>2. CASE activeRun # engRun[x]
    BY <2>2, EngReturnType DEF IInv, TypeOK
  <2> QED BY <2>1, <2>2
<1>5. FreshMsgs' /\ ContextOfMsg'
  BY <1>1 DEF IInv, TypeOK, ConnTypeOK, EngTypeOK, FreshMsgs, Handling, ContextOfMsg
<1>6. SingleOwner' /\ StopReachesEngine' /\ OwnerStatus' /\ EngineLocals'
  BY DEF IInv, TypeOK, ConnTypeOK, EngTypeOK, SingleOwner, StopReachesEngine,
       OwnerStatus, EngineLocals, ConnOwns, EngOwns
<1>7. QuestionKept' /\ NoSilentAbandon' /\ WaitingIsAnswerable' /\ EditClearedWhenIdle'
  BY DEF IInv, TypeOK, ConnTypeOK, EngTypeOK, QuestionKept, NoSilentAbandon,
       WaitingIsAnswerable, EditClearedWhenIdle, Owned, ConnOwns, EngOwns, SingleOwner,
       OwnerStatus
<1> QED BY <1>2, <1>3, <1>4, <1>5, <1>6, <1>7 DEF IInv, TypeOK

(* The waiting status is written by an engine that holds nothing.          *)
LEMMA PersistWaitInv == ASSUME NEW x \in Msgs, IInv, PersistWait(x) PROVE IInv'
<1> USE DEF PersistWait, UpdateStatus, EngReturn, sessVars, connVars
<1>1. SentMsgs' = SentMsgs
  BY DEF SentMsgs
<1>2. SessTypeOK' /\ ConnTypeOK' /\ EngTypeOK'
  BY NoRunFact, BoundsAssumption DEF IInv, TypeOK, SessTypeOK, ConnTypeOK, EngTypeOK,
       ContextOfMsg, FreshMsgs, Handling, Statuses, DbStatuses, Terminal, ConnPcs,
       EngineLocals, EngPcs
<1>3. FreshMsgs' /\ ContextOfMsg'
  BY <1>1 DEF IInv, TypeOK, ConnTypeOK, EngTypeOK, FreshMsgs, Handling, ContextOfMsg
<1>4. SingleOwner' /\ StopReachesEngine' /\ OwnerStatus' /\ EngineLocals'
  BY DEF IInv, TypeOK, ConnTypeOK, EngTypeOK, SingleOwner, StopReachesEngine,
       OwnerStatus, EngineLocals, ConnOwns, EngOwns
<1>5. QuestionKept' /\ NoSilentAbandon' /\ WaitingIsAnswerable' /\ EditClearedWhenIdle'
  BY DEF IInv, TypeOK, ConnTypeOK, EngTypeOK, QuestionKept, NoSilentAbandon,
       WaitingIsAnswerable, EditClearedWhenIdle, Owned, ConnOwns, EngOwns
<1> QED BY <1>2, <1>3, <1>4, <1>5 DEF IInv, TypeOK

(* A step that changes nothing changes no part of the invariant.           *)
LEMMA StutterInv == IInv /\ UNCHANGED vars => IInv'
  BY DEF IInv, TypeOK, SessTypeOK, ConnTypeOK, EngTypeOK, FreshMsgs, SentMsgs,
     Handling, ContextOfMsg, SingleOwner, StopReachesEngine, OwnerStatus, EngineLocals,
     QuestionKept, NoSilentAbandon, WaitingIsAnswerable, EditClearedWhenIdle, Owned,
     ConnOwns, EngOwns, vars, sessVars, connVars, engVars

-----------------------------------------------------------------------------
(* The invariant holds in every reachable state of a live session.         *)
THEOREM Invariance == Spec => []IInv
<1>1. ASSUME IInv, [Next]_vars PROVE IInv'
  <2>1. CASE UNCHANGED vars
    BY <1>1, <2>1, StutterInv
  <2>2. ASSUME NEW c \in Conns, ConnStep(c) PROVE IInv'
    BY <1>1, <2>2, AnswerQuestionInv, MarkRunningInv, ResumeInv, PrepareUserRunInv,
       StartRunInv, CreateRunInv, LaunchRunInv, ResetHistoryInv, ResetReportInv DEF ConnStep
  <2>3. ASSUME NEW c \in Conns, UserStep(c) PROVE IInv'
    BY <1>1, <2>3, RecvUserMessageInv, StopInv, ResetCancelInv DEF UserStep
  <2>4. ASSUME NEW x \in Msgs, EngineStep(x) PROVE IInv'
    BY <1>1, <2>4, LoopTopInv, ModelTurnInv, RunToolInv, SaveReportInv, SaveFailedCancelInv,
       SaveFailedFinishInv, SaveFailedPersistInv, AfterEmitInv, SummariseInv, FinishInv,
       PersistInv, SuspendInv, PersistWaitInv DEF EngineStep
  <2> QED BY <1>1, <2>1, <2>2, <2>3, <2>4 DEF Next
<1> QED BY <1>1, InitInv, PTL DEF Spec

(* Every variable keeps its type, a run is active exactly when the session *)
(* is not idle, and no engine passes its iteration cap.                    *)
THEOREM TypeCorrect == Spec => []TypeOK
  BY Invariance, PTL DEF IInv

(* At most one goroutine holds a run, and it holds the active one.         *)
THEOREM OneOwner == Spec => []SingleOwner
  BY Invariance, PTL DEF IInv

(* CancelRun cancels the context of the engine that holds the run.         *)
THEOREM StopReaches == Spec => []StopReachesEngine
  BY Invariance, PTL DEF IInv

(* No path out of a handler or an engine forgets a running run.            *)
THEOREM NeverAbandoned == Spec => []NoSilentAbandon
  BY Invariance, PTL DEF IInv

(* A waiting run can be answered by the next message.                      *)
THEOREM Answerable == Spec => []WaitingIsAnswerable
  BY Invariance, PTL DEF IInv

(* No edit scope outlives its run.                                         *)
THEOREM EditScopeEnds == Spec => []EditClearedWhenIdle
  BY Invariance, PTL DEF IInv

-----------------------------------------------------------------------------
(* What the row of a run says: the invariant RecordInv.                    *)

LEMMA InitRecord == Init => RecordInv
  BY NoRunFact DEF Init, RecordInv, RunsSent, Unstarted, LetGo, WaitRecorded, RunRecorded, NoRun

(* The two statuses of a session that the rows are compared with.          *)
Calmer == status' \in {status, "cancelling"}

(* A step of an engine that neither writes a row nor is about to.          *)
LEMMA EngineQuietRecord ==
  ASSUME NEW x \in Msgs, IInv, RecordInv, Calmer, UNCHANGED <<nMsg, activeRun, db, connPc, connRun>>,
         \A y \in Msgs \ {x} : engPc'[y] = engPc[y] /\ engRun'[y] = engRun[y],
         engPc[x] \notin {"persist", "failPersist", "persistWait"},
         engPc'[x] \notin {"persist", "failPersist", "persistWait"},
         engRun'[x] \in {engRun[x], NoRun}
  PROVE  RecordInv'
<1>1. RunsSent' /\ Unstarted' /\ LetGo'
  BY NoRunFact DEF RecordInv, RunsSent, Unstarted, LetGo, IInv, TypeOK, SessTypeOK, FreshMsgs, Handling, NoRun
<1>2. WaitRecorded'
  BY DEF RecordInv, WaitRecorded, Calmer
<1>3. RunRecorded'
  BY DEF RecordInv, RunRecorded
<1> QED BY <1>1, <1>2, <1>3 DEF RecordInv

LEMMA EngineQuiet ==
  ASSUME NEW x \in Msgs, IInv, RecordInv,
         \/ LoopTop(x) \/ ModelTurn(x) \/ RunTool(x) \/ SaveReport(x) \/ SaveFailedCancel(x)
         \/ AfterEmit(x) \/ Summarise(x)
  PROVE  RecordInv'
<1> USE DEF LoopTop, ModelTurn, RunTool, SaveReport, SaveFailedCancel, AfterEmit, Summarise,
        EmitTerminal, NextIteration, ToolTurn, CallDone, EngGoto, EngReturn, sessVars, connVars
<1>1. Calmer /\ UNCHANGED <<nMsg, activeRun, db, connPc, connRun>>
  BY DEF Calmer, CancelRun
<1>2. \A y \in Msgs \ {x} : engPc'[y] = engPc[y] /\ engRun'[y] = engRun[y]
  BY DEF IInv, TypeOK, EngTypeOK
<1>3. /\ engPc[x] \notin {"persist", "failPersist", "persistWait"}
      /\ engPc'[x] \notin {"persist", "failPersist", "persistWait"}
      /\ engRun'[x] \in {engRun[x], NoRun}
  BY DEF IInv, TypeOK, EngTypeOK
<1> QED BY <1>1, <1>2, <1>3, EngineQuietRecord

(* FinishRun: from now on the engine is about to write how the run ended.  *)
LEMMA FinishRecord == ASSUME NEW x \in Msgs, IInv, RecordInv, Finish(x) \/ SaveFailedFinish(x) PROVE RecordInv'
<1> USE DEF Finish, SaveFailedFinish, EngGoto, connVars
<1>1. activeRun = engRun[x] /\ activeRun # NoRun
  BY DEF EngOwns, IInv, SingleOwner, OwnerStatus, TypeOK, SessTypeOK
<1>2. activeRun' = NoRun /\ status' = "idle"
  BY <1>1 DEF FinishRun
<1>3. /\ engPc'[x] \in {"persist", "failPersist"} /\ engRun' = engRun
      /\ \A y \in Msgs \ {x} : engPc'[y] = engPc[y]
      /\ UNCHANGED <<nMsg, db, connPc, connRun>>
  BY <1>1 DEF IInv, TypeOK, EngTypeOK
<1>4. RunsSent' /\ Unstarted'
  BY <1>2, <1>3, NoRunFact DEF RecordInv, RunsSent, Unstarted, IInv, TypeOK, SessTypeOK, FreshMsgs,
       Handling, NoRun
<1>5. LetGo'
  BY <1>1, <1>2, <1>3 DEF LetGo, RecordInv
<1>6. WaitRecorded'
  BY <1>2 DEF WaitRecorded
<1>7. RunRecorded'
  BY <1>1, <1>2, <1>3 DEF RecordInv, RunRecorded
<1> QED BY <1>4, <1>5, <1>6, <1>7 DEF RecordInv

(* The end of a run is on record; the engine has no run any more.          *)
LEMMA PersistRecord ==
  ASSUME NEW x \in Msgs, IInv, RecordInv, Persist(x) \/ SaveFailedPersist(x)
  PROVE  RecordInv'
<1> USE DEF Persist, SaveFailedPersist, UpdateStatus, EngGoto, EngReturn, sessVars, connVars
<1>1. engRun[x] \in Msgs /\ engRun[x] # activeRun
  BY NoRunFact DEF RecordInv, LetGo, IInv, TypeOK, EngTypeOK
<1>2. /\ engPc'[x] \in {"exit", "emitted"} /\ engRun'[x] \in {engRun[x], NoRun}
      /\ \A y \in Msgs \ {x} : engPc'[y] = engPc[y] /\ engRun'[y] = engRun[y]
      /\ UNCHANGED <<nMsg, connPc, connRun, activeRun, status>>
      /\ engPc[x] \in {"persist", "failPersist"}
  BY DEF IInv, TypeOK, EngTypeOK
<1>3. ~DbMayFail => /\ db'[engRun[x]] \in Terminal
                    /\ \A r \in Msgs \ {engRun[x]} : db'[r] = db[r]
  BY <1>1 DEF IInv, TypeOK, SessTypeOK, EngTypeOK, Terminal
<1>4. RunsSent' /\ Unstarted' /\ LetGo'
  BY <1>2, NoRunFact DEF RecordInv, RunsSent, Unstarted, LetGo, IInv, TypeOK, SessTypeOK, FreshMsgs,
       Handling, NoRun
<1>5. WaitRecorded'
  <2>1. status = "waiting_user_input" => activeRun \in Msgs
    BY NoRunFact DEF IInv, TypeOK, SessTypeOK
  <2> QED BY <1>1, <1>2, <1>3, <2>1 DEF RecordInv, WaitRecorded
<1>6. RunRecorded'
  BY <1>1, <1>2, <1>3 DEF RecordInv, RunRecorded, Terminal
<1> QED BY <1>4, <1>5, <1>6 DEF RecordInv

(* SuspendRun: the engine is about to write that the run waits.            *)
LEMMA SuspendRecord == ASSUME NEW x \in Msgs, IInv, RecordInv, Suspend(x) PROVE RecordInv'
<1> USE DEF Suspend, EngGoto, connVars
<1>1. activeRun = engRun[x]
  BY DEF EngOwns, IInv, SingleOwner
<1>2. /\ engPc'[x] = "persistWait" /\ engRun' = engRun
      /\ \A y \in Msgs \ {x} : engPc'[y] = engPc[y]
      /\ UNCHANGED <<nMsg, connPc, connRun, activeRun, db>>
  BY <1>1 DEF IInv, TypeOK, EngTypeOK
<1>3. RunsSent' /\ Unstarted' /\ LetGo'
  BY <1>2 DEF RecordInv, RunsSent, Unstarted, LetGo
<1>4. WaitRecorded'
  BY <1>1, <1>2 DEF WaitRecorded
<1>5. RunRecorded'
  BY <1>2 DEF RecordInv, RunRecorded
<1> QED BY <1>3, <1>4, <1>5 DEF RecordInv

(* A late write that a run waits may hide how it ended, but nothing else.  *)
LEMMA PersistWaitRecord == ASSUME NEW x \in Msgs, IInv, RecordInv, PersistWait(x) PROVE RecordInv'
<1> USE DEF PersistWait, UpdateStatus, EngReturn, sessVars, connVars
<1>1. /\ engPc'[x] = "exit" /\ engRun'[x] = NoRun /\ engPc[x] = "persistWait"
      /\ \A y \in Msgs \ {x} : engPc'[y] = engPc[y] /\ engRun'[y] = engRun[y]
      /\ UNCHANGED <<nMsg, connPc, connRun, activeRun, status>>
  BY DEF IInv, TypeOK, EngTypeOK
<1>2. ~DbMayFail => \A r \in Msgs : IF r = engRun[x] THEN db'[r] = "waiting_user_input"
                                                     ELSE db'[r] = db[r]
  BY DEF IInv, TypeOK, SessTypeOK
<1>3. RunsSent' /\ Unstarted' /\ LetGo'
  BY <1>1, NoRunFact DEF RecordInv, RunsSent, Unstarted, LetGo, IInv, TypeOK, SessTypeOK, FreshMsgs,
       Handling, NoRun
<1>4. WaitRecorded'
  <2>1. status = "waiting_user_input" => activeRun \in Msgs
    BY NoRunFact DEF IInv, TypeOK, SessTypeOK
  <2> QED BY <1>1, <1>2, <2>1 DEF RecordInv, WaitRecorded
<1>5. RunRecorded'
  BY <1>1, <1>2 DEF RecordInv, RunRecorded
<1> QED BY <1>3, <1>4, <1>5 DEF RecordInv

(* A step of a handler that writes no row and starts no run.               *)
LEMMA HandlerQuiet ==
  ASSUME NEW c \in Conns, IInv, RecordInv,
         \/ AnswerQuestion(c) \/ PrepareUserRun(c) \/ Stop(c)
         \/ ResetCancel(c) \/ ResetHistory(c) \/ ResetReport(c)
  PROVE  RecordInv'
<1> USE DEF AnswerQuestion, PrepareUserRun, Stop, ResetCancel, ResetHistory, ResetReport,
        ConnGoto, ConnRead, engVars, sessVars, connVars
<1>1. Calmer /\ UNCHANGED <<nMsg, activeRun, db, engPc, engRun>>
  BY DEF Calmer, CancelRun
<1>2. \A d \in Conns : connPc'[d] \in {"prepare", "start"} =>
          connPc[d] \in {"prepare", "start"} /\ connRun'[d] = connRun[d]
  BY DEF IInv, TypeOK, ConnTypeOK
<1>3. RunsSent' /\ Unstarted' /\ LetGo'
  BY <1>1, <1>2 DEF RecordInv, RunsSent, Unstarted, LetGo
<1>4. WaitRecorded' /\ RunRecorded'
  BY <1>1 DEF RecordInv, WaitRecorded, RunRecorded, Calmer
<1> QED BY <1>3, <1>4 DEF RecordInv

(* A new message asks for a run that nobody has named.                     *)
LEMMA RecvUserMessageRecord == ASSUME NEW c \in Conns, IInv, RecordInv, RecvUserMessage(c) PROVE RecordInv'
<1> USE DEF RecvUserMessage, engVars
<1>1. /\ nMsg \in Nat /\ nMsg' = nMsg + 1 /\ status' \in {status, "running"}
      /\ UNCHANGED <<activeRun, db, engPc, engRun>>
  BY BoundsAssumption DEF IInv, TypeOK, SessTypeOK
<1>2. /\ \A d \in Conns \ {c} : connPc'[d] = connPc[d] /\ connRun'[d] = connRun[d]
      /\ connPc'[c] = "answer" \/ connRun'[c] = nMsg + 1
  BY DEF IInv, TypeOK, ConnTypeOK
<1>3. connRun'[c] = nMsg + 1 => activeRun # connRun'[c] /\ \A x \in Msgs : engRun[x] # connRun'[c]
  BY <1>1 DEF RecordInv, RunsSent
<1>4. RunsSent'
  BY <1>1 DEF RecordInv, RunsSent
<1>5. Unstarted'
  BY <1>1, <1>2, <1>3 DEF RecordInv, Unstarted
<1>6. LetGo' /\ WaitRecorded' /\ RunRecorded'
  BY <1>1 DEF RecordInv, LetGo, WaitRecorded, RunRecorded
<1> QED BY <1>4, <1>5, <1>6 DEF RecordInv

(* The handler writes running for the run it holds.                        *)
LEMMA MarkRunningRecord ==
  ASSUME NEW c \in Conns, IInv, RecordInv, MarkRunning(c) \/ CreateRun(c)
  PROVE  RecordInv'
<1> USE DEF MarkRunning, CreateRun, UpdateStatus, ConnGoto, ConnRead, engVars, sessVars
<1>1. ConnOwns(c)
  BY DEF ConnOwns
<1>2. activeRun = connRun[c] /\ status \in {"running", "cancelling"} /\ connRun[c] \in Msgs
  BY <1>1 DEF IInv, SingleOwner, OwnerStatus, FreshMsgs, Handling
<1>3. status' \in {"running", "cancelling"} /\ UNCHANGED <<nMsg, activeRun, engPc, engRun>>
  BY <1>2 DEF CancelRun
<1>4. \A d \in Conns : connPc'[d] \in {"prepare", "start"} =>
          connPc[d] \in {"prepare", "start"} /\ connRun'[d] = connRun[d]
  BY DEF IInv, TypeOK, ConnTypeOK
<1>5. ~DbMayFail => \A r \in Msgs : r # activeRun => db'[r] = db[r]
  BY <1>2 DEF IInv, TypeOK, SessTypeOK
<1>6. RunsSent' /\ Unstarted' /\ LetGo'
  BY <1>3, <1>4 DEF RecordInv, RunsSent, Unstarted, LetGo
<1>7. WaitRecorded' /\ RunRecorded'
  BY <1>3, <1>5 DEF RecordInv, WaitRecorded, RunRecorded
<1> QED BY <1>6, <1>7 DEF RecordInv

(* The launched engine has the run of its handler.                         *)
LEMMA LaunchRecord == ASSUME NEW c \in Conns, IInv, RecordInv, Resume(c) \/ LaunchRun(c) PROVE RecordInv'
<1> USE DEF Resume, LaunchRun, Launch, ConnRead, sessVars
<1>1. activeRun = connRun[c]
  BY DEF IInv, SingleOwner, ConnOwns
<1>2. connMsg[c] \in Msgs /\ engPc[connMsg[c]] = "none"
  BY DEF IInv, FreshMsgs, Handling
<1>3. /\ engPc'[connMsg[c]] = "top" /\ engRun'[connMsg[c]] = activeRun
      /\ \A y \in Msgs \ {connMsg[c]} : engPc'[y] = engPc[y] /\ engRun'[y] = engRun[y]
      /\ UNCHANGED <<nMsg, activeRun, status, db>>
  BY <1>1, <1>2 DEF IInv, TypeOK, EngTypeOK
<1>4. \A d \in Conns : connPc'[d] \in {"prepare", "start"} =>
          connPc[d] \in {"prepare", "start"} /\ connRun'[d] = connRun[d]
  BY DEF IInv, TypeOK, ConnTypeOK
<1>5. RunsSent' /\ Unstarted' /\ LetGo'
  BY <1>3, <1>4 DEF RecordInv, RunsSent, Unstarted, LetGo
<1>6. WaitRecorded' /\ RunRecorded'
  BY <1>2, <1>3 DEF RecordInv, WaitRecorded, RunRecorded
<1> QED BY <1>5, <1>6 DEF RecordInv

(* The run that StartRun takes is nobody else's.                           *)
LEMMA StartRunRecord == ASSUME NEW c \in Conns, IInv, RecordInv, StartRun(c) PROVE RecordInv'
<1> USE DEF StartRun, ConnGoto, ConnRead, engVars
<1>1. \A d \in Conns : connPc'[d] \in {"prepare", "start"} =>
          d # c /\ connPc[d] \in {"prepare", "start"} /\ connRun'[d] = connRun[d]
  BY DEF IInv, TypeOK, ConnTypeOK
<1>2. UNCHANGED <<nMsg, db, engPc, engRun>>
  OBVIOUS
<1>3. CASE activeRun # NoRun
  <2>1. UNCHANGED <<activeRun, status>>
    BY <1>3
  <2> QED BY <1>1, <1>2, <2>1 DEF RecordInv, RunsSent, Unstarted, LetGo, WaitRecorded, RunRecorded
<1>4. CASE activeRun = NoRun
  <2>1. activeRun' = connRun[c] /\ status' = "running"
    BY <1>4
  <2>2. connRun[c] = connMsg[c] /\ connRun[c] \in Msgs \cap 1..nMsg
    BY DEF IInv, ContextOfMsg, FreshMsgs, Handling, SentMsgs
  <2>3. RunsSent'
    BY <1>2, <2>1, <2>2 DEF RecordInv, RunsSent
  <2>4. Unstarted'
    <3>1. ASSUME NEW d \in Conns, connPc'[d] \in {"prepare", "start"} PROVE connRun[d] # connRun[c]
      BY <1>1, <2>2, <3>1 DEF IInv, ContextOfMsg, FreshMsgs, Handling
    <3> QED BY <1>1, <1>2, <2>1, <3>1 DEF RecordInv, Unstarted
  <2>5. LetGo'
    BY <1>2, <2>1 DEF RecordInv, LetGo, Unstarted
  <2>6. WaitRecorded' /\ RunRecorded'
    BY <1>2, <1>4, <2>1, NoRunFact DEF RecordInv, WaitRecorded, RunRecorded
  <2> QED BY <2>3, <2>4, <2>5, <2>6 DEF RecordInv
<1> QED BY <1>3, <1>4

(* Rows and session keep agreeing, as far as no statement fails.           *)
THEOREM RecordInvariance == Spec => []RecordInv
<1>1. ASSUME IInv, RecordInv, [Next]_vars PROVE RecordInv'
  <2>1. CASE UNCHANGED vars
    BY <1>1, <2>1 DEF vars, sessVars, connVars, engVars, RecordInv, RunsSent, Unstarted, LetGo,
         WaitRecorded, RunRecorded
  <2>2. ASSUME NEW c \in Conns, ConnStep(c) PROVE RecordInv'
    BY <1>1, <2>2, HandlerQuiet, MarkRunningRecord, LaunchRecord, StartRunRecord DEF ConnStep
  <2>3. ASSUME NEW c \in Conns, UserStep(c) PROVE RecordInv'
    BY <1>1, <2>3, HandlerQuiet, RecvUserMessageRecord DEF UserStep
  <2>4. ASSUME NEW x \in Msgs, EngineStep(x) PROVE RecordInv'
    BY <1>1, <2>4, EngineQuiet, FinishRecord, PersistRecord, SuspendRecord, PersistWaitRecord
       DEF EngineStep
  <2> QED BY <1>1, <2>1, <2>2, <2>3, <2>4 DEF Next
<1> QED BY <1>1, InitRecord, Invariance, PTL DEF Spec

(* A suspended run is on record as waiting once everyone is at rest.       *)
THEOREM SuspensionOnRecord == Spec => []SuspensionRecorded
<1>1. RecordInv => SuspensionRecorded
  BY DEF RecordInv, WaitRecorded, SuspensionRecorded, Quiescent
<1> QED BY <1>1, RecordInvariance, PTL

(* No row says running of a run that the session has let go, once everyone *)
(* is at rest.                                                             *)
THEOREM NoGhosts == Spec => []NoGhostRunning
<1>1. RecordInv => NoGhostRunning
  BY DEF RecordInv, RunRecorded, NoGhostRunning, Quiescent
<1> QED BY <1>1, RecordInvariance, PTL

-----------------------------------------------------------------------------
(* The refinement: the session of RunLifecycle implements the one slot of  *)
(* RunSlot.  Under the mapping of Slot every step of a handler or an       *)
(* engine is a step of RunSlot.                                            *)

(* Who holds the run before and after a step of one goroutine.             *)

(* A handler that moves: if it lets go, nobody holds the run any more.     *)
LEMMA HandlerMoves ==
  ASSUME NEW c \in Conns, IInv, \A d \in Conns \ {c} : connPc'[d] = connPc[d],
         UNCHANGED <<engPc, cancelled>>
  PROVE  /\ ConnOwns(c) /\ ~ConnOwns(c)' => Owned /\ ~Owned'
         /\ ConnOwns(c)' => Owned'
         /\ (ConnOwns(c) <=> ConnOwns(c)') => Owned' = Owned
<1>1. \A d \in Conns \ {c} : ConnOwns(d)' <=> ConnOwns(d)
  BY DEF ConnOwns
<1>2. \A x \in Msgs : EngOwns(x)' <=> EngOwns(x)
  BY DEF EngOwns
<1> QED BY <1>1, <1>2 DEF Owned, IInv, SingleOwner

(* The same for an engine.                                                 *)
LEMMA EngineMoves ==
  ASSUME NEW x \in Msgs, IInv, \A y \in Msgs \ {x} : engPc'[y] = engPc[y],
         UNCHANGED <<connPc, cancelled>>
  PROVE  /\ EngOwns(x) /\ ~EngOwns(x)' => Owned /\ ~Owned'
         /\ (EngOwns(x) <=> EngOwns(x)') => Owned' = Owned
<1>1. \A y \in Msgs \ {x} : EngOwns(y)' <=> EngOwns(y)
  BY DEF EngOwns
<1>2. \A c \in Conns : ConnOwns(c)' <=> ConnOwns(c)
  BY DEF ConnOwns
<1> QED BY <1>1, <1>2 DEF Owned, IInv, SingleOwner

(* Whoever holds the run holds the active one.                             *)
LEMMA HeldIsActive == ASSUME IInv, Owned PROVE activeRun # NoRun
  BY DEF IInv, Owned, OwnerStatus, TypeOK, SessTypeOK

(* A message that will not ask for a run never asks for one again.         *)
LEMMA GoneGrows == ASSUME IInv, Next PROVE PastStart \subseteq PastStart'
<1> DEFINE Asks(c) == connPc[c] \in {"prepare", "start"}
<1> USE DEF ConnGoto, ConnRead
<1>1. ASSUME NEW c \in Conns, ConnStep(c) \/ UserStep(c)
      PROVE  /\ nMsg' \in {nMsg, nMsg + 1}
             /\ \A d \in Conns : Asks(d)' => \/ Asks(d) /\ connRun'[d] = connRun[d]
                                             \/ connRun'[d] = nMsg + 1
  <2> SUFFICES /\ nMsg' \in {nMsg, nMsg + 1}
               /\ \A d \in Conns \ {c} : connPc'[d] = connPc[d] /\ connRun'[d] = connRun[d]
               /\ Asks(c)' => \/ Asks(c) /\ connRun'[c] = connRun[c]
                              \/ connRun'[c] = nMsg + 1
    OBVIOUS
  <2>1. CASE ConnStep(c)
    BY <2>1 DEF ConnStep, AnswerQuestion, MarkRunning, Resume, PrepareUserRun, StartRun,
         CreateRun, LaunchRun, ResetHistory, ResetReport, Launch, IInv, TypeOK, ConnTypeOK
  <2>2. CASE UserStep(c)
    BY <2>2 DEF UserStep, RecvUserMessage, Stop, ResetCancel, connVars, IInv, TypeOK, ConnTypeOK
  <2> QED BY <1>1, <2>1, <2>2
<1>2. ASSUME NEW x \in Msgs, EngineStep(x)
      PROVE  nMsg' = nMsg /\ connPc' = connPc /\ connRun' = connRun
  BY <1>2 DEF EngineStep, LoopTop, ModelTurn, RunTool, SaveReport, SaveFailedCancel,
       SaveFailedFinish, SaveFailedPersist, AfterEmit, Summarise, Finish, Persist, Suspend,
       PersistWait, connVars
<1>3. /\ nMsg' \in {nMsg, nMsg + 1}
      /\ \A d \in Conns : Asks(d)' => \/ Asks(d) /\ connRun'[d] = connRun[d]
                                      \/ connRun'[d] = nMsg + 1
  BY <1>1, <1>2 DEF Next
<1>4. nMsg \in Nat
  BY BoundsAssumption DEF IInv, TypeOK, SessTypeOK
<1> QED BY <1>3, <1>4 DEF PastStart

-----------------------------------------------------------------------------
(* What a step of RunSlot does to the place and to whoever works for it.   *)
SlotMove ==
    \/ \E r \in Msgs : Slot!Start(r)
    \/ Slot!Suspend \/ Slot!Resume \/ Slot!Cancel \/ Slot!Leave
    \/ Slot!Forget \/ Slot!Finish \/ Slot!Decline

(* CancelRun: whoever holds the run goes on, or the cancelled context lets *)
(* go of it.                                                               *)
LEMMA CancelSlot ==
  ASSUME NEW r \in RunIds, IInv, CancelRun(r), UNCHANGED <<wiped, engPc>>,
         \A c \in Conns : ConnOwns(c)' <=> ConnOwns(c)
  PROVE  SlotMove
<1> USE DEF CancelRun, sessVars
<1>1. CASE UNCHANGED <<sessVars, cancelled>>
  <2>1. Owned' = Owned
    BY <1>1 DEF Owned, EngOwns
  <2> QED BY <1>1, <2>1 DEF SlotMove, Slot!Decline
<1>2. CASE activeRun # NoRun /\ status' = "cancelling" /\ cancelled \subseteq cancelled'
           /\ activeRun' = activeRun
  <2>1. Owned' => Owned
    BY <1>2 DEF Owned, EngOwns
  <2>2. CASE Owned' = Owned
    BY <1>2, <2>2 DEF SlotMove, Slot!Cancel
  <2>3. CASE Owned /\ ~Owned'
    BY <1>2, <2>3 DEF SlotMove, Slot!Leave
  <2>4. Owned \in BOOLEAN /\ Owned' \in BOOLEAN
    BY DEF Owned
  <2> QED BY <2>1, <2>2, <2>3, <2>4
<1> QED BY <1>1, <1>2

-----------------------------------------------------------------------------
(* One lemma per action of the handler.                                    *)

(* A waiting run is resumed, or a new message changes nothing yet.         *)
LEMMA RecvUserMessageSlot == ASSUME NEW c \in Conns, IInv, RecvUserMessage(c) PROVE SlotMove
<1> USE DEF RecvUserMessage, engVars
<1>1. \A d \in Conns \ {c} : connPc'[d] = connPc[d]
  BY DEF IInv, TypeOK, ConnTypeOK
<1>2. ~ConnOwns(c)
  BY DEF ConnOwns
<1>3. CASE status = "waiting_user_input"
  <2>1. ~Owned
    BY <1>3 DEF IInv, WaitingIsAnswerable
  <2>2. ConnOwns(c)'
    BY <1>3 DEF ConnOwns, IInv, TypeOK, ConnTypeOK
  <2>3. Owned'
    BY <2>2 DEF Owned
  <2> QED BY <1>3, <2>1, <2>3 DEF SlotMove, Slot!Resume
<1>4. CASE status # "waiting_user_input"
  <2>1. ~ConnOwns(c)'
    BY <1>4 DEF ConnOwns, IInv, TypeOK, ConnTypeOK
  <2>2. Owned' = Owned
    BY <1>1, <1>2, <2>1, HandlerMoves
  <2> QED BY <1>4, <2>2 DEF SlotMove, Slot!Decline
<1> QED BY <1>3, <1>4

(* A reply that finds no question leaves the run, which a reset has made   *)
(* forget it.                                                              *)
LEMMA AnswerQuestionSlot == ASSUME NEW c \in Conns, IInv, AnswerQuestion(c) PROVE SlotMove
<1> USE DEF AnswerQuestion, ConnGoto, ConnRead, engVars, sessVars
<1>1. \A d \in Conns \ {c} : connPc'[d] = connPc[d]
  BY DEF IInv, TypeOK, ConnTypeOK
<1>2. ConnOwns(c)
  BY DEF ConnOwns
<1>3. CASE asked
  <2>1. ConnOwns(c)'
    BY <1>3 DEF ConnOwns, IInv, TypeOK, ConnTypeOK
  <2>2. Owned' = Owned
    BY <1>1, <1>2, <2>1, HandlerMoves
  <2> QED BY <2>2 DEF SlotMove, Slot!Decline
<1>4. CASE ~asked
  <2>1. ~ConnOwns(c)'
    BY <1>4 DEF ConnOwns, IInv, TypeOK, ConnTypeOK
  <2>2. Owned /\ ~Owned'
    BY <1>1, <1>2, <2>1, HandlerMoves
  <2>3. wiped
    BY <1>4 DEF IInv, QuestionKept
  <2> QED BY <2>2, <2>3 DEF SlotMove, Slot!Leave
<1> QED BY <1>3, <1>4

(* The handler keeps the run, or keeps having none.                        *)
LEMMA HandlerDeclines ==
  ASSUME NEW c \in Conns, IInv,
         MarkRunning(c) \/ PrepareUserRun(c) \/ ResetReport(c)
  PROVE  SlotMove
<1> USE DEF MarkRunning, PrepareUserRun, ResetReport, ConnGoto, ConnRead, engVars, sessVars
<1>1. \A d \in Conns \ {c} : connPc'[d] = connPc[d]
  BY DEF IInv, TypeOK, ConnTypeOK
<1>2. ConnOwns(c) <=> ConnOwns(c)'
  BY DEF ConnOwns, IInv, TypeOK, ConnTypeOK
<1>3. Owned' = Owned
  BY <1>1, <1>2, HandlerMoves
<1> QED BY <1>3 DEF SlotMove, Slot!Decline

(* The run passes from the handler to the engine it launches.              *)
LEMMA LaunchSlot == ASSUME NEW c \in Conns, IInv, Resume(c) \/ LaunchRun(c) PROVE SlotMove
<1> USE DEF Resume, LaunchRun, Launch, ConnRead, sessVars
<1>1. connMsg[c] \in Msgs
  BY DEF IInv, FreshMsgs, Handling
<1>2. Owned
  BY DEF Owned, ConnOwns
<1>3. engPc'[connMsg[c]] = "top"
  BY <1>1 DEF IInv, TypeOK, EngTypeOK
<1>4. Owned'
  BY <1>1, <1>3 DEF Owned, EngOwns
<1>5. Owned' = Owned
  BY <1>2, <1>4 DEF Owned
<1> QED BY <1>5 DEF SlotMove, Slot!Decline

(* StartRun gives the free place to a run that never had it.               *)
LEMMA StartRunSlot == ASSUME NEW c \in Conns, IInv, StartRun(c) PROVE SlotMove
<1> USE DEF StartRun, ConnGoto, ConnRead, engVars
<1>1. \A d \in Conns \ {c} : connPc'[d] = connPc[d]
  BY DEF IInv, TypeOK, ConnTypeOK
<1>2. CASE activeRun # NoRun
  <2>1. ~ConnOwns(c) /\ ~ConnOwns(c)'
    BY <1>2 DEF ConnOwns, IInv, TypeOK, ConnTypeOK
  <2>2. Owned' = Owned
    BY <1>1, <2>1, HandlerMoves
  <2> QED BY <1>2, <2>2 DEF SlotMove, Slot!Decline
<1>3. CASE activeRun = NoRun
  <2>1. connRun[c] = connMsg[c] /\ connRun[c] \in Msgs \cap 1..nMsg
    BY DEF IInv, ContextOfMsg, FreshMsgs, Handling, SentMsgs
  <2>2. connPc'[c] = "create" /\ connRun' = connRun /\ nMsg' = nMsg
    BY <1>3 DEF IInv, TypeOK, ConnTypeOK
  <2>3. connRun[c] \notin PastStart
    BY DEF PastStart
  <2>4. ASSUME NEW d \in Conns, connPc'[d] \in {"prepare", "start"} PROVE connRun'[d] # connRun[c]
    <3>1. d # c /\ connPc[d] \in {"prepare", "start"}
      BY <1>1, <2>2, <2>4
    <3>2. connRun[d] = connMsg[d]
      BY <3>1 DEF IInv, ContextOfMsg
    <3> QED BY <2>1, <2>2, <3>1, <3>2 DEF IInv, FreshMsgs, Handling
  <2>5. connRun[c] \in PastStart'
    BY <2>1, <2>2, <2>4 DEF PastStart
  <2>6. Owned'
    BY <2>2 DEF Owned, ConnOwns
  <2> QED BY <1>3, <2>1, <2>3, <2>5, <2>6 DEF SlotMove, Slot!Start
<1> QED BY <1>2, <1>3

(* A run whose row cannot be made is cancelled by its handler, which then  *)
(* leaves it.                                                              *)
LEMMA CreateRunSlot == ASSUME NEW c \in Conns, IInv, CreateRun(c) PROVE SlotMove
<1> USE DEF CreateRun, ConnGoto, ConnRead, engVars, sessVars
<1>1. \A d \in Conns \ {c} : connPc'[d] = connPc[d]
  BY DEF IInv, TypeOK, ConnTypeOK
<1>2. ConnOwns(c)
  BY DEF ConnOwns
<1>3. CASE connPc'[c] = "launch" /\ UNCHANGED <<sessVars, cancelled>>
  <2>1. ConnOwns(c)'
    BY <1>3 DEF ConnOwns
  <2>2. Owned' = Owned
    BY <1>1, <1>2, <1>3, <2>1, HandlerMoves
  <2> QED BY <1>3, <2>2 DEF SlotMove, Slot!Decline
<1>4. CASE connPc'[c] = "read" /\ CancelRun(connRun[c])
  <2>1. activeRun = connRun[c] /\ activeRun # NoRun
    BY <1>2, HeldIsActive DEF IInv, SingleOwner, Owned
  <2>2. status' = "cancelling" /\ activeRun' = activeRun
    BY <1>4, <2>1 DEF CancelRun
  <2>3. Owned
    BY <1>2 DEF Owned
  <2>4. ~ConnOwns(c)' /\ \A d \in Conns : ~ConnOwns(d)'
    BY <1>1, <1>2, <1>4 DEF ConnOwns, IInv, SingleOwner
  <2>5. \A x \in Msgs : ~EngOwns(x)'
    BY <1>2, <1>4, <2>1 DEF EngOwns, IInv, SingleOwner, CancelRun
  <2>6. ~Owned'
    BY <2>4, <2>5 DEF Owned
  <2> QED BY <2>2, <2>3, <2>6 DEF SlotMove, Slot!Leave
<1> QED BY <1>3, <1>4 DEF IInv, TypeOK, ConnTypeOK

(* A stop, and the first section of a reset, cancel the run or nothing.    *)
LEMMA StopSlot == ASSUME NEW c \in Conns, IInv, Stop(c) \/ ResetCancel(c) PROVE SlotMove
<1>1. PICK r \in RunIds : CancelRun(r)
  BY DEF Stop, ResetCancel, RunIds, AnyRun, NoRun
<1>2. UNCHANGED <<wiped, engPc>>
  BY DEF Stop, ResetCancel, engVars
<1>3. \A d \in Conns : ConnOwns(d)' <=> ConnOwns(d)
  BY DEF Stop, ResetCancel, ConnGoto, connVars, ConnOwns, IInv, TypeOK, ConnTypeOK
<1> QED BY <1>1, <1>2, <1>3, CancelSlot

(* Dropping the history makes an active run forget.                        *)
LEMMA ResetHistorySlot == ASSUME NEW c \in Conns, IInv, ResetHistory(c) PROVE SlotMove
<1> USE DEF ResetHistory, ConnGoto, engVars, sessVars
<1>1. \A d \in Conns \ {c} : connPc'[d] = connPc[d]
  BY DEF IInv, TypeOK, ConnTypeOK
<1>2. ~ConnOwns(c) /\ ~ConnOwns(c)'
  BY DEF ConnOwns, IInv, TypeOK, ConnTypeOK
<1>3. Owned' = Owned
  BY <1>1, <1>2, HandlerMoves
<1>4. CASE activeRun # NoRun
  BY <1>3, <1>4 DEF SlotMove, Slot!Forget
<1>5. CASE activeRun = NoRun
  BY <1>3, <1>5 DEF SlotMove, Slot!Decline, IInv, TypeOK, SessTypeOK
<1> QED BY <1>4, <1>5

-----------------------------------------------------------------------------
(* One lemma per kind of action of the engine.                             *)

(* A step that touches no one else's place in the code.                    *)
EngineOnly(x) ==
    /\ \A y \in Msgs \ {x} : engPc'[y] = engPc[y]
    /\ UNCHANGED <<connPc, cancelled>>

LEMMA EngineDeclines ==
  ASSUME NEW x \in Msgs, IInv, EngineOnly(x), UNCHANGED <<activeRun, status, wiped>>,
         EngOwns(x) <=> EngOwns(x)'
  PROVE  SlotMove
<1>1. Owned' = Owned
  BY EngineMoves DEF EngineOnly
<1> QED BY <1>1 DEF SlotMove, Slot!Decline

(* An engine whose context is cancelled leaves a run that is cancelling.   *)
LEMMA EngineLeaves ==
  ASSUME NEW x \in Msgs, IInv, EngineOnly(x), UNCHANGED <<activeRun, status, wiped>>,
         x \in cancelled, EngOwns(x), ~EngOwns(x)'
  PROVE  SlotMove
<1>1. Owned /\ ~Owned'
  BY EngineMoves DEF EngineOnly
<1>2. status = "cancelling"
  BY DEF IInv, OwnerStatus
<1> QED BY <1>1, <1>2 DEF SlotMove, Slot!Leave

(* The engine goes on with the run it holds.                               *)
LEMMA EngineContinues ==
  ASSUME NEW x \in Msgs, IInv, LoopTop(x) \/ ModelTurn(x) \/ Summarise(x)
  PROVE  SlotMove
<1> USE DEF LoopTop, ModelTurn, Summarise, EmitTerminal, NextIteration, ToolTurn, sessVars, connVars
<1>1. EngineOnly(x) /\ UNCHANGED <<activeRun, status, wiped>>
  BY DEF EngineOnly, IInv, TypeOK, EngTypeOK
<1>2. EngOwns(x) /\ EngOwns(x)'
  BY DEF EngOwns, IInv, TypeOK, EngTypeOK
<1> QED BY <1>1, <1>2, EngineDeclines

(* A cancelled engine leaves after a tool call; any other goes on.         *)
LEMMA RunToolSlot == ASSUME NEW x \in Msgs, IInv, RunTool(x) PROVE SlotMove
<1> USE DEF RunTool, EmitTerminal, CallDone, EngReturn, sessVars, connVars
<1>1. EngineOnly(x) /\ UNCHANGED <<activeRun, status, wiped>>
  BY DEF EngineOnly, IInv, TypeOK, EngTypeOK
<1>2. EngOwns(x)
  BY DEF EngOwns
<1>3. EngOwns(x)' \/ (x \in cancelled /\ ~EngOwns(x)')
  <2>1. \/ engPc'[x] \in {"finish", "suspend", "top", "tool", "saving"}
        \/ x \in cancelled /\ engPc'[x] = "exit"
    BY DEF IInv, TypeOK, EngTypeOK
  <2> QED BY <2>1 DEF EngOwns
<1>4. CASE EngOwns(x)'
  <2>1. EngOwns(x) <=> EngOwns(x)'
    BY <1>2, <1>4
  <2> QED BY <1>1, <2>1, EngineDeclines
<1>5. CASE x \in cancelled /\ ~EngOwns(x)'
  BY <1>1, <1>2, <1>5, EngineLeaves
<1> QED BY <1>3, <1>4, <1>5

(* After the saving a cancelled engine holds its run no longer.            *)
LEMMA SaveReportSlot == ASSUME NEW x \in Msgs, IInv, SaveReport(x) PROVE SlotMove
<1> USE DEF SaveReport, EngGoto, sessVars, connVars
<1>1. EngineOnly(x) /\ UNCHANGED <<activeRun, status, wiped>>
  BY DEF EngineOnly, IInv, TypeOK, EngTypeOK
<1>2. EngOwns(x)
  BY DEF EngOwns
<1>3. EngOwns(x)' \/ (x \in cancelled /\ ~EngOwns(x)')
  <2>1. engPc'[x] \in {"emitted", "failCancel"} /\ cancelled' = cancelled
    BY DEF IInv, TypeOK, EngTypeOK
  <2> QED BY <2>1 DEF EngOwns
<1>4. CASE EngOwns(x)'
  <2>1. EngOwns(x) <=> EngOwns(x)'
    BY <1>2, <1>4
  <2> QED BY <1>1, <2>1, EngineDeclines
<1>5. CASE x \in cancelled /\ ~EngOwns(x)'
  BY <1>1, <1>2, <1>5, EngineLeaves
<1> QED BY <1>3, <1>4, <1>5

(* The hook cancels the run of the engine that carries it.                 *)
LEMMA SaveFailedCancelSlot == ASSUME NEW x \in Msgs, IInv, SaveFailedCancel(x) PROVE SlotMove
<1> USE DEF SaveFailedCancel, EngGoto, connVars
<1>1. EngOwns(x)
  BY DEF EngOwns
<1>2. activeRun = engRun[x] /\ activeRun # NoRun
  BY <1>1, HeldIsActive DEF IInv, SingleOwner, Owned
<1>3. status' = "cancelling" /\ UNCHANGED <<activeRun, wiped>>
  BY <1>2 DEF CancelRun
<1>4. EngOwns(x)'
  BY DEF EngOwns, IInv, TypeOK, EngTypeOK
<1>5. Owned' = Owned
  BY <1>1, <1>4 DEF Owned
<1> QED BY <1>2, <1>3, <1>5 DEF SlotMove, Slot!Cancel

(* FinishRun, on a terminal event or in the failing hook, frees the place. *)
LEMMA FinishSlot == ASSUME NEW x \in Msgs, IInv, Finish(x) \/ SaveFailedFinish(x) PROVE SlotMove
<1> USE DEF Finish, SaveFailedFinish, EngGoto, connVars
<1>1. EngOwns(x)
  BY DEF EngOwns
<1>2. activeRun = engRun[x]
  BY <1>1 DEF IInv, SingleOwner
<1>3. EngineOnly(x)
  BY <1>2 DEF EngineOnly, IInv, TypeOK, EngTypeOK
<1>4. ~EngOwns(x)'
  BY <1>2 DEF EngOwns, IInv, TypeOK, EngTypeOK, EngineLocals
<1>5. Owned /\ ~Owned'
  BY <1>1, <1>3, <1>4, EngineMoves DEF EngineOnly
<1>6. activeRun' = NoRun /\ status' = "idle" /\ ~wiped'
  BY <1>2 DEF FinishRun
<1> QED BY <1>5, <1>6 DEF SlotMove, Slot!Finish

(* What the hooks write afterwards concerns the database only.             *)
LEMMA PersistSlot ==
  ASSUME NEW x \in Msgs, IInv, SaveFailedPersist(x) \/ Persist(x) \/ PersistWait(x)
  PROVE  SlotMove
<1> USE DEF SaveFailedPersist, Persist, PersistWait, EngGoto, EngReturn, sessVars, connVars
<1>1. EngineOnly(x) /\ UNCHANGED <<activeRun, status, wiped>>
  BY DEF EngineOnly, IInv, TypeOK, EngTypeOK
<1>2. ~EngOwns(x) /\ ~EngOwns(x)'
  BY DEF EngOwns, IInv, TypeOK, EngTypeOK, EngineLocals
<1> QED BY <1>1, <1>2, EngineDeclines

(* The second context check lets an engine go that holds nothing.          *)
LEMMA AfterEmitSlot == ASSUME NEW x \in Msgs, IInv, AfterEmit(x) PROVE SlotMove
<1> USE DEF AfterEmit, EngGoto, EngReturn, sessVars, connVars
<1>1. EngineOnly(x) /\ UNCHANGED <<activeRun, status, wiped>>
  BY DEF EngineOnly, IInv, TypeOK, EngTypeOK
<1>2. EngOwns(x) <=> EngOwns(x)'
  BY DEF EngOwns, IInv, TypeOK, EngTypeOK
<1> QED BY <1>1, <1>2, EngineDeclines

(* SuspendRun leaves the run to the user's next message.                   *)
LEMMA SuspendSlot == ASSUME NEW x \in Msgs, IInv, Suspend(x) PROVE SlotMove
<1> USE DEF Suspend, EngGoto, connVars
<1>1. EngOwns(x)
  BY DEF EngOwns
<1>2. activeRun = engRun[x]
  BY <1>1 DEF IInv, SingleOwner
<1>3. EngineOnly(x)
  BY <1>2 DEF EngineOnly, IInv, TypeOK, EngTypeOK
<1>4. ~EngOwns(x)'
  BY <1>2 DEF EngOwns, IInv, TypeOK, EngTypeOK
<1>5. Owned /\ ~Owned'
  BY <1>1, <1>3, <1>4, EngineMoves DEF EngineOnly
<1> QED BY <1>2, <1>5 DEF SlotMove, Slot!Suspend

-----------------------------------------------------------------------------
(* A new session is an empty slot.                                         *)
LEMMA InitSlot == Init => Slot!Init
<1> SUFFICES ASSUME Init PROVE Slot!Init
  OBVIOUS
<1>1. ~Owned
  BY DEF Init, Owned, ConnOwns, EngOwns
<1>2. PastStart = {}
  BY DEF Init, PastStart
<1> QED BY <1>1, <1>2 DEF Init, Slot!Init

(* Every step of a handler or an engine is one of RunSlot or none.         *)
LEMMA NextSlot == ASSUME IInv, [Next]_vars PROVE [Slot!Next]_(Slot!vars)
<1>1. CASE UNCHANGED vars
  BY <1>1 DEF vars, sessVars, connVars, engVars, Slot!vars, Owned, ConnOwns, EngOwns, PastStart
<1>2. CASE Next
  <2>1. ASSUME NEW c \in Conns, ConnStep(c) PROVE SlotMove
    BY <2>1, AnswerQuestionSlot, HandlerDeclines, LaunchSlot, StartRunSlot, CreateRunSlot,
       ResetHistorySlot DEF ConnStep
  <2>2. ASSUME NEW c \in Conns, UserStep(c) PROVE SlotMove
    BY <2>2, RecvUserMessageSlot, StopSlot DEF UserStep
  <2>3. ASSUME NEW x \in Msgs, EngineStep(x) PROVE SlotMove
    BY <2>3, EngineContinues, RunToolSlot, SaveReportSlot, SaveFailedCancelSlot, FinishSlot,
       PersistSlot, AfterEmitSlot, SuspendSlot DEF EngineStep
  <2>4. SlotMove
    BY <1>2, <2>1, <2>2, <2>3 DEF Next
  <2> QED BY <1>2, <2>4, GoneGrows DEF SlotMove, Slot!Next
<1> QED BY <1>1, <1>2

(* The handlers, the engines and the locks of Session together implement   *)
(* RunSlot (session/types.go, handler/ws.go, agent/engine.go).             *)
THEOREM Implements == Spec => KeepsOneSlot
  BY Invariance, InitSlot, NextSlot, PTL DEF Spec, KeepsOneSlot, Slot!Spec
=============================================================================
