---------------------------- MODULE EventPersist ----------------------------
(***************************************************************************)
(* The event log behind the WebSocket (handler/ws.go).                     *)
(*                                                                         *)
(* Every goroutine that emits an event hands it to saveEventToDB, which    *)
(* must not block: the event goes into a bounded channel, or, when that is *)
(* full, to one of a few overflow goroutines, or it is dropped.  One       *)
(* worker empties the channel.  Shutting down clears the global channel    *)
(* variable, cancels the worker's context and waits for the worker to      *)
(* drain; the channel itself is never closed, so a sender that has read    *)
(* the variable before may still send.                                     *)
(*                                                                         *)
(* The n-th event of sender s is <<s, n>>.  A row carries the time at      *)
(* which saveEventToDBSync built it; `stamped' lists the events in that    *)
(* order, which is the order the log is read back in.                      *)
(***************************************************************************)
EXTENDS Integers, Sequences, FiniteSets

CONSTANTS
    Senders,        \* goroutines that emit events
    MaxEvents,      \* bound: events of one sender
    QueueCap,       \* capacity of the channel (4096 in the code)
    MaxOverflow     \* maxOverflow

ASSUME SendersAssumption == IsFiniteSet(Senders)
ASSUME LimitsAssumption ==
    MaxEvents \in Nat /\ QueueCap \in Nat /\ MaxOverflow \in Nat

Events == Senders \X (1..MaxEvents)
NoEvent == <<>>

VARIABLES
    accepting,   \* eventPersistQueue # nil
    ctxDone,     \* the worker's context is cancelled
    up,          \* the process runs
    queue,       \* the channel's buffer
    overflowCnt, \* the atomic counter
    emitted,     \* events each sender has emitted
    sendPc,      \* where each sender is in saveEventToDB
    workerPc,    \* where the worker is
    job,         \* the event the worker saves
    fate,        \* what became of each event
    stamped,     \* events in the order of their CreatedAt
    inTime       \* history variable: events queued before the cancel

senderVars == <<emitted, sendPc>>
workerVars == <<workerPc, job>>
shutVars == <<accepting, ctxDone, up>>
vars == <<shutVars, queue, overflowCnt, senderVars, workerVars, fate, stamped, inTime>>

Init ==
    /\ accepting = TRUE
    /\ ctxDone = FALSE
    /\ up = TRUE
    /\ queue = <<>>
    /\ overflowCnt = 0
    /\ emitted = [s \in Senders |-> 0]
    /\ sendPc = [s \in Senders |-> "idle"]
    /\ workerPc = "wait"
    /\ job = NoEvent
    /\ fate = [e \in Events |-> "unsent"]
    /\ stamped = <<>>
    /\ inTime = {}

EventOf(s) == <<s, emitted[s]>>
SendGoto(s, pc) == sendPc' = [sendPc EXCEPT ![s] = pc] /\ UNCHANGED emitted
SetFate(e, f) == fate' = [fate EXCEPT ![e] = f]

-----------------------------------------------------------------------------
(* saveEventToDB.                                                          *)

(* A new event; the sender copies the global channel variable, and gives   *)
(* the event up when it is nil.                                            *)
Snapshot(s) ==
    /\ up
    /\ sendPc[s] = "idle"
    /\ emitted[s] < MaxEvents
    /\ emitted' = [emitted EXCEPT ![s] = @ + 1]
    /\ sendPc' = [sendPc EXCEPT ![s] = IF accepting THEN "send" ELSE "idle"]
    /\ SetFate(<<s, emitted[s] + 1>>, IF accepting THEN "held" ELSE "refused")
    /\ UNCHANGED <<shutVars, queue, overflowCnt, workerVars, stamped, inTime>>

(* The non-blocking send, when the channel has room.                       *)
Enqueue(s) ==
    /\ up
    /\ sendPc[s] = "send"
    /\ Len(queue) < QueueCap
    /\ queue' = Append(queue, EventOf(s))
    /\ inTime' = IF ctxDone THEN inTime ELSE inTime \cup {EventOf(s)}
    /\ SetFate(EventOf(s), "queued")
    /\ SendGoto(s, "idle")
    /\ UNCHANGED <<shutVars, overflowCnt, workerVars, stamped>>

(* The channel is full: one atomic add both claims a slot and tells        *)
(* whether there was one.                                                  *)
Overflow(s) ==
    /\ up
    /\ sendPc[s] = "send"
    /\ Len(queue) >= QueueCap
    /\ overflowCnt' = overflowCnt + 1
    /\ IF overflowCnt + 1 <= MaxOverflow
       THEN SendGoto(s, "idle") /\ SetFate(EventOf(s), "overflow")
       ELSE SendGoto(s, "reject") /\ UNCHANGED fate
    /\ UNCHANGED <<shutVars, queue, workerVars, stamped, inTime>>

(* The dropped event keeps its slot. *)
Reject_LeaksSlot(s) ==
    /\ up
    /\ sendPc[s] = "reject"
    /\ SetFate(EventOf(s), "dropped")
    /\ SendGoto(s, "idle")
    /\ UNCHANGED <<shutVars, queue, overflowCnt, workerVars, stamped, inTime>>

Reject(s) ==
    /\ up
    /\ sendPc[s] = "reject"
    /\ overflowCnt' = overflowCnt - 1
    /\ SetFate(EventOf(s), "dropped")
    /\ SendGoto(s, "idle")
    /\ UNCHANGED <<shutVars, queue, workerVars, stamped, inTime>>

-----------------------------------------------------------------------------
(* An overflow goroutine: saveEventToDBSync builds the row and tries to    *)
(* write it (a failed write is only logged); the deferred function returns *)
(* the slot.                                                               *)

OverflowStamp(e) ==
    /\ up
    /\ fate[e] = "overflow"
    /\ stamped' = Append(stamped, e)
    /\ SetFate(e, "overflowRow")
    /\ UNCHANGED <<shutVars, queue, overflowCnt, senderVars, workerVars, inTime>>

OverflowSave(e) ==
    /\ up
    /\ fate[e] = "overflowRow"
    /\ overflowCnt' = overflowCnt - 1
    /\ SetFate(e, "tried")
    /\ UNCHANGED <<shutVars, queue, senderVars, workerVars, stamped, inTime>>

-----------------------------------------------------------------------------
(* The worker.                                                             *)

WorkerGoto(pc) == workerPc' = pc /\ UNCHANGED job

(* Each job is saved by a goroutine of its own. *)
TakeJob_Concurrently ==
    /\ up
    /\ workerPc \in {"wait", "drain"}
    /\ queue # <<>>
    /\ queue' = Tail(queue)
    /\ SetFate(Head(queue), "overflow")
    /\ overflowCnt' = overflowCnt + 1
    /\ UNCHANGED <<shutVars, senderVars, workerVars, stamped, inTime>>

(* A job is received, in the waiting loop or in the draining one.          *)
TakeJob ==
    /\ up
    /\ workerPc \in {"wait", "drain"}
    /\ queue # <<>>
    /\ queue' = Tail(queue)
    /\ job' = Head(queue)
    /\ SetFate(Head(queue), "worker")
    /\ workerPc' = IF workerPc = "wait" THEN "stamp" ELSE "drainStamp"
    /\ UNCHANGED <<shutVars, overflowCnt, senderVars, stamped, inTime>>

StampJob ==
    /\ up
    /\ workerPc \in {"stamp", "drainStamp"}
    /\ stamped' = Append(stamped, job)
    /\ WorkerGoto(IF workerPc = "stamp" THEN "save" ELSE "drainSave")
    /\ UNCHANGED <<shutVars, queue, overflowCnt, senderVars, fate, inTime>>

(* After a drained job the worker waits for one more. *)
SaveJob_ForgetsDraining ==
    /\ up
    /\ workerPc \in {"save", "drainSave"}
    /\ SetFate(job, "tried")
    /\ job' = NoEvent
    /\ workerPc' = IF workerPc = "save" THEN "wait" ELSE "blocked"
    /\ UNCHANGED <<shutVars, queue, overflowCnt, senderVars, stamped, inTime>>

SaveJob ==
    /\ up
    /\ workerPc \in {"save", "drainSave"}
    /\ SetFate(job, "tried")
    /\ job' = NoEvent
    /\ workerPc' = IF workerPc = "save" THEN "wait" ELSE "drain"
    /\ UNCHANGED <<shutVars, queue, overflowCnt, senderVars, stamped, inTime>>

(* The worker leaves as soon as it is told to. *)
SeeDone_NoDrain ==
    /\ up
    /\ workerPc = "wait"
    /\ ctxDone
    /\ WorkerGoto("exit")
    /\ UNCHANGED <<shutVars, queue, overflowCnt, senderVars, fate, stamped, inTime>>

(* With a job waiting as well, select may take either case.                *)
SeeDone ==
    /\ up
    /\ workerPc = "wait"
    /\ ctxDone
    /\ WorkerGoto("drain")
    /\ UNCHANGED <<shutVars, queue, overflowCnt, senderVars, fate, stamped, inTime>>

Drained ==
    /\ up
    /\ workerPc = "drain"
    /\ queue = <<>>
    /\ WorkerGoto("exit")
    /\ UNCHANGED <<shutVars, queue, overflowCnt, senderVars, fate, stamped, inTime>>

-----------------------------------------------------------------------------
(* The shutdown function, called once by main after the HTTP server has    *)
(* stopped; engines and WebSocket handlers still run.                      *)

StopAccepting ==
    /\ up
    /\ accepting
    /\ accepting' = FALSE
    /\ UNCHANGED <<ctxDone, up, queue, overflowCnt, senderVars, workerVars, fate, stamped, inTime>>

CancelWorker ==
    /\ up
    /\ ~accepting
    /\ ~ctxDone
    /\ ctxDone' = TRUE
    /\ UNCHANGED <<accepting, up, queue, overflowCnt, senderVars, workerVars, fate, stamped, inTime>>

(* wg.Wait has returned and main returns: every other goroutine is gone.   *)
ProcessExit ==
    /\ up
    /\ workerPc = "exit"
    /\ up' = FALSE
    /\ UNCHANGED <<accepting, ctxDone, queue, overflowCnt, senderVars, workerVars, fate, stamped, inTime>>

-----------------------------------------------------------------------------
SenderStep(s) == Snapshot(s) \/ Enqueue(s) \/ Overflow(s) \/ Reject(s)
OverflowStep(e) == OverflowStamp(e) \/ OverflowSave(e)
WorkerStep == TakeJob \/ StampJob \/ SaveJob \/ SeeDone \/ Drained
ShutdownStep == StopAccepting \/ CancelWorker \/ ProcessExit

Next ==
    \/ \E s \in Senders : SenderStep(s)
    \/ \E e \in Events : OverflowStep(e)
    \/ WorkerStep
    \/ ShutdownStep

Spec == Init /\ [][Next]_vars

(* The worker is one goroutine and each of its saves has a time-out; once  *)
(* shutdown has begun it goes on.  Nothing obliges anybody to emit events  *)
(* or to shut down.                                                        *)
FairSpec == Spec /\ WF_vars(WorkerStep) /\ WF_vars(CancelWorker)

-----------------------------------------------------------------------------
Fates == {"unsent", "refused", "held", "queued", "worker", "overflow",
          "overflowRow", "tried", "dropped"}

TypeOK ==
    /\ accepting \in BOOLEAN
    /\ ctxDone \in BOOLEAN
    /\ up \in BOOLEAN
    /\ queue \in Seq(Events)
    /\ Len(queue) <= QueueCap
    /\ overflowCnt \in Nat
    /\ emitted \in [Senders -> 0..MaxEvents]
    /\ sendPc \in [Senders -> {"idle", "send", "reject"}]
    /\ workerPc \in {"wait", "stamp", "save", "drain", "drainStamp", "drainSave", "exit"}
    /\ job \in Events \cup {NoEvent}
    /\ fate \in [Events -> Fates]
    /\ stamped \in Seq(Events)
    /\ inTime \subseteq Events

InOverflow == {e \in Events : fate[e] \in {"overflow", "overflowRow"}}
Rejecting == {s \in Senders : sendPc[s] = "reject"}

(* saveEventToDB never has more than maxOverflow goroutines in flight,     *)
(* however many senders find the channel full at the same moment.          *)
OverflowBounded == Cardinality(InOverflow) <= MaxOverflow

(* The atomic counter overflowCnt counts exactly the goroutines in flight  *)
(* and the senders about to undo their claim: no slot is lost, so overflow *)
(* capacity is back to maxOverflow after every burst.                      *)
SlotsConserved == overflowCnt = Cardinality(InOverflow) + Cardinality(Rejecting)

Before(e, f) ==
    \E i, j \in DOMAIN stamped : i < j /\ stamped[i] = e /\ stamped[j] = f

(* Events of one sender that went through the channel get their CreatedAt  *)
(* in the order they were emitted, so the log reads them back in order     *)
(* (ListByRun orders by created_at).                                       *)
QueuedInOrder ==
    \A e, f \in inTime : e[1] = f[1] /\ e[2] < f[2] => ~Before(f, e)

(* The shutdown function loses nothing it was given in time: when the      *)
(* worker has left, every event that was in the channel before the cancel  *)
(* was handed to the database.                                             *)
DrainedAtExit == workerPc = "exit" => \A e \in inTime : fate[e] = "tried"

(* An event in the channel before the cancel is eventually handed to the   *)
(* database, also when shutdown intervenes.                                *)
QueuedIsWritten == \A e \in Events : e \in inTime ~> fate[e] = "tried"

(* A shutdown that has begun comes to its end: late senders cannot keep    *)
(* the worker draining for ever.                                           *)
ShutdownReturns == ~accepting ~> workerPc = "exit"

-----------------------------------------------------------------------------
(* The inductive invariant behind the counter and the drain.               *)

Busy == {"stamp", "save", "drainStamp", "drainSave"}

(* An event not yet emitted is nowhere; a sender inside saveEventToDB      *)
(* holds its own event.                                                    *)
HeldBySender ==
    /\ \A e \in Events : e[2] > emitted[e[1]] => fate[e] = "unsent"
    /\ \A s \in Senders : sendPc[s] # "idle" => emitted[s] > 0 /\ fate[EventOf(s)] = "held"

(* The channel holds exactly the queued events, each once.                 *)
QueueHolds ==
    /\ \A i \in 1..Len(queue) : fate[queue[i]] = "queued"
    /\ \A i, j \in 1..Len(queue) : queue[i] = queue[j] => i = j
    /\ \A e \in Events : fate[e] = "queued" => \E i \in 1..Len(queue) : queue[i] = e

(* The worker holds at most one event, and drains only after the cancel.   *)
WorkerHolds ==
    /\ \A e \in Events : fate[e] = "worker" => job = e /\ workerPc \in Busy
    /\ workerPc \in Busy => job \in Events /\ fate[job] = "worker"
    /\ workerPc \in {"drain", "drainStamp", "drainSave", "exit"} => ctxDone

(* An event that was queued in time is still in the channel, with the      *)
(* worker, or handed to the database.                                      *)
InTimeTracked == \A e \in inTime : fate[e] \in {"queued", "worker", "tried"}

IInv ==
    /\ TypeOK
    /\ HeldBySender
    /\ QueueHolds
    /\ WorkerHolds
    /\ InTimeTracked
    /\ SlotsConserved
    /\ OverflowBounded
    /\ DrainedAtExit

-----------------------------------------------------------------------------
(* The inductive invariant behind the order of the log.                    *)

(* An event gets its time from the worker or from an overflow goroutine.   *)
NotYetStamped ==
    \A e \in Events :
        \/ fate[e] \in {"unsent", "held", "queued", "overflow"}
        \/ fate[e] = "worker" /\ workerPc \in {"stamp", "drainStamp"}
        => \A i \in DOMAIN stamped : stamped[i] # e

(* Of two events of one sender the later one is behind the earlier one in  *)
(* the channel, and reaches the worker when the earlier one has been saved. *)
InTurn ==
    \A e, f \in inTime : e[1] = f[1] /\ e[2] < f[2] =>
        /\ fate[f] \in {"worker", "tried"} => fate[e] = "tried"
        /\ \A i, j \in DOMAIN queue : queue[i] = e /\ queue[j] = f => i < j

OrderInv == NotYetStamped /\ InTurn /\ QueuedInOrder

=============================================================================
