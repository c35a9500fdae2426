------------------------- MODULE EventPersistProofs -------------------------
(***************************************************************************)
(* Proofs about EventPersist, for any number of senders and events, any    *)
(* channel capacity and any overflow limit.                                *)
(***************************************************************************)
EXTENDS EventPersist, FiniteSetTheorems, TLAPS

(* The sets the counter counts are finite.                                 *)
LEMMA EventsFinite == IsFiniteSet(Events)
<1>1. IsFiniteSet(1..MaxEvents)
  BY FS_Interval, LimitsAssumption
<1> QED
  BY <1>1, SendersAssumption, FS_Product DEF Events

(* ... and so are their subsets, which have a cardinality. *)
LEMMA CountedFinite ==
    /\ IsFiniteSet(InOverflow) /\ Cardinality(InOverflow) \in Nat
    /\ IsFiniteSet(Rejecting) /\ Cardinality(Rejecting) \in Nat
<1>1. InOverflow \subseteq Events /\ Rejecting \subseteq Senders
  BY DEF InOverflow, Rejecting
<1>2. IsFiniteSet(InOverflow) /\ IsFiniteSet(Rejecting)
  BY <1>1, EventsFinite, SendersAssumption, FS_Subset
<1> QED
  BY <1>2, FS_CardinalityType

(* A sender inside saveEventToDB holds an event of its own.                *)
LEMMA EventOfType ==
    ASSUME TypeOK, HeldBySender, NEW s \in Senders, sendPc[s] # "idle"
    PROVE  EventOf(s) \in Events /\ fate[EventOf(s)] = "held"
BY LimitsAssumption DEF TypeOK, HeldBySender, EventOf, Events

-----------------------------------------------------------------------------
(* How each kind of step changes what the counter counts.                  *)

(* A step that moves no event into or out of overflow and no sender into   *)
(* or out of rejection keeps the counter's meaning.                        *)
LEMMA SameCounts ==
    ASSUME SlotsConserved, OverflowBounded,
           InOverflow' = InOverflow, Rejecting' = Rejecting,
           overflowCnt' = overflowCnt
    PROVE  SlotsConserved' /\ OverflowBounded'
BY DEF SlotsConserved, OverflowBounded

(* A step that leaves the channel alone and moves no event into or out of  *)
(* it keeps the channel's meaning.                                         *)
LEMMA SameQueue ==
    ASSUME TypeOK, QueueHolds, queue' = queue,
           \A e \in Events : fate'[e] = "queued" <=> fate[e] = "queued"
    PROVE  QueueHolds'
<1>1. \A i \in 1..Len(queue) : queue[i] \in Events
  BY DEF TypeOK
<1> QED
  BY <1>1 DEF QueueHolds

(* The worker builds a row. *)
LEMMA StampJobStep ==
    ASSUME IInv, StampJob
    PROVE  IInv'
<1> USE LimitsAssumption
<1>0. TypeOK /\ HeldBySender /\ QueueHolds /\ WorkerHolds /\ InTimeTracked
      /\ SlotsConserved /\ OverflowBounded /\ DrainedAtExit
  BY DEF IInv
<1>1. TypeOK'
  BY <1>0 DEF TypeOK, WorkerHolds, Busy, StampJob, WorkerGoto, shutVars, senderVars
<1>2. HeldBySender' /\ QueueHolds' /\ InTimeTracked'
  BY <1>0 DEF HeldBySender, EventOf, QueueHolds, InTimeTracked, StampJob, WorkerGoto, shutVars, senderVars
<1>3. WorkerHolds' /\ DrainedAtExit'
  BY <1>0 DEF WorkerHolds, Busy, QueueHolds, InTimeTracked, DrainedAtExit, TypeOK, StampJob, WorkerGoto, shutVars, senderVars
<1>4. SlotsConserved' /\ OverflowBounded'
  <2>1. InOverflow' = InOverflow /\ Rejecting' = Rejecting /\ overflowCnt' = overflowCnt
    BY DEF InOverflow, Rejecting, StampJob, WorkerGoto, shutVars, senderVars
  <2> QED
    BY <1>0, <2>1, SameCounts
<1> QED
  BY <1>1, <1>2, <1>3, <1>4 DEF IInv

(* The worker turns to draining. *)
LEMMA SeeDoneStep ==
    ASSUME IInv, SeeDone
    PROVE  IInv'
<1> USE LimitsAssumption
<1>0. TypeOK /\ HeldBySender /\ QueueHolds /\ WorkerHolds /\ InTimeTracked
      /\ SlotsConserved /\ OverflowBounded /\ DrainedAtExit
  BY DEF IInv
<1>1. TypeOK'
  BY <1>0 DEF TypeOK, WorkerHolds, Busy, SeeDone, WorkerGoto, shutVars, senderVars
<1>2. HeldBySender' /\ QueueHolds' /\ InTimeTracked'
  BY <1>0 DEF HeldBySender, EventOf, QueueHolds, InTimeTracked, SeeDone, WorkerGoto, shutVars, senderVars
<1>3. WorkerHolds' /\ DrainedAtExit'
  BY <1>0 DEF WorkerHolds, Busy, QueueHolds, InTimeTracked, DrainedAtExit, TypeOK, SeeDone, WorkerGoto, shutVars, senderVars
<1>4. SlotsConserved' /\ OverflowBounded'
  <2>1. InOverflow' = InOverflow /\ Rejecting' = Rejecting /\ overflowCnt' = overflowCnt
    BY DEF InOverflow, Rejecting, SeeDone, WorkerGoto, shutVars, senderVars
  <2> QED
    BY <1>0, <2>1, SameCounts
<1> QED
  BY <1>1, <1>2, <1>3, <1>4 DEF IInv

(* The worker finds the channel empty: whatever was queued in time has gone
   through its hands. *)
LEMMA DrainedStep ==
    ASSUME IInv, Drained
    PROVE  IInv'
<1> USE LimitsAssumption
<1>0. TypeOK /\ HeldBySender /\ QueueHolds /\ WorkerHolds /\ InTimeTracked
      /\ SlotsConserved /\ OverflowBounded /\ DrainedAtExit
  BY DEF IInv
<1>1. TypeOK'
  BY <1>0 DEF TypeOK, WorkerHolds, Busy, Drained, WorkerGoto, shutVars, senderVars
<1>2. HeldBySender' /\ QueueHolds' /\ InTimeTracked'
  BY <1>0 DEF HeldBySender, EventOf, QueueHolds, InTimeTracked, Drained, WorkerGoto, shutVars, senderVars
<1>3. WorkerHolds' /\ DrainedAtExit'
  BY <1>0 DEF WorkerHolds, Busy, QueueHolds, InTimeTracked, DrainedAtExit, TypeOK, Drained, WorkerGoto, shutVars, senderVars
<1>4. SlotsConserved' /\ OverflowBounded'
  <2>1. InOverflow' = InOverflow /\ Rejecting' = Rejecting /\ overflowCnt' = overflowCnt
    BY DEF InOverflow, Rejecting, Drained, WorkerGoto, shutVars, senderVars
  <2> QED
    BY <1>0, <2>1, SameCounts
<1> QED
  BY <1>1, <1>2, <1>3, <1>4 DEF IInv

(* The three steps of the shutdown. *)
LEMMA StopAcceptingStep ==
    ASSUME IInv, StopAccepting
    PROVE  IInv'
<1> USE LimitsAssumption
<1>0. TypeOK /\ HeldBySender /\ QueueHolds /\ WorkerHolds /\ InTimeTracked
      /\ SlotsConserved /\ OverflowBounded /\ DrainedAtExit
  BY DEF IInv
<1>1. TypeOK'
  BY <1>0 DEF TypeOK, WorkerHolds, Busy, StopAccepting, workerVars, senderVars
<1>2. HeldBySender' /\ QueueHolds' /\ InTimeTracked'
  BY <1>0 DEF HeldBySender, EventOf, QueueHolds, InTimeTracked, StopAccepting, workerVars, senderVars
<1>3. WorkerHolds' /\ DrainedAtExit'
  BY <1>0 DEF WorkerHolds, Busy, QueueHolds, InTimeTracked, DrainedAtExit, TypeOK, StopAccepting, workerVars, senderVars
<1>4. SlotsConserved' /\ OverflowBounded'
  <2>1. InOverflow' = InOverflow /\ Rejecting' = Rejecting /\ overflowCnt' = overflowCnt
    BY DEF InOverflow, Rejecting, StopAccepting, workerVars, senderVars
  <2> QED
    BY <1>0, <2>1, SameCounts
<1> QED
  BY <1>1, <1>2, <1>3, <1>4 DEF IInv

(* The cancel fixes which events were queued in time. *)
LEMMA CancelWorkerStep ==
    ASSUME IInv, CancelWorker
    PROVE  IInv'
<1> USE LimitsAssumption
<1>0. TypeOK /\ HeldBySender /\ QueueHolds /\ WorkerHolds /\ InTimeTracked
      /\ SlotsConserved /\ OverflowBounded /\ DrainedAtExit
  BY DEF IInv
<1>1. TypeOK'
  BY <1>0 DEF TypeOK, WorkerHolds, Busy, CancelWorker, workerVars, senderVars
<1>2. HeldBySender' /\ QueueHolds' /\ InTimeTracked'
  BY <1>0 DEF HeldBySender, EventOf, QueueHolds, InTimeTracked, CancelWorker, workerVars, senderVars
<1>3. WorkerHolds' /\ DrainedAtExit'
  BY <1>0 DEF WorkerHolds, Busy, QueueHolds, InTimeTracked, DrainedAtExit, TypeOK, CancelWorker, workerVars, senderVars
<1>4. SlotsConserved' /\ OverflowBounded'
  <2>1. InOverflow' = InOverflow /\ Rejecting' = Rejecting /\ overflowCnt' = overflowCnt
    BY DEF InOverflow, Rejecting, CancelWorker, workerVars, senderVars
  <2> QED
    BY <1>0, <2>1, SameCounts
<1> QED
  BY <1>1, <1>2, <1>3, <1>4 DEF IInv

(* The process ends. *)
LEMMA ProcessExitStep ==
    ASSUME IInv, ProcessExit
    PROVE  IInv'
<1> USE LimitsAssumption
<1>0. TypeOK /\ HeldBySender /\ QueueHolds /\ WorkerHolds /\ InTimeTracked
      /\ SlotsConserved /\ OverflowBounded /\ DrainedAtExit
  BY DEF IInv
<1>1. TypeOK'
  BY <1>0 DEF TypeOK, WorkerHolds, Busy, ProcessExit, workerVars, senderVars
<1>2. HeldBySender' /\ QueueHolds' /\ InTimeTracked'
  BY <1>0 DEF HeldBySender, EventOf, QueueHolds, InTimeTracked, ProcessExit, workerVars, senderVars
<1>3. WorkerHolds' /\ DrainedAtExit'
  BY <1>0 DEF WorkerHolds, Busy, QueueHolds, InTimeTracked, DrainedAtExit, TypeOK, ProcessExit, workerVars, senderVars
<1>4. SlotsConserved' /\ OverflowBounded'
  <2>1. InOverflow' = InOverflow /\ Rejecting' = Rejecting /\ overflowCnt' = overflowCnt
    BY DEF InOverflow, Rejecting, ProcessExit, workerVars, senderVars
  <2> QED
    BY <1>0, <2>1, SameCounts
<1> QED
  BY <1>1, <1>2, <1>3, <1>4 DEF IInv

(* A sender takes a new event, which was nowhere before. *)
LEMMA SnapshotStep ==
    ASSUME IInv, NEW s \in Senders, Snapshot(s)
    PROVE  IInv'
<1> USE LimitsAssumption
<1>0. TypeOK /\ HeldBySender /\ QueueHolds /\ WorkerHolds /\ InTimeTracked
      /\ SlotsConserved /\ OverflowBounded /\ DrainedAtExit
  BY DEF IInv
<1> DEFINE new == <<s, emitted[s] + 1>>
<1>h. new \in Events /\ fate[new] = "unsent"
  <2>1. emitted[s] \in 0..MaxEvents /\ emitted[s] < MaxEvents
    BY <1>0 DEF TypeOK, Snapshot
  <2>2. new \in Events /\ new[1] = s /\ new[2] = emitted[s] + 1
    BY <2>1 DEF Events
  <2> QED
    BY <1>0, <2>1, <2>2 DEF HeldBySender
<1>1. TypeOK'
  BY <1>0, <1>h DEF TypeOK, Fates, Snapshot, SetFate, shutVars, workerVars
<1>2. HeldBySender'
  BY <1>0, <1>h DEF TypeOK, HeldBySender, EventOf, Events, Snapshot, SetFate, shutVars, workerVars
<1>3. QueueHolds'
  <2>1. \A e \in Events : fate'[e] = "queued" <=> fate[e] = "queued"
    BY <1>0, <1>h DEF TypeOK, Snapshot, SetFate
  <2> QED
    BY <1>0, <2>1, SameQueue DEF Snapshot
<1>4. WorkerHolds' /\ InTimeTracked' /\ DrainedAtExit'
  BY <1>0, <1>h DEF TypeOK, WorkerHolds, Busy, InTimeTracked, DrainedAtExit, Snapshot, SetFate, shutVars, workerVars
<1>5. SlotsConserved' /\ OverflowBounded'
  <2>1. InOverflow' = InOverflow /\ Rejecting' = Rejecting /\ overflowCnt' = overflowCnt
    BY <1>0, <1>h DEF TypeOK, InOverflow, Rejecting, Snapshot, SetFate, shutVars, workerVars
  <2> QED
    BY <1>0, <2>1, SameCounts
<1> QED
  BY <1>1, <1>2, <1>3, <1>4, <1>5 DEF IInv

(* The send succeeds. *)
LEMMA EnqueueStep ==
    ASSUME IInv, NEW s \in Senders, Enqueue(s)
    PROVE  IInv'
<1> USE LimitsAssumption
<1>0. TypeOK /\ HeldBySender /\ QueueHolds /\ WorkerHolds /\ InTimeTracked
      /\ SlotsConserved /\ OverflowBounded /\ DrainedAtExit
  BY DEF IInv
<1>h. EventOf(s) \in Events /\ fate[EventOf(s)] = "held"
  BY <1>0, EventOfType DEF Enqueue
<1>1. TypeOK'
  BY <1>0, <1>h DEF TypeOK, Fates, Enqueue, SetFate, SendGoto, shutVars, workerVars
<1>2. HeldBySender'
  BY <1>0, <1>h DEF TypeOK, HeldBySender, EventOf, Events, Enqueue, SetFate, SendGoto, shutVars, workerVars
<1>3. QueueHolds'
  BY <1>0, <1>h DEF TypeOK, QueueHolds, Enqueue, SetFate, SendGoto, shutVars, workerVars
<1>4. WorkerHolds' /\ InTimeTracked' /\ DrainedAtExit'
  BY <1>0, <1>h DEF TypeOK, WorkerHolds, Busy, InTimeTracked, DrainedAtExit, Enqueue, SetFate, SendGoto, shutVars, workerVars
<1>5. SlotsConserved' /\ OverflowBounded'
  <2>1. InOverflow' = InOverflow /\ Rejecting' = Rejecting /\ overflowCnt' = overflowCnt
    BY <1>0, <1>h DEF TypeOK, InOverflow, Rejecting, Enqueue, SetFate, SendGoto, shutVars, workerVars
  <2> QED
    BY <1>0, <2>1, SameCounts
<1> QED
  BY <1>1, <1>2, <1>3, <1>4, <1>5 DEF IInv

(* The channel is full: the claim either starts a goroutine or is about to
   be undone, and counts once either way. *)
LEMMA OverflowStepInv ==
    ASSUME IInv, NEW s \in Senders, Overflow(s)
    PROVE  IInv'
<1> USE LimitsAssumption
<1>0. TypeOK /\ HeldBySender /\ QueueHolds /\ WorkerHolds /\ InTimeTracked
      /\ SlotsConserved /\ OverflowBounded /\ DrainedAtExit
  BY DEF IInv
<1>h. EventOf(s) \in Events /\ fate[EventOf(s)] = "held"
  BY <1>0, EventOfType DEF Overflow
<1>1. TypeOK'
  <2>1. overflowCnt' \in Nat /\ emitted' = emitted
    BY <1>0 DEF TypeOK, Overflow, SendGoto
  <2>2. fate' \in [Events -> Fates]
    BY <1>0, <1>h DEF TypeOK, Fates, Overflow, SetFate
  <2>3. sendPc' \in [Senders -> {"idle", "send", "reject"}]
    BY <1>0 DEF TypeOK, Overflow, SendGoto
  <2> QED
    BY <1>0, <2>1, <2>2, <2>3 DEF TypeOK, Overflow, shutVars, workerVars
<1>2. HeldBySender'
  <2>1. emitted' = emitted /\ \A e \in Events : fate'[e] # fate[e] => e = EventOf(s)
    BY <1>0, <1>h DEF TypeOK, Overflow, SetFate, SendGoto
  <2>2. EventOf(s)[1] = s /\ EventOf(s)[2] = emitted[s]
    BY DEF EventOf
  <2>3. emitted[s] \in Nat
    BY <1>0 DEF TypeOK
  <2>4. \A e \in Events : e[2] > emitted'[e[1]] => fate'[e] = "unsent"
    BY <1>0, <2>1, <2>2, <2>3 DEF HeldBySender
  <2>5. ASSUME NEW t \in Senders, sendPc'[t] # "idle"
        PROVE  emitted'[t] > 0 /\ fate'[EventOf(t)'] = "held"
    <3>1. sendPc[t] # "idle" /\ (t = s => fate' = fate)
      BY <1>0, <2>5 DEF TypeOK, Overflow, SendGoto, SetFate
    <3>2. EventOf(t)' = EventOf(t) /\ EventOf(t) \in Events /\ EventOf(t)[1] = t
      BY <1>0, <2>1, <3>1, EventOfType DEF EventOf
    <3> QED
      BY <1>0, <2>1, <2>2, <3>1, <3>2 DEF HeldBySender
  <2> QED
    BY <2>4, <2>5 DEF HeldBySender
<1>3. QueueHolds'
  BY <1>0, <1>h DEF TypeOK, QueueHolds, Overflow, SetFate, SendGoto, shutVars, workerVars
<1>4. WorkerHolds' /\ InTimeTracked' /\ DrainedAtExit'
  BY <1>0, <1>h DEF TypeOK, WorkerHolds, Busy, InTimeTracked, DrainedAtExit, Overflow, SetFate, SendGoto, shutVars, workerVars
<1>5. SlotsConserved' /\ OverflowBounded'
  <2>0. IsFiniteSet(InOverflow) /\ Cardinality(InOverflow) \in Nat
        /\ IsFiniteSet(Rejecting) /\ Cardinality(Rejecting) \in Nat
    BY CountedFinite
  <2>1. CASE overflowCnt + 1 <= MaxOverflow
    <3>1. InOverflow' = InOverflow \cup {EventOf(s)} /\ EventOf(s) \notin InOverflow
      BY <1>0, <1>h, <2>1 DEF TypeOK, InOverflow, Overflow, SetFate, SendGoto, shutVars, workerVars
    <3>2. Rejecting' = Rejecting
      BY <1>0, <2>1 DEF TypeOK, Rejecting, Overflow, SetFate, SendGoto, shutVars, workerVars
    <3>3. Cardinality(InOverflow') = Cardinality(InOverflow) + 1
      BY <2>0, <3>1, FS_AddElement
    <3> QED
      BY <1>0, <2>0, <2>1, <3>2, <3>3 DEF SlotsConserved, OverflowBounded, Overflow
  <2>2. CASE ~(overflowCnt + 1 <= MaxOverflow)
    <3>1. InOverflow' = InOverflow
      BY <2>2 DEF InOverflow, Overflow, SetFate, SendGoto, shutVars, workerVars
    <3>2. Rejecting' = Rejecting \cup {s} /\ s \notin Rejecting
      BY <1>0, <2>2 DEF TypeOK, Rejecting, Overflow, SetFate, SendGoto, shutVars, workerVars
    <3>3. Cardinality(Rejecting') = Cardinality(Rejecting) + 1
      BY <2>0, <3>2, FS_AddElement
    <3> QED
      BY <1>0, <2>0, <3>1, <3>3 DEF SlotsConserved, OverflowBounded, Overflow
  <2> QED
    BY <2>1, <2>2
<1> QED
  BY <1>1, <1>2, <1>3, <1>4, <1>5 DEF IInv

(* The claim is undone. *)
LEMMA RejectStep ==
    ASSUME IInv, NEW s \in Senders, Reject(s)
    PROVE  IInv'
<1> USE LimitsAssumption
<1>0. TypeOK /\ HeldBySender /\ QueueHolds /\ WorkerHolds /\ InTimeTracked
      /\ SlotsConserved /\ OverflowBounded /\ DrainedAtExit
  BY DEF IInv
<1>h. EventOf(s) \in Events /\ fate[EventOf(s)] = "held"
  BY <1>0, EventOfType DEF Reject
<1>c. overflowCnt >= 1
  <2>0. Rejecting # {}
    BY <1>0 DEF Rejecting, Reject
  <2>1. Cardinality(Rejecting) # 0
    BY <2>0, CountedFinite, FS_EmptySet
  <2> QED
    BY <1>0, <2>1, CountedFinite DEF SlotsConserved
<1>1. TypeOK'
  BY <1>0, <1>h, <1>c DEF TypeOK, Fates, Reject, SetFate, SendGoto, shutVars, workerVars
<1>2. HeldBySender'
  BY <1>0, <1>h DEF TypeOK, HeldBySender, EventOf, Events, Reject, SetFate, SendGoto, shutVars, workerVars
<1>3. QueueHolds'
  BY <1>0, <1>h DEF TypeOK, QueueHolds, Reject, SetFate, SendGoto, shutVars, workerVars
<1>4. WorkerHolds' /\ InTimeTracked' /\ DrainedAtExit'
  BY <1>0, <1>h DEF TypeOK, WorkerHolds, Busy, InTimeTracked, DrainedAtExit, Reject, SetFate, SendGoto, shutVars, workerVars
<1>5. SlotsConserved' /\ OverflowBounded'
  <2>0. IsFiniteSet(Rejecting) /\ Cardinality(InOverflow) \in Nat
        /\ Cardinality(Rejecting) \in Nat
    BY CountedFinite
  <2>1. InOverflow' = InOverflow
    BY <1>0, <1>h DEF TypeOK, InOverflow, Reject, SetFate, SendGoto, shutVars, workerVars
  <2>2. Rejecting' = Rejecting \ {s} /\ s \in Rejecting
    BY <1>0 DEF TypeOK, Rejecting, Reject, SetFate, SendGoto, shutVars, workerVars
  <2>3. Cardinality(Rejecting') = Cardinality(Rejecting) - 1
    BY <2>0, <2>2, FS_RemoveElement
  <2> QED
    BY <1>0, <2>0, <2>1, <2>3 DEF SlotsConserved, OverflowBounded, Reject
<1> QED
  BY <1>1, <1>2, <1>3, <1>4, <1>5 DEF IInv

(* An overflow goroutine builds its row. *)
LEMMA OverflowStampStep ==
    ASSUME IInv, NEW e \in Events, OverflowStamp(e)
    PROVE  IInv'
<1> USE LimitsAssumption
<1>0. TypeOK /\ HeldBySender /\ QueueHolds /\ WorkerHolds /\ InTimeTracked
      /\ SlotsConserved /\ OverflowBounded /\ DrainedAtExit
  BY DEF IInv
<1>1. TypeOK'
  BY <1>0 DEF TypeOK, Fates, OverflowStamp, SetFate, shutVars, workerVars, senderVars
<1>2. HeldBySender'
  BY <1>0 DEF TypeOK, HeldBySender, EventOf, Events, OverflowStamp, SetFate, shutVars, workerVars, senderVars
<1>3. QueueHolds'
  BY <1>0 DEF TypeOK, QueueHolds, OverflowStamp, SetFate, shutVars, workerVars, senderVars
<1>4. WorkerHolds' /\ InTimeTracked' /\ DrainedAtExit'
  BY <1>0 DEF TypeOK, WorkerHolds, Busy, InTimeTracked, DrainedAtExit, OverflowStamp, SetFate, shutVars, workerVars, senderVars
<1>5. SlotsConserved' /\ OverflowBounded'
  <2>1. InOverflow' = InOverflow /\ Rejecting' = Rejecting /\ overflowCnt' = overflowCnt
    BY <1>0 DEF TypeOK, InOverflow, Rejecting, OverflowStamp, SetFate, shutVars, workerVars, senderVars
  <2> QED
    BY <1>0, <2>1, SameCounts
<1> QED
  BY <1>1, <1>2, <1>3, <1>4, <1>5 DEF IInv

(* An overflow goroutine has written its row and returns its slot. *)
LEMMA OverflowSaveStep ==
    ASSUME IInv, NEW e \in Events, OverflowSave(e)
    PROVE  IInv'
<1> USE LimitsAssumption
<1>0. TypeOK /\ HeldBySender /\ QueueHolds /\ WorkerHolds /\ InTimeTracked
      /\ SlotsConserved /\ OverflowBounded /\ DrainedAtExit
  BY DEF IInv
<1>c. overflowCnt >= 1
  <2>0. InOverflow # {}
    BY <1>0 DEF InOverflow, OverflowSave
  <2>1. Cardinality(InOverflow) # 0
    BY <2>0, CountedFinite, FS_EmptySet
  <2> QED
    BY <1>0, <2>1, CountedFinite DEF SlotsConserved
<1>1. TypeOK'
  BY <1>0, <1>c DEF TypeOK, Fates, OverflowSave, SetFate, shutVars, workerVars, senderVars
<1>2. HeldBySender'
  BY <1>0 DEF TypeOK, HeldBySender, EventOf, Events, OverflowSave, SetFate, shutVars, workerVars, senderVars
<1>3. QueueHolds'
  BY <1>0 DEF TypeOK, QueueHolds, OverflowSave, SetFate, shutVars, workerVars, senderVars
<1>4. WorkerHolds' /\ InTimeTracked' /\ DrainedAtExit'
  BY <1>0 DEF TypeOK, WorkerHolds, Busy, InTimeTracked, DrainedAtExit, OverflowSave, SetFate, shutVars, workerVars, senderVars
<1>5. SlotsConserved' /\ OverflowBounded'
  <2>0. IsFiniteSet(InOverflow) /\ Cardinality(InOverflow) \in Nat
        /\ Cardinality(Rejecting) \in Nat
    BY CountedFinite
  <2>1. InOverflow' = InOverflow \ {e} /\ e \in InOverflow
    BY <1>0 DEF TypeOK, InOverflow, OverflowSave, SetFate, shutVars, workerVars, senderVars
  <2>2. Rejecting' = Rejecting
    BY DEF Rejecting, OverflowSave, SetFate, shutVars, workerVars, senderVars
  <2>3. Cardinality(InOverflow') = Cardinality(InOverflow) - 1
    BY <2>0, <2>1, FS_RemoveElement
  <2> QED
    BY <1>0, <2>0, <2>2, <2>3 DEF SlotsConserved, OverflowBounded, OverflowSave
<1> QED
  BY <1>1, <1>2, <1>3, <1>4, <1>5 DEF IInv

(* The worker takes the oldest event out of the channel. *)
LEMMA TakeJobStep ==
    ASSUME IInv, TakeJob
    PROVE  IInv'
<1> USE LimitsAssumption
<1>0. TypeOK /\ HeldBySender /\ QueueHolds /\ WorkerHolds /\ InTimeTracked
      /\ SlotsConserved /\ OverflowBounded /\ DrainedAtExit
  BY DEF IInv
<1>h. Head(queue) = queue[1] /\ Head(queue) \in Events /\ fate[Head(queue)] = "queued"
  BY <1>0 DEF TypeOK, QueueHolds, TakeJob
<1>1. TypeOK'
  BY <1>0, <1>h DEF TypeOK, Fates, TakeJob, SetFate, shutVars, senderVars
<1>2. HeldBySender'
  BY <1>0, <1>h DEF TypeOK, HeldBySender, EventOf, Events, TakeJob, SetFate, shutVars, senderVars
<1>3. QueueHolds'
  <2>1. /\ Len(queue') = Len(queue) - 1
        /\ \A i \in 1..Len(queue') : i + 1 \in 1..Len(queue) /\ queue'[i] = queue[i + 1]
    BY <1>0 DEF TypeOK, TakeJob
  <2>2. \A e \in Events : e # Head(queue) => fate'[e] = fate[e]
    BY <1>0 DEF TypeOK, TakeJob, SetFate
  <2>3. fate'[Head(queue)] = "worker"
    BY <1>0, <1>h DEF TypeOK, TakeJob, SetFate
  <2>4. \A i \in 1..Len(queue) : queue[i] \in Events /\ (i # 1 => queue[i] # Head(queue))
    BY <1>0, <1>h DEF TypeOK, QueueHolds
  <2>5. Len(queue) \in Nat
    BY <1>0 DEF TypeOK
  <2>6. \A i \in 1..Len(queue') : fate'[queue'[i]] = "queued"
    BY <1>0, <2>1, <2>2, <2>4, <2>5 DEF QueueHolds
  <2>7. \A i, j \in 1..Len(queue') : queue'[i] = queue'[j] => i = j
    BY <1>0, <2>1, <2>5 DEF QueueHolds
  <2>8. ASSUME NEW e \in Events, fate'[e] = "queued"
        PROVE  \E i \in 1..Len(queue') : queue'[i] = e
    <3>1. e # Head(queue) /\ fate[e] = "queued"
      BY <2>2, <2>3, <2>8
    <3>2. PICK i \in 1..Len(queue) : queue[i] = e
      BY <1>0, <3>1 DEF QueueHolds
    <3>3. i # 1
      BY <1>h, <3>1, <3>2
    <3>4. i - 1 \in 1..Len(queue') /\ queue'[i - 1] = e
      BY <2>1, <2>5, <3>2, <3>3
    <3> QED
      BY <3>4
  <2> QED
    BY <2>6, <2>7, <2>8 DEF QueueHolds
<1>4. WorkerHolds' /\ InTimeTracked' /\ DrainedAtExit'
  BY <1>0, <1>h DEF TypeOK, WorkerHolds, Busy, InTimeTracked, DrainedAtExit, TakeJob, SetFate, shutVars, senderVars
<1>5. SlotsConserved' /\ OverflowBounded'
  <2>1. InOverflow' = InOverflow /\ Rejecting' = Rejecting /\ overflowCnt' = overflowCnt
    BY <1>0, <1>h DEF TypeOK, InOverflow, Rejecting, TakeJob, SetFate, shutVars, senderVars
  <2> QED
    BY <1>0, <2>1, SameCounts
<1> QED
  BY <1>1, <1>2, <1>3, <1>4, <1>5 DEF IInv

(* The worker has handed its event to the database. *)
LEMMA SaveJobStep ==
    ASSUME IInv, SaveJob
    PROVE  IInv'
<1> USE LimitsAssumption
<1>0. TypeOK /\ HeldBySender /\ QueueHolds /\ WorkerHolds /\ InTimeTracked
      /\ SlotsConserved /\ OverflowBounded /\ DrainedAtExit
  BY DEF IInv
<1>h. job \in Events /\ fate[job] = "worker"
  BY <1>0 DEF WorkerHolds, Busy, SaveJob
<1>1. TypeOK'
  BY <1>0, <1>h DEF TypeOK, Fates, SaveJob, SetFate, shutVars, senderVars
<1>2. HeldBySender'
  BY <1>0, <1>h DEF TypeOK, HeldBySender, EventOf, Events, SaveJob, SetFate, shutVars, senderVars
<1>3. QueueHolds'
  BY <1>0, <1>h DEF TypeOK, QueueHolds, SaveJob, SetFate, shutVars, senderVars
<1>4. WorkerHolds' /\ InTimeTracked' /\ DrainedAtExit'
  BY <1>0, <1>h DEF TypeOK, WorkerHolds, Busy, InTimeTracked, DrainedAtExit, SaveJob, SetFate, shutVars, senderVars
<1>5. SlotsConserved' /\ OverflowBounded'
  <2>1. InOverflow' = InOverflow /\ Rejecting' = Rejecting /\ overflowCnt' = overflowCnt
    BY <1>0, <1>h DEF TypeOK, InOverflow, Rejecting, SaveJob, SetFate, shutVars, senderVars
  <2> QED
    BY <1>0, <2>1, SameCounts
<1> QED
  BY <1>1, <1>2, <1>3, <1>4, <1>5 DEF IInv

-----------------------------------------------------------------------------
(* The invariant holds when the worker starts. *)
LEMMA InitInv == ASSUME Init PROVE IInv
<1> USE LimitsAssumption
<1>0. TypeOK
  <2>1. queue \in Seq(Events) /\ stamped \in Seq(Events) /\ Len(queue) = 0
    BY DEF Init
  <2>2. fate \in [Events -> Fates]
    BY DEF Init, Fates
  <2>3. emitted \in [Senders -> 0..MaxEvents]
    BY DEF Init
  <2>4. job \in Events \cup {NoEvent}
    BY DEF Init
  <2>5. sendPc \in [Senders -> {"idle", "send", "reject"}]
    BY DEF Init
  <2>6. /\ accepting \in BOOLEAN /\ ctxDone \in BOOLEAN /\ up \in BOOLEAN
        /\ overflowCnt \in Nat /\ inTime \subseteq Events
    BY DEF Init
  <2>7. workerPc \in {"wait", "stamp", "save", "drain", "drainStamp", "drainSave", "exit"}
    BY DEF Init
  <2> QED
    BY <2>1, <2>2, <2>3, <2>4, <2>5, <2>6, <2>7 DEF TypeOK
<1>1. HeldBySender /\ QueueHolds /\ WorkerHolds /\ InTimeTracked /\ DrainedAtExit
  BY DEF Init, HeldBySender, QueueHolds, WorkerHolds, Busy, InTimeTracked, DrainedAtExit
<1>2. InOverflow = {} /\ Rejecting = {}
  BY DEF Init, InOverflow, Rejecting
<1>3. SlotsConserved /\ OverflowBounded
  BY <1>2, FS_EmptySet DEF Init, SlotsConserved, OverflowBounded
<1> QED
  BY <1>0, <1>1, <1>3 DEF IInv

(* ... and is about nothing but the variables. *)
LEMMA StutterInv == ASSUME IInv, UNCHANGED vars PROVE IInv'
<1> USE DEF vars, shutVars, senderVars, workerVars
<1>1. TypeOK' /\ HeldBySender' /\ QueueHolds' /\ WorkerHolds' /\ InTimeTracked' /\ DrainedAtExit'
  BY DEF IInv, TypeOK, HeldBySender, EventOf, QueueHolds, WorkerHolds, InTimeTracked, DrainedAtExit
<1>2. InOverflow' = InOverflow /\ Rejecting' = Rejecting /\ overflowCnt' = overflowCnt
  BY DEF InOverflow, Rejecting
<1>3. SlotsConserved' /\ OverflowBounded'
  BY <1>2, SameCounts DEF IInv
<1> QED
  BY <1>1, <1>3 DEF IInv

(* The inductive invariant of the event log holds in every reachable       *)
(* state: every event is with exactly one of its sender, the channel, the  *)
(* worker or an overflow goroutine, and the counter counts the claims.     *)
THEOREM Invariance == Spec => []IInv
<1>1. Init => IInv
  BY InitInv
<1>2. IInv /\ [Next]_vars => IInv'
  <2> SUFFICES ASSUME IInv, [Next]_vars PROVE IInv'
    OBVIOUS
  <2>1. CASE UNCHANGED vars
    BY <2>1, StutterInv
  <2>2. ASSUME NEW s \in Senders, SenderStep(s) PROVE IInv'
    BY <2>2, SnapshotStep, EnqueueStep, OverflowStepInv, RejectStep DEF SenderStep
  <2>3. ASSUME NEW e \in Events, OverflowStep(e) PROVE IInv'
    BY <2>3, OverflowStampStep, OverflowSaveStep DEF OverflowStep
  <2>4. CASE WorkerStep
    BY <2>4, TakeJobStep, StampJobStep, SaveJobStep, SeeDoneStep, DrainedStep DEF WorkerStep
  <2>5. CASE ShutdownStep
    BY <2>5, StopAcceptingStep, CancelWorkerStep, ProcessExitStep DEF ShutdownStep
  <2> QED
    BY <2>1, <2>2, <2>3, <2>4, <2>5 DEF Next
<1> QED
  BY <1>1, <1>2, PTL DEF Spec

(* saveEventToDB never has more than maxOverflow goroutines in flight, for *)
(* any number of concurrent senders.                                       *)
THEOREM OverflowLimit == Spec => []OverflowBounded
<1>1. IInv => OverflowBounded
  BY DEF IInv
<1> QED
  BY <1>1, Invariance, PTL

(* overflowCnt counts the goroutines in flight and the claims being        *)
(* undone, so it returns to zero after every burst.                        *)
THEOREM NoSlotLost == Spec => []SlotsConserved
<1>1. IInv => SlotsConserved
  BY DEF IInv
<1> QED
  BY <1>1, Invariance, PTL

(* When the worker has left, every event that was in the channel before    *)
(* the cancel has been handed to the database.                             *)
THEOREM ShutdownDrains == Spec => []DrainedAtExit
<1>1. IInv => DrainedAtExit
  BY DEF IInv
<1> QED
  BY <1>1, Invariance, PTL

-----------------------------------------------------------------------------
(* The order of the log *)

(* A step that stamps nothing, queues nothing in time and hands nothing on. *)
OrderKept ==
    /\ queue' = queue /\ stamped' = stamped /\ inTime' = inTime
    /\ \A e \in Events :
          \/ fate'[e] \in {"unsent", "held", "queued", "overflow"}
          \/ fate'[e] = "worker" /\ workerPc' \in {"stamp", "drainStamp"}
          =>
          \/ fate[e] \in {"unsent", "held", "queued", "overflow"}
          \/ fate[e] = "worker" /\ workerPc \in {"stamp", "drainStamp"}
    /\ \A e \in inTime : fate'[e] = fate[e]

LEMMA OrderKeptInv == ASSUME TypeOK, OrderInv, OrderKept PROVE OrderInv'
<1>1. NotYetStamped'
  BY DEF OrderInv, NotYetStamped, OrderKept
<1>2. InTurn'
  BY DEF OrderInv, InTurn, OrderKept
<1>3. QueuedInOrder'
  BY DEF OrderInv, QueuedInOrder, Before, OrderKept
<1> QED
  BY <1>1, <1>2, <1>3 DEF OrderInv

(* An event that is still its sender's was not queued in time.             *)
LEMMA NotInTime ==
    ASSUME IInv, NEW e \in Events, fate[e] \notin {"queued", "worker", "tried"}
    PROVE  e \notin inTime
  BY DEF IInv, InTimeTracked

LEMMA SnapshotOrder ==
    ASSUME IInv, OrderInv, NEW s \in Senders, Snapshot(s)
    PROVE  OrderInv'
<1> USE LimitsAssumption
<1>1. TypeOK /\ <<s, emitted[s] + 1>> \in Events /\ fate[<<s, emitted[s] + 1>>] = "unsent"
  <2>1. TypeOK /\ HeldBySender
    BY DEF IInv
  <2>2. emitted[s] \in Nat /\ emitted[s] + 1 \in 1..MaxEvents
    BY <2>1 DEF TypeOK, Snapshot
  <2>3. <<s, emitted[s] + 1>> \in Events
    BY <2>2 DEF Events
  <2> QED
    BY <2>1, <2>2, <2>3 DEF HeldBySender
<1>2. PICK e \in Events : e = <<s, emitted[s] + 1>>
  BY <1>1
<1>3. e \notin inTime
  BY <1>1, <1>2, NotInTime
<1>4. /\ \A f \in Events \ {e} : fate'[f] = fate[f]
      /\ queue' = queue /\ stamped' = stamped /\ inTime' = inTime /\ workerPc' = workerPc
  BY <1>1, <1>2 DEF Snapshot, SetFate, TypeOK, workerVars
<1>5. OrderKept
  BY <1>1, <1>2, <1>3, <1>4 DEF OrderKept, TypeOK
<1> QED
  BY <1>1, <1>5, OrderKeptInv

LEMMA EnqueueOrder ==
    ASSUME IInv, OrderInv, NEW s \in Senders, Enqueue(s)
    PROVE  OrderInv'
<1> USE LimitsAssumption
<1>0. TypeOK /\ HeldBySender /\ QueueHolds /\ InTimeTracked
  BY DEF IInv
<1>1. EventOf(s) \in Events /\ fate[EventOf(s)] = "held"
  BY <1>0, EventOfType DEF Enqueue
<1>2. PICK e \in Events : e = EventOf(s)
  BY <1>1
<1>3. /\ \A f \in Events \ {e} : fate'[f] = fate[f]
      /\ fate'[e] = "queued" /\ fate[e] = "held" /\ stamped' = stamped /\ workerPc' = workerPc
      /\ inTime' \subseteq inTime \cup {e} /\ queue' = Append(queue, e)
  BY <1>0, <1>1, <1>2 DEF Enqueue, SetFate, TypeOK, workerVars
<1>4. inTime \subseteq Events /\ e \notin inTime
  BY <1>0, <1>3, NotInTime DEF TypeOK
<1>5. \A f \in inTime : f[1] = e[1] => f[2] < e[2]
  <2> SUFFICES ASSUME NEW f \in inTime, f[1] = e[1] PROVE f[2] < e[2]
    OBVIOUS
  <2>1. f \in Events /\ fate[f] # "unsent" /\ e[1] = s /\ e[2] = emitted[s]
    BY <1>0, <1>2, <1>4 DEF InTimeTracked, EventOf
  <2>2. f[2] <= emitted[s] /\ f[2] \in Nat /\ emitted[s] \in Nat
    BY <1>0, <2>1 DEF HeldBySender, TypeOK, Events
  <2>3. f[2] # e[2]
    BY <1>4, <2>1 DEF Events
  <2> QED
    BY <2>1, <2>2, <2>3
<1>6. NotYetStamped'
  BY <1>3 DEF OrderInv, NotYetStamped
<1>7. InTurn'
  <2> SUFFICES ASSUME NEW d \in inTime', NEW f \in inTime', d[1] = f[1], d[2] < f[2]
               PROVE  /\ fate'[f] \in {"worker", "tried"} => fate'[d] = "tried"
                      /\ \A i, j \in DOMAIN queue' : queue'[i] = d /\ queue'[j] = f => i < j
    BY DEF InTurn
  <2>1. d \in inTime
    <3>1. d # e
      <4>1. d = e /\ f \in inTime => FALSE
        BY <1>4, <1>5 DEF Events
      <4>2. d = e /\ f = e => FALSE
        BY DEF Events
      <4> QED
        BY <1>3, <4>1, <4>2
    <3> QED
      BY <1>3, <3>1
  <2>2. queue \in Seq(Events) /\ DOMAIN queue' = 1..(Len(queue) + 1) /\ DOMAIN queue = 1..Len(queue) /\ Len(queue) \in Nat
        /\ queue'[Len(queue) + 1] = e /\ \A i \in 1..Len(queue) : queue'[i] = queue[i]
    BY <1>0, <1>3 DEF TypeOK
  <2>3. CASE f = e
    <3>1. \A i \in 1..Len(queue) : queue[i] # e
      BY <1>0, <1>3 DEF QueueHolds
    <3>2. \A i, j \in 1..(Len(queue) + 1) : queue'[i] = d /\ queue'[j] = e => i < j
      BY <1>4, <2>1, <2>2, <3>1
    <3> QED
      BY <1>3, <2>2, <2>3, <3>2
  <2>4. CASE f # e
    <3>1. f \in inTime /\ fate'[f] = fate[f] /\ fate'[d] = fate[d]
      BY <1>3, <1>4, <2>1, <2>4
    <3>2. \A i, j \in DOMAIN queue' : queue'[i] = d /\ queue'[j] = f => i \in DOMAIN queue /\ j \in DOMAIN queue
      BY <1>4, <2>1, <2>2, <2>4
    <3> QED
      BY <2>1, <2>2, <3>1, <3>2 DEF OrderInv, InTurn
  <2> QED
    BY <2>3, <2>4
<1>8. QueuedInOrder'
  <2>1. \A i \in DOMAIN stamped : stamped[i] # e
    BY <1>3 DEF OrderInv, NotYetStamped
  <2> QED
    BY <1>3, <2>1 DEF OrderInv, QueuedInOrder, Before
<1> QED
  BY <1>6, <1>7, <1>8 DEF OrderInv

(* The sender's event goes elsewhere.                                      *)
LEMMA AsideOrder ==
    ASSUME IInv, OrderInv, NEW s \in Senders, Overflow(s) \/ Reject(s)
    PROVE  OrderInv'
<1>1. TypeOK /\ EventOf(s) \in Events /\ fate[EventOf(s)] = "held"
  BY EventOfType DEF IInv, Overflow, Reject
<1>2. PICK e \in Events : e = EventOf(s)
  BY <1>1
<1>3. e \notin inTime
  BY <1>1, <1>2, NotInTime
<1>4. /\ \A f \in Events \ {e} : fate'[f] = fate[f]
      /\ queue' = queue /\ stamped' = stamped /\ inTime' = inTime /\ workerPc' = workerPc
  BY <1>1, <1>2 DEF Overflow, Reject, SetFate, TypeOK, workerVars
<1>5. OrderKept
  BY <1>1, <1>2, <1>3, <1>4 DEF OrderKept, TypeOK
<1> QED
  BY <1>1, <1>5, OrderKeptInv

(* An overflow goroutine stamps an event that was not queued in time.      *)
LEMMA OverflowOrder ==
    ASSUME IInv, OrderInv, NEW e \in Events, OverflowStep(e)
    PROVE  OrderInv'
<1>0. TypeOK /\ e \notin inTime
  BY NotInTime DEF IInv, OverflowStep, OverflowStamp, OverflowSave
<1>1. /\ \A f \in Events \ {e} : fate'[f] = fate[f]
      /\ fate'[e] \in {"overflowRow", "tried"} /\ queue' = queue /\ inTime' = inTime /\ workerPc' = workerPc
  BY <1>0 DEF OverflowStep, OverflowStamp, OverflowSave, SetFate, TypeOK, workerVars
<1>2. CASE OverflowSave(e)
  <2>1. OrderKept
    BY <1>0, <1>1, <1>2 DEF OrderKept, TypeOK, OverflowSave
  <2> QED
    BY <1>0, <2>1, OrderKeptInv
<1>3. CASE OverflowStamp(e)
  <2>1. stamped \in Seq(Events) /\ stamped' = Append(stamped, e)
    BY <1>0, <1>3 DEF TypeOK, OverflowStamp
  <2>2. /\ DOMAIN stamped = 1..Len(stamped) /\ DOMAIN stamped' = 1..(Len(stamped) + 1) /\ Len(stamped) \in Nat
        /\ stamped'[Len(stamped) + 1] = e /\ \A i \in 1..Len(stamped) : stamped'[i] = stamped[i]
    BY <2>1
  <2>3. NotYetStamped'
    BY <1>1, <2>2 DEF OrderInv, NotYetStamped
  <2>4. InTurn'
    BY <1>0, <1>1 DEF OrderInv, InTurn, TypeOK
  <2>5. \A d, f \in inTime : Before(f, d)' => Before(f, d)
    BY <1>0, <2>2 DEF Before
  <2>6. QueuedInOrder'
    BY <1>1, <2>5 DEF OrderInv, QueuedInOrder
  <2> QED
    BY <2>3, <2>4, <2>6 DEF OrderInv
<1> QED
  BY <1>2, <1>3 DEF OverflowStep

(* The worker takes the first event of the channel: none of its sender's   *)
(* earlier ones is still in it.                                            *)
LEMMA TakeOrder ==
    ASSUME IInv, OrderInv, TakeJob
    PROVE  OrderInv'
<1>0. TypeOK /\ QueueHolds /\ InTimeTracked /\ WorkerHolds
  BY DEF IInv
<1>1. /\ queue \in Seq(Events) /\ queue # <<>> /\ Len(queue) \in Nat \ {0} /\ Head(queue) = queue[1] /\ queue[1] \in Events
      /\ DOMAIN queue = 1..Len(queue)
  BY <1>0 DEF TypeOK, TakeJob
<1>2. PICK e \in Events : e = queue[1]
  BY <1>1
<1>3. /\ \A f \in Events \ {e} : fate'[f] = fate[f]
      /\ fate'[e] = "worker" /\ fate[e] = "queued" /\ stamped' = stamped /\ inTime' = inTime
      /\ workerPc' \in {"stamp", "drainStamp"} /\ workerPc \in {"wait", "drain"}
  BY <1>0, <1>1, <1>2 DEF TakeJob, SetFate, TypeOK, QueueHolds
<1>4. DOMAIN queue' = 1..(Len(queue) - 1) /\ \A i \in 1..(Len(queue) - 1) : queue'[i] = queue[i + 1]
  BY <1>1 DEF TakeJob
<1>5. NotYetStamped'
  <2>1. \A f \in Events : fate[f] # "worker"
    BY <1>0, <1>3 DEF WorkerHolds, Busy
  <2> QED
    BY <1>3, <2>1 DEF OrderInv, NotYetStamped
<1>6. InTurn'
  <2> SUFFICES ASSUME NEW d \in inTime, NEW f \in inTime, d[1] = f[1], d[2] < f[2]
               PROVE  /\ fate'[f] \in {"worker", "tried"} => fate'[d] = "tried"
                      /\ \A i, j \in DOMAIN queue' : queue'[i] = d /\ queue'[j] = f => i < j
    BY <1>3 DEF InTurn
  <2>0. d \in Events /\ f \in Events /\ d # f
    BY <1>0 DEF TypeOK, Events
  <2>1. \A i, j \in DOMAIN queue' : queue'[i] = d /\ queue'[j] = f => i < j
    <3> SUFFICES ASSUME NEW i \in 1..(Len(queue) - 1), NEW j \in 1..(Len(queue) - 1), queue'[i] = d, queue'[j] = f
                 PROVE  i < j
      BY <1>4
    <3>1. i + 1 \in DOMAIN queue /\ j + 1 \in DOMAIN queue /\ queue[i + 1] = d /\ queue[j + 1] = f
      BY <1>1, <1>4
    <3>2. i + 1 < j + 1
      BY <3>1 DEF OrderInv, InTurn
    <3> QED
      BY <1>1, <3>2
  <2>2. CASE f = e
    <3>1. fate[d] # "queued"
      <4> SUFFICES ASSUME fate[d] = "queued" PROVE FALSE
        OBVIOUS
      <4>1. PICK i \in 1..Len(queue) : queue[i] = d
        BY <1>0, <2>0 DEF QueueHolds
      <4>2. i < 1
        BY <1>1, <1>2, <2>2, <4>1 DEF OrderInv, InTurn
      <4> QED
        BY <1>1, <4>1, <4>2
    <3>2. fate[d] # "worker"
      BY <1>0, <1>3, <2>0 DEF WorkerHolds, Busy
    <3>3. fate'[d] = "tried"
      BY <1>0, <1>3, <2>0, <2>2, <3>1, <3>2 DEF InTimeTracked
    <3> QED
      BY <2>1, <3>3
  <2>3. CASE f # e
    <3>1. fate'[f] = fate[f] /\ (fate[f] \in {"worker", "tried"} => fate[d] = "tried")
      BY <1>3, <2>0, <2>3 DEF OrderInv, InTurn
    <3> QED
      BY <1>3, <2>0, <2>1, <3>1
  <2> QED
    BY <2>2, <2>3
<1>7. QueuedInOrder'
  BY <1>3 DEF OrderInv, QueuedInOrder, Before
<1> QED
  BY <1>5, <1>6, <1>7 DEF OrderInv

(* The worker stamps its event: a later one of its sender that were stamped *)
(* already would have been saved before its turn.                          *)
LEMMA StampOrder ==
    ASSUME IInv, OrderInv, StampJob
    PROVE  OrderInv'
<1>0. TypeOK /\ InTimeTracked /\ WorkerHolds
  BY DEF IInv
<1>1. job \in Events /\ fate[job] = "worker" /\ workerPc \in {"stamp", "drainStamp"}
  BY <1>0 DEF WorkerHolds, Busy, StampJob
<1>2. /\ stamped \in Seq(Events) /\ stamped' = Append(stamped, job)
      /\ UNCHANGED <<queue, fate, inTime, job>> /\ workerPc' \in {"save", "drainSave"}
  BY <1>0 DEF TypeOK, StampJob, WorkerGoto
<1>3. /\ DOMAIN stamped = 1..Len(stamped) /\ DOMAIN stamped' = 1..(Len(stamped) + 1) /\ Len(stamped) \in Nat
      /\ stamped'[Len(stamped) + 1] = job /\ \A i \in 1..Len(stamped) : stamped'[i] = stamped[i]
  BY <1>2
<1>4. NotYetStamped'
  BY <1>1, <1>2, <1>3 DEF OrderInv, NotYetStamped
<1>5. InTurn'
  BY <1>2 DEF OrderInv, InTurn
<1>6. QueuedInOrder'
  <2> SUFFICES ASSUME NEW d \in inTime, NEW f \in inTime, d[1] = f[1], d[2] < f[2], Before(f, d)'
               PROVE  FALSE
    BY <1>2 DEF QueuedInOrder
  <2>0. d \in Events /\ f \in Events /\ d # f
    BY <1>0 DEF TypeOK, Events
  <2>1. PICK i \in 1..(Len(stamped) + 1), j \in 1..(Len(stamped) + 1) : i < j /\ stamped'[i] = f /\ stamped'[j] = d
    BY <1>3 DEF Before
  <2>2. i \in DOMAIN stamped /\ stamped[i] = f
    BY <1>3, <2>1
  <2>3. CASE j = Len(stamped) + 1
    <3>1. d = job
      BY <1>3, <2>1, <2>3
    <3>2. fate[f] # "queued"
      BY <2>0, <2>2 DEF OrderInv, NotYetStamped
    <3>3. fate[f] # "worker"
      BY <1>0, <1>1, <2>0, <3>1 DEF WorkerHolds
    <3>4. fate[d] = "tried"
      BY <1>0, <3>2, <3>3 DEF InTimeTracked, OrderInv, InTurn
    <3> QED
      BY <1>1, <3>1, <3>4
  <2>4. CASE j # Len(stamped) + 1
    <3>1. j \in DOMAIN stamped /\ stamped[j] = d
      BY <1>3, <2>1, <2>4
    <3> QED
      BY <2>1, <2>2, <3>1 DEF OrderInv, QueuedInOrder, Before
  <2> QED
    BY <2>3, <2>4
<1> QED
  BY <1>4, <1>5, <1>6 DEF OrderInv

LEMMA SaveOrder ==
    ASSUME IInv, OrderInv, SaveJob
    PROVE  OrderInv'
<1>0. TypeOK /\ InTimeTracked /\ WorkerHolds
  BY DEF IInv
<1>1. job \in Events /\ fate[job] = "worker" /\ workerPc \in {"save", "drainSave"}
  BY <1>0 DEF WorkerHolds, Busy, SaveJob
<1>2. /\ \A f \in Events \ {job} : fate'[f] = fate[f]
      /\ fate'[job] = "tried" /\ UNCHANGED <<queue, stamped, inTime>> /\ workerPc' \in {"wait", "drain"}
  BY <1>0, <1>1 DEF TypeOK, SaveJob, SetFate
<1>3. NotYetStamped'
  BY <1>1, <1>2 DEF OrderInv, NotYetStamped
<1>4. InTurn'
  <2>1. inTime \subseteq Events
    BY <1>0 DEF TypeOK
  <2> QED
    BY <1>1, <1>2, <2>1 DEF OrderInv, InTurn
<1>5. QueuedInOrder'
  BY <1>2 DEF OrderInv, QueuedInOrder, Before
<1> QED
  BY <1>3, <1>4, <1>5 DEF OrderInv

LEMMA QuietOrder ==
    ASSUME IInv, OrderInv, SeeDone \/ Drained \/ ShutdownStep \/ UNCHANGED vars
    PROVE  OrderInv'
<1>0. TypeOK
  BY DEF IInv
<1>1. UNCHANGED <<queue, stamped, inTime, fate>>
  BY DEF SeeDone, Drained, ShutdownStep, StopAccepting, CancelWorker, ProcessExit, vars
<1>2. workerPc' = workerPc \/ workerPc' \notin {"stamp", "drainStamp"}
  BY DEF SeeDone, Drained, ShutdownStep, StopAccepting, CancelWorker, ProcessExit, vars, WorkerGoto, workerVars
<1>3. OrderKept
  BY <1>1, <1>2 DEF OrderKept
<1> QED
  BY <1>0, <1>3, OrderKeptInv

(* Events of one sender that went through the channel before the cancel    *)
(* get their CreatedAt in the order they were emitted, whatever the other  *)
(* senders, the overflow goroutines and the shutdown do in between.        *)
THEOREM LogInOrder == Spec => []QueuedInOrder
<1>1. Init => OrderInv
  BY DEF Init, OrderInv, NotYetStamped, InTurn, QueuedInOrder
<1>2. IInv /\ OrderInv /\ [Next]_vars => OrderInv'
  <2> SUFFICES ASSUME IInv, OrderInv, [Next]_vars PROVE OrderInv'
    OBVIOUS
  <2>1. ASSUME NEW s \in Senders, SenderStep(s) PROVE OrderInv'
    BY <2>1, SnapshotOrder, EnqueueOrder, AsideOrder DEF SenderStep
  <2>2. CASE WorkerStep
    BY <2>2, TakeOrder, StampOrder, SaveOrder, QuietOrder DEF WorkerStep
  <2> QED
    BY <2>1, <2>2, OverflowOrder, QuietOrder DEF Next
<1>3. OrderInv => QueuedInOrder
  BY DEF OrderInv
<1> QED
  BY <1>1, <1>2, <1>3, Invariance, PTL DEF Spec
=============================================================================
