--------------------------- MODULE SessionRegistry ---------------------------
(***************************************************************************)
(* The registry of live sessions (session/manager.go), the ways a session  *)
(* is opened, recovered after a restart, deleted and expired, and the      *)
(* database rows and stored report objects that go with it.                *)
(*                                                                         *)
(* One session id is modelled: ids share nothing but Manager.mu.  An       *)
(* object is one *Session built for that id.  Each critical section of     *)
(* Manager.mu and each database statement is one step.  What a run does    *)
(* while it is alive is module RunLifecycle; here an engine saves its      *)
(* report, ends, suspends, or is lost.                                     *)
(***************************************************************************)
EXTENDS Naturals, FiniteSets

CONSTANTS Conns,        \* WebSocket connections of the session's user
          Readers,      \* HTTP requests that recover stale runs before they read
          Deleters,     \* DELETE requests
          Cleaners,     \* the periodic clean-up goroutine, or none
          MaxObjs,      \* bound: Session objects in use at a time
          MaxRuns,      \* bound: runs started
          MaxCrashes,   \* bound: restarts of the server
          MaxAges       \* bound: times the session outlives its TTL untouched

ASSUME RegistryAssumption ==
    /\ MaxObjs \in Nat \ {0} /\ MaxRuns \in Nat
    /\ MaxCrashes \in Nat /\ MaxAges \in Nat
    /\ Conns \cap Readers = {} /\ Deleters \cap Cleaners = {}

NoObj == 0
Objs  == 1..MaxObjs
Runs  == 1..MaxRuns
Procs == Conns \cup Readers
Jobs  == Deleters \cup Cleaners

VARIABLES
    row,      \* the sessions row: "absent", or "fresh" / "old" by its last_seen_at
    live,     \* Manager.sessions[id], or NoObj
    obj,      \* the objects: run slot, LastSeenAt recent, destroyed
    nRuns,    \* runs started so far
    runRow,   \* analysis_runs: status of each run's row
    runObj,   \* the object a run was started on
    engine,   \* runs an engine goroutine is working on
    files,    \* runs whose report has a row in files
    stored,   \* runs whose report has an object in storage
    proc,     \* connections and requests: position and locals
    job,      \* deletions: position and locals
    crashes, ages,
    orphan    \* history: runs that a restart found running or waiting

vars == <<row, live, obj, nRuns, runRow, runObj, engine, files, stored,
          proc, job, crashes, ages, orphan>>

dbVars   == <<row, runRow, files>>
runVars  == <<nRuns, runRow, runObj, engine>>
objVars  == <<live, obj>>
testVars == <<crashes, ages, orphan>>

Unborn  == [st |-> "idle", run |-> 0, seen |-> FALSE, dead |-> FALSE]
NewObj  == [Unborn EXCEPT !.seen = TRUE]
OffProc == [pc |-> "off", obj |-> NoObj, hydrate |-> FALSE, open |-> FALSE,
            run |-> 0, stale |-> {}]
OffJob  == [pc |-> "off", obj |-> NoObj, ids |-> {}, keys |-> {}, expired |-> FALSE]

Unsettled == {"running", "waiting"}

Init ==
    /\ row = "absent" /\ live = NoObj
    /\ obj = [o \in Objs |-> Unborn]
    /\ nRuns = 0
    /\ runRow = [r \in Runs |-> "none"]
    /\ runObj = [r \in Runs |-> NoObj]
    /\ engine = {} /\ files = {} /\ stored = {}
    /\ proc = [p \in Procs |-> OffProc]
    /\ job = [j \in Jobs |-> OffJob]
    /\ crashes = 0 /\ ages = 0 /\ orphan = {}

Goto(p, l)    == proc' = [proc EXCEPT ![p].pc = l]
GotoJob(j, l) == job' = [job EXCEPT ![j].pc = l]

\* CancelRun(""): the active run of the object, if any, is being cancelled.
Cancelled(o) == [o EXCEPT !.st = IF o.run = 0 THEN @ ELSE "cancelling"]

\* Mutant: an upsert, which writes the row of a deleted run anew.
UpdateStatus_Upsert(r, s) == runRow' = [runRow EXCEPT ![r] = s]

\* UPDATE analysis_runs SET status: no effect on a row that is gone.
UpdateStatus(r, s) ==
    runRow' = [runRow EXCEPT ![r] = IF @ \in {"none", "deleted"} THEN @ ELSE s]

---------------------------------------------------------------------------
(* Opening a session.                                                      *)

\* Nothing refers to o any more: its number may stand for a new object.
Unused(o) ==
    /\ o # live
    /\ \A p \in Procs : proc[p].obj # o
    /\ \A j \in Jobs : job[j].obj # o
    /\ \A r \in engine : runObj[r] # o

\* Mutant: an object is built without making sure of its row.
GetOrCreate_NoRow(o) ==
    \/ /\ live # NoObj /\ o = live
       /\ obj' = [obj EXCEPT ![o].seen = TRUE]
       /\ UNCHANGED <<row, live>>
    \/ /\ live = NoObj /\ Unused(o)
       /\ obj' = [obj EXCEPT ![o] = NewObj]
       /\ live' = o /\ row' = IF row = "absent" THEN row ELSE "fresh"

\* Manager.GetOrCreate returns o: the live object, or one built under the lock
\* together with its row.
GetOrCreate(o) ==
    \/ /\ live # NoObj /\ o = live
       /\ obj' = [obj EXCEPT ![o].seen = TRUE]
       /\ UNCHANGED <<row, live>>
    \/ /\ live = NoObj /\ Unused(o)
       /\ obj' = [obj EXCEPT ![o] = NewObj]
       /\ live' = o /\ row' = "fresh"

\* WSHandler, shouldHydrateSessionFromPersistence: Peek, then the row.
ConnPeek(c) ==
    /\ proc[c].pc = "off"
    /\ Goto(c, IF live = NoObj THEN "exists" ELSE "open")
    /\ UNCHANGED <<dbVars, objVars, runVars, stored, job, testVars>>

ConnExists(c) ==
    /\ proc[c].pc = "exists"
    /\ proc' = [proc EXCEPT ![c].pc = "open", ![c].hydrate = row # "absent"]
    /\ UNCHANGED <<dbVars, objVars, runVars, stored, job, testVars>>

ConnOpen(c) ==
    /\ proc[c].pc = "open"
    /\ \E o \in Objs :
         /\ GetOrCreate(o)
         /\ proc' = [proc EXCEPT ![c].obj = o,
                       ![c].pc = IF proc[c].hydrate THEN "recover" ELSE "register"]
    /\ UNCHANGED <<runVars, files, stored, job, testVars>>

\* hydrateSessionFromPersistence, which touches nothing modelled here, and registerWS:
\* from here on CloseSessionWebSockets knows the connection.
ConnRegister(c) ==
    /\ proc[c].pc = "register"
    /\ proc' = [proc EXCEPT ![c].pc = "reading", ![c].open = TRUE, ![c].hydrate = FALSE]
    /\ UNCHANGED <<dbVars, objVars, runVars, stored, job, testVars>>

\* The client goes away, or the read fails because the socket was closed.
ConnEnd(c) ==
    /\ proc[c].pc = "reading"
    /\ proc' = [proc EXCEPT ![c] = OffProc]
    /\ UNCHANGED <<dbVars, objVars, runVars, stored, job, testVars>>

\* A data source or upload request makes the session live without hydrating it.
\* An import does not look for the row first: it may build a deleted session anew.
UseSession(p) ==
    /\ p \in Readers /\ proc[p].pc = "off"
    /\ \E o \in Objs : GetOrCreate(o)
    /\ UNCHANGED <<runVars, files, stored, proc, job, testVars>>

---------------------------------------------------------------------------
(* Recovery of stale runs, by a connection or by a request.                *)

AfterRecovery(p) == IF p \in Conns THEN "register" ELSE "off"

\* GetSession, Bootstrap, ListRuns, GetRun, GetRunReport: the row, then recovery.
ReadBegin(p) ==
    /\ p \in Readers /\ proc[p].pc = "off" /\ row # "absent"
    /\ Goto(p, "recover")
    /\ UNCHANGED <<dbVars, objVars, runVars, stored, job, testVars>>

\* recoverStaleSessionRuns: nothing is done for a session that is live.
RecoverCheck(p) ==
    /\ proc[p].pc = "recover"
    /\ Goto(p, IF live # NoObj THEN AfterRecovery(p) ELSE "list")
    /\ UNCHANGED <<dbVars, objVars, runVars, stored, job, testVars>>

\* Mutant: runs that wait for the user are not looked for.
RecoverList_RunningOnly(p) ==
    LET stale == {r \in Runs : runRow[r] = "running"}
    IN  /\ proc[p].pc = "list"
        /\ proc' = [proc EXCEPT ![p].stale = stale,
                      ![p].pc = IF stale = {} THEN AfterRecovery(p) ELSE "mark"]
        /\ UNCHANGED <<dbVars, objVars, runVars, stored, job, testVars>>

\* ListBySession without a limit, and the status of each run.
RecoverList(p) ==
    LET stale == {r \in Runs : runRow[r] \in Unsettled}
    IN  /\ proc[p].pc = "list"
        /\ proc' = [proc EXCEPT ![p].stale = stale,
                      ![p].pc = IF stale = {} THEN AfterRecovery(p) ELSE "mark"]
        /\ UNCHANGED <<dbVars, objVars, runVars, stored, job, testVars>>

\* recoverStaleRunTree writes by the status it read.
RecoverMark(p) ==
    /\ proc[p].pc = "mark"
    /\ \E r \in proc[p].stale :
         /\ UpdateStatus(r, "failed")
         /\ proc' = [proc EXCEPT ![p].stale = @ \ {r},
                       ![p].pc = IF proc[p].stale = {r} THEN AfterRecovery(p) ELSE "mark"]
    /\ UNCHANGED <<row, files, objVars, nRuns, runObj, engine, stored, job, testVars>>

---------------------------------------------------------------------------
(* Runs.                                                                   *)

\* Mutant: a run that is being cancelled is replaced.
ConnStartRun_OverCancelling(c) ==
    LET o == proc[c].obj
    IN  /\ proc[c].pc = "reading" /\ proc[c].open
        /\ obj[o].st \in {"idle", "cancelling"} /\ nRuns < MaxRuns
        /\ nRuns' = nRuns + 1
        /\ obj' = [obj EXCEPT ![o].st = "running", ![o].run = nRuns']
        /\ runObj' = [runObj EXCEPT ![nRuns'] = o]
        /\ proc' = [proc EXCEPT ![c].pc = "create", ![c].run = nRuns']
        /\ UNCHANGED <<dbVars, live, engine, stored, job, testVars>>

\* A user message on an idle object: StartRun.  A destroyed object is not refused.
ConnStartRun(c) ==
    LET o == proc[c].obj
    IN  /\ proc[c].pc = "reading" /\ proc[c].open
        /\ obj[o].st = "idle" /\ nRuns < MaxRuns
        /\ nRuns' = nRuns + 1
        /\ obj' = [obj EXCEPT ![o].st = "running", ![o].run = nRuns']
        /\ runObj' = [runObj EXCEPT ![nRuns'] = o]
        /\ proc' = [proc EXCEPT ![c].pc = "create", ![c].run = nRuns']
        /\ UNCHANGED <<dbVars, live, engine, stored, job, testVars>>

\* runRepo.Create and go Engine.Run.  Without the session's row the foreign key
\* refuses the run's, and the handler cancels the run it started.
ConnCreateRun(c) ==
    LET r == proc[c].run
        o == proc[c].obj
    IN  /\ proc[c].pc = "create"
        /\ \/ /\ row # "absent"
              /\ runRow' = [runRow EXCEPT ![r] = "running"]
              /\ engine' = engine \cup {r}
              /\ UNCHANGED obj
           \/ /\ row = "absent"
              /\ obj' = [obj EXCEPT ![o] = Cancelled(@)]
              /\ UNCHANGED <<runRow, engine>>
        /\ proc' = [proc EXCEPT ![c].pc = "reading", ![c].run = 0]
        /\ UNCHANGED <<row, files, live, nRuns, runObj, stored, job, testVars>>

\* A user message on a waiting object: ConsumeWaitingRun and a new engine.
ConnReply(c) ==
    LET o == proc[c].obj
    IN  /\ proc[c].pc = "reading" /\ proc[c].open
        /\ obj[o].st = "waiting"
        /\ obj' = [obj EXCEPT ![o].st = "running"]
        /\ UpdateStatus(obj[o].run, "running")
        /\ engine' = engine \cup {obj[o].run}
        /\ UNCHANGED <<row, files, live, nRuns, runObj, stored, proc, job, testVars>>

\* FinishRun frees the slot the run holds.
FinishRun(r) ==
    LET o == runObj[r]
    IN  obj' = IF obj[o].run = r
               THEN [obj EXCEPT ![o].st = "idle", ![o].run = 0]
               ELSE obj

\* SaveReportHTML and BindReportFile, also under a cancel that comes after the tool
\* call; without the run's row they undo themselves.
EngineSave(r) ==
    /\ r \in engine \ files
    /\ runRow[r] \notin {"none", "deleted"}
    /\ files' = files \cup {r} /\ stored' = stored \cup {r}
    /\ UNCHANGED <<row, runRow, objVars, nRuns, runObj, engine, proc, job, testVars>>

\* A terminal event: the run completes, fails, or notices that it was cancelled.
EngineEnd(r) ==
    /\ r \in engine
    /\ FinishRun(r)
    /\ UpdateStatus(r, "ended")
    /\ engine' = engine \ {r}
    /\ UNCHANGED <<row, files, live, nRuns, runObj, stored, proc, job, testVars>>

EngineSuspend(r) ==
    /\ r \in engine /\ obj[runObj[r]].st = "running"
    /\ obj' = [obj EXCEPT ![runObj[r]].st = "waiting"]
    /\ UpdateStatus(r, "waiting")
    /\ engine' = engine \ {r}
    /\ UNCHANGED <<row, files, live, nRuns, runObj, stored, proc, job, testVars>>

\* A tool call that ends under a cancelled context: no event, no FinishRun.
EngineLost(r) ==
    /\ r \in engine /\ obj[runObj[r]].st = "cancelling"
    /\ engine' = engine \ {r}
    /\ UNCHANGED <<dbVars, objVars, nRuns, runObj, stored, proc, job, testVars>>

---------------------------------------------------------------------------
(* Deletion: deleteSessionResources, called by a request or by clean-up.   *)

\* DeleteSessionHandler reads the row.
DeleteBegin(j) ==
    /\ j \in Deleters /\ job[j].pc = "off" /\ row # "absent"
    /\ GotoJob(j, "planIds")
    /\ UNCHANGED <<dbVars, objVars, runVars, stored, proc, testVars>>

\* buildSessionDeletionPlan: file ids by one query, storage keys by a later one.
Reported == {r \in files : runRow[r] \notin {"none", "deleted"}}

PlanIds(j) ==
    /\ job[j].pc = "planIds"
    /\ job' = [job EXCEPT ![j].pc = "planKeys", ![j].ids = Reported]
    /\ UNCHANGED <<dbVars, objVars, runVars, stored, proc, testVars>>

PlanKeys(j) ==
    /\ job[j].pc = "planKeys"
    /\ job' = [job EXCEPT ![j].pc = "stop", ![j].keys = Reported]
    /\ UNCHANGED <<dbVars, objVars, runVars, stored, proc, testVars>>

\* Mutant: the objects go first, before it is known that the session can be deleted.
StopSession_ObjectsFirst(j) ==
    /\ job[j].pc = "stop"
    /\ stored' = stored \ job[j].keys
    /\ IF live = NoObj
       THEN /\ GotoJob(j, "tx") /\ UNCHANGED obj
       ELSE /\ obj' = [obj EXCEPT ![live] = Cancelled(@)]
            /\ job' = [job EXCEPT ![j].pc = "wait", ![j].obj = live]
    /\ UNCHANGED <<dbVars, live, runVars, proc, testVars>>

\* Manager.Stop: CancelRun of the live object, if there is one ...
StopSession(j) ==
    /\ job[j].pc = "stop"
    /\ IF live = NoObj
       THEN /\ GotoJob(j, "tx") /\ UNCHANGED obj
       ELSE /\ obj' = [obj EXCEPT ![live] = Cancelled(@)]
            /\ job' = [job EXCEPT ![j].pc = "wait", ![j].obj = live]
    /\ UNCHANGED <<dbVars, live, runVars, stored, proc, testVars>>

\* ... then WaitUntilIdle, which sees it idle ...
WaitUntilIdle(j) ==
    /\ job[j].pc = "wait" /\ obj[job[j].obj].st = "idle"
    /\ GotoJob(j, "tx")
    /\ UNCHANGED <<dbVars, objVars, runVars, stored, proc, testVars>>

\* Mutant: waiting without a deadline.
WaitTimesOut_Never(j) ==
    /\ job[j].pc = "wait" /\ obj[job[j].obj].st # "idle"
    /\ UNCHANGED vars

\* ... or gives up: the deletion fails with "cannot delete".
WaitTimesOut(j) ==
    /\ job[j].pc = "wait" /\ obj[job[j].obj].st # "idle"
    /\ job' = [job EXCEPT ![j] = OffJob]
    /\ UNCHANGED <<dbVars, objVars, runVars, stored, proc, testVars>>

\* The transaction: every row of the session, and the files the plan named.
DeleteRows(j) ==
    /\ job[j].pc = "tx"
    /\ row' = "absent"
    /\ runRow' = [r \in Runs |-> IF runRow[r] = "none" THEN "none" ELSE "deleted"]
    /\ files' = files \ job[j].ids
    /\ GotoJob(j, "close")
    /\ UNCHANGED <<objVars, nRuns, runObj, engine, stored, proc, testVars>>

CloseSessionWebSockets(j) ==
    /\ job[j].pc = "close"
    /\ proc' = [p \in Procs |-> [proc[p] EXCEPT !.open = FALSE]]
    /\ GotoJob(j, "remove")
    /\ UNCHANGED <<dbVars, objVars, runVars, stored, testVars>>

\* Mutant: the object is destroyed while the map still holds it.
RemoveLive_DestroysFirst(j) ==
    /\ job[j].pc = "remove"
    /\ obj' = IF live = NoObj THEN obj ELSE [obj EXCEPT ![live].dead = TRUE]
    /\ job' = [job EXCEPT ![j].obj = live,
                 ![j].pc = IF live = NoObj THEN "storage" ELSE "destroy"]
    /\ UNCHANGED <<dbVars, live, runVars, stored, proc, testVars>>

\* Manager.Delete takes the object out of the map under the lock ...
RemoveLive(j) ==
    /\ job[j].pc = "remove"
    /\ live' = NoObj
    /\ job' = [job EXCEPT ![j].obj = live,
                 ![j].pc = IF live = NoObj THEN "storage" ELSE "destroy"]
    /\ UNCHANGED <<dbVars, obj, runVars, stored, proc, testVars>>

\* ... and destroys it outside.
Destroy(j) ==
    /\ job[j].pc = "destroy"
    /\ obj' = [obj EXCEPT ![job[j].obj] = [Cancelled(@) EXCEPT !.dead = TRUE]]
    /\ GotoJob(j, "storage")
    /\ UNCHANGED <<dbVars, live, runVars, stored, proc, testVars>>

\* Objects of the plan; one that cannot be removed is logged and left.
DeleteObjects(j) ==
    /\ job[j].pc = "storage"
    /\ \E removed \in SUBSET job[j].keys : stored' = stored \ removed
    /\ IF job[j].expired THEN GotoJob(j, "forget")
                         ELSE job' = [job EXCEPT ![j] = OffJob]
    /\ UNCHANGED <<dbVars, objVars, runVars, proc, testVars>>

---------------------------------------------------------------------------
(* CleanupExpiredSessions.                                                 *)

\* A waiting or cancelling run does not keep its session.
Expired(o) == o # NoObj /\ ~obj[o].seen /\ obj[o].st # "running"

CleanScan(j) ==
    /\ j \in Cleaners /\ job[j].pc = "off" /\ Expired(live)
    /\ GotoJob(j, "verify")
    /\ UNCHANGED <<dbVars, objVars, runVars, stored, proc, testVars>>

CleanVerify(j) ==
    /\ job[j].pc = "verify"
    /\ IF Expired(live)
       THEN job' = [job EXCEPT ![j].pc = "fetch", ![j].expired = TRUE]
       ELSE job' = [job EXCEPT ![j] = OffJob]
    /\ UNCHANGED <<dbVars, objVars, runVars, stored, proc, testVars>>

\* The sessions only the database knows: ListExpired, then a look at the map.
CleanList(j) ==
    /\ j \in Cleaners /\ job[j].pc = "off" /\ row = "old"
    /\ GotoJob(j, "inMem")
    /\ UNCHANGED <<dbVars, objVars, runVars, stored, proc, testVars>>

CleanInMem(j) ==
    /\ job[j].pc = "inMem"
    /\ GotoJob(j, IF live = NoObj THEN "fetch" ELSE "off")
    /\ UNCHANGED <<dbVars, objVars, runVars, stored, proc, testVars>>

\* FullDeleteFunc reads the row first and fails without it.
CleanFetch(j) ==
    /\ job[j].pc = "fetch"
    /\ IF row = "absent" THEN job' = [job EXCEPT ![j] = OffJob]
                         ELSE GotoJob(j, "planIds")
    /\ UNCHANGED <<dbVars, objVars, runVars, stored, proc, testVars>>

\* After a successful deletion the id leaves the map once more.
CleanForget(j) ==
    /\ job[j].pc = "forget"
    /\ live' = NoObj
    /\ job' = [job EXCEPT ![j] = OffJob]
    /\ UNCHANGED <<dbVars, obj, runVars, stored, proc, testVars>>

---------------------------------------------------------------------------
(* Time and restarts.                                                      *)

\* The TTL, hours long, passes while no request is in the middle of its steps.
Age ==
    /\ ages < MaxAges /\ row = "fresh"
    /\ \A p \in Procs : proc[p].pc \in {"off", "reading"}
    /\ \A j \in Jobs : job[j].pc = "off"
    /\ row' = "old"
    /\ obj' = [o \in Objs |-> [obj[o] EXCEPT !.seen = FALSE]]
    /\ ages' = ages + 1
    /\ UNCHANGED <<live, runVars, files, stored, proc, job, crashes, orphan>>

\* The server process dies; what is not in the database or in storage is gone.
Crash ==
    /\ crashes < MaxCrashes
    /\ crashes' = crashes + 1
    /\ live' = NoObj
    /\ obj' = [o \in Objs |-> Unborn]
    /\ runObj' = [r \in Runs |-> NoObj]
    /\ engine' = {}
    /\ proc' = [p \in Procs |-> OffProc]
    /\ job' = [j \in Jobs |-> OffJob]
    /\ orphan' = {r \in Runs : runRow[r] \in Unsettled}
    /\ UNCHANGED <<row, runRow, files, nRuns, stored, ages>>

ConnStep(c) ==
    \/ ConnPeek(c) \/ ConnExists(c) \/ ConnOpen(c)
    \/ ConnRegister(c) \/ ConnEnd(c)
    \/ ConnStartRun(c) \/ ConnCreateRun(c) \/ ConnReply(c)

RecoverStep(p) == RecoverCheck(p) \/ RecoverList(p) \/ RecoverMark(p)

EngineStep(r) == EngineSave(r) \/ EngineEnd(r) \/ EngineSuspend(r) \/ EngineLost(r)

\* The steps of a deletion once it has begun.
DeleteStep(j) ==
    \/ PlanIds(j) \/ PlanKeys(j) \/ StopSession(j) \/ WaitUntilIdle(j) \/ WaitTimesOut(j)
    \/ DeleteRows(j) \/ CloseSessionWebSockets(j) \/ RemoveLive(j) \/ Destroy(j)
    \/ DeleteObjects(j)
    \/ CleanVerify(j) \/ CleanInMem(j) \/ CleanFetch(j) \/ CleanForget(j)

Next ==
    \/ \E c \in Conns : ConnStep(c)
    \/ \E p \in Readers : UseSession(p) \/ ReadBegin(p)
    \/ \E p \in Procs : RecoverStep(p)
    \/ \E r \in Runs : EngineStep(r)
    \/ \E j \in Jobs : DeleteBegin(j) \/ CleanScan(j) \/ CleanList(j) \/ DeleteStep(j)
    \/ Age
    \/ Crash

Spec == Init /\ [][Next]_vars

FairSpec == Spec /\ \A j \in Jobs : WF_vars(DeleteStep(j))

---------------------------------------------------------------------------
(* What objects, runs, rows, connections and deletions know of each other. *)

ObjRow  == [st : {"idle", "running", "waiting", "cancelling"}, run : 0..MaxRuns,
            seen : BOOLEAN, dead : BOOLEAN]
ProcPcs == {"off", "exists", "open", "recover", "list", "mark", "register", "reading", "create"}
ProcRow == [pc : ProcPcs, obj : Objs \cup {NoObj}, hydrate : BOOLEAN, open : BOOLEAN,
            run : 0..MaxRuns, stale : SUBSET Runs]
JobPcs  == {"off", "verify", "inMem", "fetch", "planIds", "planKeys", "stop", "wait", "tx",
            "close", "remove", "destroy", "storage", "forget"}
JobRow  == [pc : JobPcs, obj : Objs \cup {NoObj}, ids : SUBSET Runs, keys : SUBSET Runs,
            expired : BOOLEAN]

TypeOK ==
    /\ row \in {"absent", "fresh", "old"} /\ live \in Objs \cup {NoObj}
    /\ obj \in [Objs -> ObjRow] /\ nRuns \in 0..MaxRuns
    /\ runRow \in [Runs -> {"none", "running", "waiting", "failed", "ended", "deleted"}]
    /\ runObj \in [Runs -> Objs \cup {NoObj}]
    /\ engine \subseteq Runs /\ files \subseteq Runs /\ stored \subseteq Runs /\ orphan \subseteq Runs
    /\ proc \in [Procs -> ProcRow] /\ job \in [Jobs -> JobRow]

\* The object that a step works on is there.
LocalsSet ==
    /\ \A p \in Procs : proc[p].pc \in {"register", "reading", "create"} => p \in Conns
    /\ \A c \in Conns : proc[c].pc \in {"recover", "list", "mark", "register", "reading", "create"} =>
          proc[c].obj \in Objs
    /\ \A j \in Jobs : job[j].pc \in {"wait", "destroy"} => job[j].obj \in Objs

\* The slot of an object holds a run that was started on it.
SlotsFit ==
    \A o \in Objs :
        /\ obj[o].st = "idle" <=> obj[o].run = 0
        /\ obj[o].run # 0 => obj[o].run <= nRuns /\ runObj[obj[o].run] = o

EnginesFit == \A r \in engine : r <= nRuns /\ runObj[r] \in Objs /\ obj[runObj[r]].run = r

\* A run whose row is still to be written holds its slot, and is one connection's.
Starting(c) == proc[c].pc = "create"
StartsFit ==
    /\ \A c \in Conns : Starting(c) =>
          LET r == proc[c].run IN
          /\ r \in 1..nRuns /\ r \notin engine /\ runRow[r] = "none"
          /\ obj[proc[c].obj].run = r /\ obj[proc[c].obj].st # "waiting"
    /\ \A c1, c2 \in Conns : Starting(c1) /\ Starting(c2) /\ proc[c1].run = proc[c2].run => c1 = c2

RowsFit == \A r \in Runs : runRow[r] # "none" => r <= nRuns

\* A run that a restart left behind is nobody's any more.
OrphansLeft == \A r \in orphan : r <= nRuns /\ r \notin engine /\ \A o \in Objs : obj[o].run # r

\* A recovery that has listed the runs has every orphan that is still unsettled.
OrphansListed ==
    \A p \in Procs : proc[p].pc = "mark" =>
        \A r \in orphan : runRow[r] \in Unsettled => r \in proc[p].stale

\* What a deletion is about to destroy has left the map.
DestroyFits == \A j \in Jobs : job[j].pc = "destroy" => job[j].obj # live

\* What a deletion is about to remove from storage belongs to runs whose rows it has
\* deleted, or will.
KeysFit ==
    \A j \in Jobs :
        /\ job[j].pc \in {"stop", "wait", "tx"} => \A r \in job[j].keys : runRow[r] # "none"
        /\ job[j].pc \in {"close", "remove", "destroy", "storage", "forget"} =>
              \A r \in job[j].keys : runRow[r] = "deleted"

FilesFit == \A r \in files : runRow[r] # "none"

---------------------------------------------------------------------------
(* Properties.                                                             *)

\* A live session without a row is on its way out: some deletion has committed and
\* has not yet taken it out of the map.  Otherwise messages, sources and runs would
\* go to a session the database does not know.
LiveHasRow ==
    live # NoObj /\ row = "absent" =>
        \E j \in Jobs : job[j].pc \in {"close", "remove"}

\* GetOrCreate never hands out an object whose scratch database was destroyed:
\* Manager.Delete takes it out of the map before Destroy.
LiveNotDestroyed == live # NoObj => ~obj[live].dead

\* The engine of a run holds the run slot of the object it was started on, also
\* when the object has been taken out of the map.
EngineHoldsSlot == \A r \in engine : obj[runObj[r]].run = r

\* When a recovery ends, whatever was opened, started or deleted since it began, no
\* run that a restart left unsettled is still unsettled.
RecoveryComplete ==
    [][\A p \in Procs :
         /\ proc[p].pc \in {"list", "mark"} /\ proc'[p].pc \notin {"list", "mark"}
         /\ crashes' = crashes
         => \A r \in orphan : runRow'[r] \notin Unsettled]_vars

\* The late status write of an engine or of a recovery does not bring back the row
\* of a run that was deleted with its session.
DeletedRunsStayDeleted ==
    [][\A r \in Runs : runRow[r] = "deleted" => runRow'[r] = "deleted"]_vars

\* A report that the rows still lead to can be read: deleteSessionResources removes
\* objects after its transaction, and a deletion that gave up, was overtaken by a
\* late report or was cut off by a restart has removed none of them.
ReportReadable == Reported \subseteq stored

\* A deletion, asked for or by age, ends, whatever the run it waits for does.
DeletionEnds == \A j \in Jobs : job[j].pc # "off" ~> job[j].pc = "off"
==============================================================================
