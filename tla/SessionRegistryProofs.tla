----------------------- MODULE SessionRegistryProofs -----------------------
(***************************************************************************)
(* The safety properties of the registry, for every number of connections, *)
(* requests, deletions, runs and restarts.  Most steps touch one or two of *)
(* the run slots, the map, the rows and the stored reports; a lemma per    *)
(* part says what the steps that only brush against it have in common, and *)
(* the others are taken one by one.                                        *)
(***************************************************************************)
EXTENDS SessionRegistry, TLAPS

---------------------------------------------------------------------------
(* Types, and the objects that steps work on *)

TypeInv == TypeOK /\ LocalsSet

USE RegistryAssumption

LEMMA Rows ==
  /\ Unborn \in ObjRow /\ Unborn.st = "idle" /\ Unborn.run = 0 /\ ~Unborn.dead
  /\ NewObj \in ObjRow /\ NewObj.st = "idle" /\ NewObj.run = 0 /\ ~NewObj.dead
  /\ OffProc \in ProcRow /\ OffProc.pc = "off" /\ OffProc.obj = NoObj
  /\ OffJob \in JobRow /\ OffJob.pc = "off" /\ OffJob.keys = {}
  /\ NoObj \notin Objs
<1>1. Unborn \in ObjRow /\ Unborn.st = "idle" /\ Unborn.run = 0 /\ ~Unborn.dead
  BY DEF Unborn, ObjRow
<1>2. NewObj \in ObjRow /\ NewObj.st = "idle" /\ NewObj.run = 0 /\ ~NewObj.dead
  BY <1>1 DEF NewObj, ObjRow
<1>3. OffProc \in ProcRow /\ OffProc.pc = "off" /\ OffProc.obj = NoObj
  BY DEF OffProc, ProcRow, ProcPcs, NoObj
<1>4. OffJob \in JobRow /\ OffJob.pc = "off" /\ OffJob.keys = {}
  BY DEF OffJob, JobRow, JobPcs, NoObj
<1>5. NoObj \notin Objs
  BY DEF NoObj, Objs
<1> QED BY <1>1, <1>2, <1>3, <1>4, <1>5

LEMMA CancelledRow ==
  ASSUME NEW x \in ObjRow
  PROVE  /\ Cancelled(x) \in ObjRow /\ Cancelled(x).run = x.run /\ Cancelled(x).dead = x.dead
         /\ Cancelled(x).st = IF x.run = 0 THEN x.st ELSE "cancelling"
  BY DEF Cancelled, ObjRow

(* One connection or request moves, with the given locals.                 *)
Fit(p, l) ==
    /\ l \in ProcRow
    /\ l.pc \in {"register", "reading", "create"} => p \in Conns
    /\ l.pc \in {"recover", "list", "mark", "register", "reading", "create"} /\ p \in Conns => l.obj \in Objs

FitJob(l) == l \in JobRow /\ (l.pc \in {"wait", "destroy"} => l.obj \in Objs)

RestTyped ==
    /\ row \in {"absent", "fresh", "old"} /\ live \in Objs \cup {NoObj}
    /\ obj \in [Objs -> ObjRow] /\ nRuns \in 0..MaxRuns
    /\ runRow \in [Runs -> {"none", "running", "waiting", "failed", "ended", "deleted"}]
    /\ runObj \in [Runs -> Objs \cup {NoObj}]
    /\ engine \subseteq Runs /\ files \subseteq Runs /\ stored \subseteq Runs /\ orphan \subseteq Runs

LEMMA TypeInvIs ==
  TypeInv <=> /\ RestTyped
              /\ proc \in [Procs -> ProcRow] /\ (\A p \in Procs : Fit(p, proc[p]))
              /\ job \in [Jobs -> JobRow] /\ (\A j \in Jobs : FitJob(job[j]))
  BY DEF TypeInv, TypeOK, LocalsSet, RestTyped, Fit, FitJob, Procs

LEMMA TypeParts ==
  ASSUME RestTyped', proc' \in [Procs -> ProcRow], \A p \in Procs : Fit(p, proc'[p]),
         job' \in [Jobs -> JobRow], \A j \in Jobs : FitJob(job'[j])
  PROVE  TypeInv'
  BY DEF TypeInv, TypeOK, LocalsSet, RestTyped, Fit, FitJob, Procs

LEMMA InitType == Init => TypeInv
<1> SUFFICES ASSUME Init PROVE TypeInv
  OBVIOUS
<1>1. RestTyped
  BY Rows DEF Init, RestTyped
<1>2. proc \in [Procs -> ProcRow] /\ \A p \in Procs : Fit(p, proc[p])
  BY Rows DEF Init, Fit
<1>3. job \in [Jobs -> JobRow] /\ \A j \in Jobs : FitJob(job[j])
  BY Rows DEF Init, FitJob
<1> QED BY <1>1, <1>2, <1>3, TypeInvIs

(* What a step that moves p, or j, says of all of them.                    *)
LEMMA ProcMoves ==
  ASSUME TypeInv, NEW p \in Procs, NEW l, Fit(p, l), proc' = [proc EXCEPT ![p] = l]
  PROVE  /\ proc' \in [Procs -> ProcRow] /\ \A q \in Procs : Fit(q, proc'[q])
         /\ proc'[p] = l /\ \A q \in Procs \ {p} : proc'[q] = proc[q]
  BY TypeInvIs DEF Fit

LEMMA GotoMoves ==
  ASSUME TypeInv, NEW p \in Procs, NEW pc \in ProcPcs, Goto(p, pc),
         pc \in {"register", "reading", "create"} => p \in Conns,
         pc \in {"recover", "list", "mark", "register", "reading", "create"} /\ p \in Conns => proc[p].obj \in Objs
  PROVE  /\ proc' \in [Procs -> ProcRow] /\ \A q \in Procs : Fit(q, proc'[q])
         /\ \A q \in Procs \ {p} : proc'[q] = proc[q]
         /\ proc'[p].pc = pc /\ proc'[p].obj = proc[p].obj /\ proc'[p].run = proc[p].run
         /\ proc'[p].stale = proc[p].stale
<1> DEFINE l == [proc[p] EXCEPT !.pc = pc]
<1>1. proc[p] \in ProcRow /\ proc' = [proc EXCEPT ![p] = l]
  BY TypeInvIs DEF Goto
<1>2. /\ l \in ProcRow /\ l.pc = pc /\ l.obj = proc[p].obj /\ l.run = proc[p].run /\ l.stale = proc[p].stale
  BY <1>1 DEF ProcRow
<1> HIDE DEF l
<1>3. Fit(p, l)
  BY <1>2 DEF Fit
<1> QED BY <1>1, <1>2, <1>3, ProcMoves

LEMMA JobMoves ==
  ASSUME TypeInv, NEW j \in Jobs, NEW l, FitJob(l), job' = [job EXCEPT ![j] = l]
  PROVE  /\ job' \in [Jobs -> JobRow] /\ \A i \in Jobs : FitJob(job'[i])
         /\ job'[j] = l /\ \A i \in Jobs \ {j} : job'[i] = job[i]
  BY TypeInvIs DEF FitJob

LEMMA GotoJobMoves ==
  ASSUME TypeInv, NEW j \in Jobs, NEW pc \in JobPcs, GotoJob(j, pc), pc \notin {"wait", "destroy"}
  PROVE  /\ job' \in [Jobs -> JobRow] /\ \A i \in Jobs : FitJob(job'[i])
         /\ \A i \in Jobs \ {j} : job'[i] = job[i]
         /\ job'[j].pc = pc /\ job'[j].obj = job[j].obj /\ job'[j].keys = job[j].keys
<1> DEFINE l == [job[j] EXCEPT !.pc = pc]
<1>1. job[j] \in JobRow /\ job' = [job EXCEPT ![j] = l]
  BY TypeInvIs DEF GotoJob
<1>2. /\ l \in JobRow /\ l.pc = pc /\ l.obj = job[j].obj /\ l.keys = job[j].keys
  BY <1>1 DEF JobRow
<1> HIDE DEF l
<1>3. FitJob(l)
  BY <1>2 DEF FitJob
<1> QED BY <1>1, <1>2, <1>3, JobMoves

LEMMA JobEnds ==
  ASSUME TypeInv, NEW j \in Jobs, job' = [job EXCEPT ![j] = OffJob]
  PROVE  /\ job' \in [Jobs -> JobRow] /\ \A i \in Jobs : FitJob(job'[i])
         /\ \A i \in Jobs \ {j} : job'[i] = job[i]
         /\ job'[j].pc = "off" /\ job'[j].keys = {}
<1>1. FitJob(OffJob)
  BY Rows DEF FitJob
<1> QED BY <1>1, JobMoves, Rows

---------------------------------------------------------------------------
(* The steps that change the locals of one actor only *)

DbSame == UNCHANGED <<row, live, obj, nRuns, runRow, runObj, engine, files, stored, orphan>>

QuietProc(p) ==
    /\ DbSame /\ job' = job
    /\ proc' \in [Procs -> ProcRow] /\ (\A q \in Procs : Fit(q, proc'[q]))
    /\ \A q \in Procs \ {p} : proc'[q] = proc[q]
    /\ proc'[p].pc # "create" /\ proc[p].pc # "mark"
    /\ proc'[p].pc = "mark" => proc'[p].stale = {r \in Runs : runRow[r] \in Unsettled}
    /\ proc[p].pc = "list" /\ proc'[p].pc # "mark" => {r \in Runs : runRow[r] \in Unsettled} = {}

LEMMA QuietProcStep ==
  ASSUME TypeInv, NEW p \in Procs,
         \/ p \in Conns /\ (ConnPeek(p) \/ ConnExists(p) \/ ConnRegister(p) \/ ConnEnd(p))
         \/ ReadBegin(p) \/ RecoverCheck(p) \/ RecoverList(p)
  PROVE  QuietProc(p)
<1>0. proc[p] \in ProcRow /\ proc \in [Procs -> ProcRow] /\ Fit(p, proc[p]) /\ Conns \cap Readers = {}
  BY TypeInvIs
<1>1. DbSame /\ job' = job
  BY DEF ConnPeek, ConnExists, ConnRegister, ConnEnd, ReadBegin, RecoverCheck, RecoverList,
         dbVars, objVars, runVars, testVars, DbSame
<1>2. CASE p \in Conns /\ ConnPeek(p)
  <2>1. proc[p].pc = "off" /\ \E pc \in {"exists", "open"} : Goto(p, pc)
    BY <1>2 DEF ConnPeek
  <2> QED BY <1>1, <2>1, GotoMoves DEF QuietProc, ProcPcs
<1>3. CASE p \in Conns /\ ConnExists(p)
  <2> DEFINE l == [proc[p] EXCEPT !.pc = "open", !.hydrate = (row # "absent")]
  <2>1. proc[p].pc = "exists" /\ proc' = [proc EXCEPT ![p] = l]
    BY <1>3 DEF ConnExists
  <2>2. l \in ProcRow /\ l.pc = "open"
    BY <1>0 DEF ProcRow, ProcPcs
  <2> HIDE DEF l
  <2>3. Fit(p, l)
    BY <2>2 DEF Fit
  <2> QED BY <1>1, <2>1, <2>2, <2>3, ProcMoves DEF QuietProc
<1>4. CASE p \in Conns /\ ConnRegister(p)
  <2> DEFINE l == [proc[p] EXCEPT !.pc = "reading", !.open = TRUE, !.hydrate = FALSE]
  <2>1. proc[p].pc = "register" /\ proc' = [proc EXCEPT ![p] = l]
    BY <1>4 DEF ConnRegister
  <2>2. l \in ProcRow /\ l.pc = "reading" /\ l.obj = proc[p].obj
    BY <1>0 DEF ProcRow, ProcPcs
  <2> HIDE DEF l
  <2>3. Fit(p, l)
    BY <1>0, <1>4, <2>1, <2>2 DEF Fit
  <2> QED BY <1>1, <2>1, <2>2, <2>3, ProcMoves DEF QuietProc
<1>5. CASE p \in Conns /\ ConnEnd(p)
  <2>1. proc[p].pc = "reading" /\ proc' = [proc EXCEPT ![p] = OffProc] /\ Fit(p, OffProc)
    BY <1>5, Rows DEF ConnEnd, Fit
  <2> QED BY <1>1, <2>1, ProcMoves, Rows DEF QuietProc
<1>6. CASE ReadBegin(p)
  <2>1. proc[p].pc = "off" /\ Goto(p, "recover") /\ p \notin Conns
    BY <1>0, <1>6 DEF ReadBegin
  <2> QED BY <1>1, <2>1, GotoMoves DEF QuietProc, ProcPcs
<1>7. CASE RecoverCheck(p)
  <2>1. /\ proc[p].pc = "recover" /\ (p \in Conns => proc[p].obj \in Objs)
        /\ \E pc \in {"register", "off", "list"} : Goto(p, pc) /\ (pc = "register" => p \in Conns)
    BY <1>0, <1>7 DEF RecoverCheck, AfterRecovery, Fit
  <2> QED BY <1>1, <2>1, GotoMoves DEF QuietProc, ProcPcs
<1>8. CASE RecoverList(p)
  <2> DEFINE stale == {r \in Runs : runRow[r] \in Unsettled}
             to == IF stale = {} THEN AfterRecovery(p) ELSE "mark"
             l == [proc[p] EXCEPT !.stale = stale, !.pc = to]
  <2>1. proc[p].pc = "list" /\ proc' = [proc EXCEPT ![p] = l] /\ (p \in Conns => proc[p].obj \in Objs)
    BY <1>0, <1>8 DEF RecoverList, Fit
  <2>2. to \in {"register", "off", "mark"} /\ (to = "register" => p \in Conns) /\ (to # "mark" => stale = {})
    BY DEF AfterRecovery
  <2>3. stale \in SUBSET Runs
    OBVIOUS
  <2> HIDE DEF to, stale
  <2>4. l \in ProcRow /\ l.pc = to /\ l.obj = proc[p].obj /\ l.stale = stale
    BY <1>0, <2>2, <2>3 DEF ProcRow, ProcPcs
  <2> HIDE DEF l
  <2>5. Fit(p, l)
    BY <2>1, <2>2, <2>4 DEF Fit
  <2> QED BY <1>1, <2>1, <2>2, <2>4, <2>5, ProcMoves DEF QuietProc, stale
<1> QED BY <1>2, <1>3, <1>4, <1>5, <1>6, <1>7, <1>8

QuietJob(j) ==
    /\ DbSame /\ proc' = proc
    /\ job' \in [Jobs -> JobRow] /\ (\A i \in Jobs : FitJob(job'[i]))
    /\ \A i \in Jobs \ {j} : job'[i] = job[i]
    /\ job[j].pc \notin {"close", "remove"}
    /\ job'[j].pc \in {"off", "verify", "inMem", "fetch", "planIds", "planKeys", "stop", "tx"}
    /\ job'[j].pc \in {"stop", "tx"} =>
          \/ job'[j].keys \subseteq Reported
          \/ job'[j].keys = job[j].keys /\ job[j].pc \in {"stop", "wait", "tx"}

LEMMA QuietJobStep ==
  ASSUME TypeInv, NEW j \in Jobs,
         \/ DeleteBegin(j) \/ PlanIds(j) \/ PlanKeys(j) \/ (StopSession(j) /\ live = NoObj)
         \/ WaitUntilIdle(j) \/ WaitTimesOut(j)
         \/ CleanScan(j) \/ CleanVerify(j) \/ CleanList(j) \/ CleanInMem(j) \/ CleanFetch(j)
  PROVE  QuietJob(j)
<1>0. job[j] \in JobRow /\ job \in [Jobs -> JobRow] /\ files \subseteq Runs
  BY TypeInvIs DEF RestTyped
<1>1. DbSame /\ proc' = proc
  BY DEF DeleteBegin, PlanIds, PlanKeys, StopSession, WaitUntilIdle, WaitTimesOut, CleanScan, CleanVerify,
         CleanList, CleanInMem, CleanFetch, dbVars, objVars, runVars, testVars, DbSame
<1>2. ASSUME NEW l, FitJob(l), job' = [job EXCEPT ![j] = l], job[j].pc \notin {"close", "remove"},
             l.pc \in {"planKeys", "stop", "fetch"}, l.pc = "stop" => l.keys = Reported
      PROVE  QuietJob(j)
  BY <1>1, <1>2, JobMoves DEF QuietJob
<1>3. ASSUME job[j].pc \notin {"close", "remove"}, job' = [job EXCEPT ![j] = OffJob] PROVE QuietJob(j)
  BY <1>1, <1>3, JobEnds DEF QuietJob
<1>4. ASSUME NEW pc \in {"off", "verify", "inMem", "fetch", "planIds", "tx"}, job[j].pc \notin {"close", "remove"},
             GotoJob(j, pc), pc = "tx" => job[j].pc \in {"stop", "wait"}
      PROVE  QuietJob(j)
  BY <1>1, <1>4, GotoJobMoves DEF QuietJob, JobPcs
<1>5. CASE DeleteBegin(j) \/ CleanScan(j) \/ CleanList(j) \/ CleanInMem(j) \/ CleanFetch(j)
  BY <1>3, <1>4, <1>5 DEF DeleteBegin, CleanScan, CleanList, CleanInMem, CleanFetch
<1>6. CASE (StopSession(j) /\ live = NoObj) \/ WaitUntilIdle(j) \/ WaitTimesOut(j)
  BY <1>3, <1>4, <1>6 DEF StopSession, WaitUntilIdle, WaitTimesOut
<1>7. CASE PlanIds(j)
  <2> DEFINE l == [job[j] EXCEPT !.pc = "planKeys", !.ids = Reported]
  <2>1. job[j].pc = "planIds" /\ job' = [job EXCEPT ![j] = l]
    BY <1>7 DEF PlanIds
  <2>2. l \in JobRow /\ l.pc = "planKeys"
    BY <1>0 DEF JobRow, JobPcs, Reported
  <2> HIDE DEF l
  <2> QED BY <1>2, <2>1, <2>2 DEF FitJob
<1>8. CASE PlanKeys(j)
  <2> DEFINE l == [job[j] EXCEPT !.pc = "stop", !.keys = Reported]
  <2>1. job[j].pc = "planKeys" /\ job' = [job EXCEPT ![j] = l]
    BY <1>8 DEF PlanKeys
  <2>2. l \in JobRow /\ l.pc = "stop" /\ l.keys = Reported
    BY <1>0 DEF JobRow, JobPcs, Reported
  <2> HIDE DEF l
  <2> QED BY <1>2, <2>1, <2>2 DEF FitJob
<1>9. CASE CleanVerify(j)
  <2> DEFINE l == [job[j] EXCEPT !.pc = "fetch", !.expired = TRUE]
  <2>1. job[j].pc = "verify" /\ (job' = [job EXCEPT ![j] = l] \/ job' = [job EXCEPT ![j] = OffJob])
    BY <1>9 DEF CleanVerify
  <2>2. l \in JobRow /\ l.pc = "fetch"
    BY <1>0 DEF JobRow, JobPcs
  <2> HIDE DEF l
  <2> QED BY <1>2, <1>3, <2>1, <2>2 DEF FitJob
<1> QED BY <1>5, <1>6, <1>7, <1>8, <1>9

---------------------------------------------------------------------------
(* What the other steps do, variable by variable *)

(* No connection begins or ends a start of a run or a recovery.            *)
ProcsKept ==
    /\ proc' \in [Procs -> ProcRow] /\ (\A q \in Procs : Fit(q, proc'[q]))
    /\ \A q \in Procs : proc'[q].pc \in {"create", "mark"} \/ proc[q].pc \in {"list", "mark"} =>
          /\ proc'[q].pc = proc[q].pc /\ proc'[q].obj = proc[q].obj /\ proc'[q].run = proc[q].run
          /\ proc'[q].stale = proc[q].stale

LEMMA ProcsSame == ASSUME TypeInv, proc' = proc PROVE ProcsKept
  BY TypeInvIs DEF ProcsKept

(* GetOrCreate, for a connection or a request.                             *)
Opens(o) ==
    /\ GetOrCreate(o) /\ ProcsKept
    /\ UNCHANGED <<nRuns, runRow, runObj, engine, files, stored, job, orphan>>

LEMMA OpenStep ==
  ASSUME TypeInv, NEW p \in Procs, (p \in Conns /\ ConnOpen(p)) \/ UseSession(p)
  PROVE  \E o \in Objs : Opens(o)
<1>0. proc[p] \in ProcRow
  BY TypeInvIs
<1>1. CASE UseSession(p)
  BY <1>1, ProcsSame DEF UseSession, Opens, runVars, testVars
<1>2. CASE p \in Conns /\ ConnOpen(p)
  <2>1. PICK o \in Objs : /\ GetOrCreate(o) /\ proc[p].pc = "open"
                          /\ proc' = [proc EXCEPT ![p].obj = o,
                                        ![p].pc = IF proc[p].hydrate THEN "recover" ELSE "register"]
    BY <1>2 DEF ConnOpen
  <2> DEFINE to == IF proc[p].hydrate THEN "recover" ELSE "register"
             l == [proc[p] EXCEPT !.obj = o, !.pc = to]
  <2>2. to \in {"recover", "register"} /\ proc' = [proc EXCEPT ![p] = l]
    BY <2>1
  <2> HIDE DEF to
  <2>3. l \in ProcRow /\ l.pc = to /\ l.obj = o
    BY <1>0, <2>2 DEF ProcRow, ProcPcs
  <2> HIDE DEF l
  <2>4. Fit(p, l)
    BY <1>2, <2>2, <2>3 DEF Fit
  <2>5. ProcsKept
    <3>1. /\ proc' \in [Procs -> ProcRow] /\ \A q \in Procs : Fit(q, proc'[q])
          /\ proc'[p] = l /\ \A q \in Procs \ {p} : proc'[q] = proc[q]
      BY <2>2, <2>4, ProcMoves
    <3> QED BY <2>1, <2>2, <2>3, <3>1 DEF ProcsKept
  <2> QED BY <1>2, <2>1, <2>5 DEF ConnOpen, Opens, runVars, testVars
<1> QED BY <1>1, <1>2

(* One run of a recovery's list is marked failed.                          *)
Marks(p, r) ==
    /\ proc[p].pc = "mark" /\ r \in proc[p].stale
    /\ UpdateStatus(r, "failed")
    /\ proc' \in [Procs -> ProcRow] /\ (\A q \in Procs : Fit(q, proc'[q]))
    /\ \A q \in Procs \ {p} : proc'[q] = proc[q]
    /\ proc'[p].stale = proc[p].stale \ {r}
    /\ proc'[p].pc = "mark" \/ (proc'[p].pc \in {"register", "off"} /\ proc[p].stale = {r})
    /\ UNCHANGED <<row, live, obj, nRuns, runObj, engine, files, stored, job, orphan>>

LEMMA MarkStep ==
  ASSUME TypeInv, NEW p \in Procs, RecoverMark(p)
  PROVE  \E r \in Runs : Marks(p, r)
<1>0. proc[p] \in ProcRow /\ Fit(p, proc[p]) /\ proc[p].pc = "mark" /\ proc[p].stale \subseteq Runs
  BY TypeInvIs DEF RecoverMark, ProcRow
<1>1. PICK r \in proc[p].stale :
           /\ UpdateStatus(r, "failed")
           /\ proc' = [proc EXCEPT ![p].stale = @ \ {r},
                         ![p].pc = IF proc[p].stale = {r} THEN AfterRecovery(p) ELSE "mark"]
  BY DEF RecoverMark
<1> DEFINE to == IF proc[p].stale = {r} THEN AfterRecovery(p) ELSE "mark"
           rest == proc[p].stale \ {r}
           l == [proc[p] EXCEPT !.stale = rest, !.pc = to]
<1>2. proc' = [proc EXCEPT ![p] = l] /\ rest \in SUBSET Runs
  BY <1>0, <1>1
<1>3. /\ to = "mark" \/ (to \in {"register", "off"} /\ proc[p].stale = {r})
      /\ to \in {"mark", "register", "off"}
      /\ to = "register" => p \in Conns
  BY DEF AfterRecovery
<1> HIDE DEF to, rest
<1>4. l \in ProcRow /\ l.pc = to /\ l.obj = proc[p].obj /\ l.stale = rest
  BY <1>0, <1>2, <1>3 DEF ProcRow, ProcPcs
<1> HIDE DEF l
<1>5. Fit(p, l)
  BY <1>0, <1>3, <1>4 DEF Fit
<1>6. UNCHANGED <<row, live, obj, nRuns, runObj, engine, files, stored, job, orphan>>
  BY DEF RecoverMark, objVars, testVars
<1> QED BY <1>0, <1>1, <1>2, <1>3, <1>4, <1>5, <1>6, ProcMoves DEF Marks, rest

(* A run is started on an idle object.                                     *)
Starts(c, o) ==
    /\ proc[c].pc = "reading" /\ o = proc[c].obj /\ obj[o].st = "idle"
    /\ nRuns + 1 \in Runs /\ nRuns' = nRuns + 1
    /\ obj' \in [Objs -> ObjRow] /\ obj'[o].st = "running" /\ obj'[o].run = nRuns + 1 /\ obj'[o].dead = obj[o].dead
    /\ \A q \in Objs \ {o} : obj'[q] = obj[q]
    /\ runObj' = [runObj EXCEPT ![nRuns + 1] = o]
    /\ proc' \in [Procs -> ProcRow] /\ (\A q \in Procs : Fit(q, proc'[q]))
    /\ \A q \in Procs \ {c} : proc'[q] = proc[q]
    /\ proc'[c].pc = "create" /\ proc'[c].run = nRuns + 1 /\ proc'[c].obj = o
    /\ UNCHANGED <<row, live, runRow, engine, files, stored, job, orphan>>

LEMMA StartStep ==
  ASSUME TypeInv, NEW c \in Conns, ConnStartRun(c)
  PROVE  \E o \in Objs : Starts(c, o)
<1>0. /\ c \in Procs /\ proc[c] \in ProcRow /\ proc[c].pc = "reading" /\ proc[c].obj \in Objs
      /\ obj \in [Objs -> ObjRow] /\ nRuns \in 0..MaxRuns
  BY TypeInvIs DEF ConnStartRun, Fit, RestTyped, Procs
<1>1. PICK o \in Objs : o = proc[c].obj
  BY <1>0
<1>2. nRuns + 1 \in Runs /\ nRuns' = nRuns + 1
  BY <1>0 DEF ConnStartRun, Runs
<1> DEFINE x == [obj[o] EXCEPT !.st = "running", !.run = nRuns + 1]
           l == [proc[c] EXCEPT !.pc = "create", !.run = nRuns + 1]
<1>3. obj' = [obj EXCEPT ![o] = x] /\ proc' = [proc EXCEPT ![c] = l]
  BY <1>1, <1>2 DEF ConnStartRun
<1>4. x \in ObjRow /\ x.st = "running" /\ x.run = nRuns + 1 /\ x.dead = obj[o].dead
  <2>1. obj[o] \in ObjRow /\ nRuns + 1 \in 0..MaxRuns
    BY <1>0, <1>2 DEF Runs
  <2> QED BY <2>1 DEF ObjRow
<1>5. l \in ProcRow /\ l.pc = "create" /\ l.run = nRuns + 1 /\ l.obj = o
  <2>1. nRuns + 1 \in 0..MaxRuns
    BY <1>0, <1>2 DEF Runs
  <2> QED BY <1>0, <1>1, <2>1 DEF ProcRow, ProcPcs
<1> HIDE DEF x, l
<1>6. Fit(c, l)
  BY <1>5 DEF Fit
<1>7. /\ obj' \in [Objs -> ObjRow] /\ obj'[o] = x /\ \A q \in Objs \ {o} : obj'[q] = obj[q]
  BY <1>0, <1>3, <1>4
<1>8. /\ UNCHANGED <<row, live, runRow, engine, files, stored, job, orphan>> /\ obj[o].st = "idle"
      /\ runObj' = [runObj EXCEPT ![nRuns + 1] = o]
  BY <1>1, <1>2 DEF ConnStartRun, dbVars, testVars
<1> QED BY <1>0, <1>1, <1>2, <1>3, <1>4, <1>5, <1>6, <1>7, <1>8, ProcMoves DEF Starts

RunInv == SlotsFit /\ EnginesFit /\ StartsFit /\ RowsFit

(* A status that is written to a row that is there.                        *)
LEMMA StatusStep ==
  ASSUME RestTyped, NEW r \in Runs, NEW st \in {"running", "waiting", "failed", "ended"}, UpdateStatus(r, st)
  PROVE  /\ runRow' \in [Runs -> {"none", "running", "waiting", "failed", "ended", "deleted"}]
         /\ \A q \in Runs \ {r} : runRow'[q] = runRow[q]
         /\ runRow'[r] = IF runRow[r] \in {"none", "deleted"} THEN runRow[r] ELSE st
  BY DEF RestTyped, UpdateStatus

(* The slot of one object changes.                                         *)
ObjChanges(o, st, run) ==
    /\ obj' \in [Objs -> ObjRow] /\ obj'[o].st = st /\ obj'[o].run = run /\ obj'[o].dead = obj[o].dead
    /\ \A q \in Objs \ {o} : obj'[q] = obj[q]

LEMMA CancelStep ==
  ASSUME RestTyped, NEW o \in Objs, obj' = [obj EXCEPT ![o] = Cancelled(@)]
  PROVE  ObjChanges(o, IF obj[o].run = 0 THEN obj[o].st ELSE "cancelling", obj[o].run)
<1>1. obj[o] \in ObjRow /\ obj \in [Objs -> ObjRow]
  BY DEF RestTyped
<1> QED BY <1>1, CancelledRow DEF ObjChanges

(* The row of a started run is written, or refused.                        *)
Creates(c, o, r) ==
    /\ proc[c].pc = "create" /\ o = proc[c].obj /\ r = proc[c].run
    /\ \/ /\ row # "absent" /\ obj' = obj /\ engine' = engine \cup {r}
          /\ runRow' = [runRow EXCEPT ![r] = "running"]
       \/ /\ row = "absent" /\ ObjChanges(o, "cancelling", obj[o].run) /\ UNCHANGED <<runRow, engine>>
    /\ proc' \in [Procs -> ProcRow] /\ (\A q \in Procs : Fit(q, proc'[q]))
    /\ \A q \in Procs \ {c} : proc'[q] = proc[q]
    /\ proc'[c].pc = "reading"
    /\ UNCHANGED <<row, live, nRuns, runObj, files, stored, job, orphan>>

LEMMA CreateStep ==
  ASSUME TypeInv, RunInv, NEW c \in Conns, ConnCreateRun(c)
  PROVE  \E o \in Objs, r \in Runs : Creates(c, o, r)
<1>0. /\ c \in Procs /\ proc[c] \in ProcRow /\ proc[c].pc = "create" /\ proc[c].obj \in Objs /\ RestTyped
  BY TypeInvIs DEF ConnCreateRun, Fit, Procs
<1>1. proc[c].run \in Runs /\ obj[proc[c].obj].run # 0
  <2>1. proc[c].run \in 1..nRuns /\ obj[proc[c].obj].run = proc[c].run
    BY <1>0 DEF RunInv, StartsFit, Starting
  <2> QED BY <1>0, <2>1 DEF Runs, RestTyped
<1>2. PICK o \in Objs, r \in Runs : o = proc[c].obj /\ r = proc[c].run
  BY <1>0, <1>1
<1> DEFINE l == [proc[c] EXCEPT !.pc = "reading", !.run = 0]
<1>3. proc' = [proc EXCEPT ![c] = l]
  BY DEF ConnCreateRun
<1>4. l \in ProcRow /\ l.pc = "reading" /\ l.obj = o
  <2>1. 0 \in 0..MaxRuns
    OBVIOUS
  <2> QED BY <1>0, <1>2, <2>1 DEF ProcRow, ProcPcs
<1> HIDE DEF l
<1>5. Fit(c, l)
  BY <1>4 DEF Fit
<1>6. /\ proc' \in [Procs -> ProcRow] /\ (\A q \in Procs : Fit(q, proc'[q]))
      /\ \A q \in Procs \ {c} : proc'[q] = proc[q]
      /\ proc'[c].pc = "reading"
  BY <1>0, <1>3, <1>4, <1>5, ProcMoves
<1>7. UNCHANGED <<row, live, nRuns, runObj, files, stored, job, orphan>>
  BY DEF ConnCreateRun, testVars
<1>8. \/ /\ row # "absent" /\ obj' = obj /\ engine' = engine \cup {r}
         /\ runRow' = [runRow EXCEPT ![r] = "running"]
      \/ /\ row = "absent" /\ obj' = [obj EXCEPT ![o] = Cancelled(@)] /\ UNCHANGED <<runRow, engine>>
  BY <1>2 DEF ConnCreateRun
<1>9. obj' = [obj EXCEPT ![o] = Cancelled(@)] => ObjChanges(o, "cancelling", obj[o].run)
  BY <1>0, <1>1, <1>2, CancelStep
<1> QED BY <1>0, <1>2, <1>6, <1>7, <1>8, <1>9 DEF Creates

(* A waiting run goes on.                                                  *)
Replies(o, r) ==
    /\ obj[o].st = "waiting" /\ r = obj[o].run /\ ObjChanges(o, "running", r)
    /\ UpdateStatus(r, "running") /\ engine' = engine \cup {r}
    /\ UNCHANGED <<row, live, nRuns, runObj, files, stored, proc, job, orphan>>

LEMMA ReplyStep ==
  ASSUME TypeInv, RunInv, NEW c \in Conns, ConnReply(c)
  PROVE  \E o \in Objs, r \in Runs : Replies(o, r)
<1>0. c \in Procs /\ proc[c].obj \in Objs /\ RestTyped
  BY TypeInvIs DEF ConnReply, Fit, Procs
<1>1. PICK o \in Objs : o = proc[c].obj
  BY <1>0
<1>2. obj[o].st = "waiting" /\ obj[o] \in ObjRow /\ obj \in [Objs -> ObjRow]
  BY <1>0, <1>1 DEF ConnReply, RestTyped
<1>3. obj[o].run \in Runs
  <2>1. obj[o].run # 0 /\ obj[o].run \in 0..MaxRuns
    BY <1>2 DEF RunInv, SlotsFit, ObjRow
  <2> QED BY <2>1 DEF Runs
<1>4. ObjChanges(o, "running", obj[o].run)
  <2>1. obj' = [obj EXCEPT ![o].st = "running"]
    BY <1>1 DEF ConnReply
  <2>2. [obj[o] EXCEPT !.st = "running"] \in ObjRow
    BY <1>2 DEF ObjRow
  <2> QED BY <1>2, <2>1, <2>2 DEF ObjChanges, ObjRow
<1>5. UNCHANGED <<row, live, nRuns, runObj, files, stored, proc, job, orphan>>
  BY DEF ConnReply, testVars
<1>6. UpdateStatus(obj[o].run, "running") /\ engine' = engine \cup {obj[o].run}
  BY <1>1 DEF ConnReply
<1> QED BY <1>2, <1>3, <1>4, <1>5, <1>6 DEF Replies

(* An engine ends or suspends.                                             *)
Leaves(r, o) ==
    /\ r \in engine /\ o = runObj[r] /\ engine' = engine \ {r}
    /\ \/ ObjChanges(o, "idle", 0) /\ UpdateStatus(r, "ended")
       \/ obj[o].st = "running" /\ ObjChanges(o, "waiting", r) /\ UpdateStatus(r, "waiting")
    /\ UNCHANGED <<row, live, nRuns, runObj, files, stored, proc, job, orphan>>

LEMMA LeaveStep ==
  ASSUME TypeInv, RunInv, NEW r \in Runs, EngineEnd(r) \/ EngineSuspend(r)
  PROVE  \E o \in Objs : Leaves(r, o)
<1>0. RestTyped /\ r \in engine /\ runObj[r] \in Objs /\ obj[runObj[r]].run = r
  BY TypeInvIs DEF EngineEnd, EngineSuspend, RunInv, EnginesFit
<1>1. PICK o \in Objs : o = runObj[r]
  BY <1>0
<1>2. obj[o] \in ObjRow /\ obj \in [Objs -> ObjRow] /\ obj[o].run = r
  BY <1>0, <1>1 DEF RestTyped
<1>3. UNCHANGED <<row, live, nRuns, runObj, files, stored, proc, job, orphan>> /\ engine' = engine \ {r}
  BY DEF EngineEnd, EngineSuspend, testVars
<1>4. CASE EngineEnd(r)
  <2>1. obj' = [obj EXCEPT ![o].st = "idle", ![o].run = 0] /\ UpdateStatus(r, "ended")
    BY <1>1, <1>2, <1>4 DEF EngineEnd, FinishRun
  <2>2. [obj[o] EXCEPT !.st = "idle", !.run = 0] \in ObjRow
    <3>1. 0 \in 0..MaxRuns
      OBVIOUS
    <3> QED BY <1>2, <3>1 DEF ObjRow
  <2>3. ObjChanges(o, "idle", 0)
    BY <1>2, <2>1, <2>2 DEF ObjChanges, ObjRow
  <2> QED BY <1>0, <1>1, <1>3, <2>1, <2>3 DEF Leaves
<1>5. CASE EngineSuspend(r)
  <2>1. obj' = [obj EXCEPT ![o].st = "waiting"] /\ UpdateStatus(r, "waiting") /\ obj[o].st = "running"
    BY <1>1, <1>5 DEF EngineSuspend
  <2>2. [obj[o] EXCEPT !.st = "waiting"] \in ObjRow
    BY <1>2 DEF ObjRow
  <2>3. ObjChanges(o, "waiting", r)
    BY <1>2, <2>1, <2>2 DEF ObjChanges, ObjRow
  <2> QED BY <1>0, <1>1, <1>3, <2>1, <2>3 DEF Leaves
<1> QED BY <1>4, <1>5

(* One deletion goes on, with its plan, or ends.                           *)
JobGoes(j) ==
    /\ job' \in [Jobs -> JobRow] /\ (\A i \in Jobs : FitJob(job'[i]))
    /\ \A i \in Jobs \ {j} : job'[i] = job[i]
    /\ job'[j].keys = job[j].keys \/ job'[j].pc = "off"

RowsSame == UNCHANGED <<row, nRuns, runRow, runObj, engine, files, orphan>>

(* Manager.Stop cancels the run of the live object.                        *)
LEMMA StopStep ==
  ASSUME TypeInv, NEW j \in Jobs, StopSession(j), live # NoObj
  PROVE  /\ RowsSame /\ UNCHANGED <<live, stored, proc>>
         /\ live \in Objs /\ ObjChanges(live, IF obj[live].run = 0 THEN obj[live].st ELSE "cancelling", obj[live].run)
         /\ JobGoes(j) /\ job[j].pc = "stop" /\ job'[j].pc = "wait"
<1>0. RestTyped /\ job[j] \in JobRow /\ live \in Objs
  BY TypeInvIs DEF RestTyped
<1> DEFINE l == [job[j] EXCEPT !.pc = "wait", !.obj = live]
<1>1. /\ job[j].pc = "stop" /\ job' = [job EXCEPT ![j] = l] /\ obj' = [obj EXCEPT ![live] = Cancelled(@)]
      /\ RowsSame /\ UNCHANGED <<live, stored, proc>>
  BY DEF StopSession, dbVars, runVars, testVars, RowsSame
<1>2. l \in JobRow /\ l.pc = "wait" /\ l.obj = live /\ l.keys = job[j].keys
  BY <1>0 DEF JobRow, JobPcs
<1> HIDE DEF l
<1>3. FitJob(l)
  BY <1>0, <1>2 DEF FitJob
<1> QED BY <1>0, <1>1, <1>2, <1>3, JobMoves, CancelStep DEF JobGoes

LEMMA DeleteRowsStep ==
  ASSUME TypeInv, NEW j \in Jobs, DeleteRows(j)
  PROVE  /\ JobGoes(j) /\ job[j].pc = "tx" /\ job'[j].pc = "close" /\ row' = "absent"
         /\ files' = files \ job[j].ids
         /\ runRow' = [r \in Runs |-> IF runRow[r] = "none" THEN "none" ELSE "deleted"]
         /\ UNCHANGED <<live, obj, nRuns, runObj, engine, stored, proc, orphan>>
<1>1. JobGoes(j) /\ job'[j].pc = "close"
  BY GotoJobMoves DEF DeleteRows, JobGoes, JobPcs
<1> QED BY <1>1 DEF DeleteRows, objVars, testVars

LEMMA CloseStep ==
  ASSUME TypeInv, NEW j \in Jobs, CloseSessionWebSockets(j)
  PROVE  /\ JobGoes(j) /\ job[j].pc = "close" /\ job'[j].pc = "remove" /\ ProcsKept
         /\ RowsSame /\ UNCHANGED <<live, obj, stored>>
<1>1. JobGoes(j) /\ job'[j].pc = "remove"
  BY GotoJobMoves DEF CloseSessionWebSockets, JobGoes, JobPcs
<1>2. \A p \in Procs : proc[p] \in ProcRow /\ Fit(p, proc[p])
  BY TypeInvIs
<1>3. proc' = [p \in Procs |-> [proc[p] EXCEPT !.open = FALSE]]
  BY DEF CloseSessionWebSockets
<1>4. \A p \in Procs : /\ proc'[p] \in ProcRow /\ proc'[p].pc = proc[p].pc /\ proc'[p].obj = proc[p].obj
                       /\ proc'[p].run = proc[p].run /\ proc'[p].stale = proc[p].stale
  <2> SUFFICES ASSUME NEW p \in Procs
               PROVE  LET l == [proc[p] EXCEPT !.open = FALSE] IN
                      l \in ProcRow /\ l.pc = proc[p].pc /\ l.obj = proc[p].obj /\ l.run = proc[p].run /\ l.stale = proc[p].stale
    BY <1>3
  <2> QED BY <1>2 DEF ProcRow
<1>5. proc' \in [Procs -> ProcRow]
  BY <1>3, <1>4
<1>6. ProcsKept
  BY <1>2, <1>4, <1>5 DEF ProcsKept, Fit
<1> QED BY <1>1, <1>6 DEF CloseSessionWebSockets, dbVars, objVars, runVars, testVars, RowsSame

LEMMA RemoveStep ==
  ASSUME TypeInv, NEW j \in Jobs, RemoveLive(j)
  PROVE  /\ JobGoes(j) /\ job[j].pc = "remove" /\ job'[j].pc \in {"storage", "destroy"} /\ live' = NoObj
         /\ RowsSame /\ UNCHANGED <<obj, stored, proc>>
<1>0. job[j] \in JobRow /\ live \in Objs \cup {NoObj}
  BY TypeInvIs DEF RestTyped
<1> DEFINE to == IF live = NoObj THEN "storage" ELSE "destroy"
           l == [job[j] EXCEPT !.obj = live, !.pc = to]
<1>1. job' = [job EXCEPT ![j] = l] /\ to \in {"storage", "destroy"} /\ (to = "destroy" => live \in Objs)
  BY <1>0 DEF RemoveLive
<1> HIDE DEF to
<1>2. l \in JobRow /\ l.pc = to /\ l.obj = live /\ l.keys = job[j].keys
  BY <1>0, <1>1 DEF JobRow, JobPcs
<1> HIDE DEF l
<1>3. FitJob(l)
  BY <1>1, <1>2 DEF FitJob
<1>4. JobGoes(j) /\ job'[j].pc = to
  BY <1>1, <1>2, <1>3, JobMoves DEF JobGoes
<1> QED BY <1>1, <1>4 DEF RemoveLive, dbVars, runVars, testVars, RowsSame

LEMMA DestroyStep ==
  ASSUME TypeInv, NEW j \in Jobs, Destroy(j)
  PROVE  /\ JobGoes(j) /\ job[j].pc = "destroy" /\ job'[j].pc = "storage"
         /\ RowsSame /\ UNCHANGED <<live, stored, proc>>
         /\ obj' \in [Objs -> ObjRow]
         /\ \A o \in Objs : /\ obj'[o].run = obj[o].run /\ (o # job[j].obj => obj'[o] = obj[o])
                            /\ obj'[o].st = obj[o].st \/ (obj[o].run # 0 /\ obj'[o].st = "cancelling")
<1>0. RestTyped /\ job[j].obj \in Objs
  BY TypeInvIs DEF FitJob, Destroy
<1>1. JobGoes(j) /\ job'[j].pc = "storage"
  BY GotoJobMoves DEF Destroy, JobGoes, JobPcs
<1>2. PICK o \in Objs : o = job[j].obj
  BY <1>0
<1> DEFINE x == [Cancelled(obj[o]) EXCEPT !.dead = TRUE]
<1>3. obj' = [obj EXCEPT ![o] = x] /\ obj \in [Objs -> ObjRow] /\ obj[o] \in ObjRow
  BY <1>0, <1>2 DEF Destroy, RestTyped
<1>4. x \in ObjRow /\ x.run = obj[o].run /\ x.st = IF obj[o].run = 0 THEN obj[o].st ELSE "cancelling"
  <2>1. /\ Cancelled(obj[o]) \in ObjRow /\ Cancelled(obj[o]).run = obj[o].run
        /\ Cancelled(obj[o]).st = IF obj[o].run = 0 THEN obj[o].st ELSE "cancelling"
    BY <1>3, CancelledRow
  <2> QED BY <2>1 DEF ObjRow
<1> HIDE DEF x
<1>5. /\ obj' \in [Objs -> ObjRow] /\ obj'[o] = x /\ \A q \in Objs \ {o} : obj'[q] = obj[q]
  BY <1>3, <1>4
<1>6. job[j].pc = "destroy" /\ RowsSame /\ UNCHANGED <<live, stored, proc>>
  BY DEF Destroy, dbVars, runVars, testVars, RowsSame
<1> QED BY <1>1, <1>2, <1>4, <1>5, <1>6

LEMMA StorageStep ==
  ASSUME TypeInv, NEW j \in Jobs, DeleteObjects(j)
  PROVE  /\ JobGoes(j) /\ job[j].pc = "storage" /\ job'[j].pc \in {"forget", "off"}
         /\ stored' \subseteq stored /\ stored \ job[j].keys \subseteq stored'
         /\ RowsSame /\ UNCHANGED <<live, obj, proc>>
<1>1. GotoJob(j, "forget") => JobGoes(j) /\ job'[j].pc = "forget"
  BY GotoJobMoves DEF JobGoes, JobPcs
<1>2. job' = [job EXCEPT ![j] = OffJob] => JobGoes(j) /\ job'[j].pc = "off"
  BY JobEnds DEF JobGoes
<1> QED BY <1>1, <1>2 DEF DeleteObjects, dbVars, objVars, runVars, testVars, RowsSame

LEMMA ForgetStep ==
  ASSUME TypeInv, NEW j \in Jobs, CleanForget(j)
  PROVE  /\ JobGoes(j) /\ job[j].pc = "forget" /\ job'[j].pc = "off" /\ live' = NoObj
         /\ RowsSame /\ UNCHANGED <<obj, stored, proc>>
<1>1. JobGoes(j) /\ job'[j].pc = "off"
  BY JobEnds DEF CleanForget, JobGoes
<1> QED BY <1>1 DEF CleanForget, dbVars, runVars, testVars, RowsSame

LEMMA AgeStep ==
  ASSUME TypeInv, Age
  PROVE  /\ obj' \in [Objs -> ObjRow] /\ row' = "old" /\ row = "fresh"
         /\ \A o \in Objs : obj'[o].st = obj[o].st /\ obj'[o].run = obj[o].run /\ obj'[o].dead = obj[o].dead
         /\ UNCHANGED <<live, nRuns, runRow, runObj, engine, files, stored, proc, job, orphan>>
<1>1. \A o \in Objs : obj[o] \in ObjRow
  BY TypeInvIs DEF RestTyped
<1>2. obj' = [o \in Objs |-> [obj[o] EXCEPT !.seen = FALSE]]
  BY DEF Age
<1>3. \A o \in Objs : LET x == [obj[o] EXCEPT !.seen = FALSE] IN
                      x \in ObjRow /\ x.st = obj[o].st /\ x.run = obj[o].run /\ x.dead = obj[o].dead
  BY <1>1 DEF ObjRow
<1> QED BY <1>2, <1>3 DEF Age, runVars

JobStep(j) ==
    \/ StopSession(j) /\ live # NoObj
    \/ DeleteRows(j) \/ CloseSessionWebSockets(j) \/ RemoveLive(j) \/ Destroy(j) \/ DeleteObjects(j) \/ CleanForget(j)

(* The cases of a step, for the inductions below.                          *)
LEMMA NextCases ==
  ASSUME TypeInv, RunInv, [Next]_vars
  PROVE  \/ \E p \in Procs : QuietProc(p)
         \/ \E j \in Jobs : QuietJob(j)
         \/ \E o \in Objs : Opens(o)
         \/ \E p \in Procs, r \in Runs : Marks(p, r)
         \/ \E c \in Conns, o \in Objs : Starts(c, o)
         \/ \E c \in Conns, o \in Objs, r \in Runs : Creates(c, o, r)
         \/ \E o \in Objs, r \in Runs : Replies(o, r)
         \/ \E r \in Runs, o \in Objs : Leaves(r, o)
         \/ \E r \in Runs : EngineSave(r) \/ EngineLost(r)
         \/ \E j \in Jobs : JobStep(j)
         \/ Age \/ Crash
         \/ DbSame /\ UNCHANGED <<proc, job, crashes>>
<1>1. CASE UNCHANGED vars
  BY <1>1 DEF vars, DbSame
<1>2. ASSUME NEW c \in Conns, ConnStep(c)
      PROVE  \/ QuietProc(c) \/ \E o \in Objs : Opens(o) \/ Starts(c, o)
             \/ \E o \in Objs, r \in Runs : Creates(c, o, r) \/ Replies(o, r)
  <2>1. c \in Procs
    BY DEF Procs
  <2> QED BY <1>2, <2>1, QuietProcStep, OpenStep, StartStep, CreateStep, ReplyStep DEF ConnStep
<1>3. ASSUME NEW p \in Readers, UseSession(p) \/ ReadBegin(p) PROVE QuietProc(p) \/ \E o \in Objs : Opens(o)
  <2>1. p \in Procs
    BY DEF Procs
  <2> QED BY <1>3, <2>1, QuietProcStep, OpenStep
<1>4. ASSUME NEW p \in Procs, RecoverStep(p) PROVE QuietProc(p) \/ \E r \in Runs : Marks(p, r)
  BY <1>4, QuietProcStep, MarkStep DEF RecoverStep
<1>5. ASSUME NEW r \in Runs, EngineStep(r)
      PROVE  EngineSave(r) \/ EngineLost(r) \/ \E o \in Objs : Leaves(r, o)
  BY <1>5, LeaveStep DEF EngineStep
<1>6. ASSUME NEW j \in Jobs, DeleteBegin(j) \/ CleanScan(j) \/ CleanList(j) \/ DeleteStep(j)
      PROVE  QuietJob(j) \/ JobStep(j)
  BY <1>6, QuietJobStep DEF DeleteStep, JobStep
<1>7. Conns \subseteq Procs /\ Readers \subseteq Procs
  BY DEF Procs
<1> QED BY <1>1, <1>2, <1>3, <1>4, <1>5, <1>6, <1>7 DEF Next

---------------------------------------------------------------------------
(* Runs, engines and the slots of their objects *)

LEMMA TypeStep ==
  ASSUME TypeInv, RunInv, [Next]_vars
  PROVE  TypeInv'
<1>0. /\ RestTyped /\ proc \in [Procs -> ProcRow] /\ (\A p \in Procs : Fit(p, proc[p]))
      /\ job \in [Jobs -> JobRow] /\ (\A j \in Jobs : FitJob(job[j]))
  BY TypeInvIs
<1>1. ASSUME NEW p \in Procs, QuietProc(p) PROVE TypeInv'
  BY <1>0, <1>1, TypeParts DEF QuietProc, DbSame, RestTyped
<1>2. ASSUME NEW j \in Jobs, QuietJob(j) PROVE TypeInv'
  BY <1>0, <1>2, TypeParts DEF QuietJob, DbSame, RestTyped
<1>3. ASSUME NEW o \in Objs, Opens(o) PROVE TypeInv'
  <2>1. obj' \in [Objs -> ObjRow]
    <3>1. obj[o] \in ObjRow /\ [obj[o] EXCEPT !.seen = TRUE] \in ObjRow /\ obj \in [Objs -> ObjRow]
      BY <1>0 DEF RestTyped, ObjRow
    <3> QED BY <1>3, <3>1, Rows DEF Opens, GetOrCreate
  <2>2. row' \in {"absent", "fresh", "old"} /\ live' \in Objs \cup {NoObj}
    BY <1>0, <1>3 DEF Opens, GetOrCreate, RestTyped
  <2> QED BY <1>0, <1>3, <2>1, <2>2, TypeParts DEF Opens, ProcsKept, RestTyped
<1>4. ASSUME NEW p \in Procs, NEW r \in Runs, Marks(p, r) PROVE TypeInv'
  BY <1>0, <1>4, StatusStep, TypeParts DEF Marks, RestTyped
<1>5. ASSUME NEW c \in Conns, NEW o \in Objs, Starts(c, o) PROVE TypeInv'
  <2>1. nRuns' \in 0..MaxRuns /\ runObj' \in [Runs -> Objs \cup {NoObj}]
    BY <1>0, <1>5 DEF Starts, RestTyped, Runs
  <2> QED BY <1>0, <1>5, <2>1, TypeParts DEF Starts, RestTyped
<1>6. ASSUME NEW c \in Conns, NEW o \in Objs, NEW r \in Runs, Creates(c, o, r) PROVE TypeInv'
  <2>1. obj' \in [Objs -> ObjRow] /\ engine' \subseteq Runs
        /\ runRow' \in [Runs -> {"none", "running", "waiting", "failed", "ended", "deleted"}]
    BY <1>0, <1>6 DEF Creates, ObjChanges, RestTyped
  <2> QED BY <1>0, <1>6, <2>1, TypeParts DEF Creates, RestTyped
<1>7. ASSUME NEW o \in Objs, NEW r \in Runs, Replies(o, r) \/ Leaves(r, o) PROVE TypeInv'
  <2>1. obj' \in [Objs -> ObjRow] /\ engine' \subseteq Runs
        /\ runRow' \in [Runs -> {"none", "running", "waiting", "failed", "ended", "deleted"}]
    BY <1>0, <1>7, StatusStep DEF Replies, Leaves, ObjChanges, RestTyped
  <2> QED BY <1>0, <1>7, <2>1, TypeParts DEF Replies, Leaves, RestTyped
<1>8. ASSUME NEW r \in Runs, EngineSave(r) \/ EngineLost(r) PROVE TypeInv'
  BY <1>0, <1>8, TypeParts DEF EngineSave, EngineLost, dbVars, objVars, testVars, RestTyped
<1>9. ASSUME NEW j \in Jobs, JobStep(j) PROVE TypeInv'
  <2>1. CASE StopSession(j) /\ live # NoObj
    BY <1>0, <2>1, StopStep, TypeParts DEF JobGoes, RowsSame, ObjChanges, RestTyped
  <2>2. CASE DeleteRows(j)
    BY <1>0, <2>2, DeleteRowsStep, TypeParts DEF JobGoes, RestTyped
  <2>3. CASE CloseSessionWebSockets(j)
    BY <1>0, <2>3, CloseStep, TypeParts DEF JobGoes, RowsSame, ProcsKept, RestTyped
  <2>4. CASE RemoveLive(j)
    BY <1>0, <2>4, RemoveStep, TypeParts DEF JobGoes, RowsSame, RestTyped
  <2>5. CASE Destroy(j)
    BY <1>0, <2>5, DestroyStep, TypeParts DEF JobGoes, RowsSame, RestTyped
  <2>6. CASE DeleteObjects(j)
    BY <1>0, <2>6, StorageStep, TypeParts DEF JobGoes, RowsSame, RestTyped
  <2>7. CASE CleanForget(j)
    BY <1>0, <2>7, ForgetStep, TypeParts DEF JobGoes, RowsSame, RestTyped
  <2> QED BY <1>9, <2>1, <2>2, <2>3, <2>4, <2>5, <2>6, <2>7 DEF JobStep
<1>10. CASE Age
  BY <1>0, <1>10, AgeStep, TypeParts DEF RestTyped
<1>11. CASE Crash
  <2>1. RestTyped'
    BY <1>0, <1>11, Rows DEF Crash, RestTyped
  <2>2. proc' \in [Procs -> ProcRow] /\ (\A p \in Procs : Fit(p, proc'[p]))
    BY <1>11, Rows DEF Crash, Fit
  <2>3. job' \in [Jobs -> JobRow] /\ (\A j \in Jobs : FitJob(job'[j]))
    BY <1>11, Rows DEF Crash, FitJob
  <2> QED BY <2>1, <2>2, <2>3, TypeParts
<1>12. CASE DbSame /\ UNCHANGED <<proc, job, crashes>>
  BY <1>0, <1>12, TypeParts DEF DbSame, RestTyped
<1> QED BY <1>1, <1>2, <1>3, <1>4, <1>5, <1>6, <1>7, <1>8, <1>9, <1>10, <1>11, <1>12, NextCases

(* A step that starts, continues and ends no run.                          *)
Calm ==
    /\ nRuns' = nRuns /\ runObj' = runObj /\ engine' \subseteq engine
    /\ \A o \in Objs : /\ obj'[o].run = obj[o].run
                       /\ obj'[o].st = obj[o].st \/ (obj[o].run # 0 /\ obj'[o].st = "cancelling")
    /\ \A r \in Runs : runRow'[r] = "none" <=> runRow[r] = "none"
    /\ \A c \in Conns : Starting(c)' =>
          Starting(c) /\ proc'[c].run = proc[c].run /\ proc'[c].obj = proc[c].obj

LEMMA StartingObj ==
  ASSUME TypeInv, NEW c \in Conns, Starting(c)
  PROVE  proc[c].obj \in Objs
  BY DEF TypeInv, LocalsSet, Starting

LEMMA CalmInv == ASSUME TypeInv, RunInv, Calm PROVE RunInv'
<1>1. SlotsFit'
  <2>1. \A o \in Objs : obj[o].run # 0 => obj[o].st # "idle" /\ "cancelling" # "idle"
    BY DEF RunInv, SlotsFit
  <2> QED BY <2>1 DEF Calm, RunInv, SlotsFit
<1>2. EnginesFit'
  BY DEF Calm, RunInv, EnginesFit
<1>3. StartsFit'
  <2>1. \A c \in Conns : Starting(c)' =>
           /\ proc'[c].run \in 1..nRuns /\ proc'[c].run \notin engine' /\ runRow'[proc'[c].run] = "none"
           /\ obj'[proc'[c].obj].run = proc'[c].run /\ obj'[proc'[c].obj].st # "waiting"
    <3> SUFFICES ASSUME NEW c \in Conns, Starting(c)'
                 PROVE  /\ proc[c].run \in 1..nRuns /\ proc[c].run \notin engine' /\ runRow'[proc[c].run] = "none"
                        /\ obj'[proc[c].obj].run = proc[c].run /\ obj'[proc[c].obj].st # "waiting"
      BY DEF Calm
    <3>1. Starting(c) /\ proc[c].obj \in Objs
      BY StartingObj DEF Calm
    <3>2. proc[c].run \in Runs
      BY <3>1 DEF RunInv, StartsFit, Runs, TypeInv, TypeOK
    <3> QED BY <3>1, <3>2 DEF Calm, RunInv, StartsFit
  <2>2. \A c1, c2 \in Conns : Starting(c1)' /\ Starting(c2)' /\ proc'[c1].run = proc'[c2].run => c1 = c2
    BY DEF Calm, RunInv, StartsFit
  <2> QED BY <2>1, <2>2 DEF StartsFit, Calm
<1>4. RowsFit'
  BY DEF Calm, RunInv, RowsFit
<1> QED BY <1>1, <1>2, <1>3, <1>4 DEF RunInv

LEMMA CalmSteps ==
  ASSUME TypeInv, RunInv,
         \/ \E p \in Procs : QuietProc(p) \/ \E r \in Runs : Marks(p, r)
         \/ \E j \in Jobs : QuietJob(j) \/ JobStep(j)
         \/ \E o \in Objs : Opens(o) /\ live # NoObj
         \/ \E r \in Runs : EngineSave(r) \/ EngineLost(r)
         \/ Age \/ (DbSame /\ UNCHANGED <<proc, job, crashes>>)
  PROVE  Calm
<1>0. RestTyped /\ Conns \subseteq Procs
  BY TypeInvIs DEF Procs
<1> USE DEF Starting
<1>1. ASSUME NEW p \in Procs, QuietProc(p) PROVE Calm
  BY <1>0, <1>1 DEF QuietProc, DbSame, Calm
<1>2. ASSUME NEW p \in Procs, NEW r \in Runs, Marks(p, r) PROVE Calm
  <2>1. \A q \in Runs : runRow'[q] = "none" <=> runRow[q] = "none"
    BY <1>0, <1>2, StatusStep DEF Marks
  <2> QED BY <1>0, <1>2, <2>1 DEF Marks, Calm
<1>3. ASSUME NEW j \in Jobs, QuietJob(j) PROVE Calm
  BY <1>3 DEF QuietJob, DbSame, Calm
<1>4. ASSUME NEW j \in Jobs, JobStep(j) PROVE Calm
  <2>1. CASE StopSession(j) /\ live # NoObj
    <3>1. \A o \in Objs : /\ obj'[o].run = obj[o].run
                          /\ obj'[o].st = obj[o].st \/ (obj[o].run # 0 /\ obj'[o].st = "cancelling")
      BY <2>1, StopStep DEF ObjChanges
    <3> QED BY <2>1, <3>1, StopStep DEF RowsSame, Calm
  <2>2. CASE DeleteRows(j)
    BY <2>2, DeleteRowsStep DEF Calm
  <2>3. CASE CloseSessionWebSockets(j)
    BY <1>0, <2>3, CloseStep DEF RowsSame, ProcsKept, Calm
  <2>4. CASE RemoveLive(j)
    BY <2>4, RemoveStep DEF RowsSame, Calm
  <2>5. CASE Destroy(j)
    BY <2>5, DestroyStep DEF RowsSame, Calm
  <2>6. CASE DeleteObjects(j)
    BY <2>6, StorageStep DEF RowsSame, Calm
  <2>7. CASE CleanForget(j)
    BY <2>7, ForgetStep DEF RowsSame, Calm
  <2> QED BY <1>4, <2>1, <2>2, <2>3, <2>4, <2>5, <2>6, <2>7 DEF JobStep
<1>5. ASSUME NEW o \in Objs, Opens(o), live # NoObj PROVE Calm
  <2>1. \A q \in Objs : obj'[q].run = obj[q].run /\ obj'[q].st = obj[q].st
    BY <1>0, <1>5 DEF Opens, GetOrCreate, RestTyped, ObjRow
  <2> QED BY <1>0, <1>5, <2>1 DEF Opens, ProcsKept, Calm
<1>6. ASSUME NEW r \in Runs, EngineSave(r) \/ EngineLost(r) PROVE Calm
  BY <1>6 DEF EngineSave, EngineLost, dbVars, objVars, testVars, Calm
<1>7. CASE Age
  BY <1>7, AgeStep DEF Calm
<1>8. CASE DbSame /\ UNCHANGED <<proc, job, crashes>>
  BY <1>8 DEF DbSame, Calm
<1> QED BY <1>1, <1>2, <1>3, <1>4, <1>5, <1>6, <1>7, <1>8

(* A new object stands for nothing that is in use.                         *)
LEMMA BuildInv ==
  ASSUME TypeInv, RunInv, NEW o \in Objs, Opens(o), live = NoObj
  PROVE  RunInv'
<1>0. RestTyped /\ Conns \subseteq Procs
  BY TypeInvIs DEF Procs
<1>1. /\ Unused(o) /\ obj' = [obj EXCEPT ![o] = NewObj] /\ ProcsKept
      /\ UNCHANGED <<nRuns, runRow, runObj, engine>>
  BY DEF Opens, GetOrCreate
<1>2. obj'[o].st = "idle" /\ obj'[o].run = 0 /\ \A q \in Objs \ {o} : obj'[q] = obj[q]
  BY <1>0, <1>1, Rows DEF RestTyped
<1>3. SlotsFit'
  BY <1>1, <1>2 DEF RunInv, SlotsFit
<1>4. EnginesFit'
  BY <1>1, <1>2 DEF RunInv, EnginesFit, Unused
<1>5. StartsFit'
  <2>1. \A c \in Conns : Starting(c)' =>
           /\ Starting(c) /\ proc'[c].run = proc[c].run /\ proc'[c].obj = proc[c].obj /\ proc[c].obj \in Objs \ {o}
    BY <1>0, <1>1, StartingObj DEF ProcsKept, Starting, Unused
  <2> QED BY <1>1, <1>2, <2>1 DEF RunInv, StartsFit
<1>6. RowsFit'
  BY <1>1 DEF RunInv, RowsFit
<1> QED BY <1>3, <1>4, <1>5, <1>6 DEF RunInv

LEMMA StartInv ==
  ASSUME TypeInv, RunInv, NEW c \in Conns, NEW o \in Objs, Starts(c, o)
  PROVE  RunInv'
<1>0. RestTyped /\ Conns \subseteq Procs /\ nRuns \in Nat /\ nRuns + 1 \in Runs /\ runObj \in [Runs -> Objs \cup {NoObj}]
  BY TypeInvIs DEF Procs, RestTyped, Starts
<1>1. obj[o].run = 0
  BY DEF Starts, RunInv, SlotsFit
<1>2. runObj'[nRuns + 1] = o /\ \A r \in Runs : r <= nRuns => runObj'[r] = runObj[r]
  BY <1>0 DEF Starts
<1>3. \A q \in Objs : obj[q].run \in Nat /\ (obj[q].run # 0 => obj[q].run \in Runs)
  BY <1>0 DEF RestTyped, ObjRow, Runs
<1>4. SlotsFit'
  <2> SUFFICES ASSUME NEW q \in Objs
               PROVE  /\ obj'[q].st = "idle" <=> obj'[q].run = 0
                      /\ obj'[q].run # 0 => obj'[q].run <= nRuns + 1 /\ runObj'[obj'[q].run] = q
    BY DEF SlotsFit, Starts
  <2>1. CASE q = o
    BY <1>0, <1>2, <2>1 DEF Starts
  <2>2. CASE q # o
    BY <1>0, <1>2, <1>3, <2>2 DEF Starts, RunInv, SlotsFit
  <2> QED BY <2>1, <2>2
<1>5. EnginesFit'
  <2>1. \A r \in engine : r \in Runs /\ r <= nRuns /\ runObj'[r] = runObj[r] /\ r # 0
    BY <1>0, <1>2 DEF RunInv, EnginesFit, RestTyped, Runs
  <2>2. \A r \in engine : runObj[r] \in Objs \ {o}
    BY <1>1, <2>1 DEF RunInv, EnginesFit
  <2>3. \A r \in engine : r <= nRuns + 1
    BY <1>0, <2>1 DEF Runs
  <2>4. \A r \in engine : obj'[runObj[r]].run = r
    BY <2>2 DEF RunInv, EnginesFit, Starts
  <2> QED BY <2>1, <2>2, <2>3, <2>4 DEF EnginesFit, Starts
<1>6. StartsFit'
  <2>1. \A d \in Conns \ {c} : Starting(d)' =>
           Starting(d) /\ proc'[d] = proc[d] /\ proc[d].obj \in Objs \ {o} /\ proc[d].run \in 1..nRuns
    <3>1. \A d \in Conns \ {c} : Starting(d)' => Starting(d) /\ proc'[d] = proc[d]
      BY <1>0 DEF Starts, Starting
    <3>2. \A d \in Conns : Starting(d) => proc[d].obj \in Objs \ {o} /\ proc[d].run \in 1..nRuns
      BY <1>1, StartingObj DEF RunInv, StartsFit
    <3> QED BY <3>1, <3>2
  <2>2. nRuns + 1 \notin engine /\ runRow[nRuns + 1] = "none"
    BY <1>0 DEF RunInv, EnginesFit, RowsFit
  <2>3. \A d \in Conns : Starting(d)' =>
           /\ proc'[d].run \in 1..(nRuns + 1) /\ proc'[d].run \notin engine /\ runRow[proc'[d].run] = "none"
           /\ obj'[proc'[d].obj].run = proc'[d].run /\ obj'[proc'[d].obj].st # "waiting"
    <3>1. ASSUME NEW d \in Conns \ {c}, Starting(d)'
          PROVE  /\ proc'[d].run \in 1..(nRuns + 1) /\ proc'[d].run \notin engine /\ runRow[proc'[d].run] = "none"
                 /\ obj'[proc'[d].obj].run = proc'[d].run /\ obj'[proc'[d].obj].st # "waiting"
      <4>1. proc[d].run \in 1..(nRuns + 1)
        BY <1>0, <2>1, <3>1
      <4> QED BY <2>1, <3>1, <4>1 DEF Starts, RunInv, StartsFit
    <3>2. nRuns + 1 \in 1..(nRuns + 1)
      BY <1>0
    <3> QED BY <2>2, <3>1, <3>2 DEF Starts
  <2>4. \A c1, c2 \in Conns : Starting(c1)' /\ Starting(c2)' /\ proc'[c1].run = proc'[c2].run => c1 = c2
    <3>1. \A d \in Conns \ {c} : Starting(d)' => proc'[d].run # nRuns + 1
      BY <1>0, <2>1
    <3> QED BY <2>1, <3>1 DEF Starts, RunInv, StartsFit
  <2> QED BY <2>3, <2>4 DEF StartsFit, Starts
<1>7. RowsFit'
  BY <1>0 DEF RunInv, RowsFit, Starts, Runs
<1> QED BY <1>4, <1>5, <1>6, <1>7 DEF RunInv

(* The run of a starting connection, of an engine and of a waiting slot are *)
(* three different runs.                                                   *)
LEMMA CreateInv ==
  ASSUME TypeInv, RunInv, NEW c \in Conns, NEW o \in Objs, NEW r \in Runs, Creates(c, o, r)
  PROVE  RunInv'
<1>0. RestTyped /\ Conns \subseteq Procs
  BY TypeInvIs DEF Procs
<1>1. Starting(c) /\ r <= nRuns /\ r # 0 /\ obj[o].run = r /\ runObj[r] = o /\ r \notin engine
  BY DEF Creates, Starting, RunInv, StartsFit, SlotsFit, Runs
<1>2. \A d \in Conns : Starting(d)' => d # c /\ Starting(d) /\ proc'[d] = proc[d] /\ proc[d].run # r
  BY <1>0, <1>1 DEF Creates, Starting, RunInv, StartsFit
<1>3. \A d \in Conns : Starting(d) => proc[d].obj \in Objs /\ proc[d].run \in Runs
  BY <1>0, StartingObj DEF RunInv, StartsFit, RestTyped, Runs
<1>4. CASE row # "absent"
  <2>1. obj' = obj /\ engine' = engine \cup {r} /\ runRow' = [runRow EXCEPT ![r] = "running"]
        /\ nRuns' = nRuns /\ runObj' = runObj
    BY <1>4 DEF Creates
  <2>2. SlotsFit' /\ EnginesFit'
    BY <1>1, <2>1 DEF RunInv, SlotsFit, EnginesFit
  <2>3. RowsFit'
    BY <1>0, <1>1, <2>1 DEF RunInv, RowsFit, RestTyped
  <2>4. \A d \in Conns : Starting(d)' => runRow'[proc[d].run] = runRow[proc[d].run]
    BY <1>0, <1>2, <1>3, <2>1 DEF RestTyped
  <2>5. StartsFit'
    BY <1>2, <2>1, <2>4 DEF RunInv, StartsFit
  <2> QED BY <2>2, <2>3, <2>5 DEF RunInv
<1>5. CASE row = "absent"
  <2>1. ObjChanges(o, "cancelling", obj[o].run) /\ UNCHANGED <<runRow, engine, nRuns, runObj>>
    BY <1>5 DEF Creates
  <2>2. \A q \in Objs : obj'[q].run = obj[q].run
    BY <2>1 DEF ObjChanges
  <2>3. SlotsFit'
    BY <1>1, <2>1, <2>2 DEF RunInv, SlotsFit, ObjChanges
  <2>4. EnginesFit' /\ RowsFit'
    BY <2>1, <2>2 DEF RunInv, EnginesFit, RowsFit
  <2>5. \A q \in Objs : obj'[q].st = "waiting" => obj[q].st = "waiting"
    BY <2>1 DEF ObjChanges
  <2>6. StartsFit'
    BY <1>2, <1>3, <2>1, <2>2, <2>5 DEF RunInv, StartsFit
  <2> QED BY <2>3, <2>4, <2>6 DEF RunInv
<1> QED BY <1>4, <1>5

LEMMA ReplyInv ==
  ASSUME TypeInv, RunInv, NEW o \in Objs, NEW r \in Runs, Replies(o, r)
  PROVE  RunInv'
<1>0. RestTyped /\ r # 0
  BY TypeInvIs DEF Runs
<1>1. /\ \A q \in Objs : obj'[q].run = obj[q].run /\ (obj'[q].st = "waiting" => obj[q].st = "waiting")
      /\ \A q \in Objs : obj'[q].st = "idle" <=> obj[q].st = "idle"
      /\ \A q \in Runs : runRow'[q] = "none" <=> runRow[q] = "none"
      /\ engine' = engine \cup {r} /\ obj[o].run = r /\ UNCHANGED <<proc, nRuns, runObj>>
  BY <1>0, StatusStep DEF Replies, ObjChanges
<1>2. SlotsFit' /\ RowsFit'
  BY <1>1 DEF RunInv, SlotsFit, RowsFit
<1>3. EnginesFit'
  BY <1>0, <1>1 DEF RunInv, EnginesFit, SlotsFit
<1>4. \A c \in Conns : Starting(c) => proc[c].obj \in Objs /\ proc[c].run \in Runs /\ proc[c].run # r
  <2> SUFFICES ASSUME NEW c \in Conns, Starting(c)
               PROVE  proc[c].obj \in Objs /\ proc[c].run \in Runs /\ proc[c].run # r
    OBVIOUS
  <2>1. proc[c].obj \in Objs /\ proc[c].run \in Runs
    BY <1>0, StartingObj DEF RunInv, StartsFit, RestTyped, Runs
  <2>2. obj[proc[c].obj].run = proc[c].run /\ obj[proc[c].obj].st # "waiting"
    BY DEF RunInv, StartsFit
  <2>3. obj[o].st = "waiting" /\ (proc[c].run = r => proc[c].obj = o)
    BY <1>0, <1>1, <2>1, <2>2 DEF Replies, RunInv, SlotsFit
  <2> QED BY <2>1, <2>2, <2>3
<1>5. StartsFit'
  BY <1>1, <1>4 DEF RunInv, StartsFit, Starting
<1> QED BY <1>2, <1>3, <1>5 DEF RunInv

LEMMA LeaveInv ==
  ASSUME TypeInv, RunInv, NEW r \in Runs, NEW o \in Objs, Leaves(r, o)
  PROVE  RunInv'
<1>0. RestTyped /\ r # 0 /\ obj[o].run = r /\ r <= nRuns /\ runObj[r] = o
  BY TypeInvIs DEF Runs, RunInv, EnginesFit, Leaves
<1>1. /\ \A q \in Objs \ {o} : obj'[q] = obj[q]
      /\ (obj'[o].st = "idle" /\ obj'[o].run = 0) \/ (obj'[o].st = "waiting" /\ obj'[o].run = r)
      /\ \A q \in Runs : runRow'[q] = "none" <=> runRow[q] = "none"
      /\ engine' = engine \ {r} /\ UNCHANGED <<proc, nRuns, runObj>>
  BY <1>0, StatusStep DEF Leaves, ObjChanges
<1>2. SlotsFit' /\ RowsFit'
  BY <1>0, <1>1 DEF RunInv, SlotsFit, RowsFit
<1>3. EnginesFit'
  <2>1. \A q \in engine \ {r} : runObj[q] \in Objs \ {o}
    BY <1>0 DEF RunInv, EnginesFit
  <2> QED BY <1>1, <2>1 DEF RunInv, EnginesFit
<1>4. \A c \in Conns : Starting(c) => proc[c].obj \in Objs \ {o} /\ proc[c].run \in Runs
  <2>1. \A c \in Conns : Starting(c) => proc[c].obj \in Objs /\ proc[c].run \in Runs
    BY <1>0, StartingObj DEF RunInv, StartsFit, RestTyped, Runs
  <2>2. \A c \in Conns : Starting(c) => proc[c].run \notin engine /\ obj[proc[c].obj].run = proc[c].run
    BY DEF RunInv, StartsFit
  <2>3. r \in engine
    BY DEF Leaves
  <2> QED BY <1>0, <2>1, <2>2, <2>3
<1>5. StartsFit'
  BY <1>1, <1>4 DEF RunInv, StartsFit, Starting
<1> QED BY <1>2, <1>3, <1>5 DEF RunInv

LEMMA RunStep ==
  ASSUME TypeInv, RunInv, [Next]_vars
  PROVE  RunInv'
<1>1. CASE Crash
  <2>1. \A o \in Objs : obj'[o].st = "idle" /\ obj'[o].run = 0
    BY <1>1, Rows DEF Crash
  <2>2. \A c \in Conns : ~Starting(c)'
    BY <1>1, Rows DEF Crash, Starting, Procs
  <2>3. RowsFit' /\ EnginesFit'
    BY <1>1 DEF Crash, RunInv, RowsFit, EnginesFit
  <2> QED BY <2>1, <2>2, <2>3 DEF RunInv, SlotsFit, StartsFit
<1>2. CASE \/ \E p \in Procs : QuietProc(p) \/ \E r \in Runs : Marks(p, r)
           \/ \E j \in Jobs : QuietJob(j) \/ JobStep(j)
           \/ \E o \in Objs : Opens(o) /\ live # NoObj
           \/ \E r \in Runs : EngineSave(r) \/ EngineLost(r)
           \/ Age \/ (DbSame /\ UNCHANGED <<proc, job, crashes>>)
  BY <1>2, CalmSteps, CalmInv
<1> QED BY <1>1, <1>2, NextCases, BuildInv, StartInv, CreateInv, ReplyInv, LeaveInv

LEMMA InitRun == Init => RunInv
  BY Rows DEF Init, RunInv, SlotsFit, EnginesFit, StartsFit, RowsFit, Starting, Procs

(* The locals of connections, requests and deletions keep their types, and *)
(* runs fit their objects, their engines, their starts and their rows: each *)
(* half needs the other.                                                   *)
THEOREM RunInvariance == Spec => [](TypeInv /\ RunInv)
<1>1. Init => TypeInv /\ RunInv
  BY InitType, InitRun
<1>2. TypeInv /\ RunInv /\ [Next]_vars => (TypeInv /\ RunInv)'
  BY TypeStep, RunStep
<1> QED BY <1>1, <1>2, PTL DEF Spec

(* The engine of a run holds the run slot of the object it was started on, *)
(* also when the object has been taken out of the map.                     *)
THEOREM EngineSlot == Spec => []EngineHoldsSlot
<1>1. TypeInv /\ RunInv => EngineHoldsSlot
  BY DEF RunInv, EnginesFit, EngineHoldsSlot
<1> QED BY <1>1, RunInvariance, PTL

---------------------------------------------------------------------------
(* The live object, its row and its destruction *)

LiveInv == DestroyFits /\ LiveNotDestroyed /\ LiveHasRow

(* A step that leaves the map, the row and the deletions in their last     *)
(* steps alone.                                                            *)
LiveKept ==
    /\ live' = live /\ (row' = "absent" => row = "absent")
    /\ live # NoObj => obj'[live].dead = obj[live].dead
    /\ \A j \in Jobs : job[j].pc \in {"close", "remove"} => job'[j].pc \in {"close", "remove"}
    /\ \A j \in Jobs : job'[j].pc = "destroy" => job[j].pc = "destroy" /\ job'[j].obj = job[j].obj

LEMMA LiveKeptInv == ASSUME LiveInv, LiveKept PROVE LiveInv'
  BY DEF LiveInv, LiveKept, DestroyFits, LiveNotDestroyed, LiveHasRow

LEMMA LiveJobs ==
  ASSUME TypeInv, LiveInv, NEW j \in Jobs, JobStep(j)
  PROVE  LiveInv'
<1>0. RestTyped /\ live \in Objs \cup {NoObj}
  BY TypeInvIs DEF RestTyped
<1>1. CASE StopSession(j) /\ live # NoObj
  <2>1. LiveKept
    BY <1>1, StopStep DEF RowsSame, JobGoes, ObjChanges, LiveKept
  <2> QED BY <2>1, LiveKeptInv
<1>2. CASE DeleteRows(j)
  <2>1. /\ live' = live /\ obj' = obj /\ job'[j].pc = "close" /\ \A i \in Jobs \ {j} : job'[i] = job[i]
    BY <1>2, DeleteRowsStep DEF JobGoes
  <2> QED BY <2>1 DEF LiveInv, DestroyFits, LiveNotDestroyed, LiveHasRow
<1>3. CASE CloseSessionWebSockets(j)
  <2>1. LiveKept
    BY <1>3, CloseStep DEF RowsSame, JobGoes, LiveKept
  <2> QED BY <2>1, LiveKeptInv
<1>4. CASE RemoveLive(j) \/ CleanForget(j)
  <2>1. live' = NoObj /\ \A i \in Jobs : FitJob(job'[i])
    BY <1>4, RemoveStep, ForgetStep DEF JobGoes
  <2> QED BY <2>1, Rows DEF LiveInv, DestroyFits, LiveNotDestroyed, LiveHasRow, FitJob
<1>5. CASE Destroy(j)
  <2>1. /\ job[j].pc = "destroy" /\ job'[j].pc = "storage" /\ (\A i \in Jobs \ {j} : job'[i] = job[i])
        /\ live' = live /\ row' = row /\ \A o \in Objs : o # job[j].obj => obj'[o] = obj[o]
    BY <1>5, DestroyStep DEF JobGoes, RowsSame
  <2>2. LiveKept
    BY <1>0, <2>1 DEF LiveInv, DestroyFits, LiveKept
  <2> QED BY <2>2, LiveKeptInv
<1>6. CASE DeleteObjects(j)
  <2>1. LiveKept
    BY <1>6, StorageStep DEF RowsSame, JobGoes, LiveKept
  <2> QED BY <2>1, LiveKeptInv
<1> QED BY <1>1, <1>2, <1>3, <1>4, <1>5, <1>6 DEF JobStep

LEMMA LiveStep ==
  ASSUME TypeInv, RunInv, LiveInv, [Next]_vars
  PROVE  LiveInv'
<1>0. RestTyped /\ live \in Objs \cup {NoObj} /\ obj \in [Objs -> ObjRow]
  BY TypeInvIs DEF RestTyped
<1>1. ASSUME NEW p \in Procs, QuietProc(p) \/ \E r \in Runs : Marks(p, r) PROVE LiveKept
  BY <1>1 DEF QuietProc, DbSame, Marks, LiveKept
<1>2. ASSUME NEW j \in Jobs, QuietJob(j) PROVE LiveKept
  BY <1>2 DEF QuietJob, DbSame, LiveKept
<1>3. ASSUME NEW o \in Objs, Opens(o) PROVE LiveInv'
  <2>1. CASE live # NoObj
    <3>1. LiveKept
      BY <1>0, <1>3, <2>1 DEF Opens, GetOrCreate, ObjRow, LiveKept
    <3> QED BY <3>1, LiveKeptInv
  <2>2. CASE live = NoObj
    <3>1. Unused(o) /\ obj' = [obj EXCEPT ![o] = NewObj] /\ live' = o /\ row' = "fresh" /\ job' = job
      BY <1>3, <2>2 DEF Opens, GetOrCreate
    <3>2. ~obj'[o].dead
      BY <1>0, <3>1, Rows
    <3> QED BY <3>1, <3>2 DEF LiveInv, DestroyFits, LiveNotDestroyed, LiveHasRow, Unused
  <2> QED BY <2>1, <2>2
<1>4. ASSUME NEW c \in Conns, NEW o \in Objs, Starts(c, o) PROVE LiveKept
  BY <1>0, <1>4 DEF Starts, LiveKept
<1>5. ASSUME NEW c \in Conns, NEW o \in Objs, NEW r \in Runs, Creates(c, o, r) PROVE LiveKept
  BY <1>0, <1>5 DEF Creates, ObjChanges, LiveKept
<1>6. ASSUME NEW o \in Objs, NEW r \in Runs, Replies(o, r) \/ Leaves(r, o) PROVE LiveKept
  BY <1>0, <1>6 DEF Replies, Leaves, ObjChanges, LiveKept
<1>7. ASSUME NEW r \in Runs, EngineSave(r) \/ EngineLost(r) PROVE LiveKept
  BY <1>7 DEF EngineSave, EngineLost, dbVars, objVars, LiveKept
<1>8. CASE Age
  BY <1>0, <1>8, AgeStep, LiveKeptInv DEF LiveKept
<1>9. CASE Crash
  BY <1>9, Rows DEF Crash, LiveInv, DestroyFits, LiveNotDestroyed, LiveHasRow
<1>10. CASE DbSame /\ UNCHANGED <<proc, job, crashes>>
  BY <1>10, LiveKeptInv DEF DbSame, LiveKept
<1> QED BY <1>1, <1>2, <1>3, <1>4, <1>5, <1>6, <1>7, <1>8, <1>9, <1>10, NextCases, LiveJobs, LiveKeptInv

LEMMA LiveInvariance == Spec => []LiveInv
<1>1. Init => LiveInv
  BY Rows DEF Init, LiveInv, DestroyFits, LiveNotDestroyed, LiveHasRow
<1>2. TypeInv /\ RunInv /\ LiveInv /\ [Next]_vars => LiveInv'
  BY LiveStep
<1> QED BY <1>1, <1>2, RunInvariance, PTL DEF Spec

(* GetOrCreate never hands out an object whose scratch database was        *)
(* destroyed: what Manager.Delete is about to destroy has left the map, and *)
(* a new object is none of those that a deletion still works on.           *)
THEOREM NotDestroyed == Spec => []LiveNotDestroyed
<1>1. LiveInv => LiveNotDestroyed
  BY DEF LiveInv
<1> QED BY <1>1, LiveInvariance, PTL

(* A live session has its row, or a deletion has committed and has yet to   *)
(* take it out of the map.                                                 *)
THEOREM HasRow == Spec => []LiveHasRow
<1>1. LiveInv => LiveHasRow
  BY DEF LiveInv
<1> QED BY <1>1, LiveInvariance, PTL

---------------------------------------------------------------------------
(* Rows of runs and the reports they lead to *)

(* No row comes back, and none that is there is unwritten.                 *)
RowsGoOn ==
    \A r \in Runs : /\ runRow[r] # "none" => runRow'[r] # "none"
                    /\ runRow[r] = "deleted" => runRow'[r] = "deleted"

LEMMA RowsGoOnStep ==
  ASSUME TypeInv, RunInv, [Next]_vars
  PROVE  RowsGoOn
<1>0. RestTyped
  BY TypeInvIs
<1>1. runRow' = runRow => RowsGoOn
  BY DEF RowsGoOn
<1>2. ASSUME NEW r \in Runs, NEW st \in {"running", "waiting", "failed", "ended"}, UpdateStatus(r, st) PROVE RowsGoOn
  BY <1>0, <1>2, StatusStep DEF RowsGoOn
<1>3. ASSUME NEW c \in Conns, NEW o \in Objs, NEW r \in Runs, Creates(c, o, r) PROVE RowsGoOn
  <2>1. runRow[r] = "none"
    BY <1>3 DEF Creates, RunInv, StartsFit, Starting
  <2> QED BY <1>0, <1>1, <1>3, <2>1 DEF Creates, RowsGoOn, RestTyped
<1>4. ASSUME NEW j \in Jobs, JobStep(j) PROVE RowsGoOn
  <2>1. CASE DeleteRows(j)
    BY <2>1, DeleteRowsStep DEF RowsGoOn
  <2>2. CASE ~DeleteRows(j)
    BY <1>1, <1>4, <2>2, StopStep, CloseStep, RemoveStep, DestroyStep, StorageStep, ForgetStep DEF JobStep, RowsSame
  <2> QED BY <2>1, <2>2
<1>5. ASSUME NEW p \in Procs, QuietProc(p) PROVE RowsGoOn
  BY <1>1, <1>5 DEF QuietProc, DbSame
<1>6. ASSUME NEW j \in Jobs, QuietJob(j) PROVE RowsGoOn
  BY <1>1, <1>6 DEF QuietJob, DbSame
<1>7. ASSUME NEW o \in Objs, Opens(o) PROVE RowsGoOn
  BY <1>1, <1>7 DEF Opens
<1>8. ASSUME NEW p \in Procs, NEW r \in Runs, Marks(p, r) PROVE RowsGoOn
  BY <1>2, <1>8 DEF Marks
<1>9. ASSUME NEW c \in Conns, NEW o \in Objs, Starts(c, o) PROVE RowsGoOn
  BY <1>1, <1>9 DEF Starts
<1>10. ASSUME NEW o \in Objs, NEW r \in Runs, Replies(o, r) \/ Leaves(r, o) PROVE RowsGoOn
  BY <1>2, <1>10 DEF Replies, Leaves
<1>11. ASSUME NEW r \in Runs, EngineSave(r) \/ EngineLost(r) PROVE RowsGoOn
  BY <1>1, <1>11 DEF EngineSave, EngineLost, dbVars
<1>12. CASE Age \/ Crash \/ (DbSame /\ UNCHANGED <<proc, job, crashes>>)
  BY <1>1, <1>12, AgeStep DEF Crash, DbSame
<1> QED BY <1>3, <1>4, <1>5, <1>6, <1>7, <1>8, <1>9, <1>10, <1>11, <1>12, NextCases

(* The late status write of an engine or of a recovery does not bring back *)
(* the row of a deleted run, and no row is written for it anew: a run whose *)
(* row is still to be written has none.                                    *)
THEOREM DeletedStays == Spec => DeletedRunsStayDeleted
<1>1. TypeInv /\ RunInv /\ [Next]_vars => [\A r \in Runs : runRow[r] = "deleted" => runRow'[r] = "deleted"]_vars
  BY RowsGoOnStep DEF RowsGoOn
<1> QED BY <1>1, RunInvariance, PTL DEF Spec, DeletedRunsStayDeleted

ReportInv == FilesFit /\ KeysFit /\ ReportReadable

Late == {"close", "remove", "destroy", "storage", "forget"}

(* A step that neither saves a report nor carries a deletion over its      *)
(* transaction.                                                            *)
ReportKept ==
    /\ files' \subseteq files /\ stored \subseteq stored'
    /\ \A j \in Jobs : job'[j].pc \in {"stop", "wait", "tx"} =>
          \/ job'[j].keys \subseteq Reported
          \/ job'[j].keys = job[j].keys /\ job[j].pc \in {"stop", "wait", "tx"}
    /\ \A j \in Jobs : job'[j].pc \in Late => job'[j].keys = job[j].keys /\ job[j].pc \in Late

LEMMA KeysTyped == ASSUME TypeInv PROVE \A j \in Jobs : job[j].keys \subseteq Runs
  BY TypeInvIs DEF JobRow

LEMMA ReportKeptInv ==
  ASSUME TypeInv, ReportInv, RowsGoOn, ReportKept
  PROVE  ReportInv'
<1>0. files \subseteq Runs /\ Reported \subseteq files /\ \A j \in Jobs : job[j].keys \subseteq Runs
  BY TypeInvIs, KeysTyped DEF RestTyped, Reported
<1>1. FilesFit'
  BY <1>0 DEF ReportInv, FilesFit, RowsGoOn, ReportKept
<1>2. KeysFit'
  <2>1. \A j \in Jobs : job'[j].pc \in {"stop", "wait", "tx"} => \A r \in job'[j].keys : runRow'[r] # "none"
    BY <1>0 DEF ReportInv, KeysFit, RowsGoOn, ReportKept, Reported
  <2>2. \A j \in Jobs : job'[j].pc \in Late => \A r \in job'[j].keys : runRow'[r] = "deleted"
    BY <1>0 DEF ReportInv, KeysFit, RowsGoOn, ReportKept, Late
  <2> QED BY <2>1, <2>2 DEF KeysFit, Late
<1>3. ReportReadable'
  BY <1>0 DEF ReportInv, FilesFit, RowsGoOn, ReportKept, ReportReadable, Reported
<1> QED BY <1>1, <1>2, <1>3 DEF ReportInv

LEMMA ReportJobs ==
  ASSUME TypeInv, ReportInv, RowsGoOn, NEW j \in Jobs, JobStep(j)
  PROVE  ReportInv'
<1>0. files \subseteq Runs /\ \A i \in Jobs : job[i].keys \subseteq Runs
  BY TypeInvIs, KeysTyped DEF RestTyped
<1>1. CASE DeleteRows(j)
  <2>1. /\ job[j].pc = "tx" /\ job'[j].pc = "close" /\ job'[j].keys = job[j].keys
        /\ files' \subseteq files /\ stored' = stored /\ \A i \in Jobs \ {j} : job'[i] = job[i]
    BY <1>1, DeleteRowsStep DEF JobGoes
  <2>2. \A r \in Runs : runRow'[r] = IF runRow[r] = "none" THEN "none" ELSE "deleted"
    BY <1>1, DeleteRowsStep
  <2>3. FilesFit' /\ ReportReadable'
    BY <1>0, <2>1, <2>2 DEF ReportInv, FilesFit, ReportReadable, Reported
  <2>4. \A r \in job'[j].keys : runRow'[r] = "deleted"
    BY <1>0, <2>1, <2>2 DEF ReportInv, KeysFit
  <2>5. KeysFit'
    BY <1>0, <2>1, <2>2, <2>4 DEF ReportInv, KeysFit
  <2> QED BY <2>3, <2>5 DEF ReportInv
<1>2. CASE DeleteObjects(j)
  <2>1. /\ job[j].pc = "storage" /\ (job'[j].pc = "off" \/ (job'[j].pc = "forget" /\ job'[j].keys = job[j].keys))
        /\ stored \ job[j].keys \subseteq stored' /\ UNCHANGED <<files, runRow>>
        /\ \A i \in Jobs \ {j} : job'[i] = job[i]
    BY <1>2, StorageStep DEF JobGoes, RowsSame
  <2>2. \A r \in job[j].keys : runRow[r] = "deleted"
    BY <2>1 DEF ReportInv, KeysFit
  <2>3. ReportReadable'
    BY <2>1, <2>2 DEF ReportInv, ReportReadable, Reported
  <2>4. FilesFit' /\ KeysFit'
    BY <2>1, <2>2 DEF ReportInv, FilesFit, KeysFit
  <2> QED BY <2>3, <2>4 DEF ReportInv
<1>3. CASE StopSession(j) /\ live # NoObj
  <2>1. ReportKept
    BY <1>3, StopStep DEF RowsSame, JobGoes, ReportKept, Late
  <2> QED BY <2>1, ReportKeptInv
<1>4. CASE CloseSessionWebSockets(j) \/ RemoveLive(j) \/ Destroy(j) \/ CleanForget(j)
  <2>1. ReportKept
    BY <1>4, CloseStep, RemoveStep, DestroyStep, ForgetStep DEF RowsSame, JobGoes, ReportKept, Late
  <2> QED BY <2>1, ReportKeptInv
<1> QED BY <1>1, <1>2, <1>3, <1>4 DEF JobStep

LEMMA ReportStep ==
  ASSUME TypeInv, RunInv, ReportInv, [Next]_vars
  PROVE  ReportInv'
<1>0. RowsGoOn
  BY RowsGoOnStep
<1>1. ASSUME NEW p \in Procs, QuietProc(p) \/ \E r \in Runs : Marks(p, r) PROVE ReportKept
  BY <1>1 DEF QuietProc, DbSame, Marks, ReportKept
<1>2. ASSUME NEW j \in Jobs, QuietJob(j) PROVE ReportKept
  BY <1>2 DEF QuietJob, DbSame, ReportKept, Late
<1>3. ASSUME NEW o \in Objs, Opens(o) PROVE ReportKept
  BY <1>3 DEF Opens, ReportKept
<1>4. ASSUME NEW c \in Conns, NEW o \in Objs, Starts(c, o) \/ \E r \in Runs : Creates(c, o, r) PROVE ReportKept
  BY <1>4 DEF Starts, Creates, ReportKept
<1>5. ASSUME NEW o \in Objs, NEW r \in Runs, Replies(o, r) \/ Leaves(r, o) PROVE ReportKept
  BY <1>5 DEF Replies, Leaves, ReportKept
<1>6. ASSUME NEW r \in Runs, EngineSave(r) PROVE ReportInv'
  <2>1. /\ files' = files \cup {r} /\ stored' = stored \cup {r} /\ UNCHANGED <<runRow, job>>
        /\ runRow[r] \notin {"none", "deleted"}
    BY <1>6 DEF EngineSave
  <2> QED BY <2>1 DEF ReportInv, FilesFit, KeysFit, ReportReadable, Reported
<1>7. ASSUME NEW r \in Runs, EngineLost(r) PROVE ReportKept
  BY <1>7 DEF EngineLost, dbVars, ReportKept
<1>8. CASE Age \/ (DbSame /\ UNCHANGED <<proc, job, crashes>>)
  <2>1. ReportKept
    BY <1>8, AgeStep DEF DbSame, ReportKept
  <2> QED BY <1>0, <2>1, ReportKeptInv
<1>9. CASE Crash
  <2>1. ReportKept
    BY <1>9, Rows DEF Crash, ReportKept, Late
  <2> QED BY <1>0, <2>1, ReportKeptInv
<1> QED BY <1>0, <1>1, <1>2, <1>3, <1>4, <1>5, <1>6, <1>7, <1>8, <1>9, NextCases, ReportJobs, ReportKeptInv

(* A report that the rows still lead to can be read: a deletion removes    *)
(* from storage only what its transaction has left without a row, however  *)
(* late the report was saved.                                              *)
THEOREM Readable == Spec => []ReportReadable
<1>1. Init => ReportInv
  BY Rows DEF Init, ReportInv, FilesFit, KeysFit, ReportReadable, Reported
<1>2. TypeInv /\ RunInv /\ ReportInv /\ [Next]_vars => ReportInv'
  BY ReportStep
<1>3. ReportInv => ReportReadable
  BY DEF ReportInv
<1> QED BY <1>1, <1>2, <1>3, RunInvariance, PTL DEF Spec

---------------------------------------------------------------------------
(* Recovery after a restart *)

OrphanInv == OrphansLeft /\ OrphansListed

(* A run that somebody works on is no orphan.                              *)
LEMMA HeldNoOrphan ==
  ASSUME OrphanInv, NEW r, r \in engine \/ \E o \in Objs : obj[o].run = r
  PROVE  r \notin orphan
  BY DEF OrphanInv, OrphansLeft

(* No orphan gets an engine, a slot or an unsettled row, and no recovery   *)
(* loses one of its list.                                                  *)
OrphansKept ==
    /\ orphan' = orphan /\ (nRuns' = nRuns \/ nRuns' = nRuns + 1)
    /\ \A r \in orphan : r \in engine' => r \in engine
    /\ \A r \in orphan : \A o \in Objs : obj'[o].run = r => \E q \in Objs : obj[q].run = r
    /\ \A r \in orphan : runRow'[r] \in Unsettled => runRow[r] \in Unsettled
    /\ \A p \in Procs : proc'[p].pc = "mark" =>
          \/ proc[p].pc = "mark" /\ \A r \in orphan : runRow'[r] \in Unsettled /\ r \in proc[p].stale => r \in proc'[p].stale
          \/ \A r \in orphan : runRow'[r] \in Unsettled => r \in proc'[p].stale

LEMMA OrphansKeptInv ==
  ASSUME TypeInv, OrphanInv, OrphansKept
  PROVE  OrphanInv'
<1>0. nRuns \in Nat /\ orphan \subseteq Nat
  BY TypeInvIs DEF RestTyped, Runs
<1>1. OrphansLeft'
  <2>1. \A r \in orphan : r <= nRuns'
    BY <1>0 DEF OrphanInv, OrphansLeft, OrphansKept
  <2> QED BY <2>1 DEF OrphanInv, OrphansLeft, OrphansKept
<1>2. OrphansListed'
  BY DEF OrphanInv, OrphansListed, OrphansKept
<1> QED BY <1>1, <1>2 DEF OrphanInv

(* What a step may do to a recovery that is under way: nothing, unless it   *)
(* ends having settled every orphan.                                       *)
RecoveryKept ==
    \A p \in Procs :
        proc[p].pc \in {"list", "mark"} /\ proc'[p].pc \notin {"list", "mark"} =>
            \A r \in orphan : runRow'[r] \notin Unsettled

LEMMA OrphanJobs ==
  ASSUME TypeInv, NEW j \in Jobs, JobStep(j)
  PROVE  OrphansKept /\ RecoveryKept
<1>0. RestTyped /\ orphan \subseteq Runs
  BY TypeInvIs DEF RestTyped
<1>1. CASE StopSession(j) /\ live # NoObj
  <2>1. \A o \in Objs : obj'[o].run = obj[o].run
    BY <1>1, StopStep DEF ObjChanges
  <2> QED BY <1>1, <2>1, StopStep DEF RowsSame, OrphansKept, RecoveryKept
<1>2. CASE DeleteRows(j)
  <2>1. \A r \in Runs : runRow'[r] \notin Unsettled
    BY <1>2, DeleteRowsStep DEF Unsettled
  <2> QED BY <1>0, <1>2, <2>1, DeleteRowsStep DEF OrphansKept, RecoveryKept
<1>3. CASE CloseSessionWebSockets(j)
  BY <1>3, CloseStep DEF RowsSame, ProcsKept, OrphansKept, RecoveryKept
<1>4. CASE RemoveLive(j) \/ DeleteObjects(j) \/ CleanForget(j)
  BY <1>4, RemoveStep, StorageStep, ForgetStep DEF RowsSame, OrphansKept, RecoveryKept
<1>5. CASE Destroy(j)
  BY <1>5, DestroyStep DEF RowsSame, OrphansKept, RecoveryKept
<1> QED BY <1>1, <1>2, <1>3, <1>4, <1>5 DEF JobStep

LEMMA OrphanRuns ==
  ASSUME TypeInv, RunInv, OrphanInv,
         \/ \E c \in Conns, o \in Objs : Starts(c, o)
         \/ \E c \in Conns, o \in Objs, r \in Runs : Creates(c, o, r)
         \/ \E o \in Objs, r \in Runs : Replies(o, r)
         \/ \E r \in Runs, o \in Objs : Leaves(r, o)
  PROVE  OrphansKept /\ RecoveryKept
<1>0. RestTyped /\ orphan \subseteq Runs /\ Conns \subseteq Procs
  BY TypeInvIs DEF RestTyped, Procs
<1>1. ASSUME NEW c \in Conns, NEW o \in Objs, Starts(c, o) PROVE OrphansKept /\ RecoveryKept
  <2>1. nRuns + 1 \notin orphan
    BY <1>0 DEF OrphanInv, OrphansLeft, RestTyped, Runs
  <2>2. \A q \in Objs : obj'[q].run \in orphan => obj'[q] = obj[q]
    BY <1>1, <2>1 DEF Starts
  <2> QED BY <1>0, <1>1, <2>2 DEF Starts, OrphansKept, RecoveryKept
<1>2. ASSUME NEW c \in Conns, NEW o \in Objs, NEW r \in Runs, Creates(c, o, r) PROVE OrphansKept /\ RecoveryKept
  <2>1. r \notin orphan
    <3>1. obj[o].run = r
      BY <1>2 DEF Creates, RunInv, StartsFit, Starting
    <3> QED BY <3>1, HeldNoOrphan
  <2>2. \A q \in orphan : runRow'[q] = runRow[q]
    BY <1>0, <1>2, <2>1 DEF Creates, RestTyped
  <2>3. (\A q \in Objs : obj'[q].run = obj[q].run) /\ \A q \in orphan : q \in engine' => q \in engine
    BY <1>2, <2>1 DEF Creates, ObjChanges
  <2> QED BY <1>0, <1>2, <2>2, <2>3 DEF Creates, OrphansKept, RecoveryKept
<1>3. ASSUME NEW o \in Objs, NEW r \in Runs, Replies(o, r) \/ Leaves(r, o) PROVE OrphansKept /\ RecoveryKept
  <2>1. r \notin orphan
    BY <1>3, HeldNoOrphan DEF Replies, Leaves
  <2>2. \A q \in orphan : runRow'[q] = runRow[q]
    BY <1>0, <1>3, <2>1, StatusStep DEF Replies, Leaves
  <2>3. 0 \notin orphan
    BY <1>0 DEF Runs
  <2>4. /\ \A q \in Objs : obj'[q].run \in orphan => obj'[q].run = obj[q].run
        /\ \A q \in orphan : q \in engine' => q \in engine
    BY <1>3, <2>1, <2>3 DEF Replies, Leaves, ObjChanges
  <2> QED BY <1>3, <2>2, <2>4 DEF Replies, Leaves, OrphansKept, RecoveryKept
<1> QED BY <1>1, <1>2, <1>3

LEMMA OrphanStep ==
  ASSUME TypeInv, RunInv, OrphanInv, [Next]_vars, ~Crash
  PROVE  OrphansKept /\ RecoveryKept
<1>0. RestTyped /\ orphan \subseteq Runs /\ 0 \notin orphan
  BY TypeInvIs DEF RestTyped, Runs
<1>1. ASSUME NEW p \in Procs, QuietProc(p) PROVE OrphansKept /\ RecoveryKept
  <2>1. RecoveryKept
    BY <1>0, <1>1 DEF QuietProc, DbSame, RecoveryKept
  <2>2. \A q \in Procs : proc'[q].pc = "mark" =>
          \/ proc[q].pc = "mark" /\ \A r \in orphan : runRow'[r] \in Unsettled /\ r \in proc[q].stale => r \in proc'[q].stale
          \/ \A r \in orphan : runRow'[r] \in Unsettled => r \in proc'[q].stale
    BY <1>0, <1>1 DEF QuietProc, DbSame
  <2> QED BY <1>1, <2>1, <2>2 DEF QuietProc, DbSame, OrphansKept
<1>2. ASSUME NEW j \in Jobs, QuietJob(j) PROVE OrphansKept /\ RecoveryKept
  BY <1>2 DEF QuietJob, DbSame, OrphansKept, RecoveryKept
<1>3. ASSUME NEW o \in Objs, Opens(o) PROVE OrphansKept /\ RecoveryKept
  <2>1. \A q \in Objs : obj'[q].run \in orphan => obj'[q].run = obj[q].run
    BY <1>0, <1>3, Rows DEF Opens, GetOrCreate, RestTyped, ObjRow
  <2>2. RecoveryKept
    BY <1>3 DEF Opens, ProcsKept, RecoveryKept
  <2>3. UNCHANGED <<nRuns, runRow, engine, orphan>>
    BY <1>3 DEF Opens
  <2>4. \A q \in Procs : proc'[q].pc = "mark" => proc[q].pc = "mark" /\ proc'[q].stale = proc[q].stale
    BY <1>3 DEF Opens, ProcsKept
  <2> QED BY <2>1, <2>2, <2>3, <2>4 DEF OrphansKept
<1>4. ASSUME NEW p \in Procs, NEW r \in Runs, Marks(p, r) PROVE OrphansKept /\ RecoveryKept
  <2>1. /\ \A q \in Runs \ {r} : runRow'[q] = runRow[q]
        /\ runRow'[r] \notin Unsettled
    BY <1>0, <1>4, StatusStep DEF Marks, Unsettled
  <2>2. RecoveryKept
    BY <1>0, <1>4, <2>1 DEF Marks, RecoveryKept, OrphanInv, OrphansListed
  <2>3. \A q \in Procs : proc'[q].pc = "mark" =>
          proc[q].pc = "mark" /\ \A s \in orphan : runRow'[s] \in Unsettled /\ s \in proc[q].stale => s \in proc'[q].stale
    BY <1>4, <2>1 DEF Marks
  <2> QED BY <1>0, <1>4, <2>1, <2>2, <2>3 DEF Marks, OrphansKept
<1>5. ASSUME NEW r \in Runs, EngineSave(r) \/ EngineLost(r) PROVE OrphansKept /\ RecoveryKept
  BY <1>5 DEF EngineSave, EngineLost, dbVars, objVars, testVars, OrphansKept, RecoveryKept
<1>6. CASE Age
  BY <1>6, AgeStep DEF OrphansKept, RecoveryKept
<1>7. CASE DbSame /\ UNCHANGED <<proc, job, crashes>>
  BY <1>7 DEF DbSame, OrphansKept, RecoveryKept
<1> QED BY <1>1, <1>2, <1>3, <1>4, <1>5, <1>6, <1>7, NextCases, OrphanJobs, OrphanRuns

LEMMA OrphanInvStep ==
  ASSUME TypeInv, RunInv, OrphanInv, [Next]_vars
  PROVE  OrphanInv'
<1>1. CASE Crash
  <2>1. orphan' = {r \in Runs : runRow[r] \in Unsettled} /\ engine' = {} /\ nRuns' = nRuns
        /\ \A o \in Objs : obj'[o].run = 0
    BY <1>1, Rows DEF Crash
  <2>2. \A r \in orphan' : r <= nRuns /\ r # 0
    BY <2>1 DEF RunInv, RowsFit, Unsettled, Runs
  <2>3. \A p \in Procs : proc'[p].pc # "mark"
    BY <1>1, Rows DEF Crash
  <2> QED BY <2>1, <2>2, <2>3 DEF OrphanInv, OrphansLeft, OrphansListed
<1> QED BY <1>1, OrphanStep, OrphansKeptInv

Counted == crashes \in Nat

LEMMA CrashCount == Spec => []Counted
<1>1. Init => Counted
  BY DEF Init, Counted
<1>2. Counted /\ [Next]_vars => Counted'
  <2> SUFFICES ASSUME crashes \in Nat, Next \/ UNCHANGED vars PROVE crashes' \in Nat
    BY DEF Counted
  <2>1. CASE Crash
    BY <2>1 DEF Crash
  <2>2. CASE \E c \in Conns : ConnStep(c)
    BY <2>2 DEF ConnStep, ConnPeek, ConnExists, ConnOpen, ConnRegister, ConnEnd, ConnStartRun, ConnCreateRun,
                ConnReply, testVars
  <2>3. CASE \E p \in Procs : RecoverStep(p) \/ UseSession(p) \/ ReadBegin(p)
    BY <2>3 DEF RecoverStep, RecoverCheck, RecoverList, RecoverMark, UseSession, ReadBegin, testVars
  <2>4. CASE \E r \in Runs : EngineStep(r)
    BY <2>4 DEF EngineStep, EngineSave, EngineEnd, EngineSuspend, EngineLost, testVars
  <2>5. CASE \E j \in Jobs : DeleteBegin(j) \/ CleanScan(j) \/ CleanList(j) \/ DeleteStep(j)
    BY <2>5 DEF DeleteBegin, CleanScan, CleanList, DeleteStep, PlanIds, PlanKeys, StopSession, WaitUntilIdle,
                WaitTimesOut, DeleteRows, CloseSessionWebSockets, RemoveLive, Destroy, DeleteObjects,
                CleanVerify, CleanInMem, CleanFetch, CleanForget, testVars
  <2>6. CASE Age \/ UNCHANGED vars
    BY <2>6 DEF Age, vars
  <2> QED BY <2>1, <2>2, <2>3, <2>4, <2>5, <2>6 DEF Next, Procs
<1> QED BY <1>1, <1>2, PTL DEF Spec

(* When a recovery ends, whatever was opened, started or deleted since it   *)
(* began, no run that a restart left unsettled is still unsettled: nobody  *)
(* works on such a run, so no row of one becomes unsettled again, and every *)
(* one that is was on the list.                                            *)
THEOREM RecoverySettles == Spec => RecoveryComplete
<1>1. Init => OrphanInv
  BY Rows DEF Init, OrphanInv, OrphansLeft, OrphansListed
<1>2. TypeInv /\ RunInv /\ OrphanInv /\ [Next]_vars => OrphanInv'
  BY OrphanInvStep
<1>3. TypeInv /\ RunInv /\ OrphanInv /\ Counted /\ [Next]_vars =>
        [\A p \in Procs :
           /\ proc[p].pc \in {"list", "mark"} /\ proc'[p].pc \notin {"list", "mark"}
           /\ crashes' = crashes
           => \A r \in orphan : runRow'[r] \notin Unsettled]_vars
  <2>1. Crash /\ Counted => crashes' # crashes
    BY DEF Crash, Counted
  <2> QED BY <2>1, OrphanStep DEF RecoveryKept
<1> QED BY <1>1, <1>2, <1>3, RunInvariance, CrashCount, PTL DEF Spec, RecoveryComplete
============================================================================
