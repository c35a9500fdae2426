------------------------- MODULE SourceImportProofs -------------------------
(***************************************************************************)
(* Every invariant of SourceImport's run, for every set of requests, files,*)
(* databases and objects and every bound.  Each group of parts rests on    *)
(* the ones before it: types and the locals of a request; the upload lock; *)
(* the files; the allowlists; and, with the lock and the files known, the  *)
(* snapshots, bindings and tables together (ImportInv).  Most steps leave  *)
(* rows and bindings alone (PlainStep) and share one proof.                *)
(***************************************************************************)
EXTENDS SourceImport, TLAPS

---------------------------------------------------------------------------
(* Types, and the locals that the steps of a request rely on *)

TypeInv == TypeOK /\ LocalsSet

USE SourceImportAssumption

LEMMA Rows ==
  /\ Idle \in Locals /\ Idle.pc = "idle" /\ Idle.snap = 0 /\ Idle.src = None /\ Idle.allowed
  /\ NoFile \in FileRow /\ NoConn \in ConnRow /\ NoSnap \in SnapshotRow
  BY DEF Idle, Locals, NoFile, FileRow, NoConn, ConnRow, NoSnap, SnapshotRow, None

LEMMA InitType == Init => TypeInv
  BY Rows DEF Init, TypeInv, TypeOK, LocalsSet, At, FilePcs, PgPcs, BothPcs, ObjectPcs, Snapped

(* What the locals of a request are, by the step it is at.                 *)
Fit(l) ==
    /\ l \in Locals
    /\ l.pc = "idle" => l = Idle
    /\ l.pc \in FilePcs => l.src \in Files
    /\ l.pc \in PgPcs => l.src \in Pgs
    /\ l.pc \in BothPcs => l.src \in Sources
    /\ l.pc \in ObjectPcs /\ l.src \in Pgs => l.object \in Objects

LEMMA TypeInvIs ==
  TypeInv <=> /\ file \in [Files -> FileRow] /\ source \subseteq Sources
              /\ conn \in [Pgs -> ConnRow] /\ snap \in [Snaps -> SnapshotRow]
              /\ made \in 0..MaxSnaps /\ binding \in [Sources -> 0..MaxSnaps]
              /\ table \in [Tables -> Sources \cup {None}]
              /\ lock \in Requests \cup {None}
              /\ wanted \in [Pgs -> SUBSET Objects] /\ panicked \subseteq Requests
              /\ req \in [Requests -> Locals] /\ \A r \in Requests : Fit(req[r])
  BY DEF TypeInv, TypeOK, LocalsSet, Fit, At

(* The request alone moves.                                                *)
LEMMA ReqFits ==
  ASSUME TypeInv, NEW r \in Requests, NEW l, Fit(l), req' = [req EXCEPT ![r] = l]
  PROVE  req' \in [Requests -> Locals] /\ \A q \in Requests : Fit(req'[q])
  BY TypeInvIs DEF Fit

LEMMA GotoFits ==
  ASSUME TypeInv, NEW r \in Requests, req[r].pc # "idle", NEW pc, Goto(r, pc),
         \/ pc \in FilePcs /\ req[r].src \in Files
         \/ pc \in PgPcs /\ req[r].src \in Pgs /\ (pc \in ObjectPcs => req[r].object \in Objects)
         \/ pc \in BothPcs /\ req[r].src \in Sources
            /\ (pc \in ObjectPcs /\ req[r].src \in Pgs => req[r].object \in Objects)
  PROVE  req' \in [Requests -> Locals] /\ \A q \in Requests : Fit(req'[q])
<1> DEFINE l == [req[r] EXCEPT !.pc = pc]
<1>1. Fit(req[r]) /\ req[r] \in Locals
  BY TypeInvIs
<1>2. l \in Locals /\ l.pc = pc /\ l.src = req[r].src /\ l.object = req[r].object
  BY <1>1 DEF Locals
<1>3. Fit(l)
  <2> HIDE DEF l
  <2> QED BY <1>2 DEF Fit, FilePcs, PgPcs, BothPcs, ObjectPcs, Snapped
<1>4. req' = [req EXCEPT ![r] = l]
  BY DEF Goto
<1> HIDE DEF l
<1> QED BY <1>3, <1>4, ReqFits

LEMMA EndsFits ==
  ASSUME TypeInv, NEW r \in Requests, Ends(r)
  PROVE  req' \in [Requests -> Locals] /\ \A q \in Requests : Fit(req'[q])
<1>1. Fit(Idle)
  BY Rows DEF Fit, FilePcs, PgPcs, BothPcs, ObjectPcs, Snapped
<1> QED BY <1>1, ReqFits DEF Ends

(* Everything but the requests has its type.                               *)
RowsTyped ==
    /\ file \in [Files -> FileRow] /\ source \subseteq Sources
    /\ conn \in [Pgs -> ConnRow] /\ snap \in [Snaps -> SnapshotRow]
    /\ made \in 0..MaxSnaps /\ binding \in [Sources -> 0..MaxSnaps]
    /\ table \in [Tables -> Sources \cup {None}]
    /\ lock \in Requests \cup {None}
    /\ wanted \in [Pgs -> SUBSET Objects] /\ panicked \subseteq Requests

LEMMA TypeParts ==
  ASSUME RowsTyped', req' \in [Requests -> Locals], \A q \in Requests : Fit(req'[q])
  PROVE  TypeInv'
  BY DEF RowsTyped, TypeInv, TypeOK, LocalsSet, Fit, At

(* What is known of a request that is at some step.                        *)
LEMMA AtStep ==
  ASSUME TypeInv, NEW r \in Requests
  PROVE  /\ RowsTyped /\ req \in [Requests -> Locals] /\ req[r] \in Locals
         /\ req[r].pc \in FilePcs => req[r].src \in Files
         /\ req[r].pc \in PgPcs => req[r].src \in Pgs
         /\ req[r].pc \in BothPcs => req[r].src \in Sources
         /\ req[r].pc \in ObjectPcs /\ req[r].src \in Pgs => req[r].object \in Objects
         /\ req[r].pc = "idle" => req[r] = Idle
  BY TypeInvIs DEF Fit, RowsTyped

(* The ways in which one file's row changes.                               *)
LEMMA FileStep ==
  ASSUME RowsTyped, NEW f \in Files,
         \/ file' = [file EXCEPT ![f].object = TRUE] \/ file' = [file EXCEPT ![f].row = TRUE]
         \/ file' = [file EXCEPT ![f].attached = TRUE] \/ Undo(f)
  PROVE  file' \in [Files -> FileRow]
<1>1. file[f] \in FileRow /\ file \in [Files -> FileRow]
  BY DEF RowsTyped
<1>2. CASE file' = [file EXCEPT ![f].object = TRUE]
  BY <1>1, <1>2 DEF FileRow
<1>3. CASE file' = [file EXCEPT ![f].row = TRUE]
  BY <1>1, <1>3 DEF FileRow
<1>4. CASE file' = [file EXCEPT ![f].attached = TRUE]
  BY <1>1, <1>4 DEF FileRow
<1>5. CASE Undo(f)
  BY <1>1, <1>5 DEF FileRow, Undo
<1> QED BY <1>2, <1>3, <1>4, <1>5

(* A snapshot's status changes, or snapshots go.                           *)
LEMMA SnapStep ==
  ASSUME RowsTyped, NEW i, NEW st \in {"creating", "ready", "failed"}, UpdateStatus(i, st)
  PROVE  /\ snap' \in [Snaps -> SnapshotRow]
         /\ \A j \in Snaps : /\ snap'[j].src = snap[j].src /\ snap'[j].table = snap[j].table
                             /\ snap'[j] = NoSnap <=> snap[j] = NoSnap
                             /\ snap'[j].status = snap[j].status \/ (j = i /\ snap'[j].status = st)
<1>1. snap \in [Snaps -> SnapshotRow]
  BY DEF RowsTyped
<1>2. CASE snap' = snap
  BY <1>1, <1>2
<1>3. CASE snap[i] # NoSnap /\ snap' = [snap EXCEPT ![i].status = st]
  <2>1. CASE i \in Snaps
    <3>1. snap[i] \in SnapshotRow /\ [snap[i] EXCEPT !.status = st] \in SnapshotRow
          /\ [snap[i] EXCEPT !.status = st] # NoSnap
      BY <1>1, <2>1 DEF SnapshotRow, NoSnap, None
    <3> QED BY <1>1, <1>3, <2>1, <3>1 DEF SnapshotRow
  <2>2. CASE i \notin Snaps
    BY <1>1, <1>3, <2>2
  <2> QED BY <2>1, <2>2
<1> QED BY <1>2, <1>3 DEF UpdateStatus

(* The steps of an upload.                                                 *)
LEMMA UploadTyped ==
  ASSUME TypeInv, NEW r \in Requests,
         CreateFileRow(r) \/ AttachFileToSession(r) \/ EnsureFileSource(r)
  PROVE  TypeInv'
<1>0. /\ RowsTyped /\ req \in [Requests -> Locals] /\ req[r] \in Locals
      /\ req[r].pc \in FilePcs => req[r].src \in Files
      /\ req[r].pc \in PgPcs => req[r].src \in Pgs
      /\ req[r].pc \in BothPcs => req[r].src \in Sources
      /\ req[r].pc \in ObjectPcs /\ req[r].src \in Pgs => req[r].object \in Objects
  BY AtStep
<1>1. CASE CreateFileRow(r)
  <2>1. req[r].pc = "row" /\ req[r].src \in Files
    BY <1>1, <1>0 DEF CreateFileRow, At, FilePcs, PgPcs, BothPcs
  <2>2. req' \in [Requests -> Locals] /\ \A q \in Requests : Fit(req'[q])
    BY <1>1, <2>1, <1>0, GotoFits, EndsFits DEF CreateFileRow, FilePcs
  <2>3. RowsTyped'
    BY <1>1, <2>1, <1>0, FileStep DEF CreateFileRow, RowsTyped, rows, history
  <2> QED BY <2>2, <2>3, TypeParts
<1>2. CASE AttachFileToSession(r)
  <2>1. req[r].pc = "attach" /\ req[r].src \in Files
    BY <1>2, <1>0 DEF AttachFileToSession, At, FilePcs, PgPcs, BothPcs
  <2>2. req' \in [Requests -> Locals] /\ \A q \in Requests : Fit(req'[q])
    BY <1>2, <2>1, <1>0, GotoFits, EndsFits DEF AttachFileToSession, FilePcs
  <2>3. RowsTyped'
    BY <1>2, <2>1, <1>0, FileStep DEF AttachFileToSession, RowsTyped, rows, history
  <2> QED BY <2>2, <2>3, TypeParts
<1>3. CASE EnsureFileSource(r)
  <2>1. req[r].pc = "source" /\ req[r].src \in Files
    BY <1>3, <1>0 DEF EnsureFileSource, At, FilePcs, PgPcs, BothPcs
  <2>2. req' \in [Requests -> Locals] /\ \A q \in Requests : Fit(req'[q])
    BY <1>3, <2>1, <1>0, GotoFits, EndsFits DEF EnsureFileSource, BothPcs, ObjectPcs, Snapped, Sources
  <2>3. RowsTyped'
    BY <1>3, <2>1, <1>0 DEF EnsureFileSource, RowsTyped, rows, history, Sources
  <2> QED BY <2>2, <2>3, TypeParts
<1> QED BY <1>1, <1>2, <1>3

(* The import of a file up to its snapshot.                                *)
LEMMA FileImportTyped ==
  ASSUME TypeInv, NEW r \in Requests,
         MaterializeToTemp(r) \/ ImportTable(r) \/ ImportRows(r) \/ ExtractSchema(r)
  PROVE  TypeInv'
<1>0. /\ RowsTyped /\ req \in [Requests -> Locals] /\ req[r] \in Locals
      /\ req[r].pc \in FilePcs => req[r].src \in Files
      /\ req[r].pc \in PgPcs => req[r].src \in Pgs
      /\ req[r].pc \in BothPcs => req[r].src \in Sources
      /\ req[r].pc \in ObjectPcs /\ req[r].src \in Pgs => req[r].object \in Objects
  BY AtStep
<1>1. CASE MaterializeToTemp(r)
  <2>1. req[r].pc = "file" /\ req[r].src \in Files
    BY <1>1, <1>0 DEF MaterializeToTemp, At, FilePcs, PgPcs, BothPcs
  <2>2. req' \in [Requests -> Locals] /\ \A q \in Requests : Fit(req'[q])
    BY <1>1, <2>1, <1>0, GotoFits, EndsFits DEF MaterializeToTemp, FilePcs, PgPcs, BothPcs, ObjectPcs, Snapped, Sources, UnlockUpload
  <2>3. RowsTyped'
    BY <1>1, <2>1, <1>0 DEF MaterializeToTemp, RowsTyped, rows, history, UnlockUpload
  <2> QED BY <2>2, <2>3, TypeParts
<1>2. CASE ImportTable(r)
  <2>1. req[r].pc = "table" /\ req[r].src \in Files
    BY <1>2, <1>0 DEF ImportTable, At, FilePcs, PgPcs, BothPcs
  <2>2. req' \in [Requests -> Locals] /\ \A q \in Requests : Fit(req'[q])
    BY <1>2, <2>1, <1>0, GotoFits, EndsFits DEF ImportTable, FilePcs, PgPcs, BothPcs, ObjectPcs, Snapped, Sources, UnlockUpload
  <2>3. RowsTyped'
    BY <1>2, <2>1, <1>0 DEF ImportTable, RowsTyped, rows, history, UnlockUpload, CreateTableTyped, Tables, Sources
  <2> QED BY <2>2, <2>3, TypeParts
<1>3. CASE ImportRows(r)
  <2>1. req[r].pc = "rows" /\ req[r].src \in Files
    BY <1>3, <1>0 DEF ImportRows, At, FilePcs, PgPcs, BothPcs
  <2>2. req' \in [Requests -> Locals] /\ \A q \in Requests : Fit(req'[q])
    BY <1>3, <2>1, <1>0, GotoFits, EndsFits DEF ImportRows, FilePcs, PgPcs, BothPcs, ObjectPcs, Snapped, Sources, UnlockUpload
  <2>3. RowsTyped'
    BY <1>3, <2>1, <1>0 DEF ImportRows, RowsTyped, rows, history, UnlockUpload, Tables
  <2> QED BY <2>2, <2>3, TypeParts
<1>4. CASE ExtractSchema(r)
  <2>1. req[r].pc = "schema" /\ req[r].src \in Files
    BY <1>4, <1>0 DEF ExtractSchema, At, FilePcs, PgPcs, BothPcs
  <2>2. req' \in [Requests -> Locals] /\ \A q \in Requests : Fit(req'[q])
    BY <1>4, <2>1, <1>0, GotoFits, EndsFits DEF ExtractSchema, FilePcs, PgPcs, BothPcs, ObjectPcs, Snapped, Sources, UnlockUpload
  <2>3. RowsTyped'
    BY <1>4, <2>1, <1>0 DEF ExtractSchema, RowsTyped, rows, history, UnlockUpload
  <2> QED BY <2>2, <2>3, TypeParts
<1> QED BY <1>1, <1>2, <1>3, <1>4

(* The steps that only move, or also set the status.                       *)
LEMMA PgImportTyped ==
  ASSUME TypeInv, NEW r \in Requests,
         LockUpload(r) \/ StreamTable(r) \/ StreamRows(r) \/ MarkReady(r) \/ CreateProfile(r)
  PROVE  TypeInv'
<1>0. /\ RowsTyped /\ req \in [Requests -> Locals] /\ req[r] \in Locals
      /\ req[r].pc \in FilePcs => req[r].src \in Files
      /\ req[r].pc \in PgPcs => req[r].src \in Pgs
      /\ req[r].pc \in BothPcs => req[r].src \in Sources
      /\ req[r].pc \in ObjectPcs /\ req[r].src \in Pgs => req[r].object \in Objects
  BY AtStep
<1>1. CASE LockUpload(r)
  <2>1. req[r].pc = "lock" /\ req[r].src \in Sources
    BY <1>1, <1>0 DEF LockUpload, At, FilePcs, PgPcs, BothPcs
  <2>2. req' \in [Requests -> Locals] /\ \A q \in Requests : Fit(req'[q])
    BY <1>1, <2>1, <1>0, GotoFits, EndsFits DEF LockUpload, FilePcs, PgPcs, BothPcs, ObjectPcs, Snapped, Sources
  <2>3. RowsTyped'
    BY <1>1, <2>1, <1>0 DEF LockUpload, RowsTyped, rows, history
  <2> QED BY <2>2, <2>3, TypeParts
<1>2. CASE StreamTable(r)
  <2>1. req[r].pc = "stream" /\ req[r].src \in Pgs
    BY <1>2, <1>0 DEF StreamTable, At, FilePcs, PgPcs, BothPcs
  <2>2. req' \in [Requests -> Locals] /\ \A q \in Requests : Fit(req'[q])
    BY <1>2, <2>1, <1>0, GotoFits, EndsFits DEF StreamTable, FilePcs, PgPcs, BothPcs, ObjectPcs, Snapped, Sources, UnlockUpload, StreamFails
  <2>3. RowsTyped'
    BY <1>2, <2>1, <1>0, SnapStep DEF StreamTable, RowsTyped, rows, history, UnlockUpload, StreamFails, CreateTableTyped, Tables, Sources, PgTables
  <2> QED BY <2>2, <2>3, TypeParts
<1>3. CASE StreamRows(r)
  <2>1. req[r].pc = "copy" /\ req[r].src \in Pgs
    BY <1>3, <1>0 DEF StreamRows, At, FilePcs, PgPcs, BothPcs
  <2>2. req' \in [Requests -> Locals] /\ \A q \in Requests : Fit(req'[q])
    BY <1>3, <2>1, <1>0, GotoFits, EndsFits DEF StreamRows, FilePcs, PgPcs, BothPcs, ObjectPcs, Snapped, Sources, UnlockUpload, StreamFails
  <2>3. RowsTyped'
    BY <1>3, <2>1, <1>0, SnapStep DEF StreamRows, RowsTyped, rows, history, UnlockUpload, StreamFails
  <2> QED BY <2>2, <2>3, TypeParts
<1>4. CASE MarkReady(r)
  <2>1. req[r].pc = "ready" /\ req[r].src \in Pgs
    BY <1>4, <1>0 DEF MarkReady, At, FilePcs, PgPcs, BothPcs
  <2>2. req' \in [Requests -> Locals] /\ \A q \in Requests : Fit(req'[q])
    BY <1>4, <2>1, <1>0, GotoFits, EndsFits DEF MarkReady, FilePcs, PgPcs, BothPcs, ObjectPcs, Snapped, Sources, UnlockUpload
  <2>3. RowsTyped'
    BY <1>4, <2>1, <1>0, SnapStep DEF MarkReady, RowsTyped, rows, history, UnlockUpload
  <2> QED BY <2>2, <2>3, TypeParts
<1>5. CASE CreateProfile(r)
  <2>1. req[r].pc = "profile" /\ req[r].src \in Sources
    BY <1>5, <1>0 DEF CreateProfile, At, FilePcs, PgPcs, BothPcs
  <2>2. req' \in [Requests -> Locals] /\ \A q \in Requests : Fit(req'[q])
    BY <1>5, <2>1, <1>0, GotoFits, EndsFits DEF CreateProfile, FilePcs, PgPcs, BothPcs, ObjectPcs, Snapped, Sources, UnlockUpload
  <2>3. RowsTyped'
    BY <1>5, <2>1, <1>0, SnapStep DEF CreateProfile, RowsTyped, rows, history, UnlockUpload
  <2> QED BY <2>2, <2>3, TypeParts
<1> QED BY <1>1, <1>2, <1>3, <1>4, <1>5

(* The steps of a removal, a deletion and a connection test.               *)
LEMMA RemovalTyped ==
  ASSUME TypeInv, NEW r \in Requests,
         RemoveSnapshots(r) \/ RemoveBinding(r) \/ DropTables(r) \/ DeleteRow(r) \/ TestWrite(r)
  PROVE  TypeInv'
<1>0. /\ RowsTyped /\ req \in [Requests -> Locals] /\ req[r] \in Locals
      /\ req[r].pc \in FilePcs => req[r].src \in Files
      /\ req[r].pc \in PgPcs => req[r].src \in Pgs
      /\ req[r].pc \in BothPcs => req[r].src \in Sources
      /\ req[r].pc \in ObjectPcs /\ req[r].src \in Pgs => req[r].object \in Objects
  BY AtStep
<1>1. CASE RemoveSnapshots(r)
  <2>1. req[r].pc = "removesnaps" /\ req[r].src \in Sources
    BY <1>1, <1>0 DEF RemoveSnapshots, At, FilePcs, PgPcs, BothPcs
  <2>2. req' \in [Requests -> Locals] /\ \A q \in Requests : Fit(req'[q])
    BY <1>1, <2>1, <1>0, GotoFits, EndsFits DEF RemoveSnapshots, FilePcs, PgPcs, BothPcs, ObjectPcs, Snapped, Sources
  <2>3. RowsTyped'
    BY <1>1, <2>1, <1>0, Rows DEF RemoveSnapshots, RowsTyped, rows, history
  <2> QED BY <2>2, <2>3, TypeParts
<1>2. CASE RemoveBinding(r)
  <2>1. req[r].pc = "removebinding" /\ req[r].src \in Sources
    BY <1>2, <1>0 DEF RemoveBinding, At, FilePcs, PgPcs, BothPcs
  <2>2. req' \in [Requests -> Locals] /\ \A q \in Requests : Fit(req'[q])
    BY <1>2, <2>1, <1>0, GotoFits, EndsFits DEF RemoveBinding, FilePcs, PgPcs, BothPcs, ObjectPcs, Snapped, Sources
  <2>3. RowsTyped'
    BY <1>2, <2>1, <1>0 DEF RemoveBinding, RowsTyped, rows, history
  <2> QED BY <2>2, <2>3, TypeParts
<1>3. CASE DropTables(r)
  <2>1. req[r].pc = "drop" /\ req[r].src \in Sources
    BY <1>3, <1>0 DEF DropTables, At, FilePcs, PgPcs, BothPcs
  <2>2. req' \in [Requests -> Locals] /\ \A q \in Requests : Fit(req'[q])
    BY <1>3, <2>1, <1>0, GotoFits, EndsFits DEF DropTables, FilePcs, PgPcs, BothPcs, ObjectPcs, Snapped, Sources
  <2>3. RowsTyped'
    BY <1>3, <2>1, <1>0 DEF DropTables, RowsTyped, rows, history
  <2> QED BY <2>2, <2>3, TypeParts
<1>4. CASE DeleteRow(r)
  <2>1. req[r].pc = "deleterow" /\ req[r].src \in Pgs
    BY <1>4, <1>0 DEF DeleteRow, At, FilePcs, PgPcs, BothPcs
  <2>2. req' \in [Requests -> Locals] /\ \A q \in Requests : Fit(req'[q])
    BY <1>4, <2>1, <1>0, GotoFits, EndsFits DEF DeleteRow, FilePcs, PgPcs, BothPcs, ObjectPcs, Snapped, Sources
  <2>3. RowsTyped'
    BY <1>4, <2>1, <1>0, Rows DEF DeleteRow, RowsTyped, rows, history, Sources
  <2> QED BY <2>2, <2>3, TypeParts
<1>5. CASE TestWrite(r)
  <2>1. req[r].pc = "testwrite" /\ req[r].src \in Pgs
    BY <1>5, <1>0 DEF TestWrite, At, FilePcs, PgPcs, BothPcs
  <2>2. req' \in [Requests -> Locals] /\ \A q \in Requests : Fit(req'[q])
    BY <1>5, <2>1, <1>0, GotoFits, EndsFits DEF TestWrite, FilePcs, PgPcs, BothPcs, ObjectPcs, Snapped, Sources
  <2>3. RowsTyped'
    BY <1>5, <2>1, <1>0 DEF TestWrite, RowsTyped, rows, history, Locals
  <2> QED BY <2>2, <2>3, TypeParts
<1> QED BY <1>1, <1>2, <1>3, <1>4, <1>5

(* A new snapshot beside the others.                                       *)
LEMMA NewSnapshotStep ==
  ASSUME RowsTyped, NEW s \in Sources, NEW t \in Tables, NEW st \in {"creating", "ready"},
         NEW others \in [Snaps -> SnapshotRow], NewSnapshot(s, t, st, others)
  PROVE  /\ snap' \in [Snaps -> SnapshotRow] /\ made' \in Snaps /\ made' = made + 1 /\ s \in source
         /\ snap'[made + 1] = [src |-> s, table |-> t, status |-> st]
         /\ \A j \in Snaps \ {made + 1} : snap'[j] = others[j]
<1>1. made' = made + 1 /\ made + 1 \in Snaps /\ s \in source
  BY DEF NewSnapshot, Snaps, RowsTyped
<1>2. [src |-> s, table |-> t, status |-> st] \in SnapshotRow
  BY DEF SnapshotRow
<1> QED BY <1>1, <1>2 DEF NewSnapshot

(* The locals once a snapshot is made.                                     *)
LEMMA SnappedFits ==
  ASSUME TypeInv, NEW r \in Requests, made + 1 \in Snaps, req[r].src \in Sources,
         req[r].src \in Pgs => req[r].object \in Objects,
         req' = [req EXCEPT ![r].pc = "bind", ![r].snap = made + 1]
  PROVE  /\ req' \in [Requests -> Locals] /\ \A q \in Requests : Fit(req'[q])
         /\ req'[r].pc = "bind" /\ req'[r].snap = made + 1 /\ req'[r].src = req[r].src
         /\ req'[r].object = req[r].object /\ req'[r].allowed = req[r].allowed
<1> DEFINE l == [req[r] EXCEPT !.pc = "bind", !.snap = made + 1]
<1>1. req[r] \in Locals /\ req \in [Requests -> Locals]
  BY AtStep
<1>2. /\ l \in Locals /\ l.pc = "bind" /\ l.src = req[r].src /\ l.object = req[r].object
      /\ l.snap = made + 1 /\ l.allowed = req[r].allowed
  <2>1. made + 1 \in 0..MaxSnaps
    BY DEF Snaps
  <2> QED BY <1>1, <2>1 DEF Locals, BothPcs
<1>3. req' = [req EXCEPT ![r] = l]
  BY <1>1
<1> HIDE DEF l
<1>4. Fit(l)
  BY <1>2 DEF Fit, FilePcs, PgPcs, BothPcs, ObjectPcs, Snapped
<1> QED BY <1>1, <1>2, <1>3, <1>4, ReqFits

LEMMA SnapshotTyped ==
  ASSUME TypeInv, NEW r \in Requests, CreateSnapshot(r) \/ PreSnapshot(r)
  PROVE  TypeInv'
<1>0. /\ RowsTyped /\ req \in [Requests -> Locals] /\ req[r] \in Locals
      /\ req[r].pc \in FilePcs => req[r].src \in Files
      /\ req[r].pc \in PgPcs => req[r].src \in Pgs
      /\ req[r].pc \in ObjectPcs /\ req[r].src \in Pgs => req[r].object \in Objects
  BY AtStep
<1>1. CASE CreateSnapshot(r)
  <2> DEFINE f == req[r].src
             cleaned == [i \in Snaps |-> IF i \in SnapsOf(f) THEN NoSnap ELSE snap[i]]
  <2>1. f \in Files /\ f \in Sources /\ f \in Tables /\ f \notin Pgs
    BY <1>0, <1>1 DEF CreateSnapshot, At, FilePcs, Sources, Tables
  <2>2. cleaned \in [Snaps -> SnapshotRow]
    BY <1>0, Rows DEF RowsTyped
  <2>3. UNCHANGED <<file, source, conn, binding, table, wanted, panicked>>
    BY <1>1 DEF CreateSnapshot, history
  <2>4. CASE NewSnapshot(f, f, "ready", cleaned) /\ req' = [req EXCEPT ![r].pc = "bind", ![r].snap = made + 1]
             /\ lock' = lock
    <3> HIDE DEF f, cleaned
    <3>1. snap' \in [Snaps -> SnapshotRow] /\ made' \in Snaps /\ made' = made + 1
      BY <2>1, <2>2, <2>4, <1>0, NewSnapshotStep
    <3>2. req' \in [Requests -> Locals] /\ \A q \in Requests : Fit(req'[q])
      BY <2>1, <2>4, <3>1, SnappedFits DEF f
    <3>3. RowsTyped'
      BY <1>0, <2>3, <2>4, <3>1 DEF RowsTyped, Snaps
    <3> QED BY <3>2, <3>3, TypeParts
  <2>5. CASE snap' = cleaned /\ made' = made /\ UnlockUpload(r)
    <3>1. req' \in [Requests -> Locals] /\ \A q \in Requests : Fit(req'[q])
      BY <2>5, EndsFits DEF UnlockUpload
    <3>2. RowsTyped'
      <4> HIDE DEF cleaned
      <4> QED BY <1>0, <2>2, <2>3, <2>5 DEF RowsTyped, UnlockUpload
    <3> QED BY <3>1, <3>2, TypeParts
  <2> QED BY <1>1, <2>4, <2>5 DEF CreateSnapshot
<1>2. CASE PreSnapshot(r)
  <2>1. /\ req[r].src \in Pgs /\ req[r].src \in Sources /\ req[r].object \in Objects
        /\ TableOf[req[r].object] \in Tables
    BY <1>0, <1>2 DEF PreSnapshot, At, PgPcs, ObjectPcs, Sources, Tables
  <2>2. UNCHANGED <<file, source, conn, binding, table, wanted, panicked>>
    BY <1>2 DEF PreSnapshot, history
  <2>3. CASE /\ NewSnapshot(req[r].src, TableOf[req[r].object], "creating", snap)
             /\ req' = [req EXCEPT ![r].pc = "bind", ![r].snap = made + 1] /\ lock' = lock
    <3>1. snap' \in [Snaps -> SnapshotRow] /\ made' \in Snaps /\ made' = made + 1
      <4>1. snap \in [Snaps -> SnapshotRow]
        BY <1>0 DEF RowsTyped
      <4> QED BY <2>1, <2>3, <4>1, <1>0, NewSnapshotStep
    <3>2. req' \in [Requests -> Locals] /\ \A q \in Requests : Fit(req'[q])
      BY <2>1, <2>3, <3>1, SnappedFits
    <3>3. RowsTyped'
      BY <1>0, <2>2, <2>3, <3>1 DEF RowsTyped, Snaps
    <3> QED BY <3>2, <3>3, TypeParts
  <2>4. CASE UNCHANGED <<snap, made>> /\ UnlockUpload(r)
    <3>1. req' \in [Requests -> Locals] /\ \A q \in Requests : Fit(req'[q])
      BY <2>4, EndsFits DEF UnlockUpload
    <3>2. RowsTyped'
      BY <1>0, <2>2, <2>4 DEF RowsTyped, UnlockUpload
    <3> QED BY <3>1, <3>2, TypeParts
  <2> QED BY <1>2, <2>3, <2>4 DEF PreSnapshot
<1> QED BY <1>1, <1>2

LEMMA CheckTyped ==
  ASSUME TypeInv, NEW r \in Requests, CheckAllowlist(r) \/ UpsertBinding(r) \/ ImportBreaks(r)
  PROVE  TypeInv'
<1>0. /\ RowsTyped /\ req \in [Requests -> Locals] /\ req[r] \in Locals
      /\ req[r].pc \in PgPcs => req[r].src \in Pgs
      /\ req[r].pc \in BothPcs => req[r].src \in Sources
      /\ req[r].pc \in ObjectPcs /\ req[r].src \in Pgs => req[r].object \in Objects
  BY AtStep
<1>1. CASE CheckAllowlist(r)
  <2>1. req[r].src \in Pgs /\ req[r].object \in Objects
    BY <1>0, <1>1 DEF CheckAllowlist, At, PgPcs, ObjectPcs
  <2>2. RowsTyped'
    BY <1>0, <1>1 DEF CheckAllowlist, RowsTyped, rows, history, UnlockUpload
  <2> DEFINE l == [req[r] EXCEPT !.pc = "presnapshot",
                                 !.allowed = req[r].object \in wanted[req[r].src] \/ req[r].src \in reverted]
  <2>3. CASE req' = [req EXCEPT ![r] = l]
    <3>1. l \in Locals /\ l.pc = "presnapshot" /\ l.src = req[r].src /\ l.object = req[r].object
      BY <1>0 DEF Locals, PgPcs
    <3> HIDE DEF l
    <3>2. Fit(l)
      BY <2>1, <3>1 DEF Fit, FilePcs, PgPcs, BothPcs, ObjectPcs, Snapped
    <3> QED BY <2>2, <2>3, <3>2, ReqFits, TypeParts
  <2>4. CASE UnlockUpload(r)
    BY <2>2, <2>4, EndsFits, TypeParts DEF UnlockUpload
  <2> QED BY <1>0, <1>1, <2>3, <2>4 DEF CheckAllowlist
<1>2. CASE UpsertBinding(r)
  <2>1. /\ req[r].pc = "bind" /\ req[r].src \in Sources /\ req[r].snap \in 0..MaxSnaps
        /\ req[r].src \notin Files => req[r].src \in Pgs /\ req[r].object \in Objects
    BY <1>0, <1>2 DEF UpsertBinding, At, BothPcs, Locals, Sources, ObjectPcs, Snapped
  <2>2. req' \in [Requests -> Locals] /\ \A q \in Requests : Fit(req'[q])
    BY <1>2, <2>1, GotoFits, EndsFits DEF UpsertBinding, UnlockUpload, BothPcs, PgPcs, ObjectPcs, Snapped
  <2>3. RowsTyped'
    BY <1>0, <1>2, <2>1, SnapStep DEF UpsertBinding, RowsTyped, history, UnlockUpload
  <2> QED BY <2>2, <2>3, TypeParts
<1>3. CASE ImportBreaks(r)
  <2>1. req' \in [Requests -> Locals] /\ \A q \in Requests : Fit(req'[q])
    BY <1>3, EndsFits DEF ImportBreaks, UnlockUpload
  <2>2. RowsTyped'
    <3>1. snap' = snap \/ UpdateStatus(req[r].snap, "failed")
      BY <1>3 DEF ImportBreaks, UpdateStatus
    <3>2. snap' \in [Snaps -> SnapshotRow]
      BY <1>0, <3>1, SnapStep DEF RowsTyped
    <3> QED BY <1>0, <1>3, <3>2 DEF ImportBreaks, RowsTyped, UnlockUpload
  <2> QED BY <2>1, <2>2, TypeParts
<1> QED BY <1>1, <1>2, <1>3

(* A request begins: what it knows, and that the rest stays.               *)
Begun(r) == 
    /\ UNCHANGED <<source, conn, snap, made, binding, table, lock, history>>
    /\ req' \in [Requests -> Locals] /\ Fit(req'[r]) /\ \A q \in Requests \ {r} : req'[q] = req[q]
    /\ req'[r].pc \in {"row", "lock", "removesnaps", "deleterow", "testwrite"} /\ req'[r].allowed
    /\ req'[r].pc = "lock" => req'[r].src \in Pgs
    /\ \/ req'[r].pc = "row" /\ req'[r].src \notin source /\ file[req'[r].src] = NoFile
          /\ file' = [file EXCEPT ![req'[r].src].object = TRUE]
       \/ req'[r].pc # "row" /\ file' = file

LEMMA BeginStep ==
  ASSUME TypeInv, NEW r \in Requests,
         \/ \E f \in Files : PutObject(r, f)
         \/ \E s \in Pgs, o \in Objects : ImportDataSource(r, s, o)
         \/ \E s \in Sources : RemoveSessionSource(r, s)
         \/ \E s \in Pgs : DeleteDataSource(r, s) \/ TestDataSource(r, s)
  PROVE  req[r] = Idle /\ Begun(r)
<1>0. /\ RowsTyped /\ req \in [Requests -> Locals] /\ Idle \in Locals
      /\ req[r].pc = "idle" => req[r] = Idle
  BY AtStep, Rows
<1> USE DEF At
<1>1. ASSUME NEW f \in Files, PutObject(r, f) PROVE req[r] = Idle /\ Begun(r)
  <2>1. req[r] = Idle /\ req' = [req EXCEPT ![r] = [Idle EXCEPT !.pc = "row", !.src = f]]
    BY <1>0, <1>1 DEF PutObject
  <2> DEFINE l == [Idle EXCEPT !.pc = "row", !.src = f]
  <2>2. l \in Locals /\ l.pc = "row" /\ l.src = f /\ l.allowed
    BY <1>0 DEF Idle, Locals, FilePcs, Sources
  <2> HIDE DEF l
  <2>4. Fit(l)
    BY <2>2 DEF Fit, FilePcs, PgPcs, BothPcs, ObjectPcs, Snapped
  <2>5. req' \in [Requests -> Locals] /\ req'[r] = l /\ \A q \in Requests \ {r} : req'[q] = req[q]
    BY <1>0, <2>1, <2>2 DEF l
  <2>6. UNCHANGED <<source, conn, snap, made, binding, table, lock, history>>
    BY <1>1 DEF PutObject, rows
  <2> QED BY <1>1, <2>1, <2>2, <2>4, <2>5, <2>6 DEF PutObject, Begun
<1>2. ASSUME NEW s \in Pgs, NEW o \in Objects, ImportDataSource(r, s, o) PROVE req[r] = Idle /\ Begun(r)
  <2>1. req[r] = Idle /\ req' = [req EXCEPT ![r] = [Idle EXCEPT !.pc = "lock", !.src = s, !.object = o]]
    BY <1>0, <1>2 DEF ImportDataSource
  <2> DEFINE l == [Idle EXCEPT !.pc = "lock", !.src = s, !.object = o]
  <2>2. l \in Locals /\ l.pc = "lock" /\ l.src = s /\ l.object = o /\ l.allowed /\ s \in Sources
    BY <1>0 DEF Idle, Locals, BothPcs, Sources
  <2> HIDE DEF l
  <2>4. Fit(l)
    BY <2>2 DEF Fit, FilePcs, PgPcs, BothPcs, ObjectPcs, Snapped
  <2>5. req' \in [Requests -> Locals] /\ req'[r] = l /\ \A q \in Requests \ {r} : req'[q] = req[q]
    BY <1>0, <2>1, <2>2 DEF l
  <2>6. UNCHANGED <<source, conn, snap, made, binding, table, lock, history>>
    BY <1>2 DEF ImportDataSource, rows
  <2> QED BY <1>2, <2>1, <2>2, <2>4, <2>5, <2>6 DEF ImportDataSource, Begun
<1>3. ASSUME NEW s \in Sources, RemoveSessionSource(r, s) PROVE req[r] = Idle /\ Begun(r)
  <2> DEFINE ts == {snap[binding[s]].table} \ {None}
             l == [Idle EXCEPT !.pc = "removesnaps", !.src = s, !.tables = ts]
  <2>1. req[r] = Idle /\ req' = [req EXCEPT ![r] = l]
    BY <1>0, <1>3 DEF RemoveSessionSource
  <2>2. ts \subseteq Tables \cup {None}
    <3>1. binding[s] \in Snaps
      <4>1. binding[s] # 0
        BY <1>3 DEF RemoveSessionSource
      <4>2. binding[s] \in 0..MaxSnaps
        BY <1>0 DEF RowsTyped
      <4> QED BY <4>1, <4>2 DEF Snaps
    <3> QED BY <1>0, <3>1 DEF RowsTyped, SnapshotRow
  <2> HIDE DEF ts
  <2>3. l \in Locals /\ l.pc = "removesnaps" /\ l.src = s /\ l.allowed
    BY <1>0, <2>2 DEF Idle, Locals, BothPcs
  <2> HIDE DEF l
  <2>4. Fit(l)
    BY <2>3 DEF Fit, FilePcs, PgPcs, BothPcs, ObjectPcs, Snapped
  <2>5. req' \in [Requests -> Locals] /\ req'[r] = l /\ \A q \in Requests \ {r} : req'[q] = req[q]
    BY <1>0, <2>1, <2>3
  <2>6. UNCHANGED <<source, conn, snap, made, binding, table, lock, history>>
    BY <1>3 DEF RemoveSessionSource, rows
  <2> QED BY <1>3, <2>1, <2>3, <2>4, <2>5, <2>6 DEF RemoveSessionSource, Begun
<1>4. ASSUME NEW s \in Pgs, DeleteDataSource(r, s) PROVE req[r] = Idle /\ Begun(r)
  <2> DEFINE ts == {snap[i].table : i \in SnapsOf(s)}
             l == [Idle EXCEPT !.pc = "deleterow", !.src = s, !.tables = ts]
  <2>1. req[r] = Idle /\ req' = [req EXCEPT ![r] = l]
    BY <1>0, <1>4 DEF DeleteDataSource
  <2>2. ts \subseteq Tables \cup {None}
    BY <1>0 DEF RowsTyped, SnapshotRow, SnapsOf
  <2> HIDE DEF ts
  <2>3. l \in Locals /\ l.pc = "deleterow" /\ l.src = s /\ l.allowed
    BY <1>0, <2>2 DEF Idle, Locals, PgPcs, Sources
  <2> HIDE DEF l
  <2>4. Fit(l)
    BY <2>3 DEF Fit, FilePcs, PgPcs, BothPcs, ObjectPcs, Snapped
  <2>5. req' \in [Requests -> Locals] /\ req'[r] = l /\ \A q \in Requests \ {r} : req'[q] = req[q]
    BY <1>0, <2>1, <2>3
  <2>6. UNCHANGED <<source, conn, snap, made, binding, table, lock, history>>
    BY <1>4 DEF DeleteDataSource, rows
  <2> QED BY <1>4, <2>1, <2>3, <2>4, <2>5, <2>6 DEF DeleteDataSource, Begun
<1>5. ASSUME NEW s \in Pgs, TestDataSource(r, s) PROVE req[r] = Idle /\ Begun(r)
  <2> DEFINE l == [Idle EXCEPT !.pc = "testwrite", !.src = s, !.copy = conn[s]]
  <2>1. req[r] = Idle /\ req' = [req EXCEPT ![r] = l]
    BY <1>0, <1>5 DEF TestDataSource
  <2>2. l \in Locals /\ l.pc = "testwrite" /\ l.src = s /\ l.allowed
    BY <1>0 DEF Idle, Locals, PgPcs, Sources, RowsTyped
  <2> HIDE DEF l
  <2>4. Fit(l)
    BY <2>2 DEF Fit, FilePcs, PgPcs, BothPcs, ObjectPcs, Snapped
  <2>5. req' \in [Requests -> Locals] /\ req'[r] = l /\ \A q \in Requests \ {r} : req'[q] = req[q]
    BY <1>0, <2>1, <2>2
  <2>6. UNCHANGED <<source, conn, snap, made, binding, table, lock, history>>
    BY <1>5 DEF TestDataSource, rows
  <2> QED BY <1>5, <2>1, <2>2, <2>4, <2>5, <2>6 DEF TestDataSource, Begun
<1> QED BY <1>1, <1>2, <1>3, <1>4, <1>5

LEMMA ConnectionTyped ==
  ASSUME TypeInv, NEW s \in Pgs, NEW allow \in SUBSET Objects,
         CreateDataSource(s, allow) \/ UpdateDataSource(s, allow)
  PROVE  TypeInv'
<1>1. RowsTyped /\ req \in [Requests -> Locals] /\ \A q \in Requests : Fit(req[q])
  BY TypeInvIs DEF RowsTyped
<1>2. [row |-> TRUE, allow |-> allow] \in ConnRow
  BY DEF ConnRow
<1>3. req' = req /\ RowsTyped'
  <2>1. conn' = conn \/ conn' = [conn EXCEPT ![s] = [row |-> TRUE, allow |-> allow]]
    BY DEF CreateDataSource, CreatePostgresSource, UpdateDataSource
  <2>2. conn' \in [Pgs -> ConnRow]
    BY <1>1, <1>2, <2>1 DEF RowsTyped
  <2>3. /\ wanted' = [wanted EXCEPT ![s] = allow] /\ source' \in {source, source \cup {s}}
        /\ UNCHANGED <<file, snap, made, binding, table, req, lock, panicked>>
    BY DEF CreateDataSource, CreatePostgresSource, UpdateDataSource
  <2> QED BY <1>1, <2>2, <2>3 DEF RowsTyped, Sources
<1> QED BY <1>1, <1>3, TypeParts

LEMMA ResetTyped == ASSUME TypeInv, ResetDB \/ Restart PROVE TypeInv'
<1>1. RowsTyped /\ req \in [Requests -> Locals] /\ \A q \in Requests : Fit(req[q])
  BY TypeInvIs DEF RowsTyped
<1>2. Fit(Idle)
  BY Rows DEF Fit, FilePcs, PgPcs, BothPcs, ObjectPcs, Snapped
<1>3. CASE ResetDB
  BY <1>1, <1>3, TypeParts DEF ResetDB, rows, RowsTyped
<1>4. CASE Restart
  BY <1>1, <1>2, <1>4, Rows, TypeParts DEF Restart, rows, RowsTyped
<1> QED BY <1>3, <1>4

LEMMA BegunTyped == ASSUME TypeInv, NEW r \in Requests, Begun(r) PROVE TypeInv'
<1>1. RowsTyped /\ \A q \in Requests : Fit(req[q])
  BY TypeInvIs DEF RowsTyped
<1>2. \A q \in Requests : Fit(req'[q])
  BY <1>1 DEF Begun
<1>3. RowsTyped'
  <2>1. file' \in [Files -> FileRow]
    <3>1. req'[r].pc = "row" => req'[r].src \in Files
      BY DEF Begun, Fit, FilePcs
    <3> QED BY <1>1, <3>1, FileStep DEF Begun, RowsTyped
  <2> QED BY <1>1, <2>1 DEF Begun, RowsTyped, history
<1> QED BY <1>2, <1>3, TypeParts DEF Begun

(* The cases of a step, for the inductions below.                          *)
LEMMA NextCases ==
  ASSUME TypeInv, [Next]_vars
  PROVE  \/ \E r \in Requests : Step(r)
         \/ \E r \in Requests : req[r] = Idle /\ Begun(r)
         \/ \E s \in Pgs, allow \in SUBSET Objects : CreateDataSource(s, allow) \/ UpdateDataSource(s, allow)
         \/ ResetDB \/ Restart
         \/ UNCHANGED <<file, source, conn, snap, made, binding, table, req, lock, history>>
<1>1. CASE UNCHANGED vars
  BY <1>1 DEF vars, history
<1>2. CASE Begin
  BY <1>2, BeginStep DEF Begin
<1>3. CASE (\E r \in Requests : Step(r)) \/ ResetDB \/ Restart
  BY <1>3
<1> QED BY <1>1, <1>2, <1>3 DEF Next

(* Every variable has its type and every request the locals its next step  *)
(* reads.                                                                  *)
THEOREM TypeInvariance == Spec => []TypeInv
<1>1. ASSUME TypeInv, [Next]_vars PROVE TypeInv'
  <2>1. ASSUME NEW r \in Requests, Step(r) PROVE TypeInv'
    BY <1>1, <2>1, UploadTyped, FileImportTyped, PgImportTyped, RemovalTyped, SnapshotTyped, CheckTyped DEF Step
  <2>2. CASE UNCHANGED <<file, source, conn, snap, made, binding, table, req, lock, history>>
    BY <1>1, <2>2 DEF history, TypeInv, TypeOK, LocalsSet, At
  <2> QED BY <1>1, <2>1, <2>2, NextCases, BegunTyped, ConnectionTyped, ResetTyped
<1> QED BY <1>1, InitType, PTL DEF Spec

---------------------------------------------------------------------------
(* The upload lock *)

LEMMA LockMoves ==
  ASSUME TypeInv, LockHeldByImport, NEW r \in Requests, Step(r)
  PROVE  /\ \A q \in Requests \ {r} : req'[q] = req[q]
         /\ \/ /\ UNCHANGED <<lock, panicked>>
               /\ req'[r].pc \in UnderLock <=> req[r].pc \in UnderLock
            \/ lock = None /\ lock' = r /\ panicked' = panicked /\ req'[r].pc \in UnderLock
            \/ /\ req[r].pc \in UnderLock /\ lock' = None /\ req'[r].pc \notin UnderLock
               /\ panicked' \subseteq panicked
            \/ UNCHANGED <<lock, panicked>> /\ r \in panicked /\ lock = r /\ req'[r].pc \notin UnderLock
<1>0. req \in [Requests -> Locals] /\ req[r] \in Locals
  BY AtStep
<1>1. \A pc : Goto(r, pc) => req'[r].pc = pc /\ \A q \in Requests \ {r} : req'[q] = req[q]
  BY <1>0 DEF Goto, Locals
<1>2. Ends(r) => req'[r].pc = "idle" /\ \A q \in Requests \ {r} : req'[q] = req[q]
  BY <1>0, Rows DEF Ends
<1> USE <1>1, <1>2 DEF At, UnderLock, UsesDB, history, UnlockUpload
<1>3. CASE CreateFileRow(r) \/ AttachFileToSession(r) \/ EnsureFileSource(r)
  BY <1>3 DEF CreateFileRow, AttachFileToSession, EnsureFileSource
<1>4. CASE LockUpload(r) \/ MaterializeToTemp(r) \/ ImportTable(r) \/ ImportRows(r) \/ ExtractSchema(r)
  BY <1>4 DEF LockUpload, MaterializeToTemp, ImportTable, ImportRows, ExtractSchema
<1>5. CASE CreateSnapshot(r) \/ CheckAllowlist(r) \/ PreSnapshot(r)
  <2>1. CASE req'[r].pc \in {"bind", "presnapshot"} /\ \A q \in Requests \ {r} : req'[q] = req[q]
    BY <1>5, <2>1 DEF CreateSnapshot, CheckAllowlist, PreSnapshot
  <2>2. CASE UnlockUpload(r)
    BY <1>5, <2>2 DEF CreateSnapshot, CheckAllowlist, PreSnapshot
  <2> QED BY <1>0, <1>5, <2>1, <2>2 DEF CreateSnapshot, CheckAllowlist, PreSnapshot, Locals
<1>6. CASE UpsertBinding(r) \/ StreamTable(r) \/ StreamRows(r)
  BY <1>6 DEF UpsertBinding, StreamTable, StreamRows, StreamFails
<1>7. CASE MarkReady(r) \/ CreateProfile(r)
  BY <1>7 DEF MarkReady, CreateProfile
<1>8. CASE RemoveSnapshots(r) \/ RemoveBinding(r) \/ DropTables(r) \/ DeleteRow(r) \/ TestWrite(r)
  BY <1>8 DEF RemoveSnapshots, RemoveBinding, DropTables, DeleteRow, TestWrite
<1>9. CASE ImportBreaks(r)
  BY <1>9 DEF ImportBreaks, LockHeldByImport
<1> QED BY <1>3, <1>4, <1>5, <1>6, <1>7, <1>8, <1>9 DEF Step

(* However imports end, the lock is held by the one that is under way.     *)
THEOREM LockHeld == Spec => []LockHeldByImport
<1>1. Init => LockHeldByImport
  BY Rows DEF Init, LockHeldByImport, UnderLock, UsesDB
<1>2. ASSUME TypeInv, LockHeldByImport, [Next]_vars PROVE LockHeldByImport'
  <2>1. lock \in Requests \cup {None} /\ None \notin Requests
    BY <1>2 DEF TypeInv, TypeOK, None
  <2>2. ASSUME NEW r \in Requests, Step(r) PROVE LockHeldByImport'
    BY <1>2, <2>1, <2>2, LockMoves DEF LockHeldByImport
  <2>3. ASSUME NEW r \in Requests, req[r] = Idle, Begun(r) PROVE LockHeldByImport'
    BY <1>2, <2>1, <2>3, Rows DEF Begun, LockHeldByImport, UnderLock, UsesDB, history
  <2>4. ASSUME NEW s \in Pgs, NEW allow \in SUBSET Objects,
               CreateDataSource(s, allow) \/ UpdateDataSource(s, allow)
        PROVE  LockHeldByImport'
    BY <1>2, <2>4 DEF CreateDataSource, UpdateDataSource, LockHeldByImport
  <2>5. CASE ResetDB
    BY <1>2, <2>5 DEF ResetDB, LockHeldByImport
  <2>6. CASE Restart
    BY <2>6, Rows DEF Restart, LockHeldByImport, UnderLock, UsesDB
  <2>7. CASE UNCHANGED <<file, source, conn, snap, made, binding, table, req, lock, history>>
    BY <1>2, <2>7 DEF history, LockHeldByImport
  <2> QED BY <1>2, <2>2, <2>3, <2>4, <2>5, <2>6, <2>7, NextCases
<1> QED BY <1>1, <1>2, TypeInvariance, PTL DEF Spec

---------------------------------------------------------------------------
(* Uploads and allowlists *)

(* What a step does to the locals of its request, besides its place.       *)
LEMMA StepLocals ==
  ASSUME TypeInv, NEW r \in Requests, Step(r)
  PROVE  /\ \A q \in Requests \ {r} : req'[q] = req[q]
         /\ \/ req'[r] = Idle
            \/ /\ req'[r].src = req[r].src /\ req'[r].object = req[r].object /\ req'[r].tables = req[r].tables
               /\ req'[r].allowed = req[r].allowed \/ CheckAllowlist(r)
               /\ req'[r].snap = req[r].snap \/ (req'[r].snap = made + 1 /\ (CreateSnapshot(r) \/ PreSnapshot(r)))
<1>0. req \in [Requests -> Locals] /\ req[r] \in Locals
  BY AtStep
<1> DEFINE Same == /\ req'[r].src = req[r].src /\ req'[r].object = req[r].object /\ req'[r].tables = req[r].tables
                   /\ \A q \in Requests \ {r} : req'[q] = req[q]
<1>1. \A pc : Goto(r, pc) => Same /\ req'[r].allowed = req[r].allowed /\ req'[r].snap = req[r].snap
  BY <1>0 DEF Goto, Locals
<1>2. Ends(r) => req'[r] = Idle /\ \A q \in Requests \ {r} : req'[q] = req[q]
  BY <1>0 DEF Ends
<1>3. CASE CreateFileRow(r) \/ AttachFileToSession(r) \/ EnsureFileSource(r)
  BY <1>1, <1>2, <1>3 DEF CreateFileRow, AttachFileToSession, EnsureFileSource
<1>4. CASE LockUpload(r) \/ MaterializeToTemp(r) \/ ImportTable(r) \/ ImportRows(r) \/ ExtractSchema(r)
  BY <1>1, <1>2, <1>4 DEF LockUpload, MaterializeToTemp, ImportTable, ImportRows, ExtractSchema, UnlockUpload
<1>5. CASE CreateSnapshot(r) \/ PreSnapshot(r)
  <2>1. CASE req' = [req EXCEPT ![r].pc = "bind", ![r].snap = made + 1]
    <3>1. Same /\ req'[r].allowed = req[r].allowed /\ req'[r].snap = made + 1
      BY <1>0, <2>1 DEF Locals
    <3> QED BY <1>5, <3>1
  <2> QED BY <1>2, <1>5, <2>1 DEF CreateSnapshot, PreSnapshot, UnlockUpload
<1>6. CASE CheckAllowlist(r)
  <2>1. ASSUME NEW b, req' = [req EXCEPT ![r].pc = "presnapshot", ![r].allowed = b]
        PROVE  Same /\ req'[r].snap = req[r].snap
    BY <1>0, <2>1 DEF Locals
  <2> QED BY <1>2, <1>6, <2>1 DEF CheckAllowlist, UnlockUpload
<1>7. CASE UpsertBinding(r) \/ StreamTable(r) \/ StreamRows(r)
  BY <1>1, <1>2, <1>7 DEF UpsertBinding, StreamTable, StreamRows, StreamFails, UnlockUpload
<1>8. CASE MarkReady(r) \/ CreateProfile(r)
  BY <1>1, <1>2, <1>8 DEF MarkReady, CreateProfile, UnlockUpload
<1>9. CASE RemoveSnapshots(r) \/ RemoveBinding(r) \/ DropTables(r) \/ DeleteRow(r) \/ TestWrite(r)
  BY <1>1, <1>2, <1>9 DEF RemoveSnapshots, RemoveBinding, DropTables, DeleteRow, TestWrite
<1>10. CASE ImportBreaks(r)
  BY <1>2, <1>10 DEF ImportBreaks, UnlockUpload
<1> QED BY <1>3, <1>4, <1>5, <1>6, <1>7, <1>8, <1>9, <1>10 DEF Step

(* The steps that touch files.                                             *)
LEMMA FileSteps ==
  ASSUME TypeInv, NEW r \in Requests, Step(r)
  PROVE  \/ CreateFileRow(r) \/ AttachFileToSession(r)
         \/ file' = file /\ ~Uploading(r) /\ ~Uploading(r)'
<1>0. req \in [Requests -> Locals] /\ req[r] \in Locals
  BY AtStep
<1>1. \A pc : Goto(r, pc) => req'[r].pc = pc
  BY <1>0 DEF Goto, Locals
<1>2. Ends(r) => req'[r].pc = "idle"
  BY <1>0, Rows DEF Ends
<1> USE <1>1, <1>2 DEF At, Uploading, UnlockUpload
<1>3. CASE EnsureFileSource(r) \/ LockUpload(r) \/ MaterializeToTemp(r) \/ ImportTable(r) \/ ImportRows(r) \/ ExtractSchema(r)
  BY <1>3 DEF EnsureFileSource, LockUpload, MaterializeToTemp, ImportTable, ImportRows, ExtractSchema
<1>4. CASE CreateSnapshot(r) \/ PreSnapshot(r) \/ CheckAllowlist(r)
  BY <1>0, <1>4 DEF CreateSnapshot, PreSnapshot, CheckAllowlist, Locals
<1>5. CASE UpsertBinding(r) \/ StreamTable(r) \/ StreamRows(r)
  BY <1>5 DEF UpsertBinding, StreamTable, StreamRows, StreamFails
<1>6. CASE MarkReady(r) \/ CreateProfile(r) \/ ImportBreaks(r)
  BY <1>6 DEF MarkReady, CreateProfile, ImportBreaks, UsesDB
<1>7. CASE RemoveSnapshots(r) \/ RemoveBinding(r) \/ DropTables(r) \/ DeleteRow(r) \/ TestWrite(r)
  BY <1>7 DEF RemoveSnapshots, RemoveBinding, DropTables, DeleteRow, TestWrite
<1> QED BY <1>3, <1>4, <1>5, <1>6, <1>7 DEF Step

FileInv == UploadsApart /\ FileReadable

LEMMA FileInvStep ==
  ASSUME TypeInv, FileInv, NEW r \in Requests, Step(r)
  PROVE  FileInv'
<1>0. /\ RowsTyped /\ req \in [Requests -> Locals] /\ req[r] \in Locals
      /\ req[r].pc \in FilePcs => req[r].src \in Files
  BY AtStep
<1>1. \A q \in Requests \ {r} : req'[q] = req[q]
  BY StepLocals
<1>2. ASSUME file' = file, ~Uploading(r)' PROVE FileInv'
  BY <1>1, <1>2 DEF FileInv, UploadsApart, FileReadable, Uploading, At
<1> DEFINE f == req[r].src
<1>3. ASSUME Uploading(r), Undo(f), Ends(r) PROVE FileInv'
  <2>1. f \in Files /\ file \in [Files -> FileRow]
    BY <1>0, <1>3 DEF Uploading, FilePcs, RowsTyped
  <2>2. ~file'[f].attached /\ \A g \in Files \ {f} : file'[g] = file[g]
    BY <1>3, <2>1 DEF Undo, FileRow
  <2>3. \A q \in Requests : Uploading(q)' => q # r /\ req'[q] = req[q] /\ Uploading(q) /\ req[q].src # f
                                             /\ req[q].src \in Files
    <3>1. req'[r].pc = "idle"
      BY <1>0, <1>3, Rows DEF Ends
    <3>2. \A q \in Requests : Uploading(q) => req[q].src \in Files
      BY AtStep DEF Uploading, FilePcs
    <3> QED BY <1>1, <1>3, <3>1, <3>2 DEF Uploading, FileInv, UploadsApart
  <2>4. UploadsApart'
    BY <2>2, <2>3 DEF FileInv, UploadsApart, At
  <2>5. FileReadable'
    BY <2>2 DEF FileInv, FileReadable
  <2> QED BY <2>4, <2>5 DEF FileInv
<1>4. ASSUME Uploading(r), req'[r].src = f, req'[r].pc \in {"attach", "source"},
             \/ req[r].pc = "row" /\ req'[r].pc = "attach" /\ file' = [file EXCEPT ![f].row = TRUE]
             \/ req[r].pc = "attach" /\ req'[r].pc = "source" /\ file' = [file EXCEPT ![f].attached = TRUE]
      PROVE  FileInv'
  <2>1. f \in Files /\ file \in [Files -> FileRow] /\ file[f].object
    BY <1>0, <1>4 DEF Uploading, FilePcs, RowsTyped, FileInv, UploadsApart
  <2>2. /\ file'[f].object /\ (req[r].pc = "row" => file'[f].row)
        /\ (file'[f].attached => file'[f].row) /\ \A g \in Files \ {f} : file'[g] = file[g]
    <3>1. req[r].pc = "attach" => file[f].row
      BY <1>4 DEF FileInv, UploadsApart, At
    <3> QED BY <1>4, <2>1, <3>1 DEF FileRow, FileInv, FileReadable
  <2>3. \A q \in Requests \ {r} : Uploading(q)' => req'[q] = req[q] /\ Uploading(q) /\ req[q].src # f
                                                   /\ req[q].src \in Files
    <3>1. \A q \in Requests : Uploading(q) => req[q].src \in Files
      BY AtStep DEF Uploading, FilePcs
    <3> QED BY <1>1, <1>4, <3>1 DEF Uploading, FileInv, UploadsApart
  <2>4. UploadsApart'
    <3>1. \A q \in Requests \ {r} : Uploading(q)' =>
             file'[req'[q].src].object /\ (req'[q].pc = "attach" => file'[req'[q].src].row)
      BY <2>2, <2>3 DEF FileInv, UploadsApart, At
    <3>2. \A q1, q2 \in Requests : Uploading(q1)' /\ Uploading(q2)' /\ req'[q1].src = req'[q2].src => q1 = q2
      BY <1>4, <2>3 DEF FileInv, UploadsApart
    <3> QED BY <1>4, <2>2, <3>1, <3>2 DEF UploadsApart, Uploading, At
  <2>5. FileReadable'
    BY <2>2 DEF FileInv, FileReadable
  <2> QED BY <2>4, <2>5 DEF FileInv
<1>5. \A pc : Goto(r, pc) => req'[r].pc = pc /\ req'[r].src = f
  BY <1>0 DEF Goto, Locals
<1>6. CASE CreateFileRow(r)
  BY <1>3, <1>4, <1>5, <1>6 DEF CreateFileRow, At, Uploading
<1>7. CASE AttachFileToSession(r)
  BY <1>3, <1>4, <1>5, <1>7 DEF AttachFileToSession, At, Uploading
<1> QED BY <1>2, <1>6, <1>7, FileSteps

LEMMA FileInvariance == Spec => []FileInv
<1>1. Init => FileInv
  BY Rows DEF Init, FileInv, UploadsApart, FileReadable, Uploading, NoFile
<1>2. ASSUME TypeInv, FileInv, [Next]_vars PROVE FileInv'
  <2>1. ASSUME NEW r \in Requests, req[r] = Idle, Begun(r) PROVE FileInv'
    <3>1. CASE req'[r].pc # "row" /\ file' = file
      BY <1>2, <2>1, <3>1 DEF Begun, FileInv, UploadsApart, FileReadable, Uploading, At
    <3>2. CASE req'[r].pc = "row"
      <4> DEFINE f == req'[r].src
      <4>1. f \in Files /\ file[f] = NoFile /\ file' = [file EXCEPT ![f].object = TRUE] /\ file \in [Files -> FileRow]
        BY <1>2, <2>1, <3>2 DEF Begun, Fit, FilePcs, TypeInv, TypeOK
      <4>2. file'[f].object /\ ~file'[f].attached /\ \A g \in Files \ {f} : file'[g] = file[g]
        BY <4>1 DEF NoFile, FileRow
      <4>3. \A q \in Requests : Uploading(q) => req[q].src \in Files /\ req[q].src # f
        BY <1>2, <4>1, AtStep DEF Uploading, FilePcs, FileInv, UploadsApart, NoFile
      <4>4. \A q \in Requests \ {r} : req'[q] = req[q]
        BY <2>1 DEF Begun
      <4>5. UploadsApart'
        BY <1>2, <3>2, <4>2, <4>3, <4>4 DEF FileInv, UploadsApart, Uploading, At
      <4>6. FileReadable'
        BY <1>2, <4>2 DEF FileInv, FileReadable
      <4> QED BY <4>5, <4>6 DEF FileInv
    <3> QED BY <2>1, <3>1, <3>2 DEF Begun
  <2>2. CASE Restart
    BY <1>2, <2>2, Rows DEF Restart, FileInv, UploadsApart, FileReadable, Uploading
  <2>3. CASE UNCHANGED <<file, req>>
    BY <1>2, <2>3 DEF FileInv, UploadsApart, FileReadable, Uploading, At
  <2> QED BY <1>2, <2>1, <2>2, <2>3, NextCases, FileInvStep DEF CreateDataSource, UpdateDataSource, ResetDB
<1> QED BY <1>1, <1>2, TypeInvariance, PTL DEF Spec

(* Whatever step an upload failed at, a file the session lists has its     *)
(* object and its row.                                                     *)
THEOREM FilesReadable == Spec => []FileReadable
<1>1. FileInv => FileReadable
  BY DEF FileInv
<1> QED BY <1>1, FileInvariance, PTL

(* The steps that touch connections, allowlists or a source's row.         *)
LEMMA ConnSteps ==
  ASSUME TypeInv, NEW r \in Requests, Step(r)
  PROVE  DeleteRow(r) \/ TestWrite(r) \/ (UNCHANGED <<conn, wanted, reverted>> /\ source \subseteq source')
<1> USE DEF rows, history
<1>1. CASE CreateFileRow(r) \/ AttachFileToSession(r) \/ EnsureFileSource(r) \/ LockUpload(r) \/ MaterializeToTemp(r)
  BY <1>1 DEF CreateFileRow, AttachFileToSession, EnsureFileSource, LockUpload, MaterializeToTemp
<1>2. CASE ImportTable(r) \/ ImportRows(r) \/ ExtractSchema(r) \/ CreateSnapshot(r) \/ CheckAllowlist(r) \/ PreSnapshot(r)
  BY <1>2 DEF ImportTable, ImportRows, ExtractSchema, CreateSnapshot, CheckAllowlist, PreSnapshot
<1>3. CASE UpsertBinding(r) \/ StreamTable(r) \/ StreamRows(r) \/ MarkReady(r) \/ CreateProfile(r)
  BY <1>3 DEF UpsertBinding, StreamTable, StreamRows, MarkReady, CreateProfile
<1>4. CASE RemoveSnapshots(r) \/ RemoveBinding(r) \/ DropTables(r) \/ ImportBreaks(r)
  BY <1>4 DEF RemoveSnapshots, RemoveBinding, DropTables, ImportBreaks
<1> QED BY <1>1, <1>2, <1>3, <1>4 DEF Step

LEMMA AllowlistStep ==
  ASSUME TypeInv, AllowlistKept, NEW r \in Requests, Step(r)
  PROVE  AllowlistKept'
<1>0. /\ RowsTyped /\ req \in [Requests -> Locals] /\ req[r] \in Locals
      /\ req[r].pc \in PgPcs => req[r].src \in Pgs
  BY AtStep
<1>1. \A q \in Requests : req'[q].allowed
  <2>1. CASE CheckAllowlist(r) /\ req'[r] # Idle
    <3> DEFINE s == req[r].src
    <3>1. s \in Pgs
      BY <1>0, <2>1 DEF CheckAllowlist, At, PgPcs
    <3>2. /\ conn[s].row /\ req[r].object \in conn[s].allow
          /\ req' = [req EXCEPT ![r].pc = "presnapshot", ![r].allowed = req[r].object \in wanted[s] \/ s \in reverted]
      BY <1>0, <2>1 DEF CheckAllowlist, UnlockUpload, Ends
    <3>3. req[r].object \in wanted[s] \/ s \in reverted
      BY <3>1, <3>2 DEF AllowlistKept
    <3>4. req'[r].allowed
      BY <1>0, <3>2, <3>3 DEF Locals
    <3> QED BY <3>4, StepLocals DEF AllowlistKept
  <2>2. CASE ~CheckAllowlist(r) \/ req'[r] = Idle
    BY <2>2, StepLocals, Rows DEF AllowlistKept
  <2> QED BY <2>1, <2>2
<1>2. CASE UNCHANGED <<conn, wanted, reverted>> /\ source \subseteq source'
  BY <1>1, <1>2 DEF AllowlistKept
<1>3. CASE DeleteRow(r)
  <2>1. req[r].src \in Pgs /\ conn \in [Pgs -> ConnRow]
    BY <1>0, <1>3 DEF DeleteRow, At, PgPcs, RowsTyped
  <2>2. CASE UNCHANGED <<source, conn>>
    BY <1>1, <1>3, <2>2 DEF DeleteRow, history, AllowlistKept
  <2>3. CASE source' = source \ {req[r].src} /\ conn' = [conn EXCEPT ![req[r].src] = NoConn]
    <3>1. ~NoConn.row
      BY DEF NoConn
    <3> QED BY <1>1, <1>3, <2>1, <2>3, <3>1 DEF DeleteRow, history, AllowlistKept
  <2> QED BY <1>3, <2>2, <2>3 DEF DeleteRow
<1>4. CASE TestWrite(r)
  <2>1. req[r].src \in Pgs /\ conn \in [Pgs -> ConnRow]
    BY <1>0, <1>4 DEF TestWrite, At, PgPcs, RowsTyped
  <2> QED BY <1>1, <1>4, <2>1 DEF TestWrite, AllowlistKept
<1> QED BY <1>2, <1>3, <1>4, ConnSteps

LEMMA AllowlistInvariance == Spec => []AllowlistKept
<1>1. Init => AllowlistKept
  BY Rows DEF Init, AllowlistKept, NoConn
<1>2. ASSUME TypeInv, AllowlistKept, [Next]_vars PROVE AllowlistKept'
  <2>1. ASSUME NEW r \in Requests, req[r] = Idle, Begun(r) PROVE AllowlistKept'
    BY <1>2, <2>1 DEF Begun, history, AllowlistKept
  <2>2. ASSUME NEW s \in Pgs, NEW allow \in SUBSET Objects,
               CreateDataSource(s, allow) \/ UpdateDataSource(s, allow)
        PROVE  AllowlistKept'
    <3>1. /\ conn \in [Pgs -> ConnRow] /\ wanted \in [Pgs -> SUBSET Objects] /\ req' = req
          /\ wanted' = [wanted EXCEPT ![s] = allow] /\ reverted' = reverted \ {s} /\ source' = source \cup {s}
      BY <1>2, <2>2 DEF TypeInv, TypeOK, CreateDataSource, CreatePostgresSource, UpdateDataSource
    <3>2. CASE conn' = [conn EXCEPT ![s] = [row |-> TRUE, allow |-> allow]]
      BY <1>2, <3>1, <3>2 DEF AllowlistKept
    <3>3. CASE conn' = conn /\ s \notin source
      BY <1>2, <3>1, <3>3 DEF AllowlistKept
    <3> QED BY <2>2, <3>2, <3>3 DEF CreateDataSource, CreatePostgresSource, UpdateDataSource
  <2>3. CASE ResetDB \/ Restart
    BY <1>2, <2>3, Rows DEF ResetDB, Restart, rows, AllowlistKept
  <2>4. CASE UNCHANGED <<file, source, conn, snap, made, binding, table, req, lock, history>>
    BY <1>2, <2>4 DEF history, AllowlistKept
  <2> QED BY <1>2, <2>1, <2>2, <2>3, <2>4, NextCases, AllowlistStep
<1> QED BY <1>1, <1>2, TypeInvariance, PTL DEF Spec

(* No import is let through by an allowlist that is not the user's last,   *)
(* unless a connection test has written an older one back.                 *)
THEOREM Allowlist == Spec => []AllowlistHonoured
<1>1. AllowlistKept => AllowlistHonoured
  BY DEF AllowlistKept, AllowlistHonoured
<1> QED BY <1>1, AllowlistInvariance, PTL

---------------------------------------------------------------------------
(* Snapshots, bindings and tables *)

ImportInv ==
    /\ SnapshotsFit /\ BindingsFit /\ FilesOnce /\ ImportsFit /\ DataWritten
    /\ ActiveIsNewest /\ BindingResolves /\ ReadyHasTable

(* What the proofs below take from the theorems above.                     *)
Base == TypeInv /\ LockHeldByImport /\ FileInv

(* A source's data is in the table, or somebody has taken it.              *)
Holds(s, t) == table[t] = s \/ s \in taken
Own(s, t)   == (s \in Files /\ t = s) \/ (s \in Pgs /\ t \in PgTables)

(* The part of FilesOnce that is about one request.                        *)
FirstFits(r) ==
    FirstImport(r) =>
        /\ binding[req[r].src] = 0
        /\ req[r].pc # "bind" => SnapsOf(req[r].src) = {}
        /\ req[r].pc = "source" => file[req[r].src].attached
        /\ req[r].pc \notin {"row", "attach", "source"} => req[r].src \in source
        /\ \A q \in Requests \ {r} : FirstImport(q) => req[q].src # req[r].src

LEMMA FilesOnceIs == FilesOnce <=> \A r \in Requests : FirstFits(r)
  BY DEF FilesOnce, FirstFits

(* The snapshot that a binding of a source names is the source's, or gone. *)
LEMMA BoundSnapshot ==
  ASSUME Base, ImportInv, NEW s \in Sources, binding[s] # 0, snap[binding[s]] # NoSnap
  PROVE  snap[binding[s]].src = s /\ Own(s, snap[binding[s]].table) /\ binding[s] \in Snaps
<1>1. binding[s] \in Snaps
  <2>1. binding[s] \in 0..MaxSnaps
    BY DEF Base, TypeInv, TypeOK
  <2> QED BY <2>1 DEF Snaps
<1>2. snap[binding[s]].src \in {s, None} /\ snap[binding[s]].src \in source /\ source \subseteq Sources
  BY <1>1 DEF ImportInv, BindingsFit, SnapshotsFit, Base, TypeInv, TypeOK
<1>3. None \notin Sources
  BY DEF None, Sources
<1> QED BY <1>1, <1>2, <1>3 DEF ImportInv, SnapshotsFit, Own

(* Only the holder of the lock has a snapshot it has made.                 *)
LEMMA OthersWait ==
  ASSUME Base, NEW r \in Requests, req[r].pc \in UnderLock
  PROVE  \A q \in Requests \ {r} : req[q].pc \notin UnderLock
  BY DEF Base, LockHeldByImport

(* A step of r that leaves source rows, bindings and the numbers of        *)
(* snapshots alone.                                                        *)
OthersStay(r) == \A q \in Requests \ {r} : req'[q] = req[q]

(* No snapshot is made, removed or made ready.                             *)
SnapsKept(r) ==
    /\ \A j \in Snaps : /\ snap'[j].src = snap[j].src /\ snap'[j].table = snap[j].table
                        /\ snap'[j] = NoSnap <=> snap[j] = NoSnap
                        /\ snap'[j].status \in {snap[j].status, "failed"}
    /\ snap' = snap \/ (req[r].pc \in UnderLock /\ req'[r].pc \notin Snapped)

(* A table is overwritten or dropped on the books, or by its own import.   *)
TablesKept(r) ==
    \A s \in Sources, t \in Tables : Own(s, t) /\ Holds(s, t) =>
        \/ table'[t] = s \/ s \in taken'
        \/ /\ s = req[r].src /\ req[r].pc \in UnderLock
           /\ binding[s] # 0 => snap[binding[s]].status # "ready"

FilesKept(r) == \A q \in Requests \ {r} : req[q].pc = "source" => file'[req[q].src].attached

(* What the step leaves r at.                                              *)
Continues(r) ==
    /\ req[r].pc # "removebinding" /\ req'[r].pc # "removebinding"
    /\ req'[r].pc \in Snapped =>
          /\ req[r].pc \in Snapped \ {"bind", "profile"} /\ req'[r].pc # "bind"
          /\ req'[r].src = req[r].src /\ req'[r].object = req[r].object /\ req'[r].snap = req[r].snap
    /\ req'[r].pc \in {"schema", "snapshot"} =>
          req'[r].src = req[r].src /\ (table'[req[r].src] = req[r].src \/ req[r].src \in taken')
    /\ req'[r].pc = "ready" => table'[TableOf[req[r].object]] = req[r].src \/ req[r].src \in taken'
    /\ FirstFits(r)'

PlainStep(r) ==
    /\ UNCHANGED <<source, made, binding, crossed>>
    /\ OthersStay(r) /\ SnapsKept(r) /\ TablesKept(r) /\ FilesKept(r) /\ Continues(r)

LEMMA PlainInv ==
  ASSUME Base, ImportInv, NEW r \in Requests, PlainStep(r)
  PROVE  ImportInv'
<1> USE DEF PlainStep, OthersStay, SnapsKept, TablesKept, FilesKept, Continues
<1>1. SnapshotsFit'
  BY DEF ImportInv, SnapshotsFit
<1>2. BindingsFit' /\ \A s \in Sources : binding[s] # 0 => binding[s] \in Snaps
  <2>1. \A s \in Sources : binding[s] \in 0..MaxSnaps
    BY DEF Base, TypeInv, TypeOK
  <2>2. \A s \in Sources : binding[s] # 0 => binding[s] \in Snaps
    BY <2>1 DEF Snaps
  <2> QED BY <2>2 DEF ImportInv, BindingsFit
<1>3. FilesOnce'
  <2> SUFFICES ASSUME NEW q \in Requests PROVE FirstFits(q)'
    BY FilesOnceIs DEF FilesOnce, FirstFits
  <2>1. CASE q = r
    BY <2>1
  <2>2. CASE q # r
    <3>1. req'[q] = req[q] /\ UNCHANGED <<source, binding>> /\ SnapsOf(req[q].src)' = SnapsOf(req[q].src)
      BY <2>2 DEF SnapsOf
    <3>2. FirstFits(q)
      BY FilesOnceIs DEF ImportInv
    <3>3. FirstImport(q)' => FirstImport(q) /\ \A p \in Requests \ {q} : FirstImport(p)' => req'[p].src # req'[q].src
      BY <2>2, <3>1, <3>2 DEF FirstImport, FirstFits
    <3> QED BY <2>2, <3>1, <3>2, <3>3 DEF FirstFits
  <2> QED BY <2>1, <2>2
<1>4. ImportsFit'
  <2> SUFFICES ASSUME NEW q \in Requests, req'[q].pc \in Snapped
               PROVE  /\ req'[q].snap = made /\ req'[q].snap # 0
                      /\ snap'[req'[q].snap].src \in {req'[q].src, None}
                      /\ req'[q].src \in Files => req'[q].src \in source
                      /\ req'[q].src \in source /\ req'[q].src \notin crossed => snap'[req'[q].snap].src = req'[q].src
                      /\ req'[q].pc # "bind" => binding[req'[q].src] \in {0, req'[q].snap}
                      /\ req'[q].pc # "profile" /\ req'[q].src \in Pgs /\ snap'[req'[q].snap] # NoSnap =>
                            /\ snap'[req'[q].snap].status = "creating"
                            /\ snap'[req'[q].snap].table = TableOf[req'[q].object]
    BY DEF ImportsFit
  <2>1. /\ req[q].pc \in Snapped /\ req'[q].src = req[q].src /\ req'[q].object = req[q].object
        /\ req'[q].snap = req[q].snap /\ (req[q].pc = "bind" <=> req'[q].pc = "bind")
        /\ req[q].pc = "profile" => req'[q].pc = "profile"
    OBVIOUS
  <2>2. snap' = snap
    <3>1. Snapped \subseteq UnderLock
      BY DEF Snapped, UnderLock, UsesDB
    <3> QED BY <2>1, <3>1, OthersWait
  <2> QED BY <2>1, <2>2 DEF ImportInv, ImportsFit
<1>5. ASSUME NEW s \in Sources, NEW t \in Tables, Own(s, t), Holds(s, t),
             \/ binding[s] # 0 /\ snap[binding[s]].status = "ready"
             \/ \E q \in Requests \ {r} : req[q].pc \in {"schema", "snapshot", "bind", "ready"}
      PROVE  Holds(s, t)'
  <2>1. {"schema", "snapshot", "bind", "ready"} \subseteq UnderLock
    BY DEF UnderLock, UsesDB
  <2> QED BY <1>5, <2>1, OthersWait DEF Holds
<1>6. DataWritten'
  <2> SUFFICES ASSUME NEW q \in Requests
               PROVE  /\ req'[q].pc \in {"schema", "snapshot", "bind"} /\ req'[q].src \in Files
                            => Holds(req[q].src, req[q].src)'
                      /\ req'[q].pc = "ready" => Holds(req[q].src, TableOf[req[q].object])'
    BY DEF DataWritten, Holds
  <2>1. CASE q = r
    BY <2>1 DEF Holds, Snapped
  <2>2. CASE q # r
    <3>1. req'[q] = req[q]
      BY <2>2
    <3>2. CASE req[q].pc \in {"schema", "snapshot", "bind"} /\ req[q].src \in Files
      BY <2>2, <3>1, <3>2, <1>5 DEF Own, Holds, Sources, Tables, ImportInv, DataWritten
    <3>3. CASE req[q].pc = "ready"
      <4>1. req[q].src \in Pgs /\ req[q].object \in Objects
        BY <3>3, AtStep DEF Base, PgPcs, ObjectPcs, Snapped
      <4> QED BY <2>2, <3>1, <3>3, <4>1, <1>5 DEF Own, Holds, Sources, Tables, PgTables, ImportInv, DataWritten
    <3> QED BY <3>1, <3>2, <3>3
  <2> QED BY <2>1, <2>2
<1>7. ActiveIsNewest'
  BY DEF ImportInv, ActiveIsNewest, SnapsOf
<1>8. BindingResolves'
  <2>1. \A s \in Sources : Removing(s)' <=> Removing(s)
    BY DEF Removing, At
  <2> QED BY <1>2, <2>1 DEF ImportInv, BindingResolves
<1>9. ReadyHasTable'
  <2> SUFFICES ASSUME NEW s \in Sources, binding[s] # 0, snap'[binding[s]].status = "ready"
               PROVE  Holds(s, snap[binding[s]].table)'
    BY DEF ReadyHasTable, Holds
  <2>1. binding[s] \in Snaps
    BY <1>2
  <2>2. snap[binding[s]].status = "ready" /\ snap'[binding[s]].table = snap[binding[s]].table
    BY <2>1
  <2>3. snap[binding[s]] # NoSnap
    BY <2>2 DEF NoSnap, None
  <2>4. Own(s, snap[binding[s]].table) /\ snap[binding[s]].table \in Tables
    BY <2>3, BoundSnapshot DEF Own, Tables, PgTables
  <2>5. Holds(s, snap[binding[s]].table)
    BY <2>2 DEF ImportInv, ReadyHasTable, Holds
  <2>6. PICK t \in Tables : t = snap[binding[s]].table
    BY <2>4
  <2>7. table'[t] = s \/ s \in taken'
    BY <1>5, <2>2, <2>4, <2>5, <2>6 DEF Holds
  <2> QED BY <2>2, <2>6, <2>7 DEF Holds
<1> QED BY <1>1, <1>2, <1>3, <1>4, <1>6, <1>7, <1>8, <1>9 DEF ImportInv

LEMMA FilesSame == ASSUME Base, ImportInv, NEW r \in Requests, file' = file PROVE FilesKept(r)
  BY AtStep DEF FilesKept, ImportInv, FilesOnce, FirstImport, FilePcs, Base

LEMMA SnapsSame == ASSUME NEW r \in Requests, snap' = snap PROVE SnapsKept(r)
  BY DEF SnapsKept

LEMMA SnapsFail ==
  ASSUME Base, NEW r \in Requests, NEW i, UpdateStatus(i, "failed"), req[r].pc \in UnderLock,
         req'[r].pc \notin Snapped
  PROVE  SnapsKept(r)
<1>1. RowsTyped
  BY AtStep DEF Base
<1> QED BY <1>1, SnapStep DEF SnapsKept

(* The request ends.                                                       *)
LEMMA EndsContinues ==
  ASSUME NEW r \in Requests, req'[r] = Idle, req[r].pc # "removebinding"
  PROVE  Continues(r)
<1>1. FirstFits(r)'
  BY Rows DEF FirstFits, FirstImport, FilePcs
<1> QED BY <1>1, Rows DEF Continues, Snapped

(* A file's first import goes on.                                          *)
LEMMA FirstContinues ==
  ASSUME Base, ImportInv, NEW r \in Requests, OthersStay(r), UNCHANGED <<source, binding>>,
         \A j \in Snaps : snap'[j].src = snap[j].src,
         FirstImport(r)' =>
            /\ FirstImport(r) /\ req'[r].src = req[r].src /\ (req'[r].pc = "bind" <=> req[r].pc = "bind")
            /\ req'[r].pc = "source" => file'[req[r].src].attached
            /\ req'[r].pc \in {"row", "attach", "source"} <=> req[r].pc \in {"row", "attach", "source"}
  PROVE  FirstFits(r)'
<1> SUFFICES ASSUME FirstImport(r)' PROVE FirstFits(r)'
  BY DEF FirstFits
<1>1. FirstFits(r) /\ FirstImport(r)
  BY FilesOnceIs DEF ImportInv
<1>2. SnapsOf(req[r].src)' = SnapsOf(req[r].src)
  BY DEF SnapsOf
<1>3. \A q \in Requests \ {r} : FirstImport(q)' => FirstImport(q) /\ req'[q].src = req[q].src
  BY DEF OthersStay, FirstImport
<1> QED BY <1>1, <1>2, <1>3 DEF FirstFits

(* The steps of an upload up to its source.                                *)
LEMMA UploadPlain ==
  ASSUME Base, ImportInv, NEW r \in Requests, CreateFileRow(r) \/ AttachFileToSession(r)
  PROVE  PlainStep(r)
<1> DEFINE f == req[r].src
<1>0. /\ RowsTyped /\ req \in [Requests -> Locals] /\ req[r] \in Locals /\ f \in Files
      /\ req[r].pc \in {"row", "attach"}
  BY AtStep DEF Base, CreateFileRow, AttachFileToSession, At, FilePcs
<1>1. /\ UNCHANGED <<source, made, binding, snap, table, lock, crossed, taken>> /\ OthersStay(r)
  BY <1>0 DEF CreateFileRow, AttachFileToSession, rows, history, Goto, Ends, OthersStay
<1>2. \A g \in Files \ {f} : file'[g] = file[g]
  BY <1>0 DEF CreateFileRow, AttachFileToSession, Undo, RowsTyped
<1>3. FilesKept(r)
  <2>1. \A q \in Requests \ {r} : req[q].pc = "source" => req[q].src \in Files \ {f} /\ file[req[q].src].attached
    BY <1>0, AtStep DEF Base, FilePcs, ImportInv, FilesOnce, FirstImport
  <2> QED BY <1>2, <2>1 DEF FilesKept
<1>4. Continues(r)
  <2>1. CASE Ends(r)
    BY <1>0, <2>1, EndsContinues DEF Ends
  <2>2. CASE Goto(r, "attach") \/ (Goto(r, "source") /\ file' = [file EXCEPT ![f].attached = TRUE])
    <3>1. req'[r].src = f /\ req'[r].pc \in {"attach", "source"} /\ (req'[r].pc = "source" => file'[f].attached)
      BY <1>0, <2>2 DEF Goto, Locals, RowsTyped, FileRow
    <3>2. FirstFits(r)'
      BY <1>0, <1>1, <3>1, FirstContinues DEF FirstImport, FilePcs
    <3> QED BY <1>0, <3>1, <3>2 DEF Continues, Snapped
  <2> QED BY <2>1, <2>2 DEF CreateFileRow, AttachFileToSession, At
<1> QED BY <1>1, <1>3, <1>4, SnapsSame DEF PlainStep, TablesKept, Holds

(* Moving on under the lock, with nothing written.                         *)
LEMMA MovePlain ==
  ASSUME Base, ImportInv, NEW r \in Requests,
         LockUpload(r) \/ MaterializeToTemp(r) \/ ExtractSchema(r) \/ CheckAllowlist(r)
  PROVE  PlainStep(r)
<1>0. req \in [Requests -> Locals] /\ req[r] \in Locals
  BY AtStep DEF Base
<1>1. UNCHANGED <<source, made, binding, snap, table, file, crossed, taken>>
  BY DEF LockUpload, MaterializeToTemp, ExtractSchema, CheckAllowlist, rows, history
<1>2. /\ OthersStay(r) /\ req[r].pc \in {"lock", "file", "schema", "check"}
      /\ \/ req'[r] = Idle
         \/ /\ req'[r].src = req[r].src
            /\ \/ req[r].pc = "lock" /\ req'[r].pc \in {"file", "check"}
               \/ req[r].pc = "file" /\ req'[r].pc = "table"
               \/ req[r].pc = "schema" /\ req'[r].pc = "snapshot"
               \/ req[r].pc = "check" /\ req'[r].pc = "presnapshot"
  BY <1>0 DEF LockUpload, MaterializeToTemp, ExtractSchema, CheckAllowlist, UnlockUpload, Goto, Ends, At, OthersStay, Locals
<1>3. Continues(r)
  <2>1. CASE req'[r] = Idle
    BY <1>2, <2>1, EndsContinues
  <2>2. CASE req'[r] # Idle
    <3>1. FirstFits(r)'
      BY <1>1, <1>2, <2>2, FirstContinues DEF FirstImport, FilePcs
    <3>2. req'[r].pc = "snapshot" => table[req[r].src] = req[r].src \/ req[r].src \in taken
      BY <1>2, <2>2, AtStep DEF ImportInv, DataWritten, Base, FilePcs
    <3> QED BY <1>1, <1>2, <2>2, <3>1, <3>2 DEF Continues, Snapped
  <2> QED BY <2>1, <2>2
<1> QED BY <1>1, <1>2, <1>3, SnapsSame, FilesSame DEF PlainStep, TablesKept, Holds

(* Moving on from the steps that write a table.                            *)
LEMMA WriteContinues ==
  ASSUME Base, ImportInv, NEW r \in Requests, OthersStay(r), UNCHANGED <<source, binding, snap>>,
         \/ req'[r] = Idle /\ req[r].pc \in {"table", "rows", "stream", "copy"}
         \/ /\ \E pc \in {"rows", "schema", "copy", "ready"} : Goto(r, pc)
            /\ \/ req[r].pc = "table" /\ req'[r].pc = "rows"
               \/ req[r].pc = "rows" /\ req'[r].pc = "schema" /\ table'[req[r].src] = req[r].src
               \/ req[r].pc = "stream" /\ req'[r].pc = "copy"
               \/ req[r].pc = "copy" /\ req'[r].pc = "ready" /\ table'[TableOf[req[r].object]] = req[r].src
  PROVE  Continues(r)
<1>0. req \in [Requests -> Locals] /\ req[r] \in Locals
  BY AtStep DEF Base
<1>1. CASE req'[r] = Idle
  BY <1>1, EndsContinues
<1>2. CASE req'[r] # Idle
  <2>1. req'[r].src = req[r].src /\ req'[r].object = req[r].object /\ req'[r].snap = req[r].snap
    BY <1>0, <1>2 DEF Goto, Locals
  <2>2. FirstFits(r)'
    BY <1>2, <2>1, FirstContinues DEF FirstImport, FilePcs
  <2> QED BY <1>2, <2>1, <2>2 DEF Continues, Snapped
<1> QED BY <1>1, <1>2

LEMMA FileTablePlain ==
  ASSUME Base, ImportInv, NEW r \in Requests, ImportTable(r) \/ ImportRows(r)
  PROVE  PlainStep(r)
<1> DEFINE f == req[r].src
<1>0. /\ RowsTyped /\ req \in [Requests -> Locals] /\ req[r] \in Locals /\ f \in Files
      /\ req[r].pc \in {"table", "rows"}
  BY AtStep DEF Base, ImportTable, ImportRows, At, FilePcs
<1>1. UNCHANGED <<source, made, binding, snap, file, crossed>> /\ OthersStay(r)
  BY <1>0 DEF ImportTable, ImportRows, rows, history, Goto, Ends, UnlockUpload, OthersStay
<1>2. Continues(r)
  <2>1. Goto(r, "rows") => req'[r].pc = "rows"
    BY <1>0 DEF Goto, Locals
  <2>2. Goto(r, "schema") => req'[r].pc = "schema"
    BY <1>0 DEF Goto, Locals
  <2>3. Ends(r) => req'[r] = Idle
    BY <1>0 DEF Ends
  <2> QED BY <1>0, <1>1, <2>1, <2>2, <2>3, WriteContinues DEF ImportTable, ImportRows, At, UnlockUpload
<1>3. TablesKept(r)
  <2> SUFFICES ASSUME NEW s \in Sources, NEW t \in Tables, Own(s, t), Holds(s, t)
               PROVE  \/ table'[t] = s \/ s \in taken'
                      \/ /\ s = req[r].src /\ req[r].pc \in UnderLock
                         /\ binding[s] # 0 => snap[binding[s]].status # "ready"
    BY DEF TablesKept
  <2>1. table \in [Tables -> Sources \cup {None}] /\ f \in Tables /\ None \notin Sources
    BY <1>0 DEF RowsTyped, Tables, None, Sources
  <2>2. t = f <=> s = f
    BY <1>0 DEF Own, PgTables
  <2>3. CASE ImportTable(r)
    BY <2>1, <2>2, <2>3 DEF ImportTable, CreateTableTyped, Holds
  <2>4. CASE ImportRows(r) /\ s # f
    BY <2>1, <2>2, <2>4 DEF ImportRows, Holds, history
  <2>5. CASE ImportRows(r) /\ s = f
    <3>1. binding[f] = 0 /\ req[r].pc \in UnderLock
      BY <1>0 DEF ImportInv, FilesOnce, FirstImport, FilePcs, UnderLock, UsesDB
    <3> QED BY <2>5, <3>1
  <2> QED BY <2>3, <2>4, <2>5
<1> QED BY <1>1, <1>2, <1>3, SnapsSame, FilesSame DEF PlainStep

(* An import whose snapshot is not ready has no snapshot in use that is.   *)
LEMMA NotReadyYet ==
  ASSUME Base, ImportInv, NEW r \in Requests, req[r].pc \in {"stream", "copy", "ready"}
  PROVE  /\ req[r].src \in Pgs /\ req[r].object \in Objects /\ req[r].snap \in Snaps /\ req[r].snap = made
         /\ binding[req[r].src] # 0 => snap[binding[req[r].src]].status # "ready"
<1>1. req[r].src \in Pgs /\ req[r].object \in Objects /\ req[r].snap = made /\ req[r].snap # 0
  BY AtStep DEF Base, PgPcs, ObjectPcs, Snapped, ImportInv, ImportsFit
<1>2. req[r].snap \in Snaps
  <2>1. made \in 0..MaxSnaps
    BY DEF Base, TypeInv, TypeOK
  <2> QED BY <1>1, <2>1 DEF Snaps
<1>3. /\ binding[req[r].src] \in {0, req[r].snap}
      /\ snap[req[r].snap] # NoSnap => snap[req[r].snap].status = "creating"
  BY <1>1 DEF ImportInv, ImportsFit, Snapped
<1>4. NoSnap.status # "ready"
  BY DEF NoSnap, None
<1> QED BY <1>1, <1>2, <1>3, <1>4

LEMMA StreamPlain ==
  ASSUME Base, ImportInv, NEW r \in Requests, StreamTable(r) \/ StreamRows(r)
  PROVE  PlainStep(r)
<1> DEFINE p == req[r].src
           u == TableOf[req[r].object]
<1>0. /\ RowsTyped /\ req \in [Requests -> Locals] /\ req[r] \in Locals
      /\ req[r].pc \in {"stream", "copy"} /\ req[r].pc \in UnderLock
  BY AtStep DEF Base, StreamTable, StreamRows, At, UnderLock, UsesDB
<1>1. UNCHANGED <<source, made, binding, file, crossed>> /\ OthersStay(r)
  BY <1>0 DEF StreamTable, StreamRows, StreamFails, rows, history, Goto, Ends, UnlockUpload, OthersStay
<1>2. p \in Pgs /\ u \in PgTables /\ (binding[p] # 0 => snap[binding[p]].status # "ready")
  BY <1>0, NotReadyYet DEF PgTables
<1>3. Continues(r)
  <2>1. Goto(r, "copy") => req'[r].pc = "copy"
    BY <1>0 DEF Goto, Locals
  <2>2. Goto(r, "ready") => req'[r].pc = "ready"
    BY <1>0 DEF Goto, Locals
  <2>3. Ends(r) => req'[r] = Idle
    BY <1>0 DEF Ends
  <2>4. CASE snap' = snap /\ ~Ends(r)
    BY <1>0, <1>1, <2>1, <2>2, <2>4, WriteContinues DEF StreamTable, StreamRows, At, UnlockUpload, StreamFails, history
  <2>5. CASE Ends(r)
    BY <1>0, <2>3, <2>5, EndsContinues
  <2> QED BY <2>4, <2>5 DEF StreamTable, StreamRows, StreamFails, UnlockUpload
<1>4. TablesKept(r)
  <2> SUFFICES ASSUME NEW s \in Sources, NEW t \in Tables, Own(s, t), Holds(s, t), s # p
               PROVE  table'[t] = s \/ s \in taken'
    BY <1>0, <1>2 DEF TablesKept
  <2>1. table \in [Tables -> Sources \cup {None}] /\ u \in Tables /\ None \notin Sources
    BY <1>0, <1>2 DEF RowsTyped, Tables, None, Sources, PgTables
  <2> QED BY <2>1 DEF StreamTable, StreamRows, CreateTableTyped, Holds, history
<1>5. SnapsKept(r)
  <2>1. CASE snap' = snap
    BY <2>1, SnapsSame
  <2>2. CASE UpdateStatus(req[r].snap, "failed") /\ Ends(r)
    BY <1>0, <2>2, Rows, SnapsFail DEF Ends, Snapped
  <2> QED BY <2>1, <2>2 DEF StreamTable, StreamRows, StreamFails, UnlockUpload
<1> QED BY <1>1, <1>3, <1>4, <1>5, FilesSame DEF PlainStep

(* The steps at which a request ends, other than a removal's.              *)
LEMMA EndsInv ==
  ASSUME Base, ImportInv, NEW r \in Requests, Ends(r), req[r].pc # "removebinding",
         UNCHANGED <<source, made, binding, file, crossed>>,
         snap' = snap \/ (UpdateStatus(req[r].snap, "failed") /\ req[r].pc \in UnderLock),
         UNCHANGED <<table, taken>> \/ DropTables(r)
  PROVE  ImportInv'
<1>0. RowsTyped /\ req \in [Requests -> Locals]
  BY AtStep DEF Base
<1>1. req'[r] = Idle /\ OthersStay(r)
  BY <1>0 DEF Ends, OthersStay
<1>2. SnapsKept(r)
  BY <1>1, Rows, SnapsSame, SnapsFail DEF Snapped
<1>3. TablesKept(r)
  <2>1. CASE UNCHANGED <<table, taken>>
    BY <2>1 DEF TablesKept, Holds
  <2>2. CASE DropTables(r)
    <3>1. None \notin Sources
      BY DEF None, Sources
    <3> QED BY <2>2, <3>1 DEF DropTables, TablesKept, Holds
  <2> QED BY <2>1, <2>2
<1> QED BY <1>1, <1>2, <1>3, EndsContinues, FilesSame, PlainInv DEF PlainStep

LEMMA FailsInv ==
  ASSUME Base, ImportInv, NEW r \in Requests, Ends(r),
         \/ CreateProfile(r) \/ MarkReady(r) \/ ImportBreaks(r) \/ UpsertBinding(r) \/ PreSnapshot(r)
         \/ CreateSnapshot(r) \/ DeleteRow(r) \/ EnsureFileSource(r) \/ DropTables(r) \/ TestWrite(r)
  PROVE  ImportInv'
<1>0. RowsTyped /\ req \in [Requests -> Locals] /\ req[r] \in Locals
  BY AtStep DEF Base
<1>1. req'[r].pc = "idle"
  BY <1>0, Rows DEF Ends
<1>2. \A pc : Goto(r, pc) => req'[r].pc = pc
  BY <1>0 DEF Goto, Locals
<1> USE DEF At, history, rows, UnlockUpload
<1>3. CASE CreateProfile(r) \/ TestWrite(r) \/ DropTables(r)
  BY <1>3, EndsInv DEF CreateProfile, TestWrite, DropTables, UnderLock
<1>4. CASE MarkReady(r) \/ EnsureFileSource(r) \/ DeleteRow(r)
  BY <1>1, <1>2, <1>4, EndsInv DEF MarkReady, EnsureFileSource, DeleteRow
<1>5. CASE ImportBreaks(r)
  <2>1. snap' = snap \/ UpdateStatus(req[r].snap, "failed")
    BY <1>5 DEF ImportBreaks, UpdateStatus
  <2> QED BY <1>5, <2>1, EndsInv DEF ImportBreaks, UnderLock, UsesDB
<1>6. CASE UpsertBinding(r)
  <2>1. req'[r].pc \notin {"profile", "stream"}
    BY <1>1
  <2>2. /\ UNCHANGED <<source, made, binding, file, crossed, table, taken>> /\ req[r].pc = "bind"
        /\ snap' = snap \/ UpdateStatus(req[r].snap, "failed")
    BY <1>2, <1>6, <2>1 DEF UpsertBinding
  <2> QED BY <2>2, EndsInv DEF UnderLock
<1>7. CASE PreSnapshot(r) \/ CreateSnapshot(r)
  <2>1. req' # [req EXCEPT ![r].pc = "bind", ![r].snap = made + 1]
    BY <1>0, <1>1 DEF Locals
  <2>2. CASE PreSnapshot(r)
    BY <2>1, <2>2, EndsInv DEF PreSnapshot
  <2>3. CASE CreateSnapshot(r)
    <3>1. req[r].src \in Files /\ req[r].pc = "snapshot"
      BY <2>3, AtStep DEF CreateSnapshot, Base, FilePcs
    <3>2. SnapsOf(req[r].src) = {}
      BY <3>1 DEF ImportInv, FilesOnce, FirstImport, FilePcs
    <3>3. snap' = snap
      BY <1>0, <2>1, <2>3, <3>2 DEF CreateSnapshot, RowsTyped
    <3> QED BY <2>1, <2>3, <3>1, <3>3, EndsInv DEF CreateSnapshot
  <2> QED BY <1>7, <2>2, <2>3
<1> QED BY <1>3, <1>4, <1>5, <1>6, <1>7

(* A request begins.                                                       *)
LEMMA BegunInv ==
  ASSUME Base, ImportInv, NEW r \in Requests, req[r] = Idle, Begun(r)
  PROVE  ImportInv'
<1>1. /\ UNCHANGED <<source, made, binding, snap, table, crossed, taken>> /\ OthersStay(r) /\ req[r].pc = "idle"
      /\ Fit(req'[r]) /\ req'[r].pc \in {"row", "lock", "removesnaps", "deleterow", "testwrite"}
  BY Rows DEF Begun, history, OthersStay
<1>2. CASE req'[r].pc # "row"
  <2>1. file' = file
    BY <1>2 DEF Begun
  <2>2. ~FirstImport(r)'
    BY <1>1, <1>2 DEF Begun, FirstImport, FilePcs
  <2>3. FirstFits(r)'
    BY <2>2 DEF FirstFits
  <2> QED BY <1>1, <2>1, <2>3, FilesSame, SnapsSame, PlainInv DEF PlainStep, Continues, Snapped, TablesKept, Holds
<1>3. CASE req'[r].pc = "row"
  <2>0. PICK f : f = req'[r].src
    OBVIOUS
  <2>1. f \in Files /\ f \notin source /\ file[f] = NoFile /\ file \in [Files -> FileRow]
        /\ file' = [file EXCEPT ![f].object = TRUE]
    BY <1>1, <1>3, <2>0, AtStep DEF Begun, Fit, FilePcs, RowsTyped, Base
  <2>2. ~NoFile.object /\ ~NoFile.attached
    BY DEF NoFile
  <2>3. \A q \in Requests \ {r} : FirstImport(q) => req[q].src # f
    <3>1. \A q \in Requests : Uploading(q) => file[req[q].src].object
      BY DEF Base, FileInv, UploadsApart
    <3> QED BY <2>1, <2>2, <3>1 DEF ImportInv, FilesOnce, Uploading
  <2>4. binding[f] = 0 /\ SnapsOf(f) = {}
    <3>1. None \notin Sources /\ f \in Sources
      BY <2>1 DEF None, Sources
    <3> QED BY <2>1, <3>1 DEF ImportInv, BindingsFit, SnapshotsFit, SnapsOf, NoSnap
  <2>5. FirstFits(r)'
    <3>1. SnapsOf(f)' = {}
      BY <1>1, <2>4 DEF SnapsOf
    <3>2. \A q \in Requests \ {r} : FirstImport(q)' => req'[q].src # f
      BY <1>1, <2>3 DEF OthersStay, FirstImport
    <3> QED BY <1>1, <1>3, <2>0, <2>4, <3>1, <3>2 DEF FirstFits
  <2>6. FilesKept(r)
    <3>1. \A q \in Requests \ {r} : req[q].pc = "source" => req[q].src \in Files \ {f} /\ file[req[q].src].attached
      BY <2>3, AtStep DEF Base, FilePcs, ImportInv, FilesOnce, FirstImport
    <3> QED BY <2>1, <3>1 DEF FilesKept
  <2> QED BY <1>1, <1>3, <2>5, <2>6, SnapsSame, PlainInv DEF PlainStep, Continues, Snapped, TablesKept, Holds
<1> QED BY <1>2, <1>3

(* How a step that starts no import keeps the imports of files apart.      *)
LEMMA FilesOnceStep ==
  ASSUME ImportInv,
         \A q \in Requests : FirstImport(q)' =>
            /\ FirstImport(q) /\ req'[q].src = req[q].src /\ binding'[req[q].src] = 0
            /\ req'[q].pc # "bind" =>
                  req[q].pc # "bind" /\ \A j \in Snaps : snap'[j].src = req[q].src => snap[j].src = req[q].src
            /\ req'[q].pc = "source" => file'[req[q].src].attached
            /\ req'[q].pc \notin {"row", "attach", "source"} => req[q].src \in source'
  PROVE  FilesOnce'
<1>1. FilesOnce
  BY DEF ImportInv
<1>2. \A q \in Requests : FirstImport(q)' /\ req'[q].pc # "bind" => {j \in Snaps : snap'[j].src = req'[q].src} = {}
  BY <1>1 DEF FilesOnce, SnapsOf
<1> QED BY <1>1, <1>2 DEF FilesOnce, SnapsOf

(* The schema is read: the snapshot becomes ready, or the update is lost.  *)
LEMMA MarkReadyInv ==
  ASSUME Base, ImportInv, NEW r \in Requests, MarkReady(r), Goto(r, "profile")
  PROVE  ImportInv'
<1> DEFINE p == req[r].src
           i == req[r].snap
<1>0. /\ RowsTyped /\ req \in [Requests -> Locals] /\ req[r] \in Locals /\ req[r].pc = "ready"
      /\ UNCHANGED <<source, made, binding, file, crossed, table, taken>>
  BY AtStep DEF Base, MarkReady, At, history
<1>1. /\ OthersStay(r) /\ req'[r].pc = "profile" /\ req'[r].src = p /\ req'[r].object = req[r].object
      /\ req'[r].snap = i
  BY <1>0 DEF Goto, Locals, OthersStay
<1>2. ~FirstImport(r)'
  BY <1>1 DEF FirstImport, FilePcs
<1>3. CASE snap' = snap
  <2>1. FirstFits(r)'
    BY <1>2 DEF FirstFits
  <2>2. Continues(r)
    BY <1>0, <1>1, <2>1 DEF Continues, Snapped
  <2> QED BY <1>0, <1>1, <1>3, <2>2, SnapsSame, FilesSame, PlainInv DEF PlainStep, TablesKept, Holds
<1>4. CASE UpdateStatus(i, "ready")
  <2>1. \A j \in Snaps : /\ snap'[j].src = snap[j].src /\ snap'[j].table = snap[j].table
                         /\ snap'[j] = NoSnap <=> snap[j] = NoSnap
                         /\ snap'[j].status = snap[j].status \/ (j = i /\ snap'[j].status = "ready")
    BY <1>0, <1>4, SnapStep
  <2>2. /\ p \in Pgs /\ req[r].object \in Objects /\ i \in Snaps /\ i = made /\ i # 0
        /\ snap[i].src \in {p, None} /\ binding[p] \in {0, i}
        /\ snap[i] # NoSnap => snap[i].table = TableOf[req[r].object]
    BY <1>0, NotReadyYet DEF ImportInv, ImportsFit, Snapped
  <2>3. \A q \in Requests \ {r} : req'[q] = req[q] /\ req[q].pc \notin UnderLock
    BY <1>0, <1>1, OthersWait DEF OthersStay, UnderLock, UsesDB
  <2>4. \A s \in Sources : binding[s] # 0 => binding[s] \in Snaps
    <3>1. \A s \in Sources : binding[s] \in 0..MaxSnaps
      BY <1>0 DEF RowsTyped
    <3> QED BY <3>1 DEF Snaps
  <2>5. SnapshotsFit' /\ BindingsFit'
    BY <1>0, <2>1, <2>4 DEF ImportInv, SnapshotsFit, BindingsFit
  <2>6. FilesOnce'
    <3>1. \A q \in Requests : FirstImport(q)' => FirstImport(q) /\ req'[q] = req[q]
      BY <1>2, <2>3 DEF FirstImport
    <3> QED BY <1>0, <2>1, <3>1, FilesOnceStep DEF ImportInv, FilesOnce
  <2>7. ImportsFit'
    <3>1. Snapped \subseteq UnderLock
      BY DEF Snapped, UnderLock, UsesDB
    <3>2. p \in source /\ p \notin crossed => snap[i].src = p
      BY <1>0 DEF ImportInv, ImportsFit, Snapped
    <3>3. p \notin Files
      BY <2>2
    <3> QED BY <1>0, <1>1, <2>1, <2>2, <2>3, <3>1, <3>2, <3>3 DEF ImportsFit
  <2>8. DataWritten'
    BY <1>1, <2>3 DEF DataWritten, UnderLock, UsesDB
  <2>9. ActiveIsNewest'
    <3> SUFFICES ASSUME NEW s \in Sources, binding[s] # 0, NEW j \in Snaps, snap[j].src = s, snap'[j].status = "ready"
                 PROVE  j <= binding[s]
      BY <1>0, <2>1 DEF ActiveIsNewest, SnapsOf
    <3>1. CASE snap[j].status = "ready"
      BY <3>1 DEF ImportInv, ActiveIsNewest, SnapsOf
    <3>2. CASE j = i
      <4>1. s = p
        BY <2>2, <3>2 DEF None, Sources
      <4> QED BY <2>2, <3>2, <4>1 DEF Snaps
    <3> QED BY <2>1, <3>1, <3>2
  <2>10. BindingResolves'
    <3>1. \A s \in Sources : Removing(s)' <=> Removing(s)
      BY <1>0, <1>1, <2>3 DEF Removing, At
    <3> QED BY <1>0, <2>1, <2>4, <3>1 DEF ImportInv, BindingResolves
  <2>11. ReadyHasTable'
    <3> SUFFICES ASSUME NEW s \in Sources, binding[s] # 0, snap'[binding[s]].status = "ready"
                 PROVE  table[snap[binding[s]].table] = s \/ s \in taken
      BY <1>0, <2>1, <2>4 DEF ReadyHasTable
    <3>1. CASE snap[binding[s]].status = "ready"
      BY <3>1 DEF ImportInv, ReadyHasTable
    <3>2. CASE binding[s] = i
      <4>1. snap[i] # NoSnap
        BY <2>1, <2>2, <3>2 DEF NoSnap, None
      <4>2. s = p
        BY <2>2, <3>2, <4>1, BoundSnapshot DEF None, Sources
      <4> QED BY <1>0, <2>2, <3>2, <4>1, <4>2 DEF ImportInv, DataWritten
    <3> QED BY <2>1, <2>4, <3>1, <3>2
  <2> QED BY <2>5, <2>6, <2>7, <2>8, <2>9, <2>10, <2>11 DEF ImportInv
<1> QED BY <1>3, <1>4, <1>0, <1>1, Rows DEF MarkReady, UnlockUpload, Ends

(* The upload's source has a row.                                          *)
LEMMA EnsureSourceInv ==
  ASSUME Base, ImportInv, NEW r \in Requests, EnsureFileSource(r), Goto(r, "lock")
  PROVE  ImportInv'
<1> DEFINE f == req[r].src
<1>0. /\ req \in [Requests -> Locals] /\ req[r] \in Locals /\ req[r].pc = "source" /\ f \in Files
      /\ UNCHANGED <<made, binding, snap, file, crossed, table, taken>>
  BY AtStep DEF Base, EnsureFileSource, At, history, FilePcs
<1>1. OthersStay(r) /\ req'[r].pc = "lock" /\ req'[r].src = f
  BY <1>0 DEF Goto, Locals, OthersStay
<1>2. source' = source \cup {f}
  BY <1>0, <1>1, Rows DEF EnsureFileSource, Ends
<1>3. SnapshotsFit' /\ BindingsFit'
  BY <1>0, <1>2 DEF ImportInv, SnapshotsFit, BindingsFit
<1>4. FilesOnce'
  <2>1. \A q \in Requests : FirstImport(q)' => FirstImport(q) /\ req'[q].src = req[q].src
                                               /\ (q = r \/ req'[q] = req[q])
    BY <1>0, <1>1 DEF FirstImport, FilePcs, OthersStay
  <2>2. \A q \in Requests : FirstImport(q)' => (req'[q].pc = "bind" <=> req[q].pc = "bind")
    BY <1>0, <1>1, <2>1
  <2> QED BY <1>0, <1>1, <1>2, <2>1, <2>2, FilesOnceStep DEF ImportInv, FilesOnce
<1>5. ImportsFit'
  BY <1>0, <1>1, <1>2 DEF ImportInv, ImportsFit, OthersStay, Snapped
<1>6. DataWritten'
  BY <1>0, <1>1 DEF ImportInv, DataWritten, OthersStay
<1>7. ActiveIsNewest' /\ ReadyHasTable'
  BY <1>0 DEF ImportInv, ActiveIsNewest, ReadyHasTable, SnapsOf
<1>8. BindingResolves'
  <2>1. \A s \in Sources : Removing(s)' <=> Removing(s)
    BY <1>0, <1>1 DEF Removing, At, OthersStay
  <2> QED BY <1>0, <2>1 DEF ImportInv, BindingResolves
<1> QED BY <1>3, <1>4, <1>5, <1>6, <1>7, <1>8 DEF ImportInv

(* A snapshot is made: a file's, ready at once, or a database object's.    *)
LEMMA MadeInv ==
  ASSUME Base, ImportInv, NEW r \in Requests, NEW p \in Sources, NEW t, NEW st,
         p = req[r].src, p \in source, made + 1 \in Snaps, made' = made + 1,
         UNCHANGED <<source, binding, file, crossed, table, taken>>, OthersStay(r),
         snap'[made + 1] = [src |-> p, table |-> t, status |-> st],
         \A j \in Snaps \ {made + 1} : snap'[j] = snap[j],
         req'[r].pc = "bind", req'[r].snap = made + 1, req'[r].src = p, req'[r].object = req[r].object,
         \/ p \in Files /\ req[r].pc = "snapshot" /\ t = p
         \/ p \in Pgs /\ req[r].pc = "presnapshot" /\ t = TableOf[req[r].object] /\ t \in PgTables /\ st = "creating"
  PROVE  ImportInv'
<1>0. made \in Nat /\ Files \cap Pgs = {} /\ req[r].pc \in UnderLock
  BY DEF Base, TypeInv, TypeOK, UnderLock
<1>1. \A q \in Requests \ {r} : req'[q] = req[q] /\ req[q].pc \notin UnderLock
  BY <1>0, OthersWait DEF OthersStay
<1>2. \A s \in Sources : binding[s] # 0 => binding[s] \in Snaps \ {made + 1} /\ snap'[binding[s]] = snap[binding[s]]
  <2>1. \A s \in Sources : binding[s] \in 0..MaxSnaps /\ (binding[s] # 0 => binding[s] <= made)
    BY DEF Base, TypeInv, TypeOK, ImportInv, BindingsFit
  <2> QED BY <1>0, <2>1 DEF Snaps
<1>3. SnapshotsFit'
  <2> SUFFICES ASSUME NEW j \in Snaps, snap'[j] # NoSnap
               PROVE  /\ j <= made + 1 /\ snap'[j].src \in source
                      /\ \/ snap'[j].src \in Files /\ snap'[j].table = snap'[j].src
                         \/ snap'[j].src \in Pgs /\ snap'[j].table \in PgTables
    BY DEF SnapshotsFit
  <2>1. CASE j = made + 1
    BY <1>0, <2>1
  <2>2. CASE j # made + 1
    BY <1>0, <2>2 DEF ImportInv, SnapshotsFit, Snaps
  <2> QED BY <2>1, <2>2
<1>4. BindingsFit'
  BY <1>0, <1>2 DEF ImportInv, BindingsFit, Base, TypeInv, TypeOK
<1>5. FilesOnce'
  <2>1. \A q \in Requests : FirstImport(q)' => FirstImport(q) /\ req'[q].src = req[q].src
    BY <1>1 DEF FirstImport, FilePcs
  <2>2. \A q \in Requests \ {r} : FirstImport(q) => req[q].src # p
    BY DEF ImportInv, FilesOnce, FirstImport, FilePcs
  <2>3. \A q \in Requests \ {r} : FirstImport(q) =>
           /\ req'[q] = req[q]
           /\ \A j \in Snaps : snap'[j].src = req[q].src => snap[j].src = req[q].src
    BY <1>1, <2>2
  <2>4. \A q \in Requests \ {r} : FirstImport(q) => req[q].pc # "bind"
    BY <1>1 DEF UnderLock
  <2>5. FirstImport(r)' => p \in source /\ binding[p] = 0
    BY <2>1 DEF ImportInv, FilesOnce
  <2> QED BY <2>1, <2>3, <2>4, <2>5, FilesOnceStep DEF ImportInv, FilesOnce
<1>6. ImportsFit'
  <2>1. \A q \in Requests \ {r} : req'[q].pc \notin Snapped
    BY <1>1 DEF Snapped, UnderLock, UsesDB
  <2> QED BY <1>0, <2>1 DEF ImportsFit
<1>7. DataWritten'
  <2>1. p \in Files => table[p] = p \/ p \in taken
    BY <1>0 DEF ImportInv, DataWritten
  <2> QED BY <1>1, <2>1 DEF DataWritten, UnderLock, UsesDB
<1>8. ActiveIsNewest'
  <2> SUFFICES ASSUME NEW s \in Sources, binding[s] # 0, NEW j \in Snaps, snap'[j].src = s, snap'[j].status = "ready"
               PROVE  j <= binding[s]
    BY DEF ActiveIsNewest, SnapsOf
  <2>1. j # made + 1
    <3>1. p \in Files => binding[p] = 0
      BY DEF ImportInv, FilesOnce, FirstImport, FilePcs
    <3> QED BY <3>1
  <2> QED BY <2>1 DEF ImportInv, ActiveIsNewest, SnapsOf
<1>9. BindingResolves'
  <2>1. \A s \in Sources : Removing(s) => Removing(s)'
    BY <1>1 DEF Removing, At
  <2> QED BY <1>2, <2>1 DEF ImportInv, BindingResolves
<1>10. ReadyHasTable'
  BY <1>2 DEF ImportInv, ReadyHasTable
<1> QED BY <1>3, <1>4, <1>5, <1>6, <1>7, <1>8, <1>9, <1>10 DEF ImportInv

LEMMA SnapshotInv ==
  ASSUME Base, ImportInv, NEW r \in Requests, CreateSnapshot(r) \/ PreSnapshot(r), ~Ends(r)
  PROVE  ImportInv'
<1> DEFINE p == req[r].src
<1>0. RowsTyped /\ req \in [Requests -> Locals] /\ p \in Sources
  BY AtStep DEF Base, CreateSnapshot, PreSnapshot, At, FilePcs, PgPcs, Sources
<1>1. /\ UNCHANGED <<source, binding, file, crossed, table, taken>>
      /\ req' = [req EXCEPT ![r].pc = "bind", ![r].snap = made + 1]
  BY DEF CreateSnapshot, PreSnapshot, history, UnlockUpload
<1>2. OthersStay(r)
  BY <1>0, <1>1 DEF OthersStay
<1>3. ASSUME NEW t \in Tables, NEW st \in {"creating", "ready"}, NewSnapshot(p, t, st, snap),
             p \in Pgs => req[r].object \in Objects,
             \/ p \in Files /\ req[r].pc = "snapshot" /\ t = p
             \/ p \in Pgs /\ req[r].pc = "presnapshot" /\ t = TableOf[req[r].object] /\ t \in PgTables /\ st = "creating"
      PROVE  ImportInv'
  <2>1. snap \in [Snaps -> SnapshotRow]
    BY <1>0 DEF RowsTyped
  <2>2. /\ made + 1 \in Snaps /\ made' = made + 1 /\ p \in source
        /\ snap'[made + 1] = [src |-> p, table |-> t, status |-> st]
        /\ \A j \in Snaps \ {made + 1} : snap'[j] = snap[j]
    <3>1. made + 1 \in Snaps /\ made' = made + 1 /\ p \in source
      BY <1>0, <1>3 DEF NewSnapshot, Snaps, RowsTyped
    <3> QED BY <1>3, <2>1, <3>1 DEF NewSnapshot
  <2>3. req'[r].pc = "bind" /\ req'[r].snap = made + 1 /\ req'[r].src = p /\ req'[r].object = req[r].object
    BY <1>0, <1>1, <1>3, <2>2, SnappedFits DEF Base
  <2> QED BY <1>0, <1>1, <1>2, <1>3, <2>2, <2>3, MadeInv
<1>4. CASE CreateSnapshot(r)
  <2>1. p \in Files /\ req[r].pc = "snapshot" /\ p \in Tables /\ p \notin Pgs
    BY <1>4, AtStep DEF CreateSnapshot, Base, FilePcs, At, Tables
  <2>2. SnapsOf(p) = {}
    BY <2>1 DEF ImportInv, FilesOnce, FirstImport, FilePcs
  <2>3. [i \in Snaps |-> IF i \in SnapsOf(p) THEN NoSnap ELSE snap[i]] = snap
    BY <1>0, <2>2 DEF RowsTyped
  <2>4. NewSnapshot(p, p, "ready", snap)
    BY <1>4, <2>3 DEF CreateSnapshot, UnlockUpload
  <2> QED BY <1>3, <2>1, <2>4
<1>5. CASE PreSnapshot(r)
  <2>1. p \in Pgs /\ req[r].pc = "presnapshot" /\ req[r].object \in Objects
    BY <1>5, AtStep DEF PreSnapshot, Base, PgPcs, ObjectPcs, At
  <2>2. TableOf[req[r].object] \in PgTables /\ TableOf[req[r].object] \in Tables
    BY <2>1 DEF PgTables, Tables
  <2>3. NewSnapshot(p, TableOf[req[r].object], "creating", snap)
    BY <1>5 DEF PreSnapshot, UnlockUpload
  <2> QED BY <1>3, <2>1, <2>2, <2>3
<1> QED BY <1>4, <1>5

(* The snapshot comes into use.                                            *)
LEMMA BindInv ==
  ASSUME Base, ImportInv, NEW r \in Requests, UpsertBinding(r), ~Ends(r)
  PROVE  ImportInv'
<1> DEFINE p == req[r].src
           i == req[r].snap
<1>0. /\ RowsTyped /\ req \in [Requests -> Locals] /\ req[r] \in Locals /\ req[r].pc = "bind" /\ p \in Sources
      /\ UNCHANGED <<source, made, snap, file, crossed, table, taken>>
      /\ binding' = [binding EXCEPT ![p] = i] /\ p \in source
      /\ Goto(r, IF p \in Files THEN "profile" ELSE "stream")
  BY AtStep DEF Base, UpsertBinding, At, BothPcs, history, UnlockUpload
<1>1. /\ OthersStay(r) /\ req'[r].pc = (IF p \in Files THEN "profile" ELSE "stream")
      /\ req'[r].src = p /\ req'[r].object = req[r].object /\ req'[r].snap = i
  BY <1>0 DEF Goto, Locals, OthersStay
<1>2. /\ i = made /\ i # 0 /\ snap[i].src \in {p, None} /\ (p \notin crossed => snap[i].src = p)
      /\ (p \in Pgs /\ snap[i] # NoSnap => snap[i].status = "creating" /\ snap[i].table = TableOf[req[r].object])
  BY <1>0 DEF ImportInv, ImportsFit, Snapped
<1>3. i \in Snaps
  BY <1>0, <1>2 DEF RowsTyped, Snaps
<1>4. \A q \in Requests \ {r} : req'[q] = req[q] /\ req[q].pc \notin UnderLock
  BY <1>0, <1>1, OthersWait DEF OthersStay, UnderLock
<1>5. binding'[p] = i /\ \A s \in Sources \ {p} : binding'[s] = binding[s]
  BY <1>0 DEF RowsTyped
<1>6. SnapshotsFit'
  BY <1>0 DEF ImportInv, SnapshotsFit
<1>7. BindingsFit'
  BY <1>0, <1>2, <1>3, <1>5 DEF ImportInv, BindingsFit, Snaps
<1>8. FilesOnce'
  <2>1. \A q \in Requests : FirstImport(q)' => FirstImport(q) /\ req'[q] = req[q] /\ q # r
    BY <1>1, <1>4 DEF FirstImport, FilePcs
  <2>2. \A q \in Requests \ {r} : FirstImport(q) => req[q].src \in Sources \ {p}
    BY <1>0 DEF ImportInv, FilesOnce, FirstImport, FilePcs, Sources
  <2> QED BY <1>0, <1>5, <2>1, <2>2, FilesOnceStep DEF ImportInv, FilesOnce
<1>9. ImportsFit'
  <2>1. \A q \in Requests \ {r} : req'[q].pc \notin Snapped
    BY <1>4 DEF Snapped, UnderLock, UsesDB
  <2> QED BY <1>0, <1>1, <1>2, <1>5, <2>1 DEF ImportsFit
<1>10. DataWritten'
  BY <1>1, <1>4 DEF DataWritten, UnderLock, UsesDB
<1>11. ActiveIsNewest'
  <2> SUFFICES ASSUME NEW s \in Sources, binding'[s] # 0, NEW j \in Snaps, snap[j].src = s, snap[j].status = "ready"
               PROVE  j <= binding'[s]
    BY <1>0 DEF ActiveIsNewest, SnapsOf
  <2>1. CASE s = p
    BY <1>2, <1>5, <2>1 DEF ImportInv, SnapshotsFit, NoSnap, None
  <2>2. CASE s # p
    BY <1>5, <2>2 DEF ImportInv, ActiveIsNewest, SnapsOf
  <2> QED BY <2>1, <2>2
<1>12. BindingResolves'
  <2>1. \A s \in Sources : Removing(s) => Removing(s)'
    BY <1>0, <1>4 DEF Removing, At
  <2> QED BY <1>0, <1>2, <1>5, <2>1 DEF ImportInv, BindingResolves
<1>13. ReadyHasTable'
  <2> SUFFICES ASSUME NEW s \in Sources, binding'[s] # 0, snap[binding'[s]].status = "ready"
               PROVE  table[snap[binding'[s]].table] = s \/ s \in taken
    BY <1>0 DEF ReadyHasTable
  <2>1. CASE s = p
    <3>1. snap[i] # NoSnap
      BY <1>5, <2>1 DEF NoSnap, None
    <3>2. p \in Files /\ p \notin Pgs
      BY <1>0, <1>2, <1>5, <2>1, <3>1 DEF Sources
    <3>3. snap[i].src = p /\ snap[i].table = p
      BY <1>2, <1>3, <3>1, <3>2 DEF ImportInv, SnapshotsFit, None
    <3> QED BY <1>0, <1>5, <2>1, <3>2, <3>3 DEF ImportInv, DataWritten
  <2>2. CASE s # p
    BY <1>5, <2>2 DEF ImportInv, ReadyHasTable
  <2> QED BY <2>1, <2>2
<1> QED BY <1>6, <1>7, <1>8, <1>9, <1>10, <1>11, <1>12, <1>13 DEF ImportInv

(* The snapshots of a source go, and with a deletion its row and binding;  *)
(* nothing else of it is used, or it was removed during an import.         *)
LEMMA CleanedInv ==
  ASSUME Base, ImportInv, NEW r \in Requests, NEW p \in Sources, p = req[r].src, OthersStay(r),
         UNCHANGED <<made, file, table, taken>>, crossed \subseteq crossed', crossed' \subseteq crossed \cup {p},
         \A j \in Snaps : snap'[j] = IF snap[j].src = p THEN NoSnap ELSE snap[j],
         req[r].pc \in {"removesnaps", "deleterow"}, req'[r].pc \in {"removebinding", "drop"}, req'[r].src = p,
         \/ UNCHANGED <<source, binding>> /\ req'[r].pc = "removebinding" /\ (Importing(p) => p \in crossed')
         \/ /\ source' = source \ {p} /\ binding' = [binding EXCEPT ![p] = 0] /\ p \notin Files
  PROVE  ImportInv'
<1>0. NoSnap.src = None /\ NoSnap.status = None /\ None # "ready" /\ None \notin Sources /\ source \subseteq Sources
  BY DEF NoSnap, None, Sources, Base, TypeInv, TypeOK
<1>1. \A s \in Sources \ {p} : binding'[s] = binding[s] /\ (s \in source' <=> s \in source) /\ (s \in crossed' <=> s \in crossed)
  BY DEF Base, TypeInv, TypeOK
<1>2. binding'[p] # 0 => binding'[p] = binding[p] /\ source' = source /\ req'[r].pc = "removebinding"
  BY DEF Base, TypeInv, TypeOK
<1>3. \A s \in Sources : binding'[s] # 0 => binding'[s] = binding[s] /\ binding[s] \in Snaps
  <2>1. \A s \in Sources : binding[s] \in 0..MaxSnaps
    BY DEF Base, TypeInv, TypeOK
  <2> QED BY <1>1, <1>2, <2>1 DEF Snaps
<1>4. \A j \in Snaps : snap'[j] # NoSnap => snap'[j] = snap[j] /\ snap[j].src # p
  OBVIOUS
<1>5. SnapshotsFit'
  BY <1>0, <1>1, <1>4 DEF ImportInv, SnapshotsFit
<1>6. BindingsFit'
  BY <1>0, <1>1, <1>2, <1>3 DEF ImportInv, BindingsFit
<1>7. FilesOnce'
  <2>1. \A q \in Requests : FirstImport(q)' => FirstImport(q) /\ req'[q] = req[q] /\ q # r
    BY DEF FirstImport, FilePcs, OthersStay
  <2>2. \A q \in Requests : FirstImport(q) => req[q].src \in Sources /\ req[q].src # None
    BY <1>0 DEF FirstImport, Sources
  <2>3. \A q \in Requests : FirstImport(q) => binding'[req[q].src] = 0 /\ (req[q].src \in source => req[q].src \in source')
    BY <1>1, <1>2, <2>2 DEF ImportInv, FilesOnce, FirstImport
  <2>4. \A q \in Requests : FirstImport(q) => \A j \in Snaps : snap'[j].src = req[q].src => snap[j].src = req[q].src
    BY <1>0, <2>2
  <2> QED BY <2>1, <2>2, <2>3, <2>4, FilesOnceStep DEF ImportInv, FilesOnce
<1>8. ImportsFit'
  <2> SUFFICES ASSUME NEW q \in Requests, req[q].pc \in Snapped, req'[q] = req[q]
               PROVE  LET s == req[q].src
                          i == req[q].snap
                      IN  /\ i = made /\ i # 0
                          /\ snap'[i].src \in {s, None} /\ (s \in Files => s \in source')
                          /\ s \in source' /\ s \notin crossed' => snap'[i].src = s
                          /\ req[q].pc # "bind" => binding'[s] \in {0, i}
                          /\ req[q].pc # "profile" /\ s \in Pgs /\ snap'[i] # NoSnap =>
                                 snap'[i].status = "creating" /\ snap'[i].table = TableOf[req[q].object]
    BY DEF ImportsFit, OthersStay, Snapped
  <2> DEFINE s == req[q].src
             i == req[q].snap
  <2>1. /\ i = made /\ i # 0 /\ snap[i].src \in {s, None} /\ (s \in Files => s \in source)
        /\ s \in source /\ s \notin crossed => snap[i].src = s
        /\ req[q].pc # "bind" => binding[s] \in {0, i}
        /\ req[q].pc # "profile" /\ s \in Pgs /\ snap[i] # NoSnap =>
               snap[i].status = "creating" /\ snap[i].table = TableOf[req[q].object]
    BY DEF ImportInv, ImportsFit
  <2>2. s \in Sources /\ i \in Snaps
    <3>1. s \in Sources
      BY AtStep DEF Base, Snapped, BothPcs, PgPcs, Sources
    <3>2. made \in 0..MaxSnaps
      BY DEF Base, TypeInv, TypeOK
    <3> QED BY <2>1, <3>1, <3>2 DEF Snaps
  <2>3. s = p => Importing(p)
    BY <2>1 DEF Importing, Snapped
  <2>4. CASE s # p
    <3>1. snap'[i] = snap[i]
      BY <1>0, <2>1, <2>2, <2>4
    <3> QED BY <1>1, <2>1, <2>2, <2>4, <3>1
  <2>5. CASE s = p
    <3>1. snap'[i].src \in {s, None} /\ (snap'[i] # NoSnap => snap'[i] = snap[i])
      BY <1>0, <2>1, <2>2
    <3>2. s \in source' => s \in crossed'
      BY <2>3, <2>5
    <3>3. (s \in Files => s \in source') /\ binding'[s] \in {0, binding[s]}
      BY <1>2, <2>1, <2>5
    <3> QED BY <2>1, <3>1, <3>2, <3>3
  <2> QED BY <2>4, <2>5
<1>9. DataWritten'
  BY DEF ImportInv, DataWritten, OthersStay
<1>10. ActiveIsNewest'
  <2> SUFFICES ASSUME NEW s \in Sources, binding'[s] # 0, NEW j \in Snaps, snap'[j].src = s, snap'[j].status = "ready"
               PROVE  j <= binding'[s]
    BY DEF ActiveIsNewest, SnapsOf
  <2> QED BY <1>0, <1>3, <1>4 DEF ImportInv, ActiveIsNewest, SnapsOf
<1>11. BindingResolves'
  <2> SUFFICES ASSUME NEW s \in Sources, binding'[s] # 0, s \notin crossed', ~Removing(s)'
               PROVE  snap'[binding'[s]].src = s
    BY DEF BindingResolves
  <2>1. s # p
    BY <1>2 DEF Removing, At
  <2>2. ~Removing(s)
    BY <2>1 DEF Removing, At, OthersStay
  <2>3. snap[binding[s]].src = s
    BY <1>1, <2>1, <2>2 DEF ImportInv, BindingResolves
  <2> QED BY <1>3, <2>1, <2>3
<1>12. ReadyHasTable'
  BY <1>0, <1>3, <1>4 DEF ImportInv, ReadyHasTable
<1> QED BY <1>5, <1>6, <1>7, <1>8, <1>9, <1>10, <1>11, <1>12 DEF ImportInv

LEMMA RemoveInv ==
  ASSUME Base, ImportInv, NEW r \in Requests, RemoveSnapshots(r) \/ DeleteRow(r), ~Ends(r)
  PROVE  ImportInv'
<1> DEFINE p == req[r].src
<1>0. RowsTyped /\ req \in [Requests -> Locals] /\ req[r] \in Locals /\ p \in Sources
  BY AtStep DEF Base, RemoveSnapshots, DeleteRow, At, BothPcs, PgPcs, Sources
<1>1. /\ UNCHANGED <<made, file, table, taken>>
      /\ snap' = [i \in Snaps |-> IF i \in SnapsOf(p) THEN NoSnap ELSE snap[i]]
  BY DEF RemoveSnapshots, DeleteRow, history
<1>2. \A j \in Snaps : snap'[j] = IF snap[j].src = p THEN NoSnap ELSE snap[j]
  BY <1>1 DEF SnapsOf
<1>3. \A pc : Goto(r, pc) => OthersStay(r) /\ req'[r].pc = pc /\ req'[r].src = p
  BY <1>0 DEF Goto, Locals, OthersStay
<1>4. CASE RemoveSnapshots(r)
  <2>1. /\ req[r].pc = "removesnaps" /\ req'[r].pc = "removebinding" /\ OthersStay(r) /\ req'[r].src = p
        /\ UNCHANGED <<source, binding>> /\ crossed \subseteq crossed' /\ crossed' \subseteq crossed \cup {p}
        /\ Importing(p) => p \in crossed'
    BY <1>3, <1>4 DEF RemoveSnapshots, At
  <2> QED BY <1>0, <1>1, <1>2, <2>1, CleanedInv
<1>5. CASE DeleteRow(r)
  <2>1. /\ req[r].pc = "deleterow" /\ req'[r].pc = "drop" /\ OthersStay(r) /\ req'[r].src = p
        /\ source' = source \ {p} /\ binding' = [binding EXCEPT ![p] = 0] /\ crossed' = crossed
    BY <1>3, <1>5 DEF DeleteRow, At, history
  <2>2. p \notin Files
    BY <2>1, AtStep DEF Base, PgPcs
  <2> QED BY <1>0, <1>1, <1>2, <2>1, <2>2, CleanedInv
<1> QED BY <1>4, <1>5

(* The removal goes on to the binding, and may break off there.            *)
LEMMA RemoveBindingInv ==
  ASSUME Base, ImportInv, NEW r \in Requests, RemoveBinding(r)
  PROVE  ImportInv'
<1> DEFINE p == req[r].src
<1>0. /\ RowsTyped /\ req \in [Requests -> Locals] /\ req[r] \in Locals /\ p \in Sources
      /\ req[r].pc = "removebinding" /\ UNCHANGED <<source, made, snap, file, table, taken>>
  BY AtStep DEF Base, RemoveBinding, At, BothPcs, history
<1>1. /\ OthersStay(r) /\ crossed \subseteq crossed' /\ crossed' \subseteq crossed \cup {p}
      /\ req'[r].pc = "idle" \/ (req'[r].pc = "drop" /\ req'[r].src = p)
      /\ \A s \in Sources \ {p} : binding'[s] = binding[s]
      /\ binding'[p] = 0 \/ (binding'[p] = binding[p] /\ p \in crossed')
  BY <1>0, Rows DEF RemoveBinding, Goto, Ends, Locals, OthersStay, RowsTyped
<1>2. \A s \in Sources : binding'[s] # 0 => binding'[s] = binding[s]
  BY <1>1
<1>3. SnapshotsFit' /\ BindingsFit'
  BY <1>0, <1>2 DEF ImportInv, SnapshotsFit, BindingsFit
<1>4. FilesOnce'
  <2>1. \A q \in Requests : FirstImport(q)' => FirstImport(q) /\ req'[q] = req[q] /\ q # r
    BY <1>1 DEF FirstImport, FilePcs, OthersStay
  <2>2. \A q \in Requests : FirstImport(q) => req[q].src \in Sources /\ binding'[req[q].src] = 0
    BY <1>2 DEF FirstImport, Sources, ImportInv, FilesOnce
  <2> QED BY <1>0, <2>1, <2>2, FilesOnceStep DEF ImportInv, FilesOnce
<1>5. ImportsFit'
  <2>1. \A q \in Requests : req'[q].pc \in Snapped => req'[q] = req[q] /\ req[q].src \in Sources
    BY <1>1, AtStep DEF Base, Snapped, BothPcs, PgPcs, Sources, OthersStay
  <2>2. \A s \in Sources : binding'[s] \in {0, binding[s]}
    BY <1>2
  <2> QED BY <1>0, <1>1, <2>1, <2>2 DEF ImportInv, ImportsFit
<1>6. DataWritten'
  BY <1>0, <1>1 DEF ImportInv, DataWritten, OthersStay
<1>7. ActiveIsNewest' /\ ReadyHasTable'
  BY <1>0, <1>2 DEF ImportInv, ActiveIsNewest, ReadyHasTable, SnapsOf
<1>8. BindingResolves'
  <2>1. \A s \in Sources : Removing(s) => Removing(s)' \/ s = p
    BY <1>1 DEF Removing, At, OthersStay
  <2> QED BY <1>0, <1>1, <1>2, <2>1 DEF ImportInv, BindingResolves
<1> QED BY <1>3, <1>4, <1>5, <1>6, <1>7, <1>8 DEF ImportInv

(* A source gets a row under an id that nothing knows yet.                 *)
LEMMA ConnectionInv ==
  ASSUME Base, ImportInv, NEW s \in Pgs, NEW allow \in SUBSET Objects,
         CreateDataSource(s, allow) \/ UpdateDataSource(s, allow)
  PROVE  ImportInv'
<1>0. UNCHANGED <<made, binding, snap, file, table, taken, req>> /\ s \in Sources
  BY DEF CreateDataSource, UpdateDataSource, Sources
<1>1. CASE UpdateDataSource(s, allow)
  <2>1. UNCHANGED <<source, crossed>>
    BY <1>1 DEF UpdateDataSource
  <2> QED BY <1>0, <2>1 DEF ImportInv, SnapshotsFit, BindingsFit, FilesOnce, ImportsFit, DataWritten, ActiveIsNewest,
                            BindingResolves, ReadyHasTable, SnapsOf, FirstImport, Removing, At
<1>2. CASE CreateDataSource(s, allow)
  <2>1. source' = source \cup {s} /\ crossed' = crossed \ {s} /\ s \notin source /\ \A q \in Requests : req[q].src # s
    BY <1>2 DEF CreateDataSource, CreatePostgresSource
  <2>2. binding[s] = 0
    BY <1>0, <2>1 DEF ImportInv, BindingsFit
  <2>3. SnapshotsFit' /\ BindingsFit'
    BY <1>0, <2>1 DEF ImportInv, SnapshotsFit, BindingsFit
  <2>4. FilesOnce'
    BY <1>0, <2>1 DEF ImportInv, FilesOnce, SnapsOf, FirstImport
  <2>5. ImportsFit'
    BY <1>0, <2>1 DEF ImportInv, ImportsFit
  <2>6. DataWritten' /\ ActiveIsNewest' /\ ReadyHasTable'
    BY <1>0 DEF ImportInv, DataWritten, ActiveIsNewest, ReadyHasTable, SnapsOf
  <2>7. BindingResolves'
    BY <1>0, <2>1, <2>2 DEF ImportInv, BindingResolves, Removing, At
  <2> QED BY <2>3, <2>4, <2>5, <2>6, <2>7 DEF ImportInv
<1> QED BY <1>1, <1>2

LEMMA ResetInv == ASSUME Base, ImportInv, ResetDB PROVE ImportInv'
<1>0. UNCHANGED <<source, made, binding, snap, file, req, crossed>>
  BY DEF ResetDB, rows
<1>1. \A s \in Sources, t \in Tables : Holds(s, t) => s \in taken'
  BY DEF ResetDB, Holds, None, Sources
<1>2. SnapshotsFit' /\ BindingsFit' /\ FilesOnce' /\ ImportsFit' /\ ActiveIsNewest' /\ BindingResolves'
  BY <1>0 DEF ImportInv, SnapshotsFit, BindingsFit, FilesOnce, ImportsFit, ActiveIsNewest,
              BindingResolves, SnapsOf, FirstImport, Removing, At
<1>3. DataWritten'
  <2>1. \A r \in Requests : req[r].pc = "ready" => req[r].src \in Sources /\ TableOf[req[r].object] \in Tables
    BY AtStep DEF Base, PgPcs, ObjectPcs, Snapped, Sources, Tables
  <2>2. \A f \in Files : f \in Sources /\ f \in Tables
    BY DEF Sources, Tables
  <2> QED BY <1>0, <1>1, <2>1, <2>2 DEF ImportInv, DataWritten, Holds
<1>4. ReadyHasTable'
  <2> SUFFICES ASSUME NEW s \in Sources, binding[s] # 0, snap[binding[s]].status = "ready" PROVE s \in taken'
    BY <1>0 DEF ReadyHasTable
  <2>1. snap[binding[s]] # NoSnap
    BY DEF NoSnap, None
  <2>2. snap[binding[s]].table \in Tables
    BY <2>1, BoundSnapshot DEF Own, Tables, PgTables
  <2> QED BY <1>1, <2>2 DEF ImportInv, ReadyHasTable, Holds
<1> QED BY <1>2, <1>3, <1>4 DEF ImportInv

LEMMA RestartInv == ASSUME Base, ImportInv, Restart PROVE ImportInv'
<1>0. UNCHANGED <<source, made, binding, snap, file, table, taken>> /\ crossed' = crossed \cup {s \in Sources : Removing(s)}
  BY DEF Restart, rows
<1>1. \A r \in Requests : req'[r].pc = "idle"
  BY Rows DEF Restart
<1>2. SnapshotsFit' /\ BindingsFit' /\ ActiveIsNewest' /\ ReadyHasTable'
  BY <1>0 DEF ImportInv, SnapshotsFit, BindingsFit, ActiveIsNewest, ReadyHasTable, SnapsOf
<1>3. FilesOnce' /\ ImportsFit' /\ DataWritten'
  BY <1>1 DEF FilesOnce, ImportsFit, DataWritten, FirstImport, FilePcs, Snapped
<1>4. BindingResolves'
  BY <1>0 DEF ImportInv, BindingResolves
<1> QED BY <1>2, <1>3, <1>4 DEF ImportInv

LEMMA StepInv ==
  ASSUME Base, ImportInv, NEW r \in Requests, Step(r)
  PROVE  ImportInv'
<1>1. CASE CreateFileRow(r) \/ AttachFileToSession(r)
  BY <1>1, UploadPlain, PlainInv
<1>2. CASE LockUpload(r) \/ MaterializeToTemp(r) \/ ExtractSchema(r) \/ CheckAllowlist(r)
  BY <1>2, MovePlain, PlainInv
<1>3. CASE ImportTable(r) \/ ImportRows(r)
  BY <1>3, FileTablePlain, PlainInv
<1>4. CASE StreamTable(r) \/ StreamRows(r)
  BY <1>4, StreamPlain, PlainInv
<1>5. CASE EnsureFileSource(r)
  BY <1>5, EnsureSourceInv, FailsInv DEF EnsureFileSource
<1>6. CASE CreateSnapshot(r) \/ PreSnapshot(r)
  BY <1>6, SnapshotInv, FailsInv
<1>7. CASE UpsertBinding(r)
  BY <1>7, BindInv, FailsInv
<1>8. CASE MarkReady(r)
  BY <1>8, MarkReadyInv, FailsInv DEF MarkReady, UnlockUpload
<1>9. CASE RemoveSnapshots(r) \/ DeleteRow(r)
  <2>1. RemoveSnapshots(r) => ~Ends(r)
    <3>1. req \in [Requests -> Locals] /\ req[r] \in Locals
      BY AtStep DEF Base
    <3>2. Goto(r, "removebinding") => req'[r].pc = "removebinding"
      BY <3>1 DEF Goto, Locals
    <3>3. Ends(r) => req'[r].pc = "idle"
      BY <3>1, Rows DEF Ends
    <3> QED BY <3>2, <3>3 DEF RemoveSnapshots
  <2> QED BY <1>9, <2>1, RemoveInv, FailsInv
<1>10. CASE RemoveBinding(r)
  BY <1>10, RemoveBindingInv
<1>11. CASE CreateProfile(r) \/ DropTables(r) \/ TestWrite(r) \/ ImportBreaks(r)
  BY <1>11, FailsInv DEF CreateProfile, DropTables, TestWrite, ImportBreaks, UnlockUpload
<1> QED BY <1>1, <1>2, <1>3, <1>4, <1>5, <1>6, <1>7, <1>8, <1>9, <1>10, <1>11 DEF Step

(* However imports, removals, deletions, resets and restarts interleave    *)
(* and fail: snapshots, bindings, tables and the requests fit each other.  *)
THEOREM ImportInvariance == Spec => []ImportInv
<1>1. Init => ImportInv
  <2> SUFFICES ASSUME Init PROVE ImportInv
    OBVIOUS
  <2>1. (\A r \in Requests : req[r].pc = "idle") /\ (\A i \in Snaps : snap[i] = NoSnap) /\ \A s \in Sources : binding[s] = 0
    BY Rows DEF Init
  <2> QED BY <2>1 DEF ImportInv, SnapshotsFit, BindingsFit, FilesOnce, ImportsFit, DataWritten, ActiveIsNewest,
                      BindingResolves, ReadyHasTable, FirstImport, FilePcs, Snapped
<1>2. ASSUME Base, ImportInv, [Next]_vars PROVE ImportInv'
  <2>1. CASE UNCHANGED <<file, source, conn, snap, made, binding, table, req, lock, history>>
    BY <1>2, <2>1 DEF history, ImportInv, SnapshotsFit, BindingsFit, FilesOnce, ImportsFit, DataWritten, ActiveIsNewest,
                      BindingResolves, ReadyHasTable, SnapsOf, FirstImport, Removing, At
  <2>2. TypeInv
    BY <1>2 DEF Base
  <2> QED BY <1>2, <2>1, <2>2, NextCases, StepInv, BegunInv, ConnectionInv, ResetInv, RestartInv
<1> QED BY <1>1, <1>2, TypeInvariance, LockHeld, FileInvariance, PTL DEF Spec, Base

(* The snapshot in use is the last that became ready, whatever imports of  *)
(* the source ran together.                                                *)
THEOREM NewestInUse == Spec => []ActiveIsNewest
<1>1. ImportInv => ActiveIsNewest
  BY DEF ImportInv
<1> QED BY <1>1, ImportInvariance, PTL

(* The snapshot in use exists, outside the removals that are under way,    *)
(* crossed an import, or broke off.                                        *)
THEOREM Resolves == Spec => []BindingResolves
<1>1. ImportInv => BindingResolves
  BY DEF ImportInv
<1> QED BY <1>1, ImportInvariance, PTL

(* A ready snapshot's data is in the scratch database unless it was taken. *)
THEOREM ReadyTable == Spec => []ReadyHasTable
<1>1. ImportInv => ReadyHasTable
  BY DEF ImportInv
<1> QED BY <1>1, ImportInvariance, PTL
=============================================================================
