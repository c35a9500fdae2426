---------------------------- MODULE SourceImport ----------------------------
(***************************************************************************)
(* The data sources of a session: uploading a file, importing an object of *)
(* a PostgreSQL database, removing a source from the session and deleting  *)
(* it from the workspace (handler/upload.go, handler/data_source.go,       *)
(* service/source_service.go, service/postgres_service.go,                 *)
(* service/file_service.go, data/ingester.go).                             *)
(*                                                                         *)
(* A request is a goroutine.  Its steps are the database statements and    *)
(* the use of the session's scratch database; every one may fail, and the  *)
(* steps of other requests, a reset of the session and a restart of the    *)
(* server may come between them.  Only imports take the session's upload   *)
(* lock.  Rows, columns and values of the imported tables are left out.    *)
(***************************************************************************)
EXTENDS Naturals, FiniteSets

CONSTANTS Requests,   \* requests that may be under way at a time
          Files,      \* uploads; each becomes a file and a source of its own
          Pgs,        \* PostgreSQL sources of the workspace
          Objects,    \* tables and views of these databases
          TableOf,    \* sanitizePGTableName: the scratch table of an object
          MaxSnaps,   \* bound: snapshots ever made
          MaxCalls    \* bound: requests ever begun

ASSUME SourceImportAssumption ==
    /\ MaxSnaps \in Nat /\ MaxCalls \in Nat /\ Files \cap Pgs = {}
    /\ TableOf \in [Objects -> {TableOf[o] : o \in Objects}]
    /\ Files \cap {TableOf[o] : o \in Objects} = {}
    /\ "none" \notin Files \cup Pgs \cup Requests   \* ids are generated

None    == "none"
Sources == Files \cup Pgs
Snaps   == 1..MaxSnaps
Tables  == Files \cup {TableOf[o] : o \in Objects}   \* a file's id begins its table's name

VARIABLES
    file,       \* of each upload: its object, its row, its place in the session
    source,     \* sources that have a row
    conn,       \* database_connections: row and allowlist
    snap,       \* source_snapshots
    made,       \* snapshots made so far
    binding,    \* session_source_bindings: the active snapshot, or 0
    table,      \* the scratch database: whose data each table holds
    req,        \* the requests: where they are and their locals
    lock,       \* the session's upload lock
    calls,      \* requests begun so far
    wanted,     \* history: the allowlist that the user saved last
    reverted,   \* history: sources whose allowlist a connection test has set back
    crossed,    \* history: sources removed while they were imported, or half removed
    taken,      \* history: sources whose table a drop, another source or a reset took
    panicked    \* history: requests whose scratch database was closed under them

vars == <<file, source, conn, snap, made, binding, table, req, lock, calls,
          wanted, reverted, crossed, taken, panicked>>

NoFile == [object |-> FALSE, row |-> FALSE, attached |-> FALSE]
NoConn == [row |-> FALSE, allow |-> {}]
NoSnap == [src |-> None, table |-> None, status |-> None]
Idle   == [pc |-> "idle", src |-> None, object |-> None, snap |-> 0, tables |-> {},
           copy |-> NoConn, allowed |-> TRUE]

Init ==
    /\ file = [f \in Files |-> NoFile]
    /\ source = {} /\ conn = [s \in Pgs |-> NoConn]
    /\ snap = [i \in Snaps |-> NoSnap] /\ made = 0
    /\ binding = [s \in Sources |-> 0]
    /\ table = [t \in Tables |-> None]
    /\ req = [r \in Requests |-> Idle] /\ lock = None /\ calls = 0
    /\ wanted = [s \in Pgs |-> {}]
    /\ reverted = {} /\ crossed = {} /\ taken = {} /\ panicked = {}

history == <<wanted, reverted, crossed, taken, panicked>>
rows    == <<source, conn, snap, made, binding>>

At(r, pc)     == req[r].pc = pc
Goto(r, pc)   == req' = [req EXCEPT ![r].pc = pc]
Ends(r)       == req' = [req EXCEPT ![r] = Idle]

\* The end of a request that holds the upload lock.
UnlockUpload(r) == Ends(r) /\ lock' = None

SnapsOf(s) == {i \in Snaps : snap[i].src = s}

---------------------------------------------------------------------------
(* Uploading a file: FileService.Upload undoes what it has done *)

PutObject(r, f) ==
    /\ At(r, "idle") /\ file[f] = NoFile /\ f \notin source
    /\ file' = [file EXCEPT ![f].object = TRUE]
    /\ req' = [req EXCEPT ![r].pc = "row", ![r].src = f]
    /\ UNCHANGED <<rows, table, lock, history>>

\* The deletions that undo a step may fail too, unseen.
Undo(f) ==
    \E object, row \in BOOLEAN :
        /\ object => file[f].object
        /\ row => file[f].row
        /\ file' = [file EXCEPT ![f] = [object |-> object, row |-> row, attached |-> FALSE]]

CreateFileRow(r) ==
    /\ At(r, "row")
    /\ \/ file' = [file EXCEPT ![req[r].src].row = TRUE] /\ Goto(r, "attach")
       \/ Undo(req[r].src) /\ Ends(r)
    /\ UNCHANGED <<rows, table, lock, history>>

\* Mutant: the file is part of the session although its object was taken back.
AttachFirst(r) ==
    /\ At(r, "attach")
    /\ \/ file' = [file EXCEPT ![req[r].src].attached = TRUE] /\ Goto(r, "source")
       \/ file' = [file EXCEPT ![req[r].src].attached = TRUE, ![req[r].src].object = FALSE] /\ Ends(r)
    /\ UNCHANGED <<rows, table, lock, history>>

AttachFileToSession(r) ==
    /\ At(r, "attach")
    /\ \/ file' = [file EXCEPT ![req[r].src].attached = TRUE] /\ Goto(r, "source")
       \/ Undo(req[r].src) /\ Ends(r)
    /\ UNCHANGED <<rows, table, lock, history>>

EnsureFileSource(r) ==
    /\ At(r, "source")
    /\ \/ source' = source \cup {req[r].src} /\ Goto(r, "lock")
       \/ source' = source /\ Ends(r)
    /\ UNCHANGED <<file, conn, snap, made, binding, table, lock, history>>

\* Mutant: imports do not wait for each other.
NoLock(r) ==
    /\ At(r, "lock")
    /\ lock' = lock
    /\ Goto(r, IF req[r].src \in Files THEN "file" ELSE "check")
    /\ UNCHANGED <<file, rows, table, history>>

LockUpload(r) ==
    /\ At(r, "lock") /\ lock = None
    /\ lock' = r
    /\ Goto(r, IF req[r].src \in Files THEN "file" ELSE "check")
    /\ UNCHANGED <<file, rows, table, history>>

\* A table is dropped before it is made again.
CreateTableTyped(t, s) ==
    /\ table' = [table EXCEPT ![t] = s]
    /\ taken' = (taken \cup {table[t]}) \ {None, s}

\* The stored object is copied to a temporary file.
MaterializeToTemp(r) ==
    /\ At(r, "file")
    /\ \/ file[req[r].src].object /\ Goto(r, "table") /\ lock' = lock
       \/ UnlockUpload(r)
    /\ UNCHANGED <<file, rows, table, history>>

\* ImportFileRaw: header, sample, column types and the empty table.
ImportTable(r) ==
    LET f == req[r].src IN
    /\ At(r, "table") /\ r \notin panicked
    /\ \/ CreateTableTyped(f, f) /\ Goto(r, "rows") /\ lock' = lock
       \/ UNCHANGED <<table, taken>> /\ UnlockUpload(r)
    /\ UNCHANGED <<file, rows, wanted, reverted, crossed, panicked>>

\* The batches of rows; a failed one, or too many rows, drops the table again.
ImportRows(r) ==
    LET f == req[r].src IN
    /\ At(r, "rows") /\ r \notin panicked
    /\ \/ table[f] = f /\ Goto(r, "schema") /\ UNCHANGED <<table, lock>>
       \/ table' = [table EXCEPT ![f] = None] /\ UnlockUpload(r)
    /\ UNCHANGED <<file, rows, history>>

\* Without a schema the table is left behind.
ExtractSchema(r) ==
    /\ At(r, "schema") /\ r \notin panicked
    /\ \/ Goto(r, "snapshot") /\ lock' = lock
       \/ UnlockUpload(r)
    /\ UNCHANGED <<file, rows, table, history>>

\* A new row of source_snapshots; the foreign key needs the source's row.
NewSnapshot(s, t, status, others) ==
    /\ made < MaxSnaps /\ s \in source
    /\ made' = made + 1
    /\ snap' = [others EXCEPT ![made + 1] = [src |-> s, table |-> t, status |-> status]]

\* CreateSnapshot: the snapshots of earlier imports go first (cleanupOldSnapshots).
CreateSnapshot(r) ==
    LET f       == req[r].src
        cleaned == [i \in Snaps |-> IF i \in SnapsOf(f) THEN NoSnap ELSE snap[i]]
    IN  /\ At(r, "snapshot")
        /\ \/ /\ NewSnapshot(f, f, "ready", cleaned)
              /\ req' = [req EXCEPT ![r].pc = "bind", ![r].snap = made + 1]
              /\ lock' = lock
           \/ snap' = cleaned /\ made' = made /\ UnlockUpload(r)
        /\ UNCHANGED <<file, source, conn, binding, table, history>>

---------------------------------------------------------------------------
(* Importing an object of a PostgreSQL source *)

ImportDataSource(r, s, o) ==
    /\ At(r, "idle") /\ s \in source
    /\ req' = [req EXCEPT ![r].pc = "lock", ![r].src = s, ![r].object = o]
    /\ UNCHANGED <<file, rows, table, lock, history>>

\* Mutant: the allowlist is not asked.
AnyObject(r) ==
    LET s == req[r].src IN
    /\ At(r, "check")
    /\ \/ /\ conn[s].row
          /\ req' = [req EXCEPT ![r].pc = "presnapshot", ![r].allowed = req[r].object \in wanted[s] \/ s \in reverted]
          /\ lock' = lock
       \/ UnlockUpload(r)
    /\ UNCHANGED <<file, rows, table, history>>

\* Mutant: an object that is not allowed is refused without giving the lock back.
RefusedKeepsLock(r) ==
    LET s == req[r].src IN
    /\ At(r, "check")
    /\ \/ /\ conn[s].row /\ req[r].object \in conn[s].allow
          /\ req' = [req EXCEPT ![r].pc = "presnapshot"]
          /\ lock' = lock
       \/ Ends(r) /\ lock' = lock
    /\ UNCHANGED <<file, rows, table, history>>

\* The connection's row, its allowlist and the connection itself.
CheckAllowlist(r) ==
    LET s == req[r].src IN
    /\ At(r, "check")
    /\ \/ /\ conn[s].row /\ req[r].object \in conn[s].allow
          /\ req' = [req EXCEPT ![r].pc = "presnapshot", ![r].allowed = req[r].object \in wanted[s] \/ s \in reverted]
          /\ lock' = lock
       \/ UnlockUpload(r)
    /\ UNCHANGED <<file, rows, table, history>>

PreSnapshot(r) ==
    LET s == req[r].src IN
    /\ At(r, "presnapshot")
    /\ \/ /\ NewSnapshot(s, TableOf[req[r].object], "creating", snap)
          /\ req' = [req EXCEPT ![r].pc = "bind", ![r].snap = made + 1]
          /\ lock' = lock
       \/ UNCHANGED <<snap, made>> /\ UnlockUpload(r)
    /\ UNCHANGED <<file, source, conn, binding, table, history>>

\* UPDATE finds no row when the snapshot is gone.
UpdateStatus(i, status) ==
    snap' = IF snap[i] = NoSnap THEN snap ELSE [snap EXCEPT ![i].status = status]

\* The binding of file and database imports.
UpsertBinding(r) ==
    LET s == req[r].src IN
    /\ At(r, "bind")
    /\ \/ /\ s \in source
          /\ binding' = [binding EXCEPT ![s] = req[r].snap]
          /\ Goto(r, IF s \in Files THEN "profile" ELSE "stream")
          /\ UNCHANGED <<snap, lock>>
       \/ /\ binding' = binding
          /\ IF s \in Files THEN snap' = snap ELSE UpdateStatus(req[r].snap, "failed")
          /\ UnlockUpload(r)
    /\ UNCHANGED <<file, source, conn, made, table, history>>

StreamFails(r) == UpdateStatus(req[r].snap, "failed") /\ UnlockUpload(r)

\* streamImportToSQLite: the object is opened and the table made.
StreamTable(r) ==
    /\ At(r, "stream") /\ r \notin panicked
    /\ \/ CreateTableTyped(TableOf[req[r].object], req[r].src) /\ Goto(r, "copy") /\ UNCHANGED <<snap, lock>>
       \/ UNCHANGED <<table, taken>> /\ StreamFails(r)
    /\ UNCHANGED <<file, source, conn, made, binding, wanted, reverted, crossed, panicked>>

\* Mutant: an import that broke off is taken for a complete one.
FailedStreamIsReady(r) ==
    /\ At(r, "copy") /\ r \notin panicked
    /\ Goto(r, "ready")
    /\ table' = [table EXCEPT ![TableOf[req[r].object]] = None]
    /\ UNCHANGED <<file, rows, lock, history>>

\* The rows are copied in batches; the table of a failed import stays.
StreamRows(r) ==
    /\ At(r, "copy") /\ r \notin panicked
    /\ \/ /\ table[TableOf[req[r].object]] = req[r].src
          /\ Goto(r, "ready") /\ UNCHANGED <<snap, lock>>
       \/ StreamFails(r)
    /\ UNCHANGED <<file, source, conn, made, binding, table, history>>

\* The schema is read and the snapshot is ready; without a schema it stays "creating".
MarkReady(r) ==
    /\ At(r, "ready") /\ r \notin panicked
    /\ \/ UpdateStatus(req[r].snap, "ready") /\ lock' = lock
          /\ Goto(r, "profile")
       \/ snap' = snap /\ lock' = lock /\ Goto(r, "profile")   \* the UPDATE fails, unseen
       \/ snap' = snap /\ UnlockUpload(r)
    /\ UNCHANGED <<file, source, conn, made, binding, table, history>>

\* CreateSemanticProfile (SemanticProfile); without a profile the snapshot has failed.
CreateProfile(r) ==
    /\ At(r, "profile")
    /\ UpdateStatus(req[r].snap, "failed") \/ snap' = snap
    /\ UnlockUpload(r)
    /\ UNCHANGED <<file, source, conn, made, binding, table, history>>

---------------------------------------------------------------------------
(* Removing a source from the session, and from the workspace *)

RemoveSessionSource(r, s) ==
    /\ At(r, "idle") /\ s \in source /\ binding[s] # 0
    /\ req' = [req EXCEPT ![r].pc = "removesnaps", ![r].src = s,
                          ![r].tables = {snap[binding[s]].table} \ {None}]
    /\ UNCHANGED <<file, rows, table, lock, history>>

\* An import of the source that has made its snapshot and will use it.
Importing(s) == \E r \in Requests : /\ req[r].src = s /\ req[r].snap # 0
                                    /\ req[r].pc \in {"bind", "stream", "copy", "ready", "profile"}

\* A removal that has deleted the snapshots and not yet the binding.
Removing(s) == \E r \in Requests : req[r].src = s /\ At(r, "removebinding")

\* Profiles and snapshots.
RemoveSnapshots(r) ==
    LET s == req[r].src IN
    /\ At(r, "removesnaps")
    /\ snap' = [i \in Snaps |-> IF i \in SnapsOf(s) THEN NoSnap ELSE snap[i]]
    /\ crossed' = IF Importing(s) THEN crossed \cup {s} ELSE crossed
    /\ Goto(r, "removebinding")
    /\ UNCHANGED <<file, source, conn, made, binding, table, lock,
                   wanted, reverted, taken, panicked>>

\* Mutant: the binding stays.
BindingStays(r) ==
    /\ At(r, "removebinding")
    /\ binding' = binding
    /\ crossed' = crossed
    /\ Goto(r, "drop")
    /\ UNCHANGED <<file, source, conn, snap, made, table, lock,
                   wanted, reverted, taken, panicked>>

RemoveBinding(r) ==
    LET s == req[r].src IN
    /\ At(r, "removebinding")
    /\ \/ /\ binding' = [binding EXCEPT ![s] = 0]
          /\ crossed' = crossed
          /\ Goto(r, "drop")
       \/ binding' = binding /\ crossed' = crossed \cup {s} /\ Ends(r)
    /\ UNCHANGED <<file, source, conn, snap, made, table, lock,
                   wanted, reverted, taken, panicked>>

\* Nobody asks whose table it is by now, and the upload lock is not taken.
DropTables(r) ==
    /\ At(r, "drop")
    /\ table' = [t \in Tables |-> IF t \in req[r].tables THEN None ELSE table[t]]
    /\ taken' = (taken \cup {table[t] : t \in req[r].tables}) \ {None}
    /\ Ends(r)
    /\ UNCHANGED <<file, rows, lock, wanted, reverted, crossed, panicked>>

\* Only PostgreSQL sources are deleted.
DeleteDataSource(r, s) ==
    /\ At(r, "idle") /\ s \in source \cap Pgs
    /\ req' = [req EXCEPT ![r].pc = "deleterow", ![r].src = s,
                          ![r].tables = {snap[i].table : i \in SnapsOf(s)}]
    /\ UNCHANGED <<file, rows, table, lock, history>>

\* ON DELETE CASCADE: connection, snapshots and bindings go with the row.
DeleteRow(r) ==
    LET s == req[r].src IN
    /\ At(r, "deleterow")
    /\ \/ /\ source' = source \ {s}
          /\ conn' = [conn EXCEPT ![s] = NoConn]
          /\ snap' = [i \in Snaps |-> IF i \in SnapsOf(s) THEN NoSnap ELSE snap[i]]
          /\ binding' = [binding EXCEPT ![s] = 0]
          /\ Goto(r, "drop")
       \/ UNCHANGED <<source, conn, snap, binding>> /\ Ends(r)
    /\ UNCHANGED <<file, made, table, lock, history>>

---------------------------------------------------------------------------
(* The connection of a PostgreSQL source *)

\* The source's row first; without the connection's it stays behind.
CreatePostgresSource(s, allow) ==
    /\ source' = source \cup {s}
    /\ conn' = [conn EXCEPT ![s] = [row |-> TRUE, allow |-> allow]] \/ conn' = conn

\* The id is new, so that no step of an earlier source of this name is under way.
CreateDataSource(s, allow) ==
    /\ s \notin source
    /\ \A r \in Requests : req[r].src # s
    /\ CreatePostgresSource(s, allow)
    /\ wanted' = [wanted EXCEPT ![s] = allow]
    /\ reverted' = reverted \ {s} /\ crossed' = crossed \ {s}
    /\ UNCHANGED <<file, snap, made, binding, table, req, lock, taken, panicked>>

UpdateDataSource(s, allow) ==
    /\ s \in source /\ conn[s].row
    /\ conn' = [conn EXCEPT ![s] = [row |-> TRUE, allow |-> allow]]
    /\ wanted' = [wanted EXCEPT ![s] = allow]
    /\ reverted' = reverted \ {s}
    /\ UNCHANGED <<file, source, snap, made, binding, table, req, lock,
                   crossed, taken, panicked>>

\* The test itself takes time; then the row is read again ...
TestDataSource(r, s) ==
    /\ At(r, "idle") /\ s \in source \cap Pgs /\ conn[s].row
    /\ req' = [req EXCEPT ![r].pc = "testwrite", ![r].src = s, ![r].copy = conn[s]]
    /\ UNCHANGED <<file, rows, table, lock, history>>

\* ... and written back as a whole, with the outcome of the test (left out).
TestWrite(r) ==
    LET s == req[r].src IN
    /\ At(r, "testwrite")
    /\ \/ /\ conn[s].row
          /\ conn' = [conn EXCEPT ![s] = req[r].copy]
          /\ reverted' = IF req[r].copy.allow = wanted[s] THEN reverted ELSE reverted \cup {s}
       \/ UNCHANGED <<conn, reverted>>
    /\ Ends(r)
    /\ UNCHANGED <<file, source, snap, made, binding, table, lock,
                   wanted, crossed, taken, panicked>>

---------------------------------------------------------------------------
(* Reset and restart *)

UsesDB == {"table", "rows", "schema", "stream", "copy", "ready"}

\* Session.Reset replaces the scratch database, without the upload lock.  An import
\* that uses it finds it closed, or nil.
ResetDB ==
    /\ table' = [t \in Tables |-> None]
    /\ taken' = (taken \cup {table[t] : t \in Tables}) \ {None}
    /\ panicked' = panicked \cup {r \in Requests : req[r].pc \in UsesDB}
    /\ UNCHANGED <<file, rows, req, lock, wanted, reverted, crossed>>

\* With a closed database the import fails; with none it panics.  The panic is caught
\* above the handler, and the upload lock stays taken.
ImportBreaks(r) ==
    /\ r \in panicked /\ req[r].pc \in UsesDB
    /\ \/ /\ snap' = IF req[r].pc \in {"stream", "copy"} /\ snap[req[r].snap] # NoSnap
                     THEN [snap EXCEPT ![req[r].snap].status = "failed"] ELSE snap
          /\ UnlockUpload(r)
          /\ panicked' = panicked \ {r}
       \/ snap' = snap /\ Ends(r) /\ lock' = lock /\ panicked' = panicked
    /\ UNCHANGED <<file, source, conn, made, binding, table,
                   wanted, reverted, crossed, taken>>

\* Rows, objects and the scratch database are on disk.
Restart ==
    /\ req' = [r \in Requests |-> Idle] /\ lock' = None /\ panicked' = {}
    /\ crossed' = crossed \cup {s \in Sources : Removing(s)}
    /\ UNCHANGED <<file, rows, table, wanted, reverted, taken>>

Step(r) ==
    \/ CreateFileRow(r) \/ AttachFileToSession(r) \/ EnsureFileSource(r)
    \/ LockUpload(r) \/ MaterializeToTemp(r) \/ ImportTable(r) \/ ImportRows(r)
    \/ ExtractSchema(r) \/ CreateSnapshot(r)
    \/ CheckAllowlist(r) \/ PreSnapshot(r) \/ UpsertBinding(r)
    \/ StreamTable(r) \/ StreamRows(r) \/ MarkReady(r) \/ CreateProfile(r)
    \/ RemoveSnapshots(r) \/ RemoveBinding(r) \/ DropTables(r) \/ DeleteRow(r)
    \/ TestWrite(r) \/ ImportBreaks(r)

Begin ==
    \/ \E r \in Requests :
          \/ \E f \in Files : PutObject(r, f)
          \/ \E s \in Pgs, o \in Objects : ImportDataSource(r, s, o)
          \/ \E s \in Sources : RemoveSessionSource(r, s)
          \/ \E s \in Pgs : DeleteDataSource(r, s) \/ TestDataSource(r, s)
    \/ \E s \in Pgs, allow \in SUBSET Objects :
          CreateDataSource(s, allow) \/ UpdateDataSource(s, allow)

Next ==
    \/ calls < MaxCalls /\ calls' = calls + 1 /\ Begin
    \/ calls' = calls /\ ((\E r \in Requests : Step(r)) \/ ResetDB \/ Restart)

Spec == Init /\ [][Next]_vars

---------------------------------------------------------------------------
(* What requests and rows know of each other *)

UnderLock == UsesDB \cup {"file", "snapshot", "bind", "check", "presnapshot", "profile"}

FilePcs   == {"row", "attach", "source", "file", "table", "rows", "schema", "snapshot"}
PgPcs     == {"check", "presnapshot", "stream", "copy", "ready", "deleterow", "testwrite"}
BothPcs   == {"lock", "bind", "profile", "removesnaps", "removebinding", "drop"}
Snapped   == {"bind", "stream", "copy", "ready", "profile"}   \* the snapshot is made
ObjectPcs == Snapped \cup {"lock", "check", "presnapshot"}
PgTables  == {TableOf[o] : o \in Objects}

FileRow     == [object : BOOLEAN, row : BOOLEAN, attached : BOOLEAN]
ConnRow     == [row : BOOLEAN, allow : SUBSET Objects]
SnapshotRow == [src : Sources \cup {None}, table : Tables \cup {None},
                status : {None, "creating", "ready", "failed"}]
Locals == [pc : {"idle"} \cup FilePcs \cup PgPcs \cup BothPcs, src : Sources \cup {None},
           object : Objects \cup {None}, snap : 0..MaxSnaps, tables : SUBSET (Tables \cup {None}),
           copy : ConnRow, allowed : BOOLEAN]

TypeOK ==
    /\ file \in [Files -> FileRow] /\ source \subseteq Sources
    /\ conn \in [Pgs -> ConnRow] /\ snap \in [Snaps -> SnapshotRow]
    /\ made \in 0..MaxSnaps /\ binding \in [Sources -> 0..MaxSnaps]
    /\ table \in [Tables -> Sources \cup {None}]
    /\ req \in [Requests -> Locals] /\ lock \in Requests \cup {None}
    /\ wanted \in [Pgs -> SUBSET Objects] /\ panicked \subseteq Requests

\* The locals that a step relies on are set.
LocalsSet ==
    \A r \in Requests :
        /\ At(r, "idle") => req[r] = Idle
        /\ req[r].pc \in FilePcs => req[r].src \in Files
        /\ req[r].pc \in PgPcs => req[r].src \in Pgs
        /\ req[r].pc \in BothPcs => req[r].src \in Sources
        /\ req[r].pc \in ObjectPcs /\ req[r].src \in Pgs => req[r].object \in Objects

\* An upload that has still to be attached has its object, and the file to itself.
Uploading(r) == req[r].pc \in {"row", "attach"}
UploadsApart ==
    /\ \A r \in Requests : Uploading(r) =>
          file[req[r].src].object /\ (At(r, "attach") => file[req[r].src].row)
    /\ \A r1, r2 \in Requests : Uploading(r1) /\ Uploading(r2) /\ req[r1].src = req[r2].src => r1 = r2

\* A saved allowlist is the user's last, or a connection test has set it back.
AllowlistKept ==
    /\ \A s \in Pgs : conn[s].row => s \in source /\ (conn[s].allow = wanted[s] \/ s \in reverted)
    /\ \A r \in Requests : req[r].allowed

\* Snapshots have numbers of their own, a source with a row, and its table.
SnapshotsFit ==
    \A i \in Snaps : snap[i] # NoSnap =>
        /\ i <= made /\ snap[i].src \in source
        /\ \/ snap[i].src \in Files /\ snap[i].table = snap[i].src
           \/ snap[i].src \in Pgs /\ snap[i].table \in PgTables

BindingsFit ==
    \A s \in Sources : binding[s] # 0 =>
        s \in source /\ binding[s] <= made /\ snap[binding[s]].src \in {s, None}

\* Until a file is bound, one request imports it and it has no other snapshot.
FirstImport(r) == req[r].pc \in FilePcs \cup {"lock", "bind"} /\ req[r].src \in Files
FilesOnce ==
    /\ \A r \in Requests : FirstImport(r) =>
          /\ binding[req[r].src] = 0
          /\ req[r].pc # "bind" => SnapsOf(req[r].src) = {}
          /\ req[r].pc = "source" => file[req[r].src].attached
          /\ req[r].pc \notin {"row", "attach", "source"} => req[r].src \in source
    /\ \A r1, r2 \in Requests : FirstImport(r1) /\ FirstImport(r2) /\ req[r1].src = req[r2].src => r1 = r2

\* The snapshot that an import has made is the newest of all, and it is the source's.
ImportsFit ==
    \A r \in Requests : req[r].pc \in Snapped =>
        LET s == req[r].src
            i == req[r].snap
        IN  /\ i = made /\ i # 0
            /\ snap[i].src \in {s, None} /\ (s \in Files => s \in source)
            /\ s \in source /\ s \notin crossed => snap[i].src = s
            /\ req[r].pc # "bind" => binding[s] \in {0, i}
            /\ req[r].pc # "profile" /\ s \in Pgs /\ snap[i] # NoSnap =>
                   snap[i].status = "creating" /\ snap[i].table = TableOf[req[r].object]

\* The data that an import has written is there as long as nobody took it.
DataWritten ==
    \A r \in Requests :
        LET s == req[r].src IN
        /\ req[r].pc \in {"schema", "snapshot", "bind"} /\ s \in Files => table[s] = s \/ s \in taken
        /\ req[r].pc = "ready" => table[TableOf[req[r].object]] = s \/ s \in taken

---------------------------------------------------------------------------
(* Properties *)

\* A file that the session lists can be read: its object and its row are there, however
\* an upload ended (FileService.Upload).
FileReadable == \A f \in Files : file[f].attached => file[f].object /\ file[f].row

\* The snapshot in use is the last one that became ready, whatever imports of the
\* source were under way together (LockUpload in upload.go and data_source.go).
ActiveIsNewest ==
    \A s \in Sources : binding[s] # 0 =>
        \A i \in SnapsOf(s) : snap[i].status = "ready" => i <= binding[s]

\* The snapshot in use exists, unless the source was removed while it was being
\* imported, or its removal is under way or broke off (RemoveSessionSource is neither
\* under the lock nor a transaction).
BindingResolves ==
    \A s \in Sources :
        binding[s] # 0 /\ s \notin crossed /\ ~Removing(s) => snap[binding[s]].src = s

\* A source whose snapshot is ready has its data in the scratch database, unless a
\* reset, a removal or an import of another source took the table.
ReadyHasTable ==
    \A s \in Sources : binding[s] # 0 =>
        LET i == snap[binding[s]] IN
        i.status = "ready" => table[i.table] = s \/ s \in taken

\* Only objects that the user's last allowlist names are imported, unless a connection
\* test has written an older one back (TestDataSourceHandler).
AllowlistHonoured ==
    \A r \in Requests :
        req[r].pc \in {"presnapshot", "bind", "stream", "copy", "ready", "profile"} /\ req[r].src \in Pgs
            => req[r].allowed

\* The upload lock, without which the session accepts no import, is held by an import
\* that is under way, and by no two, however imports end, unless a reset has taken the
\* database away from one (LockUpload and UploadMu.Unlock, which is not deferred).
LockHeldByImport ==
    /\ lock # None => req[lock].pc \in UnderLock \/ lock \in panicked
    /\ \A r \in Requests : req[r].pc \in UnderLock => lock = r
=============================================================================
