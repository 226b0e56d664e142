---------------------------- MODULE StoreMigration ----------------------------
(***************************************************************************)
(* store._connect and store._migrate: how the threads of a process that    *)
(* opens the snapshot database bring an older file to SCHEMA_VERSION, with *)
(* crashes between two statements and statements that raise.  DDL and      *)
(* PRAGMA statements run outside a transaction (sqlite3 opens one for DML  *)
(* only, and executescript commits each statement by itself), so each of   *)
(* them is a step of its own that the other threads and a restart see.     *)
(***************************************************************************)
EXTENDS Naturals, Sequences

CONSTANTS
    Threads,       \* threads that open the database: request handlers, the scan thread
    FromVersions,  \* user_version of the file the program is started on
    MaxCrashes,    \* bound: crashes of the process
    MaxFailures    \* bound: statements that raise for a reason outside the file

SchemaVersion == 4

ASSUME MigrationConstants ==
    FromVersions \subseteq 0..(SchemaVersion + 1) /\ MaxCrashes \in Nat /\ MaxFailures \in Nat

VARIABLES
    version,      \* PRAGMA user_version
    tables,       \* tables that exist
    meta,         \* snapshots has the column `meta`
    data,         \* tables that still hold the rows of the file the program was started on
    backup,       \* tables whose rows the backup file holds
    fileVersion,  \* the version of that file
    initialized,  \* _initialized_paths has the path
    pc,           \* the next statement of each thread, or the script it is in
    at,           \* its position in that script
    seen,         \* the version it has read
    crashes,
    failures,
    disturbed     \* history: a reset was interrupted, or another thread was at work during one

db == <<version, tables, meta, data>>
vars == <<db, backup, fileVersion, initialized, pc, at, seen, crashes, failures, disturbed>>

Tables == {"snapshots", "opportunities", "snapshot_frames", "backlog_intervals"}

\* The tables of a file of version v.
TablesOf(v) ==
    CASE v = 0 -> {}
      [] v \in {1, 2} -> {"snapshots", "opportunities"}
      [] v = 3 -> Tables \ {"backlog_intervals"}
      [] v >= 4 -> Tables

\* CREATE TABLE IF NOT EXISTS, and CREATE INDEX IF NOT EXISTS for the indexes of one table.
Table(name) == [op |-> "table", on |-> name]
Index(name) == [op |-> "index", on |-> name]

FramesScript == <<Table("snapshot_frames"), Index("snapshot_frames")>>
BacklogScript == <<Table("backlog_intervals"), Index("backlog_intervals")>>
SchemaScript ==
    <<Table("snapshots"), Table("opportunities"), Index("opportunities"),
      Table("snapshot_frames"), Index("snapshot_frames"),
      Table("backlog_intervals"), Index("backlog_intervals")>>

Scripts == {"create", "frames", "backlog", "recreate"}
Script(phase) ==
    CASE phase = "frames" -> FramesScript
      [] phase = "backlog" -> BacklogScript
      [] OTHER -> SchemaScript

\* What comes after a script: a fresh file, a forward step, a reset.
AfterScript(phase) ==
    CASE phase = "create" -> "freshstamp"
      [] phase = "frames" -> "backlog"
      [] phase = "backlog" -> "stamp"
      [] OTHER -> "restamp"

\* _reset_to_fresh drops them in this order.
DropOrder == <<"backlog_intervals", "snapshot_frames", "opportunities", "snapshots">>

\* The statements inside the try of _migrate, and those of the reset its handler starts.
ForwardSteps == {"alter", "frames", "backlog", "stamp"}
ResetSteps == {"drop", "recreate", "restamp"}

\* A thread that has no statement of the migration before it.
Outside == {"open", "failed", "refused"}

MigrationInit ==
    /\ version \in FromVersions
    /\ tables = TablesOf(version)
    /\ meta = (version >= 2)
    /\ data = TablesOf(version)
    /\ fileVersion = version
    /\ backup = {}
    /\ initialized = FALSE
    /\ pc = [t \in Threads |-> "open"]
    /\ at = [t \in Threads |-> 1]
    /\ seen = [t \in Threads |-> 0]
    /\ crashes = 0 /\ failures = 0
    /\ disturbed = FALSE

Goto(t, from, to) == pc[t] = from /\ pc' = [pc EXCEPT ![t] = to] /\ at' = [at EXCEPT ![t] = 1]

-----------------------------------------------------------------------------
(* _connect *)

\* The path was brought up to date earlier in this process.
OpenKnown(t) ==
    /\ initialized
    /\ Goto(t, "open", "ready")
    /\ UNCHANGED <<db, backup, fileVersion, initialized, seen, crashes, failures>>

\* Mutant: a newer file is upgraded like an older one.
AfterReadNewer(v) ==
    CASE v = SchemaVersion -> "indexes"
      [] v = 0 -> "create"
      [] OTHER -> "backup"

\* What _migrate does with the version it has read.
AfterRead(v) ==
    CASE v = SchemaVersion -> "indexes"
      [] v > SchemaVersion -> "refused"
      [] v = 0 -> "create"
      [] OTHER -> "backup"

ReadVersion(t) ==
    /\ ~initialized
    /\ Goto(t, "open", AfterRead(version))
    /\ seen' = [seen EXCEPT ![t] = version]
    /\ UNCHANGED <<db, backup, fileVersion, initialized, crashes, failures>>

\* _ensure_indexes; the path is remembered.
EnsureIndexes(t) ==
    /\ {"opportunities", "snapshots"} \subseteq tables
    /\ Goto(t, "indexes", "ready")
    /\ initialized' = TRUE
    /\ UNCHANGED <<db, backup, fileVersion, seen, crashes, failures>>

\* The next request opens the database again.
Reopen(t) ==
    /\ Goto(t, "failed", "open")
    /\ UNCHANGED <<db, backup, fileVersion, initialized, seen, crashes, failures>>

-----------------------------------------------------------------------------
(* _migrate *)

\* Mutant: the chain of `if version < n` ends one too early.
FirstStepSkips(v) == CASE v < 2 -> "alter" [] v = 2 -> "frames" [] v > 2 -> "stamp"

\* The first `if version < n` that is taken; the later ones follow from it.
FirstStep(v) == CASE v < 2 -> "alter" [] v = 2 -> "frames" [] v > 2 -> "backlog"

\* Mutant: the upgrade starts without its backup.
BackupForgotten(t) ==
    /\ Goto(t, "backup", FirstStep(seen[t]))
    /\ UNCHANGED <<db, backup, fileVersion, initialized, seen, crashes, failures>>

\* _backup_before_migration: the backup file becomes a copy of the database as it is now.
Backup(t) ==
    /\ Goto(t, "backup", FirstStep(seen[t]))
    /\ backup' = data
    /\ UNCHANGED <<db, fileVersion, initialized, seen, crashes, failures>>

\* v1 -> v2, ALTER TABLE ADD COLUMN.
AddMeta(t) ==
    /\ "snapshots" \in tables /\ ~meta
    /\ Goto(t, "alter", "frames")
    /\ meta' = TRUE
    /\ UNCHANGED <<version, tables, data, backup, fileVersion, initialized, seen, crashes, failures>>

\* One statement of a script: a fresh schema, v2 -> v3, v3 -> v4.
RunScript(t) ==
    LET phase == pc[t]
        statement == Script(phase)[at[t]]
        last == at[t] = Len(Script(phase))
    IN /\ phase \in Scripts
       /\ statement.op = "index" => statement.on \in tables
       /\ tables' = tables \cup {statement.on}
       /\ meta' = (meta \/ (statement.on = "snapshots" /\ "snapshots" \notin tables))
       /\ pc' = [pc EXCEPT ![t] = IF last THEN AfterScript(phase) ELSE phase]
       /\ at' = [at EXCEPT ![t] = IF last THEN 1 ELSE @ + 1]
       /\ UNCHANGED <<version, data, backup, fileVersion, initialized, seen, crashes, failures>>

\* _reset_to_fresh, one DROP TABLE IF EXISTS.
DropTable(t) ==
    /\ pc[t] = "drop"
    /\ LET table == DropOrder[at[t]]
           last == at[t] = Len(DropOrder)
       IN /\ tables' = tables \ {table}
          /\ data' = data \ {table}
          /\ meta' = (meta /\ table # "snapshots")
          /\ pc' = [pc EXCEPT ![t] = IF last THEN "recreate" ELSE "drop"]
          /\ at' = [at EXCEPT ![t] = IF last THEN 1 ELSE @ + 1]
    /\ UNCHANGED <<version, backup, fileVersion, initialized, seen, crashes, failures>>

\* PRAGMA user_version = SCHEMA_VERSION, of a fresh file, an upgraded one or a reset one.
Stamp(t) ==
    /\ \E from \in {"freshstamp", "stamp", "restamp"} : Goto(t, from, "indexes")
    /\ version' = SchemaVersion
    /\ UNCHANGED <<tables, meta, data, backup, fileVersion, initialized, seen, crashes, failures>>

-----------------------------------------------------------------------------
(* statements that raise *)

\* Mutant: a failed forward step raises like any other statement.
HandledByNobody(step) == "failed"

\* The DatabaseError handler of _migrate resets the database; any other statement raises out
\* of _connect.
HandledBy(step) == IF step \in ForwardSteps THEN "drop" ELSE "failed"

\* What the file makes impossible: a column added twice, an index without its table.
MustRaise(t) ==
    \/ pc[t] = "alter" /\ ("snapshots" \notin tables \/ meta)
    \/ pc[t] \in Scripts /\ LET statement == Script(pc[t])[at[t]] IN
                              statement.op = "index" /\ statement.on \notin tables
    \/ pc[t] = "indexes" /\ ~({"opportunities", "snapshots"} \subseteq tables)

Raise(t) ==
    /\ MustRaise(t)
    /\ Goto(t, pc[t], HandledBy(pc[t]))
    /\ UNCHANGED <<db, backup, fileVersion, initialized, seen, crashes, failures>>

\* Any statement may: the database is locked past the timeout, the disk is full, the file is
\* malformed.  A statement that raises changes nothing.
Fail(t) ==
    /\ failures < MaxFailures
    /\ pc[t] \notin {"ready", "failed", "refused"}
    /\ Goto(t, pc[t], HandledBy(pc[t]))
    /\ failures' = failures + 1
    /\ UNCHANGED <<db, backup, fileVersion, initialized, seen, crashes>>

\* The process dies and is started again.
Crash ==
    /\ crashes < MaxCrashes
    /\ crashes' = crashes + 1
    /\ initialized' = FALSE
    /\ pc' = [t \in Threads |-> "open"]
    /\ at' = [t \in Threads |-> 1]
    /\ UNCHANGED <<db, backup, fileVersion, seen, failures>>

-----------------------------------------------------------------------------
\* History: a reset that is not alone, or does not come to its end.
Observe ==
    disturbed' =
        \/ disturbed
        \/ \E t \in Threads : pc'[t] \in ResetSteps /\ \E u \in Threads \ {t} : pc'[u] \notin Outside
        \/ \E t \in Threads : pc[t] \in ResetSteps /\ pc'[t] \in Outside

Step(t) ==
    /\ \/ OpenKnown(t) \/ ReadVersion(t) \/ EnsureIndexes(t) \/ Reopen(t)
       \/ Backup(t) \/ AddMeta(t) \/ RunScript(t) \/ DropTable(t) \/ Stamp(t) \/ Raise(t)
    /\ Observe

Next == (\E t \in Threads : Step(t) \/ (Fail(t) /\ Observe)) \/ (Crash /\ Observe)

Spec == MigrationInit /\ [][Next]_vars

\* A thread that is opening the database goes on.
FairSpec == Spec /\ \A t \in Threads : WF_vars(Step(t))

-----------------------------------------------------------------------------
(* what the migration is for *)

\* Every forward step but v1 -> v2, an ALTER TABLE, may be repeated after a crash or by a
\* second thread.
Repeatable == fileVersion # 1

Complete == tables = Tables /\ meta
InReset == \E t \in Threads : pc[t] \in ResetSteps

\* The version is stamped last: a file that says it is current has every table and column,
\* at whatever statement a crash, a failure or another thread came in between, unless it is
\* being reset; and every connection that was handed out is to such a file.  What a reset
\* leaves that was itself interrupted, or that another thread was at work beside, is not
\* claimed: such a file may be stamped with tables missing.
StampedIsComplete ==
    ~disturbed =>
        /\ version = SchemaVersion => Complete \/ InReset
        /\ \A t \in Threads : pc[t] = "ready" => version = SchemaVersion

\* The rows of the older file survive the upgrade: in the database itself as long as no
\* statement fails and every forward step may be repeated; in the database or the backup
\* when the handler has reset it (store.py:311-312, "the original is preserved in the
\* backup"), provided that the reset was alone and came to its end.
RowsKept ==
    /\ Repeatable /\ failures = 0 => TablesOf(fileVersion) \subseteq data
    /\ ~disturbed => TablesOf(fileVersion) \subseteq data \cup backup

\* A file newer than the program is refused and never written (store.py:313-314,
\* "never downgrade-write").
NewerUntouched == [][version > SchemaVersion => UNCHANGED <<db, backup>>]_vars

\* Every thread gets its connection or is refused, whatever the other threads, a crash or a
\* failed statement left of the upgrade; again unless a reset was disturbed.
Opens == \A t \in Threads : pc[t] = "open" ~> pc[t] \in {"ready", "refused"} \/ disturbed

\* store.py:290-291 says of the backup: "so an older file is never lost across a
\* migration".  The rows are in the database or in the backup.
OlderFileNeverLost == TablesOf(fileVersion) \subseteq data \cup backup
=============================================================================
