------------------------- MODULE StoreMigrationProofs -------------------------
(***************************************************************************)
(* The upgrade of an older snapshot database, for any number of threads,   *)
(* of crashes and of failing statements: a file that is stamped current is *)
(* complete and no row is lost, unless a reset was disturbed; and no reset *)
(* happens where every forward step may be repeated and no statement fails.*)
(***************************************************************************)
EXTENDS StoreMigration, TLAPS

Steps == Outside \cup Scripts \cup ForwardSteps \cup ResetSteps
           \cup {"indexes", "ready", "backup", "freshstamp"}

MigrationTypeOK ==
    /\ version \in 0..(SchemaVersion + 1) /\ fileVersion \in 0..(SchemaVersion + 1)
    /\ tables \subseteq Tables /\ meta \in BOOLEAN
    /\ pc \in [Threads -> Steps] /\ at \in [Threads -> Nat]
    /\ seen \in [Threads -> 0..(SchemaVersion + 1)]
    /\ failures \in Nat /\ disturbed \in BOOLEAN

\* The version is the one the file had, or the current one.
Upgraded == version = fileVersion \/ (version = SchemaVersion /\ fileVersion <= SchemaVersion)

\* Only the upgrade of version 1 finds a table `snapshots` without the column.
HasMeta == Repeatable /\ "snapshots" \in tables => meta

\* Which way a thread has come to its statement.
Path(t) ==
    /\ pc[t] \in {"create", "freshstamp"} => fileVersion = 0
    /\ pc[t] \in {"backup"} \cup ForwardSteps \cup ResetSteps => fileVersion \in 1..3
    /\ pc[t] = "backup" => seen[t] = fileVersion
    /\ pc[t] = "alter" => fileVersion = 1
    /\ pc[t] \in {"indexes", "ready"} => version = SchemaVersion
    /\ pc[t] \in Scripts => at[t] \in 1..Len(Script(pc[t]))
    /\ pc[t] = "drop" => at[t] \in 1..Len(DropOrder)

\* No table was dropped so far.
Kept == data = TablesOf(fileVersion) /\ TablesOf(fileVersion) \subseteq tables

\* Where every forward step may be repeated and nothing fails, nothing is ever reset.
NeverReset ==
    Repeatable /\ failures = 0 => ~disturbed /\ Kept /\ \A t \in Threads : pc[t] \notin ResetSteps

\* A reset has begun, and the rows are in the backup; nobody is upgrading beside it.
Gone ==
    /\ backup = TablesOf(fileVersion)
    /\ InReset \/ version = SchemaVersion
    /\ \A t \in Threads : pc[t] \in Outside \cup ResetSteps \cup {"indexes", "ready"}

\* What a thread that has come to a statement knows of the file, whatever the other threads
\* have done to it in the meantime.
KnowsOf(t) ==
    /\ pc[t] \in Scripts => \A k \in 1..(at[t] - 1) : Script(pc[t])[k].on \in tables
    /\ pc[t] \in ForwardSteps \cup ResetSteps => backup = TablesOf(fileVersion)
    /\ pc[t] \in {"frames", "backlog", "stamp"} => {"snapshots", "opportunities"} \subseteq tables /\ meta
    /\ pc[t] \in {"backlog", "stamp"} => "snapshot_frames" \in tables
    /\ pc[t] \in {"freshstamp", "stamp", "restamp"} => Complete
    /\ pc[t] = "drop" => \A k \in 1..(at[t] - 1) : DropOrder[k] \notin tables
    /\ pc[t] = "recreate" /\ "snapshots" \in tables => meta

Quiet ==
    /\ version = SchemaVersion => Complete \/ InReset
    /\ Kept \/ Gone
    /\ \A t \in Threads : KnowsOf(t)
    /\ \A t \in Threads : pc[t] \in ResetSteps => \A u \in Threads \ {t} : pc[u] \in Outside

MigrationInv ==
    /\ MigrationTypeOK /\ Upgraded /\ HasMeta /\ NeverReset
    /\ initialized => version = SchemaVersion
    /\ \A t \in Threads : Path(t)
    /\ ~disturbed => Quiet

-----------------------------------------------------------------------------
\* Which tables a file has, by its version, and where a read of the version leads.
LEMMA Versions ==
    /\ TablesOf(0) = {} /\ TablesOf(4) = Tables /\ TablesOf(5) = Tables
    /\ TablesOf(3) = Tables \ {"backlog_intervals"}
    /\ \A v \in 1..3 : {"snapshots", "opportunities"} \subseteq TablesOf(v)
    /\ \A v \in 0..5 : TablesOf(v) \subseteq Tables
    /\ AfterRead(0) = "create" /\ AfterRead(4) = "indexes" /\ AfterRead(5) = "refused"
    /\ \A v \in 1..3 : AfterRead(v) = "backup"
    /\ FirstStep(1) = "alter" /\ FirstStep(2) = "frames" /\ FirstStep(3) = "backlog"
<1>1. TablesOf(0) = {} /\ TablesOf(4) = Tables /\ TablesOf(5) = Tables
      /\ TablesOf(3) = Tables \ {"backlog_intervals"}
  BY DEF TablesOf
<1>2. TablesOf(1) = {"snapshots", "opportunities"} /\ TablesOf(2) = {"snapshots", "opportunities"}
  BY DEF TablesOf
<1>3. \A v \in 0..5 : v = 0 \/ v = 1 \/ v = 2 \/ v = 3 \/ v = 4 \/ v = 5
  OBVIOUS
<1>4. \A v \in 1..3 : v = 1 \/ v = 2 \/ v = 3
  OBVIOUS
<1>5. {"snapshots", "opportunities"} \subseteq Tables \ {"backlog_intervals"}
  BY DEF Tables
<1>6. \A v \in 1..3 : {"snapshots", "opportunities"} \subseteq TablesOf(v)
  BY <1>1, <1>2, <1>4, <1>5
<1>7. \A v \in 0..5 : TablesOf(v) \subseteq Tables
  BY <1>1, <1>2, <1>3, <1>5
<1>8. /\ AfterRead(0) = "create" /\ AfterRead(4) = "indexes" /\ AfterRead(5) = "refused"
      /\ \A v \in 1..3 : AfterRead(v) = "backup"
  BY DEF AfterRead, SchemaVersion
<1>9. FirstStep(1) = "alter" /\ FirstStep(2) = "frames" /\ FirstStep(3) = "backlog"
  BY DEF FirstStep
<1>10. QED BY <1>1, <1>6, <1>7, <1>8, <1>9

\* The statements of the full schema, one by one.
LEMMA SchemaStatements ==
    /\ Len(SchemaScript) = 7
    /\ SchemaScript[1].on = "snapshots" /\ SchemaScript[1].op = "table"
    /\ SchemaScript[2].on = "opportunities" /\ SchemaScript[2].op = "table"
    /\ SchemaScript[3].on = "opportunities" /\ SchemaScript[3].op = "index"
    /\ SchemaScript[4].on = "snapshot_frames" /\ SchemaScript[4].op = "table"
    /\ SchemaScript[5].on = "snapshot_frames" /\ SchemaScript[5].op = "index"
    /\ SchemaScript[6].on = "backlog_intervals" /\ SchemaScript[6].op = "table"
    /\ SchemaScript[7].on = "backlog_intervals" /\ SchemaScript[7].op = "index"
BY DEF SchemaScript, Table, Index

LEMMA StepStatements ==
    /\ Len(FramesScript) = 2 /\ Len(BacklogScript) = 2
    /\ FramesScript[1].on = "snapshot_frames" /\ FramesScript[1].op = "table"
    /\ FramesScript[2].on = "snapshot_frames" /\ FramesScript[2].op = "index"
    /\ BacklogScript[1].on = "backlog_intervals" /\ BacklogScript[1].op = "table"
    /\ BacklogScript[2].on = "backlog_intervals" /\ BacklogScript[2].op = "index"
BY DEF FramesScript, BacklogScript, Table, Index

LEMMA ScriptIs ==
    /\ Script("create") = SchemaScript /\ Script("recreate") = SchemaScript
    /\ Script("frames") = FramesScript /\ Script("backlog") = BacklogScript
    /\ AfterScript("create") = "freshstamp" /\ AfterScript("recreate") = "restamp"
    /\ AfterScript("frames") = "backlog" /\ AfterScript("backlog") = "stamp"
BY DEF Script, AfterScript

\* An index is created after its table; every statement is about one of the four tables;
\* the schema creates all of them.
LEMMA ScriptShape ==
    /\ \A phase \in Scripts : Len(Script(phase)) \in Nat /\ Len(Script(phase)) >= 2
    /\ \A phase \in Scripts : \A n \in 1..Len(Script(phase)) :
         /\ Script(phase)[n].on \in Tables
         /\ Script(phase)[n].op = "index" => n > 1 /\ Script(phase)[n].on = Script(phase)[n - 1].on
    /\ \A table \in Tables : \E n \in 1..7 : SchemaScript[n].on = table
<1>1. ASSUME NEW n \in 1..7
      PROVE  /\ SchemaScript[n].on \in Tables
             /\ SchemaScript[n].op = "index" => n > 1 /\ SchemaScript[n].on = SchemaScript[n - 1].on
  <2>1. n = 1 \/ n = 2 \/ n = 3 \/ n = 4 \/ n = 5 \/ n = 6 \/ n = 7
    OBVIOUS
  <2>2. 3 - 1 = 2 /\ 5 - 1 = 4 /\ 7 - 1 = 6
    OBVIOUS
  <2>3. SchemaScript[n].on \in Tables
    BY <2>1, SchemaStatements DEF Tables
  <2>4. SchemaScript[n].op = "index" => n \in {3, 5, 7}
    BY <2>1, SchemaStatements
  <2>5. n \in {3, 5, 7} => n > 1 /\ SchemaScript[n].on = SchemaScript[n - 1].on
    BY <2>2, SchemaStatements
  <2>6. QED BY <2>3, <2>4, <2>5
<1>2. ASSUME NEW n \in 1..2
      PROVE  /\ FramesScript[n].on \in Tables /\ BacklogScript[n].on \in Tables
             /\ FramesScript[n].op = "index" => n > 1 /\ FramesScript[n].on = FramesScript[n - 1].on
             /\ BacklogScript[n].op = "index" => n > 1 /\ BacklogScript[n].on = BacklogScript[n - 1].on
  <2>1. n = 1 \/ n = 2
    OBVIOUS
  <2>2. 2 - 1 = 1 /\ 2 > 1
    OBVIOUS
  <2>3. QED BY <2>1, <2>2, StepStatements DEF Tables
<1>3. \A table \in Tables : \E n \in 1..7 : SchemaScript[n].on = table
  <2>1. 1 \in 1..7 /\ 2 \in 1..7 /\ 4 \in 1..7 /\ 6 \in 1..7
    OBVIOUS
  <2>2. \A table \in Tables : table = SchemaScript[1].on \/ table = SchemaScript[2].on
                              \/ table = SchemaScript[4].on \/ table = SchemaScript[6].on
    BY SchemaStatements DEF Tables
  <2>3. QED BY <2>1, <2>2
<1>4. ASSUME NEW phase \in Scripts
      PROVE  /\ Len(Script(phase)) \in Nat /\ Len(Script(phase)) >= 2
             /\ \A n \in 1..Len(Script(phase)) :
                  /\ Script(phase)[n].on \in Tables
                  /\ Script(phase)[n].op = "index" => n > 1 /\ Script(phase)[n].on = Script(phase)[n - 1].on
  <2>1. CASE phase \in {"create", "recreate"}
    <3>1. Script(phase) = SchemaScript /\ Len(SchemaScript) = 7
      BY <2>1, ScriptIs, SchemaStatements
    <3>2. QED BY <1>1, <3>1
  <2>2. CASE phase = "frames"
    <3>1. Script(phase) = FramesScript /\ Len(FramesScript) = 2
      BY <2>2, ScriptIs, StepStatements
    <3>2. QED BY <1>2, <3>1
  <2>3. CASE phase = "backlog"
    <3>1. Script(phase) = BacklogScript /\ Len(BacklogScript) = 2
      BY <2>3, ScriptIs, StepStatements
    <3>2. QED BY <1>2, <3>1
  <2>4. QED BY <2>1, <2>2, <2>3 DEF Scripts
<1>5. QED BY <1>3, <1>4

\* The names of the steps are all different.
LEMMA StepNames ==
    /\ Outside \cap ({"backup", "freshstamp", "indexes", "ready"} \cup Scripts \cup ForwardSteps \cup ResetSteps) = {}
    /\ ForwardSteps \cap ResetSteps = {}
    /\ {"backup", "freshstamp", "indexes", "ready"} \cap (ForwardSteps \cup ResetSteps) = {}
BY DEF Outside, Scripts, ForwardSteps, ResetSteps

\* It holds of the file the program is started on.
LEMMA InitMigrationInv == MigrationInit => MigrationInv
<1> SUFFICES ASSUME MigrationInit PROVE MigrationInv OBVIOUS
<1>1. /\ version \in 0..5 /\ fileVersion = version /\ tables = TablesOf(version)
      /\ data = TablesOf(version) /\ meta = (version >= 2) /\ ~initialized
      /\ pc = [t \in Threads |-> "open"] /\ at = [t \in Threads |-> 1]
      /\ seen = [t \in Threads |-> 0] /\ failures = 0 /\ disturbed = FALSE
  BY MigrationConstants DEF MigrationInit, SchemaVersion
<1>2. MigrationTypeOK
  <2>1. SchemaVersion + 1 = 5
    BY DEF SchemaVersion
  <2>2. tables \subseteq Tables
    BY <1>1, Versions
  <2>3. meta \in BOOLEAN
    BY <1>1
  <2>4. pc \in [Threads -> Steps] /\ at \in [Threads -> Nat] /\ seen \in [Threads -> 0..5]
    BY <1>1 DEF Steps, Outside
  <2>5. QED BY <1>1, <2>1, <2>2, <2>3, <2>4 DEF MigrationTypeOK
<1>3. HasMeta /\ (version >= 2 => meta)
  <2>1. version = 0 => "snapshots" \notin tables
    BY <1>1, Versions
  <2>2. version >= 2 => meta
    BY <1>1
  <2>3. version # 0 /\ version # 1 => version >= 2
    BY <1>1
  <2>4. QED BY <1>1, <2>1, <2>2, <2>3 DEF HasMeta, Repeatable
<1>4. \A t \in Threads : Path(t) /\ KnowsOf(t) /\ pc[t] \notin ResetSteps
  BY <1>1 DEF Path, KnowsOf, Scripts, ForwardSteps, ResetSteps
<1>5. version = SchemaVersion => Complete
  <2>1. version = 4 => version >= 2
    OBVIOUS
  <2>2. QED BY <1>1, <1>3, <2>1, Versions DEF Complete, SchemaVersion
<1>6. QED BY <1>1, <1>2, <1>3, <1>4, <1>5
          DEF MigrationInv, Upgraded, NeverReset, Quiet, Kept

\* An undisturbed step leaves a reset alone and unbroken.
LEMMA Undisturbed ==
    ASSUME Observe, ~disturbed'
    PROVE  /\ ~disturbed
           /\ \A t \in Threads : pc'[t] \in ResetSteps => \A u \in Threads \ {t} : pc'[u] \in Outside
           /\ \A t \in Threads : pc[t] \in ResetSteps => pc'[t] \notin Outside
BY DEF Observe

\* What has to be shown of a step of thread t.
LEMMA StepKeepsInv ==
    ASSUME MigrationInv, NEW t \in Threads, Observe, MigrationTypeOK', Upgraded', HasMeta',
           fileVersion' = fileVersion,
           \A u \in Threads \ {t} : pc'[u] = pc[u] /\ at'[u] = at[u] /\ seen'[u] = seen[u],
           version = SchemaVersion => version' = SchemaVersion,
           initialized' => version' = SchemaVersion,
           failures' = 0 => failures = 0,
           Path(t)',
           Repeatable /\ failures' = 0 => pc'[t] \notin ResetSteps /\ data' = data /\ tables \subseteq tables',
           pc[t] \in Outside /\ pc'[t] \in Outside => UNCHANGED <<tables, meta, backup>>,
           ~disturbed' =>
             /\ pc'[t] \in ResetSteps \/ (tables \subseteq tables' /\ (meta => meta'))
             /\ backup' = backup \/ backup' = TablesOf(fileVersion)
             /\ KnowsOf(t)'
             /\ version' = SchemaVersion => Complete' \/ InReset'
             /\ Kept' \/ Gone'
    PROVE  MigrationInv'
<1>1. \A u \in Threads : Path(u)'
  <2>1. ASSUME NEW u \in Threads \ {t} PROVE Path(u)'
    BY <2>1 DEF MigrationInv, Path
  <2>2. QED BY <2>1
<1>2. NeverReset'
  <2> SUFFICES ASSUME Repeatable', failures' = 0
               PROVE  ~disturbed' /\ Kept' /\ \A u \in Threads : pc'[u] \notin ResetSteps
    BY DEF NeverReset
  <2>1. Repeatable
    BY DEF Repeatable
  <2>2. ~disturbed /\ Kept /\ \A u \in Threads : pc[u] \notin ResetSteps
    BY <2>1 DEF MigrationInv, NeverReset
  <2>3. \A u \in Threads : pc'[u] \notin ResetSteps
    BY <2>1, <2>2
  <2>4. Kept'
    BY <2>1, <2>2 DEF Kept
  <2>5. QED BY <2>2, <2>3, <2>4 DEF Observe
<1>3. ASSUME ~disturbed' PROVE Quiet'
  <2>1. /\ Quiet
        /\ \A u \in Threads : pc'[u] \in ResetSteps => \A w \in Threads \ {u} : pc'[w] \in Outside
    BY <1>3, Undisturbed DEF MigrationInv
  <2>2. ASSUME NEW u \in Threads \ {t} PROVE KnowsOf(u)'
    <3>1. KnowsOf(u) /\ pc'[u] = pc[u] /\ at'[u] = at[u]
      BY <2>1 DEF Quiet
    <3>2. CASE pc[u] \in ResetSteps
      <4>1. pc[t] \in Outside /\ pc'[t] \in Outside
        BY <2>1, <3>1, <3>2 DEF Quiet
      <4>2. UNCHANGED <<tables, meta, backup>>
        BY <4>1
      <4>3. QED BY <3>1, <4>2 DEF KnowsOf, Complete
    <3>3. CASE pc'[t] \in ResetSteps
      <4>1. pc'[u] \in Outside
        BY <2>1, <3>3
      <4>2. pc'[u] \notin {"freshstamp"} \cup Scripts \cup ForwardSteps \cup ResetSteps
        BY <4>1, StepNames
      <4>3. QED BY <4>2 DEF KnowsOf, Scripts, ForwardSteps, ResetSteps
    <3>4. CASE pc[u] \notin ResetSteps /\ pc'[t] \notin ResetSteps
      <4>1. tables \subseteq tables' /\ (meta => meta') /\ tables' \subseteq Tables
            /\ (backup' = backup \/ backup' = TablesOf(fileVersion))
        BY <1>3, <3>4 DEF MigrationTypeOK
      <4>2. Complete => tables' = Tables /\ meta'
        BY <4>1 DEF Complete
      <4>3. pc[u] \notin {"drop", "recreate", "restamp"}
        BY <3>4 DEF ResetSteps
      <4>4. QED BY <3>1, <4>1, <4>2, <4>3 DEF KnowsOf, Complete
    <3>5. QED BY <3>2, <3>3, <3>4
  <2>3. QED BY <1>3, <2>1, <2>2 DEF Quiet
<1>4. QED BY <1>1, <1>2, <1>3 DEF MigrationInv

\* A thread that only goes on, and leaves the file as it is.
LEMMA QuietStepInv ==
    ASSUME MigrationInv, NEW t \in Threads, Observe,
           OpenKnown(t) \/ ReadVersion(t) \/ EnsureIndexes(t) \/ Reopen(t) \/ Backup(t)
    PROVE  MigrationInv'
<1>1. MigrationTypeOK /\ Upgraded /\ HasMeta /\ Path(t)
  BY DEF MigrationInv
<1>2. UNCHANGED <<version, tables, meta, data, fileVersion, failures>>
  BY DEF OpenKnown, ReadVersion, EnsureIndexes, Reopen, Backup, db
<1>3. /\ \A u \in Threads \ {t} : pc'[u] = pc[u] /\ at'[u] = at[u] /\ seen'[u] = seen[u]
      /\ seen'[t] \in {seen[t], version} /\ at'[t] = 1
      /\ pc' = [pc EXCEPT ![t] = pc'[t]] /\ at' = [at EXCEPT ![t] = 1]
      /\ seen' = [seen EXCEPT ![t] = seen'[t]]
  BY <1>1 DEF OpenKnown, ReadVersion, EnsureIndexes, Reopen, Backup, Goto, MigrationTypeOK
<1>4. /\ Path(t)' /\ pc[t] \in {"open", "failed", "indexes", "backup"}
      /\ pc'[t] \in {"open", "ready", "refused", "create", "indexes", "backup", "alter", "frames", "backlog"}
      /\ initialized' => version = SchemaVersion
      /\ pc[t] \in Outside /\ pc'[t] \in Outside => backup' = backup
      /\ pc'[t] \in ForwardSteps => pc[t] = "backup" /\ backup' = data
      /\ backup' = backup \/ (pc[t] = "backup" /\ backup' = data)
      /\ pc'[t] \in {"create", "backup"} => version # SchemaVersion
      /\ pc'[t] = "backlog" => fileVersion = 3
  <2>1. CASE OpenKnown(t)
    <3>1. pc[t] = "open" /\ pc'[t] = "ready" /\ initialized /\ initialized' /\ backup' = backup
      BY <1>1, <2>1 DEF OpenKnown, Goto, MigrationTypeOK
    <3>2. version = SchemaVersion
      BY <3>1 DEF MigrationInv
    <3>3. QED BY <1>2, <3>1, <3>2 DEF Path, Outside, ForwardSteps, ResetSteps, Scripts
  <2>2. CASE ReadVersion(t)
    <3>1. pc[t] = "open" /\ pc'[t] = AfterRead(version) /\ seen'[t] = version /\ ~initialized' /\ backup' = backup
      BY <1>1, <2>2 DEF ReadVersion, Goto, MigrationTypeOK
    <3>2. version = 0 \/ version \in 1..3 \/ version = 4 \/ version = 5
      BY <1>1 DEF MigrationTypeOK, SchemaVersion
    <3>3. version # 4 => fileVersion = version
      BY <1>1 DEF Upgraded, SchemaVersion
    <3>4. CASE version = 0
      <4>1. pc'[t] = "create" /\ fileVersion = 0
        BY <3>1, <3>3, <3>4, Versions
      <4>2. at'[t] \in 1..Len(Script("create"))
        <5>1. Len(Script("create")) = 7
          BY ScriptIs, SchemaStatements
        <5>2. at'[t] = 1
          BY <1>3
        <5>3. 1 \in 1..7
          OBVIOUS
        <5>4. QED BY <5>1, <5>2, <5>3
      <4>3. QED BY <1>2, <3>1, <3>4, <4>1, <4>2 DEF Path, Outside, ForwardSteps, ResetSteps, SchemaVersion
    <3>5. CASE version \in 1..3
      <4>1. pc'[t] = "backup" /\ fileVersion = version /\ version # 4
        BY <3>1, <3>3, <3>5, Versions
      <4>2. QED BY <1>2, <3>1, <3>5, <4>1 DEF Path, Outside, ForwardSteps, ResetSteps, Scripts, SchemaVersion
    <3>6. CASE version = 4
      <4>1. pc'[t] = "indexes"
        BY <3>1, <3>6, Versions
      <4>2. QED BY <1>2, <3>1, <3>6, <4>1 DEF Path, Outside, ForwardSteps, ResetSteps, Scripts, SchemaVersion
    <3>7. CASE version = 5
      <4>1. pc'[t] = "refused"
        BY <3>1, <3>7, Versions
      <4>2. QED BY <1>2, <3>1, <4>1 DEF Path, Outside, ForwardSteps, ResetSteps, Scripts
    <3>8. QED BY <3>2, <3>4, <3>5, <3>6, <3>7
  <2>3. CASE EnsureIndexes(t)
    <3>1. pc[t] = "indexes" /\ pc'[t] = "ready" /\ backup' = backup
      BY <1>1, <2>3 DEF EnsureIndexes, Goto, MigrationTypeOK
    <3>2. version = SchemaVersion
      BY <1>1, <3>1 DEF Path
    <3>3. QED BY <1>2, <3>1, <3>2 DEF Path, Outside, ForwardSteps, ResetSteps, Scripts
  <2>4. CASE Reopen(t)
    <3>1. pc[t] = "failed" /\ pc'[t] = "open" /\ initialized' = initialized /\ backup' = backup
      BY <1>1, <2>4 DEF Reopen, Goto, MigrationTypeOK
    <3>2. QED BY <1>2, <3>1 DEF Path, Outside, ForwardSteps, ResetSteps, Scripts, MigrationInv
  <2>5. CASE Backup(t)
    <3>1. pc[t] = "backup" /\ pc'[t] = FirstStep(seen[t]) /\ initialized' = initialized /\ backup' = data
          /\ seen'[t] = seen[t]
      BY <1>1, <2>5 DEF Backup, Goto, MigrationTypeOK
    <3>2. seen[t] = fileVersion /\ fileVersion \in 1..3
      BY <1>1, <3>1 DEF Path, ForwardSteps, ResetSteps
    <3>3. fileVersion = 1 \/ fileVersion = 2 \/ fileVersion = 3
      BY <3>2
    <3>4. /\ pc'[t] \in {"alter", "frames", "backlog"} /\ (pc'[t] = "alter" => fileVersion = 1)
          /\ (pc'[t] = "backlog" => fileVersion = 3)
      BY <3>1, <3>2, <3>3, Versions
    <3>5. at'[t] \in 1..Len(Script("frames")) /\ at'[t] \in 1..Len(Script("backlog"))
      BY <1>3, ScriptIs, StepStatements
    <3>6. Path(t)'
      BY <1>2, <3>2, <3>4, <3>5 DEF Path, Scripts
    <3>7. QED BY <3>1, <3>4, <3>6 DEF MigrationInv, Outside, ForwardSteps
  <2>6. QED BY <2>1, <2>2, <2>3, <2>4, <2>5
<1>5. MigrationTypeOK' /\ Upgraded' /\ HasMeta'
  <2>1. pc'[t] \in Steps /\ at'[t] \in Nat /\ seen'[t] \in 0..(SchemaVersion + 1) /\ disturbed' \in BOOLEAN
    BY <1>1, <1>3, <1>4 DEF Steps, Outside, Scripts, ForwardSteps, MigrationTypeOK, Observe
  <2>2. pc' \in [Threads -> Steps]
    BY <1>1, <1>3, <2>1 DEF MigrationTypeOK
  <2>3. at' \in [Threads -> Nat] /\ seen' \in [Threads -> 0..(SchemaVersion + 1)]
    BY <1>1, <1>3, <2>1 DEF MigrationTypeOK
  <2>4. QED BY <1>1, <1>2, <2>1, <2>2, <2>3 DEF MigrationTypeOK, Upgraded, HasMeta, Repeatable
<1>6. pc[t] \notin ResetSteps /\ pc'[t] \notin ResetSteps
  BY <1>4 DEF ResetSteps
<1>7. InReset' <=> InReset
  BY <1>3, <1>6 DEF InReset
<1>8. ASSUME ~disturbed'
      PROVE  /\ backup' = backup \/ backup' = TablesOf(fileVersion)
             /\ KnowsOf(t)'
             /\ version' = SchemaVersion => Complete' \/ InReset'
             /\ Kept' \/ Gone'
  <2>1. Quiet
    BY <1>8, Undisturbed DEF MigrationInv
  <2>2. pc[t] = "backup" => Kept
    BY <2>1, StepNames DEF Quiet, Gone
  <2>3. backup' = backup \/ backup' = TablesOf(fileVersion)
    BY <1>4, <2>2 DEF Kept
  <2>4. KnowsOf(t)'
    <3>1. CASE pc'[t] \in ForwardSteps
      <4>1. pc[t] = "backup" /\ backup' = TablesOf(fileVersion) /\ Kept /\ fileVersion \in 1..3
        BY <1>1, <1>4, <2>2, <3>1 DEF Kept, Path
      <4>2. {"snapshots", "opportunities"} \subseteq tables
        BY <4>1, Versions DEF Kept
      <4>3. pc'[t] \in {"frames", "backlog"} => fileVersion # 1
        <5>1. pc'[t] = FirstStep(seen[t]) /\ seen[t] = fileVersion
          BY <1>1, <4>1 DEF Path, OpenKnown, ReadVersion, EnsureIndexes, Reopen, Backup, Goto, MigrationTypeOK
        <5>2. QED BY <5>1, Versions
      <4>4. pc'[t] \in {"frames", "backlog"} => meta
        BY <1>1, <4>2, <4>3 DEF HasMeta, Repeatable
      <4>5. pc'[t] = "backlog" => "snapshot_frames" \in tables
        <5>1. "snapshot_frames" \in TablesOf(3)
          BY Versions DEF Tables
        <5>2. QED BY <1>4, <4>1, <5>1 DEF Kept
      <4>6. QED BY <1>2, <1>3, <1>4, <4>1, <4>2, <4>4, <4>5 DEF KnowsOf, ForwardSteps
    <3>2. CASE pc'[t] \notin ForwardSteps
      BY <1>3, <1>4, <1>6, <3>2 DEF KnowsOf, ForwardSteps, ResetSteps
    <3>3. QED BY <3>1, <3>2
  <2>5. Kept' \/ Gone'
    <3>1. CASE Kept
      BY <1>2, <3>1 DEF Kept
    <3>2. CASE Gone
      <4>1. pc[t] # "backup" /\ backup' = backup
        BY <1>4, <3>2, StepNames DEF Gone
      <4>2. pc'[t] \notin ForwardSteps
        BY <1>4, <4>1
      <4>3. InReset => pc'[t] \in Outside
        <5> SUFFICES ASSUME NEW u \in Threads, pc[u] \in ResetSteps PROVE pc'[t] \in Outside
          BY DEF InReset
        <5>1. u # t /\ pc'[u] = pc[u]
          BY <1>3, <1>6
        <5>2. QED BY <1>8, <5>1, Undisturbed
      <4>4. pc'[t] \in Outside \cup {"indexes", "ready"}
        BY <1>4, <3>2, <4>2, <4>3 DEF Gone, Outside, ForwardSteps
      <4>5. QED BY <1>2, <1>3, <1>7, <3>2, <4>1, <4>4 DEF Gone
    <3>3. QED BY <2>1, <3>1, <3>2 DEF Quiet
  <2>6. QED BY <1>2, <1>7, <2>1, <2>3, <2>4, <2>5 DEF Quiet, Complete
<1>9. QED BY <1>2, <1>3, <1>4, <1>5, <1>6, <1>8, StepKeepsInv

\* A statement that raises: the file is as before, the thread resets it or gives up.
LEMMA RaisedInv ==
    ASSUME MigrationInv, NEW t \in Threads, Observe,
           pc[t] \notin {"ready", "failed", "refused"},
           Goto(t, pc[t], HandledBy(pc[t])),
           UNCHANGED <<db, backup, fileVersion, initialized, seen>>,
           failures' \in Nat, failures' = 0 => failures = 0,
           Repeatable /\ failures' = 0 => pc[t] \notin ForwardSteps
    PROVE  MigrationInv'
<1>1. MigrationTypeOK /\ Upgraded /\ HasMeta /\ Path(t)
  BY DEF MigrationInv
<1>2. UNCHANGED <<version, tables, meta, data, backup, fileVersion, initialized, seen>>
  BY DEF db
<1>3. /\ pc' = [pc EXCEPT ![t] = HandledBy(pc[t])] /\ at' = [at EXCEPT ![t] = 1]
      /\ pc'[t] = HandledBy(pc[t]) /\ at'[t] = 1
      /\ \A u \in Threads \ {t} : pc'[u] = pc[u] /\ at'[u] = at[u] /\ seen'[u] = seen[u]
  BY <1>1, <1>2 DEF Goto, MigrationTypeOK
<1>4. /\ pc[t] \in ForwardSteps => pc'[t] = "drop"
      /\ pc[t] \notin ForwardSteps => pc'[t] = "failed"
  BY <1>3 DEF HandledBy
<1>5. MigrationTypeOK' /\ Upgraded' /\ HasMeta'
  <2>1. pc'[t] \in Steps /\ disturbed' \in BOOLEAN
    BY <1>1, <1>4 DEF Steps, Outside, ResetSteps, Observe, MigrationTypeOK
  <2>2. pc' \in [Threads -> Steps] /\ at' \in [Threads -> Nat]
    BY <1>1, <1>3, <2>1 DEF MigrationTypeOK
  <2>3. QED BY <1>1, <1>2, <2>1, <2>2 DEF MigrationTypeOK, Upgraded, HasMeta, Repeatable
<1>6. Path(t)'
  <2>1. CASE pc[t] \in ForwardSteps
    <3>1. fileVersion \in 1..3 /\ Len(DropOrder) = 4
      BY <1>1, <2>1 DEF Path, DropOrder
    <3>2. QED BY <1>2, <1>3, <1>4, <2>1, <3>1 DEF Path, Scripts
  <2>2. CASE pc[t] \notin ForwardSteps
    BY <1>4, <2>2 DEF Path, Scripts, ForwardSteps, ResetSteps
  <2>3. QED BY <2>1, <2>2
<1>7. Repeatable /\ failures' = 0 => pc'[t] \notin ResetSteps
  BY <1>4 DEF ResetSteps
<1>8. ASSUME ~disturbed'
      PROVE  /\ KnowsOf(t)'
             /\ version' = SchemaVersion => Complete' \/ InReset'
             /\ Kept' \/ Gone'
  <2>1. Quiet /\ (pc[t] \in ResetSteps => pc'[t] \notin Outside)
    BY <1>8, Undisturbed DEF MigrationInv
  <2>2. CASE pc[t] \in ForwardSteps
    <3>1. KnowsOf(t) /\ Kept
      BY <2>1, <2>2, StepNames DEF Quiet, Gone
    <3>2. pc'[t] = "drop" /\ InReset'
      BY <1>4, <2>2 DEF InReset, ResetSteps
    <3>3. KnowsOf(t)'
      BY <1>2, <1>3, <2>2, <3>1, <3>2 DEF KnowsOf, Scripts, ForwardSteps
    <3>4. QED BY <1>2, <3>1, <3>2, <3>3 DEF Kept
  <2>3. CASE pc[t] \notin ForwardSteps
    <3>1. pc'[t] = "failed" /\ pc[t] \notin ResetSteps
      BY <1>4, <2>1, <2>3 DEF Outside
    <3>2. InReset' <=> InReset
      BY <1>3, <3>1 DEF InReset, ResetSteps
    <3>3. KnowsOf(t)'
      BY <3>1 DEF KnowsOf, Scripts, ForwardSteps, ResetSteps
    <3>4. Kept' \/ Gone'
      <4>1. Kept => Kept'
        BY <1>2 DEF Kept
      <4>2. Gone => Gone'
        BY <1>2, <1>3, <3>1, <3>2 DEF Gone, Outside
      <4>3. QED BY <2>1, <4>1, <4>2 DEF Quiet
    <3>5. QED BY <1>2, <2>1, <3>2, <3>3, <3>4 DEF Quiet, Complete
  <2>4. QED BY <2>2, <2>3
<1>9. initialized' => version' = SchemaVersion
  BY <1>2 DEF MigrationInv
<1>10. QED BY <1>2, <1>3, <1>5, <1>6, <1>7, <1>8, <1>9, StepKeepsInv

\* The file makes a forward step fail only after an ALTER TABLE or a drop.
LEMMA RaiseInv ==
    ASSUME MigrationInv, NEW t \in Threads, Observe, Raise(t)
    PROVE  MigrationInv'
<1>1. MigrationTypeOK /\ Path(t)
  BY DEF MigrationInv
<1>2. pc[t] \in {"alter", "indexes"} \cup Scripts
  BY DEF Raise, MustRaise
<1>3. ASSUME Repeatable, failures = 0 PROVE pc[t] \notin ForwardSteps
  <2>1. KnowsOf(t)
    BY <1>3 DEF MigrationInv, NeverReset, Quiet
  <2>2. pc[t] # "alter" /\ (pc[t] = "stamp" => FALSE)
    BY <1>1, <1>2, <1>3 DEF Path, Repeatable, Scripts
  <2>3. ASSUME pc[t] \in {"frames", "backlog"} PROVE FALSE
    <3>1. LET statement == Script(pc[t])[at[t]] IN statement.op = "index" /\ statement.on \notin tables
      BY <2>3 DEF Raise, MustRaise
    <3>2. pc[t] \in Scripts /\ at[t] \in 1..Len(Script(pc[t])) /\ Len(Script(pc[t])) \in Nat
      BY <1>1, <2>3, ScriptShape DEF Path, Scripts
    <3>3. at[t] > 1 /\ Script(pc[t])[at[t]].on = Script(pc[t])[at[t] - 1].on
      BY <3>1, <3>2, ScriptShape
    <3>4. at[t] - 1 \in 1..(at[t] - 1)
      BY <3>2, <3>3
    <3>5. Script(pc[t])[at[t] - 1].on \in tables
      BY <2>1, <3>2, <3>4 DEF KnowsOf
    <3>6. QED BY <3>1, <3>3, <3>5
  <2>4. QED BY <2>2, <2>3 DEF ForwardSteps
<1>4. QED BY <1>1, <1>2, <1>3, RaisedInv DEF Raise, Scripts, MigrationTypeOK

LEMMA FailInv ==
    ASSUME MigrationInv, NEW t \in Threads, Observe, Fail(t)
    PROVE  MigrationInv'
<1>1. failures \in Nat
  BY DEF MigrationInv, MigrationTypeOK
<1>2. failures' \in Nat /\ failures' # 0
  BY <1>1 DEF Fail
<1>3. QED BY <1>2, RaisedInv DEF Fail

LEMMA AddMetaInv ==
    ASSUME MigrationInv, NEW t \in Threads, Observe, AddMeta(t)
    PROVE  MigrationInv'
<1>1. MigrationTypeOK /\ Upgraded /\ HasMeta /\ Path(t)
  BY DEF MigrationInv
<1>2. /\ UNCHANGED <<version, tables, data, backup, fileVersion, initialized, seen, failures>>
      /\ "snapshots" \in tables /\ meta'
  BY DEF AddMeta
<1>3. /\ pc[t] = "alter" /\ pc'[t] = "frames" /\ at'[t] = 1
      /\ \A u \in Threads \ {t} : pc'[u] = pc[u] /\ at'[u] = at[u] /\ seen'[u] = seen[u]
      /\ pc' \in [Threads -> Steps] /\ at' \in [Threads -> Nat]
  BY <1>1, <1>2 DEF AddMeta, Goto, MigrationTypeOK, Steps, Scripts
<1>4. MigrationTypeOK' /\ Upgraded' /\ HasMeta'
  BY <1>1, <1>2, <1>3 DEF MigrationTypeOK, Upgraded, HasMeta, Observe, AddMeta
<1>5. Path(t)'
  <2>1. fileVersion \in 1..3
    BY <1>1, <1>3 DEF Path, ForwardSteps
  <2>2. Len(Script("frames")) = 2
    BY ScriptIs, StepStatements
  <2>3. 1 \in 1..2
    OBVIOUS
  <2>4. QED BY <1>2, <1>3, <2>1, <2>2, <2>3 DEF Path
<1>6. pc'[t] \notin ResetSteps /\ pc[t] \notin ResetSteps /\ pc[t] \notin Outside
  BY <1>3 DEF ResetSteps, Outside
<1>7. ASSUME ~disturbed'
      PROVE  /\ KnowsOf(t)'
             /\ version' = SchemaVersion => Complete' \/ InReset'
             /\ Kept' \/ Gone'
  <2>1. Quiet
    BY <1>7, Undisturbed DEF MigrationInv
  <2>2. Kept /\ KnowsOf(t)
    <3>1. ~Gone
      BY <1>3 DEF Gone, Outside, ResetSteps
    <3>2. QED BY <2>1, <3>1 DEF Quiet
  <2>3. {"snapshots", "opportunities"} \subseteq tables
    <3>1. fileVersion \in 1..3
      BY <1>1, <1>3 DEF Path, ForwardSteps
    <3>2. QED BY <2>2, <3>1, Versions DEF Kept
  <2>4. KnowsOf(t)'
    BY <1>2, <1>3, <2>2, <2>3 DEF KnowsOf, ForwardSteps, ResetSteps
  <2>5. InReset' <=> InReset
    BY <1>3, <1>6 DEF InReset
  <2>6. QED BY <1>2, <2>1, <2>2, <2>4, <2>5 DEF Quiet, Complete, Kept
<1>8. initialized' => version' = SchemaVersion
  BY <1>2 DEF MigrationInv
<1>9. QED BY <1>2, <1>3, <1>4, <1>5, <1>6, <1>7, <1>8, StepKeepsInv

\* A statement of a script adds its table where it is missing.
LEMMA RunScriptInv ==
    ASSUME MigrationInv, NEW t \in Threads, Observe, RunScript(t)
    PROVE  MigrationInv'
<1> DEFINE statement == Script(pc[t])[at[t]]
           last == at[t] = Len(Script(pc[t]))
<1>1. MigrationTypeOK /\ Upgraded /\ HasMeta /\ Path(t)
  BY DEF MigrationInv
<1>2. /\ UNCHANGED <<version, data, backup, fileVersion, initialized, seen, failures>>
      /\ pc[t] \in Scripts /\ tables' = tables \cup {statement.on}
      /\ meta' = (meta \/ (statement.on = "snapshots" /\ "snapshots" \notin tables))
  BY DEF RunScript
<1>3. /\ at[t] \in 1..Len(Script(pc[t])) /\ Len(Script(pc[t])) \in Nat /\ Len(Script(pc[t])) >= 2
      /\ statement.on \in Tables
  BY <1>1, <1>2, ScriptShape DEF Path
<1>4. /\ pc'[t] = IF last THEN AfterScript(pc[t]) ELSE pc[t]
      /\ at'[t] = IF last THEN 1 ELSE at[t] + 1
      /\ pc' = [pc EXCEPT ![t] = pc'[t]] /\ at' = [at EXCEPT ![t] = at'[t]]
      /\ \A u \in Threads \ {t} : pc'[u] = pc[u] /\ at'[u] = at[u] /\ seen'[u] = seen[u]
  BY <1>1, <1>2 DEF RunScript, MigrationTypeOK
<1>5. tables \subseteq tables' /\ tables' \subseteq Tables /\ (meta => meta') /\ meta' \in BOOLEAN
      /\ statement.on \in tables'
  BY <1>1, <1>2, <1>3 DEF MigrationTypeOK
<1>6. /\ pc[t] = "create" => pc'[t] \in {"create", "freshstamp"}
      /\ pc[t] = "frames" => pc'[t] \in {"frames", "backlog"}
      /\ pc[t] = "backlog" => pc'[t] \in {"backlog", "stamp"}
      /\ pc[t] = "recreate" => pc'[t] \in {"recreate", "restamp"}
  BY <1>4, ScriptIs
<1>7. pc[t] \in {"create", "frames", "backlog", "recreate"}
  BY <1>2 DEF Scripts
<1>8. MigrationTypeOK' /\ Upgraded' /\ HasMeta'
  <2>1. pc'[t] \in Steps /\ disturbed' \in BOOLEAN
    BY <1>1, <1>6, <1>7 DEF Steps, Scripts, ForwardSteps, ResetSteps, Observe, MigrationTypeOK
  <2>2. at'[t] \in Nat
    BY <1>3, <1>4
  <2>3. pc' \in [Threads -> Steps] /\ at' \in [Threads -> Nat]
    BY <1>1, <1>4, <2>1, <2>2 DEF MigrationTypeOK
  <2>4. Repeatable /\ "snapshots" \in tables' => meta'
    BY <1>1, <1>2 DEF HasMeta
  <2>5. QED BY <1>1, <1>2, <1>5, <2>1, <2>3, <2>4 DEF MigrationTypeOK, Upgraded, HasMeta, Repeatable
<1>9. Path(t)'
  <2>1. CASE last
    <3>1. at'[t] = 1 /\ pc'[t] \in {"freshstamp", "backlog", "stamp", "restamp"}
      BY <1>4, <1>7, <2>1, ScriptIs
    <3>2. Len(Script("backlog")) = 2
      BY ScriptIs, StepStatements
    <3>3. 1 \in 1..2
      OBVIOUS
    <3>4. pc'[t] = "freshstamp" => pc[t] = "create"
      BY <1>6, <1>7
    <3>5. pc'[t] \in {"backlog", "stamp", "restamp"} => pc[t] \in ForwardSteps \cup ResetSteps
      BY <1>6, <1>7 DEF ForwardSteps, ResetSteps
    <3>6. QED BY <1>1, <1>2, <3>1, <3>2, <3>3, <3>4, <3>5 DEF Path, Scripts, ForwardSteps, ResetSteps
  <2>2. CASE ~last
    <3>1. pc'[t] = pc[t] /\ at'[t] = at[t] + 1 /\ at'[t] \in 1..Len(Script(pc'[t]))
      BY <1>3, <1>4, <2>2
    <3>2. QED BY <1>1, <1>2, <1>7, <3>1 DEF Path
  <2>3. QED BY <2>1, <2>2
<1>10. pc[t] \in ResetSteps <=> pc'[t] \in ResetSteps
  BY <1>6, <1>7 DEF ResetSteps
<1>11. ASSUME ~disturbed'
       PROVE  /\ KnowsOf(t)'
              /\ version' = SchemaVersion => Complete' \/ InReset'
              /\ Kept' \/ Gone'
  <2>1. Quiet /\ KnowsOf(t)
    BY <1>11, Undisturbed DEF MigrationInv, Quiet
  <2>2. InReset' <=> InReset
    BY <1>4, <1>10 DEF InReset
  <2>3. Complete => Complete'
    BY <1>5 DEF Complete
  <2>4. Kept' \/ Gone'
    <3>1. Kept => Kept'
      BY <1>2, <1>5 DEF Kept
    <3>2. ASSUME Gone PROVE Gone'
      <4>1. pc[t] \in ResetSteps
        BY <1>7, <3>2 DEF Gone, Outside
      <4>2. QED BY <1>2, <1>4, <1>10, <2>2, <3>2, <4>1 DEF Gone
    <3>3. QED BY <2>1, <3>1, <3>2 DEF Quiet
  <2>5. \A k \in 1..at[t] : Script(pc[t])[k].on \in tables'
    <3>1. ASSUME NEW k \in 1..at[t] PROVE Script(pc[t])[k].on \in tables'
      <4>1. CASE k = at[t]
        BY <1>5, <4>1
      <4>2. CASE k # at[t]
        <5>1. k \in 1..(at[t] - 1)
          BY <1>3, <4>2
        <5>2. QED BY <1>2, <1>5, <2>1, <5>1 DEF KnowsOf
      <4>3. QED BY <4>1, <4>2
    <3>2. QED BY <3>1
  <2>6. /\ pc[t] \in {"frames", "backlog"} => {"snapshots", "opportunities"} \subseteq tables' /\ meta'
        /\ pc[t] = "backlog" => "snapshot_frames" \in tables'
        /\ pc[t] \in ForwardSteps \cup ResetSteps => backup' = TablesOf(fileVersion)'
        /\ pc[t] = "recreate" /\ "snapshots" \in tables' => meta'
    BY <1>2, <1>5, <2>1 DEF KnowsOf
  <2>7. KnowsOf(t)'
    <3>1. CASE ~last
      <4>1. pc'[t] = pc[t] /\ at'[t] - 1 = at[t]
        BY <1>3, <1>4, <3>1
      <4>2. QED BY <1>7, <2>5, <2>6, <4>1 DEF KnowsOf
    <3>2. CASE last
      <4>1. at'[t] = 1 /\ pc'[t] = AfterScript(pc[t])
        BY <1>4, <3>2
      <4>2. \A k \in 1..Len(Script(pc[t])) : Script(pc[t])[k].on \in tables'
        BY <2>5, <3>2
      <4>3. CASE pc[t] \in {"create", "recreate"}
        <5>1. Script(pc[t]) = SchemaScript /\ Len(Script(pc[t])) = 7
          BY <4>3, ScriptIs, SchemaStatements
        <5>2. tables' = Tables
          <6>1. ASSUME NEW name \in Tables PROVE name \in tables'
            <7>1. PICK n \in 1..7 : SchemaScript[n].on = name
              BY ScriptShape
            <7>2. QED BY <4>2, <5>1, <7>1
          <6>2. QED BY <1>5, <6>1
        <5>3. "snapshots" \in tables'
          BY <5>2 DEF Tables
        <5>4. meta'
          <6>1. pc[t] = "create" => Repeatable'
            BY <1>1, <1>2 DEF Path, Repeatable
          <6>2. QED BY <1>8, <2>6, <4>3, <5>3, <6>1 DEF HasMeta
        <5>5. pc'[t] \in {"freshstamp", "restamp"} /\ (pc'[t] = "restamp" => pc[t] = "recreate")
          BY <4>1, <4>3, ScriptIs
        <5>6. QED BY <2>6, <5>2, <5>4, <5>5 DEF KnowsOf, Complete, Scripts, ForwardSteps, ResetSteps
      <4>4. CASE pc[t] = "frames"
        <5>1. pc'[t] = "backlog" /\ "snapshot_frames" \in tables'
          <6>1. Script(pc[t])[1].on = "snapshot_frames" /\ 1 \in 1..Len(Script(pc[t]))
            BY <1>3, <4>4, ScriptIs, StepStatements
          <6>2. QED BY <4>1, <4>2, <4>4, <6>1, ScriptIs
        <5>2. QED BY <2>6, <4>1, <4>4, <5>1 DEF KnowsOf, ForwardSteps
      <4>5. CASE pc[t] = "backlog"
        <5>1. pc'[t] = "stamp" /\ "backlog_intervals" \in tables'
          <6>1. Script(pc[t])[1].on = "backlog_intervals" /\ 1 \in 1..Len(Script(pc[t]))
            BY <1>3, <4>5, ScriptIs, StepStatements
          <6>2. QED BY <4>1, <4>2, <4>5, <6>1, ScriptIs
        <5>2. tables' = Tables /\ meta'
          BY <1>5, <2>6, <4>5, <5>1 DEF Tables
        <5>3. QED BY <2>6, <4>1, <4>5, <5>1, <5>2 DEF KnowsOf, Complete, ForwardSteps, Scripts
      <4>6. QED BY <1>7, <4>3, <4>4, <4>5
    <3>3. QED BY <3>1, <3>2
  <2>8. QED BY <1>2, <2>1, <2>2, <2>3, <2>4, <2>7 DEF Quiet
<1>12. initialized' => version' = SchemaVersion
  BY <1>2 DEF MigrationInv
<1>13. Repeatable /\ failures' = 0 => pc'[t] \notin ResetSteps
  BY <1>2, <1>10 DEF MigrationInv, NeverReset
<1>14. pc[t] \notin Outside
  BY <1>7 DEF Outside
<1>15. QED BY <1>2, <1>4, <1>5, <1>8, <1>9, <1>11, <1>12, <1>13, <1>14, StepKeepsInv

\* A reset drops a table; the rows are in the backup.
LEMMA DropTableInv ==
    ASSUME MigrationInv, NEW t \in Threads, Observe, DropTable(t)
    PROVE  MigrationInv'
<1> DEFINE table == DropOrder[at[t]]
           last == at[t] = Len(DropOrder)
<1>1. MigrationTypeOK /\ Upgraded /\ HasMeta /\ Path(t)
  BY DEF MigrationInv
<1>2. /\ UNCHANGED <<version, backup, fileVersion, initialized, seen, failures>>
      /\ pc[t] = "drop" /\ tables' = tables \ {table} /\ meta' = (meta /\ table # "snapshots")
  BY DEF DropTable
<1>3. at[t] \in 1..4 /\ Len(DropOrder) = 4 /\ DropOrder[4] = "snapshots" /\ fileVersion \in 1..3
  <2>1. Len(DropOrder) = 4 /\ DropOrder[4] = "snapshots"
    BY DEF DropOrder
  <2>2. QED BY <1>1, <1>2, <2>1 DEF Path, ResetSteps
<1>4. /\ pc'[t] = IF last THEN "recreate" ELSE "drop"
      /\ at'[t] = IF last THEN 1 ELSE at[t] + 1
      /\ pc' = [pc EXCEPT ![t] = pc'[t]] /\ at' = [at EXCEPT ![t] = at'[t]]
      /\ \A u \in Threads \ {t} : pc'[u] = pc[u] /\ at'[u] = at[u] /\ seen'[u] = seen[u]
  BY <1>1, <1>2 DEF DropTable, MigrationTypeOK
<1>5. MigrationTypeOK' /\ Upgraded' /\ HasMeta'
  <2>1. pc'[t] \in Steps /\ disturbed' \in BOOLEAN
    BY <1>1, <1>4 DEF Steps, ResetSteps, Observe, MigrationTypeOK
  <2>2. at'[t] \in Nat
    BY <1>3, <1>4
  <2>3. pc' \in [Threads -> Steps] /\ at' \in [Threads -> Nat]
    BY <1>1, <1>4, <2>1, <2>2 DEF MigrationTypeOK
  <2>4. Repeatable /\ "snapshots" \in tables' => meta'
    BY <1>1, <1>2 DEF HasMeta
  <2>5. tables' \subseteq Tables /\ meta' \in BOOLEAN
    BY <1>1, <1>2 DEF MigrationTypeOK
  <2>6. QED BY <1>1, <1>2, <2>1, <2>3, <2>4, <2>5 DEF MigrationTypeOK, Upgraded, HasMeta, Repeatable
<1>6. Path(t)'
  <2>1. CASE last
    <3>1. pc'[t] = "recreate" /\ at'[t] = 1
      BY <1>4, <2>1
    <3>2. Len(Script("recreate")) = 7
      BY ScriptIs, SchemaStatements
    <3>3. 1 \in 1..7
      OBVIOUS
    <3>4. QED BY <1>2, <1>3, <3>1, <3>2, <3>3 DEF Path
  <2>2. CASE ~last
    <3>1. pc'[t] = "drop" /\ at'[t] \in 1..Len(DropOrder)
      BY <1>3, <1>4, <2>2
    <3>2. QED BY <1>2, <1>3, <3>1 DEF Path, Scripts
  <2>3. QED BY <2>1, <2>2
<1>7. pc[t] \in ResetSteps /\ pc'[t] \in ResetSteps /\ pc[t] \notin Outside
  BY <1>2, <1>4 DEF ResetSteps, Outside
<1>8. ASSUME ~disturbed' PROVE KnowsOf(t)' /\ Gone' /\ InReset'
  <2>1. KnowsOf(t)
    BY <1>8, Undisturbed DEF MigrationInv, Quiet
  <2>2. \A u \in Threads \ {t} : pc'[u] \in Outside
    BY <1>7, <1>8, Undisturbed
  <2>3. backup' = TablesOf(fileVersion)' /\ InReset'
    BY <1>2, <1>7, <2>1 DEF KnowsOf, InReset
  <2>4. Gone'
    BY <1>7, <2>2, <2>3 DEF Gone
  <2>5. \A k \in 1..at[t] : DropOrder[k] \notin tables'
    <3>1. ASSUME NEW k \in 1..at[t] PROVE DropOrder[k] \notin tables'
      <4>1. CASE k = at[t]
        BY <1>2, <4>1
      <4>2. CASE k # at[t]
        <5>1. k \in 1..(at[t] - 1)
          BY <1>3, <4>2
        <5>2. QED BY <1>2, <2>1, <5>1 DEF KnowsOf
      <4>3. QED BY <4>1, <4>2
    <3>2. QED BY <3>1
  <2>6. KnowsOf(t)'
    <3>1. CASE last
      <4>1. pc'[t] = "recreate" /\ at'[t] = 1 /\ "snapshots" \notin tables'
        BY <1>3, <1>4, <2>5, <3>1
      <4>2. QED BY <2>3, <4>1 DEF KnowsOf
    <3>2. CASE ~last
      <4>1. pc'[t] = "drop" /\ at'[t] - 1 = at[t]
        BY <1>3, <1>4, <3>2
      <4>2. QED BY <2>3, <2>5, <4>1 DEF KnowsOf, Scripts
    <3>3. QED BY <3>1, <3>2
  <2>7. QED BY <2>3, <2>4, <2>6
<1>9. initialized' => version' = SchemaVersion
  BY <1>2 DEF MigrationInv
<1>10. Repeatable /\ failures' = 0 => FALSE
  BY <1>2, <1>7 DEF MigrationInv, NeverReset
<1>11. QED BY <1>2, <1>4, <1>5, <1>6, <1>7, <1>8, <1>9, <1>10, StepKeepsInv

\* The stamp comes last, when the file is complete.
LEMMA StampInv ==
    ASSUME MigrationInv, NEW t \in Threads, Observe, Stamp(t)
    PROVE  MigrationInv'
<1>1. MigrationTypeOK /\ Upgraded /\ HasMeta /\ Path(t)
  BY DEF MigrationInv
<1>2. /\ UNCHANGED <<tables, meta, data, backup, fileVersion, initialized, seen, failures>>
      /\ version' = SchemaVersion
  BY DEF Stamp
<1>3. /\ pc[t] \in {"freshstamp", "stamp", "restamp"} /\ pc'[t] = "indexes" /\ at'[t] = 1
      /\ pc' = [pc EXCEPT ![t] = "indexes"] /\ at' = [at EXCEPT ![t] = 1]
      /\ \A u \in Threads \ {t} : pc'[u] = pc[u] /\ at'[u] = at[u] /\ seen'[u] = seen[u]
  BY <1>1, <1>2 DEF Stamp, Goto, MigrationTypeOK
<1>4. fileVersion \in 0..3
  BY <1>1, <1>3 DEF Path, ForwardSteps, ResetSteps
<1>5. MigrationTypeOK' /\ Upgraded' /\ HasMeta'
  <2>1. version' \in 0..(SchemaVersion + 1) /\ fileVersion <= SchemaVersion
    BY <1>2, <1>4 DEF SchemaVersion
  <2>2. pc' \in [Threads -> Steps] /\ at' \in [Threads -> Nat] /\ disturbed' \in BOOLEAN
    BY <1>1, <1>3 DEF MigrationTypeOK, Steps, Observe
  <2>3. QED BY <1>1, <1>2, <2>1, <2>2 DEF MigrationTypeOK, Upgraded, HasMeta, Repeatable
<1>6. Path(t)'
  BY <1>2, <1>3 DEF Path, Scripts, ForwardSteps, ResetSteps
<1>7. pc'[t] \notin ResetSteps /\ pc'[t] \notin Outside
  BY <1>3 DEF ResetSteps, Outside
<1>8. ASSUME ~disturbed' PROVE KnowsOf(t)' /\ Complete' /\ (Kept' \/ Gone')
  <2>1. Quiet /\ KnowsOf(t)
    BY <1>8, Undisturbed DEF MigrationInv, Quiet
  <2>2. Complete'
    BY <1>2, <1>3, <2>1 DEF KnowsOf, Complete
  <2>3. KnowsOf(t)'
    BY <1>3 DEF KnowsOf, Scripts, ForwardSteps, ResetSteps
  <2>4. Kept => Kept'
    BY <1>2 DEF Kept
  <2>5. Gone => Gone'
    BY <1>2, <1>3 DEF Gone
  <2>6. QED BY <2>1, <2>2, <2>3, <2>4, <2>5 DEF Quiet
<1>9. QED BY <1>2, <1>3, <1>5, <1>6, <1>7, <1>8, StepKeepsInv

\* A crash forgets the threads, and what the process remembers of the file.
LEMMA CrashInv == MigrationInv /\ Crash /\ Observe => MigrationInv'
<1> SUFFICES ASSUME MigrationInv, Crash, Observe PROVE MigrationInv' OBVIOUS
<1>1. /\ UNCHANGED <<version, tables, meta, data, backup, fileVersion, seen, failures>> /\ ~initialized'
      /\ pc' = [t \in Threads |-> "open"] /\ at' = [t \in Threads |-> 1]
  BY DEF Crash, db
<1>2. MigrationTypeOK' /\ Upgraded' /\ HasMeta'
  BY <1>1 DEF MigrationInv, MigrationTypeOK, Upgraded, HasMeta, Repeatable, Steps, Outside, Observe
<1>3. \A t \in Threads : Path(t)' /\ KnowsOf(t)' /\ pc'[t] \notin ResetSteps /\ pc'[t] \in Outside
  BY <1>1 DEF Path, KnowsOf, Scripts, ForwardSteps, ResetSteps, Outside
<1>4. NeverReset'
  BY <1>1, <1>3 DEF MigrationInv, NeverReset, Repeatable, Observe, Kept
<1>5. ASSUME ~disturbed' PROVE Quiet'
  <2>1. Quiet /\ ~InReset
    BY <1>3, <1>5, Undisturbed DEF MigrationInv, InReset
  <2>2. version' = SchemaVersion => Complete'
    BY <1>1, <2>1 DEF Quiet, Complete
  <2>3. Kept => Kept'
    BY <1>1 DEF Kept
  <2>4. Gone => Gone'
    BY <1>1, <1>3, <2>1 DEF Gone
  <2>5. QED BY <1>3, <2>1, <2>2, <2>3, <2>4 DEF Quiet
<1>6. QED BY <1>1, <1>2, <1>3, <1>4, <1>5 DEF MigrationInv

-----------------------------------------------------------------------------
\* At every statement, whatever the other threads do, wherever the process has died and
\* whichever statements have failed, each thread's view of the file is still true of it, or
\* a reset was disturbed.
THEOREM MigrationInvariance == Spec => []MigrationInv
<1>1. MigrationInit => MigrationInv
  BY InitMigrationInv
<1>2. MigrationInv /\ [Next]_vars => MigrationInv'
  <2> SUFFICES ASSUME MigrationInv, [Next]_vars PROVE MigrationInv' OBVIOUS
  <2>1. ASSUME NEW t \in Threads, Step(t) PROVE MigrationInv'
    BY <2>1, QuietStepInv, AddMetaInv, RunScriptInv, DropTableInv, StampInv, RaiseInv DEF Step
  <2>2. CASE UNCHANGED vars
    BY <2>2 DEF vars, db, MigrationInv, MigrationTypeOK, Upgraded, HasMeta, NeverReset, Repeatable,
         Path, Quiet, Kept, Gone, InReset, Complete, KnowsOf
  <2>3. QED BY <2>1, <2>2, FailInv, CrashInv DEF Next
<1>3. QED BY <1>1, <1>2, PTL DEF Spec

\* StampedIsComplete: a file that says it is current has every table and column, unless it
\* is being reset or a reset was disturbed (_migrate stamps last, store.py).
THEOREM StampedIsCompleteHolds == Spec => []StampedIsComplete
<1>1. MigrationInv => StampedIsComplete
  BY DEF MigrationInv, StampedIsComplete, Quiet, Path
<1>2. QED BY <1>1, MigrationInvariance, PTL

\* RowsKept: the rows of the older file are in the database, or in the backup after a
\* reset that was not disturbed.
THEOREM RowsKeptHolds == Spec => []RowsKept
<1>1. MigrationInv => RowsKept
  <2> SUFFICES ASSUME MigrationInv PROVE RowsKept OBVIOUS
  <2>1. ASSUME ~disturbed PROVE TablesOf(fileVersion) \subseteq data \cup backup
    BY <2>1 DEF MigrationInv, Quiet, Kept, Gone
  <2>2. ASSUME Repeatable, failures = 0 PROVE TablesOf(fileVersion) \subseteq data
    <3>1. Kept
      BY <2>2 DEF MigrationInv, NeverReset
    <3>2. QED BY <3>1 DEF Kept
  <2>3. QED BY <2>1, <2>2 DEF RowsKept
<1>2. QED BY <1>1, MigrationInvariance, PTL

\* NewerUntouched: a file newer than the program is never written.
THEOREM NewerUntouchedHolds == Spec => NewerUntouched
<1>1. MigrationInv /\ [Next]_vars => (version > SchemaVersion => UNCHANGED <<db, backup>>)
  <2> SUFFICES ASSUME MigrationInv, [Next]_vars, version > SchemaVersion
               PROVE  UNCHANGED <<db, backup>>
    OBVIOUS
  <2>1. fileVersion = 5
    BY DEF MigrationInv, MigrationTypeOK, Upgraded, SchemaVersion
  <2>2. \A t \in Threads : /\ pc[t] \notin Scripts
                            /\ pc[t] \notin {"backup", "alter", "drop", "freshstamp", "stamp", "restamp"}
    BY <2>1 DEF MigrationInv, Path, Scripts, ForwardSteps, ResetSteps
  <2>3. ASSUME NEW t \in Threads, Step(t) PROVE UNCHANGED <<db, backup>>
    BY <2>2, <2>3 DEF Step, OpenKnown, ReadVersion, EnsureIndexes, Reopen, Backup, AddMeta,
         RunScript, DropTable, Stamp, Raise, Goto
  <2>4. QED BY <2>3 DEF Next, Fail, Crash, vars
<1>2. QED BY <1>1, MigrationInvariance, PTL DEF Spec, NewerUntouched
=============================================================================
