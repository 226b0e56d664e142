----------------------------- MODULE ScanManager -----------------------------
(***************************************************************************)
(* scan_manager.py with the part of store.write_snapshot its threads run:  *)
(* the trigger (singleflight, budget cooldown, TTL), the scan thread       *)
(* (fetch, commit, housekeeping, settle, notify hook), the callers that    *)
(* join a scan for a bounded time, and a restart of the process.           *)
(*                                                                         *)
(* Scan threads are numbered in the order they are started; the store is   *)
(* the sequence of the snapshots ever committed, whose index is the        *)
(* AUTOINCREMENT id (what retention deletes later is SnapshotStore's       *)
(* matter: it never deletes the newest).  0 stands for None.               *)
(***************************************************************************)
EXTENDS Naturals, Sequences

CONSTANTS
    Callers,      \* concurrent callers of trigger(): POST /scan, "Scan now", the scheduler
    MaxScans,     \* bound: scan threads started in a behaviour
    MaxClock,     \* bound: the wall clock, in seconds
    MaxBoots,     \* bound: process generations (1 = no restart)
    Ttl,          \* config.SCAN_MIN_INTERVAL_SECONDS
    Cooldown,     \* config.SCAN_BUDGET_COOLDOWN_SECONDS
    SerialHooks   \* TRUE: only behaviours where a notify hook ends before the next scan settles

ASSUME ConstantsAssumption ==
    /\ MaxScans \in Nat /\ MaxClock \in Nat /\ MaxBoots \in Nat
    /\ Ttl \in Nat /\ Cooldown \in Nat
    /\ SerialHooks \in BOOLEAN

VARIABLES
    clock,          \* time.time(), in seconds
    boot,           \* generation of the process
    thread,         \* self._thread: number of the scan that owns the manager, 0 for None
    cooldownUntil,  \* self._cooldown_until
    status,         \* self._status: [state, last] (since, last_result, reason are left out)
    started,        \* scan threads started so far
    pc,             \* where each scan thread is
    run,            \* what each scan thread holds: [force, ts, boot, sid, ok, blown, ended]
    snaps,          \* store: committed snapshots, [ts, force]
    joined          \* per caller: the thread it joins with its wait_timeout, 0 when it waits for none

managerVars == <<thread, cooldownUntil, status>>
threadVars == <<started, pc, run>>
vars == <<clock, boot, managerVars, threadVars, snaps, joined>>

Threads == 1..MaxScans

\* Program counters of _run.  "commit" and "tidy" are the two transactions of write_snapshot.
FlightPC == {"fetch", "commit", "tidy", "settle"}   \* before `_thread = None`
PCs == FlightPC \cup {"unborn", "hook", "gone"}

States == {"idle", "in_progress", "done", "skipped", "error"}
Status == [state: States, last: Nat]
Snap == [ts: Nat, force: BOOLEAN]
Run == [force: BOOLEAN, ts: Nat, boot: Nat, sid: Nat, ok: BOOLEAN,
        blown: BOOLEAN, ended: Nat]

\* Mutant: a status string no client knows.
IdleStatusUnknown == [state |-> "stopped", last |-> 0]

IdleStatus == [state |-> "idle", last |-> 0]
NoRun == [force |-> FALSE, ts |-> 0, boot |-> 0, sid |-> 0, ok |-> FALSE,
          blown |-> FALSE, ended |-> 0]

TypeOK ==
    /\ clock \in Nat /\ boot \in Nat
    /\ thread \in 0..MaxScans
    /\ cooldownUntil \in Nat
    /\ status \in Status
    /\ started \in 0..MaxScans
    /\ pc \in [Threads -> PCs]
    /\ run \in [Threads -> Run]
    /\ snaps \in Seq(Snap)
    /\ joined \in [Callers -> 0..MaxScans]

\* store.latest: ORDER BY fetched_ts DESC, id DESC LIMIT 1; 0 when the store is empty.
Latest(s) ==
    IF s = <<>> THEN 0
    ELSE CHOOSE i \in 1..Len(s) : \A j \in 1..Len(s) :
            s[j].ts < s[i].ts \/ (s[j].ts = s[i].ts /\ j <= i)

Init ==
    /\ clock = 0
    /\ boot = 1
    /\ thread = 0
    /\ cooldownUntil = 0
    /\ status = IdleStatus
    /\ started = 0
    /\ pc = [t \in Threads |-> "unborn"]
    /\ run = [t \in Threads |-> NoRun]
    /\ snaps = <<>>
    /\ joined = [c \in Callers |-> 0]

-----------------------------------------------------------------------------
(* trigger *)

\* Mutant: the manager counts as free once the fetch is over.
RunningWhileFetching == thread # 0 /\ pc[thread] = "fetch"

\* `self._thread is not None and self._thread.is_alive()`; _run clears _thread before it dies.
Running == thread # 0

CooldownActive == cooldownUntil > clock

\* Mutant: the age of the snapshot the in-memory status names.
TtlFreshInMemory == status.last # 0 /\ clock - snaps[status.last].ts < Ttl

\* The newest STORED snapshot is younger than the TTL.
TtlFresh == snaps # <<>> /\ clock - snaps[Latest(snaps)].ts < Ttl

\* A skipped trigger overwrites the state of the status, keeps last_snapshot_id, and answers at once.
Skip ==
    /\ status' = [status EXCEPT !.state = "skipped"]
    /\ UNCHANGED <<clock, boot, thread, cooldownUntil, threadVars, snaps, joined>>

SkipCooldown(c) ==
    /\ joined[c] = 0
    /\ ~Running
    /\ CooldownActive
    /\ Skip

\* Mutant: the TTL is looked at before the singleflight.
SkipTtlWhileRunning(c) ==
    /\ joined[c] = 0
    /\ ~CooldownActive
    /\ TtlFresh
    /\ Skip

SkipTtl(c) ==
    /\ joined[c] = 0
    /\ ~Running
    /\ ~CooldownActive
    /\ TtlFresh
    /\ Skip

\* A trigger while a scan runs: nothing starts, the caller joins the running thread.
JoinRunning(c) ==
    /\ joined[c] = 0
    /\ Running
    /\ joined' = [joined EXCEPT ![c] = thread]
    /\ UNCHANGED <<clock, boot, managerVars, threadVars, snaps>>

\* The trigger that starts a scan: status, thread and fetched_at are set under the lock.
StartScan(c, force) ==
    /\ joined[c] = 0
    /\ ~Running
    /\ force \/ (~CooldownActive /\ ~TtlFresh)
    /\ started < MaxScans
    /\ LET t == started + 1 IN
        /\ started' = t
        /\ thread' = t
        /\ pc' = [pc EXCEPT ![t] = "fetch"]
        /\ run' = [run EXCEPT ![t] =
                    [NoRun EXCEPT !.force = force, !.ts = clock, !.boot = boot]]
        /\ joined' = [joined EXCEPT ![c] = t]
    /\ status' = [state |-> "in_progress", last |-> Latest(snaps)]
    /\ UNCHANGED <<clock, boot, cooldownUntil, snaps>>

\* join(wait_timeout) ended, by the thread's death or by the timeout (0 for a
\* non-blocking trigger); the answer is whatever status() says by then.
Return(c) ==
    /\ joined[c] # 0
    /\ joined' = [joined EXCEPT ![c] = 0]
    /\ UNCHANGED <<clock, boot, managerVars, threadVars, snaps>>

-----------------------------------------------------------------------------
(* the scan thread: _run *)

\* run_fn returned its rows.
Fetched(t) ==
    /\ pc[t] = "fetch"
    /\ pc' = [pc EXCEPT ![t] = "commit"]
    /\ UNCHANGED <<clock, boot, managerVars, started, run, snaps, joined>>

\* Mutant: a commit that is retried although it went through.
CommitRetried(t) ==
    /\ pc[t] = "commit"
    /\ Len(snaps) < MaxScans
    /\ snaps' = Append(snaps, [ts |-> run[t].ts, force |-> run[t].force])
    /\ run' = [run EXCEPT ![t].sid = Len(snaps) + 1]
    /\ pc' \in {[pc EXCEPT ![t] = "tidy"], pc}
    /\ UNCHANGED <<clock, boot, managerVars, started, joined>>

\* First transaction of write_snapshot: the snapshot is durable and visible to readers.
Commit(t) ==
    /\ pc[t] = "commit"
    /\ snaps' = Append(snaps, [ts |-> run[t].ts, force |-> run[t].force])
    /\ run' = [run EXCEPT ![t].sid = Len(snaps) + 1]
    /\ pc' = [pc EXCEPT ![t] = "tidy"]
    /\ UNCHANGED <<clock, boot, managerVars, started, joined>>

\* Second transaction (retention) done: write_fn returns the id.
Tidied(t) ==
    /\ pc[t] = "tidy"
    /\ run' = [run EXCEPT ![t].ok = TRUE]
    /\ pc' = [pc EXCEPT ![t] = "settle"]
    /\ UNCHANGED <<clock, boot, managerVars, started, snaps, joined>>

\* Mutant: a failed fetch or commit goes back to the fetch instead of settling.
RaiseRetries(t) ==
    /\ pc[t] \in {"fetch", "commit", "tidy"}
    /\ pc' = [pc EXCEPT ![t] = IF pc[t] = "tidy" THEN "settle" ELSE "fetch"]
    /\ UNCHANGED <<clock, boot, managerVars, started, run, snaps, joined>>

\* run_fn or write_fn raised: the fetch failed, the first transaction was rolled
\* back, or the retention after a commit failed -- then the snapshot stays.
Raise(t) ==
    /\ pc[t] \in {"fetch", "commit", "tidy"}
    /\ pc' = [pc EXCEPT ![t] = "settle"]
    /\ UNCHANGED <<clock, boot, managerVars, started, run, snaps, joined>>

\* Mutant: a scan within budget clears the cooldown of an earlier one.
SettleClearsCooldown(t, blown) ==
    /\ pc[t] = "settle"
    /\ SerialHooks => \A u \in Threads : pc[u] # "hook"
    /\ status' = [state |-> IF run[t].ok THEN "done" ELSE "error",
                  last |-> IF run[t].ok THEN run[t].sid ELSE 0]
    /\ cooldownUntil' = IF run[t].ok /\ blown THEN clock + Cooldown ELSE 0
    /\ thread' = 0
    /\ run' = [run EXCEPT ![t] = [@ EXCEPT !.blown = blown, !.ended = clock]]
    /\ pc' = [pc EXCEPT ![t] = IF run[t].ok THEN "hook" ELSE "gone"]
    /\ UNCHANGED <<clock, boot, started, snaps, joined>>

\* Mutant: the settled status keeps the snapshot id of the start of the scan.
SettleKeepsLast(t, blown) ==
    /\ pc[t] = "settle"
    /\ status' = [status EXCEPT !.state = IF run[t].ok THEN "done" ELSE "error"]
    /\ cooldownUntil' = IF run[t].ok /\ blown THEN clock + Cooldown ELSE cooldownUntil
    /\ thread' = 0
    /\ run' = [run EXCEPT ![t] = [@ EXCEPT !.blown = blown, !.ended = clock]]
    /\ pc' = [pc EXCEPT ![t] = IF run[t].ok THEN "hook" ELSE "gone"]
    /\ UNCHANGED <<clock, boot, started, snaps, joined>>

\* The outcome is published under the lock and the manager is free again; `blown`
\* says whether the scan exceeded a budget cap, which only a success looks at.
Settle(t, blown) ==
    /\ pc[t] = "settle"
    /\ SerialHooks => \A u \in Threads : pc[u] # "hook"
    /\ LET cooling == run[t].ok /\ blown IN
        /\ status' = [state |-> IF run[t].ok THEN "done" ELSE "error",
                      last |-> IF run[t].ok THEN run[t].sid ELSE 0]
        /\ cooldownUntil' = IF cooling THEN clock + Cooldown ELSE cooldownUntil
    /\ thread' = 0
    /\ run' = [run EXCEPT ![t] = [@ EXCEPT !.blown = blown, !.ended = clock]]
    /\ pc' = [pc EXCEPT ![t] = IF run[t].ok THEN "hook" ELSE "gone"]
    /\ UNCHANGED <<clock, boot, started, snaps, joined>>

\* on_complete returned, or raised and was swallowed: the thread dies.  What the
\* hook does step by step is LiveFeed's matter; it touches nothing of the manager.
HookDone(t) ==
    /\ pc[t] = "hook"
    /\ pc' = [pc EXCEPT ![t] = "gone"]
    /\ UNCHANGED <<clock, boot, managerVars, started, run, snaps, joined>>

-----------------------------------------------------------------------------
(* the environment *)

Tick ==
    /\ clock < MaxClock
    /\ clock' = clock + 1
    /\ UNCHANGED <<boot, managerVars, threadVars, snaps, joined>>

\* The process dies and starts again: the daemon threads and everything the
\* manager keeps in memory are gone, the committed snapshots are not.
Restart ==
    /\ boot < MaxBoots
    /\ boot' = boot + 1
    /\ thread' = 0
    /\ cooldownUntil' = 0
    /\ status' = IdleStatus
    /\ pc' = [t \in Threads |-> IF pc[t] = "unborn" THEN "unborn" ELSE "gone"]
    /\ joined' = [c \in Callers |-> 0]
    /\ UNCHANGED <<clock, started, run, snaps>>

CallerStep(c) ==
    \/ SkipCooldown(c)
    \/ SkipTtl(c)
    \/ JoinRunning(c)
    \/ \E force \in BOOLEAN : StartScan(c, force)
    \/ Return(c)

FlightStep(t) ==
    \/ Fetched(t)
    \/ Commit(t)
    \/ Tidied(t)
    \/ Raise(t)
    \/ \E blown \in BOOLEAN : Settle(t, blown)

Next ==
    \/ \E c \in Callers : CallerStep(c)
    \/ \E t \in Threads : FlightStep(t) \/ HookDone(t)
    \/ Tick
    \/ Restart

Spec == Init /\ [][Next]_vars

\* A scan thread that is alive keeps running: the fetch has bounded retries and
\* request timeouts, the writes a busy timeout, the hook no wait at all.
FairSpec == Spec /\ \A t \in Threads : WF_vars(FlightStep(t)) /\ WF_vars(HookDone(t))

-----------------------------------------------------------------------------
(* what the manager is for *)

InFlight(t) == pc[t] \in FlightPC

\* Two triggers collapse into one scan: never two threads between the fetch and
\* the moment the manager is free again (scan_manager.py:3-7, singleflight).
Singleflight == \A t, u \in Threads : InFlight(t) /\ InFlight(u) => t = u

\* A poller of GET /scan/status sees "in_progress" exactly while a scan is in
\* flight: neither a skip, nor a late hook, nor a restart leaves it wrong.
StatusTracksFlight == (status.state = "in_progress") <=> (\E t \in Threads : InFlight(t))

\* The TTL guard reads the store, not memory: a snapshot of a non-forced scan is
\* at least the TTL younger than every snapshot before it, even when the earlier
\* scan was reported as an error after its commit or the process restarted.
TtlSpacing ==
    \A i, j \in 1..Len(snaps) :
        i < j /\ ~snaps[j].force => snaps[j].ts >= snaps[i].ts + Ttl

\* Within one process, no non-forced scan starts inside the cooldown window of an
\* earlier scan that succeeded over budget, whatever ran in between.
CooldownHonoured ==
    \A t, u \in 1..started :
        /\ t < u
        /\ run[t].ok /\ run[t].blown
        /\ run[u].boot = run[t].boot
        /\ ~run[u].force
        => run[u].ts >= run[t].ended + Cooldown

\* "done" names the snapshot the read endpoints serve: it is durable, and no later
\* commit has overtaken it.
DoneNamesLatest ==
    status.state = "done" => status.last # 0 /\ status.last = Latest(snaps)

\* A scan that is in flight ends, so the manager never stays "in_progress".
ScanEnds == \A t \in Threads : InFlight(t) ~> ~InFlight(t)

\* The manager implements its abstract specification.
SF == INSTANCE SingleFlight WITH
        busy <- thread # 0,
        wrote <- thread # 0 /\ run[thread].sid # 0,
        stored <- Len(snaps)

RefinesSingleFlight == SF!Spec
=============================================================================
