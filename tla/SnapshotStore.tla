---------------------------- MODULE SnapshotStore ----------------------------
(***************************************************************************)
(* store.py, the write path: write_snapshot with its two transactions, the *)
(* three retention tiers of the second one, the durable interval backlog   *)
(* of the first one, and the reads that depend on what the tiers leave.    *)
(*                                                                         *)
(* A snapshot's rows are abstracted to the bucket and the ROI of each      *)
(* opportunity, its evidence frames to their size.  There is one writer    *)
(* (ScanManager's singleflight); readers see the committed tables.         *)
(***************************************************************************)
EXTENDS Naturals, Sequences, FiniteSets, FiniteSetsExt

CONSTANTS
    Opps,          \* opportunity ids
    MaxRoi,        \* bound: an ROI is 1..MaxRoi, or 0 for none / NaN
    Scans,         \* bound: the scan results that are written, [rows, size of the frames]
    MaxWrites,     \* bound: snapshots written in a behaviour
    MaxTs,         \* bound: the last fetched_ts
    Keep,          \* SNAPSHOT_RETENTION_SECONDS
    FrameN,        \* SNAPSHOT_FRAME_RETENTION_N
    FrameBudget,   \* SNAPSHOT_FRAME_DB_BUDGET_BYTES
    OppFullN,      \* SNAPSHOT_OPP_FULL_RETENTION_N
    BacklogKeep    \* BACKLOG_RETENTION_SECONDS

ASSUME StoreConstants ==
    /\ IsFiniteSet(Opps)
    /\ {MaxRoi, MaxWrites, MaxTs, Keep, FrameBudget, BacklogKeep} \subseteq Nat
    /\ FrameN \in Nat \ {0}
    /\ OppFullN \in Nat \ {0}

VARIABLES
    snapshots,   \* stored snapshots: id -> [ts, rows, counts]
    frames,      \* id -> size of the frames of that snapshot, for the snapshots that have any
    intervals,   \* backlog_intervals: a set of [opp, cat, born, first, last, left, bucket, peak]
    phase,       \* "idle", or "tidy" between the two transactions of write_snapshot
    tidied,      \* TRUE when the last write_snapshot got through its second transaction
    hist         \* every snapshot ever committed, [ts, rows, size]; its index is the id

vars == <<snapshots, frames, intervals, phase, tidied, hist>>

Ids == 1..MaxWrites

\* config: the buckets that matter here, one of each kind.
Category == [actionable |-> "actionable", near_miss |-> "bounded_loss",
             risk_budget |-> "bounded_loss"]
Tracked == DOMAIN Category
TierBuckets == {"near_miss", "no_structure"}
Buckets == Tracked \cup TierBuckets

NoRow == [bucket |-> "none", roi |-> 0]
Rows == [Opps -> [bucket: Buckets, roi: 0..MaxRoi] \cup {NoRow}]

\* Frames of size 0 are no frames: every sport's fetch failed.
ASSUME ScansAreResults == Scans \subseteq [rows: Rows, size: Nat]

\* left_ts IS NULL
Open == MaxTs + 1

Interval == [opp: Opps, cat: {"actionable", "bounded_loss"}, born: Ids,
             first: 0..MaxTs, last: 0..MaxTs, left: 0..Open,
             bucket: Tracked, peak: 0..MaxRoi]

\* Rows of a bucket.
CountIn(rows, bucket) == Cardinality({o \in Opps : rows[o].bucket = bucket})

NoCounts == [b \in TierBuckets |-> 0]

\* SELECT MAX(fetched_ts) FROM snapshots
NewestTs(s) == Max({s[i].ts : i \in DOMAIN s})

\* `a` comes before `b` in ORDER BY fetched_ts DESC, id DESC.
NewerIn(s, a, b) == s[a].ts > s[b].ts \/ (s[a].ts = s[b].ts /\ a > b)

\* latest / latest_snapshot_id, 0 when nothing is stored.
LatestOf(s) ==
    IF DOMAIN s = {} THEN 0
    ELSE CHOOSE i \in DOMAIN s : \A j \in DOMAIN s \ {i} : NewerIn(s, i, j)

StoreInit ==
    /\ snapshots = <<>>
    /\ frames = <<>>
    /\ intervals = {}
    /\ phase = "idle"
    /\ tidied = TRUE
    /\ hist = <<>>

-----------------------------------------------------------------------------
(* _maintain_backlog_intervals *)

CatOf(row) == IF row.bucket \in Tracked THEN Category[row.bucket] ELSE "none"

IsTracked(rows, opp, cat) == CatOf(rows[opp]) = cat

\* Mutant: the bulk read forgets `left_ts IS NULL`.
OpenInAll(iv) == iv

\* The open intervals, at most one per opportunity and category (ux_backlog_open).
OpenIn(iv) == {v \in iv : v.left = Open}

\* An open interval whose opportunity is still in its category advances.
Advance(v, rows, ts) ==
    [v EXCEPT !.last = ts,
              !.bucket = rows[v.opp].bucket,
              !.peak = Max({@, rows[v.opp].roi})]

\* An opportunity tracked now that had no open interval gets one.
Opened(iv, rows, ts, id) ==
    {[opp |-> o, cat |-> CatOf(rows[o]), born |-> id, first |-> ts, last |-> ts,
      left |-> Open, bucket |-> rows[o].bucket, peak |-> rows[o].roi] :
        o \in {p \in Opps :
                /\ rows[p].bucket \in Tracked
                /\ \A v \in OpenIn(iv) : v.opp = p => v.cat # CatOf(rows[p])}}

\* The table after the snapshot `id` with these rows: open intervals advance or close, new
\* ones open, and what was closed more than the retention before this write is deleted.
Maintained(iv, rows, ts, id) ==
    LET advanced == {Advance(v, rows, ts) :
                        v \in {u \in OpenIn(iv) : IsTracked(rows, u.opp, u.cat)}}
        closed == {[v EXCEPT !.left = ts] :
                        v \in {u \in OpenIn(iv) : ~IsTracked(rows, u.opp, u.cat)}}
        all == (iv \ OpenIn(iv)) \cup advanced \cup closed \cup Opened(iv, rows, ts, id)
    IN {v \in all : v.left = Open \/ v.left + BacklogKeep >= ts}

-----------------------------------------------------------------------------
(* the retention tiers *)

\* Mutant: off by one at the boundary of the window.
InRetentionLate(s) ==
    {i \in DOMAIN s : s[i].ts + Keep + 1 >= NewestTs(s)}

\* _apply_retention: snapshots older than Keep, measured from the newest one, go.
InRetention(s) == {i \in DOMAIN s : s[i].ts + Keep >= NewestTs(s)}

\* Mutant: oldest first.
LastAscending(ids, n) == {i \in ids : Cardinality({j \in ids : j < i}) < n}

\* The n largest ids of a set (ORDER BY snapshot_id DESC LIMIT n).
Last(ids, n) == {i \in ids : Cardinality({j \in ids : j > i}) < n}

\* Frame bytes of the ids from i on.
BytesFrom(f, ids, i) == MapThenSumSet(LAMBDA j : f[j], {j \in ids : j >= i})

\* Mutant: the newest frame-bearing snapshot is evicted too when it is over the budget.
KeptFramesNone(f) ==
    LET recent == Last(DOMAIN f, FrameN)
    IN {i \in recent : BytesFrom(f, recent, i) <= FrameBudget}

\* _apply_frame_retention: frames for the latest FrameN frame-bearing snapshots, the oldest
\* of which go until the rest fits the budget or one is left.
KeptFrames(f) ==
    LET recent == Last(DOMAIN f, FrameN)
    IN {i \in recent : BytesFrom(f, recent, i) <= FrameBudget \/ i = Max(recent)}

\* Mutant: the slice of older snapshots starts one too early.
OlderFromNewest(s) ==
    {i \in DOMAIN s : Cardinality({j \in DOMAIN s : NewerIn(s, j, i)}) + 1 >= OppFullN}

\* _apply_opp_retention: the snapshots past the latest OppFullN, newest first.
Older(s) == {i \in DOMAIN s : Cardinality({j \in DOMAIN s : NewerIn(s, j, i)}) >= OppFullN}

\* Mutant: the counts are taken again from a snapshot that is already tiered.
TieredRecounted(snap) ==
    [snap EXCEPT !.counts = [b \in TierBuckets |-> CountIn(snap.rows, b)],
                 !.rows = [o \in Opps |-> IF @[o].bucket \in TierBuckets THEN NoRow ELSE @[o]]]

\* The rows of the tiered buckets are replaced by their counts; a bucket without rows
\* keeps the count it has.
Tiered(snap) ==
    [snap EXCEPT !.counts = [b \in TierBuckets |->
                                IF CountIn(snap.rows, b) > 0 THEN CountIn(snap.rows, b) ELSE @[b]],
                 !.rows = [o \in Opps |-> IF @[o].bucket \in TierBuckets THEN NoRow ELSE @[o]]]

\* frame_status
FrameStatus(id) ==
    LET recent == Last(DOMAIN frames, FrameN)
    IN CASE id \in DOMAIN frames -> "present"
         [] id \notin DOMAIN frames /\ recent # {} /\ id < Min(recent) -> "expired"
         [] OTHER -> "absent"

-----------------------------------------------------------------------------
(* write_snapshot *)

\* Mutant: a scan without frames is stored as one with an empty frame.
WithFramesEmpty(f, id, size) ==
    [i \in DOMAIN f \cup {id} |-> IF i = id THEN size ELSE f[i]]

\* `if frames:` -- no rows for a scan without frames.
WithFrames(f, id, size) ==
    IF size = 0 THEN f
    ELSE [i \in DOMAIN f \cup {id} |-> IF i = id THEN size ELSE f[i]]

\* First transaction: the snapshot, its rows, its frames and the backlog, all or nothing.
Write(ts, rows, size) ==
    /\ phase = "idle"
    /\ Len(hist) < MaxWrites
    /\ LET id == Len(hist) + 1 IN   \* AUTOINCREMENT: an id is never used again
        /\ snapshots' = [i \in DOMAIN snapshots \cup {id} |->
                            IF i = id THEN [ts |-> ts, rows |-> rows, counts |-> NoCounts]
                            ELSE snapshots[i]]
        /\ frames' = WithFrames(frames, id, size)
        /\ intervals' = Maintained(intervals, rows, ts, id)
    /\ hist' = Append(hist, [ts |-> ts, rows |-> rows, size |-> size])
    /\ phase' = "tidy"
    /\ tidied' = FALSE

\* Second transaction: the three tiers, in this order, all or nothing.
Tidy ==
    /\ phase = "tidy"
    /\ LET kept == [i \in InRetention(snapshots) |-> snapshots[i]]
           left == [i \in DOMAIN frames \cap DOMAIN kept |-> frames[i]]
       IN /\ frames' = [i \in KeptFrames(left) |-> left[i]]
          /\ snapshots' = [i \in DOMAIN kept |->
                            IF i \in Older(kept) THEN Tiered(kept[i]) ELSE kept[i]]
    /\ phase' = "idle"
    /\ tidied' = TRUE
    /\ UNCHANGED <<intervals, hist>>

\* The second transaction raised and rolled back, or the process died before it committed.
TidyLost ==
    /\ phase = "tidy"
    /\ phase' = "idle"
    /\ UNCHANGED <<snapshots, frames, intervals, tidied, hist>>

\* fetched_at is the wall clock at the trigger: it does not run backwards.
NextTs == (IF hist = <<>> THEN 0 ELSE hist[Len(hist)].ts)..MaxTs

Next ==
    \/ \E ts \in NextTs, scan \in Scans : Write(ts, scan.rows, scan.size)
    \/ Tidy
    \/ TidyLost

Spec == StoreInit /\ [][Next]_vars

-----------------------------------------------------------------------------
(* what the store is for *)

StoreTypeOK ==
    /\ DOMAIN snapshots \subseteq 1..Len(hist)
    /\ \A i \in DOMAIN snapshots :
        snapshots[i] \in [ts: 0..MaxTs, rows: Rows, counts: [TierBuckets -> 0..Cardinality(Opps)]]
    /\ DOMAIN frames \subseteq DOMAIN snapshots
    /\ \A i \in DOMAIN frames : frames[i] \in Nat \ {0}
    /\ intervals \subseteq Interval
    /\ phase \in {"idle", "tidy"} /\ tidied \in BOOLEAN
    /\ \A i \in 1..Len(hist) : hist[i] \in [ts: 0..MaxTs, rows: Rows, size: Nat]

\* What the read endpoints serve never goes back: the latest stored snapshot is the one
\* written last, whole, whatever retention has dropped or tiered around it
\* (store.py:452-455, "store.latest() is NEVER affected").
LatestSurvives ==
    hist # <<>> =>
        LET id == LatestOf(snapshots) IN
        /\ id = Len(hist)
        /\ snapshots[id].rows = hist[id].rows

\* The evidence of the latest snapshot is there when it was captured: neither the count
\* nor the byte budget of the frame tier evicts the newest one.
LatestEvidenceKept ==
    hist # <<>> /\ hist[Len(hist)].size > 0 => FrameStatus(LatestOf(snapshots)) = "present"

\* The tiers lose nothing they do not account for: in every stored snapshot the rows of
\* the other buckets are as written, and for a tiered bucket the rows that are left and
\* the count in the metadata come to the rows that were written, however often and after
\* whatever failures the tier ran.
RowsAccounted ==
    \A i \in DOMAIN snapshots :
        LET now == snapshots[i].rows
            was == hist[i].rows
        IN /\ \A o \in Opps : was[o].bucket \notin TierBuckets => now[o] = was[o]
           /\ \A b \in TierBuckets : CountIn(now, b) + snapshots[i].counts[b] = CountIn(was, b)

\* frame_status is honest about eviction: evidence that was captured for a stored snapshot
\* and is gone is reported as expired, never as "never captured".
EvictedIsExpired ==
    \A i \in DOMAIN snapshots :
        hist[i].size > 0 /\ i \notin DOMAIN frames => FrameStatus(i) = "expired"

\* A second transaction that gets through catches up with every one that was lost before
\* it: the store is back within its time, count and byte limits.
TidyCatchesUp ==
    tidied =>
        /\ \A i \in DOMAIN snapshots : snapshots[i].ts + Keep >= hist[Len(hist)].ts
        /\ Cardinality(DOMAIN frames) <= FrameN
        /\ Cardinality(DOMAIN frames) > 1 =>
                MapThenSumSet(LAMBDA i : frames[i], DOMAIN frames) <= FrameBudget
        /\ \A i \in Older(snapshots) : \A o \in Opps :
                snapshots[i].rows[o].bucket \notin TierBuckets

-----------------------------------------------------------------------------
(* The backlog against its definition.  A lifecycle is a maximal run of
   consecutive snapshots in which an opportunity is in a category.  *)

InCat(i, opp, cat) == i \in 1..Len(hist) /\ IsTracked(hist[i].rows, opp, cat)

IsLifecycle(i, j, opp, cat) ==
    /\ i <= j
    /\ \A k \in i..j : InCat(k, opp, cat)
    /\ ~InCat(i - 1, opp, cat)
    /\ ~InCat(j + 1, opp, cat)

LifecycleInterval(i, j, opp, cat) ==
    [opp |-> opp, cat |-> cat, born |-> i,
     first |-> hist[i].ts,
     last |-> hist[j].ts,
     left |-> IF j = Len(hist) THEN Open ELSE hist[j + 1].ts,
     bucket |-> hist[j].rows[opp].bucket,
     peak |-> Max({hist[k].rows[opp].roi : k \in i..j})]

\* The table maintained snapshot by snapshot is the set of the lifecycles of the whole
\* history of scans, one interval for each ("distinct lifecycles never merge",
\* store.py:604-608), without those closed longer than the retention before the newest
\* scan -- although most of that history is long gone from the store.
BacklogIsHistory ==
    intervals =
        UNION {UNION {UNION {
            {v \in {LifecycleInterval(i, j, o, c) :
                        j \in {k \in i..Len(hist) : IsLifecycle(i, k, o, c)}} :
                v.left = Open \/ v.left + BacklogKeep >= hist[Len(hist)].ts} :
            c \in {"actionable", "bounded_loss"}} : o \in Opps} : i \in 1..Len(hist)}
=============================================================================
