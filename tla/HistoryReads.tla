---------------------------- MODULE HistoryReads ----------------------------
(***************************************************************************)
(* The reads that span several snapshots (store.py) and what lifecycle.py  *)
(* makes of them, while a scan is written and retained.  Every statement   *)
(* of a read sees the tables as they are at that moment: the window is     *)
(* measured in one, the snapshots are listed in the next, the rows of each *)
(* are read in others, and the backlog then asks for the current rows.     *)
(***************************************************************************)
EXTENDS SnapshotStore

CONSTANTS Windows,     \* the windows a reader may ask for
          Persist,     \* how long an opportunity counts as new
          ReadFrom,    \* bound: a read begins after so many scans (with none it returns at once)
          ReadTo       \* bound: and sees no more than so many

ASSUME ReadsAssumption ==
  Windows \subseteq Nat /\ {Persist, ReadTo} \subseteq Nat /\ ReadFrom \in Nat \ {0}

VARIABLE reader        \* the read under way
readVars == <<snapshots, frames, intervals, phase, tidied, hist, reader>>

NoRead == [step |-> "none", kind |-> "none", window |-> 0, newest |-> 0, upto |-> 0,
           ids |-> {}, rows |-> <<>>, sid |-> 0, current |-> <<>>]

ActionableIn(rows) == {o \in Opps : rows[o].bucket = "actionable"}
\* A snapshot that is gone has no rows.
StoredRows(id) == IF id \in DOMAIN snapshots THEN snapshots[id].rows ELSE [o \in Opps |-> NoRow]

-----------------------------------------------------------------------------
(* lifecycle.py, over snapshots [ts, live] by id: when each was fetched and *)
(* what was actionable in it.                                               *)

LatestIn(snaps) == snaps[Max(DOMAIN snaps)]
SeenIn(snaps, o) == {i \in DOMAIN snaps : o \in snaps[i].live}

\* new_actionable over [prev, cur]: nothing is new on the first load.
NewActionable(snaps) ==
  IF Cardinality(DOMAIN snaps) < 2 THEN {} ELSE LatestIn(snaps).live \ snaps[Min(DOMAIN snaps)].live

\* persisting_new_actionable, first_seen: actionable now, and first so not long ago.
PersistingNew(snaps, window) ==
  {o \in LatestIn(snaps).live : LatestIn(snaps).ts - snaps[Min(SeenIn(snaps, o))].ts <= window}

\* _recently_actionable_core: actionable once in the window and not at its end; it left with
\* the first snapshot after the last that had it.
RecentlyActionable(snaps) ==
  {LET last == snaps[Max(SeenIn(snaps, o))].ts
       later == {snaps[i].ts : i \in DOMAIN snaps} \ 0 .. last
   IN [opp |-> o, became |-> snaps[Min(SeenIn(snaps, o))].ts, lastTs |-> last,
       left |-> IF later = {} THEN last ELSE Min(later)]
     : o \in (UNION {snaps[i].live : i \in DOMAIN snaps}) \ LatestIn(snaps).live}

-----------------------------------------------------------------------------
(* The statements of a read.                                                *)

\* snapshots_since, actionable_history_since: first the newest time.
Begin(kind, window) ==
  /\ reader = NoRead /\ Len(hist) = ReadFrom
  /\ reader' = [NoRead EXCEPT !.step = "list", !.kind = kind, !.window = window,
                              !.newest = NewestTs(snapshots)]
  /\ UNCHANGED vars

Since(s, cutoff) == {i \in DOMAIN s : s[i].ts + reader.window >= cutoff}
NewestTwo(s) == {i \in DOMAIN s : Cardinality({j \in DOMAIN s : NewerIn(s, j, i)}) < 2}
Asked(s) == IF reader.kind = "pair" THEN NewestTwo(s) ELSE Since(s, reader.newest)

\* Mutant: an older snapshot in which nothing is actionable is left out.
ListActionable ==
  /\ reader.step = "list"
  /\ reader' = [reader EXCEPT !.step = "rows", !.upto = Len(hist),
                  !.ids = {i \in Asked(snapshots) :
                             ActionableIn(snapshots[i].rows) # {} \/ i = LatestOf(snapshots)}]
  /\ UNCHANGED vars

\* Then the snapshots of the window, the newest always among them; latest_two takes two
\* without asking for a time.
List ==
  /\ reader.step = "list"
  /\ reader' = [reader EXCEPT !.step = "rows", !.upto = Len(hist), !.ids = Asked(snapshots)]
  /\ UNCHANGED vars

\* _load, _load_actionable: the rows of one listed snapshot after the other.
ReadRows ==
  LET left == reader.ids \ DOMAIN reader.rows
      id == IF reader.kind = "pair" THEN Max(left) ELSE Min(left)
      after == IF reader.kind = "backlog" THEN "resolve" ELSE "done"
  IN /\ reader.step = "rows"
     /\ reader' = [reader EXCEPT !.rows = [i \in DOMAIN @ \cup {id} |->
                                            IF i = id THEN ActionableIn(StoredRows(id)) ELSE @[i]],
                                 !.step = IF left = {id} THEN after ELSE @]
     /\ UNCHANGED vars

\* latest_rows_by_id: the latest snapshot is resolved once, its rows are read afterwards.
Resolve ==
  /\ reader.step = "resolve"
  /\ reader' = [reader EXCEPT !.step = "current", !.sid = LatestOf(snapshots)]
  /\ UNCHANGED vars

ReadCurrent ==
  /\ reader.step = "current"
  /\ reader' = [reader EXCEPT !.step = "done", !.current = StoredRows(reader.sid)]
  /\ UNCHANGED vars

\* engine.backlog, engine.alerts
ReaderStep ==
  \/ \E w \in Windows : Begin("backlog", w)
  \/ Begin("persist", Keep)
  \/ Begin("pair", 0)
  \/ List \/ ReadRows \/ Resolve \/ ReadCurrent

\* One read in a behaviour; what is written after it does not matter to it.
StoreStep ==
  /\ reader.step # "done" /\ Next
  /\ reader = NoRead \/ Len(hist') <= ReadTo
  /\ UNCHANGED reader

ReadInit == StoreInit /\ reader = NoRead
ReadNext == StoreStep \/ ReaderStep
ReadSpec == ReadInit /\ [][ReadNext]_readVars

-----------------------------------------------------------------------------
\* What the read saw, and the complete history of its window.
Listed == [i \in reader.ids |-> [ts |-> hist[i].ts, live |-> reader.rows[i]]]
History == [i \in Asked(SubSeq(hist, 1, reader.upto)) |->
              [ts |-> hist[i].ts, live |-> ActionableIn(hist[i].rows)]]

Answer(snaps) ==
  CASE reader.kind = "backlog" -> RecentlyActionable(snaps)
    [] reader.kind = "persist" -> PersistingNew(snaps, Persist)
    [] reader.kind = "pair" -> NewActionable(snaps)

(* A read torn by a scan still tells the truth about the scans that were made: *)
(* while retention does not reach into its window, the backlog and the alerts  *)
(* are those of the complete history of the window, although its snapshots     *)
(* were tiered and thinned while they were read.  What the backlog shows as    *)
(* the present is one scan, blended with no other, and none older than those   *)
(* (engine.py:73-77, store.py:880-886, 929-932).                               *)
ReadsAreHistory ==
  /\ reader.step = "done"
  /\ \A i \in DOMAIN History : hist[i].ts + Keep >= hist[Len(hist)].ts
  => /\ Answer(Listed) = Answer(History)
     /\ reader.kind = "backlog" =>
          /\ reader.sid >= Max(DOMAIN History)
          /\ \A o \in Opps :
               LET was == hist[reader.sid].rows[o]
               IN reader.current[o] \in {was} \cup IF was.bucket \in TierBuckets THEN {NoRow} ELSE {}
=============================================================================
