------------------------- MODULE SnapshotStoreProofs -------------------------
(***************************************************************************)
(* The store, for every set of opportunities, every sequence of scan       *)
(* results and every setting of the retention tiers, however often the     *)
(* second transaction is lost: the latest snapshot stays whole and keeps   *)
(* its evidence, what the tiers drop is accounted for, the store catches   *)
(* up with its limits, the backlog is the history's, and a read tells it.  *)
(***************************************************************************)
EXTENDS HistoryReads, SetFacts, FiniteSetTheorems, TLAPS

Written == [ts: Nat, rows: Rows, size: Nat]
Stored == [ts: Nat, rows: Rows, counts: [TierBuckets -> Nat]]

StoredTypeOK ==
    /\ hist \in Seq(Written)
    /\ DOMAIN snapshots \subseteq 1..Len(hist)
    /\ \A i \in DOMAIN snapshots : snapshots[i] \in Stored
    /\ DOMAIN frames \subseteq DOMAIN snapshots

\* Scans are written in the order of their times, and a stored snapshot has its own.
TimesInOrder ==
    /\ \A i, j \in 1..Len(hist) : i <= j => hist[i].ts <= hist[j].ts
    /\ \A i \in DOMAIN snapshots : snapshots[i].ts = hist[i].ts

\* The last snapshot written is there, with its rows and the frames it came with.
LastWhole ==
    hist # <<>> =>
        /\ Len(hist) \in DOMAIN snapshots
        /\ snapshots[Len(hist)].rows = hist[Len(hist)].rows
        /\ hist[Len(hist)].size > 0 => Len(hist) \in DOMAIN frames

\* A snapshot that has a count for a bucket has no rows in it, so that running the tier
\* again does not count anew.
CountedOnce ==
    \A i \in DOMAIN snapshots, b \in TierBuckets :
        CountIn(snapshots[i].rows, b) = 0 \/ snapshots[i].counts[b] = 0

StoreInv == StoredTypeOK /\ TimesInOrder /\ LastWhole /\ CountedOnce /\ RowsAccounted

-----------------------------------------------------------------------------
\* The rows of a bucket are as many as a natural number says, and none when there is none.
LEMMA CountInNat == \A rows, b : CountIn(rows, b) \in Nat
<1> SUFFICES ASSUME NEW rows, NEW b PROVE CountIn(rows, b) \in Nat OBVIOUS
<1> DEFINE S == {o \in Opps : rows[o].bucket = b}
<1>1. IsFiniteSet(S)
  BY StoreConstants, FS_Subset
<1>2. QED BY <1>1, FS_CardinalityType DEF CountIn

\* Rows none of which is in a bucket count as none of it.
LEMMA CountInNone ==
    ASSUME NEW rows, NEW b, \A o \in Opps : rows[o].bucket # b
    PROVE  CountIn(rows, b) = 0
<1>1. {o \in Opps : rows[o].bucket = b} = {}
  OBVIOUS
<1>2. QED BY <1>1, FS_EmptySet DEF CountIn

\* Max is the largest element.
LEMMA MaxIs == ASSUME NEW S \in SUBSET Nat, NEW m \in S, \A x \in S : x <= m PROVE Max(S) = m
<1>1. \A x \in S : (\A y \in S : x >= y) <=> x = m
  <2> SUFFICES ASSUME NEW x \in S PROVE (\A y \in S : x >= y) <=> x = m OBVIOUS
  <2>1. x \in Nat /\ m \in Nat /\ x <= m /\ \A y \in S : y \in Nat /\ y <= m
    OBVIOUS
  <2>2. QED BY <2>1
<1>2. (CHOOSE x \in S : \A y \in S : x >= y) = m
  BY <1>1
<1>3. QED BY <1>2 DEF Max

\* What was written has the types of a scan result.
LEMMA WrittenTypes ==
    ASSUME hist \in Seq(Written)
    PROVE  /\ Len(hist) \in Nat /\ (hist # <<>> => Len(hist) \in 1..Len(hist))
           /\ \A i \in 1..Len(hist) : /\ hist[i] \in Written /\ hist[i].ts \in Nat
                                      /\ hist[i].rows \in Rows /\ hist[i].size \in Nat
<1>1. Len(hist) \in Nat /\ (hist # <<>> => Len(hist) \in 1..Len(hist))
      /\ \A i \in 1..Len(hist) : hist[i] \in Written
  OBVIOUS
<1>2. \A w \in Written : w.ts \in Nat /\ w.rows \in Rows /\ w.size \in Nat
  BY DEF Written
<1>3. QED BY <1>1, <1>2

\* The newest time, and the latest snapshot, are those of the last one written.
LEMMA NewestIsLast ==
    ASSUME StoredTypeOK, TimesInOrder, LastWhole, hist # <<>>
    PROVE  NewestTs(snapshots) = hist[Len(hist)].ts /\ LatestOf(snapshots) = Len(hist)
<1> DEFINE n == Len(hist)
<1>1. n \in DOMAIN snapshots /\ n \in Nat /\ n \in 1..n /\ DOMAIN snapshots \subseteq 1..n
  BY DEF StoredTypeOK, LastWhole
<1>2. \A i \in 1..n : hist[i].ts \in Nat
  BY WrittenTypes DEF StoredTypeOK
<1>3. \A i \in DOMAIN snapshots : snapshots[i].ts = hist[i].ts /\ snapshots[i].ts <= snapshots[n].ts
                                  /\ snapshots[i].ts \in Nat /\ i <= n /\ i \in Nat
  BY <1>1, <1>2 DEF TimesInOrder
<1> HIDE DEF n
<1>4. NewestTs(snapshots) = snapshots[n].ts
  <2> DEFINE T == {snapshots[i].ts : i \in DOMAIN snapshots}
  <2>1. T \in SUBSET Nat /\ snapshots[n].ts \in T /\ \A x \in T : x <= snapshots[n].ts
    BY <1>1, <1>3
  <2> HIDE DEF T
  <2>2. Max(T) = snapshots[n].ts
    BY <2>1, MaxIs
  <2>3. QED BY <2>2 DEF T, NewestTs
<1>5. \A i \in DOMAIN snapshots \ {n} : NewerIn(snapshots, n, i) /\ ~NewerIn(snapshots, i, n)
  BY <1>1, <1>3 DEF NewerIn
<1>6. LatestOf(snapshots) = n
  <2>1. \A i \in DOMAIN snapshots :
          (\A j \in DOMAIN snapshots \ {i} : NewerIn(snapshots, i, j)) <=> i = n
    BY <1>1, <1>5
  <2>2. (CHOOSE i \in DOMAIN snapshots : \A j \in DOMAIN snapshots \ {i} : NewerIn(snapshots, i, j)) = n
    BY <1>1, <2>1
  <2>3. DOMAIN snapshots # {}
    BY <1>1
  <2>4. QED BY <2>2, <2>3 DEF LatestOf
<1>7. QED BY <1>1, <1>3, <1>4, <1>6 DEF n

\* The tier replaces the rows of a bucket by their count, once.
LEMMA TieredAccounts ==
    ASSUME NEW snap \in Stored, NEW was \in Rows,
           \A b \in TierBuckets : CountIn(snap.rows, b) = 0 \/ snap.counts[b] = 0,
           \A b \in TierBuckets : CountIn(snap.rows, b) + snap.counts[b] = CountIn(was, b),
           \A o \in Opps : was[o].bucket \notin TierBuckets => snap.rows[o] = was[o]
    PROVE  /\ Tiered(snap) \in Stored /\ Tiered(snap).ts = snap.ts
           /\ \A o \in Opps : was[o].bucket \notin TierBuckets => Tiered(snap).rows[o] = was[o]
           /\ \A b \in TierBuckets :
                /\ CountIn(Tiered(snap).rows, b) = 0
                /\ CountIn(Tiered(snap).rows, b) + Tiered(snap).counts[b] = CountIn(was, b)
<1> DEFINE rows == [o \in Opps |-> IF snap.rows[o].bucket \in TierBuckets THEN NoRow ELSE snap.rows[o]]
           counts == [b \in TierBuckets |-> IF CountIn(snap.rows, b) > 0 THEN CountIn(snap.rows, b)
                                                                        ELSE snap.counts[b]]
<1>1. Tiered(snap) = [snap EXCEPT !.counts = counts, !.rows = rows]
  BY DEF Tiered
<1>2. snap.rows \in Rows /\ snap.counts \in [TierBuckets -> Nat] /\ snap.ts \in Nat
  BY DEF Stored
<1>3. rows \in Rows
  BY <1>2 DEF Rows
<1>4. counts \in [TierBuckets -> Nat]
  BY <1>2, CountInNat
<1>5. ASSUME NEW b \in TierBuckets PROVE CountIn(rows, b) = 0 /\ CountIn(rows, b) + counts[b] = CountIn(was, b)
  <2>1. \A o \in Opps : rows[o].bucket # b
    BY <1>5 DEF NoRow, TierBuckets
  <2>2. CountIn(rows, b) = 0
    <3> HIDE DEF rows
    <3>1. QED BY <2>1, CountInNone
  <2>3. counts[b] = CountIn(was, b)
    <3>1. /\ CountIn(snap.rows, b) \in Nat /\ snap.counts[b] \in Nat
          /\ counts[b] = IF CountIn(snap.rows, b) > 0 THEN CountIn(snap.rows, b) ELSE snap.counts[b]
      BY <1>2, CountInNat
    <3> HIDE DEF counts
    <3>2. QED BY <3>1
  <2> HIDE DEF rows, counts
  <2>4. QED BY <2>2, <2>3, CountInNat
<1>6. \A o \in Opps : was[o].bucket \notin TierBuckets => rows[o] = was[o]
  OBVIOUS
<1> HIDE DEF rows, counts
<1>7. /\ Tiered(snap) \in Stored /\ Tiered(snap).ts = snap.ts
      /\ Tiered(snap).rows = rows /\ Tiered(snap).counts = counts
  BY <1>1, <1>2, <1>3, <1>4 DEF Stored
<1>8. QED BY <1>5, <1>6, <1>7

\* Nothing is stored, and nothing promised.
LEMMA InitStoreInv == StoreInit => StoreInv
BY DEF StoreInit, StoreInv, StoredTypeOK, TimesInOrder, LastWhole, CountedOnce, RowsAccounted

\* The first transaction puts the snapshot behind all others, whole.
LEMMA WriteInv ==
    ASSUME StoreInv, NEW ts \in NextTs, NEW scan \in Scans, Write(ts, scan.rows, scan.size)
    PROVE  StoreInv'
<1> DEFINE id == Len(hist) + 1
           new == [ts |-> ts, rows |-> scan.rows, size |-> scan.size]
           snap == [ts |-> ts, rows |-> scan.rows, counts |-> NoCounts]
<1>1. hist \in Seq(Written) /\ Len(hist) \in Nat
  BY DEF StoreInv, StoredTypeOK
<1>2. scan.rows \in Rows /\ scan.size \in Nat
  BY ScansAreResults
<1>3. ts \in Nat /\ \A i \in 1..Len(hist) : hist[i].ts <= ts
  <2>1. MaxTs \in Nat
    BY StoreConstants
  <2>2. CASE hist = <<>>
    BY <2>1, <2>2 DEF NextTs
  <2>3. CASE hist # <<>>
    <3>1. Len(hist) \in 1..Len(hist) /\ \A i \in 1..Len(hist) : hist[i].ts \in Nat
      BY <1>1, <2>3, WrittenTypes
    <3>2. ts \in hist[Len(hist)].ts .. MaxTs
      BY <2>3 DEF NextTs
    <3>3. ts \in Nat /\ hist[Len(hist)].ts <= ts
      BY <2>1, <3>1, <3>2
    <3>4. \A i \in 1..Len(hist) : hist[i].ts <= hist[Len(hist)].ts
      BY <1>1, <3>1 DEF StoreInv, TimesInOrder
    <3>5. QED BY <3>1, <3>3, <3>4
  <2>4. QED BY <2>2, <2>3
<1>4. new \in Written /\ new.ts = ts /\ new.rows = scan.rows /\ new.size = scan.size
  BY <1>2, <1>3 DEF Written
<1>5. /\ snap \in Stored /\ snap.ts = ts /\ snap.rows = scan.rows
      /\ \A b \in TierBuckets : snap.counts[b] = 0
  BY <1>2, <1>3 DEF Stored, NoCounts
<1>6. /\ hist' = Append(hist, new)
      /\ snapshots' = [i \in DOMAIN snapshots \cup {id} |-> IF i = id THEN snap ELSE snapshots[i]]
      /\ frames' = WithFrames(frames, id, scan.size)
  BY DEF Write
<1> HIDE DEF new, snap
<1>7. /\ hist' \in Seq(Written) /\ Len(hist') = id /\ hist' # <<>>
      /\ hist'[id] = new /\ \A i \in 1..Len(hist) : hist'[i] = hist[i]
  BY <1>1, <1>4, <1>6
<1>8. /\ DOMAIN snapshots' = DOMAIN snapshots \cup {id} /\ snapshots'[id] = snap
      /\ DOMAIN snapshots \subseteq 1..Len(hist)
      /\ \A i \in DOMAIN snapshots : i # id /\ snapshots'[i] = snapshots[i] /\ hist'[i] = hist[i]
  <2>1. DOMAIN snapshots \subseteq 1..Len(hist)
    BY DEF StoreInv, StoredTypeOK
  <2>2. \A i \in DOMAIN snapshots : i # id
    BY <1>1, <2>1
  <2>3. QED BY <1>6, <1>7, <2>1, <2>2
<1>9. DOMAIN frames' \subseteq DOMAIN frames \cup {id} /\ (scan.size > 0 => id \in DOMAIN frames')
  BY <1>2, <1>6 DEF WithFrames
<1>10. StoredTypeOK'
  <2>1. DOMAIN frames' \subseteq DOMAIN snapshots'
    BY <1>8, <1>9 DEF StoreInv, StoredTypeOK
  <2>2. \A i \in DOMAIN snapshots' : snapshots'[i] \in Stored
    BY <1>5, <1>8 DEF StoreInv, StoredTypeOK
  <2>3. DOMAIN snapshots' \subseteq 1..Len(hist')
    BY <1>1, <1>7, <1>8
  <2>4. QED BY <1>7, <2>1, <2>2, <2>3 DEF StoredTypeOK
<1>11. TimesInOrder'
  <2>1. ASSUME NEW i \in 1..id, NEW j \in 1..id, i <= j PROVE hist'[i].ts <= hist'[j].ts
    <3>1. CASE j = id
      <4>1. i = id \/ i \in 1..Len(hist)
        BY <1>1
      <4>2. QED BY <1>3, <1>4, <1>7, <3>1, <4>1
    <3>2. CASE j # id
      <4>1. i \in 1..Len(hist) /\ j \in 1..Len(hist)
        BY <1>1, <2>1, <3>2
      <4>2. QED BY <1>7, <2>1, <4>1 DEF StoreInv, TimesInOrder
    <3>3. QED BY <3>1, <3>2
  <2>2. \A i \in DOMAIN snapshots' : snapshots'[i].ts = hist'[i].ts
    BY <1>4, <1>5, <1>7, <1>8 DEF StoreInv, TimesInOrder
  <2>3. QED BY <1>7, <2>1, <2>2 DEF TimesInOrder
<1>12. LastWhole'
  BY <1>4, <1>5, <1>7, <1>8, <1>9 DEF LastWhole
<1>13. CountedOnce'
  BY <1>5, <1>8 DEF StoreInv, CountedOnce
<1>14. RowsAccounted'
  <2> SUFFICES ASSUME NEW i \in DOMAIN snapshots'
               PROVE  /\ \A o \in Opps : hist'[i].rows[o].bucket \notin TierBuckets =>
                            snapshots'[i].rows[o] = hist'[i].rows[o]
                      /\ \A b \in TierBuckets : CountIn(snapshots'[i].rows, b) + snapshots'[i].counts[b]
                                                  = CountIn(hist'[i].rows, b)
    BY DEF RowsAccounted
  <2>1. CASE i = id
    BY <1>4, <1>5, <1>7, <1>8, <2>1, CountInNat
  <2>2. CASE i # id
    <3>1. i \in DOMAIN snapshots /\ snapshots'[i] = snapshots[i] /\ hist'[i] = hist[i]
      BY <1>8, <2>2
    <3>2. QED BY <3>1 DEF StoreInv, RowsAccounted
  <2>3. QED BY <2>1, <2>2
<1>15. QED BY <1>10, <1>11, <1>12, <1>13, <1>14 DEF StoreInv

\* The tiers drop and thin other snapshots than the last one written.
LEMMA TidyInv == StoreInv /\ Tidy => StoreInv'
<1> SUFFICES ASSUME StoreInv, Tidy PROVE StoreInv' OBVIOUS
<1> DEFINE n == Len(hist)
           kept == [i \in InRetention(snapshots) |-> snapshots[i]]
           left == [i \in DOMAIN frames \cap DOMAIN kept |-> frames[i]]
<1>1. /\ hist' = hist /\ hist \in Seq(Written) /\ n \in Nat
      /\ snapshots' = [i \in DOMAIN kept |-> IF i \in Older(kept) THEN Tiered(kept[i]) ELSE kept[i]]
      /\ frames' = [i \in KeptFrames(left) |-> left[i]]
  BY DEF Tidy, StoreInv, StoredTypeOK
<1>2. /\ DOMAIN kept \subseteq DOMAIN snapshots /\ DOMAIN snapshots \subseteq 1..n
      /\ \A i \in DOMAIN kept : kept[i] = snapshots[i]
      /\ DOMAIN left \subseteq DOMAIN kept /\ DOMAIN left \subseteq 1..n
  BY DEF InRetention, StoreInv, StoredTypeOK
<1>3. KeptFrames(left) \subseteq DOMAIN left
  BY DEF KeptFrames, Last
<1>4. ASSUME hist # <<>> PROVE n \in DOMAIN kept /\ n \notin Older(kept)
  <2>1. n \in DOMAIN snapshots /\ n \in 1..n
    BY <1>1, <1>4 DEF StoreInv, LastWhole, StoredTypeOK
  <2>2. \A i \in DOMAIN snapshots : snapshots[i].ts \in Nat /\ snapshots[i].ts <= snapshots[n].ts /\ i <= n /\ i \in Nat
    <3>1. \A i \in DOMAIN snapshots : i \in 1..n /\ snapshots[i].ts \in Nat
      BY <1>2 DEF StoreInv, StoredTypeOK, Stored
    <3>2. QED BY <1>1, <2>1, <3>1 DEF StoreInv, TimesInOrder
  <2>3. NewestTs(snapshots) = snapshots[n].ts
    BY <1>4, <2>1, NewestIsLast DEF StoreInv, TimesInOrder
  <2>4. n \in DOMAIN kept
    BY <2>1, <2>2, <2>3, StoreConstants DEF InRetention
  <2>5. {j \in DOMAIN kept : NewerIn(kept, j, n)} = {}
    <3> SUFFICES ASSUME NEW j \in DOMAIN kept, NewerIn(kept, j, n) PROVE FALSE OBVIOUS
    <3>1. kept[j] = snapshots[j] /\ kept[n] = snapshots[n] /\ j \in DOMAIN snapshots
      BY <1>2, <2>4
    <3> HIDE DEF kept
    <3>2. QED BY <2>1, <2>2, <3>1 DEF NewerIn
  <2> HIDE DEF kept
  <2>6. n \notin Older(kept)
    <3>1. Cardinality({j \in DOMAIN kept : NewerIn(kept, j, n)}) = 0
      BY <2>5, FS_EmptySet
    <3>2. ~(0 >= OppFullN)
      BY StoreConstants
    <3>3. QED BY <3>1, <3>2 DEF Older
  <2>7. QED BY <2>4, <2>6
<1>5. ASSUME hist # <<>>, n \in DOMAIN frames PROVE n \in KeptFrames(left)
  <2>1. n \in DOMAIN left /\ \A j \in DOMAIN left : j <= n /\ j \in Nat
    BY <1>1, <1>2, <1>4, <1>5
  <2> HIDE DEF kept, left
  <2>2. {j \in DOMAIN left : j > n} = {}
    BY <1>1, <2>1
  <2>3. n \in Last(DOMAIN left, FrameN)
    <3>1. Cardinality({j \in DOMAIN left : j > n}) = 0
      BY <2>2, FS_EmptySet
    <3>2. 0 < FrameN
      BY StoreConstants
    <3>3. QED BY <2>1, <3>1, <3>2 DEF Last
  <2>4. Last(DOMAIN left, FrameN) \in SUBSET Nat /\ \A j \in Last(DOMAIN left, FrameN) : j <= n
    BY <2>1 DEF Last
  <2>5. Max(Last(DOMAIN left, FrameN)) = n
    BY <2>3, <2>4, MaxIs
  <2>6. QED BY <2>3, <2>5 DEF KeptFrames
<1>6. /\ DOMAIN snapshots' = DOMAIN kept /\ DOMAIN frames' = KeptFrames(left)
      /\ \A i \in DOMAIN kept : snapshots'[i] \in {snapshots[i], Tiered(snapshots[i])}
      /\ \A i \in DOMAIN kept : i \notin Older(kept) => snapshots'[i] = snapshots[i]
  <2> HIDE DEF kept, left
  <2>1. QED BY <1>1, <1>2
<1> HIDE DEF kept, left
<1>7. ASSUME NEW i \in DOMAIN snapshots'
      PROVE  /\ snapshots'[i] \in Stored /\ snapshots'[i].ts = snapshots[i].ts
             /\ \A o \in Opps : hist[i].rows[o].bucket \notin TierBuckets => snapshots'[i].rows[o] = hist[i].rows[o]
             /\ \A b \in TierBuckets :
                  /\ CountIn(snapshots'[i].rows, b) = 0 \/ snapshots'[i].counts[b] = 0
                  /\ CountIn(snapshots'[i].rows, b) + snapshots'[i].counts[b] = CountIn(hist[i].rows, b)
  <2>1. /\ i \in DOMAIN snapshots /\ i \in 1..n /\ snapshots[i] \in Stored
        /\ snapshots'[i] \in {snapshots[i], Tiered(snapshots[i])}
    BY <1>2, <1>6 DEF StoreInv, StoredTypeOK
  <2>2. hist[i].rows \in Rows
    BY <1>1, <2>1, WrittenTypes
  <2>3. /\ \A o \in Opps : hist[i].rows[o].bucket \notin TierBuckets => snapshots[i].rows[o] = hist[i].rows[o]
        /\ \A b \in TierBuckets :
             /\ CountIn(snapshots[i].rows, b) = 0 \/ snapshots[i].counts[b] = 0
             /\ CountIn(snapshots[i].rows, b) + snapshots[i].counts[b] = CountIn(hist[i].rows, b)
    BY <2>1 DEF StoreInv, CountedOnce, RowsAccounted
  <2>4. CASE snapshots'[i] = snapshots[i]
    BY <2>1, <2>3, <2>4
  <2>5. CASE snapshots'[i] = Tiered(snapshots[i])
    BY <2>1, <2>2, <2>3, <2>5, TieredAccounts
  <2>6. QED BY <2>1, <2>4, <2>5
<1>8. StoredTypeOK'
  BY <1>1, <1>2, <1>3, <1>6, <1>7 DEF StoredTypeOK
<1>9. TimesInOrder'
  BY <1>1, <1>2, <1>6, <1>7 DEF StoreInv, TimesInOrder
<1>10. LastWhole'
  BY <1>1, <1>4, <1>5, <1>6 DEF StoreInv, LastWhole
<1>11. CountedOnce' /\ RowsAccounted'
  BY <1>1, <1>7 DEF CountedOnce, RowsAccounted
<1>12. QED BY <1>8, <1>9, <1>10, <1>11 DEF StoreInv

-----------------------------------------------------------------------------
\* Whatever is written and whichever second transactions are lost, the store agrees with
\* what was ever written.
THEOREM StoreInvariance == Spec => []StoreInv
<1>1. StoreInit => StoreInv
  BY InitStoreInv
<1>2. StoreInv /\ [Next]_vars => StoreInv'
  <2> SUFFICES ASSUME StoreInv, [Next]_vars PROVE StoreInv' OBVIOUS
  <2>1. CASE TidyLost \/ UNCHANGED vars
    BY <2>1 DEF TidyLost, vars, StoreInv, StoredTypeOK, TimesInOrder, LastWhole, CountedOnce, RowsAccounted
  <2>2. QED BY <2>1, WriteInv, TidyInv DEF Next
<1>3. QED BY <1>1, <1>2, PTL DEF Spec

\* LatestSurvives: what the read endpoints serve is the snapshot written last, whole
\* (store.latest under the three tiers).
THEOREM LatestSurvivesHolds == Spec => []LatestSurvives
<1>1. StoreInv => LatestSurvives
  BY NewestIsLast DEF StoreInv, LastWhole, LatestSurvives
<1>2. QED BY <1>1, StoreInvariance, PTL

\* LatestEvidenceKept: the evidence of the latest snapshot is never evicted.
THEOREM LatestEvidenceKeptHolds == Spec => []LatestEvidenceKept
<1>1. StoreInv => LatestEvidenceKept
  BY NewestIsLast DEF StoreInv, LastWhole, LatestEvidenceKept, FrameStatus
<1>2. QED BY <1>1, StoreInvariance, PTL

\* RowsAccounted: rows and counts of a stored snapshot come to the rows that were written.
THEOREM RowsAccountedHolds == Spec => []RowsAccounted
<1>1. StoreInv => RowsAccounted
  BY DEF StoreInv
<1>2. QED BY <1>1, StoreInvariance, PTL

-----------------------------------------------------------------------------
(* The tidy-up transaction brings the store within its limits, and what is  *)
(* no longer stored has aged out or was evicted from the oldest frame on.   *)
\* The frames that are there are those that were written, and have a size.
FramesAsWritten == \A i \in DOMAIN frames : frames[i] \in Nat \ {0} /\ frames[i] = hist[i].size

\* Frames go from the oldest on: where some are gone, later ones are left.
OldestGoFirst ==
    \A i \in DOMAIN snapshots :
        hist[i].size > 0 /\ i \notin DOMAIN frames =>
            DOMAIN frames # {} /\ \A j \in DOMAIN frames : i < j

\* TidyCatchesUp, its bytes as SumOf has them.
WithinLimits ==
    /\ \A i \in DOMAIN snapshots : snapshots[i].ts + Keep >= hist[Len(hist)].ts
    /\ Cardinality(DOMAIN frames) <= FrameN
    /\ Cardinality(DOMAIN frames) > 1 => SumOf(frames, DOMAIN frames) <= FrameBudget
    /\ \A i \in Older(snapshots) : \A o \in Opps : snapshots[i].rows[o].bucket \notin TierBuckets

LimitsInv == StoreInv /\ FramesAsWritten /\ OldestGoFirst /\ (tidied => WithinLimits)

-----------------------------------------------------------------------------
-----------------------------------------------------------------------------
\* The last n of some ids are at most n, with each id there are all larger ones, and the
\* largest is one of them.
LEMMA LastIs ==
    ASSUME NEW ids, ids \subseteq Nat, IsFiniteSet(ids), NEW n \in Nat \ {0}
    PROVE  /\ Last(ids, n) \subseteq ids /\ IsFiniteSet(Last(ids, n)) /\ Cardinality(Last(ids, n)) <= n
           /\ \A i \in Last(ids, n), j \in ids : i <= j => j \in Last(ids, n)
           /\ ids # {} => Max(ids) \in Last(ids, n) /\ Max(Last(ids, n)) = Max(ids)
<1> DEFINE Above(i) == {j \in ids : j > i}
<1>1. Last(ids, n) = {i \in ids : Cardinality(Above(i)) < n}
  BY DEF Last
<1>2. \A i : IsFiniteSet(Above(i)) /\ Cardinality(Above(i)) \in Nat
  BY FS_Subset, FS_CardinalityType
<1>a. \A x \in ids : x \in Nat
  OBVIOUS
<1>3. ASSUME NEW i \in ids, NEW j \in ids, i <= j PROVE Cardinality(Above(j)) <= Cardinality(Above(i))
  <2>1. \A k \in ids : k > j => k > i
    BY <1>3, <1>a
  <2>2. Above(j) \in SUBSET Above(i)
    BY <2>1
  <2> HIDE DEF Above
  <2>3. QED BY <1>2, <2>2, FS_Subset
<1>4. Last(ids, n) \subseteq ids /\ IsFiniteSet(Last(ids, n))
  BY <1>1, FS_Subset
<1>5. ASSUME NEW i \in Last(ids, n), NEW j \in ids, i <= j PROVE j \in Last(ids, n)
  <2> HIDE DEF Above
  <2>1. i \in ids /\ Cardinality(Above(i)) < n /\ Cardinality(Above(i)) \in Nat /\ Cardinality(Above(j)) \in Nat
    BY <1>1, <1>2
  <2>2. Cardinality(Above(j)) < n
    BY <1>3, <1>5, <2>1
  <2>3. QED BY <1>1, <2>2
<1>6. ASSUME ids # {} PROVE Max(ids) \in Last(ids, n) /\ Max(Last(ids, n)) = Max(ids)
  <2>1. Max(ids) \in ids /\ \A j \in ids : j <= Max(ids)
    BY <1>6, Extremes
  <2>2. Above(Max(ids)) = {}
    <3>1. \A j \in ids : j \in Nat /\ Max(ids) \in Nat /\ j <= Max(ids)
      BY <1>a, <2>1
    <3>2. \A j \in ids : ~(j > Max(ids))
      BY <3>1
    <3>3. QED BY <3>2
  <2> HIDE DEF Above
  <2>3. Max(ids) \in Last(ids, n)
    BY <1>1, <2>1, <2>2, FS_EmptySet
  <2>4. QED BY <1>4, <2>1, <2>3, MaxIs
<1>7. Cardinality(Last(ids, n)) <= n
  <2>1. CASE Last(ids, n) = {}
    BY <2>1, FS_EmptySet
  <2>2. CASE Last(ids, n) # {}
    <3> DEFINE m == Min(Last(ids, n))
    <3>1. m \in Last(ids, n) /\ \A j \in Last(ids, n) : m <= j
      BY <1>4, <2>2, Extremes
    <3>2. m \in ids /\ Cardinality(Above(m)) < n
      BY <1>1, <3>1
    <3>3. Last(ids, n) \in SUBSET (Above(m) \cup {m})
      <4>1. \A j \in Last(ids, n) : j \in ids /\ j \in Nat
        BY <1>4, <1>a
      <4>2. \A j \in Last(ids, n) : j > m \/ j = m
        <5> HIDE DEF m
        <5>1. QED BY <3>1, <4>1
      <4>3. QED BY <4>1, <4>2
    <3> HIDE DEF m, Above
    <3>4. IsFiniteSet(Above(m) \cup {m}) /\ Cardinality(Above(m) \cup {m}) <= Cardinality(Above(m)) + 1
      BY <1>2, FS_AddElement
    <3>5. Cardinality(Last(ids, n)) <= Cardinality(Above(m) \cup {m})
      BY <3>3, <3>4, FS_Subset
    <3>6. Cardinality(Last(ids, n)) \in Nat /\ Cardinality(Above(m) \cup {m}) \in Nat /\ Cardinality(Above(m)) \in Nat
      BY <1>2, <1>4, <3>4, FS_CardinalityType
    <3>7. QED BY <3>2, <3>4, <3>5, <3>6
  <2>3. QED BY <2>1, <2>2
<1>8. QED BY <1>4, <1>5, <1>6, <1>7

\* What the frame tier keeps: at most FrameN, the newest among them, all that are newer than one
\* that is kept, and no more bytes than the budget unless one is all that is left.
LEMMA KeptFramesAre ==
    ASSUME NEW f, DOMAIN f \subseteq Nat, IsFiniteSet(DOMAIN f), \A i \in DOMAIN f : f[i] \in Nat
    PROVE  /\ KeptFrames(f) \subseteq DOMAIN f /\ IsFiniteSet(KeptFrames(f)) /\ Cardinality(KeptFrames(f)) <= FrameN
           /\ \A i \in KeptFrames(f), j \in DOMAIN f : i <= j => j \in KeptFrames(f)
           /\ DOMAIN f # {} => KeptFrames(f) # {}
           /\ Cardinality(KeptFrames(f)) > 1 => SumOf(f, KeptFrames(f)) <= FrameBudget
<1> DEFINE recent == Last(DOMAIN f, FrameN)
           kept == KeptFrames(f)
           From(i) == {j \in recent : j >= i}
<1>1. FrameN \in Nat \ {0} /\ FrameBudget \in Nat
  BY StoreConstants
<1>2. /\ recent \subseteq DOMAIN f /\ IsFiniteSet(recent) /\ Cardinality(recent) <= FrameN
      /\ \A i \in recent, j \in DOMAIN f : i <= j => j \in recent
      /\ DOMAIN f # {} => Max(DOMAIN f) \in recent /\ Max(recent) = Max(DOMAIN f)
  BY <1>1, LastIs
<1> HIDE DEF recent
<1>3. kept = {i \in recent : SumOf(f, From(i)) <= FrameBudget \/ i = Max(recent)}
  BY DEF KeptFrames, BytesFrom, SumOf, recent
<1> HIDE DEF kept
<1>4. /\ kept \in SUBSET recent /\ kept \subseteq DOMAIN f /\ IsFiniteSet(kept) /\ Cardinality(kept) <= Cardinality(recent)
  BY <1>2, <1>3, FS_Subset
<1>5. Cardinality(kept) \in Nat /\ Cardinality(recent) \in Nat
  BY <1>2, <1>4, FS_CardinalityType
<1>6. \A i : From(i) \in SUBSET recent /\ IsFiniteSet(From(i)) /\ SumOf(f, From(i)) \in Nat
  <2> SUFFICES ASSUME NEW i PROVE From(i) \in SUBSET recent /\ IsFiniteSet(From(i)) /\ SumOf(f, From(i)) \in Nat
    OBVIOUS
  <2>1. From(i) \in SUBSET recent OBVIOUS
  <2> HIDE DEF From
  <2>2. IsFiniteSet(From(i)) /\ \A j \in From(i) : f[j] \in Nat
    BY <1>2, <2>1, FS_Subset
  <2>3. QED BY <2>1, <2>2, SumNat
<1>7. ASSUME NEW i \in kept, NEW j \in DOMAIN f, i <= j PROVE j \in kept
  <2>1. i \in recent /\ j \in recent /\ i \in Nat /\ j \in Nat
    BY <1>2, <1>4, <1>7
  <2>2. CASE i = Max(recent)
    <3>1. j <= Max(recent)
      BY <1>2, <2>1, Extremes
    <3>2. i = j
      BY <1>7, <2>1, <2>2, <3>1
    <3>3. QED BY <3>2
  <2>3. CASE SumOf(f, From(i)) <= FrameBudget
    <3>1. From(j) \in SUBSET From(i)
      BY <1>2, <1>7, <2>1
    <3>2. \A x \in From(i) : f[x] \in Nat
      BY <1>2
    <3> HIDE DEF From
    <3>3. SumOf(f, From(j)) <= SumOf(f, From(i))
      BY <1>6, <3>1, <3>2, SumMonotone
    <3>4. SumOf(f, From(j)) <= FrameBudget
      BY <1>1, <1>6, <2>3, <3>3
    <3>5. QED BY <1>3, <2>1, <3>4
  <2>4. QED BY <1>3, <2>2, <2>3
<1>8. ASSUME DOMAIN f # {} PROVE kept # {}
  BY <1>2, <1>3, <1>8
<1>9. ASSUME Cardinality(kept) > 1 PROVE SumOf(f, kept) <= FrameBudget
  <2> DEFINE m == Min(kept)
  <2>1. kept # {} /\ kept \in SUBSET Nat
    BY <1>2, <1>4, <1>9, FS_EmptySet
  <2>2. m \in kept /\ \A j \in kept : m <= j
    BY <1>4, <2>1, Extremes
  <2>3. m # Max(recent)
    <3> SUFFICES ASSUME m = Max(recent) PROVE FALSE OBVIOUS
    <3>1. \A j \in kept : j <= m /\ m <= j /\ j \in Nat /\ m \in Nat
      BY <1>2, <1>4, <2>1, <2>2, Extremes
    <3>2. kept = {m}
      BY <2>2, <3>1
    <3>3. Cardinality(kept) = 1
      BY <3>2, FS_Singleton
    <3>4. QED BY <1>9, <3>3
  <2>4. SumOf(f, From(m)) <= FrameBudget
    BY <1>3, <2>2, <2>3
  <2>5. kept \in SUBSET From(m)
    BY <1>4, <2>1, <2>2
  <2>6. \A x \in From(m) : f[x] \in Nat
    BY <1>2
  <2> HIDE DEF m, From
  <2>7. SumOf(f, kept) <= SumOf(f, From(m))
    BY <1>6, <2>5, <2>6, SumMonotone
  <2>8. SumOf(f, kept) \in Nat
    BY <1>2, <1>4, SumNat
  <2>9. QED BY <1>1, <1>6, <2>4, <2>7, <2>8
<1>10. QED BY <1>1, <1>2, <1>4, <1>5, <1>7, <1>8, <1>9 DEF kept
-----------------------------------------------------------------------------
\* Ids are numbers, and the stored ones finitely many.
LEMMA StoredIds ==
    ASSUME StoredTypeOK
    PROVE  /\ Len(hist) \in Nat /\ \A i \in DOMAIN snapshots : i \in Nat /\ i \in 1..Len(hist)
           /\ \A S \in SUBSET DOMAIN snapshots : S \subseteq Nat /\ IsFiniteSet(S)
<1>1. Len(hist) \in Nat /\ DOMAIN snapshots \subseteq 1..Len(hist)
  BY DEF StoredTypeOK
<1>2. \A i \in 1..Len(hist) : i \in Nat
  BY <1>1
<1>3. IsFiniteSet(DOMAIN snapshots)
  <2>1. IsFiniteSet(1..Len(hist))
    BY <1>1, FS_Interval
  <2>2. QED BY <1>1, <2>1, FS_Subset
<1>4. QED BY <1>1, <1>2, <1>3, FS_Subset

\* An empty store is within its limits.
LEMMA InitLimits == StoreInit => LimitsInv
<1> SUFFICES ASSUME StoreInit PROVE LimitsInv OBVIOUS
<1>1. StoreInv /\ DOMAIN snapshots = {} /\ DOMAIN frames = {}
  BY InitStoreInv DEF StoreInit
<1>2. FramesAsWritten /\ OldestGoFirst
  BY <1>1 DEF FramesAsWritten, OldestGoFirst
<1>3. WithinLimits
  <2>1. Cardinality(DOMAIN frames) = 0 /\ FrameN \in Nat
    BY <1>1, FS_EmptySet, StoreConstants
  <2>2. Older(snapshots) = {}
    BY <1>1 DEF Older
  <2>3. QED BY <1>1, <2>1, <2>2 DEF WithinLimits
<1>4. QED BY <1>1, <1>2, <1>3 DEF LimitsInv

\* The snapshot that is written is newer than all others, and has its frames.
LEMMA WriteLimits ==
    ASSUME LimitsInv, NEW ts \in NextTs, NEW scan \in Scans, Write(ts, scan.rows, scan.size)
    PROVE  LimitsInv'
<1> DEFINE id == Len(hist) + 1
<1>1. StoreInv' /\ StoreInv
  BY WriteInv DEF LimitsInv
<1>2. scan.size \in Nat
  BY ScansAreResults
<1>3. /\ DOMAIN snapshots' = DOMAIN snapshots \cup {id}
      /\ frames' = WithFrames(frames, id, scan.size)
      /\ hist' = Append(hist, [ts |-> ts, rows |-> scan.rows, size |-> scan.size])
      /\ tidied' = FALSE
  BY DEF Write
<1>4. /\ Len(hist) \in Nat /\ hist \in Seq(Written) /\ DOMAIN frames \subseteq DOMAIN snapshots
      /\ \A i \in DOMAIN snapshots : i \in 1..Len(hist) /\ i \in Nat /\ i < id
  <2>1. Len(hist) \in Nat /\ \A i \in DOMAIN snapshots : i \in Nat /\ i \in 1..Len(hist)
    BY <1>1, StoredIds DEF StoreInv
  <2>2. QED BY <1>1, <2>1 DEF StoreInv, StoredTypeOK
<1>5. hist'[id].size = scan.size /\ \A i \in 1..Len(hist) : hist'[i] = hist[i]
  BY <1>3, <1>4
<1>6. /\ scan.size = 0 => frames' = frames
      /\ scan.size # 0 => DOMAIN frames' = DOMAIN frames \cup {id} /\ frames'[id] = scan.size
      /\ \A i \in DOMAIN frames : i \in DOMAIN frames' /\ frames'[i] = frames[i]
  BY <1>3, <1>4 DEF WithFrames
<1> HIDE DEF id
<1>7. FramesAsWritten'
  <2>1. \A i \in DOMAIN frames : frames'[i] \in Nat \ {0} /\ frames'[i] = hist'[i].size
    BY <1>4, <1>5, <1>6 DEF LimitsInv, FramesAsWritten
  <2>2. QED BY <1>2, <1>5, <1>6, <2>1 DEF FramesAsWritten
<1>8. OldestGoFirst'
  <2> SUFFICES ASSUME NEW i \in DOMAIN snapshots', hist'[i].size > 0, i \notin DOMAIN frames'
               PROVE  DOMAIN frames' # {} /\ \A j \in DOMAIN frames' : i < j
    BY DEF OldestGoFirst
  <2>1. i \in DOMAIN snapshots
    <3>1. i # id
      BY <1>2, <1>5, <1>6
    <3>2. QED BY <1>3, <3>1
  <2>2. hist[i].size > 0 /\ i \notin DOMAIN frames
    BY <1>4, <1>5, <1>6, <2>1
  <2>3. DOMAIN frames # {} /\ \A j \in DOMAIN frames : i < j
    BY <2>1, <2>2 DEF LimitsInv, OldestGoFirst
  <2>4. QED BY <1>4, <1>6, <2>1, <2>3
<1>9. ~tidied'
  BY <1>3
<1>10. QED BY <1>1, <1>7, <1>8, <1>9 DEF LimitsInv

\* The tiers bring the store within its limits, the oldest first.
LEMMA TidyLimits == LimitsInv /\ Tidy => LimitsInv'
<1> SUFFICES ASSUME LimitsInv, Tidy PROVE LimitsInv' OBVIOUS
<1> DEFINE n == Len(hist)
           kept == [i \in InRetention(snapshots) |-> snapshots[i]]
           left == [i \in DOMAIN frames \cap DOMAIN kept |-> frames[i]]
<1>1. StoreInv' /\ StoreInv
  BY TidyInv DEF LimitsInv
<1>2. /\ hist' = hist
      /\ snapshots' = [i \in DOMAIN kept |-> IF i \in Older(kept) THEN Tiered(kept[i]) ELSE kept[i]]
      /\ frames' = [i \in KeptFrames(left) |-> left[i]]
  BY DEF Tidy
<1>3. /\ n \in Nat /\ DOMAIN frames \subseteq DOMAIN snapshots
      /\ \A i \in DOMAIN snapshots : i \in Nat /\ i \in 1..n
      /\ \A S \in SUBSET DOMAIN snapshots : S \subseteq Nat /\ IsFiniteSet(S)
  BY <1>1, StoredIds DEF StoreInv, StoredTypeOK
<1>4. /\ DOMAIN kept = InRetention(snapshots) /\ DOMAIN kept \subseteq DOMAIN snapshots
      /\ \A i \in DOMAIN kept : kept[i] = snapshots[i]
      /\ DOMAIN left = DOMAIN frames \cap DOMAIN kept
      /\ \A i \in DOMAIN left : left[i] = frames[i]
  BY DEF InRetention
<1> HIDE DEF n, kept, left
<1>5. \A i \in DOMAIN left : left[i] \in Nat \ {0} /\ left[i] = hist[i].size
  BY <1>4 DEF LimitsInv, FramesAsWritten
<1>6. /\ KeptFrames(left) \subseteq DOMAIN left /\ IsFiniteSet(KeptFrames(left))
      /\ Cardinality(KeptFrames(left)) <= FrameN
      /\ \A i \in KeptFrames(left), j \in DOMAIN left : i <= j => j \in KeptFrames(left)
      /\ DOMAIN left # {} => KeptFrames(left) # {}
      /\ Cardinality(KeptFrames(left)) > 1 => SumOf(left, KeptFrames(left)) <= FrameBudget
  <2>1. DOMAIN left \subseteq Nat /\ IsFiniteSet(DOMAIN left) /\ \A i \in DOMAIN left : left[i] \in Nat
    BY <1>3, <1>4, <1>5
  <2>2. QED BY <2>1, KeptFramesAre
<1>7. /\ DOMAIN snapshots' = DOMAIN kept /\ DOMAIN frames' = KeptFrames(left)
      /\ \A i \in DOMAIN frames' : frames'[i] = left[i]
  BY <1>2
<1>8. FramesAsWritten'
  BY <1>2, <1>5, <1>6, <1>7 DEF FramesAsWritten
<1>9. \A i \in DOMAIN snapshots : i \in DOMAIN kept <=> hist[i].ts + Keep >= hist[n].ts
  <2>1. ASSUME hist # <<>> PROVE NewestTs(snapshots) = hist[n].ts
    BY <1>1, <2>1, NewestIsLast DEF StoreInv, n
  <2>2. DOMAIN snapshots # {} => hist # <<>>
    BY <1>3 DEF n
  <2>3. \A i \in DOMAIN snapshots : snapshots[i].ts = hist[i].ts
    BY <1>1 DEF StoreInv, TimesInOrder
  <2>4. QED BY <1>4, <2>1, <2>2, <2>3 DEF InRetention
<1>10. OldestGoFirst'
  <2> SUFFICES ASSUME NEW i \in DOMAIN kept, hist[i].size > 0, i \notin KeptFrames(left)
               PROVE  KeptFrames(left) # {} /\ \A j \in KeptFrames(left) : i < j
    BY <1>2, <1>7 DEF OldestGoFirst
  <2>1. i \in DOMAIN snapshots /\ i \in Nat /\ i \in 1..n /\ \A j \in KeptFrames(left) : j \in Nat
    BY <1>3, <1>4, <1>6
  <2>2. CASE i \in DOMAIN frames
    <3>1. i \in DOMAIN left
      BY <1>4, <2>2
    <3>2. QED BY <1>6, <2>1, <3>1
  <2>3. CASE i \notin DOMAIN frames
    <3>1. DOMAIN frames # {} /\ \A j \in DOMAIN frames : i < j
      BY <2>1, <2>3 DEF LimitsInv, OldestGoFirst
    <3>2. PICK j \in DOMAIN frames : i < j
      BY <3>1
    <3>3. j \in DOMAIN snapshots /\ j \in 1..n /\ j \in Nat
      BY <1>3, <3>2
    <3>4. /\ hist[i].ts <= hist[j].ts /\ hist[i].ts \in Nat /\ hist[j].ts \in Nat /\ hist[n].ts \in Nat
          /\ hist[i].ts + Keep >= hist[n].ts
      <4>1. hist[i].ts <= hist[j].ts
        BY <1>1, <2>1, <3>2, <3>3 DEF StoreInv, TimesInOrder, n
      <4>2. hist # <<>> /\ hist \in Seq(Written)
        BY <1>1, <2>1, <1>3 DEF StoreInv, StoredTypeOK, n
      <4>3. hist[i].ts \in Nat /\ hist[j].ts \in Nat /\ hist[n].ts \in Nat
        BY <2>1, <3>3, <4>2, WrittenTypes DEF n
      <4>4. QED BY <1>9, <2>1, <4>1, <4>3
    <3>5. j \in DOMAIN left
      <4>1. Keep \in Nat
        BY StoreConstants
      <4>2. hist[j].ts + Keep >= hist[n].ts
        BY <3>4, <4>1
      <4>3. QED BY <1>4, <1>9, <3>2, <3>3, <4>2
    <3>6. QED BY <1>4, <1>6, <3>1, <3>5
  <2>4. QED BY <2>2, <2>3
<1>11. WithinLimits'
  <2>1. \A i \in DOMAIN snapshots' : snapshots'[i].ts + Keep >= hist'[Len(hist')].ts
    <3>1. \A i \in DOMAIN snapshots' : snapshots'[i].ts = hist[i].ts
      BY <1>1, <1>2 DEF StoreInv, TimesInOrder
    <3>2. QED BY <1>2, <1>4, <1>7, <1>9, <3>1 DEF n
  <2>2. Cardinality(DOMAIN frames') <= FrameN
    BY <1>6, <1>7
  <2>3. Cardinality(DOMAIN frames') > 1 => SumOf(frames', DOMAIN frames') <= FrameBudget
    <3>1. SumOf(frames', DOMAIN frames') = SumOf(left, KeptFrames(left))
      BY <1>6, <1>7, SumSame
    <3>2. QED BY <1>6, <1>7, <3>1
  <2>4. ASSUME NEW i \in Older(snapshots'), NEW o \in Opps
        PROVE  snapshots'[i].rows[o].bucket \notin TierBuckets
    <3>1. \A j \in DOMAIN kept : snapshots'[j].ts = kept[j].ts
      BY <1>1, <1>2, <1>4, <1>7 DEF StoreInv, TimesInOrder
    <3>2. i \in Older(kept) /\ i \in DOMAIN kept
      <4>1. i \in DOMAIN kept
        BY <1>7, <2>4 DEF Older
      <4>2. {j \in DOMAIN snapshots' : NewerIn(snapshots', j, i)} = {j \in DOMAIN kept : NewerIn(kept, j, i)}
        BY <1>7, <3>1, <4>1 DEF NewerIn
      <4>3. QED BY <2>4, <4>1, <4>2 DEF Older
    <3>3. snapshots'[i] = Tiered(snapshots[i])
      BY <1>2, <1>4, <3>2
    <3>4. snapshots[i] \in Stored
      BY <1>1, <1>4, <3>2 DEF StoreInv, StoredTypeOK
    <3>5. Tiered(snapshots[i]).rows[o].bucket \notin TierBuckets
      <4>1. Tiered(snapshots[i]).rows =
              [p \in Opps |-> IF snapshots[i].rows[p].bucket \in TierBuckets THEN NoRow ELSE snapshots[i].rows[p]]
        BY <3>4 DEF Tiered, Stored
      <4>2. QED BY <4>1 DEF NoRow, TierBuckets
    <3>6. QED BY <3>3, <3>5
  <2>5. QED BY <2>1, <2>2, <2>3, <2>4 DEF WithinLimits
<1>12. QED BY <1>1, <1>8, <1>10, <1>11 DEF LimitsInv

\* LimitsInv holds in every reachable state.
THEOREM LimitsInvariance == Spec => []LimitsInv
<1>1. LimitsInv /\ [Next]_vars => LimitsInv'
  <2> SUFFICES ASSUME LimitsInv, [Next]_vars PROVE LimitsInv' OBVIOUS
  <2>1. CASE TidyLost \/ UNCHANGED vars
    <3>1. UNCHANGED <<snapshots, frames, hist, tidied>>
      BY <2>1 DEF TidyLost, vars
    <3>2. StoreInv'
      BY <3>1 DEF LimitsInv, StoreInv, StoredTypeOK, TimesInOrder, LastWhole, CountedOnce, RowsAccounted
    <3>3. FramesAsWritten' /\ OldestGoFirst'
      BY <3>1 DEF LimitsInv, FramesAsWritten, OldestGoFirst
    <3>4. (tidied => WithinLimits)'
      BY <3>1 DEF LimitsInv, WithinLimits, Older, NewerIn
    <3>5. QED BY <3>2, <3>3, <3>4 DEF LimitsInv
  <2>2. QED BY <2>1, WriteLimits, TidyLimits DEF Next
<1>2. QED BY <1>1, InitLimits, PTL DEF Spec

\* EvictedIsExpired: frame_status calls evicted evidence expired.
THEOREM EvictedIsExpiredHolds == Spec => []EvictedIsExpired
<1>1. LimitsInv => EvictedIsExpired
  <2> SUFFICES ASSUME LimitsInv, NEW i \in DOMAIN snapshots, hist[i].size > 0, i \notin DOMAIN frames
               PROVE  FrameStatus(i) = "expired"
    BY DEF EvictedIsExpired
  <2> DEFINE recent == Last(DOMAIN frames, FrameN)
  <2>1. DOMAIN frames # {} /\ \A j \in DOMAIN frames : i < j
    BY DEF LimitsInv, OldestGoFirst
  <2>2. DOMAIN frames \subseteq Nat /\ IsFiniteSet(DOMAIN frames)
    BY StoredIds DEF LimitsInv, StoreInv, StoredTypeOK
  <2>3. recent \subseteq DOMAIN frames /\ IsFiniteSet(recent) /\ recent # {}
    BY <2>1, <2>2, LastIs, StoreConstants
  <2>4. Min(recent) \in recent
    BY <2>2, <2>3, Extremes
  <2>5. i < Min(recent)
    BY <2>1, <2>3, <2>4
  <2>6. QED BY <2>3, <2>5 DEF FrameStatus
<1>2. QED BY <1>1, LimitsInvariance, PTL

\* TidyCatchesUp: a second transaction that gets through brings the store within its limits.
THEOREM TidyCatchesUpHolds == Spec => []TidyCatchesUp
<1>1. LimitsInv => TidyCatchesUp
  BY DEF LimitsInv, WithinLimits, TidyCatchesUp, SumOf
<1>2. QED BY <1>1, LimitsInvariance, PTL

-----------------------------------------------------------------------------
(* The backlog table, maintained scan by scan from the rows of one scan and *)
(* its own open intervals, holds exactly the lifecycles of the whole history. *)
Cats == {"actionable", "bounded_loss"}

Kept(v, ts) == v.left = Open \/ v.left + BacklogKeep >= ts

\* v is the interval of a lifecycle.
IsIntervalOf(v, i, j, o, c) == v = LifecycleInterval(i, j, o, c)

\* v is the interval of a lifecycle that the retention has not dropped.
IsEntry(v) ==
    \E i, j \in 1..Len(hist), o \in Opps, c \in Cats :
        /\ IsLifecycle(i, j, o, c)
        /\ IsIntervalOf(v, i, j, o, c)
        /\ Kept(v, hist[Len(hist)].ts)

\* What is in a category now has come into it in some scan.
Begun ==
    \A o \in Opps, c \in Cats :
        InCat(Len(hist), o, c) => \E i \in 1..Len(hist) : IsLifecycle(i, Len(hist), o, c)

\* Among the last scans, however many, one has the best ROI of an opportunity.
HasPeak ==
    \A i \in 1..Len(hist), o \in Opps : \E k \in i..Len(hist) :
        \A l \in i..Len(hist) : hist[l].rows[o].roi <= hist[k].rows[o].roi

BacklogInv ==
    /\ \A i \in 1..Len(hist) : hist[i].ts <= MaxTs
    /\ \A v : v \in intervals <=> IsEntry(v)
    /\ Begun
    /\ HasPeak

-----------------------------------------------------------------------------
\* The set of the intervals, one by one.
LEMMA EntriesAreHistory == (\A v : v \in intervals <=> IsEntry(v)) => BacklogIsHistory
<1> SUFFICES ASSUME \A v : v \in intervals <=> IsEntry(v) PROVE BacklogIsHistory OBVIOUS
<1> DEFINE n == Len(hist)
           LivesOf(i, o, c) ==
             {v \in {LifecycleInterval(i, j, o, c) : j \in {k \in i..n : IsLifecycle(i, k, o, c)}} :
                 v.left = Open \/ v.left + BacklogKeep >= hist[n].ts}
           Lives == UNION {UNION {UNION {LivesOf(i, o, c) : c \in {"actionable", "bounded_loss"}} :
                                    o \in Opps} : i \in 1..n}
<1>1. ASSUME NEW v PROVE v \in Lives <=> \E i \in 1..n, o \in Opps, c \in Cats : v \in LivesOf(i, o, c)
  BY DEF Cats
<1>2. ASSUME NEW v, NEW i \in 1..n, NEW o \in Opps, NEW c \in Cats
      PROVE  v \in LivesOf(i, o, c) <=>
               \E j \in 1..n : /\ IsLifecycle(i, j, o, c) /\ v = LifecycleInterval(i, j, o, c)
                               /\ Kept(v, hist[n].ts)
  <2>1. \A j : IsLifecycle(i, j, o, c) => i <= j
    BY DEF IsLifecycle
  <2>2. \A j : (j \in i..n /\ IsLifecycle(i, j, o, c)) <=> (j \in 1..n /\ IsLifecycle(i, j, o, c))
    BY <2>1
  <2>3. QED BY <2>2 DEF Kept
<1>3. ASSUME NEW v PROVE v \in Lives <=> IsEntry(v)
  <2> HIDE DEF LivesOf, Lives
  <2>1. QED BY <1>1, <1>2 DEF IsEntry, IsIntervalOf
<1>4. intervals = Lives
  <2> HIDE DEF Lives
  <2>1. QED BY <1>3
<1>5. QED BY <1>4 DEF BacklogIsHistory

\* A row is in a category when its bucket is tracked as it, and no other bucket is.
LEMMA TrackedIs ==
    /\ \A rows, o : rows[o].bucket \in Tracked => CatOf(rows[o]) \in Cats
    /\ \A rows, o, c : c \in Cats /\ IsTracked(rows, o, c) => rows[o].bucket \in Tracked
BY DEF IsTracked, CatOf, Cats, Tracked, Category

\* The better of two values.
LEMMA MaxOfTwo == \A a, b \in Nat : Max({a, b}) = IF a >= b THEN a ELSE b
<1> SUFFICES ASSUME NEW a \in Nat, NEW b \in Nat PROVE Max({a, b}) = IF a >= b THEN a ELSE b OBVIOUS
<1>1. CASE a >= b
  <2>1. {a, b} \in SUBSET Nat /\ a \in {a, b} /\ \A x \in {a, b} : x <= a
    BY <1>1
  <2>2. QED BY <1>1, <2>1, MaxIs
<1>2. CASE ~(a >= b)
  <2>1. {a, b} \in SUBSET Nat /\ b \in {a, b} /\ \A x \in {a, b} : x <= b
    BY <1>2
  <2>2. QED BY <1>2, <2>1, MaxIs
<1>3. QED BY <1>1, <1>2

-----------------------------------------------------------------------------
\* The first transaction of a scan that brings these rows, when n were written before.
Adds(ts, rows, n) ==
    /\ StoreInv /\ BacklogInv /\ n = Len(hist) /\ ts \in NextTs
    /\ \E scan \in Scans : rows = scan.rows /\ Write(ts, rows, scan.size)

\* A scan is added behind the others.
LEMMA OneMore ==
    ASSUME NEW ts, NEW rows, NEW n, Adds(ts, rows, n)
    PROVE  /\ BacklogInv /\ n = Len(hist) /\ n \in Nat /\ Len(hist') = n + 1
           /\ \A k \in 1..n : hist'[k] = hist[k] /\ hist[k].ts \in Nat /\ hist[k].ts <= ts
           /\ hist'[n + 1].ts = ts /\ hist'[n + 1].rows = rows
           /\ ts \in Nat /\ ts <= MaxTs /\ MaxTs \in Nat
           /\ \A o \in Opps : /\ rows[o].roi \in Nat
                              /\ \A k \in 1..n : hist[k].rows[o].roi \in Nat
           /\ intervals' = Maintained(intervals, rows, ts, n + 1)
<1>0. PICK scan \in Scans : rows = scan.rows /\ Write(ts, rows, scan.size)
  BY DEF Adds
<1> n = Len(hist) /\ StoreInv /\ BacklogInv /\ ts \in NextTs
  BY DEF Adds
<1> DEFINE new == [ts |-> ts, rows |-> rows, size |-> scan.size]
<1>1. hist \in Seq(Written) /\ Len(hist) \in Nat /\ MaxTs \in Nat
  BY StoreConstants DEF StoreInv, StoredTypeOK
<1>2. ts \in Nat /\ ts <= MaxTs /\ \A i \in 1..Len(hist) : hist[i].ts \in Nat /\ hist[i].ts <= ts
  <2>1. CASE hist = <<>>
    BY <1>1, <2>1 DEF NextTs
  <2>2. CASE hist # <<>>
    <3>1. Len(hist) \in 1..Len(hist) /\ \A i \in 1..Len(hist) : hist[i].ts \in Nat
      BY <1>1, <2>2, WrittenTypes
    <3>2. ts \in hist[Len(hist)].ts .. MaxTs
      BY <2>2 DEF NextTs
    <3>3. ts \in Nat /\ hist[Len(hist)].ts <= ts /\ ts <= MaxTs
      BY <1>1, <3>1, <3>2
    <3>4. \A i \in 1..Len(hist) : hist[i].ts <= hist[Len(hist)].ts
      BY <1>1, <3>1 DEF StoreInv, TimesInOrder
    <3>5. QED BY <3>1, <3>3, <3>4
  <2>3. QED BY <2>1, <2>2
<1>3. hist' = Append(hist, new) /\ intervals' = Maintained(intervals, rows, ts, Len(hist) + 1)
  BY <1>0 DEF Write
<1>4. new.ts = ts /\ new.rows = rows
  OBVIOUS
<1> HIDE DEF new
<1>5. /\ Len(hist') = Len(hist) + 1 /\ hist'[Len(hist) + 1] = new
      /\ \A k \in 1..Len(hist) : hist'[k] = hist[k]
  BY <1>1, <1>3
<1>6. ASSUME NEW r \in Rows, NEW o \in Opps PROVE r[o].roi \in Nat
  <2>1. r[o] \in [bucket: Buckets, roi: 0..MaxRoi] \cup {NoRow}
    BY <1>6 DEF Rows
  <2>2. NoRow.roi \in Nat
    BY DEF NoRow
  <2>3. QED BY <2>1, <2>2
<1>7. rows \in Rows /\ \A k \in 1..Len(hist) : hist[k].rows \in Rows
  BY <1>0, <1>1, ScansAreResults, WrittenTypes
<1>8. QED BY <1>1, <1>2, <1>3, <1>4, <1>5, <1>6, <1>7

\* Lifecycles that had ended stay as they are; one that lasts until the last scan ends in
\* it, or goes on with the new one; and one begins where nothing was.
LEMMA LifecyclesThen ==
    ASSUME NEW ts, NEW rows, NEW n, Adds(ts, rows, n),
           NEW o \in Opps, NEW c \in Cats
    PROVE  /\ \A i, j \in 1..n :
                j # n => (IsLifecycle(i, j, o, c)' <=> IsLifecycle(i, j, o, c))
           /\ \A i \in 1..n :
                /\ IsLifecycle(i, n, o, c)'
                     <=> (IsLifecycle(i, n, o, c) /\ ~IsTracked(rows, o, c))
                /\ IsLifecycle(i, n + 1, o, c)'
                     <=> (IsLifecycle(i, n, o, c) /\ IsTracked(rows, o, c))
           /\ IsLifecycle(n + 1, n + 1, o, c)'
                <=> (~InCat(n, o, c) /\ IsTracked(rows, o, c))
           /\ InCat(n + 1, o, c)' <=> IsTracked(rows, o, c)
<1> DEFINE now == IsTracked(rows, o, c)
<1>1. n \in Nat /\ n = Len(hist) /\ Len(hist') = n + 1 /\ hist'[n + 1].rows = rows
      /\ \A k \in 1..n : hist'[k] = hist[k]
  BY OneMore
<1> HIDE DEF now
<1>2. \A k \in Nat : k # n + 1 => (InCat(k, o, c)' <=> InCat(k, o, c))
  BY <1>1 DEF InCat
<1>3. InCat(n + 1, o, c)' <=> now
  BY <1>1 DEF InCat, now
<1>4. ~InCat(n + 1, o, c) /\ ~InCat(n + 2, o, c)' /\ ~InCat(n + 2, o, c)
  BY <1>1 DEF InCat
<1>5. ASSUME NEW i \in 1..n, NEW j \in 1..n
      PROVE  IsLifecycle(i, j, o, c)' <=> /\ i <= j /\ \A k \in i..j : InCat(k, o, c)
                                          /\ ~InCat(i - 1, o, c) /\ ~InCat(j + 1, o, c)'
  <2>1. \A k \in i..j : k \in Nat /\ k # n + 1
    BY <1>1
  <2>2. i - 1 \in Nat /\ i - 1 # n + 1
    BY <1>1
  <2>3. QED BY <1>2, <2>1, <2>2 DEF IsLifecycle
<1>6. ASSUME NEW i \in 1..n, NEW j \in 1..n, j # n
      PROVE  IsLifecycle(i, j, o, c)' <=> IsLifecycle(i, j, o, c)
  <2>1. j + 1 \in Nat /\ j + 1 # n + 1
    BY <1>1, <1>6
  <2>2. QED BY <1>2, <1>5, <2>1 DEF IsLifecycle
<1>7. ASSUME NEW i \in 1..n
      PROVE  IsLifecycle(i, n, o, c)' <=> IsLifecycle(i, n, o, c) /\ ~now
  <2>1. n \in 1..n
    BY <1>1
  <2>2. QED BY <1>3, <1>4, <1>5, <2>1 DEF IsLifecycle
<1>8. ASSUME NEW i \in 1..n
      PROVE  IsLifecycle(i, n + 1, o, c)' <=> IsLifecycle(i, n, o, c) /\ now
  <2>1. i <= n /\ i <= n + 1 /\ i - 1 \in Nat /\ i - 1 # n + 1 /\ (n + 1) + 1 = n + 2
        /\ n + 1 \in i..(n + 1)
    BY <1>1
  <2>2. \A k : k \in i..(n + 1) <=> k \in i..n \/ k = n + 1
    BY <1>1
  <2>3. \A k \in i..n : k \in Nat /\ k # n + 1
    BY <1>1
  <2>4. (\A k \in i..(n + 1) : InCat(k, o, c)') <=> (\A k \in i..n : InCat(k, o, c)) /\ now
    BY <1>2, <1>3, <2>2, <2>3
  <2>5. IsLifecycle(i, n + 1, o, c)' <=> (\A k \in i..(n + 1) : InCat(k, o, c)') /\ ~InCat(i - 1, o, c)
    BY <1>2, <1>4, <2>1 DEF IsLifecycle
  <2>6. QED BY <1>4, <2>1, <2>4, <2>5 DEF IsLifecycle
<1>9. IsLifecycle(n + 1, n + 1, o, c)' <=> ~InCat(n, o, c) /\ now
  <2>1. n + 1 <= n + 1 /\ (n + 1) - 1 = n /\ (n + 1) + 1 = n + 2 /\ n \in Nat /\ n # n + 1
        /\ \A k : k \in (n + 1)..(n + 1) <=> k = n + 1
    BY <1>1
  <2>2. QED BY <1>2, <1>3, <1>4, <2>1 DEF IsLifecycle
<1>10. QED BY <1>3, <1>6, <1>7, <1>8, <1>9 DEF now

\* The fields of an interval that depend on whether its lifecycle lasts.
LEMMA LeftIs ==
    \A i, j, o, c : LET v == LifecycleInterval(i, j, o, c)
                    IN v.opp = o /\ v.cat = c /\ v.left = IF j = Len(hist) THEN Open ELSE hist[j + 1].ts
BY DEF LifecycleInterval

\* The best ROI of a lifecycle that goes on is that of before or that of the new scan.
LEMMA PeakThen ==
    ASSUME NEW ts, NEW rows, NEW n, Adds(ts, rows, n),
           NEW o \in Opps, NEW i \in 1..n
    PROVE  Max({hist'[k].rows[o].roi : k \in i..(n + 1)})
             = Max({Max({hist[k].rows[o].roi : k \in i..n}), rows[o].roi})
<1> DEFINE new == rows[o].roi
           Before == {hist[k].rows[o].roi : k \in i..n}
           After == {hist'[k].rows[o].roi : k \in i..(n + 1)}
<1>1. /\ n \in Nat /\ new \in Nat /\ hist'[n + 1].rows[o].roi = new
      /\ \A k \in 1..n : hist'[k] = hist[k] /\ hist[k].rows[o].roi \in Nat
  BY OneMore
<1>2. After = Before \cup {new} /\ Before \in SUBSET Nat
  <2>1. i..(n + 1) = (i..n) \cup {n + 1} /\ \A k \in i..n : k \in 1..n
    BY <1>1
  <2>2. QED BY <1>1, <2>1
<1>3. PICK m \in Before : \A x \in Before : x <= m
  <2>1. PICK k \in i..n : \A l \in i..n : hist[l].rows[o].roi <= hist[k].rows[o].roi
    BY OneMore DEF BacklogInv, HasPeak
  <2>2. QED BY <2>1
<1> HIDE DEF Before, After, new
<1>4. Max(Before) = m /\ m \in Nat
  BY <1>2, <1>3, MaxIs
<1>5. Max({m, new}) = IF m >= new THEN m ELSE new
  BY <1>1, <1>4, MaxOfTwo
<1>6. Max(After) = IF m >= new THEN m ELSE new
  <2>1. After \in SUBSET Nat /\ m \in After /\ new \in After
    BY <1>1, <1>2, <1>3
  <2>2. CASE m >= new
    <3>1. \A x \in After : x <= m
      BY <1>1, <1>2, <1>3, <1>4, <2>2
    <3>2. QED BY <2>1, <2>2, <3>1, MaxIs
  <2>3. CASE ~(m >= new)
    <3>1. \A x \in After : x <= new
      BY <1>1, <1>2, <1>3, <1>4, <2>3
    <3>2. QED BY <2>1, <2>3, <3>1, MaxIs
  <2>4. QED BY <2>2, <2>3
<1>7. QED BY <1>4, <1>5, <1>6 DEF Before, After, new

\* So the interval of a lifecycle that had ended stays.
LEMMA IntervalStays ==
    ASSUME NEW ts, NEW rows, NEW n, Adds(ts, rows, n),
           NEW o \in Opps, NEW c \in Cats, NEW v,
           NEW i \in 1..n, NEW j \in 1..n, j # n
    PROVE  IsIntervalOf(v, i, j, o, c)' <=> IsIntervalOf(v, i, j, o, c)
<1>1. n \in Nat /\ n = Len(hist) /\ Len(hist') = n + 1 /\ \A k \in 1..n : hist'[k] = hist[k]
  BY OneMore
<1>2. j # n + 1 /\ j + 1 \in 1..n
  BY <1>1
<1>3. hist'[i] = hist[i] /\ hist'[j] = hist[j] /\ hist'[j + 1] = hist[j + 1]
  BY <1>1, <1>2
<1>4. {hist'[k].rows[o].roi : k \in i..j} = {hist[k].rows[o].roi : k \in i..j}
  <2>1. \A k \in i..j : hist'[k] = hist[k]
    BY <1>1
  <2>2. QED BY <2>1
<1>5. LifecycleInterval(i, j, o, c)' = LifecycleInterval(i, j, o, c)
  BY <1>1, <1>2, <1>3, <1>4 DEF LifecycleInterval, Open
<1>6. QED BY <1>5 DEF IsIntervalOf

\* That of one that ends is closed.
LEMMA IntervalEnds ==
    ASSUME NEW ts, NEW rows, NEW n, Adds(ts, rows, n),
           NEW o \in Opps, NEW c \in Cats, NEW v,
           NEW i \in 1..n, NEW u, IsIntervalOf(u, i, n, o, c)
    PROVE  IsIntervalOf(v, i, n, o, c)' <=> v = [u EXCEPT !.left = ts]
<1>0. /\ n \in Nat /\ n = Len(hist) /\ Len(hist') = n + 1 /\ hist'[n + 1].ts = ts
      /\ \A k \in 1..n : hist'[k] = hist[k]
  BY OneMore
<1>1. n \in 1..n /\ n # n + 1 /\ hist'[i] = hist[i] /\ hist'[n] = hist[n]
  BY <1>0
<1> DEFINE peak == Max({hist[k].rows[o].roi : k \in i..n})
           Ended(left) == [opp |-> o, cat |-> c, born |-> i, first |-> hist[i].ts,
                           last |-> hist[n].ts, left |-> left,
                           bucket |-> hist[n].rows[o].bucket, peak |-> peak]
<1>2. LifecycleInterval(i, n, o, c) = Ended(Open)
  <2>1. n = Len(hist)
    BY <1>0
  <2>2. QED BY <2>1 DEF LifecycleInterval
<1>3. {hist'[k].rows[o].roi : k \in i..n} = {hist[k].rows[o].roi : k \in i..n}
  <2>1. \A k \in i..n : hist'[k] = hist[k]
    BY <1>0
  <2>2. QED BY <2>1
<1>4. LifecycleInterval(i, n, o, c)' = Ended(ts)
  BY <1>0, <1>1, <1>3 DEF LifecycleInterval
<1> HIDE DEF peak
<1>5. LifecycleInterval(i, n, o, c)' = [LifecycleInterval(i, n, o, c) EXCEPT !.left = ts]
  BY <1>2, <1>4
<1>6. QED BY <1>5 DEF IsIntervalOf

\* That of one that goes on advances.
LEMMA IntervalGoesOn ==
    ASSUME NEW ts, NEW rows, NEW n, Adds(ts, rows, n), NEW o \in Opps, NEW c \in Cats, NEW v,
           NEW i \in 1..n, NEW u, IsIntervalOf(u, i, n, o, c)
    PROVE  IsIntervalOf(v, i, n + 1, o, c)' <=> v = Advance(u, rows, ts)
<1>0. /\ n \in Nat /\ n = Len(hist) /\ Len(hist') = n + 1 /\ hist'[n + 1].rows = rows /\ hist'[n + 1].ts = ts
      /\ hist'[i] = hist[i]
  BY OneMore
<1> DEFINE peak == Max({hist[k].rows[o].roi : k \in i..n})
           best == Max({peak, rows[o].roi})
           before == [opp |-> o, cat |-> c, born |-> i, first |-> hist[i].ts,
                      last |-> hist[n].ts, left |-> Open,
                      bucket |-> hist[n].rows[o].bucket, peak |-> peak]
           after == [opp |-> o, cat |-> c, born |-> i, first |-> hist[i].ts,
                     last |-> ts, left |-> Open,
                     bucket |-> rows[o].bucket, peak |-> best]
<1>1. LifecycleInterval(i, n, o, c) = before
  <2>1. n = Len(hist)
    BY <1>0
  <2>2. QED BY <2>1 DEF LifecycleInterval
<1>2. Max({hist'[k].rows[o].roi : k \in i..(n + 1)}) = best
  BY PeakThen
<1>3. LifecycleInterval(i, n + 1, o, c)' = after
  BY <1>0, <1>2 DEF LifecycleInterval, Open
<1>4. Advance(before, rows, ts) = after
  <2> HIDE DEF peak
  <2>1. before.opp = o /\ before.peak = peak
    OBVIOUS
  <2>2. Advance(before, rows, ts)
          = [before EXCEPT !.last = ts, !.bucket = rows[o].bucket, !.peak = best]
    BY <2>1, Zenon DEF Advance
  <2> HIDE DEF best
  <2>3. QED BY <2>2
<1>5. QED BY <1>1, <1>3, <1>4 DEF IsIntervalOf

\* That of one that begins is opened.
LEMMA IntervalBegins ==
    ASSUME NEW ts, NEW rows, NEW n, Adds(ts, rows, n),
           NEW o \in Opps, NEW c \in Cats, NEW v
    PROVE  IsIntervalOf(v, n + 1, n + 1, o, c)'
             <=> v = [opp |-> o, cat |-> c, born |-> n + 1, first |-> ts, last |-> ts,
                      left |-> Open, bucket |-> rows[o].bucket, peak |-> rows[o].roi]
<1>1. /\ n \in Nat /\ n = Len(hist) /\ Len(hist') = n + 1 /\ hist'[n + 1].rows = rows /\ hist'[n + 1].ts = ts
      /\ rows[o].roi \in Nat
  BY OneMore
<1>2. {hist'[k].rows[o].roi : k \in (n + 1)..(n + 1)} = {rows[o].roi}
  BY <1>1
<1>3. Max({rows[o].roi}) = rows[o].roi
  BY <1>1, MaxIs
<1>4. QED BY <1>1, <1>2, <1>3 DEF IsIntervalOf, LifecycleInterval, Open

-----------------------------------------------------------------------------
\* The open intervals are those of the lifecycles that last, one each; the others are
\* those of lifecycles that have ended, as far as they are kept.
LEMMA OpenOrEnded ==
    ASSUME NEW ts, NEW rows, NEW n, Adds(ts, rows, n), NEW v
    PROVE  /\ v \in OpenIn(intervals) <=>
                \E i \in 1..n, o \in Opps, c \in Cats :
                    IsLifecycle(i, n, o, c) /\ IsIntervalOf(v, i, n, o, c)
           /\ v \in intervals \ OpenIn(intervals) <=>
                \E i, j \in 1..n, o \in Opps, c \in Cats :
                    /\ j # n /\ IsLifecycle(i, j, o, c) /\ IsIntervalOf(v, i, j, o, c)
                    /\ v.left + BacklogKeep >= hist[n].ts
<1> StoreInv /\ BacklogInv /\ n = Len(hist)
  BY DEF Adds
<1>1. n \in Nat /\ MaxTs \in Nat /\ Open = MaxTs + 1
  BY StoreConstants DEF StoreInv, StoredTypeOK, Open
<1>2. v \in intervals <=>
        \E i, j \in 1..n, o \in Opps, c \in Cats :
            /\ IsLifecycle(i, j, o, c) /\ IsIntervalOf(v, i, j, o, c)
            /\ Kept(v, hist[n].ts)
  BY DEF BacklogInv, IsEntry
<1>3. ASSUME NEW i \in 1..n, NEW j \in 1..n, NEW o \in Opps, NEW c \in Cats,
             IsIntervalOf(v, i, j, o, c)
      PROVE  v.left = Open <=> j = n
  <2>1. v.left = IF j = n THEN Open ELSE hist[j + 1].ts
    BY <1>3, LeftIs DEF IsIntervalOf
  <2>2. ASSUME j # n PROVE hist[j + 1].ts # Open
    <3>1. j + 1 \in 1..n
      BY <1>1, <2>2
    <3>2. hist[j + 1].ts \in Nat /\ hist[j + 1].ts <= MaxTs
      BY <3>1, WrittenTypes DEF StoreInv, StoredTypeOK, BacklogInv
    <3>3. QED BY <1>1, <3>2
  <2>3. QED BY <2>1, <2>2
<1>4. v \in OpenIn(intervals) <=> v \in intervals /\ v.left = Open
  BY DEF OpenIn
<1>5. ASSUME NEW i \in 1..n PROVE n \in 1..n
  BY <1>1
<1>6. QED BY <1>2, <1>3, <1>4, <1>5 DEF Kept

\* What the maintained table holds are entries of the history with the new scan.
LEMMA MaintainedIsEntry ==
    ASSUME NEW ts, NEW rows, NEW n, Adds(ts, rows, n),
           NEW v \in intervals'
    PROVE  \E i, j \in 1..(n + 1), o \in Opps, c \in Cats :
               IsLifecycle(i, j, o, c)' /\ IsIntervalOf(v, i, j, o, c)' /\ Kept(v, ts)
<1> DEFINE IsNew(i, j, o, c) == IsLifecycle(i, j, o, c)' /\ IsIntervalOf(v, i, j, o, c)'
<1>1. n \in Nat /\ intervals' = Maintained(intervals, rows, ts, n + 1)
  BY OneMore
<1>2. Begun /\ n = Len(hist)
  BY DEF Adds, BacklogInv
<1>3. Kept(v, ts)
  BY <1>1 DEF Maintained, Kept
<1>4. \/ v \in intervals \ OpenIn(intervals)
      \/ \E u \in OpenIn(intervals) :
            IsTracked(rows, u.opp, u.cat) /\ v = Advance(u, rows, ts)
      \/ \E u \in OpenIn(intervals) :
            ~IsTracked(rows, u.opp, u.cat) /\ v = [u EXCEPT !.left = ts]
      \/ v \in Opened(intervals, rows, ts, n + 1)
  BY <1>1 DEF Maintained
<1>5. 1..n \subseteq 1..(n + 1) /\ n + 1 \in 1..(n + 1) /\ \A i \in 1..n : n \in 1..n
  BY <1>1
<1>6. CASE v \in intervals \ OpenIn(intervals)
  <2>1. PICK i \in 1..n, j \in 1..n, o \in Opps, c \in Cats :
            j # n /\ IsLifecycle(i, j, o, c) /\ IsIntervalOf(v, i, j, o, c)
    BY <1>6, OpenOrEnded
  <2>2. IsNew(i, j, o, c)
    <3>1. IsLifecycle(i, j, o, c)'
      BY <2>1, LifecyclesThen
    <3>2. IsIntervalOf(v, i, j, o, c)'
      BY <2>1, IntervalStays
    <3>3. QED BY <3>1, <3>2
  <2>3. QED BY <1>3, <1>5, <2>2
<1>7. ASSUME NEW u \in OpenIn(intervals), IsTracked(rows, u.opp, u.cat), v = Advance(u, rows, ts)
      PROVE  \E i, j \in 1..(n + 1), o \in Opps, c \in Cats : IsNew(i, j, o, c)
  <2>1. PICK i \in 1..n, o \in Opps, c \in Cats :
            IsLifecycle(i, n, o, c) /\ IsIntervalOf(u, i, n, o, c)
    BY <1>7, OpenOrEnded
  <2>2. u.opp = o /\ u.cat = c
    BY <2>1, LeftIs DEF IsIntervalOf
  <2>3. IsNew(i, n + 1, o, c)
    <3>1. IsLifecycle(i, n + 1, o, c)'
      BY <1>7, <2>1, <2>2, LifecyclesThen
    <3>2. IsIntervalOf(v, i, n + 1, o, c)'
      BY <1>7, <2>1, IntervalGoesOn
    <3>3. QED BY <3>1, <3>2
  <2>4. QED BY <1>5, <2>3
<1>8. ASSUME NEW u \in OpenIn(intervals), ~IsTracked(rows, u.opp, u.cat), v = [u EXCEPT !.left = ts]
      PROVE  \E i, j \in 1..(n + 1), o \in Opps, c \in Cats : IsNew(i, j, o, c)
  <2>1. PICK i \in 1..n, o \in Opps, c \in Cats :
            IsLifecycle(i, n, o, c) /\ IsIntervalOf(u, i, n, o, c)
    BY <1>8, OpenOrEnded
  <2>2. u.opp = o /\ u.cat = c
    BY <2>1, LeftIs DEF IsIntervalOf
  <2>3. IsNew(i, n, o, c)
    <3>1. IsLifecycle(i, n, o, c)'
      BY <1>8, <2>1, <2>2, LifecyclesThen
    <3>2. IsIntervalOf(v, i, n, o, c)'
      BY <1>8, <2>1, IntervalEnds
    <3>3. QED BY <3>1, <3>2
  <2>4. QED BY <1>5, <2>3
<1>9. ASSUME v \in Opened(intervals, rows, ts, n + 1)
      PROVE  \E i, j \in 1..(n + 1), o \in Opps, c \in Cats : IsNew(i, j, o, c)
  <2>1. PICK o \in Opps :
          /\ rows[o].bucket \in Tracked
          /\ \A u \in OpenIn(intervals) : u.opp = o => u.cat # CatOf(rows[o])
          /\ v = [opp |-> o, cat |-> CatOf(rows[o]), born |-> n + 1, first |-> ts, last |-> ts,
                  left |-> Open, bucket |-> rows[o].bucket, peak |-> rows[o].roi]
    BY <1>9 DEF Opened
  <2> DEFINE c == CatOf(rows[o])
  <2>2. c \in Cats /\ IsTracked(rows, o, c)
    BY <2>1, TrackedIs DEF IsTracked
  <2>3. ~InCat(n, o, c)
    <3>1. SUFFICES ASSUME InCat(n, o, c) PROVE FALSE
      OBVIOUS
    <3>2. PICK i \in 1..n : IsLifecycle(i, n, o, c)
      BY <1>2, <2>2, <3>1 DEF Begun
    <3>3. LifecycleInterval(i, n, o, c) \in OpenIn(intervals)
      BY <2>2, <3>2, OpenOrEnded DEF IsIntervalOf
    <3>4. QED BY <2>1, <3>3, LeftIs
  <2> HIDE DEF c
  <2>4. IsNew(n + 1, n + 1, o, c)
    <3>1. IsLifecycle(n + 1, n + 1, o, c)'
      BY <2>2, <2>3, LifecyclesThen
    <3>2. IsIntervalOf(v, n + 1, n + 1, o, c)'
      BY <2>1, <2>2, IntervalBegins DEF c
    <3>3. QED BY <3>1, <3>2
  <2>5. QED BY <1>5, <2>2, <2>4
<1>10. QED BY <1>3, <1>4, <1>6, <1>7, <1>8, <1>9

\* And every entry of the history with the new scan is in the maintained table.
LEMMA EntryIsMaintained ==
    ASSUME NEW ts, NEW rows, NEW n, Adds(ts, rows, n),
           NEW i \in 1..(n + 1), NEW j \in 1..(n + 1), NEW o \in Opps, NEW c \in Cats,
           NEW v, IsLifecycle(i, j, o, c)', IsIntervalOf(v, i, j, o, c)', Kept(v, ts)
    PROVE  v \in intervals'
<1> DEFINE now == IsTracked(rows, o, c)
<1>1. /\ n \in Nat /\ intervals' = Maintained(intervals, rows, ts, n + 1)
      /\ ts \in Nat /\ \A k \in 1..n : hist[k].ts \in Nat /\ hist[k].ts <= ts
  BY OneMore
<1>2. BacklogInv /\ n = Len(hist) /\ BacklogKeep \in Nat
  BY StoreConstants DEF Adds
<1>3. i <= j
  BY DEF IsLifecycle
<1>4. \/ i \in 1..n /\ j \in 1..n /\ j # n
      \/ i \in 1..n /\ j = n
      \/ i \in 1..n /\ j = n + 1
      \/ i = n + 1 /\ j = n + 1
  BY <1>1, <1>3
<1>5. /\ v \in intervals \ OpenIn(intervals) => v \in intervals'
      /\ \A u \in OpenIn(intervals) : /\ IsTracked(rows, u.opp, u.cat) /\ v = Advance(u, rows, ts)
                                           => v \in intervals'
                                      /\ ~IsTracked(rows, u.opp, u.cat) /\ v = [u EXCEPT !.left = ts]
                                           => v \in intervals'
      /\ v \in Opened(intervals, rows, ts, n + 1) => v \in intervals'
  BY <1>1 DEF Maintained, Kept
<1>6. CASE i \in 1..n /\ j \in 1..n /\ j # n
  <2>1. IsLifecycle(i, j, o, c)
    BY <1>6, LifecyclesThen
  <2>2. IsIntervalOf(v, i, j, o, c)
    BY <1>6, IntervalStays
  <2>3. v.left = hist[j + 1].ts /\ j + 1 \in 1..n /\ n \in 1..n
    BY <1>1, <1>2, <1>6, <2>2, LeftIs DEF IsIntervalOf
  <2>4. v.left \in Nat /\ v.left # Open
    <3>1. hist[j + 1].ts <= MaxTs /\ MaxTs \in Nat /\ hist[j + 1].ts \in Nat
      BY <1>1, <1>2, <2>3, StoreConstants DEF BacklogInv
    <3>2. QED BY <2>3, <3>1 DEF Open
  <2>5. v.left + BacklogKeep >= hist[n].ts
    BY <1>1, <1>2, <2>3, <2>4 DEF Kept
  <2>6. v \in intervals \ OpenIn(intervals)
    BY <1>6, <2>1, <2>2, <2>5, OpenOrEnded
  <2>7. QED BY <1>5, <2>6
<1>7. ASSUME i \in 1..n, IsLifecycle(i, n, o, c)
      PROVE  \E u \in OpenIn(intervals) : IsIntervalOf(u, i, n, o, c) /\ u.opp = o /\ u.cat = c
  BY <1>7, LeftIs, OpenOrEnded DEF IsIntervalOf
<1>8. CASE i \in 1..n /\ j = n
  <2>1. IsLifecycle(i, n, o, c) /\ ~now
    BY <1>8, LifecyclesThen
  <2>2. PICK u \in OpenIn(intervals) : IsIntervalOf(u, i, n, o, c) /\ u.opp = o /\ u.cat = c
    BY <1>7, <1>8, <2>1
  <2>3. v = [u EXCEPT !.left = ts]
    BY <1>8, <2>2, IntervalEnds
  <2>4. QED BY <1>5, <2>1, <2>2, <2>3
<1>9. CASE i \in 1..n /\ j = n + 1
  <2>1. IsLifecycle(i, n, o, c) /\ now
    BY <1>9, LifecyclesThen
  <2>2. PICK u \in OpenIn(intervals) : IsIntervalOf(u, i, n, o, c) /\ u.opp = o /\ u.cat = c
    BY <1>7, <1>9, <2>1
  <2>3. v = Advance(u, rows, ts)
    BY <1>9, <2>2, IntervalGoesOn
  <2>4. QED BY <1>5, <2>1, <2>2, <2>3
<1>10. CASE i = n + 1 /\ j = n + 1
  <2>1. ~InCat(n, o, c) /\ now
    BY <1>10, LifecyclesThen
  <2>2. v = [opp |-> o, cat |-> c, born |-> n + 1, first |-> ts, last |-> ts,
             left |-> Open, bucket |-> rows[o].bucket, peak |-> rows[o].roi]
    BY <1>10, IntervalBegins
  <2>3. rows[o].bucket \in Tracked /\ CatOf(rows[o]) = c
    BY <2>1, TrackedIs DEF IsTracked
  <2>4. ASSUME NEW u \in OpenIn(intervals), u.opp = o PROVE u.cat # c
    <3>1. PICK k \in 1..n, p \in Opps, d \in Cats :
              IsLifecycle(k, n, p, d) /\ IsIntervalOf(u, k, n, p, d)
      BY <2>4, OpenOrEnded
    <3>2. p = o /\ u.cat = d
      BY <2>4, <3>1, LeftIs DEF IsIntervalOf
    <3>3. InCat(n, o, d)
      <4>1. n \in k..n
        BY <1>1, <3>1 DEF IsLifecycle
      <4>2. QED BY <3>1, <3>2, <4>1 DEF IsLifecycle
    <3>4. QED BY <2>1, <3>2, <3>3
  <2>5. v \in Opened(intervals, rows, ts, n + 1)
    BY <2>2, <2>3, <2>4 DEF Opened
  <2>6. QED BY <1>5, <2>5
<1>11. QED BY <1>4, <1>6, <1>8, <1>9, <1>10

\* So the first transaction keeps the table and the history in step.
LEMMA WriteBacklogInv ==
    ASSUME StoreInv, BacklogInv, NEW ts \in NextTs, NEW scan \in Scans, Write(ts, scan.rows, scan.size)
    PROVE  BacklogInv'
<1>1. PICK n, rows : n = Len(hist) /\ rows = scan.rows
  OBVIOUS
<1> Adds(ts, rows, n)
  BY <1>1 DEF Adds
<1>2. /\ n \in Nat /\ Len(hist') = n + 1 /\ hist'[n + 1].ts = ts /\ ts <= MaxTs /\ n + 1 \in 1..(n + 1)
      /\ \A k \in 1..n : hist'[k] = hist[k] /\ k \in 1..(n + 1)
      /\ \A k \in 1..(n + 1) : k \in 1..n \/ k = n + 1
      /\ hist'[n + 1].rows = rows
  BY OneMore
<1>3. \A k \in 1..Len(hist') : hist'[k].ts <= MaxTs
  BY <1>1, <1>2 DEF BacklogInv
<1>4. ASSUME NEW v PROVE (v \in intervals <=> IsEntry(v))'
  <2>1. IsEntry(v)' <=> \E i, j \in 1..(n + 1), o \in Opps, c \in Cats :
                            IsLifecycle(i, j, o, c)' /\ IsIntervalOf(v, i, j, o, c)' /\ Kept(v, ts)
    BY <1>2 DEF IsEntry, Kept
  <2>2. QED BY <2>1, MaintainedIsEntry, EntryIsMaintained
<1>5. Begun'
  <2>1. ASSUME NEW o \in Opps, NEW c \in Cats, InCat(n + 1, o, c)'
        PROVE  \E i \in 1..(n + 1) : IsLifecycle(i, n + 1, o, c)'
    <3>1. IsTracked(rows, o, c)
      BY <2>1, LifecyclesThen
    <3>2. CASE InCat(n, o, c)
      <4>1. PICK i \in 1..n : IsLifecycle(i, n, o, c)
        BY <1>1, <3>2 DEF BacklogInv, Begun
      <4>2. IsLifecycle(i, n + 1, o, c)'
        BY <3>1, <4>1, LifecyclesThen
      <4>3. QED BY <1>2, <4>2
    <3>3. CASE ~InCat(n, o, c)
      BY <1>2, <3>1, <3>3, LifecyclesThen
    <3>4. QED BY <3>2, <3>3
  <2>2. QED BY <1>2, <2>1 DEF Begun
<1>6. HasPeak'
  <2>1. ASSUME NEW i \in 1..(n + 1), NEW o \in Opps
        PROVE  \E k \in i..(n + 1) : \A l \in i..(n + 1) : hist'[l].rows[o].roi <= hist'[k].rows[o].roi
    <3>1. /\ hist'[n + 1].rows[o].roi \in Nat /\ n + 1 \in i..(n + 1)
          /\ \A l \in i..(n + 1) : l \in i..n \/ l = n + 1
          /\ \A l \in i..n : l \in i..(n + 1) /\ l \in 1..n
      BY <1>2, OneMore
    <3>2. CASE i = n + 1
      <4>1. \A l \in i..(n + 1) : l = n + 1
        BY <1>2, <3>2
      <4>2. QED BY <3>1, <4>1
    <3>3. CASE i \in 1..n
      <4>1. PICK k \in i..n : \A l \in i..n : hist[l].rows[o].roi <= hist[k].rows[o].roi
        BY <1>1, <3>3 DEF BacklogInv, HasPeak
      <4>2. \A l \in i..n : hist'[l] = hist[l] /\ hist[l].rows[o].roi \in Nat
        BY <3>1, OneMore
      <4>3. CASE hist[k].rows[o].roi >= hist'[n + 1].rows[o].roi
        BY <3>1, <4>1, <4>2, <4>3
      <4>4. CASE ~(hist[k].rows[o].roi >= hist'[n + 1].rows[o].roi)
        <5>1. \A l \in i..(n + 1) : hist'[l].rows[o].roi <= hist'[n + 1].rows[o].roi
          BY <3>1, <4>1, <4>2, <4>4
        <5>2. QED BY <3>1, <5>1
      <4>5. QED BY <4>3, <4>4
    <3>4. QED BY <1>2, <3>2, <3>3
  <2>2. QED BY <1>2, <2>1 DEF HasPeak
<1>7. QED BY <1>3, <1>4, <1>5, <1>6 DEF BacklogInv

-----------------------------------------------------------------------------
\* The table and the history agree after every scan, and no later step disturbs that: the
\* second transaction reads neither (_maintain_backlog_intervals runs in the first one).
THEOREM BacklogInvariance == Spec => []BacklogInv
<1>1. StoreInit => BacklogInv
  BY DEF StoreInit, BacklogInv, IsEntry, Begun, HasPeak, InCat
<1>2. StoreInv /\ BacklogInv /\ [Next]_vars => BacklogInv'
  <2> SUFFICES ASSUME StoreInv, BacklogInv, [Next]_vars PROVE BacklogInv'
    OBVIOUS
  <2>1. CASE hist' = hist /\ intervals' = intervals
    <3>1. \A i, j, o, c : IsLifecycle(i, j, o, c)' <=> IsLifecycle(i, j, o, c)
      BY <2>1 DEF IsLifecycle, InCat
    <3>2. \A v, i, j, o, c : IsIntervalOf(v, i, j, o, c)' <=> IsIntervalOf(v, i, j, o, c)
      BY <2>1 DEF IsIntervalOf, LifecycleInterval
    <3>3. \A v : IsEntry(v)' <=> IsEntry(v)
      BY <2>1, <3>1, <3>2 DEF IsEntry
    <3>4. Begun'
      <4>1. \A o, c : InCat(Len(hist), o, c)' <=> InCat(Len(hist), o, c)
        BY <2>1 DEF InCat
      <4>2. \A i, o, c : IsLifecycle(i, Len(hist), o, c)' <=> IsLifecycle(i, Len(hist), o, c)
        BY <2>1 DEF IsLifecycle, InCat
      <4>3. QED BY <2>1, <4>1, <4>2 DEF BacklogInv, Begun
    <3>5. HasPeak'
      BY <2>1 DEF BacklogInv, HasPeak
    <3>6. QED BY <2>1, <3>3, <3>4, <3>5 DEF BacklogInv
  <2>2. CASE \E ts \in NextTs, scan \in Scans : Write(ts, scan.rows, scan.size)
    BY <2>2, WriteBacklogInv
  <2>3. QED BY <2>1, <2>2 DEF Next, Tidy, TidyLost, vars
<1>3. QED BY <1>1, <1>2, StoreInvariance, PTL DEF Spec

\* BacklogIsHistory: the maintained table is the set of the lifecycles of all the scans
\* there ever were, without those that closed too long ago (store.py:578-675).
THEOREM BacklogIsHistoryHolds == Spec => []BacklogIsHistory
<1>1. BacklogInv => BacklogIsHistory
  BY EntriesAreHistory DEF BacklogInv
<1>2. QED BY <1>1, BacklogInvariance, PTL

-----------------------------------------------------------------------------
(* Every table of the store keeps to its columns and to the bounds.         *)
\* What the bounds of the model and the two transactions keep to.
ShapeInv ==
    /\ Len(hist) <= MaxWrites
    /\ phase \in {"idle", "tidy"} /\ tidied \in BOOLEAN

\* A row has a bucket and an ROI within the bound.
LEMMA RowTypes == \A rows \in Rows, o \in Opps : rows[o].roi \in 0..MaxRoi
<1>1. MaxRoi \in Nat
  BY StoreConstants
<1> SUFFICES ASSUME NEW rows \in Rows, NEW o \in Opps PROVE rows[o].roi \in 0..MaxRoi OBVIOUS
<1>2. rows[o] \in [bucket: Buckets, roi: 0..MaxRoi] \cup {NoRow}
  BY DEF Rows
<1>3. NoRow.roi \in 0..MaxRoi
  BY <1>1 DEF NoRow
<1>4. QED BY <1>2, <1>3

\* A bucket has at most as many rows as there are opportunities.
LEMMA CountAtMost == \A rows, b : CountIn(rows, b) \in 0..Cardinality(Opps)
<1> SUFFICES ASSUME NEW rows, NEW b PROVE CountIn(rows, b) \in 0..Cardinality(Opps) OBVIOUS
<1> DEFINE S == {o \in Opps : rows[o].bucket = b}
<1>1. IsFiniteSet(Opps) /\ S \in SUBSET Opps
  BY StoreConstants
<1> HIDE DEF S
<1>2. Cardinality(S) <= Cardinality(Opps) /\ Cardinality(S) \in Nat /\ Cardinality(Opps) \in Nat
  BY <1>1, FS_Subset, FS_CardinalityType
<1>3. QED BY <1>2 DEF S, CountIn

\* The interval of a lifecycle is a row of the table.
LEMMA LifecycleTypes ==
    ASSUME StoreInv, BacklogInv, ShapeInv,
           NEW i \in 1..Len(hist), NEW j \in 1..Len(hist), NEW o \in Opps, NEW c \in Cats,
           IsLifecycle(i, j, o, c)
    PROVE  LifecycleInterval(i, j, o, c) \in Interval
<1> DEFINE n == Len(hist)
           best == {hist[k].rows[o].roi : k \in i..j}
<1>1. n \in Nat /\ MaxTs \in Nat /\ MaxWrites \in Nat /\ MaxRoi \in Nat /\ hist \in Seq(Written)
  BY StoreConstants, WrittenTypes DEF StoreInv, StoredTypeOK
<1>2. \A k \in 1..n : hist[k].ts \in 0..MaxTs /\ hist[k].rows \in Rows
  <2>1. \A k \in 1..n : hist[k].ts \in Nat /\ hist[k].rows \in Rows /\ hist[k].ts <= MaxTs
    BY <1>1, WrittenTypes DEF BacklogInv
  <2>2. QED BY <1>1, <2>1
<1>3. i \in Ids
  BY <1>1 DEF ShapeInv, Ids
<1>4. (IF j = n THEN Open ELSE hist[j + 1].ts) \in 0..Open
  <2>1. CASE j = n
    BY <1>1, <2>1 DEF Open
  <2>2. CASE j # n
    <3>1. j + 1 \in 1..n
      BY <1>1, <2>2
    <3>2. QED BY <1>1, <1>2, <2>2, <3>1 DEF Open
  <2>3. QED BY <2>1, <2>2
<1>5. hist[j].rows[o].bucket \in Tracked
  <2>1. j \in i..j
    BY <1>1 DEF IsLifecycle
  <2>2. QED BY <2>1, TrackedIs DEF IsLifecycle, InCat
<1>6. Max(best) \in 0..MaxRoi
  <2>1. \A k \in i..j : k \in 1..n
    BY <1>1
  <2>2. best \in SUBSET (0..MaxRoi)
    BY <1>2, <2>1, RowTypes
  <2>3. hist[j].rows[o].roi \in best
    <3>1. j \in i..j
      BY <1>1 DEF IsLifecycle
    <3>2. QED BY <3>1
  <2> HIDE DEF best
  <2>4. best \subseteq Nat /\ IsFiniteSet(best) /\ best # {}
    <3>1. IsFiniteSet(0..MaxRoi)
      BY <1>1, FS_Interval
    <3>2. IsFiniteSet(best)
      BY <2>2, <3>1, FS_Subset
    <3>3. \A x \in 0..MaxRoi : x \in Nat
      BY <1>1
    <3>4. QED BY <2>2, <2>3, <3>2, <3>3
  <2>5. Max(best) \in best
    BY <2>4, Extremes
  <2>6. QED BY <2>2, <2>5
<1>7. LifecycleInterval(i, j, o, c) =
        [opp |-> o, cat |-> c, born |-> i, first |-> hist[i].ts, last |-> hist[j].ts,
         left |-> IF j = n THEN Open ELSE hist[j + 1].ts,
         bucket |-> hist[j].rows[o].bucket, peak |-> Max(best)]
  BY DEF LifecycleInterval
<1>8. c \in {"actionable", "bounded_loss"}
  BY DEF Cats
<1> HIDE DEF n, best
<1>9. hist[i].ts \in 0..MaxTs /\ hist[j].ts \in 0..MaxTs
  BY <1>2 DEF n
<1>10. QED BY <1>3, <1>4, <1>5, <1>6, <1>7, <1>8, <1>9 DEF Interval

\* ShapeInv holds in every reachable state.
LEMMA ShapeInvariance == Spec => []ShapeInv
<1>1. StoreInit => ShapeInv
  BY StoreConstants DEF StoreInit, ShapeInv
<1>2. StoreInv /\ ShapeInv /\ [Next]_vars => ShapeInv'
  <2> SUFFICES ASSUME StoreInv, ShapeInv, [Next]_vars PROVE ShapeInv' OBVIOUS
  <2>1. Len(hist) \in Nat /\ MaxWrites \in Nat /\ hist \in Seq(Written)
    BY StoreConstants, WrittenTypes DEF StoreInv, StoredTypeOK
  <2>2. ASSUME NEW ts \in NextTs, NEW scan \in Scans, Write(ts, scan.rows, scan.size)
        PROVE  ShapeInv'
    <3>1. /\ Len(hist) < MaxWrites /\ phase' = "tidy" /\ tidied' = FALSE
          /\ hist' = Append(hist, [ts |-> ts, rows |-> scan.rows, size |-> scan.size])
      BY <2>2 DEF Write
    <3>2. Len(hist') = Len(hist) + 1
      BY <2>1, <3>1
    <3>3. Len(hist') <= MaxWrites
      BY <2>1, <3>1, <3>2
    <3>4. phase' \in {"idle", "tidy"} /\ tidied' \in BOOLEAN
      BY <3>1
    <3>5. QED BY <3>3, <3>4 DEF ShapeInv
  <2>3. CASE Tidy \/ TidyLost \/ UNCHANGED vars
    BY <2>3 DEF Tidy, TidyLost, vars, ShapeInv
  <2>4. QED BY <2>2, <2>3 DEF Next
<1>3. QED BY <1>1, <1>2, StoreInvariance, PTL DEF Spec

\* StoreTypeOK: the tables and the history are of their types, with every field of an
\* interval and every count within its bounds.
THEOREM StoreTypes == Spec => []StoreTypeOK
<1>1. LimitsInv /\ BacklogInv /\ ShapeInv => StoreTypeOK
  <2> SUFFICES ASSUME LimitsInv, BacklogInv, ShapeInv PROVE StoreTypeOK OBVIOUS
  <2>1. StoreInv /\ StoredTypeOK /\ hist \in Seq(Written) /\ MaxTs \in Nat
    BY StoreConstants DEF LimitsInv, StoreInv, StoredTypeOK
  <2>2. \A i \in 1..Len(hist) : hist[i] \in [ts: 0..MaxTs, rows: Rows, size: Nat]
    <3>1. \A i \in 1..Len(hist) : hist[i] \in Written /\ hist[i].ts \in Nat /\ hist[i].ts <= MaxTs
      BY <2>1, WrittenTypes DEF BacklogInv
    <3>2. QED BY <2>1, <3>1 DEF Written
  <2>3. ASSUME NEW i \in DOMAIN snapshots
        PROVE  snapshots[i] \in [ts: 0..MaxTs, rows: Rows, counts: [TierBuckets -> 0..Cardinality(Opps)]]
    <3>1. snapshots[i] \in Stored /\ i \in 1..Len(hist)
      BY <2>1, <2>3 DEF StoredTypeOK
    <3>2. snapshots[i].ts \in 0..MaxTs
      <4>1. snapshots[i].ts = hist[i].ts
        BY <2>1, <2>3 DEF StoreInv, TimesInOrder
      <4>2. QED BY <2>2, <3>1, <4>1
    <3>3. \A b \in TierBuckets : snapshots[i].counts[b] \in 0..Cardinality(Opps)
      <4> SUFFICES ASSUME NEW b \in TierBuckets PROVE snapshots[i].counts[b] \in 0..Cardinality(Opps) OBVIOUS
      <4>1. CountIn(snapshots[i].rows, b) + snapshots[i].counts[b] = CountIn(hist[i].rows, b)
        BY <2>1, <2>3 DEF StoreInv, RowsAccounted
      <4>2. snapshots[i].counts[b] \in Nat
        BY <3>1 DEF Stored
      <4>3. CountIn(snapshots[i].rows, b) \in Nat /\ CountIn(hist[i].rows, b) \in 0..Cardinality(Opps)
            /\ Cardinality(Opps) \in Nat
        BY CountInNat, CountAtMost, StoreConstants, FS_CardinalityType
      <4>4. QED BY <4>1, <4>2, <4>3
    <3>4. snapshots[i].counts \in [TierBuckets -> 0..Cardinality(Opps)]
      BY <3>1, <3>3 DEF Stored
    <3>5. QED BY <3>1, <3>2, <3>4 DEF Stored
  <2>4. intervals \subseteq Interval
    <3> SUFFICES ASSUME NEW v \in intervals PROVE v \in Interval OBVIOUS
    <3>1. IsEntry(v)
      BY DEF BacklogInv
    <3>2. QED BY <2>1, <3>1, LifecycleTypes DEF IsEntry, IsIntervalOf
  <2>5. QED BY <2>1, <2>2, <2>3, <2>4 DEF LimitsInv, FramesAsWritten, ShapeInv, StoredTypeOK, StoreTypeOK
<1>2. QED BY <1>1, LimitsInvariance, BacklogInvariance, ShapeInvariance, PTL

-----------------------------------------------------------------------------
(* A read of several statements, between any writes of other threads, tells *)
(* the history it was asked for, and changes nothing.                       *)
\* Every snapshot of the retention window is stored.
WindowStored ==
    \A i \in 1..Len(hist) : hist[i].ts + Keep >= hist[Len(hist)].ts => i \in DOMAIN snapshots

\* A stored row is as it was written, or its bucket has been tiered away.
ThinnedOnly ==
    \A i \in DOMAIN snapshots : \A o \in Opps :
        LET was == hist[i].rows[o]
        IN snapshots[i].rows[o] \in {was} \cup IF was.bucket \in TierBuckets THEN {NoRow} ELSE {}

ServedInv == StoreInv /\ WindowStored /\ ThinnedOnly

-----------------------------------------------------------------------------
\* What the tier makes of the rows.
LEMMA TieredRows ==
    ASSUME NEW snap \in Stored
    PROVE  \A o \in Opps : Tiered(snap).rows[o] = IF snap.rows[o].bucket \in TierBuckets THEN NoRow ELSE snap.rows[o]
<1>1. Tiered(snap).rows = [o \in Opps |-> IF snap.rows[o].bucket \in TierBuckets THEN NoRow ELSE snap.rows[o]]
  BY DEF Tiered, Stored
<1>2. QED BY <1>1

\* The first transaction stores the new snapshot as it is and moves the window on.
LEMMA WriteServed ==
    ASSUME ServedInv, NEW ts \in NextTs, NEW scan \in Scans, Write(ts, scan.rows, scan.size)
    PROVE  ServedInv'
<1> DEFINE id == Len(hist) + 1
           new == [ts |-> ts, rows |-> scan.rows, size |-> scan.size]
           snap == [ts |-> ts, rows |-> scan.rows, counts |-> NoCounts]
<1>1. StoreInv /\ StoreInv'
  BY WriteInv DEF ServedInv
<1>2. /\ hist' = Append(hist, new)
      /\ snapshots' = [i \in DOMAIN snapshots \cup {id} |-> IF i = id THEN snap ELSE snapshots[i]]
      /\ snap.rows = scan.rows /\ new.rows = scan.rows
  BY DEF Write
<1> HIDE DEF new, snap
<1>3. /\ Len(hist) \in Nat /\ hist \in Seq(Written) /\ Len(hist') = id
      /\ hist'[id] = new /\ \A i \in 1..Len(hist) : hist'[i] = hist[i]
      /\ \A i \in DOMAIN snapshots : i \in 1..Len(hist)
  <2>1. Len(hist) \in Nat /\ hist \in Seq(Written) /\ \A i \in DOMAIN snapshots : i \in 1..Len(hist)
    BY <1>1, StoredIds DEF StoreInv, StoredTypeOK
  <2>2. QED BY <1>2, <2>1
<1>4. WindowStored'
  <2> SUFFICES ASSUME NEW i \in 1..id, hist'[i].ts + Keep >= hist'[id].ts PROVE i \in DOMAIN snapshots'
    BY <1>3 DEF WindowStored
  <2>1. CASE i = id
    BY <1>2, <2>1
  <2>2. CASE i # id
    <3>1. i \in 1..Len(hist) /\ Len(hist) \in 1..Len(hist) /\ Len(hist) \in 1..id /\ id \in 1..id
      BY <1>3, <2>2
    <3>2. hist'[Len(hist)].ts <= hist'[id].ts
      BY <1>1, <1>3, <3>1 DEF StoreInv, TimesInOrder
    <3>3. hist'[i].ts \in Nat /\ hist'[Len(hist)].ts \in Nat /\ hist'[id].ts \in Nat
      <4>1. hist' \in Seq(Written) /\ \A k \in 1..id : hist'[k] \in Written
        BY <1>1, <1>3 DEF StoreInv, StoredTypeOK
      <4>2. \A w \in Written : w.ts \in Nat
        BY DEF Written
      <4>3. QED BY <3>1, <4>1, <4>2
    <3>4. Keep \in Nat
      BY StoreConstants
    <3>5. hist[i].ts + Keep >= hist[Len(hist)].ts
      <4>1. hist'[i].ts + Keep >= hist'[Len(hist)].ts
        BY <3>2, <3>3, <3>4
      <4>2. QED BY <1>3, <3>1, <4>1
    <3>6. i \in DOMAIN snapshots
      BY <3>1, <3>5 DEF ServedInv, WindowStored
    <3>7. QED BY <1>2, <3>6
  <2>3. QED BY <2>1, <2>2
<1>5. ThinnedOnly'
  <2> SUFFICES ASSUME NEW i \in DOMAIN snapshots', NEW o \in Opps
               PROVE  snapshots'[i].rows[o] \in {hist'[i].rows[o]} \cup
                        IF hist'[i].rows[o].bucket \in TierBuckets THEN {NoRow} ELSE {}
    BY DEF ThinnedOnly
  <2>1. CASE i = id
    BY <1>2, <1>3, <2>1
  <2>2. CASE i # id
    <3>1. i \in DOMAIN snapshots /\ snapshots'[i] = snapshots[i] /\ hist'[i] = hist[i]
      BY <1>2, <1>3, <2>2
    <3>2. QED BY <3>1 DEF ServedInv, ThinnedOnly
  <2>3. QED BY <2>1, <2>2
<1>6. QED BY <1>1, <1>4, <1>5 DEF ServedInv

\* The second one drops nothing of the window, and thins.
LEMMA TidyServed == ServedInv /\ Tidy => ServedInv'
<1> SUFFICES ASSUME ServedInv, Tidy PROVE ServedInv' OBVIOUS
<1> DEFINE n == Len(hist)
           kept == [i \in InRetention(snapshots) |-> snapshots[i]]
<1>1. StoreInv /\ StoreInv' /\ hist' = hist
      /\ snapshots' = [i \in DOMAIN kept |-> IF i \in Older(kept) THEN Tiered(kept[i]) ELSE kept[i]]
  BY TidyInv DEF ServedInv, Tidy
<1>2. /\ DOMAIN kept = InRetention(snapshots) /\ DOMAIN kept \subseteq DOMAIN snapshots
      /\ \A i \in DOMAIN kept : kept[i] = snapshots[i]
  BY DEF InRetention
<1> HIDE DEF kept
<1>3. DOMAIN snapshots' = DOMAIN kept /\ \A i \in DOMAIN kept : snapshots'[i] \in {snapshots[i], Tiered(snapshots[i])}
  BY <1>1, <1>2
<1>4. WindowStored'
  <2> SUFFICES ASSUME NEW i \in 1..n, hist[i].ts + Keep >= hist[n].ts PROVE i \in DOMAIN kept
    BY <1>1, <1>3 DEF WindowStored
  <2>1. i \in DOMAIN snapshots
    BY DEF ServedInv, WindowStored
  <2>2. NewestTs(snapshots) = hist[n].ts
    <3>1. hist # <<>>
      OBVIOUS
    <3>2. QED BY <1>1, <3>1, NewestIsLast DEF StoreInv
  <2>3. snapshots[i].ts = hist[i].ts
    BY <1>1, <2>1 DEF StoreInv, TimesInOrder
  <2>4. QED BY <1>2, <2>1, <2>2, <2>3 DEF InRetention
<1>5. ThinnedOnly'
  <2> SUFFICES ASSUME NEW i \in DOMAIN kept, NEW o \in Opps
               PROVE  snapshots'[i].rows[o] \in {hist[i].rows[o]} \cup
                        IF hist[i].rows[o].bucket \in TierBuckets THEN {NoRow} ELSE {}
    BY <1>1, <1>3 DEF ThinnedOnly
  <2>1. i \in DOMAIN snapshots /\ snapshots[i] \in Stored
    BY <1>1, <1>2 DEF StoreInv, StoredTypeOK
  <2>2. snapshots[i].rows[o] \in {hist[i].rows[o]} \cup
          IF hist[i].rows[o].bucket \in TierBuckets THEN {NoRow} ELSE {}
    BY <2>1 DEF ServedInv, ThinnedOnly
  <2>3. snapshots'[i].rows[o] \in {snapshots[i].rows[o]} \cup
          IF snapshots[i].rows[o].bucket \in TierBuckets THEN {NoRow} ELSE {}
    BY <1>3, <2>1, TieredRows
  <2>4. QED BY <2>2, <2>3
<1>6. QED BY <1>1, <1>4, <1>5 DEF ServedInv

\* ServedInv holds in every reachable state.
LEMMA ServedInvariance == Spec => []ServedInv
<1>1. StoreInit => ServedInv
  BY InitStoreInv DEF StoreInit, ServedInv, WindowStored, ThinnedOnly
<1>2. ServedInv /\ [Next]_vars => ServedInv'
  <2> SUFFICES ASSUME ServedInv, [Next]_vars PROVE ServedInv' OBVIOUS
  <2>1. CASE TidyLost \/ UNCHANGED vars
    <3>1. UNCHANGED <<snapshots, frames, hist>>
      BY <2>1 DEF TidyLost, vars
    <3>2. QED BY <3>1 DEF ServedInv, WindowStored, ThinnedOnly, StoreInv, StoredTypeOK, TimesInOrder,
                          LastWhole, CountedOnce, RowsAccounted
  <2>2. QED BY <2>1, WriteServed, TidyServed DEF Next
<1>3. QED BY <1>1, <1>2, PTL DEF Spec

-----------------------------------------------------------------------------
(* The read.                                                                *)

\* The snapshots of its window among the first n scans.
WindowIds(n) ==
    {i \in 1..n : IF reader.kind = "pair" THEN i + 2 > n
                  ELSE hist[i].ts + reader.window >= reader.newest}

\* Retention does not reach into the window.
Untouched == \A i \in WindowIds(reader.upto) : hist[i].ts + Keep >= hist[Len(hist)].ts

IsReader ==
    /\ reader = [step |-> reader.step, kind |-> reader.kind, window |-> reader.window,
                 newest |-> reader.newest, upto |-> reader.upto, ids |-> reader.ids,
                 rows |-> reader.rows, sid |-> reader.sid, current |-> reader.current]
    /\ reader.window \in Nat /\ reader.newest \in Nat

\* The newest time was that of a scan that has been made.
BeforeList ==
    reader.step = "list" =>
        /\ hist # <<>> /\ reader.newest <= hist[Len(hist)].ts
        /\ DOMAIN reader.rows = {}

\* What was listed is the window of the scans up to then, and what was read of it is the rows
\* that were written.
AsListed ==
    reader.step \in {"rows", "resolve", "current", "done"} =>
        /\ reader.upto \in 1..Len(hist) /\ reader.upto \in reader.ids
        /\ reader.ids \subseteq 1..reader.upto /\ DOMAIN reader.rows \subseteq reader.ids
        /\ reader.step = "rows" <=> DOMAIN reader.rows # reader.ids
        /\ Untouched => /\ reader.ids = WindowIds(reader.upto)
                        /\ \A i \in DOMAIN reader.rows : reader.rows[i] = ActionableIn(hist[i].rows)

\* The current rows are those of one scan, none older than the window.
CurrentIs(rows) ==
    \A o \in Opps :
        LET was == hist[reader.sid].rows[o]
        IN rows[o] \in {was} \cup IF was.bucket \in TierBuckets THEN {NoRow} ELSE {}
AtPresent ==
    reader.step = "current" \/ (reader.step = "done" /\ reader.kind = "backlog") =>
        /\ reader.sid \in reader.upto..Len(hist)
        /\ reader.step = "done" /\ Untouched => CurrentIs(reader.current)

ReaderInv == IsReader /\ BeforeList /\ AsListed /\ AtPresent

-----------------------------------------------------------------------------
\* The two newest of the first n scans are the last two.
LEMMA LastTwo ==
    ASSUME StoreInv, NEW n \in 1..Len(hist)
    PROVE  NewestTwo(SubSeq(hist, 1, n)) = {i \in 1..n : i + 2 > n}
<1> DEFINE h == SubSeq(hist, 1, n)
           Later(i) == {j \in DOMAIN h : NewerIn(h, j, i)}
<1>1. hist \in Seq(Written) /\ Len(hist) \in Nat /\ \A i \in 1..Len(hist) : hist[i].ts \in Nat
  BY WrittenTypes DEF StoreInv, StoredTypeOK
<1>2. DOMAIN h = 1..n /\ \A i \in 1..n : h[i] = hist[i] /\ i \in 1..Len(hist)
  BY <1>1
<1> HIDE DEF h
<1>3. ASSUME NEW i \in 1..n PROVE Cardinality(Later(i)) < 2 <=> i + 2 > n
  <2>1. \A j \in 1..n : NewerIn(h, j, i) <=> j > i
    <3> SUFFICES ASSUME NEW j \in 1..n PROVE NewerIn(h, j, i) <=> j > i OBVIOUS
    <3>1. hist[i].ts \in Nat /\ hist[j].ts \in Nat /\ (i <= j => hist[i].ts <= hist[j].ts)
          /\ (j <= i => hist[j].ts <= hist[i].ts)
      BY <1>1, <1>2 DEF StoreInv, TimesInOrder
    <3>2. QED BY <1>2, <3>1 DEF NewerIn
  <2>2. Later(i) = (i + 1)..n
    BY <1>2, <2>1
  <2>3. i + 1 \in Int /\ n \in Int /\ Cardinality((i + 1)..n) = IF i + 1 > n THEN 0 ELSE n - (i + 1) + 1
    BY FS_Interval
  <2> HIDE DEF Later
  <2>4. QED BY <2>2, <2>3
<1>4. NewestTwo(h) = {i \in 1..n : Cardinality(Later(i)) < 2}
  BY <1>2 DEF NewestTwo
<1> HIDE DEF Later
<1>5. QED BY <1>3, <1>4 DEF h

\* The ids of the history are those of the window.
LEMMA HistoryIds ==
    ASSUME StoreInv, NEW n \in 1..Len(hist)
    PROVE  Asked(SubSeq(hist, 1, n)) = WindowIds(n)
<1>1. CASE reader.kind = "pair"
  BY <1>1, LastTwo DEF Asked, WindowIds
<1>2. CASE reader.kind # "pair"
  <2>1. hist \in Seq(Written) /\ Len(hist) \in Nat
    BY DEF StoreInv, StoredTypeOK
  <2>2. DOMAIN SubSeq(hist, 1, n) = 1..n /\ \A i \in 1..n : SubSeq(hist, 1, n)[i] = hist[i]
    BY <2>1
  <2>3. QED BY <1>2, <2>2 DEF Asked, Since, WindowIds
<1>3. QED BY <1>1, <1>2

\* The two newest stored snapshots are the last two scans when these are stored.
LEMMA StoredTwo ==
    ASSUME StoreInv, hist # <<>>,
           \A i \in 1..Len(hist) : i + 2 > Len(hist) => i \in DOMAIN snapshots
    PROVE  NewestTwo(snapshots) = {i \in 1..Len(hist) : i + 2 > Len(hist)}
<1> DEFINE n == Len(hist)
           Later(i) == {j \in DOMAIN snapshots : NewerIn(snapshots, j, i)}
<1>1. /\ n \in Nat /\ n \in 1..n /\ \A i \in 1..n : hist[i].ts \in Nat
      /\ \A i \in DOMAIN snapshots : i \in 1..n /\ i \in Nat
      /\ \A S \in SUBSET DOMAIN snapshots : IsFiniteSet(S)
  BY StoredIds, WrittenTypes DEF StoreInv, StoredTypeOK
<1>2. ASSUME NEW i \in DOMAIN snapshots, NEW j \in DOMAIN snapshots
      PROVE  NewerIn(snapshots, j, i) <=> j > i
  <2>1. /\ hist[i].ts \in Nat /\ hist[j].ts \in Nat /\ i \in Nat /\ j \in Nat
        /\ (i <= j => hist[i].ts <= hist[j].ts) /\ (j <= i => hist[j].ts <= hist[i].ts)
        /\ snapshots[i].ts = hist[i].ts /\ snapshots[j].ts = hist[j].ts
    BY <1>1 DEF StoreInv, TimesInOrder
  <2>2. QED BY <2>1 DEF NewerIn
<1>3. ASSUME NEW i \in DOMAIN snapshots, i + 2 > n PROVE Cardinality(Later(i)) < 2
  <2>1. Later(i) \in SUBSET {n}
    <3>1. \A j \in DOMAIN snapshots : j > i => j = n
      BY <1>1, <1>3
    <3>2. QED BY <1>2, <3>1
  <2> HIDE DEF Later, n
  <2>2. IsFiniteSet({n}) /\ Cardinality({n}) = 1
    BY FS_Singleton
  <2>3. Cardinality(Later(i)) <= 1 /\ IsFiniteSet(Later(i))
    BY <2>1, <2>2, FS_Subset
  <2>4. QED BY <2>3, FS_CardinalityType
<1>4. ASSUME NEW i \in DOMAIN snapshots, ~(i + 2 > n) PROVE ~(Cardinality(Later(i)) < 2)
  <2>1. /\ n - 1 \in 1..n /\ n - 1 # n /\ n \in 1..n /\ n - 1 > i /\ n > i
        /\ (n - 1) + 2 > n /\ n + 2 > n
    BY <1>1, <1>4
  <2>2. n \in DOMAIN snapshots /\ n - 1 \in DOMAIN snapshots
    BY <2>1
  <2>3. {n - 1, n} \in SUBSET Later(i) /\ Later(i) \in SUBSET DOMAIN snapshots
    BY <1>2, <2>1, <2>2
  <2> HIDE DEF Later, n
  <2>4. IsFiniteSet({n - 1, n}) /\ Cardinality({n - 1, n}) = 2
    BY <2>1, PairHasTwo
  <2>5. Cardinality({n - 1, n}) <= Cardinality(Later(i))
    BY <1>1, <2>3, FS_Subset
  <2>6. IsFiniteSet(Later(i))
    BY <1>1, <2>3, FS_Subset
  <2>7. QED BY <2>4, <2>5, <2>6, FS_CardinalityType
<1>5. NewestTwo(snapshots) = {i \in DOMAIN snapshots : Cardinality(Later(i)) < 2}
  BY DEF NewestTwo
<1> HIDE DEF Later
<1>6. QED BY <1>1, <1>3, <1>4, <1>5

\* What a read lists is the window of the scans so far when all of it is within the retention,
\* and the last scan is always in it.
LEMMA AskedIsWindow ==
    ASSUME ServedInv, IsReader, hist # <<>>, reader.newest <= hist[Len(hist)].ts
    PROVE  /\ Len(hist) \in Asked(snapshots) /\ Asked(snapshots) \subseteq 1..Len(hist)
           /\ (\A i \in WindowIds(Len(hist)) : hist[i].ts + Keep >= hist[Len(hist)].ts)
                 => Asked(snapshots) = WindowIds(Len(hist))
<1> DEFINE n == Len(hist)
<1>1. /\ StoreInv /\ n \in Nat /\ n \in 1..n /\ hist[n].ts \in Nat /\ n \in DOMAIN snapshots
      /\ \A i \in DOMAIN snapshots : i \in 1..n /\ snapshots[i].ts = hist[i].ts
      /\ reader.window \in Nat /\ reader.newest \in Nat
  BY StoredIds, WrittenTypes DEF ServedInv, StoreInv, StoredTypeOK, LastWhole, TimesInOrder, IsReader
<1>2. Asked(snapshots) \subseteq 1..n
  BY <1>1 DEF Asked, NewestTwo, Since
<1>3. n \in Asked(snapshots)
  <2>1. CASE reader.kind = "pair"
    <3>1. {j \in DOMAIN snapshots : NewerIn(snapshots, j, n)} = {}
      <4> SUFFICES ASSUME NEW j \in DOMAIN snapshots, NewerIn(snapshots, j, n) PROVE FALSE OBVIOUS
      <4>1. j \in 1..n /\ hist[j].ts \in Nat /\ hist[j].ts <= hist[n].ts
            /\ snapshots[j].ts = hist[j].ts /\ snapshots[n].ts = hist[n].ts
        BY <1>1, WrittenTypes DEF StoreInv, StoredTypeOK, TimesInOrder
      <4>2. QED BY <1>1, <4>1 DEF NewerIn
    <3>2. Cardinality({j \in DOMAIN snapshots : NewerIn(snapshots, j, n)}) = 0
      BY <3>1, FS_EmptySet
    <3>3. QED BY <1>1, <2>1, <3>2 DEF Asked, NewestTwo
  <2>2. CASE reader.kind # "pair"
    <3>1. hist[n].ts + reader.window >= reader.newest
      BY <1>1
    <3>2. QED BY <1>1, <2>2, <3>1 DEF Asked, Since
  <2>3. QED BY <2>1, <2>2
<1>4. ASSUME \A i \in WindowIds(n) : hist[i].ts + Keep >= hist[n].ts
      PROVE  Asked(snapshots) = WindowIds(n)
  <2>1. \A i \in WindowIds(n) : i \in DOMAIN snapshots
    BY <1>4 DEF ServedInv, WindowStored, WindowIds
  <2>2. CASE reader.kind = "pair"
    <3>1. WindowIds(n) = {i \in 1..n : i + 2 > n}
      BY <2>2 DEF WindowIds
    <3>2. NewestTwo(snapshots) = {i \in 1..n : i + 2 > n}
      BY <1>1, <2>1, <3>1, StoredTwo
    <3>3. QED BY <2>2, <3>1, <3>2 DEF Asked
  <2>3. CASE reader.kind # "pair"
    BY <1>1, <2>1, <2>3 DEF Asked, Since, WindowIds
  <2>4. QED BY <2>2, <2>3
<1>5. QED BY <1>2, <1>3, <1>4

\* The rows of a snapshot of the window are read as they were written, as far as they count.
LEMMA RowsRead ==
    ASSUME ServedInv, NEW i \in 1..Len(hist), hist[i].ts + Keep >= hist[Len(hist)].ts
    PROVE  /\ \A o \in Opps :
                LET was == hist[i].rows[o]
                IN StoredRows(i)[o] \in {was} \cup IF was.bucket \in TierBuckets THEN {NoRow} ELSE {}
           /\ ActionableIn(StoredRows(i)) = ActionableIn(hist[i].rows)
<1>1. i \in DOMAIN snapshots /\ StoredRows(i) = snapshots[i].rows
  BY DEF ServedInv, WindowStored, StoredRows
<1>2. \A o \in Opps :
        LET was == hist[i].rows[o]
        IN StoredRows(i)[o] \in {was} \cup IF was.bucket \in TierBuckets THEN {NoRow} ELSE {}
  BY <1>1 DEF ServedInv, ThinnedOnly
<1>3. \A o \in Opps : StoredRows(i)[o].bucket = "actionable" <=> hist[i].rows[o].bucket = "actionable"
  BY <1>2 DEF NoRow, TierBuckets
<1>4. QED BY <1>2, <1>3 DEF ActionableIn

-----------------------------------------------------------------------------
\* Scans are only ever added, each no earlier than the last.
LEMMA ScansGrow ==
    ASSUME StoreInv, StoreInv', [Next]_vars
    PROVE  /\ Len(hist) \in Nat /\ Len(hist') \in Nat /\ Len(hist) <= Len(hist')
           /\ \A i \in 1..Len(hist) : hist'[i] = hist[i] /\ i \in 1..Len(hist')
           /\ hist # <<>> => hist' # <<>> /\ hist[Len(hist)].ts <= hist'[Len(hist')].ts
<1>1. /\ Len(hist) \in Nat /\ Len(hist') \in Nat /\ hist \in Seq(Written) /\ hist' \in Seq(Written)
      /\ hist # <<>> => Len(hist) \in 1..Len(hist)
  BY DEF StoreInv, StoredTypeOK
<1>2. Len(hist) <= Len(hist') /\ \A i \in 1..Len(hist) : hist'[i] = hist[i] /\ i \in 1..Len(hist')
  <2>1. CASE hist' = hist
    BY <1>1, <2>1
  <2>2. ASSUME NEW ts \in NextTs, NEW scan \in Scans, Write(ts, scan.rows, scan.size)
        PROVE  Len(hist) <= Len(hist') /\ \A i \in 1..Len(hist) : hist'[i] = hist[i] /\ i \in 1..Len(hist')
    <3>1. hist' = Append(hist, [ts |-> ts, rows |-> scan.rows, size |-> scan.size])
      BY <2>2 DEF Write
    <3>2. Len(hist') = Len(hist) + 1 /\ \A i \in 1..Len(hist) : hist'[i] = hist[i]
      BY <1>1, <3>1
    <3>3. QED BY <1>1, <3>2
  <2>3. QED BY <2>1, <2>2 DEF Next, Tidy, TidyLost, vars
<1>3. ASSUME hist # <<>> PROVE hist' # <<>> /\ hist[Len(hist)].ts <= hist'[Len(hist')].ts
  <2>1. Len(hist) \in 1..Len(hist) /\ Len(hist) \in 1..Len(hist') /\ Len(hist') \in 1..Len(hist')
    BY <1>1, <1>2, <1>3
  <2>2. hist'[Len(hist)].ts <= hist'[Len(hist')].ts
    BY <1>2, <2>1 DEF StoreInv, TimesInOrder
  <2>3. QED BY <1>2, <2>1, <2>2
<1>4. QED BY <1>1, <1>2, <1>3

\* The times of scans are numbers.
LEMMA TimesAreNat == StoreInv => \A i \in 1..Len(hist) : hist[i].ts \in Nat
BY WrittenTypes DEF StoreInv, StoredTypeOK

\* A step of the store tells the reader nothing it did not know: the window of the scans up to
\* its listing stays, and only gets older.
LEMMA ReaderUnderStore ==
    ASSUME StoreInv, StoreInv', ReaderInv, [Next]_vars, UNCHANGED reader
    PROVE  ReaderInv'
<1>1. /\ Len(hist) \in Nat /\ Len(hist') \in Nat /\ Len(hist) <= Len(hist')
      /\ \A i \in 1..Len(hist) : hist'[i] = hist[i] /\ i \in 1..Len(hist')
      /\ hist # <<>> => hist' # <<>> /\ hist[Len(hist)].ts <= hist'[Len(hist')].ts
  BY ScansGrow
<1>2. ASSUME hist # <<>>
      PROVE  /\ hist[Len(hist)].ts \in Nat /\ hist'[Len(hist')].ts \in Nat
             /\ Keep \in Nat /\ reader.newest \in Nat
  <2>1. Len(hist) \in 1..Len(hist) /\ Len(hist') \in 1..Len(hist')
    BY <1>1, <1>2 DEF StoreInv, StoredTypeOK
  <2>2. hist[Len(hist)].ts \in Nat
    BY <2>1, TimesAreNat
  <2>3. hist'[Len(hist')].ts \in Nat
    <3>1. hist' \in Seq(Written) /\ hist'[Len(hist')] \in Written
      BY <2>1 DEF StoreInv, StoredTypeOK
    <3>2. QED BY <3>1 DEF Written
  <2>4. QED BY <2>2, <2>3, StoreConstants DEF ReaderInv, IsReader
<1>3. ASSUME reader.upto \in 1..Len(hist)
      PROVE  /\ WindowIds(reader.upto)' = WindowIds(reader.upto)
             /\ Untouched' => Untouched
  <2>1. \A i \in 1..reader.upto : i \in 1..Len(hist) /\ hist'[i] = hist[i]
    BY <1>1, <1>3
  <2>2. WindowIds(reader.upto)' = WindowIds(reader.upto)
    BY <2>1 DEF WindowIds
  <2>3. ASSUME Untouched', NEW i \in WindowIds(reader.upto) PROVE hist[i].ts + Keep >= hist[Len(hist)].ts
    <3>1. i \in 1..Len(hist) /\ hist'[i] = hist[i] /\ hist # <<>>
      BY <1>1, <1>3, <2>1 DEF WindowIds, StoreInv, StoredTypeOK
    <3>2. hist[i].ts \in Nat
      BY <3>1, TimesAreNat
    <3>3. hist[i].ts + Keep >= hist'[Len(hist')].ts
      BY <2>2, <2>3, <3>1 DEF Untouched
    <3>4. QED BY <1>1, <1>2, <3>1, <3>2, <3>3
  <2>4. QED BY <2>2, <2>3 DEF Untouched
<1>4. IsReader'
  BY DEF ReaderInv, IsReader
<1>5. BeforeList'
  BY <1>1, <1>2 DEF ReaderInv, BeforeList
<1>6. AsListed'
  <2> SUFFICES ASSUME reader.step \in {"rows", "resolve", "current", "done"}
               PROVE  /\ reader.upto \in 1..Len(hist') /\ reader.upto \in reader.ids
                      /\ reader.ids \subseteq 1..reader.upto /\ DOMAIN reader.rows \subseteq reader.ids
                      /\ reader.step = "rows" <=> DOMAIN reader.rows # reader.ids
                      /\ Untouched' => /\ reader.ids = WindowIds(reader.upto)'
                                       /\ \A i \in DOMAIN reader.rows : reader.rows[i] = ActionableIn(hist'[i].rows)
    BY DEF AsListed
  <2>1. /\ reader.upto \in 1..Len(hist) /\ reader.upto \in reader.ids
        /\ reader.ids \subseteq 1..reader.upto /\ DOMAIN reader.rows \subseteq reader.ids
        /\ reader.step = "rows" <=> DOMAIN reader.rows # reader.ids
        /\ Untouched => /\ reader.ids = WindowIds(reader.upto)
                        /\ \A i \in DOMAIN reader.rows : reader.rows[i] = ActionableIn(hist[i].rows)
    BY DEF ReaderInv, AsListed
  <2>2. \A i \in DOMAIN reader.rows : hist'[i] = hist[i]
    <3>1. \A i \in DOMAIN reader.rows : i \in 1..Len(hist)
      BY <1>1, <2>1
    <3>2. QED BY <1>1, <3>1
  <2>3. QED BY <1>1, <1>3, <2>1, <2>2
<1>7. AtPresent'
  <2> SUFFICES ASSUME reader.step = "current" \/ (reader.step = "done" /\ reader.kind = "backlog")
               PROVE  /\ reader.sid \in reader.upto..Len(hist')
                      /\ reader.step = "done" /\ Untouched' => CurrentIs(reader.current)'
    BY DEF AtPresent
  <2>1. /\ reader.sid \in reader.upto..Len(hist) /\ reader.upto \in 1..Len(hist)
        /\ reader.step = "done" /\ Untouched => CurrentIs(reader.current)
    BY DEF ReaderInv, AtPresent, AsListed
  <2>2. reader.sid \in 1..Len(hist) /\ reader.sid \in reader.upto..Len(hist')
    BY <1>1, <2>1
  <2>3. hist'[reader.sid] = hist[reader.sid]
    BY <1>1, <2>2
  <2>4. CurrentIs(reader.current)' <=> CurrentIs(reader.current)
    BY <2>3 DEF CurrentIs
  <2>5. QED BY <1>3, <2>1, <2>2, <2>4
<1>8. QED BY <1>4, <1>5, <1>6, <1>7 DEF ReaderInv

\* A read begins with the newest time there is.
LEMMA BeginReader ==
    ASSUME ServedInv, NEW kind, NEW window \in Nat, Begin(kind, window)
    PROVE  ReaderInv'
<1>1. /\ reader' = [NoRead EXCEPT !.step = "list", !.kind = kind, !.window = window,
                                  !.newest = NewestTs(snapshots)]
      /\ Len(hist) = ReadFrom /\ hist' = hist
  BY DEF Begin, vars
<1>2. hist # <<>> /\ Len(hist) \in 1..Len(hist)
  BY <1>1, ReadsAssumption DEF ServedInv, StoreInv, StoredTypeOK
<1>3. NewestTs(snapshots) = hist[Len(hist)].ts /\ hist[Len(hist)].ts \in Nat
  BY <1>2, NewestIsLast, TimesAreNat DEF ServedInv, StoreInv
<1>4. reader' = [step |-> "list", kind |-> kind, window |-> window, newest |-> hist[Len(hist)].ts,
                 upto |-> 0, ids |-> {}, rows |-> <<>>, sid |-> 0, current |-> <<>>]
  BY <1>1, <1>3 DEF NoRead
<1>5. /\ reader'.step = "list" /\ reader'.newest = hist[Len(hist)].ts /\ reader'.rows = <<>>
      /\ reader'.window = window
  BY <1>4
<1>6. IsReader'
  BY <1>3, <1>4 DEF IsReader
<1>7. BeforeList'
  BY <1>1, <1>2, <1>3, <1>5 DEF BeforeList
<1>8. AsListed' /\ AtPresent'
  BY <1>5 DEF AsListed, AtPresent
<1>9. QED BY <1>6, <1>7, <1>8 DEF ReaderInv

\* What is listed then is the window.
LEMMA ListReader ==
    ASSUME ServedInv, ReaderInv, List
    PROVE  ReaderInv'
<1> DEFINE n == Len(hist)
<1>1. /\ reader.step = "list" /\ hist' = hist
      /\ reader' = [reader EXCEPT !.step = "rows", !.upto = n, !.ids = Asked(snapshots)]
  BY DEF List, vars
<1>2. IsReader /\ hist # <<>> /\ reader.newest <= hist[n].ts /\ DOMAIN reader.rows = {}
  BY <1>1 DEF ReaderInv, BeforeList
<1>3. n \in 1..n
  BY <1>2 DEF ServedInv, StoreInv, StoredTypeOK
<1>4. reader' = [step |-> "rows", kind |-> reader.kind, window |-> reader.window,
                 newest |-> reader.newest, upto |-> n, ids |-> Asked(snapshots),
                 rows |-> reader.rows, sid |-> reader.sid, current |-> reader.current]
  BY <1>1, <1>2 DEF IsReader
<1>5. /\ n \in Asked(snapshots) /\ Asked(snapshots) \subseteq 1..n
      /\ (\A i \in WindowIds(n) : hist[i].ts + Keep >= hist[n].ts) => Asked(snapshots) = WindowIds(n)
  BY <1>2, AskedIsWindow
<1>6. reader'.step = "rows" /\ reader'.upto = n /\ reader'.ids = Asked(snapshots) /\ DOMAIN reader'.rows = {}
      /\ reader'.kind = reader.kind /\ reader'.window = reader.window /\ reader'.newest = reader.newest
  BY <1>2, <1>4
<1>7. WindowIds(reader.upto)' = WindowIds(n)
  BY <1>1, <1>6 DEF WindowIds
<1>8. Untouched' => \A i \in WindowIds(n) : hist[i].ts + Keep >= hist[n].ts
  BY <1>1, <1>7 DEF Untouched
<1>9. IsReader'
  BY <1>2, <1>4 DEF IsReader
<1>10. BeforeList' /\ AtPresent'
  BY <1>6 DEF BeforeList, AtPresent
<1>11. AsListed'
  <2>1. reader'.upto \in 1..Len(hist') /\ reader'.upto \in reader'.ids /\ reader'.ids \subseteq 1..reader'.upto
    BY <1>1, <1>3, <1>5, <1>6
  <2>2. DOMAIN reader'.rows \subseteq reader'.ids /\ DOMAIN reader'.rows # reader'.ids
    BY <1>5, <1>6
  <2>3. Untouched' => reader'.ids = WindowIds(reader.upto)'
    BY <1>5, <1>6, <1>7, <1>8
  <2>4. QED BY <1>6, <2>1, <2>2, <2>3 DEF AsListed
<1>12. QED BY <1>9, <1>10, <1>11 DEF ReaderInv

\* One more snapshot of the list is read, and it is the last when the read goes on.
LEMMA RowsReader ==
    ASSUME ServedInv, ReaderInv, ReadRows
    PROVE  ReaderInv'
<1> DEFINE left == reader.ids \ DOMAIN reader.rows
           id == IF reader.kind = "pair" THEN Max(left) ELSE Min(left)
           after == IF reader.kind = "backlog" THEN "resolve" ELSE "done"
           read == [i \in DOMAIN reader.rows \cup {id} |->
                      IF i = id THEN ActionableIn(StoredRows(id)) ELSE reader.rows[i]]
           step == IF left = {id} THEN after ELSE "rows"
<1>1. /\ reader.step = "rows" /\ UNCHANGED vars /\ hist' = hist
      /\ reader' = [reader EXCEPT !.rows = read, !.step = step]
  BY DEF ReadRows, vars
<1>2. /\ IsReader /\ reader.upto \in 1..Len(hist) /\ reader.upto \in reader.ids
      /\ reader.ids \subseteq 1..reader.upto /\ DOMAIN reader.rows \subseteq reader.ids
      /\ DOMAIN reader.rows # reader.ids
      /\ Untouched => /\ reader.ids = WindowIds(reader.upto)
                      /\ \A i \in DOMAIN reader.rows : reader.rows[i] = ActionableIn(hist[i].rows)
  BY <1>1 DEF ReaderInv, AsListed
<1>3. id \in left
  <2>1. left # {} /\ left \in SUBSET (1..reader.upto) /\ Len(hist) \in Nat
    <3>1. left # {}
      BY <1>2
    <3>2. \A i \in left : i \in 1..reader.upto
      BY <1>2
    <3>3. QED BY <3>1, <3>2 DEF ServedInv, StoreInv, StoredTypeOK
  <2>2. IsFiniteSet(1..reader.upto) /\ \A i \in 1..reader.upto : i \in Nat
    BY <1>2, <2>1, FS_Interval
  <2> HIDE DEF left
  <2>3. left \subseteq Nat /\ IsFiniteSet(left)
    BY <2>1, <2>2, FS_Subset
  <2>4. Max(left) \in left /\ Min(left) \in left
    BY <2>1, <2>3, Extremes
  <2>5. QED BY <2>4
<1>4. /\ id \in reader.ids /\ id \notin DOMAIN reader.rows
      /\ left = {id} <=> DOMAIN reader.rows \cup {id} = reader.ids
  <2> HIDE DEF id
  <2>1. QED BY <1>2, <1>3
<1> HIDE DEF left, id
<1>5. step \in {"rows", "resolve", "done"} /\ (step = "rows" <=> DOMAIN read # reader.ids)
      /\ (step = "done" => reader.kind # "backlog")
  BY <1>4
<1>6. DOMAIN read = DOMAIN reader.rows \cup {id} /\ read[id] = ActionableIn(StoredRows(id))
      /\ \A i \in DOMAIN reader.rows : read[i] = reader.rows[i]
  BY <1>4
<1> HIDE DEF read, step
<1>7. reader' = [step |-> step, kind |-> reader.kind, window |-> reader.window,
                 newest |-> reader.newest, upto |-> reader.upto, ids |-> reader.ids,
                 rows |-> read, sid |-> reader.sid, current |-> reader.current]
  BY <1>1, <1>2 DEF IsReader
<1>8. /\ reader'.step = step /\ reader'.kind = reader.kind /\ reader'.window = reader.window
      /\ reader'.newest = reader.newest /\ reader'.upto = reader.upto /\ reader'.ids = reader.ids
      /\ reader'.rows = read
  BY <1>7
<1>9. WindowIds(reader.upto)' = WindowIds(reader.upto)
  BY <1>1, <1>8 DEF WindowIds
<1>10. Untouched' => Untouched
  BY <1>1, <1>9 DEF Untouched
<1>11. ASSUME Untouched PROVE \A i \in DOMAIN read : read[i] = ActionableIn(hist[i].rows)
  <2>1. id \in 1..Len(hist)
    BY <1>2, <1>4 DEF ServedInv, StoreInv, StoredTypeOK
  <2>2. hist[id].ts + Keep >= hist[Len(hist)].ts
    BY <1>2, <1>4, <1>11 DEF Untouched
  <2>3. ActionableIn(StoredRows(id)) = ActionableIn(hist[id].rows)
    BY <2>1, <2>2, RowsRead
  <2>4. QED BY <1>2, <1>6, <1>11, <2>3
<1>12. IsReader'
  BY <1>2, <1>7 DEF IsReader
<1>13. BeforeList' /\ AtPresent'
  BY <1>5, <1>8 DEF BeforeList, AtPresent
<1>14. AsListed'
  <2>1. reader'.upto \in 1..Len(hist') /\ reader'.upto \in reader'.ids /\ reader'.ids \subseteq 1..reader'.upto
    BY <1>1, <1>2, <1>8
  <2>2. DOMAIN reader'.rows \subseteq reader'.ids /\ (reader'.step = "rows" <=> DOMAIN reader'.rows # reader'.ids)
    BY <1>2, <1>4, <1>5, <1>6, <1>8
  <2>3. Untouched' => /\ reader'.ids = WindowIds(reader.upto)'
                      /\ \A i \in DOMAIN reader'.rows : reader'.rows[i] = ActionableIn(hist'[i].rows)
    <3>1. \A rows : ActionableIn(rows)' = ActionableIn(rows)
      BY DEF ActionableIn
    <3>2. QED BY <1>1, <1>2, <1>8, <1>9, <1>10, <1>11, <3>1
  <2>4. QED BY <2>1, <2>2, <2>3 DEF AsListed
<1>15. QED BY <1>12, <1>13, <1>14 DEF ReaderInv

\* The latest snapshot is resolved: the last scan, which is no older than the window.
LEMMA ResolveReader ==
    ASSUME ServedInv, ReaderInv, Resolve
    PROVE  ReaderInv'
<1>1. /\ reader.step = "resolve" /\ UNCHANGED vars /\ hist' = hist
      /\ reader' = [reader EXCEPT !.step = "current", !.sid = LatestOf(snapshots)]
  BY DEF Resolve, vars
<1>2. IsReader /\ reader.upto \in 1..Len(hist) /\ reader.step \in {"rows", "resolve", "current", "done"}
  BY <1>1 DEF ReaderInv, AsListed
<1>3. LatestOf(snapshots) = Len(hist) /\ Len(hist) \in reader.upto..Len(hist)
  <2>1. Len(hist) \in Nat /\ hist # <<>>
    BY <1>2 DEF ServedInv, StoreInv, StoredTypeOK
  <2>2. QED BY <1>2, <2>1, NewestIsLast DEF ServedInv, StoreInv
<1>4. reader' = [step |-> "current", kind |-> reader.kind, window |-> reader.window,
                 newest |-> reader.newest, upto |-> reader.upto, ids |-> reader.ids,
                 rows |-> reader.rows, sid |-> Len(hist), current |-> reader.current]
  BY <1>1, <1>2, <1>3 DEF IsReader
<1>5. /\ reader'.step = "current" /\ reader'.kind = reader.kind /\ reader'.window = reader.window
      /\ reader'.newest = reader.newest /\ reader'.upto = reader.upto /\ reader'.ids = reader.ids
      /\ reader'.rows = reader.rows /\ reader'.sid = Len(hist)
  BY <1>4
<1>6. WindowIds(reader.upto)' = WindowIds(reader.upto)
  BY <1>1, <1>5 DEF WindowIds
<1>7. Untouched' => Untouched
  BY <1>1, <1>6 DEF Untouched
<1>8. IsReader'
  BY <1>2, <1>4 DEF IsReader
<1>9. BeforeList' /\ AtPresent'
  BY <1>1, <1>3, <1>5 DEF BeforeList, AtPresent
<1>10. AsListed'
  <2>1. \A rows : ActionableIn(rows)' = ActionableIn(rows)
    BY DEF ActionableIn
  <2>2. QED BY <1>1, <1>5, <1>6, <1>7, <2>1 DEF ReaderInv, AsListed
<1>11. QED BY <1>8, <1>9, <1>10 DEF ReaderInv

\* Its rows are read afterwards.
LEMMA CurrentReader ==
    ASSUME ServedInv, ReaderInv, ReadCurrent
    PROVE  ReaderInv'
<1>1. /\ reader.step = "current" /\ UNCHANGED vars /\ hist' = hist
      /\ reader' = [reader EXCEPT !.step = "done", !.current = StoredRows(reader.sid)]
  BY DEF ReadCurrent, vars
<1>2. IsReader /\ reader.upto \in 1..Len(hist) /\ reader.sid \in reader.upto..Len(hist)
  BY <1>1 DEF ReaderInv, AsListed, AtPresent
<1>3. reader' = [step |-> "done", kind |-> reader.kind, window |-> reader.window,
                 newest |-> reader.newest, upto |-> reader.upto, ids |-> reader.ids,
                 rows |-> reader.rows, sid |-> reader.sid, current |-> StoredRows(reader.sid)]
  BY <1>1, <1>2 DEF IsReader
<1>4. /\ reader'.step = "done" /\ reader'.kind = reader.kind /\ reader'.window = reader.window
      /\ reader'.newest = reader.newest /\ reader'.upto = reader.upto /\ reader'.ids = reader.ids
      /\ reader'.rows = reader.rows /\ reader'.sid = reader.sid /\ reader'.current = StoredRows(reader.sid)
  BY <1>3
<1>5. WindowIds(reader.upto)' = WindowIds(reader.upto)
  BY <1>1, <1>4 DEF WindowIds
<1>6. Untouched' => Untouched
  BY <1>1, <1>5 DEF Untouched
<1>7. ASSUME Untouched PROVE CurrentIs(StoredRows(reader.sid))
  <2>1. reader.upto \in WindowIds(reader.upto) /\ Len(hist) \in Nat /\ reader.sid \in 1..Len(hist)
    BY <1>1, <1>2, <1>7 DEF ReaderInv, AsListed, ServedInv, StoreInv, StoredTypeOK
  <2>2. hist[reader.upto].ts + Keep >= hist[Len(hist)].ts
    BY <1>7, <2>1 DEF Untouched
  <2>3. hist[reader.upto].ts <= hist[reader.sid].ts
    BY <1>2, <2>1 DEF ServedInv, StoreInv, TimesInOrder
  <2>4. /\ hist[reader.upto].ts \in Nat /\ hist[reader.sid].ts \in Nat /\ hist[Len(hist)].ts \in Nat
        /\ Keep \in Nat
    <3>1. Len(hist) \in 1..Len(hist)
      BY <2>1
    <3>2. QED BY <1>2, <2>1, <3>1, TimesAreNat, StoreConstants DEF ServedInv
  <2>5. hist[reader.sid].ts + Keep >= hist[Len(hist)].ts
    BY <2>2, <2>3, <2>4
  <2>6. QED BY <2>1, <2>5, RowsRead DEF CurrentIs
<1>8. IsReader'
  BY <1>2, <1>3 DEF IsReader
<1>9. BeforeList'
  BY <1>4 DEF BeforeList
<1>10. AtPresent'
  <2>1. CurrentIs(StoredRows(reader.sid)) => CurrentIs(reader.current)'
    BY <1>1, <1>4 DEF CurrentIs
  <2>2. QED BY <1>1, <1>2, <1>4, <1>6, <1>7, <2>1 DEF AtPresent
<1>11. AsListed'
  <2>1. \A rows : ActionableIn(rows)' = ActionableIn(rows)
    BY DEF ActionableIn
  <2>2. QED BY <1>1, <1>4, <1>5, <1>6, <2>1 DEF ReaderInv, AsListed
<1>12. QED BY <1>8, <1>9, <1>10, <1>11 DEF ReaderInv

-----------------------------------------------------------------------------
\* Reading changes nothing: what holds of the store holds while it is read.
THEOREM ReadsOnlyRead == ReadSpec => Spec
<1>1. ReadInit => StoreInit
  BY DEF ReadInit
<1>2. [ReadNext]_readVars => [Next]_vars
  BY DEF ReadNext, StoreStep, ReaderStep, Begin, List, ReadRows, Resolve, ReadCurrent, readVars, vars
<1>3. QED BY <1>1, <1>2, PTL DEF ReadSpec, Spec

\* ReaderInv holds in every reachable state.
THEOREM ReaderInvariance == ReadSpec => []ReaderInv
<1>1. ReadInit => ReaderInv
  <2> SUFFICES ASSUME ReadInit PROVE ReaderInv OBVIOUS
  <2>1. reader = [step |-> "none", kind |-> "none", window |-> 0, newest |-> 0, upto |-> 0,
                  ids |-> {}, rows |-> <<>>, sid |-> 0, current |-> <<>>]
    BY DEF ReadInit, NoRead
  <2>2. IsReader
    BY <2>1 DEF IsReader
  <2>3. BeforeList /\ AsListed /\ AtPresent
    BY <2>1 DEF BeforeList, AsListed, AtPresent
  <2>4. QED BY <2>2, <2>3 DEF ReaderInv
<1>2. ServedInv /\ ServedInv' /\ ReaderInv /\ [ReadNext]_readVars => ReaderInv'
  <2> SUFFICES ASSUME ServedInv, ServedInv', ReaderInv, [ReadNext]_readVars PROVE ReaderInv' OBVIOUS
  <2>1. CASE StoreStep \/ UNCHANGED readVars
    <3>1. [Next]_vars /\ UNCHANGED reader
      BY <2>1 DEF StoreStep, readVars, vars
    <3>2. QED BY <3>1, ReaderUnderStore DEF ServedInv
  <2>2. CASE ReaderStep
    <3>1. Windows \subseteq Nat /\ Keep \in Nat
      BY ReadsAssumption, StoreConstants
    <3>2. CASE \E w \in Windows : Begin("backlog", w)
      BY <3>1, <3>2, BeginReader
    <3>3. CASE Begin("persist", Keep) \/ Begin("pair", 0)
      BY <3>1, <3>3, BeginReader
    <3>4. QED BY <2>2, <3>2, <3>3, ListReader, RowsReader, ResolveReader, CurrentReader DEF ReaderStep
  <2>3. QED BY <2>1, <2>2 DEF ReadNext
<1>3. QED BY <1>1, <1>2, ReadsOnlyRead, ServedInvariance, PTL DEF ReadSpec

\* ReadsAreHistory: a read that is torn by scans, however many, answers as the complete history
\* of its window does while retention stays outside (engine.backlog, engine.alerts).
THEOREM ReadsAreHistoryHolds == ReadSpec => []ReadsAreHistory
<1>1. ServedInv /\ ReaderInv => ReadsAreHistory
  <2> SUFFICES ASSUME ServedInv, ReaderInv, reader.step = "done",
                      \A i \in DOMAIN History : hist[i].ts + Keep >= hist[Len(hist)].ts
               PROVE  /\ Answer(Listed) = Answer(History)
                      /\ reader.kind = "backlog" =>
                           /\ reader.sid >= Max(DOMAIN History)
                           /\ CurrentIs(reader.current)
    BY DEF ReadsAreHistory, CurrentIs
  <2>1. /\ reader.upto \in 1..Len(hist) /\ reader.upto \in reader.ids
        /\ reader.ids \subseteq 1..reader.upto /\ DOMAIN reader.rows = reader.ids
        /\ Untouched => /\ reader.ids = WindowIds(reader.upto)
                        /\ \A i \in DOMAIN reader.rows : reader.rows[i] = ActionableIn(hist[i].rows)
    BY DEF ReaderInv, AsListed
  <2>2. Asked(SubSeq(hist, 1, reader.upto)) = WindowIds(reader.upto)
    BY <2>1, HistoryIds DEF ServedInv
  <2>3. DOMAIN History = WindowIds(reader.upto) /\ Untouched
    BY <2>2 DEF History, Untouched
  <2>4. Listed = History
    BY <2>1, <2>2, <2>3 DEF Listed, History
  <2>5. ASSUME reader.kind = "backlog" PROVE reader.sid >= Max(DOMAIN History)
    <3>1. Max(reader.ids) = reader.upto
      <4>1. reader.upto \in Nat /\ reader.ids \in SUBSET Nat /\ \A i \in reader.ids : i <= reader.upto
        BY <2>1 DEF ServedInv, StoreInv, StoredTypeOK
      <4>2. QED BY <2>1, <4>1, MaxIs
    <3>2. reader.sid \in reader.upto..Len(hist)
      BY <2>5 DEF ReaderInv, AtPresent
    <3>3. reader.upto \in Nat /\ Len(hist) \in Nat
      BY <2>1 DEF ServedInv, StoreInv, StoredTypeOK
    <3>4. QED BY <2>1, <2>3, <3>1, <3>2, <3>3
  <2>6. reader.kind = "backlog" => CurrentIs(reader.current)
    BY <2>3 DEF ReaderInv, AtPresent
  <2>7. QED BY <2>4, <2>5, <2>6
<1>2. QED BY <1>1, ReadsOnlyRead, ServedInvariance, ReaderInvariance, PTL
==============================================================================
