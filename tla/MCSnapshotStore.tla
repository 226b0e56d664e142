--------------------------- MODULE MCSnapshotStore ---------------------------
(* HistoryReads and its SnapshotStore for TLC: two opportunities and one scan *)
(* result for each case the write path tells apart.                           *)
EXTENDS HistoryReads, TLC

CONSTANTS o1, o2

Row(bucket, roi) == [bucket |-> bucket, roi |-> roi]

Result(row1, row2, size) == [rows |-> (o1 :> row1) @@ (o2 :> row2), size |-> size]

MCScans == {
    Result(NoRow, NoRow, 0),                                     \* nothing was fetched
    Result(Row("actionable", 1), Row("no_structure", 0), 1),
    Result(Row("actionable", 2), NoRow, 3),                      \* over the byte budget
    Result(Row("risk_budget", 0), Row("actionable", 1), 2),
    Result(Row("near_miss", 1), Row("near_miss", 0), 1),         \* same category, tiered
    Result(Row("no_structure", 2), Row("no_structure", 0), 2)}   \* untracked, tiered
=============================================================================
