---------------------------- MODULE SingleFlight ----------------------------
(***************************************************************************)
(* What scan_manager.py promises the rest of the program, without its      *)
(* guards, threads or clock: scans run one at a time, a scan persists at   *)
(* most one snapshot, and a snapshot that was persisted stays.  A restart  *)
(* may end the scan in flight.                                             *)
(***************************************************************************)
EXTENDS Naturals

VARIABLES
    busy,     \* TRUE while a scan owns the upstream fetch and the store's writer
    wrote,    \* TRUE once the scan in flight has persisted its snapshot
    stored    \* how many snapshots have ever been persisted

vars == <<busy, wrote, stored>>

Init == busy = FALSE /\ wrote = FALSE /\ stored = 0

\* A trigger starts a scan only when none is in flight.
Begin ==
    /\ ~busy
    /\ busy' = TRUE
    /\ wrote' = FALSE
    /\ UNCHANGED stored

\* The scan in flight persists its one snapshot.
Persist ==
    /\ busy
    /\ ~wrote
    /\ wrote' = TRUE
    /\ stored' = stored + 1
    /\ UNCHANGED busy

\* The scan ends: done, failed, or lost with the process.
End ==
    /\ busy
    /\ busy' = FALSE
    /\ wrote' = FALSE
    /\ UNCHANGED stored

Next == Begin \/ Persist \/ End

Spec == Init /\ [][Next]_vars
=============================================================================
