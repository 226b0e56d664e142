---------------------------- MODULE LiveFeedProofs ----------------------------
(***************************************************************************)
(* The scan manager, for every number of callers, scans, restarts and      *)
(* seconds, and every TTL and cooldown; and the push side on top of it, for*)
(* any number of connections: the newest published feed is never lost on   *)
(* the way to a streaming client, and a scan announces at least what it    *)
(* has committed.                                                          *)
(***************************************************************************)
EXTENDS LiveFeed, SequenceTheorems, TLAPS

-----------------------------------------------------------------------------
(* The inductive invariant, part by part. *)

\* The manager's thread is the one scan between its start and its settling, and
\* the newest of all that were started.
FlightIsThread ==
    /\ \A t \in Threads : InFlight(t) <=> thread = t
    /\ thread # 0 => thread = started

StatusIsThread == (status.state = "in_progress") <=> (thread # 0)

StartedInOrder == \A t \in Threads : (pc[t] = "unborn") <=> (t > started)

\* Only a scan past its commit has a snapshot id; one that returned has succeeded.
SidAfterCommit ==
    \A t \in Threads :
        /\ pc[t] \in {"unborn", "fetch", "commit"} => run[t].sid = 0
        /\ pc[t] \in {"unborn", "fetch", "commit", "tidy"} => ~run[t].ok
        /\ pc[t] = "tidy" => run[t].sid = Len(snaps) /\ Len(snaps) > 0
        /\ pc[t] = "settle" /\ run[t].ok => run[t].sid = Len(snaps) /\ Len(snaps) > 0

\* Snapshots are committed in the order of their fetch stamps, none in the future.
SnapsSorted ==
    /\ \A i, j \in 1..Len(snaps) : i <= j => snaps[i].ts <= snaps[j].ts
    /\ \A i \in 1..Len(snaps) : snaps[i].ts <= clock

\* The scan about to commit was stamped after every stored snapshot, and, unless
\* forced, a TTL after it.
NextSnapSpaced ==
    \A t \in Threads :
        pc[t] \in {"fetch", "commit"} =>
            /\ run[t].ts <= clock
            /\ \A i \in 1..Len(snaps) :
                /\ snaps[i].ts <= run[t].ts
                /\ ~run[t].force => run[t].ts >= snaps[i].ts + Ttl

DoneIsLast == status.state = "done" => status.last = Len(snaps) /\ Len(snaps) > 0

\* What earlier scans left behind: the window of each is inside the manager's.
CooldownCovers ==
    /\ \A t \in Threads : run[t].boot <= boot /\ run[t].ended <= clock
    /\ \A t \in Threads : run[t].blown => ~InFlight(t)
    /\ \A t \in Threads : pc[t] = "unborn" => ~run[t].ok
    /\ \A t \in Threads :
        run[t].ok /\ run[t].blown /\ run[t].boot = boot
            => cooldownUntil >= run[t].ended + Cooldown

IInv ==
    /\ TypeOK
    /\ FlightIsThread
    /\ StatusIsThread
    /\ StartedInOrder
    /\ SidAfterCommit
    /\ SnapsSorted
    /\ NextSnapSpaced
    /\ TtlSpacing
    /\ DoneIsLast
    /\ CooldownCovers
    /\ CooldownHonoured

-----------------------------------------------------------------------------
(* The store's newest snapshot. *)

\* In a store whose snapshots are stamped in order, ORDER BY fetched_ts DESC, id
\* DESC LIMIT 1 yields the last one committed.
LEMMA LatestIsLast ==
    ASSUME NEW s \in Seq(Snap),
           \A i, j \in 1..Len(s) : i <= j => s[i].ts <= s[j].ts
    PROVE  Latest(s) = Len(s)
<1>1. CASE s = <<>>
  BY <1>1 DEF Latest
<1>2. CASE s # <<>>
  <2> DEFINE Newest(i) == \A j \in 1..Len(s) :
                            s[j].ts < s[i].ts \/ (s[j].ts = s[i].ts /\ j <= i)
  <2>1. Len(s) \in Nat /\ Len(s) > 0 /\ \A i \in 1..Len(s) : s[i].ts \in Nat
    <3>1. Len(s) \in Nat /\ Len(s) > 0
      BY <1>2
    <3>2. \A i \in 1..Len(s) : s[i] \in Snap
      BY ElementOfSeq
    <3>3. QED BY <3>1, <3>2 DEF Snap
  <2>2. Newest(Len(s)) /\ Len(s) \in 1..Len(s)
    BY <2>1
  <2>3. \A i \in 1..Len(s) : Newest(i) => i = Len(s)
    BY <2>1
  <2>4. Latest(s) = CHOOSE i \in 1..Len(s) : Newest(i)
    BY <1>2 DEF Latest
  <2> HIDE DEF Newest
  <2>5. QED BY <2>1, <2>2, <2>3, <2>4
<1>3. QED BY <1>1, <1>2

\* The types of what the actions compare.
LEMMA FieldTypes ==
    ASSUME TypeOK
    PROVE  /\ \A t \in Threads : run[t] \in Run
           /\ \A t \in Threads :
                /\ run[t].ts \in Nat /\ run[t].boot \in Nat /\ run[t].sid \in Nat /\ run[t].ended \in Nat
                /\ run[t].ok \in BOOLEAN /\ run[t].blown \in BOOLEAN /\ run[t].force \in BOOLEAN
           /\ Len(snaps) \in Nat
           /\ \A i \in 1..Len(snaps) : snaps[i].ts \in Nat /\ snaps[i].force \in BOOLEAN
<1>1. \A t \in Threads : run[t] \in Run
  BY DEF TypeOK
<1>2. Len(snaps) \in Nat
  BY DEF TypeOK
<1>3. \A i \in 1..Len(snaps) : snaps[i] \in Snap
  BY ElementOfSeq DEF TypeOK
<1>4. QED BY <1>1, <1>2, <1>3 DEF Run, Snap

\* The TTL guard, as a distance between two stamps.
LEMMA AgeAtLeast ==
    ASSUME NEW now \in Nat, NEW old \in Nat, NEW new \in Nat, NEW ttl \in Nat,
           old <= new, ~(now - new < ttl)
    PROVE  now >= old + ttl
OBVIOUS

\* A scan's record stays one when it learns its snapshot id.
LEMMA RunWithSid ==
    ASSUME NEW r \in Run, NEW n \in Nat
    PROVE  [r EXCEPT !.sid = n] \in Run
BY DEF Run

-----------------------------------------------------------------------------
(* The invariant holds initially and every action preserves it. *)

\* Nothing runs and nothing is stored at the start.
LEMMA InitIInv == Init => IInv
<1> SUFFICES ASSUME Init PROVE IInv OBVIOUS
<1>1. TypeOK
  BY ConstantsAssumption DEF Init, TypeOK, Threads, PCs, FlightPC, Run, NoRun, Status, States, IdleStatus
<1>2. FlightIsThread /\ StatusIsThread /\ StartedInOrder
  BY ConstantsAssumption DEF Init, FlightIsThread, StatusIsThread, StartedInOrder, InFlight, FlightPC,
     Threads, IdleStatus
<1>3. SidAfterCommit /\ SnapsSorted /\ NextSnapSpaced /\ TtlSpacing /\ DoneIsLast
  BY DEF Init, SidAfterCommit, SnapsSorted, NextSnapSpaced, TtlSpacing, DoneIsLast, NoRun, IdleStatus
<1>4. CooldownCovers /\ CooldownHonoured
  BY DEF Init, CooldownCovers, CooldownHonoured, NoRun, InFlight
<1>5. QED BY <1>1, <1>2, <1>3, <1>4 DEF IInv

\* A skipped trigger: only the status changes, and the manager was free.
LEMMA SkipIInv ==
    ASSUME IInv, NEW c \in Callers, SkipCooldown(c) \/ SkipTtl(c)
    PROVE  IInv'
<1> USE ConstantsAssumption DEF SkipCooldown, SkipTtl, Skip, Running, managerVars, threadVars
<1>1. TypeOK'
  BY DEF IInv, TypeOK, Status, States, Run, PCs, FlightPC, Threads
<1>2. StatusIsThread'
  BY DEF IInv, TypeOK, StatusIsThread, Status
<1>3. DoneIsLast'
  BY DEF IInv, TypeOK, DoneIsLast, Status
<1>4. FlightIsThread' /\ StartedInOrder' /\ SidAfterCommit' /\ SnapsSorted'
        /\ NextSnapSpaced' /\ TtlSpacing' /\ CooldownCovers' /\ CooldownHonoured'
  <2>1. UNCHANGED <<clock, boot, thread, cooldownUntil, started, pc, run, snaps>>
    OBVIOUS
  <2> HIDE DEF SkipCooldown, SkipTtl, Skip
  <2>2. FlightIsThread' /\ StartedInOrder' /\ SidAfterCommit'
    BY <2>1 DEF IInv, FlightIsThread, StartedInOrder, SidAfterCommit, InFlight
  <2>3. SnapsSorted' /\ NextSnapSpaced' /\ TtlSpacing'
    BY <2>1 DEF IInv, SnapsSorted, NextSnapSpaced, TtlSpacing
  <2>4. CooldownCovers' /\ CooldownHonoured'
    BY <2>1 DEF IInv, CooldownCovers, CooldownHonoured, InFlight
  <2>5. QED BY <2>2, <2>3, <2>4
<1>5. QED
  BY <1>1, <1>2, <1>3, <1>4 DEF IInv

\* A caller that joins or returns changes nothing of the manager.
LEMMA WaitIInv ==
    ASSUME IInv, NEW c \in Callers, JoinRunning(c) \/ Return(c)
    PROVE  IInv'
<1> USE ConstantsAssumption DEF JoinRunning, Return, managerVars, threadVars
<1>1. TypeOK'
  BY DEF IInv, TypeOK
<1>2. FlightIsThread' /\ StatusIsThread' /\ StartedInOrder' /\ SidAfterCommit'
        /\ SnapsSorted' /\ NextSnapSpaced' /\ TtlSpacing' /\ DoneIsLast'
        /\ CooldownCovers' /\ CooldownHonoured'
  BY DEF IInv, FlightIsThread, StatusIsThread, StartedInOrder, SidAfterCommit, SnapsSorted, NextSnapSpaced, TtlSpacing, DoneIsLast, CooldownCovers, CooldownHonoured, InFlight, managerVars, threadVars
<1>3. QED
  BY <1>1, <1>2 DEF IInv

\* A started scan is stamped now: after every stored snapshot, and, when the guards
\* let a non-forced trigger through, a TTL after the newest and past every cooldown.
LEMMA StartScanIInv ==
    ASSUME IInv, NEW c \in Callers, NEW f \in BOOLEAN, StartScan(c, f)
    PROVE  IInv'
<1> USE ConstantsAssumption DEF StartScan, NoRun, Running
<1>1. Latest(snaps) = Len(snaps)
  BY LatestIsLast DEF IInv, TypeOK, SnapsSorted
<1>2. TypeOK'
  <2>1. started + 1 \in Threads
    BY DEF IInv, TypeOK, Threads
  <2>2. [NoRun EXCEPT !.force = f, !.ts = clock, !.boot = boot] \in Run
    BY DEF IInv, TypeOK, Run, NoRun
  <2>3. status' \in Status
    BY <1>1 DEF IInv, TypeOK, Status, States
  <2>4. QED BY <2>1, <2>2, <2>3 DEF IInv, TypeOK, PCs, FlightPC, Threads
<1>3. FlightIsThread'
  BY DEF IInv, TypeOK, FlightIsThread, InFlight, FlightPC, Threads
<1>4. StatusIsThread'
  BY DEF IInv, TypeOK, StatusIsThread, InFlight, FlightPC, Threads
<1>5. StartedInOrder'
  BY DEF IInv, TypeOK, StartedInOrder, InFlight, FlightPC, Threads, FlightIsThread
<1>6. SidAfterCommit'
  BY DEF IInv, TypeOK, SidAfterCommit, Threads, StartedInOrder
<1>7. NextSnapSpaced'
  <2> DEFINE t == started + 1
  <2>1. t \in Threads /\ run'[t].ts = clock /\ run'[t].force = f /\ pc'[t] = "fetch"
    BY DEF IInv, TypeOK, Threads
  <2>2. \A u \in Threads : u # t => pc'[u] \notin {"fetch", "commit"}
    BY DEF IInv, TypeOK, FlightIsThread, InFlight, FlightPC, Threads
  <2>3. \A i \in 1..Len(snaps) : snaps[i].ts \in Nat /\ snaps[i].ts <= clock
    BY FieldTypes DEF IInv, SnapsSorted
  <2>4. ASSUME ~f, NEW i \in 1..Len(snaps)
        PROVE  clock >= snaps[i].ts + Ttl
    <3>1. snaps # <<>> /\ Len(snaps) \in Nat
      BY DEF IInv, TypeOK
    <3>2. ~(clock - snaps[Len(snaps)].ts < Ttl)
      BY <1>1, <2>4, <3>1 DEF TtlFresh
    <3>3. Len(snaps) \in 1..Len(snaps) /\ snaps[i].ts <= snaps[Len(snaps)].ts
      BY <3>1 DEF IInv, SnapsSorted
    <3>4. clock \in Nat /\ snaps[i].ts \in Nat /\ snaps[Len(snaps)].ts \in Nat
      BY <2>3, <3>3 DEF IInv, TypeOK
    <3> HIDE DEF StartScan
    <3>5. QED BY <3>2, <3>3, <3>4, AgeAtLeast, ConstantsAssumption
  <2> HIDE DEF t
  <2>5. clock \in Nat /\ clock' = clock /\ snaps' = snaps
    BY DEF IInv, TypeOK
  <2>6. QED BY <2>1, <2>2, <2>3, <2>4, <2>5 DEF NextSnapSpaced
<1>8. DoneIsLast'
  BY DEF IInv, TypeOK, DoneIsLast
<1>9. CooldownCovers'
  BY DEF IInv, TypeOK, CooldownCovers, StartedInOrder, InFlight, FlightPC, Threads
<1>10. CooldownHonoured'
  <2> DEFINE s == started + 1
  <2>1. s \in Threads /\ 1..started \subseteq Threads /\ started' = s
        /\ 1..started' = (1..started) \cup {s}
    BY DEF IInv, TypeOK, Threads
  <2>2. \A t \in Threads : t # s => run'[t] = run[t]
    BY <2>1 DEF IInv, TypeOK
  <2>3. run'[s].ts = clock /\ run'[s].boot = boot /\ run'[s].force = f
        /\ run'[s].ok = FALSE /\ s \notin 1..started
    BY <2>1 DEF IInv, TypeOK
  <2>4. ASSUME NEW t \in 1..started, run[t].ok, run[t].blown, run[t].boot = boot, ~f
        PROVE  clock >= run[t].ended + Cooldown
    <3>1. cooldownUntil >= run[t].ended + Cooldown
      BY <2>1, <2>4 DEF IInv, CooldownCovers
    <3>2. ~(cooldownUntil > clock)
      BY <2>4 DEF CooldownActive
    <3>3. clock \in Nat /\ cooldownUntil \in Nat /\ run[t].ended \in Nat
      BY <2>1, FieldTypes DEF IInv, TypeOK
    <3> HIDE DEF StartScan
    <3>4. QED BY <3>1, <3>2, <3>3, ConstantsAssumption
  <2>5. QED BY <2>1, <2>2, <2>3, <2>4 DEF IInv, CooldownHonoured
<1>11. SnapsSorted' /\ TtlSpacing'
  BY DEF IInv, SnapsSorted, TtlSpacing, InFlight, managerVars, threadVars
<1>12. QED
  BY <1>2, <1>3, <1>4, <1>5, <1>6, <1>7, <1>8, <1>9, <1>10, <1>11 DEF IInv

\* The end of the fetch moves the scan within its flight.
LEMMA FetchedIInv ==
    ASSUME IInv, NEW t \in Threads, Fetched(t)
    PROVE  IInv'
<1> USE ConstantsAssumption DEF Fetched, managerVars
<1>1. TypeOK'
  BY DEF IInv, TypeOK, Status, States, Run, PCs, FlightPC, Threads
<1>2. FlightIsThread'
  BY DEF IInv, TypeOK, FlightIsThread, InFlight, FlightPC, Threads
<1>3. StartedInOrder'
  BY DEF IInv, TypeOK, StartedInOrder, InFlight, FlightPC, Threads
<1>4. SidAfterCommit'
  BY DEF IInv, TypeOK, SidAfterCommit, InFlight, FlightPC, Threads
<1>5. NextSnapSpaced'
  BY DEF IInv, TypeOK, NextSnapSpaced, InFlight, FlightPC, Threads
<1>6. CooldownCovers'
  BY DEF IInv, TypeOK, CooldownCovers, InFlight, FlightPC, Threads
<1>7. StatusIsThread' /\ SnapsSorted' /\ TtlSpacing' /\ DoneIsLast'
        /\ CooldownHonoured'
  BY DEF IInv, StatusIsThread, SnapsSorted, TtlSpacing, DoneIsLast, CooldownHonoured, InFlight, managerVars, threadVars
<1>8. QED
  BY <1>1, <1>2, <1>3, <1>4, <1>5, <1>6, <1>7 DEF IInv

\* The commit appends a snapshot stamped after all others; nothing else was
\* about to commit, and the status says "in_progress".
LEMMA CommitIInv ==
    ASSUME IInv, NEW t \in Threads, Commit(t)
    PROVE  IInv'
<1> USE ConstantsAssumption DEF Commit, managerVars
<1>1. /\ Len(snaps) \in Nat /\ Len(snaps') = Len(snaps) + 1
      /\ \A i \in 1..Len(snaps) : snaps'[i] = snaps[i]
      /\ snaps'[Len(snaps) + 1] = [ts |-> run[t].ts, force |-> run[t].force]
      /\ run[t] \in Run
      /\ snaps' \in Seq(Snap)
  <2>1. run[t] \in Run /\ snaps \in Seq(Snap)
    BY DEF IInv, TypeOK
  <2>2. [ts |-> run[t].ts, force |-> run[t].force] \in Snap
    BY <2>1 DEF Run, Snap
  <2>3. QED BY <2>1, <2>2, AppendProperties
<1>2. /\ run[t].ts \in Nat /\ run[t].ts <= clock
      /\ \A i \in 1..Len(snaps) :
            /\ snaps[i].ts \in Nat
            /\ snaps[i].ts <= run[t].ts
            /\ ~run[t].force => run[t].ts >= snaps[i].ts + Ttl
  <2>1. \A i \in 1..Len(snaps) : snaps[i] \in Snap
    BY ElementOfSeq DEF IInv, TypeOK
  <2>2. QED BY <1>1, <2>1 DEF IInv, NextSnapSpaced, Run, Snap, Threads
<1>3. TypeOK'
  <2>1. run' \in [Threads -> Run]
    <3>1. [run[t] EXCEPT !.sid = Len(snaps) + 1] \in Run
      <4>1. run[t] \in Run /\ Len(snaps) + 1 \in Nat
        BY <1>1
      <4>2. QED BY <4>1, RunWithSid, Zenon
    <3>2. run' = [run EXCEPT ![t] = [run[t] EXCEPT !.sid = Len(snaps) + 1]]
      OBVIOUS
    <3>3. QED BY <3>1, <3>2 DEF IInv, TypeOK
  <2>2. pc' \in [Threads -> PCs]
    BY DEF IInv, TypeOK, PCs, FlightPC
  <2>3. QED BY <1>1, <2>1, <2>2 DEF IInv, TypeOK
<1>4. FlightIsThread'
  BY DEF IInv, TypeOK, FlightIsThread, InFlight, FlightPC, Threads
<1>5. StartedInOrder'
  BY DEF IInv, TypeOK, StartedInOrder, InFlight, FlightPC, Threads
<1>6. SidAfterCommit'
  <2>1. \A u \in Threads : u # t => pc[u] \notin FlightPC /\ pc'[u] = pc[u] /\ run'[u] = run[u]
    BY DEF IInv, TypeOK, FlightIsThread, InFlight, FlightPC
  <2>2. pc'[t] = "tidy" /\ run'[t].sid = Len(snaps) + 1 /\ run'[t].ok = run[t].ok
    BY <1>1 DEF IInv, TypeOK, Run
  <2>3. QED BY <1>1, <2>1, <2>2 DEF IInv, SidAfterCommit, FlightPC
<1>7. SnapsSorted'
  <2>1. \A i \in 1..Len(snaps') : i \in 1..Len(snaps) \/ i = Len(snaps')
    BY <1>1
  <2>2. snaps'[Len(snaps')].ts = run[t].ts /\ clock' = clock
    BY <1>1
  <2> HIDE DEF Commit
  <2>3. ASSUME NEW j \in 1..Len(snaps')
        PROVE  /\ snaps'[j].ts <= clock'
               /\ \A i \in 1..Len(snaps') : i <= j => snaps'[i].ts <= snaps'[j].ts
    <3>1. CASE j = Len(snaps')
      BY <1>1, <1>2, <2>1, <2>2, <3>1
    <3>2. CASE j \in 1..Len(snaps)
      BY <1>1, <2>1, <2>2, <3>2 DEF IInv, SnapsSorted
    <3>3. QED BY <2>1, <2>3, <3>1, <3>2
  <2>4. QED BY <2>3 DEF SnapsSorted
<1>8. NextSnapSpaced'
  BY <1>1 DEF IInv, TypeOK, NextSnapSpaced, InFlight, FlightPC, Threads, FlightIsThread
<1>9. TtlSpacing'
  <2>1. \A i \in 1..Len(snaps') : i \in 1..Len(snaps) \/ i = Len(snaps')
    BY <1>1
  <2>2. snaps'[Len(snaps')].ts = run[t].ts /\ snaps'[Len(snaps')].force = run[t].force
    BY <1>1
  <2> HIDE DEF Commit
  <2>3. ASSUME NEW i \in 1..Len(snaps'), NEW j \in 1..Len(snaps'), i < j, ~snaps'[j].force
        PROVE  snaps'[j].ts >= snaps'[i].ts + Ttl
    <3>1. i \in 1..Len(snaps) /\ snaps'[i] = snaps[i]
      BY <1>1, <2>3
    <3>2. CASE j = Len(snaps')
      BY <1>2, <2>2, <2>3, <3>1, <3>2
    <3>3. CASE j \in 1..Len(snaps)
      BY <1>1, <2>3, <3>1, <3>3 DEF IInv, TtlSpacing
    <3>4. QED BY <2>1, <3>2, <3>3
  <2>4. QED BY <2>3 DEF TtlSpacing
<1>10. DoneIsLast'
  BY DEF IInv, TypeOK, DoneIsLast, InFlight, FlightPC, Threads, FlightIsThread, StatusIsThread
<1>11. CooldownCovers'
  BY DEF IInv, TypeOK, CooldownCovers, InFlight, FlightPC, Threads, Run
<1>12. CooldownHonoured'
  <2>1. \A u \in Threads :
            /\ run'[u].force = run[u].force /\ run'[u].ts = run[u].ts /\ run'[u].boot = run[u].boot
            /\ run'[u].blown = run[u].blown /\ run'[u].ended = run[u].ended
            /\ run'[u].ok /\ run[u].blown => run[u].ok
    BY DEF IInv, TypeOK, Run
  <2>2. 1..started \subseteq Threads /\ started' = started
    BY DEF IInv, TypeOK, Threads
  <2>3. QED BY <2>1, <2>2 DEF IInv, CooldownHonoured
<1>13. StatusIsThread'
  BY DEF IInv, StatusIsThread, InFlight, managerVars, threadVars
<1>14. QED
  BY <1>3, <1>4, <1>5, <1>6, <1>7, <1>8, <1>9, <1>10, <1>11, <1>12, <1>13 DEF IInv

\* A write that returned marks the scan successful; its snapshot is the last one.
LEMMA TidiedIInv ==
    ASSUME IInv, NEW t \in Threads, Tidied(t)
    PROVE  IInv'
<1> USE ConstantsAssumption DEF Tidied, managerVars
<1>1. TypeOK'
  <2>1. run' \in [Threads -> Run]
    BY DEF IInv, TypeOK, Run
  <2>2. pc' \in [Threads -> PCs]
    BY DEF IInv, TypeOK, PCs, FlightPC
  <2>3. QED BY <2>1, <2>2 DEF IInv, TypeOK
<1>2. FlightIsThread'
  BY DEF IInv, TypeOK, FlightIsThread, InFlight, FlightPC, Threads
<1>3. StartedInOrder'
  BY DEF IInv, TypeOK, StartedInOrder, InFlight, FlightPC, Threads
<1>4. SidAfterCommit'
  BY DEF IInv, TypeOK, SidAfterCommit, Run, InFlight, FlightPC, Threads
<1>5. NextSnapSpaced'
  BY DEF IInv, TypeOK, NextSnapSpaced, InFlight, FlightPC, Threads, Run
<1>6. CooldownCovers'
  BY DEF IInv, TypeOK, CooldownCovers, InFlight, FlightPC, Threads, Run
<1>7. CooldownHonoured'
  <2>1. \A u \in Threads :
            /\ run'[u].force = run[u].force /\ run'[u].ts = run[u].ts /\ run'[u].boot = run[u].boot
            /\ run'[u].blown = run[u].blown /\ run'[u].ended = run[u].ended
            /\ run'[u].ok /\ run[u].blown => run[u].ok
    BY DEF IInv, TypeOK, Run, CooldownCovers, InFlight, FlightPC
  <2>2. 1..started \subseteq Threads /\ started' = started
    BY DEF IInv, TypeOK, Threads
  <2>3. QED BY <2>1, <2>2 DEF IInv, CooldownHonoured
<1>8. StatusIsThread' /\ SnapsSorted' /\ TtlSpacing' /\ DoneIsLast'
  BY DEF IInv, StatusIsThread, SnapsSorted, TtlSpacing, DoneIsLast, InFlight, managerVars, threadVars
<1>9. QED
  BY <1>1, <1>2, <1>3, <1>4, <1>5, <1>6, <1>7, <1>8 DEF IInv

\* A scan that raised is still in flight, and has not succeeded.
LEMMA RaiseIInv ==
    ASSUME IInv, NEW t \in Threads, Raise(t)
    PROVE  IInv'
<1> USE ConstantsAssumption DEF Raise, managerVars
<1>1. TypeOK'
  BY DEF IInv, TypeOK, Status, States, Run, PCs, FlightPC, Threads
<1>2. FlightIsThread'
  BY DEF IInv, TypeOK, FlightIsThread, InFlight, FlightPC, Threads
<1>3. StartedInOrder'
  BY DEF IInv, TypeOK, StartedInOrder, InFlight, FlightPC, Threads
<1>4. SidAfterCommit'
  BY DEF IInv, TypeOK, SidAfterCommit, InFlight, FlightPC, Threads
<1>5. NextSnapSpaced'
  BY DEF IInv, TypeOK, NextSnapSpaced, InFlight, FlightPC, Threads
<1>6. CooldownCovers'
  BY DEF IInv, TypeOK, CooldownCovers, InFlight, FlightPC, Threads
<1>7. StatusIsThread' /\ SnapsSorted' /\ TtlSpacing' /\ DoneIsLast'
        /\ CooldownHonoured'
  BY DEF IInv, StatusIsThread, SnapsSorted, TtlSpacing, DoneIsLast, CooldownHonoured, InFlight, managerVars, threadVars
<1>8. QED
  BY <1>1, <1>2, <1>3, <1>4, <1>5, <1>6, <1>7 DEF IInv

\* A scan that settles frees the manager and, over budget, opens a cooldown window
\* that covers every window still open.
LEMMA SettleIInv ==
    ASSUME IInv, NEW t \in Threads, NEW b \in BOOLEAN, Settle(t, b)
    PROVE  IInv'
<1> USE ConstantsAssumption DEF Settle
<1>1. /\ \A u \in Threads : run[u] \in Run /\ run'[u] \in Run
      /\ run' = [run EXCEPT ![t] = [run[t] EXCEPT !.blown = b, !.ended = clock]]
      /\ \A u \in Threads : u # t => run'[u] = run[u]
      /\ run'[t].ok = run[t].ok /\ run'[t].boot = run[t].boot
      /\ run'[t].force = run[t].force /\ run'[t].ts = run[t].ts
      /\ run'[t].blown = b /\ run'[t].ended = clock
  BY DEF IInv, TypeOK, Run
<1>2. cooldownUntil' \in Nat /\ (run[t].ok /\ b => cooldownUntil' = clock + Cooldown)
      /\ (~(run[t].ok /\ b) => cooldownUntil' = cooldownUntil)
  BY DEF IInv, TypeOK
<1>3. \A u \in 1..started : u <= t
  BY DEF IInv, TypeOK, FlightIsThread, StartedInOrder, Threads, InFlight, FlightPC
<1>4. TypeOK'
  <2>1. status' \in Status
    BY <1>1 DEF Status, States, Run
  <2>2. pc' \in [Threads -> PCs] /\ thread' \in 0..MaxScans
    BY DEF IInv, TypeOK, PCs
  <2>3. run' \in [Threads -> Run]
    BY <1>1 DEF IInv, TypeOK
  <2>4. QED BY <1>2, <2>1, <2>2, <2>3 DEF IInv, TypeOK
<1>5. FlightIsThread'
  BY DEF IInv, TypeOK, FlightIsThread, InFlight, FlightPC, Threads
<1>6. StatusIsThread'
  BY DEF IInv, TypeOK, StatusIsThread, InFlight, FlightPC, Threads
<1>7. StartedInOrder'
  BY DEF IInv, TypeOK, StartedInOrder, InFlight, FlightPC, Threads
<1>8. SidAfterCommit'
  BY DEF IInv, TypeOK, SidAfterCommit, InFlight, FlightPC, Threads, Run
<1>9. NextSnapSpaced'
  BY DEF IInv, TypeOK, NextSnapSpaced, InFlight, FlightPC, Threads, Run
<1>10. DoneIsLast'
  BY <1>1 DEF IInv, TypeOK, DoneIsLast, SidAfterCommit
<1>11. CooldownCovers'
  <2>1. clock \in Nat /\ cooldownUntil \in Nat /\ boot' = boot /\ clock' = clock
    BY DEF IInv, TypeOK
  <2>2. \A u \in Threads : run[u].boot <= boot /\ run[u].ended <= clock /\ run[u].ended \in Nat
    BY FieldTypes DEF IInv, CooldownCovers
  <2>3. \A u \in Threads : run'[u].boot <= boot /\ run'[u].ended <= clock
    BY <1>1, <2>1, <2>2
  <2>4. \A u \in Threads : run'[u].blown => ~InFlight(u)'
    BY <1>1 DEF IInv, TypeOK, CooldownCovers, InFlight, FlightPC
  <2>5. \A u \in Threads : pc'[u] = "unborn" => ~run'[u].ok
    BY <1>1 DEF IInv, TypeOK, CooldownCovers
  <2>6. \A u \in Threads : run'[u].ok /\ run'[u].blown /\ run'[u].boot = boot
                                => cooldownUntil' >= run'[u].ended + Cooldown
    BY <1>1, <1>2, <2>1, <2>2 DEF IInv, CooldownCovers
  <2>7. QED BY <2>1, <2>3, <2>4, <2>5, <2>6 DEF CooldownCovers
<1>12. CooldownHonoured'
  <2>1. 1..started \subseteq Threads /\ started' = started
    BY DEF IInv, TypeOK, Threads
  <2>2. \A u \in 1..started : ~(t < u)
    BY <1>3, <2>1 DEF Threads
  <2>3. QED BY <1>1, <2>1, <2>2 DEF IInv, CooldownHonoured
<1>13. SnapsSorted' /\ TtlSpacing'
  BY DEF IInv, SnapsSorted, TtlSpacing, InFlight, managerVars, threadVars
<1>14. QED
  BY <1>4, <1>5, <1>6, <1>7, <1>8, <1>9, <1>10, <1>11, <1>12, <1>13 DEF IInv

\* The end of a notify hook concerns no scan in flight.
LEMMA HookDoneIInv ==
    ASSUME IInv, NEW t \in Threads, HookDone(t)
    PROVE  IInv'
<1> USE ConstantsAssumption DEF HookDone, managerVars
<1>1. TypeOK'
  BY DEF IInv, TypeOK, Status, States, Run, PCs, FlightPC, Threads
<1>2. FlightIsThread'
  BY DEF IInv, TypeOK, FlightIsThread, InFlight, FlightPC, Threads
<1>3. StartedInOrder'
  BY DEF IInv, TypeOK, StartedInOrder, InFlight, FlightPC, Threads
<1>4. SidAfterCommit'
  BY DEF IInv, TypeOK, SidAfterCommit, InFlight, FlightPC, Threads
<1>5. NextSnapSpaced'
  BY DEF IInv, TypeOK, NextSnapSpaced, InFlight, FlightPC, Threads
<1>6. CooldownCovers'
  BY DEF IInv, TypeOK, CooldownCovers, InFlight, FlightPC, Threads
<1>7. StatusIsThread' /\ SnapsSorted' /\ TtlSpacing' /\ DoneIsLast'
        /\ CooldownHonoured'
  BY DEF IInv, StatusIsThread, SnapsSorted, TtlSpacing, DoneIsLast, CooldownHonoured, InFlight, managerVars, threadVars
<1>8. QED
  BY <1>1, <1>2, <1>3, <1>4, <1>5, <1>6, <1>7 DEF IInv

\* Time passing only widens the distance to what is stamped.
LEMMA TickIInv ==
    ASSUME IInv, Tick
    PROVE  IInv'
<1> USE ConstantsAssumption DEF Tick, managerVars, threadVars
<1>1. TypeOK'
  BY DEF IInv, TypeOK, Status, States, Run, PCs, FlightPC, Threads
<1>2. SnapsSorted'
  BY FieldTypes DEF IInv, TypeOK, SnapsSorted
<1>3. NextSnapSpaced'
  <2>1. pc' = pc /\ run' = run /\ snaps' = snaps /\ clock' = clock + 1 /\ clock \in Nat
    BY DEF IInv, TypeOK
  <2>2. \A t \in Threads : run[t].ts \in Nat
    BY FieldTypes DEF IInv
  <2> HIDE DEF Tick
  <2>3. QED BY <2>1, <2>2 DEF IInv, NextSnapSpaced
<1>4. CooldownCovers'
  BY DEF IInv, TypeOK, CooldownCovers, Run, InFlight, FlightPC, Threads
<1>5. FlightIsThread' /\ StatusIsThread' /\ StartedInOrder' /\ SidAfterCommit'
        /\ TtlSpacing' /\ DoneIsLast' /\ CooldownHonoured'
  BY DEF IInv, FlightIsThread, StatusIsThread, StartedInOrder, SidAfterCommit, TtlSpacing, DoneIsLast, CooldownHonoured, InFlight, managerVars, threadVars
<1>6. QED
  BY <1>1, <1>2, <1>3, <1>4, <1>5 DEF IInv

\* A restart empties the manager; the windows it forgets belong to the old process.
LEMMA RestartIInv ==
    ASSUME IInv, Restart
    PROVE  IInv'
<1> USE ConstantsAssumption DEF Restart, IdleStatus
<1>1. TypeOK'
  BY DEF IInv, TypeOK, Status, States, Run, PCs, FlightPC, Threads
<1>2. FlightIsThread'
  BY DEF IInv, TypeOK, FlightIsThread, InFlight, FlightPC, Threads
<1>3. StatusIsThread'
  BY DEF IInv, TypeOK, StatusIsThread
<1>4. StartedInOrder'
  BY DEF IInv, TypeOK, StartedInOrder, InFlight, FlightPC, Threads
<1>5. SidAfterCommit'
  BY DEF IInv, TypeOK, SidAfterCommit, InFlight, FlightPC, Threads
<1>6. NextSnapSpaced'
  BY DEF IInv, TypeOK, NextSnapSpaced, InFlight, FlightPC, Threads
<1>7. DoneIsLast'
  BY DEF IInv, TypeOK, DoneIsLast
<1>8. CooldownCovers'
  BY FieldTypes DEF IInv, TypeOK, CooldownCovers, InFlight, FlightPC
<1>9. SnapsSorted' /\ TtlSpacing' /\ CooldownHonoured'
  BY DEF IInv, SnapsSorted, TtlSpacing, CooldownHonoured, InFlight, managerVars, threadVars
<1>10. QED
  BY <1>1, <1>2, <1>3, <1>4, <1>5, <1>6, <1>7, <1>8, <1>9 DEF IInv

\* Every step of the manager, its threads and its environment preserves the invariant.
LEMMA NextIInv == IInv /\ [Next]_vars => IInv'
<1> SUFFICES ASSUME IInv, [Next]_vars PROVE IInv'
  OBVIOUS
<1>1. CASE \E c \in Callers : CallerStep(c)
  <2>1. PICK c \in Callers : CallerStep(c)
    BY <1>1
  <2>2. QED
    BY <2>1, SkipIInv, WaitIInv, StartScanIInv DEF CallerStep
<1>2. CASE \E t \in Threads : FlightStep(t)
  <2>1. PICK t \in Threads : FlightStep(t)
    BY <1>2
  <2>2. QED
    BY <2>1, FetchedIInv, CommitIInv, TidiedIInv, RaiseIInv, SettleIInv DEF FlightStep
<1>3. CASE \E t \in Threads : HookDone(t)
  BY <1>3, HookDoneIInv
<1>4. CASE Tick
  BY <1>4, TickIInv
<1>5. CASE Restart
  BY <1>5, RestartIInv
<1>6. CASE UNCHANGED vars
  BY <1>6 DEF IInv, TypeOK, FlightIsThread, StatusIsThread, StartedInOrder, SidAfterCommit, SnapsSorted,
     NextSnapSpaced, TtlSpacing, DoneIsLast, CooldownCovers, CooldownHonoured, InFlight, vars,
     managerVars, threadVars
<1>7. QED
  BY <1>1, <1>2, <1>3, <1>4, <1>5, <1>6 DEF Next

\* The inductive invariant of the scan manager holds throughout.
THEOREM Invariance == Spec => []IInv
<1>1. QED
  BY InitIInv, NextIInv, PTL DEF Spec

-----------------------------------------------------------------------------
(* What it buys. *)

\* Every state of the manager is well typed, for every bound on scans and time.
THEOREM TypeCorrect == Spec => []TypeOK
<1>1. IInv => TypeOK
  BY DEF IInv
<1>2. QED
  BY <1>1, Invariance, PTL

\* Concurrent triggers collapse into one upstream fetch (ScanManager.trigger, _run).
THEOREM SingleflightHolds == Spec => []Singleflight
<1>1. IInv => Singleflight
  BY DEF IInv, FlightIsThread, Singleflight
<1>2. QED
  BY <1>1, Invariance, PTL

\* GET /scan/status says "in_progress" exactly while a scan is in flight.
THEOREM StatusTracksFlightHolds == Spec => []StatusTracksFlight
<1>1. IInv => StatusTracksFlight
  <2> SUFFICES ASSUME IInv PROVE StatusTracksFlight
    OBVIOUS
  <2>1. \A t \in Threads : t # 0
    BY DEF Threads
  <2>2. thread # 0 => thread \in Threads
    BY ConstantsAssumption DEF IInv, TypeOK, Threads
  <2>3. QED
    BY <2>1, <2>2 DEF IInv, StatusIsThread, FlightIsThread, StatusTracksFlight
<1>2. QED
  BY <1>1, Invariance, PTL

\* Non-forced snapshots keep the TTL's distance, across errors and restarts.
THEOREM TtlSpacingHolds == Spec => []TtlSpacing
<1>1. IInv => TtlSpacing
  BY DEF IInv
<1>2. QED
  BY <1>1, Invariance, PTL

\* The cooldown of a successful scan over budget holds back every non-forced scan.
THEOREM CooldownHonouredHolds == Spec => []CooldownHonoured
<1>1. IInv => CooldownHonoured
  BY DEF IInv
<1>2. QED
  BY <1>1, Invariance, PTL

\* "done" names the snapshot that store.latest serves.
THEOREM DoneNamesLatestHolds == Spec => []DoneNamesLatest
<1>1. IInv => DoneNamesLatest
  <2> SUFFICES ASSUME IInv PROVE DoneNamesLatest
    OBVIOUS
  <2>1. Latest(snaps) = Len(snaps) /\ Len(snaps) \in Nat
    BY LatestIsLast DEF IInv, TypeOK, SnapsSorted
  <2>2. QED
    BY <2>1 DEF IInv, DoneIsLast, DoneNamesLatest
<1>2. QED
  BY <1>1, Invariance, PTL

-----------------------------------------------------------------------------
(* The manager implements SingleFlight. *)

\* The start of the scan manager is the start of a single flight.
LEMMA InitRefines == Init => SF!Init
BY DEF Init, SF!Init

\* Under the invariant, every step is a step of the abstract specification or
\* leaves its three variables alone.
LEMMA NextRefines == IInv /\ [Next]_vars => [SF!Next]_SF!vars
<1> SUFFICES ASSUME IInv, [Next]_vars PROVE [SF!Next]_SF!vars
  OBVIOUS
<1> USE ConstantsAssumption
<1>1. ASSUME thread' = thread, run' = run, snaps' = snaps
      PROVE  UNCHANGED SF!vars
  BY <1>1 DEF SF!vars
<1>2. CASE \E c \in Callers : CallerStep(c)
  <2>1. PICK c \in Callers : CallerStep(c)
    BY <1>2
  <2>2. CASE SkipCooldown(c) \/ SkipTtl(c) \/ JoinRunning(c) \/ Return(c)
    BY <1>1, <2>2 DEF SkipCooldown, SkipTtl, Skip, JoinRunning, Return, managerVars, threadVars
  <2>3. ASSUME NEW f \in BOOLEAN, StartScan(c, f)
        PROVE  SF!Begin
    <3>1. thread = 0 /\ thread' = started + 1 /\ started + 1 \in Threads /\ snaps' = snaps
      BY <2>3 DEF StartScan, Running, IInv, TypeOK, Threads
    <3>2. run'[started + 1].sid = 0
      BY <2>3, <3>1 DEF StartScan, NoRun, IInv, TypeOK
    <3>3. thread' # 0
      BY <3>1 DEF Threads
    <3>4. QED BY <3>1, <3>2, <3>3 DEF SF!Begin
  <2>4. QED BY <2>1, <2>2, <2>3 DEF CallerStep, SF!Next
<1>3. ASSUME NEW t \in Threads, FlightStep(t)
      PROVE  [SF!Next]_SF!vars
  <2>1. t # 0
    BY DEF Threads
  <2>2. CASE Fetched(t) \/ Raise(t)
    BY <1>1, <2>2 DEF Fetched, Raise, managerVars
  <2>3. CASE Tidied(t)
    <3>1. thread' = thread /\ snaps' = snaps /\ \A u \in Threads : run'[u].sid = run[u].sid
      BY <2>3 DEF Tidied, managerVars, IInv, TypeOK, Run
    <3>2. thread = 0 \/ thread \in Threads
      BY DEF IInv, TypeOK, Threads
    <3>3. QED BY <3>1, <3>2 DEF SF!vars
  <2>4. CASE Commit(t)
    <3>1. thread = t /\ thread' = t /\ run[t].sid = 0
      BY <2>4 DEF Commit, managerVars, IInv, TypeOK, FlightIsThread, InFlight, FlightPC, SidAfterCommit
    <3>2. Len(snaps) \in Nat /\ run[t] \in Run /\ snaps \in Seq(Snap)
      BY DEF IInv, TypeOK
    <3>3. [ts |-> run[t].ts, force |-> run[t].force] \in Snap
      BY <3>2 DEF Run, Snap
    <3>4. Len(snaps') = Len(snaps) + 1
      BY <2>4, <3>2, <3>3, AppendProperties DEF Commit
    <3>5. run'[t].sid = Len(snaps) + 1
      BY <2>4, <3>2 DEF Commit, IInv, TypeOK, Run
    <3>6. SF!Persist
      BY <2>1, <3>1, <3>2, <3>4, <3>5 DEF SF!Persist
    <3>7. QED BY <3>6 DEF SF!Next
  <2>5. CASE \E b \in BOOLEAN : Settle(t, b)
    <3>1. thread = t /\ thread' = 0 /\ snaps' = snaps
      BY <2>5 DEF Settle, IInv, TypeOK, FlightIsThread, InFlight, FlightPC
    <3>2. SF!End
      BY <2>1, <3>1 DEF SF!End
    <3>3. QED BY <3>2 DEF SF!Next
  <2>6. QED BY <1>3, <2>2, <2>3, <2>4, <2>5 DEF FlightStep
<1>4. CASE \E t \in Threads : HookDone(t)
  BY <1>1, <1>4 DEF HookDone, managerVars
<1>5. CASE Tick
  BY <1>1, <1>5 DEF Tick, managerVars, threadVars
<1>6. CASE Restart
  <2>1. CASE thread = 0
    BY <1>1, <1>6, <2>1 DEF Restart
  <2>2. CASE thread # 0
    BY <1>6, <2>2 DEF Restart, SF!Next, SF!End
  <2>3. QED BY <2>1, <2>2
<1>7. CASE UNCHANGED vars
  BY <1>1, <1>7 DEF vars, managerVars, threadVars
<1>8. QED
  BY <1>2, <1>3, <1>4, <1>5, <1>6, <1>7 DEF Next

\* The manager's scans are the one-at-a-time scans of the abstract specification.
THEOREM Refinement == Spec => RefinesSingleFlight
<1>1. QED
  BY InitRefines, NextRefines, Invariance, PTL DEF Spec, RefinesSingleFlight, SF!Spec

-----------------------------------------------------------------------------
(* The push side: every thread's hook, the loop's callbacks, the clients.   *)
FeedTypeOK ==
    /\ hook \in [Threads -> {"enter", "grab", "post"}]
    /\ payload \in [Threads -> Feeds \cup {None}]
    /\ audience \in [Threads -> SUBSET Conns]
    /\ loop \in Seq([feed: Feeds, to: SUBSET Conns])
    /\ subs \subseteq Conns
    /\ conn \in [Conns -> {"new", "painting", "streaming", "ended"}]
    /\ queue \in [Conns -> Feeds \cup {None}]
    /\ shown \in [Conns -> Feeds \cup {None}]

\* Every scan commits at most once, so ids are feeds.
SnapsBounded ==
    /\ Len(snaps) <= started
    /\ \A t \in Threads : pc[t] \in {"fetch", "commit"} => Len(snaps) < started

\* A thread has a feed once its hook has built it, from its own snapshot or a newer one.
FeedsBuilt ==
    \A t \in Threads :
        /\ payload[t] = None <=> hook[t] = "enter"
        /\ pc[t] \notin {"hook", "gone"} => payload[t] = None
        /\ run[t].sid <= Len(snaps)
        /\ payload[t] # None => payload[t] <= Len(snaps) /\ run[t].sid <= payload[t]

\* Callbacks of the loop that will offer to connection c.
Coming(c) == {i \in 1..Len(loop) : c \in loop[i].to}
Live(c) == conn[c] \in {"painting", "streaming"}

Registered ==
    \A c \in Conns :
        /\ Live(c) => c \in subs
        /\ conn[c] = "new" => /\ c \notin subs /\ Coming(c) = {} /\ queue[c] = None
                              /\ \A t \in Threads : c \notin audience[t]

\* With hooks that do not overlap, the feed of the hook that runs is the newest.
OneHook ==
    \A t, u \in Threads : pc[t] = "hook" =>
        /\ pc[u] = "hook" => t = u
        /\ payload[t] # None /\ Published(u) => payload[u] <= payload[t]

\* A client that shows feed p or a newer one, and has nothing on its way.
UpToDate(c, p) ==
    /\ Coming(c) = {} /\ queue[c] = None
    /\ conn[c] = "streaming" => shown[c] # None /\ shown[c] >= p

\* Who connected after the subscribers were copied has painted the feed, or will.
LateIsPainted ==
    \A t \in Threads, c \in Conns :
        pc[t] = "hook" /\ hook[t] = "post" /\ Live(c) /\ c \notin audience[t] => UpToDate(c, payload[t])

\* What reaches a client last is as new as anything published.
LastIsNewest ==
    \A t \in Threads, c \in Conns : Published(t) /\ Live(c) =>
        \/ UpToDate(c, payload[t])
        \/ Coming(c) = {} /\ queue[c] # None /\ queue[c] >= payload[t]
        \/ \E i \in Coming(c) : loop[i].feed >= payload[t] /\ \A j \in Coming(c) : j <= i

FeedInv ==
    /\ FeedTypeOK /\ SnapsBounded /\ FeedsBuilt /\ Registered
    /\ SerialHooks => OneHook /\ LateIsPainted /\ LastIsNewest

-----------------------------------------------------------------------------
\* What the store serves as its latest is the last snapshot committed.
LEMMA LatestIsLen == IInv => Latest(snaps) = Len(snaps) /\ Len(snaps) \in Nat
BY LatestIsLast, FieldTypes DEF IInv, TypeOK, SnapsSorted

\* Seen from the manager, the push side stutters or ends a hook.
LEMMA FeedNextIsNext == [FeedNext]_feedVars => [Next]_vars
BY DEF FeedNext, ManagerStep, HookStep, BuildFeed, BuildRaises, Grab, Post, FanOut, ConnStep,
       Connect, Paint, Deliver, Disconnect, Abandon, FeedRestart, Next, feedVars

\* The feeds are among the types, and none of them is None.
LEMMA FeedTypes ==
    ASSUME FeedTypeOK
    PROVE  /\ \A t \in Threads : payload[t] # None => payload[t] \in Nat
           /\ \A c \in Conns : (queue[c] # None => queue[c] \in Nat) /\ (shown[c] # None => shown[c] \in Nat)
           /\ Len(loop) \in Nat
           /\ \A i \in 1..Len(loop) : loop[i].feed \in Feeds /\ loop[i].feed \in Nat /\ loop[i].to \subseteq Conns
           /\ \A f \in Feeds : f \in Nat /\ f # None
<1>1. \A f \in Feeds : f \in Nat /\ f # None
  BY NoneIsNoFeed, ConstantsAssumption DEF Feeds
<1> DEFINE Callback == [feed: Feeds, to: SUBSET Conns]
<1>2. \A x \in Callback : x.feed \in Feeds /\ x.to \subseteq Conns
  OBVIOUS
<1> HIDE DEF Callback
<1>3. loop \in Seq(Callback)
  BY DEF FeedTypeOK, Callback
<1>4. Len(loop) \in Nat /\ \A i \in 1..Len(loop) : loop[i] \in Callback
  BY <1>3, ElementOfSeq
<1>5. QED BY <1>1, <1>2, <1>4 DEF FeedTypeOK

\* Nothing is on its way before the first scan.
LEMMA InitFeedInv == FeedInit => FeedInv
<1> SUFFICES ASSUME FeedInit PROVE FeedInv OBVIOUS
<1>1. FeedTypeOK
  BY DEF FeedInit, FeedTypeOK
<1>2. SnapsBounded /\ FeedsBuilt
  BY DEF FeedInit, Init, SnapsBounded, FeedsBuilt, NoRun
<1>3. Registered
  BY DEF FeedInit, Registered, Live, Coming
<1>4. OneHook /\ LateIsPainted /\ LastIsNewest
  BY DEF FeedInit, Init, OneHook, LateIsPainted, LastIsNewest, Published
<1>5. QED BY <1>1, <1>2, <1>3, <1>4 DEF FeedInv

-----------------------------------------------------------------------------
\* A step of one scan thread on its way to the hook.
LEMMA FlightFacts ==
    ASSUME IInv, SnapsBounded, NEW t \in Threads, FlightStep(t)
    PROVE  /\ boot' = boot /\ started' = started
           /\ Len(snaps') \in {Len(snaps), Len(snaps) + 1} /\ SnapsBounded'
           /\ pc[t] \notin {"unborn", "hook", "gone"}
           /\ \A u \in Threads \ {t} : pc'[u] = pc[u] /\ run'[u] = run[u]
           /\ run'[t].sid = run[t].sid \/ run'[t].sid = Len(snaps')
           /\ pc'[t] \in {"hook", "gone"} => pc[t] = "settle"
           /\ SerialHooks /\ pc[t] = "settle" => \A u \in Threads : pc[u] # "hook"
<1>1. TypeOK /\ Len(snaps) \in Nat /\ started \in Nat
  BY FieldTypes, ConstantsAssumption DEF IInv, TypeOK
<1>2. pc \in [Threads -> PCs] /\ run \in [Threads -> Run] /\ run[t] \in Run
  BY <1>1 DEF TypeOK
<1>3. CASE Fetched(t) \/ Raise(t) \/ Tidied(t)
  <2>1. UNCHANGED <<boot, started, snaps>> /\ pc[t] \in {"fetch", "commit", "tidy"}
    BY <1>3 DEF Fetched, Raise, Tidied
  <2>2. /\ \A u \in Threads \ {t} : pc'[u] = pc[u] /\ run'[u] = run[u]
        /\ pc'[t] \in {"commit", "settle"} /\ (pc'[t] = "commit" => pc[t] = "fetch")
    BY <1>2, <1>3 DEF Fetched, Raise, Tidied
  <2>3. run'[t].sid = run[t].sid
    BY <1>2, <1>3 DEF Fetched, Raise, Tidied, Run
  <2>4. SnapsBounded'
    BY <1>1, <2>1, <2>2 DEF SnapsBounded
  <2>5. QED BY <2>1, <2>2, <2>3, <2>4
<1>4. CASE Commit(t)
  <2>1. UNCHANGED <<boot, started>> /\ pc[t] = "commit" /\ Len(snaps') = Len(snaps) + 1
    BY <1>1, <1>4 DEF Commit, TypeOK
  <2>2. /\ \A u \in Threads \ {t} : pc'[u] = pc[u] /\ run'[u] = run[u]
        /\ pc'[t] = "tidy" /\ run'[t].sid = Len(snaps')
    BY <1>2, <1>4, <2>1 DEF Commit, Run
  <2>3. \A u \in Threads : pc'[u] \notin {"fetch", "commit"}
    BY <2>1, <2>2 DEF IInv, FlightIsThread, InFlight, FlightPC
  <2>4. SnapsBounded'
    BY <1>1, <2>1, <2>3 DEF SnapsBounded
  <2>5. QED BY <2>1, <2>2, <2>4
<1>5. CASE \E blown \in BOOLEAN : Settle(t, blown)
  <2>1. /\ UNCHANGED <<boot, started, snaps>> /\ pc[t] = "settle"
        /\ SerialHooks => \A u \in Threads : pc[u] # "hook"
    BY <1>5 DEF Settle
  <2>2. /\ \A u \in Threads \ {t} : pc'[u] = pc[u] /\ run'[u] = run[u]
        /\ pc'[t] \in {"hook", "gone"} /\ run'[t].sid = run[t].sid
    <3> PICK blown \in BOOLEAN : Settle(t, blown)
      BY <1>5
    <3>1. pc'[t] \in {"hook", "gone"} /\ \A u \in Threads \ {t} : pc'[u] = pc[u]
      BY <1>2 DEF Settle
    <3>2. run' = [run EXCEPT ![t] = [run[t] EXCEPT !.blown = blown, !.ended = clock]]
      BY DEF Settle
    <3>3. [run[t] EXCEPT !.blown = blown, !.ended = clock].sid = run[t].sid
      BY <1>2 DEF Run
    <3>4. QED BY <1>2, <3>1, <3>2, <3>3
  <2>3. SnapsBounded'
    BY <1>1, <2>1, <2>2 DEF SnapsBounded
  <2>4. QED BY <2>1, <2>2, <2>3
<1>6. QED BY <1>3, <1>4, <1>5 DEF FlightStep

\* What any step of the manager but its hook does to the threads.
LEMMA ManagerFacts ==
    ASSUME IInv, SnapsBounded, ManagerStep
    PROVE  /\ boot' = boot /\ SnapsBounded' /\ Len(snaps) <= Len(snaps')
           /\ \A t \in Threads :
                /\ pc[t] \in {"hook", "gone"} => pc'[t] = pc[t] /\ run'[t] = run[t]
                /\ pc'[t] \in {"hook", "gone"} => pc[t] \in {"hook", "gone", "settle"}
                /\ run'[t].sid <= Len(snaps') \/ run'[t].sid = run[t].sid
           /\ SerialHooks =>
                \A t, u \in Threads : pc'[t] = "hook" /\ pc'[u] = "hook" =>
                    t = u \/ (pc[t] = "hook" /\ pc[u] = "hook")
<1>1. Len(snaps) \in Nat /\ started \in Nat
  BY FieldTypes, ConstantsAssumption DEF IInv, TypeOK
<1>2. pc \in [Threads -> PCs] /\ run \in [Threads -> Run]
  BY DEF IInv, TypeOK
<1>3. CASE \E t \in Threads : FlightStep(t)
  <2> PICK t \in Threads : FlightStep(t)
    BY <1>3
  <2>1. Len(snaps) <= Len(snaps') /\ Len(snaps') \in Nat
    BY <1>1, FlightFacts
  <2>2. QED BY <2>1, FlightFacts
<1>4. CASE \E c \in Callers, force \in BOOLEAN : StartScan(c, force)
  <2> PICK c \in Callers, force \in BOOLEAN : StartScan(c, force)
    BY <1>4
  <2> DEFINE t == started + 1
  <2>1. t \in Threads /\ pc[t] = "unborn" /\ UNCHANGED <<boot, snaps>> /\ started' = started + 1
    BY <1>1, ConstantsAssumption DEF StartScan, IInv, StartedInOrder, Threads
  <2>2. \A u \in Threads : u # t => pc'[u] = pc[u] /\ run'[u] = run[u]
    BY <1>2 DEF StartScan
  <2>3. pc'[t] = "fetch" /\ run'[t].sid = 0
    BY <1>2, <2>1 DEF StartScan, NoRun
  <2> HIDE DEF t
  <2>4. SnapsBounded'
    BY <1>1, <2>1, <2>2 DEF SnapsBounded
  <2>5. QED BY <1>1, <2>1, <2>2, <2>3, <2>4
<1>5. CASE Tick \/ \E c \in Callers : SkipCooldown(c) \/ SkipTtl(c) \/ JoinRunning(c) \/ Return(c)
  <2>1. UNCHANGED <<boot, started, pc, run, snaps>>
    BY <1>5 DEF Tick, SkipCooldown, SkipTtl, JoinRunning, Return, Skip, threadVars
  <2>2. QED BY <1>1, <2>1 DEF SnapsBounded
<1>6. QED BY <1>3, <1>4, <1>5 DEF ManagerStep, CallerStep

\* The manager's own steps reach nothing of the push side.
LEMMA ManagerFeedInv ==
    ASSUME IInv, FeedInv, ManagerStep, UNCHANGED brokerVars
    PROVE  FeedInv'
<1>1. UNCHANGED <<hook, payload, audience, loop, subs, conn, queue, shown>>
  BY DEF brokerVars, hookVars, connVars
<1>2. Len(snaps) \in Nat /\ Len(snaps') \in Nat /\ \A t \in Threads : run[t].sid \in Nat
  <2>1. IInv'
    BY NextIInv DEF ManagerStep, Next
  <2>2. QED BY <2>1, LatestIsLen, FieldTypes DEF IInv
<1>3. /\ \A t \in Threads : payload[t] # None => payload[t] \in Nat
      /\ FeedTypeOK /\ SnapsBounded /\ FeedsBuilt /\ Registered
  BY FeedTypes DEF FeedInv
<1>4. FeedTypeOK' /\ SnapsBounded' /\ Registered'
  BY <1>1, <1>3, ManagerFacts DEF FeedTypeOK, Registered, Live, Coming
<1>5. FeedsBuilt'
  <2> SUFFICES ASSUME NEW t \in Threads
               PROVE  /\ payload[t] = None <=> hook[t] = "enter"
                      /\ pc'[t] \notin {"hook", "gone"} => payload[t] = None
                      /\ run'[t].sid <= Len(snaps')
                      /\ payload[t] # None => payload[t] <= Len(snaps') /\ run'[t].sid <= payload[t]
    BY <1>1 DEF FeedsBuilt
  <2>1. /\ payload[t] = None <=> hook[t] = "enter"
        /\ pc[t] \notin {"hook", "gone"} => payload[t] = None
        /\ run[t].sid <= Len(snaps)
        /\ payload[t] # None => payload[t] <= Len(snaps) /\ run[t].sid <= payload[t]
    BY <1>3 DEF FeedsBuilt
  <2>2. CASE pc[t] \in {"hook", "gone"}
    BY <1>2, <1>3, <2>1, <2>2, ManagerFacts
  <2>3. CASE pc[t] \notin {"hook", "gone"}
    BY <1>2, <1>3, <2>1, <2>3, ManagerFacts
  <2>4. QED BY <2>2, <2>3
<1>6. \A t \in Threads : payload[t] # None => pc[t] \in {"hook", "gone"} /\ pc'[t] = pc[t] /\ run'[t] = run[t]
  BY <1>3, ManagerFacts DEF FeedsBuilt
<1>7. \A t \in Threads : Published(t)' => Published(t)
  BY <1>1, <1>3, <1>6, ManagerFacts DEF Published
<1>8. ASSUME SerialHooks PROVE OneHook' /\ LateIsPainted' /\ LastIsNewest'
  <2>1. OneHook /\ LateIsPainted /\ LastIsNewest
    BY <1>8 DEF FeedInv
  <2>2. OneHook'
    <3> SUFFICES ASSUME NEW t \in Threads, NEW u \in Threads, pc'[t] = "hook"
                 PROVE  /\ pc'[u] = "hook" => t = u
                        /\ payload[t] # None /\ Published(u)' => payload[u] <= payload[t]
      BY <1>1 DEF OneHook
    <3>1. pc'[u] = "hook" => t = u
      BY <1>3, <1>8, <2>1, ManagerFacts DEF OneHook
    <3>2. payload[t] # None /\ Published(u)' => payload[u] <= payload[t]
      BY <1>6, <1>7, <2>1 DEF OneHook
    <3>3. QED BY <3>1, <3>2
  <2>3. LateIsPainted'
    <3> SUFFICES ASSUME NEW t \in Threads, NEW c \in Conns, pc'[t] = "hook", hook[t] = "post",
                        Live(c), c \notin audience[t]
                 PROVE  UpToDate(c, payload[t])
      BY <1>1 DEF LateIsPainted, UpToDate, Live, Coming
    <3>1. pc[t] = "hook"
      BY <1>3, <1>6 DEF FeedsBuilt
    <3>2. QED BY <2>1, <3>1 DEF LateIsPainted
  <2>4. LastIsNewest'
    BY <1>1, <1>7, <2>1 DEF LastIsNewest, UpToDate, Live, Coming
  <2>5. QED BY <2>2, <2>3, <2>4
<1>9. QED BY <1>4, <1>5, <1>8 DEF FeedInv

-----------------------------------------------------------------------------
\* build_feed reads the store: the newest feed there is.
LEMMA BuildFeedInv ==
    ASSUME IInv, FeedInv, NEW t \in Threads, BuildFeed(t)
    PROVE  FeedInv'
<1>1. FeedTypeOK /\ SnapsBounded /\ FeedsBuilt /\ Registered /\ Len(snaps) \in Nat
  BY LatestIsLen DEF FeedInv
<1>2. /\ UNCHANGED <<boot, started, pc, run, snaps, audience, loop, subs, conn, queue, shown>>
      /\ pc[t] = "hook" /\ hook[t] = "enter"
      /\ payload' = [payload EXCEPT ![t] = Len(snaps)] /\ hook' = [hook EXCEPT ![t] = "grab"]
  BY LatestIsLen DEF BuildFeed, vars, threadVars, connVars
<1>3. Len(snaps) \in Feeds /\ Len(snaps) # None
  <2>1. started \in 0..MaxScans
    BY DEF IInv, TypeOK
  <2>2. Len(snaps) \in Feeds
    BY <1>1, <2>1, ConstantsAssumption DEF SnapsBounded, Feeds
  <2>3. QED BY <2>2, NoneIsNoFeed DEF Feeds
<1>4. FeedTypeOK' /\ SnapsBounded' /\ Registered'
  BY <1>1, <1>2, <1>3 DEF FeedTypeOK, SnapsBounded, Registered, Live, Coming
<1>5. /\ payload'[t] = Len(snaps) /\ hook'[t] = "grab"
      /\ \A u \in Threads \ {t} : payload'[u] = payload[u] /\ hook'[u] = hook[u]
  BY <1>1, <1>2 DEF FeedTypeOK
<1>6. FeedsBuilt'
  BY <1>1, <1>2, <1>3, <1>5 DEF FeedsBuilt
<1>7. \A u \in Threads : Published(u)' <=> u # t /\ Published(u)
  BY <1>2, <1>5 DEF Published
<1>8. ASSUME SerialHooks PROVE OneHook' /\ LateIsPainted' /\ LastIsNewest'
  <2>1. OneHook /\ LateIsPainted /\ LastIsNewest
    BY <1>8 DEF FeedInv
  <2>2. \A u \in Threads : pc[u] = "hook" => u = t
    BY <1>2, <2>1 DEF OneHook
  <2>3. \A u \in Threads : Published(u) => payload[u] <= Len(snaps)
    BY <1>1 DEF FeedsBuilt, Published
  <2>4. OneHook'
    BY <1>2, <1>5, <1>7, <2>2, <2>3 DEF OneHook
  <2>5. LateIsPainted'
    BY <1>2, <1>5, <2>2 DEF LateIsPainted
  <2>6. LastIsNewest'
    BY <1>2, <1>5, <1>7, <2>1 DEF LastIsNewest, UpToDate, Live, Coming
  <2>7. QED BY <2>4, <2>5, <2>6
<1>9. QED BY <1>4, <1>6, <1>8 DEF FeedInv

\* The hook ends without a callback: it raised, or there is nobody to send it to.
LEMMA HookEndsInv ==
    ASSUME IInv, FeedInv, NEW t \in Threads, HookDone(t), UNCHANGED brokerVars,
           hook[t] = "enter" \/ subs = {}
    PROVE  FeedInv'
<1>1. FeedTypeOK /\ SnapsBounded /\ FeedsBuilt /\ Registered
  BY DEF FeedInv
<1>2. /\ UNCHANGED <<hook, payload, audience, loop, subs, conn, queue, shown, boot, started, run, snaps>>
      /\ pc[t] = "hook" /\ pc' = [pc EXCEPT ![t] = "gone"] /\ pc \in [Threads -> PCs]
  BY DEF HookDone, brokerVars, hookVars, connVars, IInv, TypeOK
<1>3. pc'[t] = "gone" /\ \A u \in Threads \ {t} : pc'[u] = pc[u]
  BY <1>2
<1>4. FeedTypeOK' /\ SnapsBounded' /\ FeedsBuilt' /\ Registered'
  BY <1>1, <1>2, <1>3 DEF FeedTypeOK, SnapsBounded, FeedsBuilt, Registered, Live, Coming
<1>5. \A u \in Threads : Published(u)' => Published(u) \/ (u = t /\ payload[t] # None)
  BY <1>2, <1>3 DEF Published
<1>6. payload[t] = None \/ \A c \in Conns : ~Live(c)
  BY <1>1 DEF FeedsBuilt, Registered
<1>7. ASSUME SerialHooks PROVE OneHook' /\ LateIsPainted' /\ LastIsNewest'
  <2>1. OneHook /\ LateIsPainted /\ LastIsNewest
    BY <1>7 DEF FeedInv
  <2>2. \A u \in Threads : pc'[u] # "hook"
    BY <1>2, <1>3, <2>1 DEF OneHook
  <2>3. OneHook' /\ LateIsPainted'
    BY <2>2 DEF OneHook, LateIsPainted
  <2>4. LastIsNewest'
    BY <1>2, <1>5, <1>6, <2>1 DEF LastIsNewest, UpToDate, Live, Coming
  <2>5. QED BY <2>3, <2>4
<1>8. QED BY <1>4, <1>7 DEF FeedInv

\* The subscribers are copied: whoever is connected by now is among them.
LEMMA GrabInv ==
    ASSUME IInv, FeedInv, NEW t \in Threads, Grab(t), subs # {}
    PROVE  FeedInv'
<1>1. FeedTypeOK /\ SnapsBounded /\ FeedsBuilt /\ Registered
  BY DEF FeedInv
<1>2. /\ UNCHANGED <<boot, started, pc, run, snaps, payload, loop, subs, conn, queue, shown>>
      /\ pc[t] = "hook" /\ hook[t] = "grab"
      /\ audience' = [audience EXCEPT ![t] = subs] /\ hook' = [hook EXCEPT ![t] = "post"]
  BY DEF Grab, vars, threadVars, connVars
<1>3. /\ audience'[t] = subs /\ hook'[t] = "post"
      /\ \A u \in Threads \ {t} : audience'[u] = audience[u] /\ hook'[u] = hook[u]
  BY <1>1, <1>2 DEF FeedTypeOK
<1>4. FeedTypeOK' /\ SnapsBounded' /\ FeedsBuilt'
  BY <1>1, <1>2, <1>3 DEF FeedTypeOK, SnapsBounded, FeedsBuilt
<1>5. Registered'
  BY <1>1, <1>2, <1>3 DEF Registered, Live, Coming
<1>6. ASSUME SerialHooks PROVE OneHook' /\ LateIsPainted' /\ LastIsNewest'
  <2>1. OneHook /\ LateIsPainted /\ LastIsNewest
    BY <1>6 DEF FeedInv
  <2>2. OneHook' /\ LastIsNewest'
    BY <1>2, <2>1 DEF OneHook, LastIsNewest, Published, UpToDate, Live, Coming
  <2>3. \A u \in Threads : pc[u] = "hook" => u = t
    BY <1>2, <2>1 DEF OneHook
  <2>4. LateIsPainted'
    BY <1>1, <1>2, <1>3, <2>3 DEF LateIsPainted, Registered, Live
  <2>5. QED BY <2>2, <2>4
<1>7. QED BY <1>4, <1>5, <1>6 DEF FeedInv

\* The callback is posted: it is the last that its audience will be offered.
LEMMA PostInv ==
    ASSUME IInv, FeedInv, NEW t \in Threads, Post(t)
    PROVE  FeedInv'
<1> DEFINE cb == [feed |-> payload[t], to |-> audience[t]]
           n == Len(loop) + 1
<1>1. FeedTypeOK /\ SnapsBounded /\ FeedsBuilt /\ Registered
  BY DEF FeedInv
<1>2. /\ UNCHANGED <<hook, payload, audience, subs, conn, queue, shown, boot, started, run, snaps>>
      /\ pc[t] = "hook" /\ hook[t] = "post" /\ pc' = [pc EXCEPT ![t] = "gone"] /\ pc \in [Threads -> PCs]
      /\ loop' = Append(loop, cb)
  BY DEF Post, HookDone, hookVars, connVars, IInv, TypeOK
<1>3. pc'[t] = "gone" /\ \A u \in Threads \ {t} : pc'[u] = pc[u]
  BY <1>2
<1>4. payload[t] # None /\ payload[t] \in Feeds /\ audience[t] \subseteq Conns
  BY <1>1, <1>2 DEF FeedsBuilt, FeedTypeOK
<1>5. cb \in [feed: Feeds, to: SUBSET Conns] /\ cb.feed = payload[t] /\ cb.to = audience[t]
  BY <1>4
<1> HIDE DEF cb
<1>6. /\ loop' \in Seq([feed: Feeds, to: SUBSET Conns]) /\ Len(loop) \in Nat /\ Len(loop') = n
      /\ loop'[n] = cb /\ \A i \in 1..Len(loop) : loop'[i] = loop[i]
  BY <1>1, <1>2, <1>5 DEF FeedTypeOK
<1>7. \A c \in Conns : Coming(c)' = IF c \in audience[t] THEN Coming(c) \cup {n} ELSE Coming(c)
  <2> SUFFICES ASSUME NEW c \in Conns
               PROVE  Coming(c)' = IF c \in audience[t] THEN Coming(c) \cup {n} ELSE Coming(c)
    OBVIOUS
  <2>1. \A i : i \in 1..n <=> i \in 1..Len(loop) \/ i = n
    BY <1>6
  <2>2. n \notin 1..Len(loop)
    BY <1>6
  <2> HIDE DEF n
  <2>3. QED BY <1>5, <1>6, <2>1, <2>2 DEF Coming
<1>8. FeedTypeOK' /\ SnapsBounded' /\ FeedsBuilt'
  BY <1>1, <1>2, <1>3, <1>6 DEF FeedTypeOK, SnapsBounded, FeedsBuilt
<1>9. Registered'
  BY <1>1, <1>2, <1>7 DEF Registered, Live
<1>10. \A u \in Threads : Published(u)' => Published(u) \/ u = t
  BY <1>2, <1>3 DEF Published
<1>11. ASSUME SerialHooks PROVE OneHook' /\ LateIsPainted' /\ LastIsNewest'
  <2>1. OneHook /\ LateIsPainted /\ LastIsNewest
    BY <1>11 DEF FeedInv
  <2>2. \A u \in Threads : pc'[u] # "hook"
    BY <1>2, <1>3, <2>1 DEF OneHook
  <2>3. OneHook' /\ LateIsPainted'
    BY <2>2 DEF OneHook, LateIsPainted
  <2>4. ASSUME NEW u \in Threads, Published(u)' PROVE payload[u] <= payload[t]
    <3>1. CASE u = t
      BY <1>4, <3>1, FeedTypes, <1>1
    <3>2. CASE u # t
      BY <1>2, <1>4, <1>10, <2>1, <2>4, <3>2 DEF OneHook
    <3>3. QED BY <3>1, <3>2
  <2>5. ASSUME NEW u \in Threads, NEW c \in Conns, Published(u)', Live(c)
        PROVE  \/ UpToDate(c, payload[u])'
               \/ Coming(c)' = {} /\ queue[c] # None /\ queue[c] >= payload[u]
               \/ \E i \in Coming(c)' : loop'[i].feed >= payload[u] /\ \A j \in Coming(c)' : j <= i
    <3>1. payload[u] <= payload[t] /\ payload[u] \in Nat /\ payload[t] \in Nat
      BY <1>1, <1>2, <1>4, <2>4, <2>5, FeedTypes DEF Published
    <3>2. CASE c \in audience[t]
      <4>1. n \in Coming(c)' /\ loop'[n].feed >= payload[u]
        BY <1>5, <1>6, <1>7, <3>1, <3>2
      <4>2. \A j \in Coming(c)' : j <= n
        BY <1>6, <1>7, <3>2 DEF Coming
      <4>3. QED BY <4>1, <4>2
    <3>3. CASE c \notin audience[t]
      <4>1. UpToDate(c, payload[t])
        BY <1>2, <2>1, <2>5, <3>3 DEF LateIsPainted
      <4>2. Coming(c)' = {} /\ queue'[c] = None
        BY <1>2, <1>7, <3>3, <4>1 DEF UpToDate
      <4>3. conn'[c] = "streaming" => shown'[c] # None /\ shown'[c] >= payload[u]
        <5>1. shown[c] # None => shown[c] \in Nat
          BY <1>1, FeedTypes
        <5>2. QED BY <1>2, <3>1, <4>1, <5>1 DEF UpToDate
      <4>4. QED BY <1>2, <4>2, <4>3 DEF UpToDate
    <3>4. QED BY <3>2, <3>3
  <2>6. LastIsNewest'
    <3>1. UNCHANGED <<payload, queue, conn>>
      BY <1>2
    <3>2. QED BY <2>5, <3>1 DEF LastIsNewest, Live
  <2>7. QED BY <2>3, <2>6
<1>12. QED BY <1>8, <1>9, <1>11 DEF FeedInv

-----------------------------------------------------------------------------
\* The oldest callback is run: what it offers replaces what was queued.
LEMMA FanOutInv ==
    ASSUME IInv, FeedInv, FanOut
    PROVE  FeedInv'
<1> DEFINE cb == loop[1]
<1>1. FeedTypeOK /\ SnapsBounded /\ FeedsBuilt /\ Registered
  BY DEF FeedInv
<1>2. /\ UNCHANGED <<hook, payload, audience, subs, conn, shown, boot, started, pc, run, snaps>>
      /\ loop # <<>> /\ loop' = Tail(loop)
      /\ queue' = [c \in Conns |-> IF c \in cb.to THEN cb.feed ELSE queue[c]]
  BY DEF FanOut, Offered, vars, threadVars, hookVars
<1>3. /\ loop' \in Seq([feed: Feeds, to: SUBSET Conns]) /\ Len(loop) \in Nat /\ Len(loop) >= 1
      /\ Len(loop') = Len(loop) - 1 /\ \A i \in 1..Len(loop') : loop'[i] = loop[i + 1]
  BY <1>1, <1>2 DEF FeedTypeOK
<1>4. 1 \in 1..Len(loop) /\ cb.feed \in Feeds /\ cb.feed \in Nat /\ cb.feed # None
  BY <1>1, <1>3, FeedTypes
<1> HIDE DEF cb
<1>5. ASSUME NEW c \in Conns
      PROVE  /\ \A i \in Coming(c)' : i + 1 \in Coming(c) /\ loop'[i].feed = loop[i + 1].feed /\ i \in Nat
             /\ \A i \in Coming(c) : i = 1 \/ i - 1 \in Coming(c)'
             /\ \A i \in Coming(c) : i \in Nat
             /\ 1 \in Coming(c) <=> c \in cb.to
  <2>1. \A i \in 1..Len(loop') : i + 1 \in 1..Len(loop) /\ i \in Nat
    BY <1>3
  <2>2. \A i \in 1..Len(loop) : i = 1 \/ (i - 1 \in 1..Len(loop') /\ (i - 1) + 1 = i)
    BY <1>3
  <2>3. \A i \in Coming(c)' : i + 1 \in Coming(c) /\ loop'[i].feed = loop[i + 1].feed /\ i \in Nat
    BY <1>3, <2>1 DEF Coming
  <2>4. \A i \in Coming(c) : i = 1 \/ i - 1 \in Coming(c)'
    BY <1>3, <2>2 DEF Coming
  <2>5. (\A i \in Coming(c) : i \in Nat) /\ (1 \in Coming(c) <=> c \in cb.to)
    BY <1>4 DEF Coming, cb
  <2>6. QED BY <2>3, <2>4, <2>5
<1>6. FeedTypeOK' /\ SnapsBounded' /\ FeedsBuilt'
  BY <1>1, <1>2, <1>3, <1>4 DEF FeedTypeOK, SnapsBounded, FeedsBuilt
<1>7. \A c \in Conns : Coming(c) = {} => Coming(c)' = {} /\ queue'[c] = queue[c]
  BY <1>2, <1>5
<1>8. Registered'
  BY <1>1, <1>2, <1>7 DEF Registered, Live
<1>9. ASSUME SerialHooks PROVE OneHook' /\ LateIsPainted' /\ LastIsNewest'
  <2>1. OneHook /\ LateIsPainted /\ LastIsNewest
    BY <1>9 DEF FeedInv
  <2>2. OneHook'
    BY <1>2, <2>1 DEF OneHook, Published
  <2>3. LateIsPainted'
    BY <1>2, <1>7, <2>1 DEF LateIsPainted, UpToDate, Live
  <2>4. ASSUME NEW u \in Threads, NEW c \in Conns, Published(u), Live(c)
        PROVE  \/ UpToDate(c, payload[u])'
               \/ Coming(c)' = {} /\ queue'[c] # None /\ queue'[c] >= payload[u]
               \/ \E i \in Coming(c)' : loop'[i].feed >= payload[u] /\ \A j \in Coming(c)' : j <= i
    <3>1. CASE Coming(c) = {}
      <4>1. Coming(c)' = {} /\ queue'[c] = queue[c]
        BY <1>7, <3>1
      <4>2. UpToDate(c, payload[u]) \/ (queue[c] # None /\ queue[c] >= payload[u])
        BY <2>1, <2>4, <3>1 DEF LastIsNewest
      <4>3. QED BY <1>2, <4>1, <4>2 DEF UpToDate
    <3>2. CASE Coming(c) # {}
      <4>1. PICK i \in Coming(c) : loop[i].feed >= payload[u] /\ \A j \in Coming(c) : j <= i
        BY <2>1, <2>4, <3>2 DEF LastIsNewest, UpToDate
      <4>2. CASE i = 1
        <5>1. Coming(c)' = {}
          <6> SUFFICES ASSUME NEW k \in Coming(c)' PROVE FALSE OBVIOUS
          <6>1. k + 1 \in Coming(c) /\ k \in Nat
            BY <1>5
          <6>2. k + 1 <= 1 /\ k # 0
            BY <1>3, <4>1, <4>2, <6>1 DEF Coming
          <6>3. QED BY <6>1, <6>2
        <5>2. queue'[c] = cb.feed /\ cb.feed >= payload[u]
          BY <1>2, <1>5, <4>1, <4>2 DEF cb
        <5>3. QED BY <1>4, <5>1, <5>2
      <4>3. CASE i # 1
        <5>1. i - 1 \in Coming(c)' /\ i \in Nat /\ (i - 1) + 1 = i
          BY <1>5, <4>1, <4>3
        <5>2. loop'[i - 1].feed = loop[(i - 1) + 1].feed
          BY <1>5, <5>1
        <5>3. loop'[i - 1].feed >= payload[u]
          BY <4>1, <5>1, <5>2
        <5>4. \A j \in Coming(c)' : j <= i - 1
          <6> TAKE j \in Coming(c)'
          <6>1. j + 1 \in Coming(c) /\ j \in Nat
            BY <1>5
          <6>2. j + 1 <= i
            BY <4>1, <6>1
          <6>3. QED BY <5>1, <6>1, <6>2
        <5>5. QED BY <5>1, <5>3, <5>4
      <4>4. QED BY <4>2, <4>3
    <3>3. QED BY <3>1, <3>2
  <2>5. LastIsNewest'
    BY <1>2, <2>4 DEF LastIsNewest, Published, Live
  <2>6. QED BY <2>2, <2>3, <2>5
<1>10. QED BY <1>6, <1>8, <1>9 DEF FeedInv

\* A client connects, is painted, reads, or goes away.
LEMMA ConnFeedInv ==
    ASSUME IInv, FeedInv, NEW c \in Conns, ConnStep(c)
    PROVE  FeedInv'
<1>1. FeedTypeOK /\ SnapsBounded /\ FeedsBuilt /\ Registered /\ Len(snaps) \in Nat
  BY LatestIsLen DEF FeedInv
<1>2. /\ UNCHANGED <<hook, payload, audience, loop, boot, started, pc, run, snaps>>
      /\ \A d \in Conns \ {c} : /\ conn'[d] = conn[d] /\ queue'[d] = queue[d] /\ shown'[d] = shown[d]
                                /\ d \in subs' <=> d \in subs
  BY <1>1 DEF ConnStep, Connect, Paint, Deliver, Disconnect, Abandon, vars, threadVars, hookVars, FeedTypeOK
<1>3. Len(snaps) \in Feeds /\ Len(snaps) # None
  <2>1. started \in 0..MaxScans
    BY DEF IInv, TypeOK
  <2>2. Len(snaps) \in Feeds
    BY <1>1, <2>1, ConstantsAssumption DEF SnapsBounded, Feeds
  <2>3. QED BY <2>2, NoneIsNoFeed DEF Feeds
<1>4. FeedTypeOK'
  BY <1>1, <1>2, <1>3, LatestIsLen DEF ConnStep, Connect, Paint, Deliver, Disconnect, Abandon, FeedTypeOK,
     hookVars
<1>5. SnapsBounded' /\ FeedsBuilt'
  BY <1>1, <1>2 DEF SnapsBounded, FeedsBuilt
<1>6. /\ conn'[c] # "new" /\ (Live(c)' => c \in subs')
      /\ Live(c)' => Live(c) \/ (conn[c] = "new" /\ conn'[c] = "painting" /\ queue'[c] = queue[c])
  BY <1>1 DEF ConnStep, Connect, Paint, Deliver, Disconnect, Abandon, FeedTypeOK, Registered, Live
<1>7. Registered'
  BY <1>1, <1>2, <1>6 DEF Registered, Live, Coming
<1>8. ASSUME NEW p \in Nat, p <= Len(snaps), Live(c), Live(c)', UpToDate(c, p)
      PROVE  UpToDate(c, p)'
  BY <1>1, <1>2, <1>3, <1>8, LatestIsLen DEF ConnStep, Connect, Paint, Deliver, Disconnect, Abandon,
     FeedTypeOK, UpToDate, Live, Coming
<1>9. ASSUME NEW p \in Nat, Live(c), Live(c)', Coming(c) = {}, queue[c] # None, queue[c] >= p
      PROVE  UpToDate(c, p)' \/ (Coming(c)' = {} /\ queue'[c] # None /\ queue'[c] >= p)
  BY <1>1, <1>2, <1>9 DEF ConnStep, Connect, Paint, Deliver, Disconnect, Abandon,
     FeedTypeOK, UpToDate, Live, Coming
<1>10. ASSUME SerialHooks PROVE OneHook' /\ LateIsPainted' /\ LastIsNewest'
  <2>1. OneHook /\ LateIsPainted /\ LastIsNewest
    BY <1>10 DEF FeedInv
  <2>2. OneHook'
    BY <1>2, <2>1 DEF OneHook, Published
  <2>3. \A t \in Threads : payload[t] # None => payload[t] \in Nat /\ payload[t] <= Len(snaps)
    BY <1>1, FeedTypes DEF FeedsBuilt
  <2>4. ASSUME NEW p \in Nat, ~Live(c), Live(c)' PROVE UpToDate(c, p)'
    BY <1>1, <1>2, <1>6, <2>4 DEF UpToDate, Live, Coming, Registered
  <2>5. ASSUME NEW t \in Threads, NEW d \in Conns, pc[t] = "hook", hook[t] = "post", Live(d)', d \notin audience[t]
        PROVE  UpToDate(d, payload[t])'
    <3>1. payload[t] # None
      BY <1>1, <2>5 DEF FeedsBuilt
    <3>2. CASE d = c
      <4>1. PICK p \in Nat : p = payload[t] /\ p <= Len(snaps)
        BY <2>3, <3>1
      <4>2. ASSUME Live(c) PROVE UpToDate(c, p)'
        <5>1. UpToDate(c, p)
          BY <2>1, <2>5, <3>2, <4>1, <4>2 DEF LateIsPainted
        <5>2. QED BY <1>8, <2>5, <3>2, <4>1, <4>2, <5>1
      <4>3. ASSUME ~Live(c) PROVE UpToDate(c, p)'
        BY <2>4, <2>5, <3>2, <4>3
      <4>4. UpToDate(c, p)'
        BY <4>2, <4>3
      <4>5. QED BY <1>2, <3>2, <4>1, <4>4 DEF UpToDate
    <3>3. CASE d # c
      BY <1>2, <2>1, <2>5, <3>3 DEF LateIsPainted, UpToDate, Live, Coming
    <3>4. QED BY <3>2, <3>3
  <2>6. LateIsPainted'
    BY <1>2, <2>5 DEF LateIsPainted
  <2>7. ASSUME NEW t \in Threads, NEW d \in Conns, Published(t), Live(d)'
        PROVE  \/ UpToDate(d, payload[t])'
               \/ Coming(d)' = {} /\ queue'[d] # None /\ queue'[d] >= payload[t]
               \/ \E i \in Coming(d)' : loop'[i].feed >= payload[t] /\ \A j \in Coming(d)' : j <= i
    <3>1. payload[t] # None /\ payload[t] \in Nat /\ payload[t] <= Len(snaps)
      BY <2>3, <2>7 DEF Published
    <3>2. Coming(d)' = Coming(d) /\ loop' = loop
      BY <1>2 DEF Coming
    <3>3. PICK p \in Nat : p = payload[t] /\ p <= Len(snaps)
      BY <3>1
    <3>4. CASE d = c
      <4>1. SUFFICES \/ UpToDate(c, p)'
                     \/ Coming(c)' = {} /\ queue'[c] # None /\ queue'[c] >= p
                     \/ \E i \in Coming(c)' : loop'[i].feed >= p /\ \A j \in Coming(c)' : j <= i
        BY <1>2, <3>3, <3>4 DEF UpToDate
      <4>2. ASSUME Live(c)
            PROVE  \/ UpToDate(c, p)
                   \/ Coming(c) = {} /\ queue[c] # None /\ queue[c] >= p
                   \/ \E i \in Coming(c) : loop[i].feed >= p /\ \A j \in Coming(c) : j <= i
        BY <2>1, <2>7, <3>3, <4>2 DEF LastIsNewest
      <4>3. CASE ~Live(c)
        BY <2>4, <2>7, <3>4, <4>3
      <4>4. CASE Live(c) /\ UpToDate(c, p)
        BY <1>8, <2>7, <3>3, <3>4, <4>4
      <4>5. CASE Live(c) /\ Coming(c) = {} /\ queue[c] # None /\ queue[c] >= p
        BY <1>9, <2>7, <3>4, <4>5
      <4>6. CASE \E i \in Coming(c) : loop[i].feed >= p /\ \A j \in Coming(c) : j <= i
        BY <3>2, <3>4, <4>6
      <4>7. QED BY <4>2, <4>3, <4>4, <4>5, <4>6
    <3>5. CASE d # c
      <4>1. Live(d) /\ queue'[d] = queue[d] /\ (UpToDate(d, payload[t])' <=> UpToDate(d, payload[t]))
        BY <1>2, <2>7, <3>2, <3>5 DEF Live, UpToDate
      <4>2. QED BY <2>1, <2>7, <3>2, <4>1 DEF LastIsNewest
    <3>6. QED BY <3>4, <3>5
  <2>8. LastIsNewest'
    BY <1>2, <2>7 DEF LastIsNewest, Published
  <2>9. QED BY <2>2, <2>6, <2>8
<1>11. QED BY <1>4, <1>5, <1>7, <1>10 DEF FeedInv

\* After a restart nobody is connected, and nothing of this process is published.
LEMMA RestartFeedInv ==
    ASSUME IInv, FeedInv, FeedRestart
    PROVE  FeedInv'
<1>1. FeedTypeOK /\ SnapsBounded /\ FeedsBuilt /\ Registered
  BY DEF FeedInv
<1>2. /\ UNCHANGED <<hook, payload, audience, queue, shown, started, run, snaps>>
      /\ loop' = <<>> /\ subs' = {}
      /\ conn' = [c \in Conns |-> IF conn[c] = "new" THEN "new" ELSE "ended"]
      /\ pc' = [t \in Threads |-> IF pc[t] = "unborn" THEN "unborn" ELSE "gone"]
  BY DEF FeedRestart, Restart, hookVars
<1>3. FeedTypeOK'
  BY <1>1, <1>2 DEF FeedTypeOK
<1>4. SnapsBounded' /\ FeedsBuilt'
  BY <1>1, <1>2 DEF SnapsBounded, FeedsBuilt
<1>5. Registered' /\ \A c \in Conns : ~Live(c)'
  BY <1>1, <1>2 DEF Registered, Live, Coming
<1>6. OneHook' /\ LateIsPainted' /\ LastIsNewest'
  BY <1>2, <1>5 DEF OneHook, LateIsPainted, LastIsNewest
<1>7. QED BY <1>3, <1>4, <1>5, <1>6 DEF FeedInv

-----------------------------------------------------------------------------
\* Every step of the push side keeps it.
LEMMA NextFeedInv == IInv /\ FeedInv /\ [FeedNext]_feedVars => FeedInv'
<1> SUFFICES ASSUME IInv, FeedInv, [FeedNext]_feedVars PROVE FeedInv' OBVIOUS
<1>1. CASE UNCHANGED feedVars
  BY <1>1 DEF feedVars, vars, threadVars, brokerVars, hookVars, connVars, FeedInv, FeedTypeOK, SnapsBounded,
     FeedsBuilt, Registered, OneHook, LateIsPainted, LastIsNewest, Published, UpToDate, Live, Coming
<1>2. ASSUME NEW t \in Threads, HookStep(t) PROVE FeedInv'
  <2>1. BuildRaises(t) => FeedInv'
    BY HookEndsInv DEF BuildRaises
  <2>2. Grab(t) => FeedInv'
    <3> SUFFICES ASSUME Grab(t) PROVE FeedInv' OBVIOUS
    <3>1. CASE subs = {}
      BY <3>1, HookEndsInv DEF Grab, brokerVars, hookVars
    <3>2. CASE subs # {}
      BY <3>2, GrabInv
    <3>3. QED BY <3>1, <3>2
  <2>3. QED BY <1>2, <2>1, <2>2, BuildFeedInv, PostInv DEF HookStep
<1>3. QED BY <1>1, <1>2, ManagerFeedInv, FanOutInv, ConnFeedInv, RestartFeedInv DEF FeedNext

\* With the push side around it, the manager is still the manager.
LEMMA FeedSpecIsSpec == FeedSpec => Spec
BY FeedNextIsNext, PTL DEF FeedSpec, FeedInit, Spec

\* At every moment, what is shown, queued and on its way agrees with what was published.
THEOREM FeedInvariance == FeedSpec => []FeedInv
<1>1. QED
  BY InitFeedInv, NextFeedInv, Invariance, FeedSpecIsSpec, PTL DEF FeedSpec

\* NewestNeverLost: when notify hooks do not overlap, a streaming client has every
\* published feed or a newer one, or it is still coming (events.py: "only ever misses
\* INTERMEDIATE snapshots").
THEOREM NewestNeverLostHolds ==
    ASSUME SerialHooks PROVE FeedSpec => []NewestNeverLost
<1>1. FeedInv => NewestNeverLost
  <2> SUFFICES ASSUME FeedInv, NEW t \in Threads, NEW c \in Conns, Published(t), conn[c] = "streaming"
               PROVE  \/ Received(c, payload[t])
                      \/ queue[c] # None /\ queue[c] >= payload[t]
                      \/ \E i \in 1..Len(loop) : c \in loop[i].to /\ loop[i].feed >= payload[t]
    BY DEF NewestNeverLost
  <2>1. \/ UpToDate(c, payload[t])
        \/ queue[c] # None /\ queue[c] >= payload[t]
        \/ \E i \in Coming(c) : loop[i].feed >= payload[t]
    BY DEF FeedInv, LastIsNewest, Live
  <2>2. UpToDate(c, payload[t]) => Received(c, payload[t])
    BY DEF UpToDate, Received, Published
  <2>3. QED BY <2>1, <2>2 DEF Coming
<1>2. QED BY <1>1, FeedInvariance, PTL

\* HookShowsOwnScan: the hook reads the store after its own commit, so what it announces
\* contains it, whether hooks overlap or not (api.py, _on_scan_complete).
THEOREM HookShowsOwnScanHolds == FeedSpec => []HookShowsOwnScan
<1>1. FeedInv => HookShowsOwnScan
  <2> SUFFICES ASSUME FeedInv, NEW t \in Threads, payload[t] # None PROVE payload[t] >= run[t].sid
    BY DEF HookShowsOwnScan
  <2>1. run[t].sid <= payload[t]
    BY DEF FeedInv, FeedsBuilt
  <2>2. QED BY <2>1
<1>2. QED BY <1>1, FeedInvariance, PTL
=============================================================================
