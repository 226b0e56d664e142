--------------------------- MODULE SchedulerProofs ---------------------------
(***************************************************************************)
(* The auto-scan scheduler, for every number of loops, viewers, tabs and   *)
(* intervals: one loop at a time, and no wake-up is lost.                  *)
(***************************************************************************)
EXTENDS Scheduler, TLAPS

\* Loops are numbered as they are started; all but the last are dead.
OnlyLastAlive ==
    \A l \in Loops :
        /\ l > thread <=> pc[l] = "unborn"
        /\ l < thread => pc[l] = "dead"

\* Where the loop goes by what it has read, a change since then is announced: the event
\* is set, or the setter is about to set it.
ChangeAnnounced ==
    \A l \in Loops :
        /\ pc[l] \in {"count", "touch", "scan", "sleep", "wait"} =>
                seen.enabled = enabled \/ wakeSet \/ setting
        /\ pc[l] = "wait" => seen.interval = interval \/ wakeSet \/ setting

SchedInv ==
    /\ SchedTypeOK
    /\ OnlyLastAlive
    /\ ChangeAnnounced

-----------------------------------------------------------------------------
(* The invariant holds initially and every action preserves it. *)

\* The scheduler starts with its invariant.
LEMMA InitSchedInv == SchedInit => SchedInv
<1> SUFFICES ASSUME SchedInit PROVE SchedInv OBVIOUS
<1>1. SchedTypeOK
  <2>1. seen \in [enabled: BOOLEAN, interval: Intervals]
    BY DEF SchedInit
  <2>2. pc \in [Loops -> PCs]
    BY DEF SchedInit, PCs
  <2>3. thread \in 0..MaxLoops /\ count \in Nat
    BY SchedulerConstants DEF SchedInit
  <2>4. {setting, stopSet, wakeSet, gated, touched} \subseteq BOOLEAN
    BY Zenon DEF SchedInit
  <2>5. QED BY <2>1, <2>2, <2>3, <2>4 DEF SchedInit, SchedTypeOK
<1>2. OnlyLastAlive /\ ChangeAnnounced
  BY SchedulerConstants DEF SchedInit, OnlyLastAlive, ChangeAnnounced, Loops
<1>3. QED BY <1>1, <1>2 DEF SchedInv

\* A new loop starts when the last one is dead, before its first read.
LEMMA StartSchedInv ==
    ASSUME SchedInv, Start
    PROVE  SchedInv'
<1> USE SchedulerConstants DEF Start, settings, presence
<1>1. SchedTypeOK'
  <2>1. pc' \in [Loops -> PCs]
    BY DEF SchedInv, SchedTypeOK, PCs
  <2>2. thread' \in 0..MaxLoops
    BY DEF SchedInv, SchedTypeOK
  <2>3. QED BY <2>1, <2>2 DEF SchedInv, SchedTypeOK
<1>2. \A l \in Loops : l <= thread => pc[l] = "dead"
  BY DEF SchedInv, SchedTypeOK, OnlyLastAlive, Running, Alive, Loops
<1>3. OnlyLastAlive'
  BY <1>2 DEF SchedInv, SchedTypeOK, OnlyLastAlive, Loops
<1>4. ChangeAnnounced'
  BY <1>2 DEF SchedInv, SchedTypeOK, OnlyLastAlive, ChangeAnnounced, Loops
<1>5. QED BY <1>1, <1>3, <1>4 DEF SchedInv

\* stop() only ever sets events.
LEMMA StopSchedInv ==
    ASSUME SchedInv, StopSet \/ StopWake \/ StopReturns
    PROVE  SchedInv'
<1> USE DEF StopSet, StopWake, StopReturns, settings, presence
<1>1. SchedTypeOK'
  BY DEF SchedInv, SchedTypeOK
<1>2. OnlyLastAlive' /\ ChangeAnnounced'
  BY DEF SchedInv, OnlyLastAlive, ChangeAnnounced
<1>3. QED BY <1>1, <1>2 DEF SchedInv

\* A setter announces its change from the moment it has written its field.
LEMMA SettingSchedInv ==
    ASSUME SchedInv, SetEnabled \/ SetInterval \/ SetWake
    PROVE  SchedInv'
<1> USE DEF SetEnabled, SetInterval, SetWake, control, presence
<1>1. SchedTypeOK'
  BY DEF SchedInv, SchedTypeOK
<1>2. OnlyLastAlive' /\ ChangeAnnounced'
  BY DEF SchedInv, OnlyLastAlive, ChangeAnnounced
<1>3. QED BY <1>1, <1>2 DEF SchedInv

\* Viewers that come and go touch neither the loop nor its settings.
LEMMA PresenceSchedInv ==
    ASSUME SchedInv,
           \/ \E v \in Viewers : Connect(v) \/ Disconnect(v)
           \/ \E tab \in Tabs : OpenTab(tab) \/ CloseTab(tab)
           \/ Lapse
    PROVE  SchedInv'
<1> USE DEF Connect, Disconnect, OpenTab, CloseTab, Lapse, settings, control
<1>1. SchedTypeOK'
  <2>1. count' \in Nat
    BY DEF SchedInv, SchedTypeOK
  <2>2. connected' \subseteq Viewers /\ open' \subseteq Tabs /\ touched' \in BOOLEAN
    BY DEF SchedInv, SchedTypeOK
  <2>3. UNCHANGED <<settings, control, pc, seen>>
    OBVIOUS
  <2> HIDE DEF Connect, Disconnect, OpenTab, CloseTab, Lapse
  <2>4. QED BY <2>1, <2>2, <2>3 DEF SchedInv, SchedTypeOK
<1>2. OnlyLastAlive' /\ ChangeAnnounced'
  BY DEF SchedInv, OnlyLastAlive, ChangeAnnounced
<1>3. QED BY <1>1, <1>2 DEF SchedInv

\* A step of a loop: what it reads it reads now, and it clears the event only on its way
\* to reading again.
LEMMA LoopSchedInv ==
    ASSUME SchedInv, NEW l \in Loops, LoopStep(l) \/ TimedOut(l)
    PROVE  SchedInv'
<1> USE DEF settings, control, presence, Goto
<1>1. Alive(l) /\ l = thread
  BY DEF SchedInv, SchedTypeOK, OnlyLastAlive, Alive, LoopStep, Test, Decide, GateCount, GateTouch,
     Scanned, Sleep, Woken, Clear, TimedOut, Loops
<1>2. \A k \in Loops : k # l => pc'[k] = pc[k] /\ pc[k] \in {"unborn", "dead"}
  BY <1>1, SchedulerConstants DEF SchedInv, SchedTypeOK, OnlyLastAlive, LoopStep, Test, Decide, GateCount,
     GateTouch, Scanned, Sleep, Woken, Clear, TimedOut, Loops
<1>3. pc'[l] \in PCs \ {"unborn"} /\ thread' = thread
  BY DEF SchedInv, SchedTypeOK, PCs, LoopStep, Test, Decide, GateCount, GateTouch, Scanned, Sleep,
     Woken, Clear, TimedOut
<1>4. SchedTypeOK'
  <2>1. pc' \in [Loops -> PCs]
    BY <1>3 DEF SchedInv, SchedTypeOK, LoopStep, Test, Decide, GateCount, GateTouch, Scanned,
       Sleep, Woken, Clear, TimedOut
  <2>2. seen' \in [enabled: BOOLEAN, interval: Intervals] /\ wakeSet' \in BOOLEAN
    BY DEF SchedInv, SchedTypeOK, LoopStep, Test, Decide, GateCount, GateTouch, Scanned,
       Sleep, Woken, Clear, TimedOut
  <2>3. UNCHANGED <<settings, stopSet, thread, gated, main, presence>>
    BY DEF LoopStep, Test, Decide, GateCount, GateTouch, Scanned, Sleep, Woken, Clear, TimedOut
  <2>4. QED BY <2>1, <2>2, <2>3 DEF SchedInv, SchedTypeOK
<1>5. OnlyLastAlive'
  BY <1>1, <1>2, <1>3, SchedulerConstants DEF SchedInv, SchedTypeOK, OnlyLastAlive, Loops, PCs
<1>6. ChangeAnnounced'
  <2>1. pc'[l] \in {"count", "touch", "scan", "sleep", "wait"} =>
            seen'.enabled = enabled' \/ wakeSet' \/ setting'
    BY DEF SchedInv, SchedTypeOK, ChangeAnnounced, LoopStep, Test, Decide, GateCount, GateTouch,
       Scanned, Sleep, Woken, Clear, TimedOut
  <2>2. pc'[l] = "wait" => seen'.interval = interval' \/ wakeSet' \/ setting'
    BY DEF SchedInv, SchedTypeOK, ChangeAnnounced, LoopStep, Test, Decide, GateCount, GateTouch,
       Scanned, Sleep, Woken, Clear, TimedOut
  <2>3. QED BY <1>2, <2>1, <2>2 DEF ChangeAnnounced
<1>7. QED BY <1>4, <1>5, <1>6 DEF SchedInv

\* Every step of the loops and of the setter keeps it.
LEMMA NextSchedInv == SchedInv /\ [SchedNext]_vars => SchedInv'
<1> SUFFICES ASSUME SchedInv, [SchedNext]_vars PROVE SchedInv' OBVIOUS
<1>1. CASE Start
  BY <1>1, StartSchedInv
<1>2. CASE StopSet \/ StopWake \/ StopReturns
  BY <1>2, StopSchedInv
<1>3. CASE SetEnabled \/ SetInterval \/ SetWake
  BY <1>3, SettingSchedInv
<1>4. CASE \/ \E v \in Viewers : Connect(v) \/ Disconnect(v)
           \/ \E tab \in Tabs : OpenTab(tab) \/ CloseTab(tab)
           \/ Lapse
  BY <1>4, PresenceSchedInv
<1>5. CASE \E l \in Loops : LoopStep(l) \/ TimedOut(l)
  BY <1>5, LoopSchedInv
<1>6. CASE UNCHANGED vars
  BY <1>6 DEF SchedInv, SchedTypeOK, OnlyLastAlive, ChangeAnnounced, vars, settings, control, presence
<1>7. QED BY <1>1, <1>2, <1>3, <1>4, <1>5, <1>6 DEF SchedNext

\* Every behaviour of the scheduler keeps the invariant.
THEOREM SchedInvariance == SchedSpec => []SchedInv
<1>1. QED BY InitSchedInv, NextSchedInv, PTL DEF SchedSpec

-----------------------------------------------------------------------------
(* What the scheduler promises. *)

\* Every reachable state of the scheduler is well typed.
THEOREM SchedTypeCorrect == SchedSpec => []SchedTypeOK
<1>1. SchedInv => SchedTypeOK
  BY DEF SchedInv
<1>2. QED BY <1>1, SchedInvariance, PTL

\* Whatever the order of starts and stops, two loops are never alive at once.
THEOREM OneLoopHolds == SchedSpec => []OneLoop
<1>1. SchedInv => OneLoop
  BY SchedulerConstants DEF SchedInv, SchedTypeOK, OnlyLastAlive, OneLoop, Alive, Loops
<1>2. QED BY <1>1, SchedInvariance, PTL

\* A loop never sleeps through a change of its settings.
THEOREM NoStaleSleepHolds == SchedSpec => []NoStaleSleep
<1>1. ASSUME SchedInv PROVE NoStaleSleep
  <2>1. seen = [enabled |-> seen.enabled, interval |-> seen.interval]
    BY <1>1 DEF SchedInv, SchedTypeOK
  <2>2. QED BY <1>1, <2>1 DEF SchedInv, ChangeAnnounced, NoStaleSleep
<1>2. QED BY <1>1, SchedInvariance, PTL
=============================================================================
