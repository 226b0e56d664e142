------------------------------ MODULE Scheduler ------------------------------
(***************************************************************************)
(* scan_scheduler.py with the gate serve.py gives it and the presence it   *)
(* reads: the auto-scan loop, its two events, the live reconfiguration     *)
(* from the dashboard, start and stop.                                     *)
(*                                                                         *)
(* Time is left out: a wait may end at any moment and a heartbeat may      *)
(* lapse at any moment its window allows.  The scan the loop calls is      *)
(* ScanManager's matter.                                                   *)
(***************************************************************************)
EXTENDS Naturals

CONSTANTS
    Viewers,     \* dashboard (NiceGUI) clients
    Tabs,        \* Terminal tabs, which poll the feed or keep its stream open
    Intervals,   \* config.AUTO_SCAN_INTERVAL_OPTIONS
    MaxLoops     \* bound: loop threads started in a behaviour

ASSUME SchedulerConstants == Intervals \subseteq Nat \ {0} /\ MaxLoops \in Nat

VARIABLES
    enabled,      \* self.enabled
    interval,     \* self.interval_s
    stopSet,      \* self._stop
    wakeSet,      \* self._wake
    thread,       \* self._thread: number of the last loop started, 0 for None
    gated,        \* self._gate: FALSE for None (24/7 scanning)
    pc,           \* where each loop is
    seen,         \* [enabled, interval] as the loop last read them
    setting,      \* a setter has written its field and not yet set _wake
    main,         \* the caller of start and stop: "free", "stopping", "joining"
    connected,    \* dashboard clients that are connected
    count,        \* presence._count
    open,         \* Terminal tabs that are open
    touched       \* presence._last_touch is within TERMINAL_PRESENCE_WINDOW_S

settings == <<enabled, interval, setting>>
control == <<stopSet, wakeSet, thread, gated, main>>
presence == <<connected, count, open, touched>>
vars == <<settings, control, presence, pc, seen>>

Loops == 1..MaxLoops

PCs == {"unborn", "test", "decide", "count", "touch", "scan", "sleep", "wait", "clear", "dead"}

(* Types of the state; proved in SchedulerProofs.                            *)
SchedTypeOK ==
    /\ enabled \in BOOLEAN /\ interval \in Intervals /\ setting \in BOOLEAN
    /\ stopSet \in BOOLEAN /\ wakeSet \in BOOLEAN
    /\ thread \in 0..MaxLoops /\ gated \in BOOLEAN /\ main \in {"free", "stopping", "joining"}
    /\ pc \in [Loops -> PCs]
    /\ seen \in [enabled: BOOLEAN, interval: Intervals]
    /\ connected \subseteq Viewers /\ count \in Nat
    /\ open \subseteq Tabs /\ touched \in BOOLEAN

SchedInit ==
    /\ enabled \in BOOLEAN
    /\ interval \in Intervals
    /\ stopSet = FALSE /\ wakeSet = FALSE
    /\ thread = 0 /\ gated = FALSE
    /\ pc = [l \in Loops |-> "unborn"]
    /\ seen = [enabled |-> enabled, interval |-> interval]
    /\ setting = FALSE
    /\ main = "free"
    /\ connected = {} /\ count = 0
    /\ open = {} /\ touched = FALSE

Alive(l) == pc[l] \notin {"unborn", "dead"}

-----------------------------------------------------------------------------
(* start and stop *)

\* Mutant: a loop that was told to stop counts as stopped.
RunningUnlessStopped == thread # 0 /\ Alive(thread) /\ ~stopSet

\* `self._thread is not None and self._thread.is_alive()`
Running == thread # 0 /\ Alive(thread)

Start ==
    /\ main = "free"
    /\ ~Running          \* otherwise a no-op
    /\ thread < MaxLoops
    /\ thread' = thread + 1
    /\ gated' \in BOOLEAN
    /\ pc' = [pc EXCEPT ![thread + 1] = "test"]
    /\ stopSet' = FALSE
    /\ wakeSet' = FALSE
    /\ UNCHANGED <<settings, main, presence, seen>>

\* stop(): _stop is set first, _wake after it.
StopSet ==
    /\ main = "free"
    /\ stopSet' = TRUE
    /\ main' = "stopping"
    /\ UNCHANGED <<settings, wakeSet, thread, gated, presence, pc, seen>>

\* Mutant: stop() relies on the loop's own timeout.
StopWakeForgotten ==
    /\ main = "stopping"
    /\ main' = "joining"
    /\ UNCHANGED <<settings, stopSet, wakeSet, thread, gated, presence, pc, seen>>

StopWake ==
    /\ main = "stopping"
    /\ wakeSet' = TRUE
    /\ main' = "joining"
    /\ UNCHANGED <<settings, stopSet, thread, gated, presence, pc, seen>>

\* join(2 s) ended: the loop is dead, or it is still in a scan.
StopReturns ==
    /\ main = "joining"
    /\ main' = "free"
    /\ UNCHANGED <<settings, stopSet, wakeSet, thread, gated, presence, pc, seen>>

-----------------------------------------------------------------------------
(* live reconfiguration: the handlers of the dashboard run one at a time on the event loop *)

SetEnabled ==
    /\ ~setting
    /\ enabled' \in BOOLEAN
    /\ setting' = TRUE
    /\ UNCHANGED <<interval, control, presence, pc, seen>>

SetInterval ==
    /\ ~setting
    /\ interval' \in Intervals
    /\ setting' = TRUE
    /\ UNCHANGED <<enabled, control, presence, pc, seen>>

\* The second half of both setters.
SetWake ==
    /\ setting
    /\ wakeSet' = TRUE
    /\ setting' = FALSE
    /\ UNCHANGED <<enabled, interval, stopSet, thread, gated, main, presence, pc, seen>>

-----------------------------------------------------------------------------
(* presence *)

Connect(v) ==
    /\ v \notin connected
    /\ connected' = connected \cup {v}
    /\ count' = count + 1
    /\ UNCHANGED <<settings, control, open, touched, pc, seen>>

\* Mutant: the counter is floored at one.
DisconnectFloored(v) ==
    /\ v \in connected
    /\ connected' = connected \ {v}
    /\ count' = IF count > 1 THEN count - 1 ELSE 1
    /\ UNCHANGED <<settings, control, open, touched, pc, seen>>

Disconnect(v) ==
    /\ v \in connected
    /\ connected' = connected \ {v}
    /\ count' = IF count > 0 THEN count - 1 ELSE 0
    /\ UNCHANGED <<settings, control, open, touched, pc, seen>>

\* A feed poll, or the connection of a stream: the heartbeat is touched.  It is touched
\* again by every poll and every keep-alive, both more often than the window.
OpenTab(tab) ==
    /\ tab \notin open
    /\ open' = open \cup {tab}
    /\ touched' = TRUE
    /\ UNCHANGED <<settings, control, connected, count, pc, seen>>

CloseTab(tab) ==
    /\ tab \in open
    /\ open' = open \ {tab}
    /\ UNCHANGED <<settings, control, connected, count, touched, pc, seen>>

\* The window has passed since the last touch.
Lapse ==
    /\ open = {} /\ touched
    /\ touched' = FALSE
    /\ UNCHANGED <<settings, control, connected, count, open, pc, seen>>

-----------------------------------------------------------------------------
(* the loop: _run *)

Goto(l, from, to) == pc[l] = from /\ pc' = [pc EXCEPT ![l] = to]

\* while not self._stop.is_set()
Test(l) ==
    /\ Goto(l, "test", IF stopSet THEN "dead" ELSE "decide")
    /\ UNCHANGED <<settings, control, presence, seen>>

\* `if self.enabled and ... (self._gate is None or ...`
Decide(l) ==
    /\ Goto(l, "decide", CASE ~enabled -> "sleep"
                           [] enabled /\ gated -> "count"
                           [] enabled /\ ~gated -> "scan")
    /\ seen' = [seen EXCEPT !.enabled = enabled]
    /\ UNCHANGED <<settings, control, presence>>

\* The gate reads the two signals one after the other.
GateCount(l) ==
    /\ Goto(l, "count", IF count > 0 THEN "scan" ELSE "touch")
    /\ UNCHANGED <<settings, control, presence, seen>>

GateTouch(l) ==
    /\ Goto(l, "touch", IF touched THEN "scan" ELSE "sleep")
    /\ UNCHANGED <<settings, control, presence, seen>>

\* Mutant: an exception of the scan leaves the loop.
ScannedOrDead(l) ==
    /\ pc[l] = "scan"
    /\ pc' \in {[pc EXCEPT ![l] = "sleep"], [pc EXCEPT ![l] = "dead"]}
    /\ UNCHANGED <<settings, control, presence, seen>>

\* scan_fn returned, or raised and was logged.
Scanned(l) ==
    /\ Goto(l, "scan", "sleep")
    /\ UNCHANGED <<settings, control, presence, seen>>

\* Mutant: the event is cleared before the wait instead of after it.
SleepCleared(l) ==
    /\ Goto(l, "sleep", "wait")
    /\ seen' = [seen EXCEPT !.interval = interval]
    /\ wakeSet' = FALSE
    /\ UNCHANGED <<settings, stopSet, thread, gated, main, presence>>

\* _wake.wait(timeout=interval_s) is entered with the interval of now.
Sleep(l) ==
    /\ Goto(l, "sleep", "wait")
    /\ seen' = [seen EXCEPT !.interval = interval]
    /\ UNCHANGED <<settings, control, presence>>

Woken(l) ==
    /\ wakeSet
    /\ Goto(l, "wait", "clear")
    /\ UNCHANGED <<settings, control, presence, seen>>

TimedOut(l) ==
    /\ Goto(l, "wait", "clear")
    /\ UNCHANGED <<settings, control, presence, seen>>

Clear(l) ==
    /\ Goto(l, "clear", "test")
    /\ wakeSet' = FALSE
    /\ UNCHANGED <<settings, stopSet, thread, gated, main, presence, seen>>

LoopStep(l) ==
    \/ Test(l) \/ Decide(l) \/ GateCount(l) \/ GateTouch(l)
    \/ Scanned(l) \/ Sleep(l) \/ Woken(l) \/ Clear(l)

SchedNext ==
    \/ Start \/ StopSet \/ StopWake \/ StopReturns
    \/ SetEnabled \/ SetInterval \/ SetWake
    \/ \E v \in Viewers : Connect(v) \/ Disconnect(v)
    \/ \E tab \in Tabs : OpenTab(tab) \/ CloseTab(tab)
    \/ Lapse
    \/ \E l \in Loops : LoopStep(l) \/ TimedOut(l)

SchedSpec == SchedInit /\ [][SchedNext]_vars

\* A live loop runs and its scan returns; stop() and a setter, once begun, go on; the window
\* of the heartbeat passes.  No timeout is fair: what follows must not depend on the interval.
SchedFairSpec ==
    /\ SchedSpec
    /\ \A l \in Loops : WF_vars(LoopStep(l))
    /\ WF_vars(StopWake) /\ WF_vars(SetWake) /\ WF_vars(Lapse)

-----------------------------------------------------------------------------
(* what the scheduler is for *)

\* "A SINGLE loop runs per process" (scan_scheduler.py:4-5): a start while an old loop
\* is still in a scan, after a stop() that gave up joining it, must not add a second one.
OneLoop == \A k, l \in Loops : Alive(k) /\ Alive(l) => k = l

\* No wake-up is lost: a loop that sleeps with _wake clear goes by the settings of now,
\* wherever between its reads and its wait they were changed, unless the setter that
\* changed them has not come to its set() yet.
NoStaleSleep ==
    \A l \in Loops :
        pc[l] = "wait" /\ ~wakeSet =>
            setting \/ seen = [enabled |-> enabled, interval |-> interval]

\* "Signal the loop to terminate": a loop that was told to stop ends, at most one scan later
\* and without waiting for its interval to pass; no start revives it.
StopEnds == \A l \in Loops : Alive(l) /\ stopSet ~> pc[l] = "dead"

\* While the loop is enabled and not stopped, its waits end and a viewer stays, it scans again and
\* again: failed scans, a gate that was closed, reconfiguration and restarts in the past do not
\* end it.
ScansGoOn ==
    /\ \A l \in Loops : WF_vars(TimedOut(l))
    /\ <>[](enabled /\ ~stopSet)
    /\ <>[](connected # {}) \/ <>[](open # {})
    => [](thread = 0) \/ []<>(\E l \in Loops : pc[l] = "scan")

\* With the gate on, scanning pauses once nobody is left, and stays paused: the counter
\* comes back to zero however viewers came and went.
IdlePauses ==
    <>[](gated /\ connected = {} /\ open = {}) => <>[](\A l \in Loops : pc[l] # "scan")
=============================================================================
