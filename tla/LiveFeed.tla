------------------------------ MODULE LiveFeed ------------------------------
(***************************************************************************)
(* ScanManager composed with the push side of the program: the notify hook *)
(* of api.py, the broker of events.py, the event loop it posts to, and the *)
(* SSE connections of GET /api/terminal/stream.                            *)
(*                                                                         *)
(* A feed payload is abstracted to the id of the snapshot it was built     *)
(* from (0: the empty store).  A connection is used once: a tab that       *)
(* reconnects is another connection.                                       *)
(***************************************************************************)
EXTENDS ScanManager

CONSTANTS
    Conns,     \* SSE connections
    None       \* no feed: an empty queue, a client that shows nothing yet

ASSUME NoneIsNoFeed == None \notin 0..MaxScans

VARIABLES
    hook,      \* where on_complete is in each thread: "enter", "grab", "post"
    payload,   \* the feed each hook has built
    audience,  \* the subscribers each publish has read under the broker's lock
    loop,      \* callbacks posted to the event loop: [feed, to], oldest first
    subs,      \* events._subscribers
    conn,      \* each connection: "new", "painting", "streaming", "ended"
    queue,     \* its asyncio.Queue(maxsize=1): a feed, or None
    shown      \* the feed its client received last

hookVars == <<hook, payload, audience>>
connVars == <<conn, queue, shown>>
brokerVars == <<hookVars, loop, subs, connVars>>
feedVars == <<vars, brokerVars>>

Feeds == 0..MaxScans

FeedInit ==
    /\ Init
    /\ hook = [t \in Threads |-> "enter"]
    /\ payload = [t \in Threads |-> None]
    /\ audience = [t \in Threads |-> {}]
    /\ loop = <<>>
    /\ subs = {}
    /\ conn = [c \in Conns |-> "new"]
    /\ queue = [c \in Conns |-> None]
    /\ shown = [c \in Conns |-> None]

-----------------------------------------------------------------------------
(* on_complete and events.publish, on the scan thread *)

\* Mutant: the payload is the snapshot the thread read when it was started.
BuildFeedStale(t) ==
    /\ pc[t] = "hook" /\ hook[t] = "enter"
    /\ payload' = [payload EXCEPT ![t] = run[t].sid - 1]
    /\ hook' = [hook EXCEPT ![t] = "grab"]
    /\ UNCHANGED <<vars, audience, loop, subs, connVars>>

\* build_feed reads the store's latest, whatever it is by now.
BuildFeed(t) ==
    /\ pc[t] = "hook" /\ hook[t] = "enter"
    /\ payload' = [payload EXCEPT ![t] = Latest(snaps)]
    /\ hook' = [hook EXCEPT ![t] = "grab"]
    /\ UNCHANGED <<vars, audience, loop, subs, connVars>>

\* build_feed raised: logged, nothing is published.
BuildRaises(t) ==
    /\ hook[t] = "enter"
    /\ HookDone(t)
    /\ UNCHANGED brokerVars

\* publish, under the broker's lock: the subscribers are copied; with none it returns.
Grab(t) ==
    /\ hook[t] = "grab"
    /\ IF subs = {}
       THEN HookDone(t) /\ UNCHANGED <<hook, audience>>
       ELSE /\ pc[t] = "hook"
            /\ audience' = [audience EXCEPT ![t] = subs]
            /\ hook' = [hook EXCEPT ![t] = "post"]
            /\ UNCHANGED vars
    /\ UNCHANGED <<payload, loop, subs, connVars>>

\* publish, after it: call_soon_threadsafe posts the fan-out, the thread ends.
Post(t) ==
    /\ hook[t] = "post"
    /\ HookDone(t)
    /\ loop' = Append(loop, [feed |-> payload[t], to |-> audience[t]])
    /\ UNCHANGED <<hookVars, subs, connVars>>

-----------------------------------------------------------------------------
(* the event loop *)

\* Mutant: a full queue keeps its payload and the newer one is dropped.
OfferedKeepsOld(q, feed, to) ==
    [c \in Conns |-> IF c \in to /\ q[c] = None THEN feed ELSE q[c]]

\* _offer on every queue of the audience: a full queue drops its payload for this one.
Offered(q, feed, to) == [c \in Conns |-> IF c \in to THEN feed ELSE q[c]]

FanOut ==
    /\ loop # <<>>
    /\ queue' = Offered(queue, Head(loop).feed, Head(loop).to)
    /\ loop' = Tail(loop)
    /\ UNCHANGED <<vars, hookVars, subs, conn, shown>>

\* Mutant: the queue is registered only once the first paint is out.
ConnectUnsubscribed(c) ==
    /\ conn[c] = "new"
    /\ conn' = [conn EXCEPT ![c] = "painting"]
    /\ UNCHANGED <<vars, hookVars, loop, subs, queue, shown>>

\* The handler of GET /api/terminal/stream: the queue is registered first.
Connect(c) ==
    /\ conn[c] = "new"
    /\ conn' = [conn EXCEPT ![c] = "painting"]
    /\ subs' = subs \cup {c}
    /\ UNCHANGED <<vars, hookVars, loop, queue, shown>>

\* gen() starts: instant paint from the store.
Paint(c) ==
    /\ conn[c] = "painting"
    /\ conn' = [conn EXCEPT ![c] = "streaming"]
    /\ shown' = [shown EXCEPT ![c] = Latest(snaps)]
    /\ UNCHANGED <<vars, hookVars, loop, subs, queue>>

\* q.get() returned a payload and it was written to the client.
Deliver(c) ==
    /\ conn[c] = "streaming"
    /\ queue[c] # None
    /\ shown' = [shown EXCEPT ![c] = queue[c]]
    /\ queue' = [queue EXCEPT ![c] = None]
    /\ UNCHANGED <<vars, hookVars, loop, subs, conn>>

\* The client went away: gen()'s finally unsubscribes the queue.  A fan-out that
\* has copied the subscribers may still offer to it; nobody reads it.
Disconnect(c) ==
    /\ conn[c] = "streaming"
    /\ conn' = [conn EXCEPT ![c] = "ended"]
    /\ subs' = subs \ {c}
    /\ UNCHANGED <<vars, hookVars, loop, queue, shown>>

\* It went away before gen() started: a generator that never ran has no finally to run,
\* and the queue stays registered.
Abandon(c) ==
    /\ conn[c] = "painting"
    /\ conn' = [conn EXCEPT ![c] = "ended"]
    /\ UNCHANGED <<vars, hookVars, loop, subs, queue, shown>>

\* A restart drops the loop, the broker and every connection.
FeedRestart ==
    /\ Restart
    /\ loop' = <<>>
    /\ subs' = {}
    /\ conn' = [c \in Conns |-> IF conn[c] = "new" THEN "new" ELSE "ended"]
    /\ UNCHANGED <<hookVars, queue, shown>>

HookStep(t) == BuildFeed(t) \/ BuildRaises(t) \/ Grab(t) \/ Post(t)

ConnStep(c) == Connect(c) \/ Paint(c) \/ Deliver(c) \/ Disconnect(c) \/ Abandon(c)

\* A step of the manager that is not its hook.
ManagerStep ==
    \/ \E c \in Callers : CallerStep(c)
    \/ \E t \in Threads : FlightStep(t)
    \/ Tick

FeedNext ==
    \/ ManagerStep /\ UNCHANGED brokerVars
    \/ \E t \in Threads : HookStep(t)
    \/ FanOut
    \/ \E c \in Conns : ConnStep(c)
    \/ FeedRestart

FeedSpec == FeedInit /\ [][FeedNext]_feedVars

\* Threads that are alive run, the event loop runs its callbacks, and a client that
\* stays connected keeps reading.  Nobody is obliged to connect, to stay or to scan.
FeedFairSpec ==
    /\ FeedSpec
    /\ \A t \in Threads : WF_feedVars(FlightStep(t) /\ UNCHANGED brokerVars) /\ WF_feedVars(HookStep(t))
    /\ WF_feedVars(FanOut)
    /\ \A c \in Conns : WF_feedVars(Paint(c) \/ Deliver(c))

-----------------------------------------------------------------------------
(* what the push side is for *)

\* Thread t has handed its feed to the loop (or found nobody to hand it to).
Published(t) == pc[t] = "gone" /\ run[t].boot = boot /\ payload[t] # None

Received(c, feed) == None \notin {shown[c], feed} /\ shown[c] >= feed

\* events.py:10-13: a tab "only ever misses INTERMEDIATE snapshots -- the next one it
\* reads is always current".  For every published feed, a streaming client has
\* received it or a newer one, or that is still queued for it: neither the copy of
\* the subscribers, nor the instant paint, nor the coalescing loses the newest feed.
NewestNeverLost ==
    \A t \in Threads, c \in Conns :
        Published(t) /\ conn[c] = "streaming" =>
            \/ Received(c, payload[t])
            \/ queue[c] # None /\ queue[c] >= payload[t]
            \/ \E i \in 1..Len(loop) : c \in loop[i].to /\ loop[i].feed >= payload[t]

\* A scan that announces its success never announces less than what it committed:
\* the feed it publishes contains its own snapshot.
HookShowsOwnScan ==
    \A t \in Threads : payload[t] # None => payload[t] >= run[t].sid

\* A client that stays connected ends up with every published feed or a newer one.
CatchesUp ==
    \A t \in Threads, c \in Conns :
        Published(t) /\ conn[c] = "streaming" ~> Received(c, payload[t]) \/ conn[c] = "ended"
=============================================================================
