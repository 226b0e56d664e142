# TLA+ models of Kalshi-Visualizer

The repository is a single-process Python server (FastAPI + NiceGUI) that scans Kalshi's public
markets, stores each scan as a snapshot in SQLite, detects price inconsistencies, and serves them to a
REST API, a dashboard and a "Terminal" single-page app with a live stream. Its code is short where it is
sequential and subtle where threads, transactions and the event loop meet. This directory models those
places and the arithmetic the whole program rests on, checks them with TLC and proves what matters most of the scan
manager, the live feed, the store with its readers and its migration, the scheduler, authentication, the fetch and the
scanner with TLAPS.

Paths below are relative to the repository (`src/` in `PROJECT.json`).

## 1. Inventory

| component | state it keeps | operations | talks to | hard because |
|---|---|---|---|---|
| **Scan manager** `scan_manager.py` | `_thread`, `_cooldown_until`, `_status` | `trigger`, `status`, `_run` | scanner (`run_fn`), store (`write_fn`), the notify hook (`on_complete`); called by POST /scan, "Scan now", the scheduler | callers in several threads, a scan thread that publishes its outcome under a lock and then goes on outside of it, restarts |
| **Snapshot store** `store.py` | SQLite: `snapshots`, `opportunities`, `snapshot_frames`, `backlog_intervals`; `_initialized_paths` | `write_snapshot` (two transactions), three retention tiers, interval backlog, `latest`, `latest_two`, history readers, `_connect`/`_migrate` | written by the scan thread, read by every request thread | the second transaction can fail or be lost after the first; state derived incrementally; DDL outside transactions; readers of several statements |
| **Broker and live feed** `events.py`, `api.py:428-504` | subscriber set, one `Queue(maxsize=1)` per tab, the loop's callback queue | `publish`, `subscribe`, `unsubscribe`, `_offer`, the SSE handler | scan thread -> event loop -> SSE generators | a thread hands over to the loop, subscribers are copied before the fan-out, coalescing |
| **REST API** `api.py` | known tickers, order-book cache | reads, POST /scan, health | store, engine, manager | concurrent cache fills |
| **Auto-scan scheduler** `scan_scheduler.py`, `presence.py`, gate in `serve.py:282-293` | interval, enabled, loop thread, `_stop`, `_wake`; viewer count, last touch | `start`, `stop`, `set_interval`, `set_enabled`, the loop; `connect`, `disconnect`, `touch` | calls `run_scan_now(force=False)` | wake-ups lost or late, stop against start, idle gate |
| **Authentication** `auth.py`, `auth_store.py`, `ratelimit.py` | users with session epoch and lockout, remember tokens in families, per-IP windows | login, logout, register, change password, token rotation and revocation, disable, purge | every request | sessions and tokens that outlive what they were issued under; replays |
| **Engine caches** `webui/engine.py` | latest, latest two and frames, keyed by the newest snapshot id | fill on miss, clear | store, dashboard | a slow reader fills a cache with what is old by then |
| **Lifecycle** `lifecycle.py` | none (pure) | new-actionable, persisting, blocked change, recently actionable | histories from the store | consistency of the histories it is given |
| **Kalshi client, fetch** `kalshi_client.py`, `fetch.py` | throttle slot, request counter, caches of series and fees | throttled GET, retry with backoff, pagination | worker threads of one scan | shared throttle, retries |
| **Scanner** `scanner.py` | none | classify, rank, fan out per sport | detection modules | partial failure per sport |
| **Detection** `consistency.py`, `dutchbook.py`, `payoff_engine.py`, `numeric_ladder.py`, `exact_order.py`, ... | none (pure) | price and payoff arithmetic over quotes | scanner | boundaries in cents, fees, settlement rules |
| **Sport registry, parsing** `sports.py`, `data.py`, `wc_groups.py` | none | tickers and titles to teams, stages and ladders | detection | string formats |
| **Dashboard** `webui/*` | per-client widgets | render | engine, manager | presentation |
| **Terminal SPA** `frontend/src` | feed, filters, layout, hydrated preferences | stream or poll, run scan, save preferences | REST and SSE | stream against poll, failed hydration |
| **Config, entry point** `config.py`, `serve.py` | constants | wiring, bind safety | all | - |
| **Deployment, scripts, tests** | - | - | - | - |

What makes each of them correct:

- *Scan manager*: one scan at a time; the status says so; non-forced scans are spaced by the TTL and kept
  out of a cooldown, whatever failed or restarted; every scan ends; "done" names what readers are served.
- *Store*: retention never touches what is served; the tiers account for what they drop; evidence that was
  evicted is not reported as never captured; a lost second transaction is caught up with; the backlog kept
  snapshot by snapshot equals its definition over all of history. On opening: the rows of an older file
  are in it or in its backup, a newer one is left alone, a stamped file is complete, every thread gets its connection.
- *Live feed*: a tab may miss intermediate feeds, never the newest.
- *Scheduler*: never two loops; one that is stopped ends; no change of its settings is slept through; scanning follows
  the viewers.
- *Authentication*: no request is served after logout, disable or password change of its session; a replayed
  remember token revokes its family; a lockout holds for as long as it says.
- *Caches*: a reader never gets older data than the key it asked with; a cache never stays behind.
- *Lifecycle and readers*: what is reported as departed is not in the latest snapshot.
- *Client*: requests never come closer than the configured spacing; a page is neither skipped nor repeated.
- *Scanner*: a sport that fails is reported, contributes nothing and takes no other one with it.
- *Detection*: a floor is paid in every outcome that can settle; an edge is there at the prices the exchange charges;
  two detectors that find one purchase say the same of it; no two opportunities share an id.

`PROJECT.json` lists the hazards of the code, each at its line, with the property that covers it or the
reason why none does.

## 2. Modules

| module | what it is | code |
|---|---|---|
| `SingleFlight` | abstract specification: scans run one at a time and persist at most one snapshot each | header of `scan_manager.py` |
| `ScanManager` | the manager with its callers, scan threads, clock and restarts | `scan_manager.py`, `store.py:734-800` as far as the thread sees it |
| `LiveFeed` | EXTENDS `ScanManager`: the notify hook, the broker, the event loop, the SSE connections | `events.py`, `api.py:453-504` |
| `LiveFeedProofs` | the theorems about the manager and the live feed | - |
| `SnapshotStore` | the write path of the store, its retention and its backlog | `store.py:346-675`, `734-800`, `829-850` |
| `HistoryReads` | EXTENDS `SnapshotStore`: the readers of several statements, and what the lifecycle makes of them | `store.py:853-957`, `lifecycle.py`, `webui/engine.py:77-112` |
| `SnapshotStoreProofs` | the theorems about the store, its backlog and its readers | - |
| `MCSnapshotStore` | the scan results TLC writes into the store | - |
| `StoreMigration` | opening and upgrading the database, statement by statement | `store.py:245-343` |
| `StoreMigrationProofs` | the theorems about it | - |
| `Scheduler` | the auto-scan loop, its settings and events, start and stop, presence and the idle gate | `scan_scheduler.py`, `presence.py`, `serve.py:287-293` |
| `SchedulerProofs` | the theorems about it | - |
| `Quotes` | prices, books and what a leg costs | price helpers of `data.py`, `consistency.py`, `dutchbook.py` |
| `Sports` | the registry: families, ladders, rules of every sport | `sports.py` |
| `Contracts` | from the markets of an event to contracts | `data.py:565-870` |
| `Containment` | the ladder checks | `consistency.py` |
| `DutchBook` | books of two, three or many legs, fields and baskets, with the proofs that let them be traded | `dutchbook.py` |
| `Synthetic` | score bundles and stages of elimination | `synthetic_bundle.py`, `stage_elim.py` |
| `Diagnostics` | what is shown and never traded: NO structures, exact orders, game support, blends, payoff boxes | `no_structures.py`, `exact_order.py`, `game_support.py`, `conditional_blend.py`, `payoff_engine.py`, `numeric_*.py` |
| `Settlement` | the laws by which related markets settle, on which a floor rests | external: the rules of the exchange's markets |
| `Scanner`, `MCScanner` | a scan: fetches, failures, every detector, the ranked list; the boards TLC shows it | `scanner.py` |
| `ScannerProofs` | the theorems about a scan: its edges, floors, cases and ids | - |
| `SetFacts` | lemmas on sums, extremes and first elements of finite sets, for the proof modules | - |
| `Auth`, `MCAuth` | sessions, remember tokens, sign-outs | `auth.py`, `auth_store.py`, `manage_users.py` |
| `AuthProofs` | the theorems about it | - |
| `KalshiClient`, `MCKalshiClient` | throttle, retries, pages, the fetch of many series | `kalshi_client.py`, `fetch.py` |
| `KalshiClientProofs` | the theorems about it | - |

Operators named as mutants in a comment ("Mutant: ...") are bugs one could plausibly write in the
definition that follows them. No specification uses them; each property is checked to fail when the
definition is replaced by one of them.

### ScanManager

State. `thread`, `cooldownUntil`, `status` are the fields of the Python object. A scan thread has a program
counter (`fetch`, `commit`, `tidy`, `settle`, `hook`, `gone`) and what `_run` holds in local variables
(`run`). `snaps` is every snapshot ever committed, its index being the AUTOINCREMENT id. `joined` says which
thread a caller is waiting for.

Atomicity. Everything `trigger` does up to `thread.start()` happens under `self._lock`, hence one action
per outcome: `SkipCooldown`, `SkipTtl`, `JoinRunning`, `StartScan`. The join and the final `status()` are
outside of the lock, hence `Return` is an action of its own, enabled at any time after (a join is bounded,
and non-blocking callers do not wait). In `_run` the fetch, the first and the second transaction of
`write_snapshot`, the locked section that publishes the outcome (`Settle`) and the hook are separate steps.
`Raise` is an exception of any of the first three; after `Commit` it leaves the snapshot behind, which is
the case that makes the status ("error") and the store disagree. `Restart` loses everything but `snaps`.

`_run` sets `_thread = None` before the hook runs, so a thread may still be in its hook when the next scan
has started: the model has no singleflight on hooks. `SerialHooks = TRUE` restricts the behaviours to those
where a hook ends before the next scan settles; only the run `live_feed` uses it, and the run
`live_feed_overlap` shows why it has to.

Left out: `since`, `reason` and the counts of `last_result`; `reset()`, a hook of the tests; the budget caps
as numbers (`blown` is chosen freely at `Settle`).

### LiveFeed

A feed is the id of the snapshot it was built from. `BuildFeed` reads the store's latest, `Grab` copies the
subscribers under the broker's lock, `Post` hands the fan-out to the loop (`call_soon_threadsafe`), `FanOut`
is the callback on the loop, which runs `_offer` for every queue in one go (callbacks of one loop do not
interleave). A connection subscribes (`Connect`) in the handler, paints from the store when the generator
starts (`Paint`), and then forwards what its queue holds (`Deliver`). `Disconnect` is the generator's
`finally`. `Abandon` is a client that leaves before the generator has run: there is no `finally` then and
the queue stays registered, as in the code. A tab that reconnects is another connection.

Left out: the 15 s keep-alive comment, which changes nothing, and the loop not being set yet
(`capture_loop`), which happens before the first request is served.

### SnapshotStore

A snapshot's rows are a function from opportunity ids to a bucket and an ROI; its frames are a size.
Buckets are represented by one of each kind: tracked and not tiered (`actionable`, `risk_budget`), tracked
and tiered (`near_miss`), tiered only (`no_structure`). `Write` is the first transaction with the backlog,
`Tidy` the second with the three tiers in the order of the code, `TidyLost` the second one failing or dying
with the process. `hist` is a history variable: every snapshot as it was written, which the properties
compare the store with.

Assumed: one writer at a time (what `ScanManager` shows); the wall clock does not run backwards between
scans; an opportunity id occurs once in a scan (the key is built from what identifies it); the tier is
enabled and the frame budget is set, as in `config.py`. Left out: columns that are copied through, vacuum and
the WAL checkpoint, which change no row.

### StoreMigration

Python's `sqlite3` opens a transaction for DML only, and `executescript` commits every statement by itself, so each DDL
statement and PRAGMA is an action: a script is a sequence of statements (`FramesScript`, `BacklogScript`, `SchemaScript`) and a
thread has a position in it. The indexes a script creates for one table are one statement. `Threads` open the database at the same
time, as the request handlers and the scan thread of a fresh process do; `_initialized_paths` has no lock. `data` tracks which
tables still hold the rows the file had at the start, `backup` which of them the backup file holds. `Crash` restarts the process
between any two statements.

A statement may raise at any time (`Fail`: a lock past the timeout, a full disk, a malformed file), and has to when the file makes
it impossible (`MustRaise`: a column added twice, an index without its table). A forward step or the stamp of an upgrade runs
inside the `try` of `_migrate`: whatever raises there, from any version, makes the handler reset the file (`HandledBy`,
`store.py:339-343`). Statements anywhere else, those of the reset included, raise out of `_connect`, and a later request
opens the file again (`Reopen`).

The properties say what the migration can promise. `disturbed` is a history variable: some reset was interrupted, by a crash or
by a statement of its own that failed, or another thread was inside the migration or served while it ran. `StampedIsComplete`, `Opens` and
the part of `RowsKept` about the backup are claimed until then; afterwards they are false of the code (finding 2). That the rows are in the file
itself is claimed of the versions whose steps may be repeated (`Repeatable`: all but 1) while no statement fails.

### Scheduler

The loop of `_run` is a program counter with one step per read (`_stop`, `enabled`, the two halves of the gate) and
one each for the scan, the wait and the clear of `_wake`. `seen` holds what the loop has last read of `enabled` and
`interval_s`. The setters write their field and set `_wake` in two steps (`setting` between them); they are handlers of
the dashboard, which run one at a time on the event loop, but at any moment of the loop thread. `stop` sets `_stop`, then
`_wake`, then joins for at most two seconds: it may return while the loop is in a scan. `start` reads and writes under
the lock and ends with the start of the thread, hence one action. Today only `serve.py` calls `start`, once, and only
the tests call `stop`; the module keeps what the class promises.

Time is left out: a wait may time out at any moment, and the heartbeat of the Terminal may lapse at any moment while no
tab is open. An open tab touches it with every poll or keep-alive, which `config.py` keeps shorter than the window.
The scan itself is `ScanManager`'s `trigger` without force; whether it succeeds is irrelevant here. Left out: `reset()` of
`presence.py`, a hook of the tests.

### HistoryReads

SQLite gives every statement its own view of the tables, and these readers issue several: the newest time, the list of the
snapshots of the window, the rows of each of them, and for the backlog which snapshot is the latest and its rows. Each is a
step here, and `Next` of `SnapshotStore` runs between any two. `latest_two` begins with the list. What `lifecycle.py` makes of
a history are operators over (time, actionable ids) pairs. `ReadsAreHistory` compares the answer with the one the complete
history of the window gives: a torn read may be of a scan more or less, its lifecycle is one that was there.

One read per behaviour, which begins after `ReadFrom` scans and, in the run, sees scans up to the `ReadTo`-th: one more. The theorem covers
any number.
Left out: `blocked_change`, the rows copied into the answer, the caches of `engine.py` in front of `latest` and `latest_two`.

### Quotes, Sports, Contracts, Containment, DutchBook, Synthetic, Diagnostics

Pure operators. A market is a record with its quote in tenths of a cent and what the parsers extract from its title and rules
(round, score, standing, threshold, whether a draw is excluded, how a tie settles); `BuildContracts` makes a contract of it,
rounding the prices as `to_cents` does. Every detector is an operator from the contracts of one sport to a set of rows with
the same fields: `legs`, `cost`, `floor`, `gap`, `units`, `worst`, `best`, `flag` (the rules have to be compared),
`tradable`, `bucket`, `id`. A row the code would not emit is not in the set, so every `return None` is a guard.

Where the code compares floats, an exact boundary may go either way (`QuoteQuality`): the boards contain both. Ids are tuples of
what the hash is built from. Left out: wording, URLs, colours, and columns that are copied through.

### Scanner

`run_scan` starts the fetches in the order of the registry on a bounded pool; they end in any order, well or not. The
aggregation then takes one sport after the other: all its detectors, or the error of one of them and nothing of that sport.
`board` is what the exchange lists during the scan and, for the properties only, in which ways it may settle (`worlds`), and in
which further ways when related markets follow different rules (`odd`: a walkover, a void). The detectors never read those.
What the exchange guarantees of a board is `Listing` (`BoardsAssumption`): a ticker names one market or one event, prices lie within a
dollar, and a NO ask is at most what the YES bid implies, the two being one order of a unified book (`consistency.py:415-424`); a sport
is listed by its series, no tournament is of two sports, a team is listed under one name in the markets for qualifying, and a match has one
market for each of its sides.
How a board may settle is `Settling` (`SettlingAssumption`), by the laws of `Settlement`: those of `Lawful` go for every settlement,
`Replicated` for `worlds` only.
`Pays`, `TrueCost` and `Settles` are therefore an independent definition of what a row is worth: `FloorHolds`, `EdgeIsReal`,
`ProfitBounded` and `CasesReached` compare the arithmetic of eleven modules with it.

### Settlement

A settlement is a function from tickers to what the YES of the market pays, 0 to 100 cents: a void or a shared place may pay a part.
The laws say of the contracts of a sport what their titles and rules say, and no more than the detectors ask for: `Nesting` (a deeper rung of a
participant's ladder pays no more than a broader one), `Exclusive` (the markets of an event flagged so pay 100 at most together), `Contests`
and `ThreeWays` (the sides of a contest share 100, with the draw where there is one), `GroupsOfFour`, `Eliminations`, `Thresholds`. Each
has the guard the listing needs for it to be true: an event that is not flagged may pay twice, a football game without a tie rule
nothing at all, a three-way game whose rules differ anything. Two kinds of rungs are exempt from `Nesting` unless the rules agree
(`OwnRules`): a match, which may be walked over and void while the player goes on, and a place in a final order (golf, motor racing), which
several may share and which two markets may settle differently (`consistency.py:442-461`). What a match has in common with the market it
leads to, and score or stage bundles with what they replicate, is `Replicated`.

`MCScanner` has a family of boards for every structure: roads to a title with matches, pairs, ties, three-way games, races,
groups, stages of elimination, exact scores, standings, seasons, finals, totals, and a scan of more sports than workers.
Each family varies what its detectors look at: quotes of every width, empty, crossed, one-sided, unsized, halted and
sub-cent ones, the flag and the phrases a proof asks for, legs missing or listed twice.

The fetch itself is one step here and `KalshiClient` below. Only sports with something on the board are in the scan: a sport
with nothing listed contributes neither rows nor an error. Rows of `conditional_blend` that only go to a file are left out.

### Auth

A browser holds its cookies, the server one row for the account and one for every token. Requests are begun with the cookies the
browser holds at that time and their own `now`; each database transaction is a step; the answer arrives later or never, and
sets cookies then. `gate_and_harden` slides or rotates them for the routes behind it; the `/auth` routes are public to it and
resolve the principal themselves, which may rotate a token whose successor is never sent (`Admit`). Every session and token
remembers the login it descends from (`root`), a history variable for `SignedOutForGood`.

A change of password, a reset and a disabling take two steps: the request or command of `manage_users.py` begins with its `now`
(`Send`, `Command`), then hashes or waits for the database, and commits with that `now` as the epoch (`ChangePassword`, `ResetPassword`,
`Disable`). Several may be under way at once, besides each other and besides requests. What is issued in between is newer than the
epoch and survives it. `SignedOutForGood` is what is left to promise: no login from before the change began admits anybody,
`raced` being the one exception, a token rotated while it was under way; what the documentation promises is `SignedOutAtOnce`, which
the run `auth_at_once` refutes (finding 4). Left out: lockout and its counter, rate limits, the dummy hash, a wrong validator
and the revocation it triggers, rehashing on login, registration, preferences, and everything about other accounts.

### KalshiClient

One worker per series: it takes its slot under the lock (`Throttle`), sleeps for it outside (`Tick`, `Send`), and gets a page, a
transient fault or a refusal. What failed in the first round is fetched once more from its first page; then the titles.
A page is its number, and upstream serves the same pages throughout a fetch. Time is relative to now, so that the state
space is finite without a bound on the clock. A sleeping thread may oversleep: the turns are spaced, the requests need not
be. Backoff lasts any time. Left out: the order-book read, series discovery, the sweep of fee overrides, the lifetimes of the
cached titles (a cached title may be there or not), counters.

## 3. Runs

| run | module | shows |
|---|---|---|
| `scan_manager` | `ScanManager` | `Singleflight`, `StatusTracksFlight`, `TtlSpacing`, `CooldownHonoured`, `DoneNamesLatest`, the refinement of `SingleFlight`, and that scans end |
| `live_feed` | `LiveFeed` | while hooks do not overlap no connected tab loses the newest feed, and it receives it |
| `live_feed_overlap` | `LiveFeed` | violation: with overlapping hooks an older feed replaces the newer one |
| `snapshot_store` | `MCSnapshotStore` | what retention must not touch, accounting of the tiers, catching up, the backlog against its definition, torn reads against the history |
| `store_migration` | `StoreMigration` | upgrades from every version, with two threads, two crashes and two statements that fail; version 5 (newer) is refused untouched |
| `store_migration_v1` | `StoreMigration` | violation: a version 1 file can be lost in spite of the backup |
| `scheduler` | `Scheduler` | one loop; no wake-up lost; a stop that needs no timeout to be heard; scans go on for a viewer and pause without one |
| `detection` | `MCScanner` | floors, edges and cases of every row against the settlements; detectors agree; ids are unique; a failing sport is contained. It evaluates `BoardsAssumption` and `SettlingAssumption` on every board |
| `band_floor` | `MCScanner` | violation: a band on a match that is voided pays less than its floor |
| `auth` | `MCAuth` | who was signed out stays out; a disabled account is served nothing |
| `auth_at_once` | `MCAuth` | violation: what is issued while a reset hashes survives it |
| `kalshi_client` | `MCKalshiClient` | a series is loaded whole or reported; turns are spaced; the fetch ends |

Bounds, and why the interesting cases happen within them:

- `scan_manager`: one caller, three scans, clock 0..2, one restart, TTL 1, cooldown 2. A caller may return
  and call again while "its" scan is still running, so that one caller already gives triggers during a scan,
  during a hook, inside the TTL and inside the cooldown; three scans are the fewest where a forced scan runs
  between the one that opened the cooldown and the one that must respect it.
- `live_feed`: two scans, one restart, one connection. A connection does not interact with another one
  except by being in the same copy of the subscribers; two scans are enough for an overtaking and for a
  queue that is already full.
- `snapshot_store`: four writes at times 0..3, two opportunities, six scan results: nothing fetched (the
  outage), over the byte budget alone, every kind of bucket, a change of bucket within a category. Retention
  1 s, two frame-bearing snapshots, two bytes, one untiered snapshot, backlog 1 s: each limit is exceeded
  after two writes, so that each tier acts several times in a behaviour, with any of its runs lost. A read begins after two
  scans, with a window as long as the retention, and a third one lands between any of its steps: retention, tiering and a
  new latest all happen inside of it.
- `store_migration`: every version the code distinguishes, 0 to 5; two threads are the fewest that interleave;
  the second crash or failure may hit the recovery from the first, also a reset. `store_migration_v1` needs crashes only.
- `scheduler`: two loops (an old one winding down and its successor), two viewers (one leaves, one stays), one tab, two
  intervals.
- `detection`: the boards are the bound. Two workers, and at most five sports in a scan: what a detector sees is one
  sport, so more of them add nothing but orders. Both detectors that are off by default are on. `band_floor` takes only the boards
  on which a match stands for a rung.
- `auth`: two browsers and two requests or commands at once are the fewest for a rotation of one token by two requests, for a
  change of password overtaken by a renewal and for a reset beside a disabling; four beginnings suffice for login, rotation, sign-out
  and the attempt to come back.
- `kalshi_client`: a series of one page, one of the most pages allowed, one whose cursor does not end; three workers on
  slots two ticks apart; two attempts.

`CHECK_DEADLOCK FALSE` everywhere: the counters are bounded, and a system whose connections are all open, or
whose callers ask for nothing more, may stop.

Fairness is weak and only given to what the machine runs by itself: scan threads and their hooks (requests
have timeouts, retries are bounded, SQLite has a busy timeout, `Raise` is one of the ways on), the event loop,
the generator of a client that stays connected, a thread inside `_connect`, the auto-scan loop, a `stop` or setter that has begun, and the threads and the clock of a
fetch (every request has a timeout, every backoff a maximum). The timeout of the loop's wait gets
none, so that `StopEnds` cannot lean on it; `ScansGoOn`, which is about the timer, assumes it in its premise. No caller, client or clock is
obliged to do anything, and a restart may come at any time. `CatchesUp` and `Opens` therefore also hold for the
behaviours in which nobody does anything more.

## 4. Findings

1. `scan_manager.py:121` (`live_feed_overlap`): two hooks may overlap; the one that built its feed first may
   publish last and replace the newer feed in the queues. `events.py:10-13` says the next feed a tab reads is
   always current.
2. `store.py:331` (`store_migration_v1`): `ALTER TABLE` is not repeatable. A version 1 upgrade interrupted before
   the stamp ends in a reset to a fresh database on the next start; if that one is interrupted too, the backup is
   taken again, over the good one, from the half-dropped tables. Running `_connect` on such a file confirms the
   first part (`duplicate column name: meta`, then an empty database).
   Version 1 only needs crashes for this. A version 2 or 3 file needs a statement that fails first, which the same handler
   answers with the same reset (`store.py:339-343`); when that reset is interrupted, the backup is overwritten in the same way.
   Of all three versions, when one thread stamps while another resets, the file can end up stamped 4 with tables missing;
   then `_migrate` takes it for current, `_ensure_indexes` fails on it, and no connection opens. For this reason the properties of
   `store_migration` are claimed until a reset is disturbed.
3. `scanner.py:566` (`band_floor`): every band claims a floor of 100 "in every settled state" (`scanner.py:564-565`). Where a match
   stands for the broader rung (`consistency.py:220`) and is walked over, it is void and its YES pays 50, while the player is through and
   may win the title: the YES of the match and the NO on the title then pay 50 together. An alignment of the same two markets is
   flagged for it (`consistency.py:997-999`), the band is not. The same goes for a band on a finishing ladder, where
   `consistency.py:575-579` flags the pair as a dead heat may break the containment. `FloorHolds` exempts these bands (`Unflagged`)
   from the settlements in which the rules part, and no other row without a flag.
4. `auth_store.py:291` (`auth_at_once`): `cmd_passwd` takes `now`, `set_password` hashes the new password and then writes that `now` as the
   epoch (`manage_users.py:63`, `auth_store.py:291-302`). A login with the old password, or a rotation of a token, that begins in between
   is newer than the epoch, and its session goes on. `docs/AUTH.md:96-98` says a change of password "**immediately invalidates** all of
   that user's existing cookies and remember-me tokens". (Tokens that exist at the commit are revoked one by one; the successor of
   one whose rotation is committed after it is not.)

## 5. Proofs

`LiveFeedProofs` proves of the manager, for every set of callers, every number of scans and restarts, every TTL and
cooldown, and both values of `SerialHooks`:

- `TypeCorrect`, `SingleflightHolds`, `StatusTracksFlightHolds`, `TtlSpacingHolds`, `CooldownHonouredHolds`,
  `DoneNamesLatestHolds`: `Spec => []P` for the invariants of the run `scan_manager`;
- `Refinement`: `Spec => SF!Spec`, the manager implements `SingleFlight`;
- `Invariance`, the inductive invariant they all follow from.

There the only assumption is `ConstantsAssumption` (the bounds and durations are natural numbers).

None of the safety properties is inductive alone. The invariant adds what they rest on:

- `FlightIsThread`: a thread is in flight exactly when `thread` names it, and it is the last one started. This
  is singleflight in the form a step preserves; `_run` clears `_thread` in the locked section that publishes the
  outcome.
- `StatusIsThread`: the status is `in_progress` exactly when `thread` is set.
- `StartedInOrder`: exactly the threads after `started` are unborn.
- `SidAfterCommit`: what a thread knows of its snapshot: no id before the commit, the newest id between the
  commit and the end of the flight, and success only with one.
- `SnapsSorted`: committed timestamps do not decrease and are not in the future. It is why `Latest`, defined as
  the code's `ORDER BY fetched_ts DESC, id DESC`, is the last one committed (lemma `LatestIsLast`), although a
  snapshot carries the time of the trigger and not of the commit: a later scan is triggered only after the
  earlier one settled.
- `NextSnapSpaced`: a scan that has not committed yet was stamped at or after every stored snapshot, and the TTL
  after each of them unless it is forced. `TtlSpacing` follows at the commit. This also covers failures after the
  commit and restarts, since the TTL guard reads the store.
- `DoneIsLast`: `done` carries the newest id.
- `CooldownCovers`: `cooldownUntil` is at or past the end of the window of every scan of this process that
  succeeded over budget. Forced scans in between can only push it forward.

The proof has one lemma per action (those that only touch the status or the callers share one) and a few about
the operators: `LatestIsLast`, the types of the fields, the arithmetic of the TTL guard. The refinement maps `busy` to `thread # 0`, `wrote` to the running thread having an id, and
`stored` to the number of snapshots; `Restart` and `Settle` map to `End` or a stutter.

`SchedulerProofs` proves `SchedTypeCorrect`, `OneLoopHolds` and `NoStaleSleepHolds` for every number of loops, viewers,
tabs and intervals. The invariant adds `OnlyLastAlive` (loops are started in order and all but the last are dead: `start`
does nothing while one is alive) and `ChangeAnnounced`: from its read of `enabled` to the end of its wait, whatever the loop
goes by is current, or `_wake` is set, or a setter is about to set it. That is why clearing `_wake` after the wait, on the way
to reading again, loses nothing.

`KalshiClientProofs` proves `SeriesWholeHolds` for every set of series, every listing, number of workers and attempts, and
every page cap (`ClientAssumption`: the set is finite, the rest are positive). Its invariant, `FetchInvariance`, adds what the threads know:

- `PagesInOrder`: a thread holds the first pages of its series, in order, and not all of them. A retry keeps them, a
  failure drops them, and the second round starts from none, so what is appended to `results` is a whole listing.
- `Accounted`: while events are fetched nothing is reported, and a series is loaded exactly when no thread is at it. When the rounds
  are over, what is reported is exactly what was not loaded; titles are only asked for what was. `ResultsOnce` follows: a
  series whose page arrives is not loaded yet.

It also proves `SlotsSpacedHolds`, for every interval and number of workers. `SlotsSpaced` is not inductive: that nobody
waits for long rests on where the next free slot is. `TurnsInv` (`TurnsInvariance`) keeps that account: at most
`Workers` threads are busy, the next slot lies at most one interval further than one turn per waiting thread, and, seen
from a waiting thread, no further than the turns of those behind it. The last part is what a `Tick` needs: when the first
thread wakes everybody else is behind it, so the bound shrinks by exactly its turn.

`SnapshotStoreProofs` proves `LatestSurvivesHolds`, `LatestEvidenceKeptHolds` and `RowsAccountedHolds` for every finite set of
opportunities, every set of scan results, every setting of the tiers and any number of lost second transactions
(`StoreConstants`: the bounds are natural numbers, the two limits that `config.py` has at least one of are positive). The
invariant, `StoreInvariance`, adds:

- `TimesInOrder`: snapshots were written in the order of their times. The tiers decide by time, `latest` by time and id; that both
  mean the last one written rests on it.
- `LastWhole`: the last snapshot is there with all of its rows, and with its frames if it came with any. A tier may lose its turn, and
  run later on a store it has already partly cut.
- `CountedOnce`: a snapshot that has a count for a bucket has no rows left in it. This is why running the tier again adds
  nothing to the counts, and why `RowsAccounted` is kept by a second run over the same snapshot.

It proves of the tiers, from `LimitsInv` (`LimitsInvariance`):

- `EvictedIsExpiredHolds`: frames go from the oldest on (`OldestGoFirst`), and where some are gone later ones are left, since the
  budget never takes the newest. So the oldest of the kept frames is what `frame_status` has to compare with.
- `TidyCatchesUpHolds`: whatever earlier second transactions left, one that gets through leaves the store within its time, count
  and byte limits. The frames that are kept are closed upwards, so evicting one more never makes their sum larger (`SumMonotone`),
  and the loop over the budget ends at the newest one at the latest.

`StoreTypes` is the type invariant of the store; it rests on `BacklogInv`, from which the types of the intervals follow.

The sums are the library's folds over a set, which take out one element after the other in an order nobody knows.
`SetFacts` proves what is needed of them for every finite set: the sum does not depend on the element taken out (`SumTake`), it is
monotone, and images, multiples and pairs are summed as one expects. The library's induction theorems cannot be instantiated by the provers, so each of these
lemmas looks at a smallest subset for which it fails; that there is one is the library's theorem that strict inclusion is
well-founded on finite sets.

`ReadsAreHistoryHolds` is about reads of several statements with any writes between them, for any window and any number of scans.
`ReadsOnlyRead` shows that such a system is the store to the letter, so every theorem of the store holds while it is read.
`ServedInv` says what retention leaves to be read: every snapshot of the retention window is there (`WindowStored`), each of its rows as it was
written, or without the bucket of a tier (`ThinnedOnly`), which is never one of the actionable ones. `ReaderInv` (`ReaderInvariance`) follows the
reader through its statements: what it listed is the window as it was when it listed it, what it has read of it is what was written, and
its present is one scan, none older than the listing.

The store's backlog, `BacklogIsHistoryHolds`, is proved for every set of opportunities, every history of scans and any retention. The
writer sees the rows of one scan and its own open intervals, the lifecycles are defined over the whole history; `BacklogInv`
(`BacklogInvariance`) says that the two agree entry by entry (`IsEntry`), and adds what the comparison of one more scan needs:

- `Begun`: what is in a category now has a scan in which it came in. So an opportunity that goes on, or leaves, has an open
  interval for the writer to extend or close, and one that comes in has none.
- `HasPeak`: among the last scans, however many, one has the best return of an opportunity. The peak of a lifecycle is then
  defined, and is the larger of the stored peak and the new scan's, which is what the writer computes.
- All times are at most `MaxTs`, so that no time is taken for `Open`; with `TimesInOrder`, what the retention has dropped
  stays dropped.

`StoreMigrationProofs` proves `StampedIsCompleteHolds`, `RowsKeptHolds` and `NewerUntouchedHolds` for any number of threads, crashes
and failing statements and every version of the file; the first two until a reset is disturbed, as in the module. The invariant,
`MigrationInvariance`, adds:

- `NeverReset`: where every forward step may be repeated and no statement has failed, nothing was dropped and nobody is at a statement of a
  reset. No statement of a script has to raise then: an index comes right after its table (`ScriptShape`), and tables are only added.
- `Path(t)`: which versions lead a thread to its statement.
- `Quiet`, until a reset is disturbed: the rows are all in the file (`Kept`), or all in the backup (`Gone`); only one
  thread resets and the others are outside; and `KnowsOf(t)`, what a thread that has come to a statement may rely on although others
  have run any statements since: the tables of the part of the script behind it, the backup, and, at a stamp, a complete file.

Of the push side `LiveFeedProofs` proves `HookShowsOwnScanHolds` for every number of scans, restarts and connections, and
`NewestNeverLostHolds` under `SerialHooks`, without which the run `live_feed_overlap` refutes it. Seen from the manager the push side
stutters (`FeedSpecIsSpec`), so the manager's invariant is available. `FeedInvariance` adds `FeedsBuilt`
(a hook's feed is at least its own snapshot and at most the latest), `Registered` (who is connected is subscribed, and nothing is on
its way to who has never been), and under `SerialHooks`:

- `OneHook`: at most one hook runs, and its feed is at least as new as all that were published before.
- `LateIsPainted`: a connection that came after the subscribers were copied has painted that feed from the store, or will.
- `LastIsNewest`: of what is on its way to a client (shown, queued, in callbacks of the loop, in that order) the last is at least as
  new as anything published. The property only asks for something that is; the order in which it arrives is what a step preserves.

`AuthProofs` proves `SignedOutForGoodHolds` and `DisabledIsOutHolds` for every set of browsers, any number of requests and commands under
way and lost or delivered answers. A session is only compared with the epoch, so what has to be invariant is a relation between the age of
a credential and the login it descends from. `Ends` is the epoch together with the beginnings of all changes, resets and disablings
under way, any of whose commits will make that beginning the epoch. `AuthInvariance` says that a session, wherever it is held (a jar, a request, an
answer on its way), outlives one of the `Ends` only if its login does, or is marked (`SoundSessions`); the same of the tokens in force and
the epoch (`SoundTokens`); of a request between reading its token and rotating it, for every end but its own (`SoundRotations`); and that
while the account is disabled only what began before is served (`ServedBefore`). `Past` supplies the order of time: nothing is from
the future and no two requests or commands began together. An end enters `Ends` when its change begins, and is then of the future for
everything there is, so it leaves all credentials sound (`RootedKept`); by the time of its commit it is one they have been sound for all
along (`CommitInv`), and the order in which overlapping changes are committed does not matter.

`ScannerProofs` proves `FailureContainedHolds` and `EdgeIsRealHolds` for every family of boards that satisfies `Listing`, every
number of workers and both settings of the two features that are off by default. `ScanInv` (`ScanInvariance`) accounts for every
sport: one that was aggregated is evidence or has an error, one that was not has an error only if its fetch failed, and none is
aggregated before all fetches end. It also says that a row was found in the contracts of a sport that is evidence (`FoundThere`), which turns `EdgeIsReal` into a
statement about the detectors alone:

- What the exchange charges is found by way of the ticker, so a contract has to lead back to its market (`ContractQuoted`).
  A contract that is not sub-cent shows the exact prices (`ExactQuotes`): rounding changes nothing that is a whole number of cents.
- A book, field or basket is bought at what its legs cost (`LegsCharged`: a sum of whole cents, of which the charge is tenfold), so its
  edge is the one it shows. This needs that sub-cent markets have been dropped (`Trusted`), and that the direction that is chosen is one of
  those that were priced (`WidestIn`), for legs in any number.
- A ladder check pays for a cross: its gap is the bid for the deeper outcome minus the ask for the broader one, but what it buys is the NO, at its own ask.
  That this costs no more than the bid implies is the last clause of `Listing`, so the edge may be larger than shown, never smaller (`CrossPays`). The
  contract that stands for a node is one of the node's since the order that picks it is total (`RepresentativeIn`).
- Everything else promises nothing: its rows are not offered for trading, whatever they cost (`SyntheticReal`, `StructuresReal`, ...).

`UniqueIdsHolds` and `SameLegsAgreeHolds` follow from the same invariant and two descriptions of each detector's findings.

- An id names its detector and what tells that detector's findings apart: the participant, the tournament and the nodes; the event and
  its side; the group and the team; the hedge of a bundle. What is left to show is that these name one finding of one sport
  (`ChecksTold`, `DutchTold`, ..., `DetectedTold`). That is where the clauses of `Listing` on sports, events and tournaments are needed: an event or
  tournament is of one sport (`ContractsTold`), a team of a group has one qualifying market by its name, and a match has one market for each
  side, without which two unmapped ones would share an id (`SidesTold`).
- Of a row with legs and cases, the legs alone say the rest (`Said`): its cost is what they cost (`Outlay`) and its cases are the
  `Least` and `Most` its contracts pay. So two findings of the same legs agree, whichever detectors made them (`SaidAgree`). The two
  purchases several detectors make are the pair of rungs and the pair of a match and the market it leads to, which pay differently in
  their best case; `Contains` tells them apart by the kinds and nodes of the contracts (`RungsContain`), and since a stage of elimination is on no ladder
  (`StageOffLadder`) a stage bundle is never taken for either.

`FloorHoldsHolds` and `ProfitBoundedHolds` are proved for every board that satisfies `Listing` and `Settling`, for legs in any number, from
one statement about a row (`Honest`): its legs pay its floor wherever it counts on it, and its cases bound its profit where the rules
agree. What legs pay is a sum over a set (`PaysIs`, `LegsPay`), and each detector's guard is shown to imply the premise of the law it counts on:

- a two-way book has two sides of one event with the tie rule that is asked for (`PairSettles`, from `Contests`), a three-way
  one shares its rules and its exclusion of overtime between its legs (`ThreeSettle`, from `ThreeWays`), a field buys NO in an exclusive event (`FieldHonest`, from
  `Exclusive`), a basket is of four distinct teams (`BasketHonest`), a stage book has each stage once (`StagesHonest`);
- a bundle buys all the scores a match can end with, or all the stages from a rung on (`ReplicaHonest`, from `Replicated`), where the
  index that finds its hedge keeps the last of several (`HasLast`, `MatchMeans`, `AdvanceMeans`);
- a ladder check or a band buys the broader YES and the deeper NO (`PlanForward`, `RungsSettle`). It counts on the settlements in which the
  rules part only if it has no flag, and then its rungs are no matches and no places: on a ladder of places the flag is set (`FinalOrder`), except
  for bands (`MatchBand`), which `BandFloorHolds` is about (finding 3);
- a numeric box buys two thresholds of one count (`BoxHonest`, from `Thresholds`), an outright NO pays between nothing and a dollar.

The laws are assumptions about the exchange, which TLC evaluates on every board of the run `detection`. They are satisfiable there with every
detector firing, and the guards are not idle: in the mutant of `FloorHolds`, which asks no leg to settle on regulation time, a floor fails
although the laws hold.

Only model-checked: the liveness properties (`ScanEnds`, `CatchesUp`, `Opens`, `StopEnds`, `ScansGoOn`, `IdlePauses`,
`FetchEnds`), which are out of the prover's reach, and `CasesReached`. That some settlement reaches a case a row shows takes settlements that
exist, which a board lists; laws only say what settlements are impossible.

## 6. Observations

Met while modelling, without a run of their own:

- `scan_manager.py:118`: the cooldown is opened for `ok and _over_budget(...)` only, while the header says it of any scan that "blew a
  budget cap" (`scan_manager.py:11-13`). A scan that ran past a cap and then failed starts none, and the next trigger that is not forced
  fetches again. `CooldownHonoured` therefore speaks of successful scans.
- `scan_manager.py:99`: `trigger` answers with the shared status as it is after the join. A third caller's TTL skip, or the next scan,
  may have overwritten it by then, so a completed scan is not always reported as such, as `webui/engine.py:292-293` says it is.
- Epochs are the times at which changes began, so of two overlapping ones the later commit may write the older epoch
  (`auth_store.py:299-302`). A session of a login between the two beginnings, which the first commit had signed out, is then good again.
  `SignedOutForGood` compares with the epoch in force and holds all the same.
- The rows for match markets that lead to no node carry an id without the market (`consistency.py:970`). Two such markets of one
  participant in one event would be two rows of one id; the exchange lists one market for each side of a match, which `Listing` says.
- `GET /auth/me` is public to the gate (`auth.py:48`) and resolves the principal itself (`auth.py:502-511`). With an expired
  session and a remember token it consumes the token (`auth_store.py:401-436`) and never sends the successor, so the device is
  forgotten. The model has it (`Admit` for `self`).
- `synthetic_bundle.py` does not skip sub-cent legs, as `find_dutch_books` does (`dutchbook.py:1016`), although
  `data.py:225-226` says such rows are flagged "rather than silently rounding them": 24.4 + 25.4 + 50.4 costs 100.2 and is shown as 99. Such a bundle is never offered
  for trading (`Review rules`), so `EdgeIsReal` holds.
- `engine.backlog` says it is "semantically identical" to the lifecycle over `snapshots_since` (`webui/engine.py:81`). With a
  scan in between it shows as present what the later scan has, which may be actionable again.
- `_cached_latest` (`webui/engine.py:44-49`) may be handed an older snapshot by a slower reader until the next change of the
  key; `_cached_frame_rows` (`:154-160`) may raise a `KeyError` when another thread clears the cache.

## 7. Not modelled, and what is left

- The caches of `engine.py` and `api.py`: process-local, rebuilt with the next scan, read for display.
- `blocked_change` and the interval reads of the store: single queries and comparisons of two lists.
- The lockout, the rate limits and the preferences: counters and rows one request at a time reads and writes.
- The terminal and the dashboard: rendering over what the modelled parts return.
- Settlements outside the laws: abnormal resolutions a game's caveat names, an exclusive event in which two are paid in full.
- String parsing of titles and rules, formatting, charts, TLS and deployment; SQLite and asyncio themselves, whose guarantees are
  assumed (transactions are atomic and durable, callbacks of a loop run one at a time, in order).

