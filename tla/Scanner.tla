------------------------------ MODULE Scanner ------------------------------
(***************************************************************************)
(* scanner.run_scan: fetch every sport on a small pool of workers, then    *)
(* run every detector over each sport in turn and publish one ranked list. *)
(* A sport that fails, in the fetch or in a detector, is reported and      *)
(* contributes nothing; it never blanks the others.                        *)
(*                                                                         *)
(* A board is what the exchange lists during the scan and the ways it may  *)
(* settle: a record                                                        *)
(*   events   sport -> its events (module Contracts); a sport with nothing *)
(*            listed is not in the domain                                  *)
(*   worlds   the ways the markets may settle, each a function from ticker *)
(*            to the cents YES pays                                        *)
(*   odd      further ways in which related markets follow different rules *)
(*            (a walkover, a void)                                         *)
(***************************************************************************)
EXTENDS Settlement

CONSTANTS Boards,         \* the boards the exchange may show
          Workers,        \* config.SPORT_FETCH_CONCURRENCY
          BlendEnabled,   \* CONDITIONAL_BLEND_ENABLED, off by default
          DemoEnabled     \* PAYOFF_ENGINE_DEMO_ENABLED, off by default

(* The exchange gives no two markets and no two events one ticker, quotes   *)
(* within a dollar, and shows as a NO ask no more than what the YES bid     *)
(* implies: on its unified book the two are one order.  A sport is fetched  *)
(* by its series.  No tournament is of two sports, a team is qualifying     *)
(* under one name, and a match has one market for each of its sides: what   *)
(* tells opportunities apart rests on the three.                            *)
Tour(e) == TournamentOf(SportOf(e.series), e)
Listing(b) ==
  LET events == UNION {b.events[s] : s \in DOMAIN b.events}
      price == 0 .. 1000 \cup {None}
      qualifying(s) == {c \in BuildContracts(b.events[s]) : c.series = "KXWCGROUPQUAL"}
      sides(s) == {c \in BuildContracts(b.events[s]) : c.kind = SportOf(c.series).matchFamily}
  IN /\ DOMAIN b.events \subseteq {Registry[i].id : i \in DOMAIN Registry}
     /\ \A s \in DOMAIN b.events : IsFiniteSet(b.events[s]) /\ \A e \in b.events[s] : SportOf(e.series).id = s
     /\ \A e \in events : IsFiniteSet(e.markets)
     /\ \A d, e \in events : d.ticker = e.ticker => d = e
     /\ \A d, e \in events : \A m \in d.markets, n \in e.markets : m.ticker = n.ticker => d = e /\ m = n
     /\ \A e \in events : \A m \in e.markets :
           /\ {"ticker", "vol"} \subseteq DOMAIN m /\ m.ticker \in Nat /\ m.vol \in Nat
           /\ m.bid \in price /\ m.ask \in price /\ m.noAsk \in price
           /\ m.bid # None /\ m.noAsk # None => m.noAsk <= 1000 - m.bid
     /\ \A s, t \in DOMAIN b.events : \A d \in b.events[s], e \in b.events[t] : Tour(d) = Tour(e) => s = t
     /\ \A s \in DOMAIN b.events : \A c, d \in qualifying(s) : c.key = d.key => c.name = d.name
     /\ \A s \in DOMAIN b.events : \A c, d \in sides(s) : c.event = d.event /\ c.key = d.key => c = d
ASSUME BoardsAssumption == \A b \in Boards : Listing(b)

(* Markets settle by the laws of module Settlement.  In a further way (odd)  *)
(* the rules of related markets may part.                                    *)
Settling(b) ==
  \A s \in DOMAIN b.events :
    LET cs == BuildContracts(b.events[s])
    IN /\ \A w \in b.worlds \cup b.odd : Lawful(cs, w)
       /\ \A w \in b.worlds : Replicated(cs, w)
ASSUME SettlingAssumption == \A b \in Boards : Settling(b)

ASSUME ScannerAssumption == Workers \in Nat \ {0} /\ {BlendEnabled, DemoEnabled} \subseteq BOOLEAN

VARIABLES board,       \* what the exchange lists
          fetch,       \* sport -> queued, fetching, ok or failed
          todo,        \* sports still to be aggregated
          rows,        \* the opportunities found, [sport, row]
          frames,      \* sports whose evidence is kept
          errors,      \* [sport, stage] reported in the coverage
          feed         \* <<>>, then <<the place of each row in the published list>>
vars == <<board, fetch, todo, rows, frames, errors, feed>>

Sports == DOMAIN board.events
(* all_sports: the order of the registry.                                    *)
PlaceOf(s) == CHOOSE i \in DOMAIN Registry : Registry[i].id = s
Earlier(a, b) == PlaceOf(a) < PlaceOf(b)

-----------------------------------------------------------------------------
(* What the detectors find in the contracts of one sport.                   *)
RiskBudget == 25
NearMissOver == 5
WithoutCost(row) == [row EXCEPT !.cost = None]
Detected(contracts) ==
  BuildChecks(contracts, RiskBudget)
    \cup FindDutchBooks(contracts, NearMissOver) \cup FindGroupBaskets(contracts)
    \cup FindSyntheticBundles(contracts)
    \cup {WithoutCost(r) : r \in FindExactOrderPremiums(contracts)}
    \cup FindGameSupportSignals(contracts)
    \cup FindStageElimBooks(contracts) \cup FindStageElimSynthetics(contracts)
    \cup FindNoStructures(contracts)
    \cup (IF BlendEnabled THEN FindConditionalBlends(contracts) ELSE {})
    \cup (IF DemoEnabled THEN FindPayoffBoxes(contracts) ELSE {})
RowsFor(s) == {[sport |-> s, row |-> r] : r \in Detected(BuildContracts(board.events[s]))}

(* BUCKET_PRIORITY and _rank_key: the section, then the wider edge first,   *)
(* then the id.  Ids are hashes: rows that differ only there share a place. *)
BucketPriority ==
  [actionable |-> 0, review_signal |-> 1, blocked |-> 2, risk_budget |-> 3, near_miss |-> 4,
   qualifier_setup |-> 5, no_structure |-> 6, speculative_model |-> 6, payoff_state |-> 6,
   near_edge |-> 7, display_signal |-> 8, wide_signal |-> 9, data_quality |-> 10, clean |-> 11]
Ahead(a, b) ==
  \/ BucketPriority[a.bucket] < BucketPriority[b.bucket]
  \/ BucketPriority[a.bucket] = BucketPriority[b.bucket] /\ a.gap > b.gap
Place(r) == Cardinality({q \in rows : Ahead(q.row, r.row)})

-----------------------------------------------------------------------------
Init ==
  /\ board \in Boards
  /\ fetch = [s \in Sports |-> "queued"]
  /\ todo = Sports
  /\ rows = {} /\ frames = {} /\ errors = {} /\ feed = <<>>

(* The pool starts the sports in the order of the registry.                 *)
Fetching == {s \in Sports : fetch[s] = "fetching"}
StartFetch(s) ==
  /\ fetch[s] = "queued" /\ Cardinality(Fetching) < Workers
  /\ \A t \in Sports : Earlier(t, s) => fetch[t] # "queued"
  /\ fetch' = [fetch EXCEPT ![s] = "fetching"]
  /\ UNCHANGED <<board, todo, rows, frames, errors, feed>>

FetchDone(s) ==
  /\ fetch[s] = "fetching"
  /\ fetch' = [fetch EXCEPT ![s] = "ok"]
  /\ UNCHANGED <<board, todo, rows, frames, errors, feed>>

FetchFails(s) ==
  /\ fetch[s] = "fetching"
  /\ fetch' = [fetch EXCEPT ![s] = "failed"]
  /\ errors' = errors \cup {[sport |-> s, stage |-> "fetch"]}
  /\ UNCHANGED <<board, todo, rows, frames, feed>>

(* The aggregation begins when every fetch has ended.                       *)
Fetched == \A s \in Sports : fetch[s] \in {"ok", "failed"}
Turn(s) == Fetched /\ s \in todo /\ \A t \in todo : ~Earlier(t, s)

SkipSport(s) ==
  /\ Turn(s) /\ fetch[s] = "failed"
  /\ todo' = todo \ {s}
  /\ UNCHANGED <<board, fetch, rows, frames, errors, feed>>

ProcessSport(s) ==
  /\ Turn(s) /\ fetch[s] = "ok"
  /\ rows' = rows \cup RowsFor(s)
  /\ frames' = frames \cup {s}
  /\ todo' = todo \ {s}
  /\ UNCHANGED <<board, fetch, errors, feed>>

\* Mutant: the evidence of the failed sport is kept.
ProcessFailsLate(s) ==
  /\ Turn(s) /\ fetch[s] = "ok"
  /\ errors' = errors \cup {[sport |-> s, stage |-> "process"]}
  /\ frames' = frames \cup {s}
  /\ todo' = todo \ {s}
  /\ UNCHANGED <<board, fetch, rows, feed>>

(* A detector raises: what the ones before it found is dropped.             *)
ProcessFails(s) ==
  /\ Turn(s) /\ fetch[s] = "ok"
  /\ errors' = errors \cup {[sport |-> s, stage |-> "process"]}
  /\ todo' = todo \ {s}
  /\ UNCHANGED <<board, fetch, rows, frames, feed>>

Publish ==
  /\ Fetched /\ todo = {} /\ feed = <<>>
  /\ feed' = <<[r \in rows |-> Place(r)]>>
  /\ UNCHANGED <<board, fetch, todo, rows, frames, errors>>

Next ==
  \/ \E s \in Sports : StartFetch(s) \/ FetchDone(s) \/ FetchFails(s)
                         \/ SkipSport(s) \/ ProcessSport(s) \/ ProcessFails(s)
  \/ Publish

Spec == Init /\ [][Next]_vars

-----------------------------------------------------------------------------
(* What a row promises, against the ways the markets it names may settle.   *)
Pays(row, world) ==
  MapThenSumSet(LAMBDA l : IF l.side = "yes" THEN world[l.ticker] ELSE 100 - world[l.ticker], row.legs)
Markets == UNION {UNION {e.markets : e \in board.events[s]} : s \in Sports}
Named(ticker) == CHOOSE m \in Markets : m.ticker = ticker
Charged(l) ==
  LET m == Named(l.ticker)
  IN IF l.side = "yes" THEN m.ask ELSE IF m.noAsk # None THEN m.noAsk ELSE 1000 - m.bid
TrueCost(row) == MapThenSumSet(Charged, row.legs)
Found == {r.row : r \in rows}

(* Where the rules must be compared first a row says so, except a band: one  *)
(* on a match, or on places of a final order, has no flag.                   *)
Unflagged(row) ==
  /\ row.status = "NO_STRUCTURE_BAND"
  /\ \E s \in Sports : \E e \in board.events[s] : \E m \in e.markets :
       OwnRules(e.series) /\ m.ticker \in {l.ticker : l \in row.legs}
Settles(row) == board.worlds \cup (IF row.flag = "" /\ ~Unflagged(row) THEN board.odd ELSE {})

(* A floor is a floor: however the markets settle, the legs of a row pay at  *)
(* least the floor it shows (the proofs of consistency.py, dutchbook.py,     *)
(* synthetic_bundle.py, stage_elim.py and no_structures.py). Two kinds of    *)
(* rows are held to it only where all rules settle alike: those that say the *)
(* rules must be compared first, and the Unflagged bands, which have no flag *)
(* to say it: BandFloorHolds is about those.                                 *)
FloorHolds ==
  \A row \in Found : row.floor # None => \A w \in Settles(row) : Pays(row, w) >= row.floor

(* The same without the exemption of Unflagged, as scanner.py:564-565 says   *)
(* it: "A band's broader-YES + deeper-NO guarantees >=100c in every settled  *)
(* state (floor 100)". A match that is voided pays 50 where the rung it      *)
(* stands for may still pay nothing or all.                                  *)
BandFloorHolds ==
  \A row \in {r \in Found : r.status = "NO_STRUCTURE_BAND"} :
    \A w \in board.worlds \cup board.odd : Pays(row, w) >= row.floor

(* An edge is real: a row that is offered for trading and shows a gap costs  *)
(* less than its floor at the prices the exchange charges, which are finer   *)
(* than the whole cents the detectors compute with.                          *)
EdgeIsReal ==
  \A row \in Found : IsTradable(row.tradable) /\ row.gap > 0 => TrueCost(row) < 10 * row.floor

(* The worst and the best case a row shows bound its profit where the rules  *)
(* of its markets agree.                                                     *)
Profit(row, w) == Pays(row, w) - row.cost
ProfitBounded ==
  \A row \in Found : \A w \in board.worlds :
    /\ row.worst # NoGap => row.worst <= Profit(row, w)
    /\ row.best # NoGap => Profit(row, w) <= row.best

(* As long as none of its markets is decided some settlement reaches each of *)
(* the two: neither is a figure no outcome produces.                         *)
Undecided(row) == \A l \in row.legs : {0, 100} \subseteq {w[l.ticker] : w \in board.worlds}
CasesReached ==
  \A row \in Found : Undecided(row) =>
    {row.worst, row.best} \subseteq {Profit(row, w) : w \in board.worlds} \cup {NoGap}

(* Two detectors that find the same purchase say the same of it: its cost    *)
(* and its cases do not depend on the section that shows it (a risk-budget   *)
(* candidate and a no-structure band are often one purchase).                *)
Purchase(row) == {<<l.side, l.ticker>> : l \in row.legs}
SameLegsAgree ==
  \A a, b \in {r \in Found : r.legs # {} /\ r.worst # NoGap} :
    Purchase(a) = Purchase(b) => a.cost = b.cost /\ a.worst = b.worst /\ a.best = b.best

(* An opportunity is followed from scan to scan by its id, and the id breaks *)
(* the last tie of the ranking: no two rows of a scan share one.             *)
UniqueIds == \A a, b \in rows : a.row.id = b.row.id => a = b

(* A published scan accounts for every sport: its rows and its evidence are  *)
(* both there, or both are missing and the coverage says why.                *)
FailureContained ==
  LET failed == {e.sport : e \in errors}
  IN feed # <<>> => /\ frames \cap failed = {} /\ frames \cup failed = Sports
                   /\ {r.sport : r \in rows} \subseteq frames
=============================================================================
