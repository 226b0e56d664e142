---------------------------- MODULE ScannerProofs ----------------------------
(***************************************************************************)
(* The scan, for every board the exchange may show, every pool of workers  *)
(* and every sport that fails: a failure is contained, an edge that is     *)
(* offered for trading is there at the prices the exchange charges, no two *)
(* findings share an id, and findings that are one purchase agree on it.   *)
(***************************************************************************)
EXTENDS Scanner, SetFacts, FiniteSetTheorems, TLAPS

Failed == {e.sport : e \in errors}

\* A sport that was aggregated has its evidence or an error, one of the two.
Accounted ==
    /\ todo \subseteq Sports /\ frames \subseteq Sports \ todo /\ Failed \subseteq Sports
    /\ \A s \in Sports \ todo : s \in frames <=> s \notin Failed

\* Of one that was not, only the fetch may have failed; none is before all fetches end.
Pending ==
    /\ DOMAIN fetch = Sports
    /\ \A s \in todo : s \in Failed <=> fetch[s] = "failed"
    /\ todo # Sports => Fetched

\* What was found was found in the contracts of a sport that is evidence.
FoundThere == \A r \in rows : r.sport \in frames /\ r \in RowsFor(r.sport)

ScanInv ==
    /\ board \in Boards
    /\ Accounted /\ Pending /\ FoundThere
    /\ feed # <<>> => todo = {}

-----------------------------------------------------------------------------
\* A scan starts with every sport to do and nothing found.
LEMMA InitScan == Init => ScanInv
BY DEF Init, ScanInv, Accounted, Pending, FoundThere, Failed, Sports

\* An error adds its sport to the failed ones.
LEMMA OneMoreFailed ==
    ASSUME NEW s, NEW stage, errors' = errors \cup {[sport |-> s, stage |-> stage]}
    PROVE  Failed' = Failed \cup {s}
<1> DEFINE new == [sport |-> s, stage |-> stage]
<1>1. new.sport = s OBVIOUS
<1> HIDE DEF new
<1>2. errors' = errors \cup {new} BY DEF new
<1>3. QED BY <1>1, <1>2 DEF Failed

\* The pool and the aggregation account for every sport.
LEMMA NextScan == ScanInv /\ [Next]_vars => ScanInv'
<1> SUFFICES ASSUME ScanInv, [Next]_vars PROVE ScanInv' OBVIOUS
<1> USE DEF ScanInv
<1>1. ASSUME NEW s \in Sports, StartFetch(s) PROVE ScanInv'
  <2>1. fetch[s] = "queued" /\ s \in DOMAIN fetch /\ fetch' = [fetch EXCEPT ![s] = "fetching"]
        /\ UNCHANGED <<board, todo, rows, frames, errors, feed>>
    BY <1>1 DEF StartFetch, Pending
  <2>2. todo = Sports
    BY <2>1, <1>1 DEF Pending, Fetched
  <2>3. Pending'
    BY <2>1, <2>2 DEF Pending, Failed, Sports
  <2>4. Accounted' /\ FoundThere'
    BY <2>1 DEF Accounted, FoundThere, Failed, Sports, RowsFor
  <2>5. QED BY <2>1, <2>3, <2>4
<1>2. ASSUME NEW s \in Sports, FetchDone(s) PROVE ScanInv'
  <2>1. fetch[s] = "fetching" /\ s \in DOMAIN fetch /\ fetch' = [fetch EXCEPT ![s] = "ok"]
        /\ UNCHANGED <<board, todo, rows, frames, errors, feed>>
    BY <1>2 DEF FetchDone, Pending
  <2>2. todo = Sports
    BY <2>1, <1>2 DEF Pending, Fetched
  <2>3. Pending'
    BY <2>1, <2>2 DEF Pending, Failed, Sports
  <2>4. Accounted' /\ FoundThere'
    BY <2>1 DEF Accounted, FoundThere, Failed, Sports, RowsFor
  <2>5. QED BY <2>1, <2>3, <2>4
<1>3. ASSUME NEW s \in Sports, FetchFails(s) PROVE ScanInv'
  <2>1. /\ fetch[s] = "fetching" /\ s \in DOMAIN fetch /\ fetch' = [fetch EXCEPT ![s] = "failed"]
        /\ errors' = errors \cup {[sport |-> s, stage |-> "fetch"]}
        /\ UNCHANGED <<board, todo, rows, frames, feed>>
    BY <1>3 DEF FetchFails, Pending
  <2>2. todo = Sports
    BY <2>1, <1>3 DEF Pending, Fetched
  <2>3. Failed' = Failed \cup {s}
    BY <2>1, OneMoreFailed
  <2>4. Pending'
    BY <2>1, <2>2, <2>3 DEF Pending, Sports
  <2>5. Accounted'
    BY <2>1, <2>2, <2>3, <1>3 DEF Accounted, Sports
  <2>6. FoundThere'
    BY <2>1 DEF FoundThere, Sports, RowsFor
  <2>7. QED BY <2>1, <2>4, <2>5, <2>6
<1>4. ASSUME NEW s \in Sports, SkipSport(s) PROVE ScanInv'
  <2>1. /\ Fetched /\ s \in todo /\ fetch[s] = "failed" /\ todo' = todo \ {s}
        /\ UNCHANGED <<board, fetch, rows, frames, errors, feed>>
    BY <1>4 DEF SkipSport, Turn
  <2>2. Fetched' /\ Failed' = Failed
    BY <2>1 DEF Fetched, Sports, Failed
  <2>3. Pending'
    BY <2>1, <2>2 DEF Pending, Sports
  <2>4. s \in Failed /\ s \notin frames
    BY <2>1 DEF Pending, Accounted
  <2>5. Accounted'
    BY <2>1, <2>2, <2>4 DEF Accounted, Sports
  <2>6. FoundThere'
    BY <2>1 DEF FoundThere, Sports, RowsFor
  <2>7. QED BY <2>1, <2>3, <2>5, <2>6
<1>5. ASSUME NEW s \in Sports, ProcessSport(s) PROVE ScanInv'
  <2>1. /\ Fetched /\ s \in todo /\ fetch[s] = "ok" /\ todo' = todo \ {s}
        /\ rows' = rows \cup RowsFor(s) /\ frames' = frames \cup {s}
        /\ UNCHANGED <<board, fetch, errors, feed>>
    BY <1>5 DEF ProcessSport, Turn
  <2>2. Fetched' /\ Failed' = Failed
    BY <2>1 DEF Fetched, Sports, Failed
  <2>3. Pending'
    BY <2>1, <2>2 DEF Pending, Sports
  <2>4. s \notin Failed
    BY <2>1 DEF Pending
  <2>5. Accounted'
    BY <2>1, <2>2, <2>4, <1>5 DEF Accounted, Sports
  <2>6. \A r \in RowsFor(s) : r.sport = s
    BY DEF RowsFor
  <2>7. \A t : RowsFor(t)' = RowsFor(t)
    BY <2>1 DEF RowsFor
  <2>8. FoundThere'
    BY <2>1, <2>6, <2>7 DEF FoundThere
  <2>9. QED BY <2>1, <2>3, <2>5, <2>8
<1>6. ASSUME NEW s \in Sports, ProcessFails(s) PROVE ScanInv'
  <2>1. /\ Fetched /\ s \in todo /\ fetch[s] = "ok" /\ todo' = todo \ {s}
        /\ errors' = errors \cup {[sport |-> s, stage |-> "process"]}
        /\ UNCHANGED <<board, fetch, rows, frames, feed>>
    BY <1>6 DEF ProcessFails, Turn
  <2>2. Fetched' /\ Failed' = Failed \cup {s}
    BY <2>1, OneMoreFailed DEF Fetched, Sports
  <2>3. Pending'
    BY <2>1, <2>2 DEF Pending, Sports
  <2>4. s \notin frames
    BY <2>1 DEF Accounted
  <2>5. Accounted'
    BY <2>1, <2>2, <2>4, <1>6 DEF Accounted, Sports
  <2>6. FoundThere'
    BY <2>1 DEF FoundThere, Sports, RowsFor
  <2>7. QED BY <2>1, <2>3, <2>5, <2>6
<1>7. CASE Publish
  BY <1>7 DEF Publish, Accounted, Pending, FoundThere, Failed, Fetched, Sports, RowsFor
<1>8. CASE UNCHANGED vars
  BY <1>8 DEF vars, Accounted, Pending, FoundThere, Failed, Fetched, Sports, RowsFor
<1>9. QED BY <1>1, <1>2, <1>3, <1>4, <1>5, <1>6, <1>7, <1>8 DEF Next

\* Throughout a scan every sport is accounted for.
THEOREM ScanInvariance == Spec => []ScanInv
BY InitScan, NextScan, PTL DEF Spec

\* A published scan accounts for every sport by its evidence or by an error, however
\* many sports fail and wherever they do.
THEOREM FailureContainedHolds == Spec => []FailureContained
<1>1. ScanInv => FailureContained
  BY DEF ScanInv, FailureContained, Accounted, FoundThere, Failed
<1>2. QED BY <1>1, ScanInvariance, PTL

-----------------------------------------------------------------------------
\* The contracts of a sport.
Contracts(s) == BuildContracts(board.events[s])

\* A price of the exchange, in tenths of a cent; a NO ask is at most what the YES bid implies.
Tenths == 0..1000 \cup {None}
Unified(m) == m.bid # None /\ m.noAsk # None => m.noAsk <= 1000 - m.bid
IsWhole(p) == p # None => p % 10 = 0

\* The market a contract was made of, at its exact prices.
Quoted(c) ==
    LET m == Named(c.ticker)
    IN /\ m \in Markets /\ m.ticker = c.ticker
       /\ c.bid = ToCents(m.bid) /\ c.ask = ToCents(m.ask) /\ c.noAsk = ToCents(m.noAsk)
       /\ c.subpenny = Subpenny(m) /\ c.ticker \in Nat /\ c.vol \in Nat
       /\ {m.bid, m.ask, m.noAsk} \subseteq Tenths
       /\ Unified(m)

-----------------------------------------------------------------------------
\* The board is as the exchange lists it.
LEMMA BoardListed == ASSUME board \in Boards PROVE Listing(board)
BY BoardsAssumption

\* What a contract takes over from its market.
LEMMA ContractFields ==
    ASSUME NEW e, NEW m, {"ticker", "vol"} \subseteq DOMAIN m
    PROVE  LET c == Contract(e, m)
           IN /\ c.ticker = m.ticker /\ c.bid = ToCents(m.bid) /\ c.ask = ToCents(m.ask)
              /\ c.noAsk = ToCents(m.noAsk) /\ c.subpenny = Subpenny(m) /\ c.vol = m.vol
BY DEF Contract, With

\* A contract is of one event and one market of it.
LEMMA ContractIs ==
    ASSUME NEW s, NEW c \in Contracts(s)
    PROVE  \E e \in board.events[s] : \E m \in e.markets : c = Contract(e, m)
BY DEF Contracts, BuildContracts

\* The ticker of a contract leads back to its market, and no other contract has it.
LEMMA ContractQuoted ==
    ASSUME board \in Boards, NEW s \in Sports, NEW c \in Contracts(s)
    PROVE  /\ Quoted(c)
           /\ \A d \in Contracts(s) : d.ticker = c.ticker => d = c
<1> DEFINE events == UNION {board.events[t] : t \in DOMAIN board.events}
<1>1. PICK e \in board.events[s] : \E m \in e.markets : c = Contract(e, m)
  BY ContractIs
<1>2. PICK m \in e.markets : c = Contract(e, m)
  BY <1>1
<1>3. e \in events /\ m \in Markets
  BY DEF Markets, Sports
<1>4. /\ \A x \in events : \A n \in x.markets :
            /\ {"ticker", "vol"} \subseteq DOMAIN n /\ n.ticker \in Nat /\ n.vol \in Nat
            /\ {n.bid, n.ask, n.noAsk} \subseteq Tenths
            /\ Unified(n)
      /\ \A x, y \in events : \A n \in x.markets, k \in y.markets : n.ticker = k.ticker => x = y /\ n = k
  <2>1. \A x \in events : \A n \in x.markets :
           /\ {"ticker", "vol"} \subseteq DOMAIN n /\ n.ticker \in Nat /\ n.vol \in Nat
           /\ {n.bid, n.ask, n.noAsk} \subseteq Tenths
           /\ Unified(n)
    <3>1. \A x \in events : \A n \in x.markets : {"ticker", "vol"} \subseteq DOMAIN n /\ n.ticker \in Nat /\ n.vol \in Nat
      BY BoardListed DEF Listing
    <3>2. \A x \in events : \A n \in x.markets : n.bid \in Tenths /\ n.ask \in Tenths /\ n.noAsk \in Tenths
      BY BoardListed DEF Listing, Tenths
    <3>3. \A x \in events : \A n \in x.markets : Unified(n)
      BY BoardListed DEF Listing, Unified
    <3> HIDE DEF events
    <3>4. QED BY <3>1, <3>2, <3>3
  <2>2. \A x, y \in events : \A n \in x.markets, k \in y.markets : n.ticker = k.ticker => x = y /\ n = k
    BY BoardListed DEF Listing
  <2>3. QED BY <2>1, <2>2
<1>5. c.ticker = m.ticker /\ c.bid = ToCents(m.bid) /\ c.ask = ToCents(m.ask)
      /\ c.noAsk = ToCents(m.noAsk) /\ c.subpenny = Subpenny(m) /\ c.vol = m.vol
  BY <1>2, <1>3, <1>4, ContractFields
<1>6. \A n \in Markets : n.ticker = c.ticker => n = m
  <2>1. \A n \in Markets : \E x \in events : n \in x.markets
    BY DEF Markets, Sports
  <2>2. QED BY <1>3, <1>4, <1>5, <2>1
<1>7. Named(c.ticker) = m
  BY <1>3, <1>5, <1>6 DEF Named
<1>8. Quoted(c)
  BY <1>3, <1>4, <1>5, <1>7 DEF Quoted
<1>9. ASSUME NEW d \in Contracts(s), d.ticker = c.ticker PROVE d = c
  <2>1. PICK x \in board.events[s] : \E n \in x.markets : d = Contract(x, n)
    BY ContractIs
  <2>2. PICK n \in x.markets : d = Contract(x, n)
    BY <2>1
  <2>3. x \in events
    BY DEF Sports
  <2>4. d.ticker = n.ticker
    BY <2>2, <2>3, <1>4, ContractFields
  <2>5. x = e /\ n = m
    <3>1. n.ticker = m.ticker
      BY <1>5, <1>9, <2>4
    <3> HIDE DEF events
    <3>2. QED BY <1>3, <1>4, <2>3, <3>1
  <2>6. QED BY <1>2, <2>2, <2>5
<1>10. QED BY <1>8, <1>9

\* Its ticker and its volume can be compared.
LEMMA ContractNats ==
    ASSUME board \in Boards, NEW s \in Sports, NEW c \in Contracts(s)
    PROVE  c.ticker \in Nat /\ c.vol \in Nat
<1>1. Quoted(c)
  BY ContractQuoted
<1>2. QED BY <1>1, Zenon DEF Quoted

\* A sport has finitely many contracts.
LEMMA ContractsFinite ==
    ASSUME board \in Boards, NEW s \in Sports
    PROVE  IsFiniteSet(Contracts(s))
<1> DEFINE of(e) == {Contract(e, m) : m \in {x \in e.markets : x.name # ""}}
           all == {of(e) : e \in board.events[s]}
<1>1. IsFiniteSet(board.events[s]) /\ \A e \in board.events[s] : IsFiniteSet(e.markets)
  BY BoardListed DEF Listing, Sports
<1>2. ASSUME NEW e \in board.events[s] PROVE IsFiniteSet(of(e))
  <2> DEFINE ms == {x \in e.markets : x.name # ""}
             g == [m \in ms |-> Contract(e, m)]
  <2>1. IsFiniteSet(ms)
    BY <1>1, FS_Subset
  <2>2. of(e) = {g[m] : m \in ms}
    OBVIOUS
  <2> HIDE DEF ms, g, of
  <2>3. QED BY <2>1, <2>2, FiniteImage
<1>3. IsFiniteSet(all)
  <2> DEFINE g == [e \in board.events[s] |-> of(e)]
  <2>1. all = {g[e] : e \in board.events[s]}
    OBVIOUS
  <2> HIDE DEF g, all
  <2>2. QED BY <1>1, <2>1, FiniteImage
<1>4. Contracts(s) = UNION all
  BY DEF Contracts, BuildContracts
<1>5. \A T \in all : IsFiniteSet(T)
  BY <1>2
<1> HIDE DEF all
<1>6. QED BY <1>3, <1>4, <1>5, FS_UNION

-----------------------------------------------------------------------------
\* A price that is a whole number of cents is not rounded, and no price is None but None.
LEMMA WholeCents ==
    \A p \in Tenths :
        /\ p = None => ToCents(p) = None
        /\ p # None => ToCents(p) \in 0..100
        /\ p # None /\ IsWhole(p) => p = 10 * ToCents(p)
<1> SUFFICES ASSUME NEW p \in Tenths
             PROVE  /\ p = None => ToCents(p) = None
                    /\ p # None => ToCents(p) \in 0..100
                    /\ p # None /\ IsWhole(p) => p = 10 * ToCents(p)
  OBVIOUS
<1>6. p = None => ToCents(p) = None
  BY Zenon DEF ToCents
<1> SUFFICES ASSUME p \in 0..1000, p # None
             PROVE  ToCents(p) \in 0..100 /\ (p % 10 = 0 => p = 10 * ToCents(p))
  BY <1>6 DEF Tenths, IsWhole
<1> DEFINE q == p \div 10
           r == p % 10
<1>1. q \in 0..100 /\ r \in 0..9 /\ p = 10 * q + r /\ (q = 100 => r = 0)
  OBVIOUS
<1>2. ToCents(p) = IF r < 5 \/ (r = 5 /\ q % 2 = 0) THEN q ELSE q + 1
  BY DEF ToCents
<1> HIDE DEF q, r
<1>3. ToCents(p) \in {q, q + 1} /\ (r = 0 => ToCents(p) = q)
  BY <1>1, <1>2
<1>4. q = 100 => ToCents(p) = q
  BY <1>1, <1>3
<1>5. QED BY <1>1, <1>3, <1>4 DEF r

\* A price in tenths of a cent and the whole cents that say it.
ExactIn(p, q) ==
    /\ p = None <=> q = None
    /\ p # None => q \in 0..100 /\ p = 10 * q

LEMMA ExactCents ==
    ASSUME NEW p \in Tenths, IsWhole(p) PROVE ExactIn(p, ToCents(p))
<1> DEFINE q == ToCents(p)
<1>1. (p = None => q = None) /\ (p # None => q \in 0..100 /\ p = 10 * q)
  BY WholeCents
<1> HIDE DEF q
<1>2. q \in 0..100 => q # None
  BY DEF None
<1>3. ExactIn(p, q)
  BY <1>1, <1>2 DEF ExactIn
<1>4. QED BY <1>3 DEF q

\* What is known of a quoted contract, part by part.
LEMMA QuotedIs ==
    ASSUME NEW c, Quoted(c)
    PROVE  LET m == Named(c.ticker)
           IN /\ c.bid = ToCents(m.bid) /\ c.ask = ToCents(m.ask) /\ c.noAsk = ToCents(m.noAsk)
              /\ {m.bid, m.ask, m.noAsk} \subseteq Tenths
              /\ Unified(m)
              /\ c.subpenny = Subpenny(m) /\ m \in Markets /\ m.ticker = c.ticker
BY DEF Quoted

\* What a firm contract shows is what the exchange charges.
LEMMA ExactQuotes ==
    ASSUME NEW c, Quoted(c), ~c.subpenny
    PROVE  LET m == Named(c.ticker)
           IN /\ c.ask # None => c.ask \in 0..100 /\ m.ask = 10 * c.ask
              /\ c.bid # None => c.bid \in 0..100 /\ m.bid = 10 * c.bid
              /\ c.noAsk # None => c.noAsk \in 0..100 /\ m.noAsk = 10 * c.noAsk
              /\ c.noAsk = None => m.noAsk = None
              /\ c.bid # None /\ c.noAsk # None => c.noAsk <= 100 - c.bid
<1> DEFINE m == Named(c.ticker)
<1>1. /\ c.bid = ToCents(m.bid) /\ c.ask = ToCents(m.ask) /\ c.noAsk = ToCents(m.noAsk)
      /\ {m.bid, m.ask, m.noAsk} \subseteq Tenths
      /\ Unified(m)
      /\ ~Subpenny(m)
  BY QuotedIs
<1> HIDE DEF m
<1>2. ASSUME NEW p \in {m.bid, m.ask, m.noAsk} PROVE ExactIn(p, ToCents(p))
  <2>1. IsWhole(p)
    BY <1>1 DEF Subpenny, IsWhole
  <2>2. p \in Tenths
    BY <1>1
  <2>3. QED BY <2>1, <2>2, ExactCents
<1>3. ExactIn(m.bid, c.bid) /\ ExactIn(m.ask, c.ask) /\ ExactIn(m.noAsk, c.noAsk)
  BY <1>1, <1>2
<1>4. c.bid # None /\ c.noAsk # None => c.noAsk <= 100 - c.bid
  <2> SUFFICES ASSUME c.bid # None, c.noAsk # None PROVE c.noAsk <= 100 - c.bid
    OBVIOUS
  <2>1. /\ m.bid # None /\ c.bid \in 0..100 /\ m.bid = 10 * c.bid
        /\ m.noAsk # None /\ c.noAsk \in 0..100 /\ m.noAsk = 10 * c.noAsk
    BY <1>3 DEF ExactIn
  <2>2. m.noAsk <= 1000 - m.bid
    BY <1>1, <2>1 DEF Unified
  <2> DEFINE x == c.bid
             y == c.noAsk
  <2>3. x \in 0..100 /\ y \in 0..100 /\ 10 * y <= 1000 - 10 * x
    BY <2>1, <2>2
  <2> HIDE DEF x, y
  <2>4. y <= 100 - x
    BY <2>3
  <2>5. QED BY <2>4 DEF x, y
<1>5. /\ c.ask # None => c.ask \in 0..100 /\ m.ask = 10 * c.ask
      /\ c.bid # None => c.bid \in 0..100 /\ m.bid = 10 * c.bid
      /\ c.noAsk # None => c.noAsk \in 0..100 /\ m.noAsk = 10 * c.noAsk
      /\ c.noAsk = None => m.noAsk = None
  BY <1>3 DEF ExactIn
<1>6. QED BY <1>4, <1>5 DEF m

-----------------------------------------------------------------------------
\* A row that is offered for trading with a gap costs less than its floor.
Real(row) == IsTradable(row.tradable) /\ row.gap > 0 => TrueCost(row) < 10 * row.floor

\* Contracts of one sport with whole prices.
Books(s) == SUBSET {m \in Contracts(s) : ~m.subpenny}

-----------------------------------------------------------------------------
\* What a direction costs, as the sum of a function.
LEMMA CostIs ==
    ASSUME NEW side, NEW ms
    PROVE  Cost(side, ms) = SumOf([m \in ms |-> BuyPrice(side, m)], ms)
BY DEF Cost, SumOf, MapThenSumSet, MapThenFoldSet

\* What the exchange charges for some legs, as the sum of a function.
LEMMA TrueCostIs ==
    ASSUME NEW legs
    PROVE  MapThenSumSet(Charged, legs) = SumOf([l \in legs |-> Charged(l)], legs)
BY DEF SumOf, MapThenSumSet, MapThenFoldSet

\* What the exchange charges for a YES and for a NO.
LEMMA YesCharged ==
    ASSUME NEW c, Quoted(c), ~c.subpenny, c.ask # None, NEW price
    PROVE  c.ask \in 0..100 /\ Charged([side |-> "yes", ticker |-> c.ticker, price |-> price]) = 10 * c.ask
BY ExactQuotes DEF Charged

\* It is the reported ask of the NO, or what the bid for the YES implies.
LEMMA NoCharged ==
    ASSUME NEW c, Quoted(c), ~c.subpenny, BuyNo(c) # None, NEW price
    PROVE  /\ BuyNo(c) \in 0..100
           /\ c.bid # None => BuyNo(c) <= 100 - c.bid
           /\ Charged([side |-> "no", ticker |-> c.ticker, price |-> price]) = 10 * BuyNo(c)
<1> DEFINE l == [side |-> "no", ticker |-> c.ticker, price |-> price]
           m == Named(c.ticker)
<1>1. Charged(l) = IF m.noAsk # None THEN m.noAsk ELSE 1000 - m.bid
  BY DEF Charged
<1> HIDE DEF l, m
<1>2. /\ c.bid # None => c.bid \in 0..100 /\ m.bid = 10 * c.bid
      /\ c.noAsk # None => c.noAsk \in 0..100 /\ m.noAsk = 10 * c.noAsk
      /\ c.noAsk = None => m.noAsk = None
      /\ c.bid # None /\ c.noAsk # None => c.noAsk <= 100 - c.bid
  BY ExactQuotes DEF m
<1>3. CASE c.noAsk # None
  <2>1. BuyNo(c) = c.noAsk /\ m.noAsk = 10 * c.noAsk /\ c.noAsk \in 0..100 /\ m.noAsk # None
    BY <1>2, <1>3 DEF BuyNo, None
  <2>2. QED BY <1>1, <1>2, <2>1 DEF l
<1>4. CASE c.noAsk = None
  <2>1. c.bid # None /\ BuyNo(c) = 100 - c.bid /\ m.noAsk = None
    BY <1>2, <1>4 DEF BuyNo
  <2>2. QED BY <1>1, <1>2, <2>1 DEF l
<1>5. QED BY <1>3, <1>4

\* What it charges for either side is the price the detectors buy at.
LEMMA BuyCharged ==
    ASSUME NEW c, Quoted(c), ~c.subpenny, NEW side \in {"yes", "no"}, BuyPrice(side, c) # None
    PROVE  /\ BuyPrice(side, c) \in 0..100
           /\ Charged([side |-> side, ticker |-> c.ticker, price |-> BuyPrice(side, c)]) = 10 * BuyPrice(side, c)
<1>1. CASE side = "yes"
  BY <1>1, YesCharged DEF BuyPrice, FirmYesAsk
<1>2. CASE side = "no"
  BY <1>2, NoCharged DEF BuyPrice, FirmNoAsk
<1>3. QED BY <1>1, <1>2

\* The legs of one direction cost what the direction says.
LEMMA LegsCharged ==
    ASSUME board \in Boards, NEW s \in Sports, NEW ms \in Books(s), NEW side \in {"yes", "no"}, Priced(side, ms)
    PROVE  Cost(side, ms) \in Nat /\ MapThenSumSet(Charged, Legs(side, ms)) = 10 * Cost(side, ms)
<1> DEFINE g == [m \in ms |-> [side |-> side, ticker |-> m.ticker, price |-> BuyPrice(side, m)]]
           legs == {g[m] : m \in ms}
           p == [m \in ms |-> BuyPrice(side, m)]
           q == [m \in ms |-> Charged(g[m])]
           h == [l \in legs |-> Charged(l)]
<1>1. IsFiniteSet(ms)
  BY ContractsFinite, FS_Subset DEF Books
<1>2. \A m \in ms : p[m] \in Nat /\ q[m] = 10 * p[m]
  <2> SUFFICES ASSUME NEW m \in ms PROVE p[m] \in Nat /\ q[m] = 10 * p[m] OBVIOUS
  <2>1. m \in Contracts(s) /\ ~m.subpenny /\ BuyPrice(side, m) # None
    BY DEF Books, Priced
  <2>2. Quoted(m)
    BY <2>1, ContractQuoted
  <2>3. BuyPrice(side, m) \in 0..100 /\ Charged(g[m]) = 10 * BuyPrice(side, m)
    BY <2>1, <2>2, BuyCharged
  <2>4. QED BY <2>3
<1>3. \A m \in ms : q[m] \in Nat
  <2> HIDE DEF p, q
  <2>1. QED BY <1>2
<1>4. \A m, n \in ms : g[m] = g[n] => m = n
  <2>1. \A m \in ms : g[m].ticker = m.ticker /\ m \in Contracts(s)
    BY DEF Books
  <2> HIDE DEF g
  <2>2. QED BY <2>1, ContractQuoted
<1>5. \A m \in ms : h[g[m]] = q[m]
  OBVIOUS
<1>6. Legs(side, ms) = legs
  BY DEF Legs
<1>7. MapThenSumSet(Charged, legs) = SumOf(h, legs)
  BY TrueCostIs
<1>8. Cost(side, ms) = SumOf(p, ms)
  BY CostIs
<1> HIDE DEF g, p, q, h
<1>9. SumOf(h, legs) = SumOf(q, ms)
  BY <1>1, <1>3, <1>4, <1>5, SumImage
<1>10. SumOf(q, ms) = 10 * SumOf(p, ms) /\ SumOf(p, ms) \in Nat
  BY <1>1, <1>2, SumTenfold, SumNat
<1> HIDE DEF legs
<1>11. QED BY <1>6, <1>7, <1>8, <1>9, <1>10

-----------------------------------------------------------------------------
\* The direction that is chosen is one of them.
LEMMA WidestIn ==
    ASSUME NEW x, NEW y, x.side = "yes", y.side = "no", x.gap \in Int, y.gap \in Int,
           NEW cands \in SUBSET {x, y}, cands # {}
    PROVE  Widest(cands) \in cands
<1> DEFINE best(c) == \A d \in cands : c.gap > d.gap \/ (c.gap = d.gap /\ (c.side = "yes" \/ d.side = "no"))
<1>1. \E c \in cands : best(c)
  <2>1. CASE x \in cands /\ (y \in cands => x.gap >= y.gap)
    BY <2>1
  <2>2. CASE y \in cands /\ (x \in cands => y.gap > x.gap)
    BY <2>2
  <2>3. QED BY <2>1, <2>2
<1>2. QED BY <1>1 DEF Widest

\* What is chosen among the directions of a book costs what it says.
LEMMA BookPrices ==
    ASSUME board \in Boards, NEW s \in Sports, NEW ms \in Books(s), NEW f \in Int, NEW g \in Int,
           NEW cands \in SUBSET (Direction("yes", ms, f) \cup Direction("no", ms, g)), cands # {}
    PROVE  LET c == Widest(cands)
           IN c.gap \in Int /\ c.floor \in Int /\ MapThenSumSet(Charged, c.legs) = 10 * (c.floor - c.gap)
<1> DEFINE way(side, floor) == [side |-> side, legs |-> Legs(side, ms), cost |-> Cost(side, ms), floor |-> floor,
                                gap |-> floor - Cost(side, ms), units |-> Units(side, ms)]
           x == IF Priced("yes", ms) THEN way("yes", f) ELSE [side |-> "yes", gap |-> 0]
           y == IF Priced("no", ms) THEN way("no", g) ELSE [side |-> "no", gap |-> 0]
<1>1. /\ cands \in SUBSET {x, y}
      /\ x \in cands => Priced("yes", ms) /\ x = way("yes", f)
      /\ y \in cands => Priced("no", ms) /\ y = way("no", g)
  BY DEF Direction
<1>2. Priced("yes", ms) => /\ way("yes", f).gap = f - Cost("yes", ms) /\ way("yes", f).floor = f
                           /\ way("yes", f).legs = Legs("yes", ms) /\ way("yes", f).side = "yes"
                           /\ Cost("yes", ms) \in Nat
                           /\ MapThenSumSet(Charged, Legs("yes", ms)) = 10 * Cost("yes", ms)
  BY LegsCharged
<1>3. Priced("no", ms) => /\ way("no", g).gap = g - Cost("no", ms) /\ way("no", g).floor = g
                          /\ way("no", g).legs = Legs("no", ms) /\ way("no", g).side = "no"
                          /\ Cost("no", ms) \in Nat
                          /\ MapThenSumSet(Charged, Legs("no", ms)) = 10 * Cost("no", ms)
  BY LegsCharged
<1>4. x.side = "yes" /\ x.gap \in Int /\ y.side = "no" /\ y.gap \in Int
  BY <1>2, <1>3
<1> HIDE DEF way, x, y
<1>5. Widest(cands) \in cands
  BY <1>1, <1>4, WidestIn
<1>6. CASE Widest(cands) = x
  BY <1>1, <1>2, <1>5, <1>6
<1>7. CASE Widest(cands) = y
  BY <1>1, <1>3, <1>5, <1>7
<1>8. QED BY <1>1, <1>5, <1>6, <1>7

-----------------------------------------------------------------------------
Sportses == {Tennis, Nba, Wnba, Golf, Soccer, Mlb, Nhl, Nfl, Motorsport, Esports, Unknown}
\* A series is of one of the sports, or of none.
LEMMA SportIs == \A series : SportOf(series) \in Sportses
<1> SUFFICES ASSUME NEW series PROVE SportOf(series) \in Sportses OBVIOUS
<1>1. DOMAIN Registry = 1..10 /\ \A i \in 1..10 : Registry[i] \in Sportses
  BY DEF Registry, Sportses
<1> DEFINE P(i) == series \in DOMAIN Registry[i].families
<1>2. (\E i \in 1..10 : P(i)) => (CHOOSE i \in 1..10 : P(i)) \in 1..10
  OBVIOUS
<1> HIDE DEF P
<1>3. SportOf(series) = IF \E i \in 1..10 : P(i) THEN Registry[CHOOSE i \in 1..10 : P(i)] ELSE Unknown
  BY <1>1 DEF SportOf, P
<1>4. QED BY <1>1, <1>2, <1>3 DEF Sportses

\* The rules of the two kinds of group basket.
LEMMA BasketRules ==
    \A series : series \in DOMAIN SportOf(series).baskets =>
       LET rule == SportOf(series).baskets[series]
       IN \/ series = "KXWCGROUPQUAL" /\ rule = GroupRule(4, 2, 1, 3, 2)
          \/ series = "KXWCGROUPBOTTOM" /\ rule = GroupRule(4, 1, 3, 1, 3)
<1>1. \A cfg \in Sportses \ {Soccer} : DOMAIN cfg.baskets = {}
  <2>1. DOMAIN Tennis.baskets = {} BY DEF Tennis, Default
  <2>2. DOMAIN Nba.baskets = {} BY DEF Nba, Default
  <2>3. DOMAIN Wnba.baskets = {} BY DEF Wnba, Default
  <2>4. DOMAIN Golf.baskets = {} BY DEF Golf, Default
  <2>5. DOMAIN Mlb.baskets = {} BY DEF Mlb, Default
  <2>6. DOMAIN Nhl.baskets = {} BY DEF Nhl, Default
  <2>7. DOMAIN Nfl.baskets = {} BY DEF Nfl, Default
  <2>8. DOMAIN Motorsport.baskets = {} BY DEF Motorsport, Default
  <2>9. DOMAIN Esports.baskets = {} BY DEF Esports, Default
  <2>10. DOMAIN Unknown.baskets = {} BY DEF Unknown, Default
  <2>11. QED BY <2>1, <2>2, <2>3, <2>4, <2>5, <2>6, <2>7, <2>8, <2>9, <2>10 DEF Sportses
<1>2. Soccer.baskets = [KXWCGROUPQUAL |-> GroupRule(4, 2, 1, 3, 2), KXWCGROUPBOTTOM |-> GroupRule(4, 1, 3, 1, 3)]
  BY DEF Soccer, Default
<1>3. \A series \in DOMAIN Soccer.baskets :
        LET rule == Soccer.baskets[series]
        IN \/ series = "KXWCGROUPQUAL" /\ rule = GroupRule(4, 2, 1, 3, 2)
           \/ series = "KXWCGROUPBOTTOM" /\ rule = GroupRule(4, 1, 3, 1, 3)
  BY <1>2
<1>4. QED BY <1>1, <1>3, SportIs

\* The floors of a basket are numbers, and it is of four teams.
LEMMA BasketFloors ==
    \A series : series \in DOMAIN SportOf(series).baskets =>
       LET rule == SportOf(series).baskets[series]
       IN rule.yes_floor \in Nat /\ rule.no_floor \in Nat /\ rule.team_count = 4
BY BasketRules DEF GroupRule

-----------------------------------------------------------------------------
\* A row whose legs cost what it says.
LEMMA RealIf ==
    ASSUME NEW row, row.gap \in Int, row.floor \in Int,
           MapThenSumSet(Charged, row.legs) = 10 * (row.floor - row.gap)
    PROVE  Real(row)
BY DEF Real, TrueCost

\* A row about what is chosen among the directions of a book.
LEMMA ChosenReal ==
    ASSUME board \in Boards, NEW s \in Sports, NEW ms \in Books(s), NEW f \in Int, NEW g \in Int,
           NEW cands \in SUBSET (Direction("yes", ms, f) \cup Direction("no", ms, g)), cands # {},
           NEW row, row.legs = Widest(cands).legs, row.gap = Widest(cands).gap, row.floor = Widest(cands).floor
    PROVE  Real(row)
BY BookPrices, RealIf

\* Part of what is trusted is a book.
LEMMA TrustedBooks == ASSUME NEW s, NEW ms \in SUBSET Trusted(Contracts(s)) PROVE ms \in Books(s)
BY DEF Trusted, Books

\* A book is finite, so that its legs can be counted.
LEMMA BookFinite == ASSUME board \in Boards, NEW s \in Sports, NEW ms \in Books(s) PROVE Cardinality(ms) \in Nat
BY ContractsFinite, FS_Subset, FS_CardinalityType DEF Books

-----------------------------------------------------------------------------
\* Two-way and three-way books.
LEMMA BookReal ==
    ASSUME board \in Boards, NEW s \in Sports, NEW ms \in Books(s), NEW event, NEW over,
           NEW row \in Book(event, ms, over)
    PROVE  Real(row)
<1> DEFINE cands == Directions(ms)
           c == Widest(cands)
           id == <<"dutch_book", event, {m.key : m \in ms}>>
<1>1. cands # {}
  BY DEF Book, EdgeOf
<1>2. cands \in SUBSET (Direction("yes", ms, 100) \cup Direction("no", ms, 100 * (Cardinality(ms) - 1)))
      /\ 100 * (Cardinality(ms) - 1) \in Int
  BY BookFinite DEF Directions
<1>3. \/ row = Finding("dutch_book", "EXECUTABLE_DUTCH_BOOK", StrictBucket(c, ms), id, c, ms, c.gap)
      \/ row = Finding("dutch_book", "NEAR_MISS_DUTCH_BOOK", "near_miss", id, c, ms, c.gap)
  BY DEF Book
<1> HIDE DEF cands, id, c
<1>4. row.legs = c.legs /\ row.gap = c.gap /\ row.floor = c.floor
  <2>1. CASE row = Finding("dutch_book", "EXECUTABLE_DUTCH_BOOK", StrictBucket(c, ms), id, c, ms, c.gap)
    BY <2>1 DEF Finding
  <2>2. CASE row = Finding("dutch_book", "NEAR_MISS_DUTCH_BOOK", "near_miss", id, c, ms, c.gap)
    BY <2>2 DEF Finding
  <2>3. QED BY <1>3, <2>1, <2>2
<1>5. QED BY <1>1, <1>2, <1>4, ChosenReal DEF c

\* Fields: buying NO on the part of the field that is firmly priced.
LEMMA FieldReal ==
    ASSUME board \in Boards, NEW s \in Sports, NEW ms \in Books(s), NEW event, NEW row \in DetectField(event, ms)
    PROVE  Real(row)
<1> DEFINE subset == FieldOverroundSubset(ms)
           g == 100 * (Cardinality(subset) - 1)
           cands == Direction("no", subset, g)
           c == Widest(cands)
           id == <<"dutch_book", event, "field", "overround">>
<1>1. subset \in Books(s)
  BY DEF FieldOverroundSubset, Books
<1>2. cands # {} /\ row = [Finding("dutch_book", "EXECUTABLE_DUTCH_BOOK", StrictBucket(c, subset), id, c, subset, NoGap)
                            EXCEPT !.worst = NoGap]
  BY DEF DetectField
<1>3. g \in Int
  BY <1>1, BookFinite
<1>4. cands \in SUBSET (Direction("yes", subset, 100) \cup Direction("no", subset, g))
  OBVIOUS
<1> HIDE DEF cands, id, subset, c, g
<1>5. row.legs = c.legs /\ row.gap = c.gap /\ row.floor = c.floor
  BY <1>2 DEF Finding
<1>6. row.legs = Widest(cands).legs /\ row.gap = Widest(cands).gap /\ row.floor = Widest(cands).floor /\ cands # {}
  BY <1>2, <1>5 DEF c
<1>7. 100 \in Int
  OBVIOUS
<1>8. QED BY <1>1, <1>3, <1>4, <1>6, <1>7, ChosenReal

\* Every book find_dutch_books reports.
LEMMA DutchBooksReal ==
    ASSUME board \in Boards, NEW s \in Sports, NEW over, NEW row \in FindDutchBooks(Contracts(s), over)
    PROVE  Real(row)
<1> DEFINE trusted == Trusted(Contracts(s))
           kept == {m \in trusted : m.kind # "exact_order"}
           twoWay == {m \in kept : IsTwoWay(m)}
           fields == {m \in kept : ~IsTwoWay(m) /\ IsField(m)}
           pair(g) == {m \in twoWay : m.event = g[1] /\ m.kind = g[2]}
           field(e) == {m \in fields : m.event = e}
           pairs == {DetectTwoWay(g[1], pair(g), over) : g \in {<<m.event, m.kind>> : m \in twoWay}}
           inField == {DetectField(e, field(e)) : e \in {m.event : m \in fields}}
<1>1. row \in (UNION pairs) \cup (UNION inField)
  BY DEF FindDutchBooks
<1>2. (\A g : pair(g) \in SUBSET trusted) /\ (\A e : field(e) \in SUBSET trusted)
  OBVIOUS
<1>3. \A ms, event : row \in DetectTwoWay(event, ms, over) => row \in Book(event, ms, over)
  BY DEF DetectTwoWay, DetectNWay, DetectPair
<1> HIDE DEF pair, field, twoWay, fields
<1>4. (\A g : pair(g) \in Books(s)) /\ (\A e : field(e) \in Books(s))
  BY <1>2, TrustedBooks
<1>5. CASE row \in UNION pairs
  <2>1. PICK g : row \in DetectTwoWay(g[1], pair(g), over)
    BY <1>5
  <2>2. row \in Book(g[1], pair(g), over)
    BY <1>3, <2>1
  <2>3. QED BY <1>4, <2>2, BookReal
<1>6. CASE row \in UNION inField
  <2>1. PICK e : row \in DetectField(e, field(e))
    BY <1>6
  <2>2. QED BY <1>4, <2>1, FieldReal
<1> HIDE DEF pairs, inField
<1>7. row \in UNION pairs \/ row \in UNION inField
  BY ONLY <1>1
<1>8. QED BY <1>5, <1>6, <1>7

\* Every basket find_group_baskets reports.
LEMMA BasketsReal ==
    ASSUME board \in Boards, NEW s \in Sports, NEW row \in FindGroupBaskets(Contracts(s))
    PROVE  Real(row)
<1>1. PICK ms \in SUBSET {m \in Trusted(Contracts(s)) : IsGroupBasket(m)} : \E event : row \in DetectGroupBasket(event, ms)
  BY DEF FindGroupBaskets
<1>2. PICK event : row \in DetectGroupBasket(event, ms)
  BY <1>1
<1> DEFINE series == (CHOOSE m \in ms : TRUE).series
           rule == SportOf(series).baskets[series]
           f == 100 * rule.yes_floor
           g == 100 * rule.no_floor
           cands == Direction("yes", ms, f) \cup Direction("no", ms, g)
           c == Widest(cands)
           best == 100 * (IF c.side = "yes" THEN rule.yes_ceiling_count ELSE rule.no_ceiling_count) - c.cost
<1>3. /\ cands # {}
      /\ row = Finding("group_basket", "EXECUTABLE_GROUP_BASKET", StrictBucket(c, ms),
                       <<"group_basket", event, "basket">>, c, ms, best)
  BY <1>2 DEF DetectGroupBasket
<1>4. ms # {}
  BY <1>3 DEF Direction
<1>5. series \in DOMAIN SportOf(series).baskets
  BY <1>4 DEF IsGroupBasket
<1>6. f \in Int /\ g \in Int
  BY <1>5, BasketFloors
<1>7. ms \in Books(s)
  BY TrustedBooks
<1>8. cands \in SUBSET (Direction("yes", ms, f) \cup Direction("no", ms, g))
  OBVIOUS
<1> HIDE DEF series, rule, f, g, best, cands, c
<1>9. row.legs = c.legs /\ row.gap = c.gap /\ row.floor = c.floor
  BY <1>3 DEF Finding
<1>10. QED BY <1>3, <1>6, <1>7, <1>8, <1>9, ChosenReal DEF c

\* Every book find_stage_elim_books reports.
LEMMA StageBooksReal ==
    ASSUME board \in Boards, NEW s \in Sports, NEW row \in FindStageElimBooks(Contracts(s))
    PROVE  Real(row)
<1>1. PICK event : row \in DetectStageBook(event, StageRows(Contracts(s), event))
  BY DEF FindStageElimBooks
<1> DEFINE ms == StageRows(Contracts(s), event)
           cands == Directions(ms)
           c == Widest(cands)
           id == <<"stage_elim_book", event, (CHOOSE m \in ms : TRUE).key>>
<1>2. ms \in Books(s)
  BY TrustedBooks DEF StageRows
<1>3. /\ cands # {}
      /\ row = Finding("stage_elim_book", "EXECUTABLE_STAGE_ELIM_BOOK", StrictBucket(c, ms), id, c, ms, c.gap)
  BY <1>1 DEF DetectStageBook, Firing
<1>4. cands \in SUBSET (Direction("yes", ms, 100) \cup Direction("no", ms, 100 * (Cardinality(ms) - 1)))
      /\ 100 * (Cardinality(ms) - 1) \in Int
  BY <1>2, BookFinite DEF Directions
<1> HIDE DEF cands, id, ms, c
<1>5. row.legs = c.legs /\ row.gap = c.gap /\ row.floor = c.floor
  BY <1>3 DEF Finding
<1>6. QED BY <1>2, <1>3, <1>4, <1>5, ChosenReal DEF c

-----------------------------------------------------------------------------
\* A cross is of the firm quotes of its two contracts, and there is one at most.
LEMMA CrossIs ==
    ASSUME NEW long, NEW short, NEW forward, NEW c \in Cross(long, short, forward)
    PROVE  /\ c.gap = FirmBid(short) - FirmAsk(long) /\ c.forward = forward
           /\ FirmAsk(long) # None /\ FirmBid(short) # None
           /\ \A d \in Cross(long, short, forward) : d = c
<1> DEFINE of(l, s) == [gap |-> FirmBid(s) - FirmAsk(l), forward |-> forward,
                        sized |-> Pos(s.bidSize) /\ Pos(l.askSize),
                        units |-> IF s.bidSize = None \/ l.askSize = None THEN None
                                  ELSE Min({s.bidSize, l.askSize})]
           longs == {m \in {long} : FirmAsk(m) # None}
           shorts == {m \in {short} : FirmBid(m) # None}
<1>1. Cross(long, short, forward) = {of(l, s) : l \in longs, s \in shorts}
  BY DEF Cross
<1>2. of(long, short).gap = FirmBid(short) - FirmAsk(long) /\ of(long, short).forward = forward
  OBVIOUS
<1>3. (\A l \in longs : l = long) /\ (\A s \in shorts : s = short)
  OBVIOUS
<1>4. (longs # {} => FirmAsk(long) # None) /\ (shorts # {} => FirmBid(short) # None)
  OBVIOUS
<1> HIDE DEF of, longs, shorts
<1>5. longs # {} /\ shorts # {} /\ \A d \in Cross(long, short, forward) : d = of(long, short)
  BY <1>1, <1>3
<1>6. QED BY <1>4, <1>2, <1>5

\* A firm quote is a whole number of cents.
LEMMA FirmCents ==
    ASSUME NEW c, Quoted(c)
    PROVE  /\ FirmBid(c) # None => ~c.subpenny /\ FirmBid(c) = c.bid /\ c.bid \in 0..100 /\ c.bid # None
           /\ FirmAsk(c) # None => ~c.subpenny /\ FirmAsk(c) = c.ask /\ c.ask \in 0..100 /\ c.ask # None
BY ExactQuotes DEF FirmBid, FirmAsk, FirmBook

\* The gap of a cross is a number.
LEMMA GapInt ==
    ASSUME NEW long, NEW short, Quoted(long), Quoted(short), NEW forward, NEW c \in Cross(long, short, forward)
    PROVE  c.gap \in Int /\ c.forward = forward
<1>1. c.gap = FirmBid(short) - FirmAsk(long) /\ c.forward = forward /\ FirmAsk(long) # None /\ FirmBid(short) # None
  BY CrossIs
<1>2. FirmBid(short) \in 0..100
  BY <1>1, FirmCents
<1>3. FirmAsk(long) \in 0..100
  BY <1>1, FirmCents
<1>4. QED BY <1>1, <1>2, <1>3

\* The candidate that is chosen is one of them, and its gap a number.
LEMMA BestIn ==
    ASSUME NEW child, NEW parent, Quoted(child), Quoted(parent), NEW equivalence,
           Candidates(child, parent, equivalence) # {}
    PROVE  LET best == Best(Candidates(child, parent, equivalence))
           IN best.gap \in Int /\ (best \in Cross(parent, child, TRUE) \/ best \in Cross(child, parent, FALSE))
<1> DEFINE cands == Candidates(child, parent, equivalence)
           ahead(c, d) == c.gap > d.gap \/ (c.gap = d.gap /\ (c.forward \/ ~d.forward))
<1>1. \A c \in cands : c \in Cross(parent, child, TRUE) \/ c \in Cross(child, parent, FALSE)
  BY DEF Candidates
<1>2. \A c \in Cross(parent, child, TRUE) : c.gap \in Int /\ c.forward = TRUE
  BY GapInt
<1>3. \A c \in Cross(child, parent, FALSE) : c.gap \in Int /\ c.forward = FALSE
  BY GapInt
<1>4. \A c, d \in Cross(parent, child, TRUE) : c = d
  BY CrossIs
<1>5. \A c, d \in Cross(child, parent, FALSE) : c = d
  BY CrossIs
<1> HIDE DEF cands
<1>6. \E c \in cands : \A d \in cands : ahead(c, d)
  <2>1. PICK x \in cands : TRUE
    BY DEF cands
  <2>2. CASE \A d \in cands : ahead(x, d)
    BY <2>2
  <2>3. CASE \E d \in cands : ~ahead(x, d)
    <3>1. PICK y \in cands : ~ahead(x, y)
      BY <2>3
    <3>2. \A d \in cands : d = x \/ d = y
      BY <1>1, <1>2, <1>3, <1>4, <1>5, <3>1
    <3>3. x.gap \in Int /\ y.gap \in Int /\ x.forward \in BOOLEAN /\ y.forward \in BOOLEAN
      BY <1>1, <1>2, <1>3
    <3>4. ahead(y, x) /\ ahead(y, y)
      BY <3>1, <3>3
    <3>5. QED BY <3>2, <3>4
  <2>4. QED BY <2>2, <2>3
<1>7. Best(cands) \in cands
  BY <1>6 DEF Best
<1>8. QED BY <1>1, <1>2, <1>3, <1>7 DEF cands

\* What a plan costs, as the sum of a function.
LEMMA PlanSum ==
    ASSUME NEW legs
    PROVE  MapThenSumSet(LAMBDA l : l.price, legs) = SumOf([l \in legs |-> l.price], legs)
BY DEF SumOf, MapThenSumSet, MapThenFoldSet

\* The two buys of a cross cost less than a dollar at the exchange.
LEMMA CrossPays ==
    ASSUME NEW long, NEW short, Quoted(long), Quoted(short),
           FirmAsk(long) # None, FirmBid(short) # None, FirmBid(short) - FirmAsk(long) > 0,
           NEW legs, legs = {[side |-> "yes", ticker |-> long.ticker, price |-> long.ask],
                             [side |-> "no", ticker |-> short.ticker, price |-> BuyNo(short)]}
    PROVE  PlanCost(legs) # None /\ MapThenSumSet(Charged, legs) < 1000
<1> DEFINE a == [side |-> "yes", ticker |-> long.ticker, price |-> long.ask]
           b == [side |-> "no", ticker |-> short.ticker, price |-> BuyNo(short)]
           f == [l \in legs |-> Charged(l)]
           p == [l \in legs |-> l.price]
<1>0. ~long.subpenny /\ ~short.subpenny
  BY FirmCents
<1>1. /\ long.ask # None /\ long.ask \in 0..100
      /\ short.bid \in 0..100 /\ short.bid # None /\ short.bid > long.ask
  <2>1. FirmAsk(long) = long.ask /\ long.ask \in 0..100 /\ long.ask # None
    BY FirmCents
  <2>2. FirmBid(short) = short.bid /\ short.bid \in 0..100 /\ short.bid # None
    BY FirmCents
  <2> DEFINE x == long.ask
             y == short.bid
  <2>3. y - x > 0 /\ x \in 0..100 /\ y \in 0..100
    BY ONLY <2>1, <2>2, FirmBid(short) - FirmAsk(long) > 0
  <2> HIDE DEF x, y
  <2>4. y > x
    BY ONLY <2>3
  <2>5. QED BY <2>1, <2>2, <2>4 DEF x, y
<1>2. BuyNo(short) # None
  BY <1>1 DEF BuyNo, None
<1>3. Charged(a) = 10 * long.ask
  BY <1>0, <1>1, YesCharged
<1>4. Charged(b) = 10 * BuyNo(short) /\ BuyNo(short) \in 0..100 /\ BuyNo(short) <= 100 - short.bid
  BY <1>0, <1>1, <1>2, NoCharged
<1>5. a.side = "yes" /\ b.side = "no" /\ a.price = long.ask /\ b.price = BuyNo(short)
  OBVIOUS
<1> HIDE DEF a, b
<1>6. a # b /\ legs = {a, b}
  BY <1>5 DEF a, b
<1>7. f[a] = 10 * long.ask /\ f[b] = 10 * BuyNo(short) /\ p[a] = long.ask /\ p[b] = BuyNo(short)
  BY <1>3, <1>4, <1>5, <1>6
<1>8. MapThenSumSet(Charged, legs) = SumOf(f, legs)
  BY TrueCostIs
<1>9. MapThenSumSet(LAMBDA l : l.price, legs) = SumOf(p, legs)
  BY PlanSum
<1> HIDE DEF f, p
<1>10. f[a] \in Nat /\ f[b] \in Nat /\ p[a] \in Nat /\ p[b] \in Nat
  BY <1>1, <1>4, <1>7
<1>11. SumOf(f, {a, b}) = f[a] + f[b] /\ SumOf(p, {a, b}) = p[a] + p[b]
  BY <1>6, <1>10, SumTwo
<1>12. SumOf(f, legs) = 10 * long.ask + 10 * BuyNo(short) /\ SumOf(p, legs) = long.ask + BuyNo(short)
  BY <1>6, <1>7, <1>11
<1>13. \A l \in legs : l.price # None
  <2>1. a.price # None /\ b.price # None
    BY <1>1, <1>2, <1>5
  <2>2. QED BY <1>6, <2>1
<1>14. SumOf(p, legs) # None
  <2> DEFINE x == long.ask
             y == BuyNo(short)
  <2>1. x \in 0..100 /\ y \in 0..100 /\ SumOf(p, legs) = x + y
    BY <1>1, <1>4, <1>12
  <2> HIDE DEF x, y
  <2>2. QED BY ONLY <2>1 DEF None
<1>15. PlanCost(legs) = MapThenSumSet(LAMBDA l : l.price, legs)
  BY <1>6, <1>13 DEF PlanCost
<1>16. 10 * long.ask + 10 * BuyNo(short) < 1000
  <2> DEFINE x == long.ask
             y == short.bid
             z == BuyNo(short)
  <2>1. x \in 0..100 /\ y \in 0..100 /\ z \in 0..100 /\ y > x /\ z <= 100 - y
    BY <1>1, <1>4
  <2> HIDE DEF x, y, z
  <2>2. 10 * x + 10 * z < 1000
    BY <2>1
  <2>3. QED BY <2>2 DEF x, z
<1>17. QED BY <1>8, <1>9, <1>12, <1>14, <1>15, <1>16

-----------------------------------------------------------------------------
\* A row that has no gap, or that is not offered for trading, promises nothing.
LEMMA NothingPromised == ASSUME NEW row, row.gap = NoGap \/ ~IsTradable(row.tradable) PROVE Real(row)
BY DEF Real, NoGap

\* A check that calls for a trade: its two buys are a cross.
LEMMA CheckReal ==
    ASSUME NEW child, NEW parent, Quoted(child), Quoted(parent),
           NEW rel, NEW childNode, NEW parentNode, NEW ladder, NEW budget
    PROVE  Real(Check(rel, child, parent, childNode, parentNode, ladder, budget))
<1> DEFINE row == Check(rel, child, parent, childNode, parentNode, ladder, budget)
           eq == rel = "match_alignment"
           status == StatusOf(child, parent, eq, budget)
           flag == RuleFlag(child, parent, eq, ladder.simultaneous)
           cands == Candidates(child, parent, eq)
           legs == IF status \in ActionStatuses THEN Plan(child, parent, eq) ELSE {}
           firm == status \in {"EXECUTABLE_VIOLATION", "RISK_BUDGET_CANDIDATE"}
<1>1. /\ row.legs = legs
      /\ row.floor = IF PlanCost(legs) = None THEN None ELSE 100
      /\ row.gap = IF firm THEN ExecutableGap(child, parent, eq) ELSE NoGap
  BY DEF Check
<1>2. firm => status \in ActionStatuses
  BY DEF ActionStatuses
<1>3. ExecutableGap(child, parent, eq) = IF cands = {} THEN NoGap ELSE Best(cands).gap
  BY DEF ExecutableGap
<1> HIDE DEF row, status
<1> SUFFICES ASSUME row.gap > 0 PROVE TrueCost(row) < 10 * row.floor
  BY DEF row, Real
<1>4. ~(NoGap > 0)
  BY DEF NoGap
<1>5. firm /\ cands # {} /\ Best(cands).gap > 0
  BY <1>1, <1>3, <1>4
<1>6. legs = Plan(child, parent, eq)
  BY <1>2, <1>5
<1> HIDE DEF legs, cands
<1>7. Best(cands) \in Cross(parent, child, TRUE) \/ Best(cands) \in Cross(child, parent, FALSE)
  BY <1>5, BestIn DEF cands
<1>8. PlanCost(legs) # None /\ MapThenSumSet(Charged, legs) < 1000
  <2>1. CASE Best(cands) \in Cross(parent, child, TRUE)
    <3>1. /\ Best(cands).forward = TRUE /\ FirmAsk(parent) # None /\ FirmBid(child) # None
          /\ FirmBid(child) - FirmAsk(parent) > 0
      BY <1>5, <2>1, CrossIs
    <3>2. legs = {[side |-> "yes", ticker |-> parent.ticker, price |-> parent.ask],
                  [side |-> "no", ticker |-> child.ticker, price |-> BuyNo(child)]}
      BY <1>6, <3>1 DEF Plan, cands
    <3>3. QED BY <3>1, <3>2, CrossPays
  <2>2. CASE Best(cands) \in Cross(child, parent, FALSE)
    <3>1. /\ Best(cands).forward = FALSE /\ FirmAsk(child) # None /\ FirmBid(parent) # None
          /\ FirmBid(parent) - FirmAsk(child) > 0
      BY <1>5, <2>2, CrossIs
    <3>2. legs = {[side |-> "yes", ticker |-> child.ticker, price |-> child.ask],
                  [side |-> "no", ticker |-> parent.ticker, price |-> BuyNo(parent)]}
      BY <1>5, <1>6, <3>1 DEF Plan, cands
    <3>3. QED BY <3>1, <3>2, CrossPays
  <2>3. QED BY <1>7, <2>1, <2>2
<1>9. TrueCost(row) = MapThenSumSet(Charged, legs)
  BY <1>1 DEF TrueCost
<1>10. row.floor = 100
  BY <1>1, <1>8
<1>11. QED BY <1>8, <1>9, <1>10

\* The contract that stands for a node is one of its contracts.
LEMMA RepresentativeAt ==
    ASSUME board \in Boards, NEW s \in Sports, NEW listed \in SUBSET Contracts(s), NEW node, NEW source,
           Has(listed, node, source)
    PROVE  Representative(listed, node, source) \in At(listed, node, source)
<1> DEFINE S == At(listed, node, source)
           R == {p \in S \X S : Before(p[1], p[2])}
           blank(m) == IF DisplayCents(m) = None THEN 1 ELSE 0
<1>1. S \in SUBSET listed /\ S # {}
  BY DEF At, Has
<1>2. IsFiniteSet(S)
  BY <1>1, ContractsFinite, FS_Subset
<1>3. \A m \in S : blank(m) \in Nat /\ m.vol \in Nat /\ m.ticker \in Nat
  BY <1>1, ContractNats
<1>4. \A a, b : Before(a, b) <=> \/ blank(a) < blank(b)
                                 \/ blank(a) = blank(b) /\ a.vol > b.vol
                                 \/ blank(a) = blank(b) /\ a.vol = b.vol /\ a.ticker <= b.ticker
  BY DEF Before
<1> HIDE DEF S, blank
<1>5. \A x, y \in S : Before(x, y) \/ Before(y, x)
  BY <1>3, <1>4
<1>6. \A x, y, z \in S : Before(x, y) /\ Before(y, z) => Before(x, z)
  BY <1>3, <1>4
<1>7. \A x, y \in S : <<x, y>> \in R <=> Before(x, y)
  OBVIOUS
<1> HIDE DEF R
<1>8. \E m \in S : \A x \in S : <<m, x>> \in R
  BY <1>1, <1>2, <1>5, <1>6, <1>7, HasFirst
<1>9. \E m \in S : \A x \in S : Before(m, x)
  BY <1>7, <1>8
<1>10. Representative(listed, node, source) \in S
  BY <1>9 DEF Representative, S
<1>11. QED BY <1>10 DEF S

\* The one that is picked is one of the contracts.
LEMMA RepresentativeIn ==
    ASSUME board \in Boards, NEW s \in Sports, NEW listed \in SUBSET Contracts(s), NEW node, NEW source,
           Has(listed, node, source)
    PROVE  Representative(listed, node, source) \in listed
BY RepresentativeAt DEF At

\* Every row of build_checks.
LEMMA ChecksReal ==
    ASSUME board \in Boards, NEW s \in Sports, NEW budget, NEW row \in BuildChecks(Contracts(s), budget)
    PROVE  Real(row)
<1>1. PICK g \in Groups(Contracts(s)) :
        LET rs == RowsOf(Contracts(s), g)
        IN \/ row \in Adjacent(rs, g[1], g[2], LadderOf(rs), budget)
           \/ row \in Transitive(rs, LadderOf(rs), budget)
           \/ row \in Alignments(rs, LadderOf(rs))
           \/ row \in Unmapped(rs, SportOf((CHOOSE m \in rs : TRUE).series))
  BY DEF BuildChecks
<1> DEFINE rs == RowsOf(Contracts(s), g)
           ladder == LadderOf(rs)
<1>2. rs \in SUBSET Contracts(s)
  BY DEF RowsOf
<1> HIDE DEF rs, ladder
<1>3. \A node, source : Has(rs, node, source) => Quoted(Representative(rs, node, source))
  BY <1>2, RepresentativeIn, ContractQuoted
<1>4. CASE row \in Adjacent(rs, g[1], g[2], ladder, budget)
  <2>1. CASE \E p \in ladder.adjacent :
               /\ Has(rs, p[1], "market") /\ Has(rs, p[2], "market")
               /\ row = Check("containment_adjacent", Representative(rs, p[1], "market"),
                              Representative(rs, p[2], "market"), p[1], p[2], ladder, budget)
    BY <1>3, <2>1, CheckReal
  <2>2. CASE \E id : row = Unchecked("MISSING_LAYER", "containment_adjacent", id, None)
    BY <2>2, NothingPromised DEF Unchecked
  <2>3. QED BY <1>4, <2>1, <2>2 DEF Adjacent
<1>5. CASE row \in Transitive(rs, ladder, budget)
  <2>1. PICK p : /\ Has(rs, ladder.order[p[1]], "market") /\ Has(rs, ladder.order[p[2]], "market")
                 /\ row = Check("containment_transitive", Representative(rs, ladder.order[p[2]], "market"),
                                Representative(rs, ladder.order[p[1]], "market"),
                                ladder.order[p[2]], ladder.order[p[1]], ladder, budget)
    BY <1>5 DEF Transitive
  <2>2. QED BY <1>3, <2>1, CheckReal
<1>6. CASE row \in Alignments(rs, ladder)
  <2>1. PICK n : /\ Has(rs, n, "match") /\ Has(rs, n, "market")
                 /\ row = Check("match_alignment", Representative(rs, n, "match"),
                                Representative(rs, n, "market"), n, n, ladder, 0)
    BY <1>6 DEF Alignments
  <2>2. QED BY <1>3, <2>1, CheckReal
<1>7. CASE row \in Unmapped(rs, SportOf((CHOOSE m \in rs : TRUE).series))
  <2>1. PICK id, market : row = Unchecked("UNKNOWN_RELATIONSHIP", "match_alignment", id, market)
    BY <1>7 DEF Unmapped
  <2>2. QED BY <2>1, NothingPromised DEF Unchecked
<1>8. QED BY <1>1, <1>4, <1>5, <1>6, <1>7 DEF rs, ladder

-----------------------------------------------------------------------------
\* What is shown only is not offered for trading.
LEMMA ShownIs ==
    ASSUME NEW check, NEW status, NEW bucket, NEW tradable, NEW id, NEW legs, NEW cost, NEW floor, NEW worst, NEW best
    PROVE  LET row == Shown(check, status, bucket, tradable, id, legs, cost, floor, worst, best)
           IN row.gap = NoGap /\ row.tradable = tradable /\ WithoutCost(row).gap = NoGap
BY DEF Shown, WithoutCost

\* So it promises nothing, with its cost or without it.
LEMMA ShownReal ==
    ASSUME NEW check, NEW status, NEW bucket, NEW tradable, NEW id, NEW legs, NEW cost, NEW floor, NEW worst, NEW best
    PROVE  LET row == Shown(check, status, bucket, tradable, id, legs, cost, floor, worst, best)
           IN Real(row) /\ Real(WithoutCost(row))
BY ShownIs, NothingPromised

\* Nor does it when fields are added that are not its gap.
LEMMA ShownWithReal ==
    ASSUME NEW check, NEW status, NEW bucket, NEW tradable, NEW id, NEW legs, NEW cost, NEW floor, NEW worst, NEW best,
           NEW more, "gap" \notin DOMAIN more
    PROVE  Real(With(Shown(check, status, bucket, tradable, id, legs, cost, floor, worst, best), more))
<1> DEFINE row == Shown(check, status, bucket, tradable, id, legs, cost, floor, worst, best)
<1>1. "gap" \in DOMAIN row /\ row.gap = NoGap
  BY DEF Shown
<1> HIDE DEF row
<1>2. With(row, more).gap = NoGap
  BY <1>1 DEF With
<1>3. QED BY <1>2, NothingPromised DEF row

\* A replication is a row to review.
LEMMA ReviewReal ==
    ASSUME NEW check, NEW status, NEW id, NEW c, NEW ms, NEW bounded
    PROVE  Real(Review(check, status, id, c, ms, bounded))
<1>1. ~IsTradable(Review(check, status, id, c, ms, bounded).tradable)
  BY DEF Review, Finding, IsTradable
<1>2. QED BY <1>1, NothingPromised

\* Every row of find_synthetic_bundles and find_stage_elim_synthetics.
LEMMA SyntheticReal ==
    ASSUME NEW contracts,
           NEW row \in FindSyntheticBundles(contracts) \cup FindStageElimSynthetics(contracts)
    PROVE  Real(row)
<1>1. \A event, key, ms, hedge, kind : row \in DetectPlayerBundle(event, key, ms, hedge, kind) => Real(row)
  <2> SUFFICES ASSUME NEW event, NEW key, NEW ms, NEW hedge, NEW kind,
                      row \in DetectPlayerBundle(event, key, ms, hedge, kind)
               PROVE  Real(row)
    OBVIOUS
  <2>1. \E id, c, legs : row = Review("synthetic_bundle", "EXECUTABLE_SYNTHETIC_BUNDLE", id, c, legs, FALSE)
    BY DEF DetectPlayerBundle
  <2>2. QED BY <2>1, ReviewReal
<1>2. \A event, team, ms, node, hedge : row \in DetectStageSynthetic(event, team, ms, node, hedge) => Real(row)
  BY ReviewReal DEF DetectStageSynthetic
<1>3. CASE row \in FindSyntheticBundles(contracts)
  <2> DEFINE scores == {m \in contracts : m.kind = "exact_score"}
             of(g) == {m \in scores : m.event = g[1] /\ m.key = g[2]}
             advances(g) == AdvanceHedge({m \in contracts : m.tour = (CHOOSE n \in of(g) : TRUE).tour},
                                         g[2], Implied(of(g)))
             matched(g) == UNION {DetectPlayerBundle(g[1], g[2], of(g), h, "match") : h \in MatchHedge(contracts, g[2])}
             advanced(g) == UNION {DetectPlayerBundle(g[1], g[2], of(g), h, "advance") : h \in advances(g)}
  <2>1. FindSyntheticBundles(contracts) = UNION {matched(g) \cup advanced(g) : g \in {<<m.event, m.key>> : m \in scores}}
    BY DEF FindSyntheticBundles
  <2>2. \A g : row \in matched(g) \cup advanced(g) => Real(row)
    <3> HIDE DEF of, advances
    <3>1. QED BY <1>1
  <2> HIDE DEF scores, matched, advanced
  <2>3. QED BY <1>3, <2>1, <2>2
<1>4. CASE row \in FindStageElimSynthetics(contracts)
  <2>1. \E event, team, ms, node, hedge : row \in DetectStageSynthetic(event, team, ms, node, hedge)
    BY <1>4 DEF FindStageElimSynthetics
  <2>2. QED BY <1>2, <2>1
<1>5. QED BY <1>3, <1>4

\* Every row of find_exact_order_premiums, whose unified row shows no cost.
LEMMA PremiumsReal ==
    ASSUME NEW contracts, NEW r \in FindExactOrderPremiums(contracts)
    PROVE  Real(WithoutCost(r))
<1>1. \E event, ms : r \in DetectGroup(contracts, event, ms)
  BY DEF FindExactOrderPremiums
<1>2. \E event, top, q : r = TopTwoBundle(event, top, q)
  BY <1>1 DEF DetectGroup
<1>3. QED BY <1>2, ShownReal DEF TopTwoBundle

\* Every row of find_game_support_signals.
LEMMA SignalsReal ==
    ASSUME NEW contracts, NEW row \in FindGameSupportSignals(contracts)
    PROVE  Real(row)
<1> DEFINE games == {m \in Games(contracts) : ValidGame({n \in Games(contracts) : n.event = m.event})}
           teams == {m.id : m \in {x \in games : ~x.tie}} \ {""}
           qualifier(id) == LastOf({m \in contracts : m.series = "KXWCGROUPQUAL" /\ m.id = id})
           wins(t) == {m \in games : m.id = t /\ ~m.tie}
           of(t) == {Signal(games, wins(t), q) : q \in qualifier(t)}
<1>1. FindGameSupportSignals(contracts) = UNION {UNION of(t) : t \in teams}
  BY DEF FindGameSupportSignals
<1> HIDE DEF games, teams, qualifier, wins
<1>2. PICK t, q : row \in Signal(games, wins(t), q)
  BY <1>1
<1> DEFINE info == {[side |-> "info", ticker |-> m.ticker, price |-> 3 * m.ask + TieOf(games, m).ask] : m \in wins(t)}
<1>3. row = Shown("game_support", "GAME_SUPPORT_SIGNAL", "qualifier_setup", "Diagnostic only",
                  <<"game_support", q.id>>, info, None, None, NoGap, NoGap)
  BY <1>2 DEF Signal
<1> HIDE DEF info
<1>4. QED BY <1>3, ShownReal

\* Every row of find_no_structures.
LEMMA StructuresReal ==
    ASSUME NEW contracts, NEW row \in FindNoStructures(contracts)
    PROVE  Real(row)
<1>1. CASE row \in Bands(contracts)
  <2>1. \E child, parent, p, g : row = Band(child, parent, p, g)
    BY <1>1 DEF Bands
  <2>2. QED BY <2>1, ShownWithReal DEF Band
<1>2. CASE row \in Outrights(contracts)
  <2>1. PICK m : row = With(Shown("no_structure", "NO_STRUCTURE_OUTRIGHT", "no_structure", "Speculative",
                                  <<"no_structure_outright", m.ticker>>,
                                  {[side |-> "no", ticker |-> m.ticker, price |-> BuyNo(m)]},
                                  BuyNo(m), None, -BuyNo(m), 100 - BuyNo(m)),
                            [scope |-> ScopeOf(m)])
    BY <1>2 DEF Outrights
  <2>2. "gap" \notin DOMAIN [scope |-> ScopeOf(m)]
    OBVIOUS
  <2> DEFINE legs == {[side |-> "no", ticker |-> m.ticker, price |-> BuyNo(m)]}
             id == <<"no_structure_outright", m.ticker>>
             more == [scope |-> ScopeOf(m)]
             worst == -BuyNo(m)
             best == 100 - BuyNo(m)
  <2>3. row = With(Shown("no_structure", "NO_STRUCTURE_OUTRIGHT", "no_structure", "Speculative",
                         id, legs, BuyNo(m), None, worst, best), more) /\ "gap" \notin DOMAIN more
    BY <2>1, <2>2
  <2> HIDE DEF legs, id, more, worst, best
  <2>4. QED BY <2>3, ShownWithReal
<1>3. QED BY <1>1, <1>2 DEF FindNoStructures

\* Every row of find_conditional_blends.
LEMMA BlendsReal ==
    ASSUME NEW contracts, NEW row \in FindConditionalBlends(contracts)
    PROVE  Real(row)
<1> DEFINE known == {m \in contracts : Recognised(m)}
           of(t) == {m \in known : m.tour = t}
           pairs(t) == {q \in LadderOf(of(t)).adjacent :
                          /\ q[1] \in Range(LadderOf(of(t)).order) /\ q[2] \in Range(LadderOf(of(t)).order)
                          /\ SurvivorsOf(SportOf((CHOOSE m \in of(t) : TRUE).series), q[2]) = 2}
<1>1. FindConditionalBlends(contracts) = UNION {UNION {Blend(t, of(t), p) : p \in pairs(t)} : t \in {m.tour : m \in known}}
  BY DEF FindConditionalBlends
<1> HIDE DEF known, of, pairs
<1>2. PICK t, p : row \in Blend(t, of(t), p)
  BY <1>1
<1>3. \E id, legs, cost : row = Shown("conditional_blend", "MODEL_BLEND_CANDIDATE", "speculative_model",
                                      "Speculative - model validation only", id, legs, cost, None, NoGap, NoGap)
  BY <1>2 DEF Blend
<1>4. QED BY <1>3, ShownReal

\* Every row of find_payoff_boxes.
LEMMA BoxesReal ==
    ASSUME NEW contracts, NEW row \in FindPayoffBoxes(contracts)
    PROVE  Real(row)
<1>1. \E broad, deep : row = Box(broad, deep)
  BY DEF FindPayoffBoxes
<1>2. PICK broad, deep : row = Box(broad, deep)
  BY <1>1
<1> DEFINE legs == {[side |-> "yes", ticker |-> broad.ticker, price |-> FirmYesAsk(broad)],
                    [side |-> "no", ticker |-> deep.ticker, price |-> FirmNoAsk(deep)]}
           r == EvaluatePayoff(legs, {0 + 100, 100 + 100, 100 + 0}, TRUE)
           profit(p) == IF r.cost = None THEN NoGap ELSE p - r.cost
           id == <<"payoff_state", broad.event, broad.strike[1], broad.strike[2], deep.strike[2]>>
           worst == profit(r.worst)
           best == profit(r.best)
           more == [classification |-> r.classification, authoritative |-> r.authoritative]
<1>3. "gap" \notin DOMAIN more
  OBVIOUS
<1>4. row = With(Shown("payoff_state", "PAYOFF_STATE_DIAGNOSTIC", "payoff_state", "No - diagnostic only",
                       id, legs, r.cost, r.worst, worst, best), more)
  BY <1>2 DEF Box
<1> HIDE DEF legs, r, profit, id, worst, best, more
<1>5. QED BY <1>3, <1>4, ShownWithReal

\* Whatever the detectors find in the contracts of a sport.
LEMMA DetectedReal ==
    ASSUME board \in Boards, NEW s \in Sports, NEW row \in Detected(Contracts(s))
    PROVE  Real(row)
<1> DEFINE cs == Contracts(s)
<1>1. \/ row \in BuildChecks(cs, RiskBudget) \/ row \in FindDutchBooks(cs, NearMissOver)
      \/ row \in FindGroupBaskets(cs) \/ row \in FindSyntheticBundles(cs)
      \/ \E r \in FindExactOrderPremiums(cs) : row = WithoutCost(r)
      \/ row \in FindGameSupportSignals(cs) \/ row \in FindStageElimBooks(cs)
      \/ row \in FindStageElimSynthetics(cs) \/ row \in FindNoStructures(cs)
      \/ row \in FindConditionalBlends(cs) \/ row \in FindPayoffBoxes(cs)
  BY DEF Detected
<1>2. row \in BuildChecks(cs, RiskBudget) => Real(row)
  BY ChecksReal
<1>3. row \in FindDutchBooks(cs, NearMissOver) => Real(row)
  BY DutchBooksReal
<1>4. row \in FindGroupBaskets(cs) => Real(row)
  BY BasketsReal
<1>5. row \in FindStageElimBooks(cs) => Real(row)
  BY StageBooksReal
<1>6. row \in FindSyntheticBundles(cs) \cup FindStageElimSynthetics(cs) => Real(row)
  BY SyntheticReal
<1> HIDE DEF cs
<1>7. QED BY <1>1, <1>2, <1>3, <1>4, <1>5, <1>6, PremiumsReal, SignalsReal, StructuresReal, BlendsReal, BoxesReal

\* An edge that is offered for trading is there at the prices the exchange charges, however the
\* market is quoted.
THEOREM EdgeIsRealHolds == Spec => []EdgeIsReal
<1>1. ScanInv => EdgeIsReal
  <2> SUFFICES ASSUME ScanInv, NEW r \in rows PROVE Real(r.row)
    BY DEF EdgeIsReal, Found, Real
  <2>1. board \in Boards /\ r.sport \in Sports /\ r \in RowsFor(r.sport)
    BY DEF ScanInv, Accounted, FoundThere
  <2>2. r.row \in Detected(Contracts(r.sport))
    BY <2>1 DEF RowsFor, Contracts
  <2>3. QED BY <2>1, <2>2, DetectedReal
<1>2. QED BY <1>1, ScanInvariance, PTL

-----------------------------------------------------------------------------
\* Every rung of a ladder has a name, none is listed twice, and it pairs a deeper node with a
\* broader one.
Apart(order) ==
    /\ DOMAIN order \subseteq Nat
    /\ \A i, j \in DOMAIN order : order[i] # NoNode /\ (order[i] = order[j] => i = j)
GoodPair(p) == p = <<p[1], p[2]>> /\ p[1] # p[2] /\ NoNode \notin {p[1], p[2]}
Nodes == {"Reach Semifinal", "Reach Final", "Win Tournament", "Reach Playoffs", "Win Conference",
          "Win Championship", "Win League", "Win World Series", "Win Super Bowl", "Reach Semifinals",
          "Reach Finals", "Top 20", "Top 10", "Top 5", "Top 3", "Podium", "Win Race", "Win group",
          "Reach Round of 32", "Reach Round of 16", "Reach Quarterfinals", "Win the World Cup"}
GoodLadder(ladder) == Apart(ladder.order) /\ \A p \in ladder.adjacent : GoodPair(p)

\* What the ladders call their rungs.
LEMMA NodesNamed == NoNode \notin Nodes
BY DEF NoNode, Nodes

\* The neighbours on a ladder of names that are listed apart.
LEMMA LadderGood ==
    ASSUME NEW order, Apart(order), Len(order) \in Nat, DOMAIN order = 1..Len(order)
    PROVE  GoodLadder(Ladder(order)) /\ GoodLadder(MotorLadder(order))
<1>1. \A i \in 1..Len(order) - 1 : order[i + 1] # order[i] /\ NoNode \notin {order[i + 1], order[i]}
  <2> SUFFICES ASSUME NEW i \in 1..Len(order) - 1
               PROVE  order[i + 1] # order[i] /\ NoNode \notin {order[i + 1], order[i]}
    OBVIOUS
  <2>1. i \in DOMAIN order /\ i + 1 \in DOMAIN order /\ i # i + 1
    OBVIOUS
  <2>2. QED BY <2>1 DEF Apart
<1>2. \A p \in Ladder(order).adjacent : \E i \in 1..Len(order) - 1 : p = <<order[i + 1], order[i]>>
  BY DEF Ladder
<1>3. ASSUME NEW p \in Ladder(order).adjacent PROVE GoodPair(p)
  <2>1. PICK i \in 1..Len(order) - 1 : p = <<order[i + 1], order[i]>>
    BY <1>2
  <2>2. p = <<p[1], p[2]>> /\ p[1] = order[i + 1] /\ p[2] = order[i]
    BY <2>1
  <2>3. QED BY <1>1, <2>2 DEF GoodPair
<1>4. /\ Ladder(order).order = order /\ MotorLadder(order).order = order
      /\ MotorLadder(order).adjacent = Ladder(order).adjacent
  BY DEF Ladder, MotorLadder
<1>5. QED BY <1>3, <1>4 DEF GoodLadder

\* The ladders of three, four, five and six names.
LEMMA LadderThree ==
    \A a, b, c : NoNode \notin {a, b, c} /\ a \notin {b, c} /\ b # c
                 => GoodLadder(Ladder(<<a, b, c>>)) /\ GoodLadder(MotorLadder(<<a, b, c>>))
<1> SUFFICES ASSUME NEW a, NEW b, NEW c, NoNode \notin {a, b, c}, a \notin {b, c}, b # c
             PROVE  GoodLadder(Ladder(<<a, b, c>>)) /\ GoodLadder(MotorLadder(<<a, b, c>>))
  OBVIOUS
<1> DEFINE order == <<a, b, c>>
<1>1. Apart(order) /\ Len(order) = 3 /\ DOMAIN order = 1..3
  <2>1. Len(order) = 3 /\ DOMAIN order = 1..3
    OBVIOUS
  <2>2. \A i, j \in 1..3 : order[i] # NoNode /\ (order[i] = order[j] => i = j)
    OBVIOUS
  <2>3. QED BY <2>1, <2>2 DEF Apart
<1> HIDE DEF order
<1>2. GoodLadder(Ladder(order)) /\ GoodLadder(MotorLadder(order))
  BY <1>1, LadderGood
<1>3. QED BY <1>2 DEF order

\* Ladders of four stages.
LEMMA LadderFour ==
    \A a, b, c, d : NoNode \notin {a, b, c, d} /\ a \notin {b, c, d} /\ b \notin {c, d} /\ c # d
                    => GoodLadder(Ladder(<<a, b, c, d>>)) /\ GoodLadder(MotorLadder(<<a, b, c, d>>))
<1> SUFFICES ASSUME NEW a, NEW b, NEW c, NEW d, NoNode \notin {a, b, c, d}, a \notin {b, c, d}, b \notin {c, d}, c # d
             PROVE  GoodLadder(Ladder(<<a, b, c, d>>)) /\ GoodLadder(MotorLadder(<<a, b, c, d>>))
  OBVIOUS
<1> DEFINE order == <<a, b, c, d>>
<1>1. Apart(order) /\ Len(order) = 4 /\ DOMAIN order = 1..4
  <2>1. Len(order) = 4 /\ DOMAIN order = 1..4
    OBVIOUS
  <2>2. \A i, j \in 1..4 : order[i] # NoNode /\ (order[i] = order[j] => i = j)
    OBVIOUS
  <2>3. QED BY <2>1, <2>2 DEF Apart
<1> HIDE DEF order
<1>2. GoodLadder(Ladder(order)) /\ GoodLadder(MotorLadder(order))
  BY <1>1, LadderGood
<1>3. QED BY <1>2 DEF order

\* The ladders of five finishes.
LEMMA LadderFive ==
    \A a, b, c, d, e : NoNode \notin {a, b, c, d, e} /\ a \notin {b, c, d, e} /\ b \notin {c, d, e} /\ c \notin {d, e} /\ d # e
                       => GoodLadder(MotorLadder(<<a, b, c, d, e>>))
<1> SUFFICES ASSUME NEW a, NEW b, NEW c, NEW d, NEW e, NoNode \notin {a, b, c, d, e},
                    a \notin {b, c, d, e}, b \notin {c, d, e}, c \notin {d, e}, d # e
             PROVE  GoodLadder(MotorLadder(<<a, b, c, d, e>>))
  OBVIOUS
<1> DEFINE order == <<a, b, c, d, e>>
<1>1. Apart(order) /\ Len(order) = 5 /\ DOMAIN order = 1..5
  <2>1. Len(order) = 5 /\ DOMAIN order = 1..5
    OBVIOUS
  <2>2. \A i, j \in 1..5 : order[i] # NoNode /\ (order[i] = order[j] => i = j)
    OBVIOUS
  <2>3. QED BY <2>1, <2>2 DEF Apart
<1> HIDE DEF order
<1>2. GoodLadder(MotorLadder(order))
  BY <1>1, LadderGood
<1>3. QED BY <1>2 DEF order

\* Ladders of six stages.
LEMMA LadderSix ==
    \A a, b, c, d, e, f :
       /\ NoNode \notin {a, b, c, d, e, f} /\ a \notin {b, c, d, e, f} /\ b \notin {c, d, e, f}
       /\ c \notin {d, e, f} /\ d \notin {e, f} /\ e # f
       => GoodLadder(Ladder(<<a, b, c, d, e, f>>))
<1> SUFFICES ASSUME NEW a, NEW b, NEW c, NEW d, NEW e, NEW f, NoNode \notin {a, b, c, d, e, f},
                    a \notin {b, c, d, e, f}, b \notin {c, d, e, f}, c \notin {d, e, f}, d \notin {e, f}, e # f
             PROVE  GoodLadder(Ladder(<<a, b, c, d, e, f>>))
  OBVIOUS
<1> DEFINE order == <<a, b, c, d, e, f>>
<1>1. Apart(order) /\ Len(order) = 6 /\ DOMAIN order = 1..6
  <2>1. Len(order) = 6 /\ DOMAIN order = 1..6
    OBVIOUS
  <2>2. \A i, j \in 1..6 : order[i] # NoNode /\ (order[i] = order[j] => i = j)
    OBVIOUS
  <2>3. QED BY <2>1, <2>2 DEF Apart
<1> HIDE DEF order
<1>2. GoodLadder(Ladder(order))
  BY <1>1, LadderGood
<1>3. QED BY <1>2 DEF order

\* Every ladder of every sport is such a one.
LEMMA LaddersGood == \A series, competition : GoodLadder(LadderFor(SportOf(series), competition))
<1> SUFFICES ASSUME NEW series, NEW competition PROVE GoodLadder(LadderFor(SportOf(series), competition))
  OBVIOUS
<1>1. GoodLadder(NoLadder)
  <2> DEFINE order == <<>>
  <2>1. Apart(order) /\ Len(order) \in Nat /\ DOMAIN order = 1..Len(order)
    BY DEF Apart
  <2> HIDE DEF order
  <2>2. GoodLadder(Ladder(order))
    BY <2>1, LadderGood
  <2>3. QED BY <2>2 DEF order, NoLadder
<1>2. GoodLadder(Tennis.ladder)
  <2>1. Tennis.ladder = Ladder(<<"Reach Semifinal", "Reach Final", "Win Tournament">>)
    BY DEF Tennis
  <2>2. QED BY <2>1, LadderThree, NodesNamed DEF Nodes
<1>3. GoodLadder(Nba.ladder) /\ GoodLadder(Mlb.ladder) /\ GoodLadder(Nhl.ladder) /\ GoodLadder(Nfl.ladder)
  <2>1. /\ Nba.ladder = Ladder(<<"Reach Playoffs", "Win Conference", "Win Championship">>)
        /\ Mlb.ladder = Ladder(<<"Reach Playoffs", "Win League", "Win World Series">>)
    BY DEF Nba, Mlb, Titles
  <2>2. /\ Nhl.ladder = Ladder(<<"Reach Playoffs", "Win Conference", "Win Championship">>)
        /\ Nfl.ladder = Ladder(<<"Reach Playoffs", "Win Conference", "Win Super Bowl">>)
    BY DEF Nhl, Nfl, Titles
  <2>3. QED BY <2>1, <2>2, LadderThree, NodesNamed DEF Nodes
<1>4. GoodLadder(Wnba.ladder)
  <2>1. Wnba.ladder = Ladder(<<"Reach Playoffs", "Reach Semifinals", "Reach Finals", "Win Championship">>)
    BY DEF Wnba
  <2>2. QED BY <2>1, LadderFour, NodesNamed DEF Nodes
<1>5. GoodLadder(Golf.ladder)
  <2>1. Golf.ladder = MotorLadder(<<"Top 20", "Top 10", "Top 5", "Win Tournament">>)
    BY DEF Golf, MotorLadder
  <2>2. QED BY <2>1, LadderFour, NodesNamed DEF Nodes
<1>6. GoodLadder(Soccer.ladder)
  <2> DEFINE order == <<"Reach Round of 32", "Reach Round of 16", "Reach Quarterfinals",
                        "Reach Semifinals", "Reach Finals", "Win the World Cup">>
  <2>1. GoodLadder(Ladder(order))
    BY LadderSix, NodesNamed DEF Nodes
  <2>2. /\ SoccerLadder.order = Ladder(order).order
        /\ SoccerLadder.adjacent = Ladder(order).adjacent \cup {<<"Win group", "Reach Round of 32">>}
    BY DEF SoccerLadder, Ladder
  <2> HIDE DEF order
  <2>3. GoodLadder(SoccerLadder)
    <3> DEFINE p == <<"Win group", "Reach Round of 32">>
    <3>1. GoodPair(p)
      BY NodesNamed DEF GoodPair, Nodes
    <3> HIDE DEF p
    <3>2. \A q \in SoccerLadder.adjacent : GoodPair(q)
      <4>1. SoccerLadder.adjacent = Ladder(order).adjacent \cup {p}
        BY <2>2 DEF p
      <4>2. QED BY <2>1, <3>1, <4>1 DEF GoodLadder
    <3>3. QED BY <2>1, <2>2, <3>2 DEF GoodLadder, Apart
  <2>4. Soccer.ladder = SoccerLadder
    BY DEF Soccer
  <2>5. QED BY <2>3, <2>4
<1>7. GoodLadder(Motorsport.ladder) /\ GoodLadder(Esports.ladder) /\ GoodLadder(Unknown.ladder)
  <2>1. Motorsport.ladder = NoLadder
    BY DEF Motorsport, Default
  <2>2. Esports.ladder = NoLadder /\ Unknown.ladder = NoLadder
    BY DEF Esports, Unknown, Default
  <2>3. QED BY <1>1, <2>1, <2>2
<1>8. GoodLadder(SportOf(series).ladder)
  BY <1>2, <1>3, <1>4, <1>5, <1>6, <1>7, SportIs DEF Sportses
<1>9. \A c \in DOMAIN MotorLadders : GoodLadder(MotorLadders[c])
  <2>1. GoodLadder(MotorLadder(<<"Top 10", "Top 5", "Podium", "Win Race">>))
    BY LadderFour, NodesNamed DEF Nodes
  <2>2. GoodLadder(MotorLadder(<<"Top 20", "Top 10", "Top 5", "Top 3", "Win Race">>))
    BY LadderFive, NodesNamed DEF Nodes
  <2>3. GoodLadder(MotorLadder(<<"Top 10", "Top 3", "Win Race">>))
    BY LadderThree, NodesNamed DEF Nodes
  <2> DEFINE f1 == MotorLadder(<<"Top 10", "Top 5", "Podium", "Win Race">>)
             cup == MotorLadder(<<"Top 20", "Top 10", "Top 5", "Top 3", "Win Race">>)
             rest == MotorLadder(<<"Top 10", "Top 3", "Win Race">>)
  <2>4. \A c \in DOMAIN MotorLadders : MotorLadders[c] \in {f1, cup, rest}
    BY DEF MotorLadders
  <2> HIDE DEF f1, cup, rest
  <2>5. GoodLadder(f1) /\ GoodLadder(cup) /\ GoodLadder(rest)
    BY <2>1, <2>2, <2>3 DEF f1, cup, rest
  <2>6. QED BY <2>4, <2>5
<1>10. QED BY <1>1, <1>8, <1>9 DEF LadderFor

\* The contract of a market says of which event it is.
LEMMA ContractEvent ==
    ASSUME NEW e, NEW m
    PROVE  LET c == Contract(e, m)
           IN /\ c.event = e.ticker /\ c.series = e.series /\ c.tour = Tour(e)
              /\ c.kind = FamilyOf(SportOf(e.series), e.series)
BY DEF Contract, With, Tour

\* Contracts of one event are of one sport, one series and so of one kind, those of one
\* tournament of one sport, and those of one ticker are one.
LEMMA ContractsTold ==
    ASSUME board \in Boards, NEW s \in Sports, NEW t \in Sports, NEW c \in Contracts(s), NEW d \in Contracts(t)
    PROVE  /\ c.event = d.event => s = t /\ c.series = d.series /\ c.kind = d.kind /\ c.tour = d.tour
           /\ SportOf(c.series).id = s
           /\ c.series = d.series => s = t
           /\ c.tour = d.tour => s = t
           /\ c.ticker = d.ticker => s = t /\ c = d
<1> DEFINE events == UNION {board.events[u] : u \in DOMAIN board.events}
<1>1. PICK e \in board.events[s] : \E m \in e.markets : c = Contract(e, m)
  BY ContractIs
<1>2. PICK m \in e.markets : c = Contract(e, m)
  BY <1>1
<1>3. PICK f \in board.events[t] : \E m1 \in f.markets : d = Contract(f, m1)
  BY ContractIs
<1>4. PICK n \in f.markets : d = Contract(f, n)
  BY <1>3
<1>5. e \in events /\ f \in events
  BY DEF Sports
<1>6. /\ e.ticker = f.ticker => e = f
      /\ m.ticker = n.ticker => e = f /\ m = n
      /\ {"ticker", "vol"} \subseteq DOMAIN m /\ {"ticker", "vol"} \subseteq DOMAIN n
      /\ SportOf(e.series).id = s /\ SportOf(f.series).id = t
      /\ Tour(e) = Tour(f) => s = t
  <2>1. /\ \A x, y \in events : x.ticker = y.ticker => x = y
    BY BoardListed DEF Listing, Sports
  <2>2. /\ \A x, y \in events : \A k \in x.markets, l \in y.markets : k.ticker = l.ticker => x = y /\ k = l
        /\ \A x \in events : \A k \in x.markets : {"ticker", "vol"} \subseteq DOMAIN k
    <3>1. \A x, y \in events : \A k \in x.markets, l \in y.markets : k.ticker = l.ticker => x = y /\ k = l
      BY BoardListed DEF Listing, Sports
    <3>2. \A x \in events : \A k \in x.markets : {"ticker", "vol"} \subseteq DOMAIN k
      BY BoardListed DEF Listing, Sports
    <3>3. QED BY <3>1, <3>2
  <2>3. /\ \A u \in Sports : \A x \in board.events[u] : SportOf(x.series).id = u
        /\ \A u, v \in Sports : \A x \in board.events[u], y \in board.events[v] : Tour(x) = Tour(y) => u = v
    BY BoardListed DEF Listing, Sports
  <2> HIDE DEF events
  <2>4. QED BY <2>1, <2>2, <2>3, <1>1, <1>2, <1>3, <1>4, <1>5
<1>7. /\ c.event = e.ticker /\ c.series = e.series /\ c.tour = Tour(e)
      /\ c.kind = FamilyOf(SportOf(e.series), e.series)
      /\ d.event = f.ticker /\ d.series = f.series /\ d.tour = Tour(f)
      /\ d.kind = FamilyOf(SportOf(f.series), f.series)
  BY <1>2, <1>4, ContractEvent
<1>8. c.ticker = m.ticker /\ d.ticker = n.ticker
  BY <1>2, <1>4, <1>6, ContractFields
<1> HIDE DEF events
<1>9. QED BY <1>2, <1>4, <1>6, <1>7, <1>8

\* No two sports have one name, so the markets of one sport share its configuration.
LEMMA OneConfig == \A x, y \in Sportses : x.id = y.id => x = y
<1>1. Tennis.id = "tennis" BY DEF Tennis, Default
<1>2. Nba.id = "nba" BY DEF Nba, Default
<1>3. Wnba.id = "wnba" BY DEF Wnba, Default
<1>4. Golf.id = "golf" BY DEF Golf, Default
<1>5. Soccer.id = "soccer" BY DEF Soccer, Default
<1>6. Mlb.id = "mlb" BY DEF Mlb, Default
<1>7. Nhl.id = "nhl" BY DEF Nhl, Default
<1>8. Nfl.id = "nfl" BY DEF Nfl, Default
<1>9. Motorsport.id = "motorsport" BY DEF Motorsport, Default
<1>10. Esports.id = "esports" BY DEF Esports, Default
<1>11. Unknown.id = "unknown" BY DEF Unknown, Default
<1>12. QED BY <1>1, <1>2, <1>3, <1>4, <1>5, <1>6, <1>7, <1>8, <1>9, <1>10, <1>11 DEF Sportses

LEMMA SameConfig ==
    ASSUME board \in Boards, NEW s \in Sports, NEW c \in Contracts(s), NEW d \in Contracts(s)
    PROVE  SportOf(c.series) = SportOf(d.series)
BY ContractsTold, SportIs, OneConfig

\* A match has one market for each of its sides.
LEMMA SidesTold ==
    ASSUME board \in Boards, NEW s \in Sports, NEW c \in Contracts(s), NEW d \in Contracts(s),
           c.kind = SportOf(c.series).matchFamily, d.kind = SportOf(d.series).matchFamily,
           c.event = d.event, c.key = d.key
    PROVE  c = d
<1>1. \A u \in Sports : \A x, y \in {z \in Contracts(u) : z.kind = SportOf(z.series).matchFamily} :
        x.event = y.event /\ x.key = y.key => x = y
  BY BoardListed DEF Listing, Sports, Contracts
<1>2. QED BY <1>1

\* The last and the first row of some contracts are one row.
LEMMA OneRow ==
    ASSUME board \in Boards, NEW s \in Sports, NEW ms \in SUBSET Contracts(s)
    PROVE  /\ \A c, d \in LastOf(ms) : c = d
           /\ \A c, d \in FirstOf(ms) : c = d
<1>1. \A c \in ms : c.ticker \in Nat
  BY ContractNats
<1>2. \A c, d \in ms : c.ticker = d.ticker => c = d
  BY ContractQuoted
<1>3. QED BY <1>1, <1>2 DEF LastOf, FirstOf

-----------------------------------------------------------------------------
\* The check rows of one participant of one tournament.
ChecksOf(cs, g) ==
    LET rs == RowsOf(cs, g)
    IN Adjacent(rs, g[1], g[2], LadderOf(rs), RiskBudget) \cup Transitive(rs, LadderOf(rs), RiskBudget)
         \cup Alignments(rs, LadderOf(rs)) \cup Unmapped(rs, SportOf((CHOOSE m \in rs : TRUE).series))

\* What a check is called.
LEMMA CheckId ==
    ASSUME NEW rel, NEW child, NEW parent, NEW childNode, NEW parentNode, NEW ladder, NEW budget
    PROVE  Check(rel, child, parent, childNode, parentNode, ladder, budget).id
             = <<rel, child.key, child.tour, childNode, parentNode>>
BY DEF Check

\* What a row without a comparison is called.
LEMMA UncheckedId ==
    ASSUME NEW status, NEW rel, NEW id, NEW market
    PROVE  Unchecked(status, rel, id, market).id = id
BY DEF Unchecked

\* A row that compares two rungs, or says which is missing.
AdjacentOf(cs, g, row, p) ==
    LET rs == RowsOf(cs, g)
        both == Has(rs, p[1], "market") /\ Has(rs, p[2], "market")
    IN /\ p \in LadderOf(rs).adjacent
       /\ row = IF both
                THEN Check("containment_adjacent", Representative(rs, p[1], "market"),
                           Representative(rs, p[2], "market"), p[1], p[2], LadderOf(rs), RiskBudget)
                ELSE Unchecked("MISSING_LAYER", "containment_adjacent",
                               <<"containment_adjacent", g[1], g[2], p[1], p[2]>>, None)
TransitiveOf(cs, g, row, p) ==
    LET rs == RowsOf(cs, g)
        ladder == LadderOf(rs)
    IN /\ p[1] \in DOMAIN ladder.order /\ p[2] \in DOMAIN ladder.order /\ p = <<p[1], p[2]>>
       /\ p[1] < p[2] /\ p[1] # p[2]
       /\ Has(rs, ladder.order[p[1]], "market") /\ Has(rs, ladder.order[p[2]], "market")
       /\ row = Check("containment_transitive", Representative(rs, ladder.order[p[2]], "market"),
                      Representative(rs, ladder.order[p[1]], "market"),
                      ladder.order[p[2]], ladder.order[p[1]], ladder, RiskBudget)
AlignmentOf(cs, g, row, n) ==
    LET rs == RowsOf(cs, g)
    IN /\ n # NoNode /\ Has(rs, n, "match") /\ Has(rs, n, "market")
       /\ row = Check("match_alignment", Representative(rs, n, "match"), Representative(rs, n, "market"),
                      n, n, LadderOf(rs), 0)
UnmappedOf(cs, g, row, m) ==
    /\ m \in RowsOf(cs, g) /\ m.kind = SportOf((CHOOSE x \in RowsOf(cs, g) : TRUE).series).matchFamily
    /\ row = Unchecked("UNKNOWN_RELATIONSHIP", "match_alignment",
                       <<"match_alignment", m.key, m.tour, <<"unmapped", m.event, m.stage>>>>, m.ticker)

\* Every row of build_checks is of one of the four kinds.
LEMMA ChecksAre ==
    ASSUME NEW cs, NEW row \in BuildChecks(cs, RiskBudget)
    PROVE  \E g \in Groups(cs) : \/ \E p : AdjacentOf(cs, g, row, p)
                                 \/ \E p : TransitiveOf(cs, g, row, p)
                                 \/ \E n : AlignmentOf(cs, g, row, n)
                                 \/ \E m : UnmappedOf(cs, g, row, m)
<1>1. PICK g \in Groups(cs) : row \in ChecksOf(cs, g)
  BY DEF BuildChecks, ChecksOf
<1> DEFINE rs == RowsOf(cs, g)
           ladder == LadderOf(rs)
<1>2. CASE row \in Adjacent(rs, g[1], g[2], ladder, RiskBudget)
  <2>1. \E p : AdjacentOf(cs, g, row, p)
    BY <1>2 DEF Adjacent, AdjacentOf
  <2>2. QED BY <2>1
<1>3. CASE row \in Transitive(rs, ladder, RiskBudget)
  <2> DEFINE present == {i \in DOMAIN ladder.order : Has(rs, ladder.order[i], "market")}
  <2>1. PICK p \in {q \in present \X present : q[1] < q[2]} :
          row = Check("containment_transitive", Representative(rs, ladder.order[p[2]], "market"),
                      Representative(rs, ladder.order[p[1]], "market"),
                      ladder.order[p[2]], ladder.order[p[1]], ladder, RiskBudget)
    BY <1>3 DEF Transitive
  <2>2. p = <<p[1], p[2]>> /\ p[1] \in present /\ p[2] \in present
    OBVIOUS
  <2>3. p[1] # p[2]
    <3>1. p[1] < p[2] /\ p[1] \in DOMAIN ladder.order /\ p[2] \in DOMAIN ladder.order
      OBVIOUS
    <3>2. DOMAIN ladder.order \subseteq Nat
      BY LaddersGood DEF LadderOf, GoodLadder, Apart
    <3> HIDE DEF ladder
    <3>3. QED BY <3>1, <3>2
  <2>4. TransitiveOf(cs, g, row, p)
    BY <2>1, <2>2, <2>3 DEF TransitiveOf
  <2>5. QED BY <2>4
<1>4. CASE row \in Alignments(rs, ladder)
  <2>1. \E n : AlignmentOf(cs, g, row, n)
    BY <1>4 DEF Alignments, AlignmentOf
  <2>2. QED BY <2>1
<1>5. CASE row \in Unmapped(rs, SportOf((CHOOSE m \in rs : TRUE).series))
  <2>1. \E m : UnmappedOf(cs, g, row, m)
    BY <1>5 DEF Unmapped, UnmappedOf
  <2>2. QED BY <2>1
<1>6. QED BY <1>1, <1>2, <1>3, <1>4, <1>5 DEF ChecksOf

\* The id of a check row names its participant, its tournament and what it compares.
LEMMA CheckIds ==
    ASSUME board \in Boards, NEW s \in Sports, NEW g \in Groups(Contracts(s)), NEW row, NEW p
    PROVE  LET cs == Contracts(s)
               order == LadderOf(RowsOf(cs, g)).order
           IN /\ AdjacentOf(cs, g, row, p) => row.id = <<"containment_adjacent", g[1], g[2], p[1], p[2]>>
              /\ TransitiveOf(cs, g, row, p)
                   => row.id = <<"containment_transitive", g[1], g[2], order[p[2]], order[p[1]]>>
              /\ AlignmentOf(cs, g, row, p) => row.id = <<"match_alignment", g[1], g[2], p, p>>
              /\ UnmappedOf(cs, g, row, p)
                   => row.id = <<"match_alignment", g[1], g[2], <<"unmapped", p.event, p.stage>>>>
<1> DEFINE rs == RowsOf(Contracts(s), g)
           ladder == LadderOf(rs)
<1>1. rs \in SUBSET Contracts(s) /\ \A m \in rs : m.key = g[1] /\ m.tour = g[2]
  BY DEF RowsOf
<1>2. \A node, source : Has(rs, node, source) => Representative(rs, node, source) \in rs
  <2> HIDE DEF rs
  <2>1. QED BY <1>1, RepresentativeIn
<1>3. AdjacentOf(Contracts(s), g, row, p) => row.id = <<"containment_adjacent", g[1], g[2], p[1], p[2]>>
  <2> SUFFICES ASSUME AdjacentOf(Contracts(s), g, row, p)
               PROVE  row.id = <<"containment_adjacent", g[1], g[2], p[1], p[2]>>
    OBVIOUS
  <2>1. CASE Has(rs, p[1], "market") /\ Has(rs, p[2], "market")
    <3>1. row = Check("containment_adjacent", Representative(rs, p[1], "market"),
                      Representative(rs, p[2], "market"), p[1], p[2], ladder, RiskBudget)
      BY <2>1 DEF AdjacentOf
    <3> HIDE DEF rs, ladder
    <3>2. QED BY <1>1, <1>2, <2>1, <3>1, CheckId
  <2>2. CASE ~(Has(rs, p[1], "market") /\ Has(rs, p[2], "market"))
    BY <2>2, UncheckedId DEF AdjacentOf
  <2>3. QED BY <2>1, <2>2
<1>4. TransitiveOf(Contracts(s), g, row, p)
      => row.id = <<"containment_transitive", g[1], g[2], ladder.order[p[2]], ladder.order[p[1]]>>
  <2> SUFFICES ASSUME TransitiveOf(Contracts(s), g, row, p)
               PROVE  row.id = <<"containment_transitive", g[1], g[2], ladder.order[p[2]], ladder.order[p[1]]>>
    OBVIOUS
  <2>1. /\ Has(rs, ladder.order[p[2]], "market")
        /\ row = Check("containment_transitive", Representative(rs, ladder.order[p[2]], "market"),
                       Representative(rs, ladder.order[p[1]], "market"),
                       ladder.order[p[2]], ladder.order[p[1]], ladder, RiskBudget)
    BY DEF TransitiveOf
  <2> HIDE DEF rs, ladder
  <2>2. QED BY <1>1, <1>2, <2>1, CheckId
<1>5. AlignmentOf(Contracts(s), g, row, p) => row.id = <<"match_alignment", g[1], g[2], p, p>>
  <2> SUFFICES ASSUME AlignmentOf(Contracts(s), g, row, p)
               PROVE  row.id = <<"match_alignment", g[1], g[2], p, p>>
    OBVIOUS
  <2>1. /\ Has(rs, p, "match")
        /\ row = Check("match_alignment", Representative(rs, p, "match"), Representative(rs, p, "market"),
                       p, p, ladder, 0)
    BY DEF AlignmentOf
  <2> HIDE DEF rs, ladder
  <2>2. QED BY <1>1, <1>2, <2>1, CheckId
<1>6. UnmappedOf(Contracts(s), g, row, p)
      => row.id = <<"match_alignment", g[1], g[2], <<"unmapped", p.event, p.stage>>>>
  BY <1>1, UncheckedId DEF UnmappedOf
<1>7. QED BY <1>3, <1>4, <1>5, <1>6

\* Two rows of build_checks with one id are one row of one sport.
LEMMA ChecksTold ==
    ASSUME board \in Boards, NEW s \in Sports, NEW t \in Sports, NEW a \in BuildChecks(Contracts(s), RiskBudget),
           NEW b \in BuildChecks(Contracts(t), RiskBudget), a.id = b.id
    PROVE  s = t /\ a = b
<1>1. PICK g \in Groups(Contracts(s)) : \/ \E p : AdjacentOf(Contracts(s), g, a, p)
                                        \/ \E p : TransitiveOf(Contracts(s), g, a, p)
                                        \/ \E p : AlignmentOf(Contracts(s), g, a, p)
                                        \/ \E p : UnmappedOf(Contracts(s), g, a, p)
  BY ChecksAre
<1>2. PICK h \in Groups(Contracts(t)) : \/ \E p : AdjacentOf(Contracts(t), h, b, p)
                                        \/ \E p : TransitiveOf(Contracts(t), h, b, p)
                                        \/ \E p : AlignmentOf(Contracts(t), h, b, p)
                                        \/ \E p : UnmappedOf(Contracts(t), h, b, p)
  BY ChecksAre
<1>3. g[1] = h[1] /\ g[2] = h[2]
  <2>1. a.id[2] = g[1] /\ a.id[3] = g[2]
    BY <1>1, CheckIds
  <2>2. b.id[2] = h[1] /\ b.id[3] = h[2]
    BY <1>2, CheckIds
  <2>3. QED BY <2>1, <2>2
<1>4. PICK c \in Contracts(s) : g = <<c.key, c.tour>>
  BY DEF Groups
<1>5. PICK d \in Contracts(t) : h = <<d.key, d.tour>>
  BY DEF Groups
<1>6. s = t /\ g = h
  BY <1>3, <1>4, <1>5, ContractsTold
<1> DEFINE rs == RowsOf(Contracts(s), g)
           ladder == LadderOf(rs)
<1>7. GoodLadder(ladder)
  BY LaddersGood DEF LadderOf
<1>8. \A row, p :
        /\ AdjacentOf(Contracts(s), g, row, p)
             => row.id[1] = "containment_adjacent" /\ row.id[4] = p[1] /\ row.id[5] = p[2]
        /\ TransitiveOf(Contracts(s), g, row, p)
             => row.id[1] = "containment_transitive"
                /\ row.id[4] = ladder.order[p[2]] /\ row.id[5] = ladder.order[p[1]]
        /\ AlignmentOf(Contracts(s), g, row, p)
             => row.id[1] = "match_alignment" /\ DOMAIN row.id = 1..5 /\ row.id[4] = p
        /\ UnmappedOf(Contracts(s), g, row, p)
             => row.id[1] = "match_alignment" /\ DOMAIN row.id = 1..4
                /\ row.id[4] = <<"unmapped", p.event, p.stage>>
  BY CheckIds
<1>9. 1..5 # 1..4
  OBVIOUS
<1> HIDE DEF rs, ladder
<1>10. CASE \E p : AdjacentOf(Contracts(s), g, a, p)
  <2>1. PICK p : AdjacentOf(Contracts(s), g, a, p)
    BY <1>10
  <2>2. PICK q : AdjacentOf(Contracts(s), g, b, q)
    BY <1>2, <1>6, <1>8, <2>1
  <2>3. p \in ladder.adjacent /\ q \in ladder.adjacent
    BY <2>1, <2>2 DEF AdjacentOf, ladder, rs
  <2>4. p[1] = q[1] /\ p[2] = q[2]
    BY <1>8, <2>1, <2>2
  <2>5. p = q
    BY <1>7, <2>3, <2>4 DEF GoodLadder, GoodPair
  <2>6. QED BY <1>6, <2>1, <2>2, <2>5 DEF AdjacentOf
<1>11. CASE \E p : TransitiveOf(Contracts(s), g, a, p)
  <2>1. PICK p : TransitiveOf(Contracts(s), g, a, p)
    BY <1>11
  <2>2. PICK q : TransitiveOf(Contracts(s), g, b, q)
    BY <1>2, <1>6, <1>8, <2>1
  <2>3. /\ p[1] \in DOMAIN ladder.order /\ p[2] \in DOMAIN ladder.order /\ p = <<p[1], p[2]>>
        /\ q[1] \in DOMAIN ladder.order /\ q[2] \in DOMAIN ladder.order /\ q = <<q[1], q[2]>>
    BY <2>1, <2>2 DEF TransitiveOf, ladder, rs
  <2>4. ladder.order[p[1]] = ladder.order[q[1]] /\ ladder.order[p[2]] = ladder.order[q[2]]
    BY <1>8, <2>1, <2>2
  <2>5. p[1] = q[1] /\ p[2] = q[2]
    BY <1>7, <2>3, <2>4 DEF GoodLadder, Apart
  <2>6. p = q
    BY <2>3, <2>5
  <2>7. QED BY <1>6, <2>1, <2>2, <2>6 DEF TransitiveOf
<1>12. CASE \E p : AlignmentOf(Contracts(s), g, a, p)
  <2>1. PICK p : AlignmentOf(Contracts(s), g, a, p)
    BY <1>12
  <2>2. PICK q : AlignmentOf(Contracts(s), g, b, q)
    BY <1>2, <1>6, <1>8, <1>9, <2>1
  <2>3. p = q
    BY <1>8, <2>1, <2>2
  <2>4. QED BY <1>6, <2>1, <2>2, <2>3 DEF AlignmentOf
<1>13. CASE \E p : UnmappedOf(Contracts(s), g, a, p)
  <2>1. PICK p : UnmappedOf(Contracts(s), g, a, p)
    BY <1>13
  <2>2. PICK q : UnmappedOf(Contracts(s), g, b, q)
    BY <1>2, <1>6, <1>8, <1>9, <2>1
  <2>3. p.event = q.event
    BY <1>8, <2>1, <2>2
  <2>4. /\ p \in rs /\ p.kind = SportOf((CHOOSE x \in rs : TRUE).series).matchFamily
        /\ q \in rs /\ q.kind = SportOf((CHOOSE x \in rs : TRUE).series).matchFamily
    BY <2>1, <2>2 DEF UnmappedOf, rs
  <2>5. rs \in SUBSET Contracts(s) /\ p.key = q.key /\ (CHOOSE x \in rs : TRUE) \in rs
    BY <2>4 DEF RowsOf, rs
  <2>6. p = q
    BY <2>3, <2>4, <2>5, SameConfig, SidesTold
  <2>7. QED BY <1>6, <2>1, <2>2, <2>6 DEF UnmappedOf
<1>14. QED BY <1>1, <1>10, <1>11, <1>12, <1>13

\* Their ids are of these three kinds.
LEMMA CheckTag ==
    ASSUME board \in Boards, NEW s \in Sports, NEW a \in BuildChecks(Contracts(s), RiskBudget)
    PROVE  a.id[1] \in {"containment_adjacent", "containment_transitive", "match_alignment"}
<1>1. PICK g \in Groups(Contracts(s)) : \/ \E p : AdjacentOf(Contracts(s), g, a, p)
                                        \/ \E p : TransitiveOf(Contracts(s), g, a, p)
                                        \/ \E p : AlignmentOf(Contracts(s), g, a, p)
                                        \/ \E p : UnmappedOf(Contracts(s), g, a, p)
  BY ChecksAre
<1>2. QED BY <1>1, CheckIds

-----------------------------------------------------------------------------
\* What a finding and a row to review keep of what they are given.
LEMMA FindingId ==
    ASSUME NEW check, NEW status, NEW bucket, NEW id, NEW c, NEW ms, NEW bestCase, NEW worst
    PROVE  /\ Finding(check, status, bucket, id, c, ms, bestCase).id = id
           /\ [Finding(check, status, bucket, id, c, ms, bestCase) EXCEPT !.worst = worst].id = id
BY DEF Finding

\* What one event's markets of one kind are found to be.
LEMMA BookTold ==
    ASSUME NEW event, NEW ms, NEW over, NEW a \in Book(event, ms, over)
    PROVE  /\ a.id = <<"dutch_book", event, {m.key : m \in ms}>>
           /\ \A b \in Book(event, ms, over) : a = b
<1> DEFINE id == <<"dutch_book", event, {m.key : m \in ms}>>
<1>1. \E status, bucket, c, best : a = Finding("dutch_book", status, bucket, id, c, ms, best)
  BY DEF Book
<1>2. \A b \in Book(event, ms, over) : a = b
  <2>1. \E r : Book(event, ms, over) \subseteq {r}
    BY DEF Book
  <2>2. QED BY <2>1
<1> HIDE DEF id
<1>3. a.id = id
  BY <1>1, FindingId
<1>4. QED BY <1>2, <1>3 DEF id

\* A pair or a book of an event has one finding at most, called after the event.
LEMMA TwoWayTold ==
    ASSUME NEW event, NEW ms, NEW over, NEW a \in DetectTwoWay(event, ms, over)
    PROVE  /\ a.id[1] = "dutch_book" /\ a.id[2] = event /\ DOMAIN a.id = 1..3
           /\ \A b \in DetectTwoWay(event, ms, over) : a = b
<1>1. DetectTwoWay(event, ms, over) \subseteq Book(event, ms, over)
  BY DEF DetectTwoWay, DetectNWay, DetectPair
<1>2. QED BY <1>1, BookTold

\* A field has one finding at most, and its name is longer than that of a book.
LEMMA FieldTold ==
    ASSUME NEW event, NEW ms, NEW a \in DetectField(event, ms)
    PROVE  /\ a.id[1] = "dutch_book" /\ a.id[2] = event /\ DOMAIN a.id = 1..4
           /\ \A b \in DetectField(event, ms) : a = b
<1>1. \E status, bucket, c, legs, best :
        a = [Finding("dutch_book", status, bucket, <<"dutch_book", event, "field", "overround">>, c, legs, best)
               EXCEPT !.worst = NoGap]
  BY DEF DetectField
<1>2. \E r : DetectField(event, ms) \subseteq {r}
  BY DEF DetectField
<1>3. a.id = <<"dutch_book", event, "field", "overround">>
  BY <1>1, FindingId
<1>4. QED BY <1>2, <1>3

\* A group has one basket at most, called after its event.
LEMMA BasketTold ==
    ASSUME NEW event, NEW ms, NEW a \in DetectGroupBasket(event, ms)
    PROVE  /\ a.id[1] = "group_basket" /\ a.id[2] = event
           /\ \A b \in DetectGroupBasket(event, ms) : a = b
<1>1. \E status, bucket, c, legs, best :
        a = Finding("group_basket", status, bucket, <<"group_basket", event, "basket">>, c, legs, best)
  BY DEF DetectGroupBasket
<1>2. \E r : DetectGroupBasket(event, ms) \subseteq {r}
  BY DEF DetectGroupBasket
<1>3. a.id = <<"group_basket", event, "basket">>
  BY <1>1, FindingId
<1>4. QED BY <1>2, <1>3

\* A team has one book of its stages at most, called after its event.
LEMMA StageBookTold ==
    ASSUME NEW event, NEW ms, NEW a \in DetectStageBook(event, ms)
    PROVE  /\ a.id[1] = "stage_elim_book" /\ a.id[2] = event
           /\ \A b \in DetectStageBook(event, ms) : a = b
<1> DEFINE id == <<"stage_elim_book", event, (CHOOSE m \in ms : TRUE).key>>
<1>1. \E status, bucket, c, legs, best : a = Finding("stage_elim_book", status, bucket, id, c, legs, best)
  BY DEF DetectStageBook
<1>2. \E r : DetectStageBook(event, ms) \subseteq {r}
  BY DEF DetectStageBook
<1> HIDE DEF id
<1>3. a.id = id
  BY <1>1, FindingId
<1>4. QED BY <1>2, <1>3 DEF id

\* A stage of a team has one synthetic at most, called after event and stage.
LEMMA StageSyntheticTold ==
    ASSUME NEW event, NEW team, NEW ms, NEW node, NEW hedge,
           NEW a \in DetectStageSynthetic(event, team, ms, node, hedge)
    PROVE  /\ a.id[1] = "stage_elim_synth" /\ a.id[2] = event /\ a.id[4] = node
           /\ \A b \in DetectStageSynthetic(event, team, ms, node, hedge) : a = b
<1> DEFINE id == <<"stage_elim_synth", event, team, node>>
<1>1. \E status, c, legs : a = Review("stage_elim_synth", status, id, c, legs, TRUE)
  BY DEF DetectStageSynthetic
<1>2. \E r : DetectStageSynthetic(event, team, ms, node, hedge) \subseteq {r}
  BY DEF DetectStageSynthetic
<1> HIDE DEF id
<1>3. a.id = id
  BY <1>1 DEF Review, Finding
<1>4. QED BY <1>2, <1>3 DEF id

\* A player has one bundle at most for each hedge; the length of its name tells the kinds of hedges apart.
LEMMA PlayerBundleTold ==
    ASSUME NEW event, NEW key, NEW ms, NEW hedge, NEW kind \in {"match", "advance"},
           NEW a \in DetectPlayerBundle(event, key, ms, hedge, kind)
    PROVE  /\ a.id[1] = "synthetic_bundle" /\ a.id[2] = event /\ a.id[3] = key
           /\ kind = "match" => DOMAIN a.id = 1..4
           /\ kind = "advance" => DOMAIN a.id = 1..6
           /\ \A b \in DetectPlayerBundle(event, key, ms, hedge, kind) : a = b
<1>1. PICK c, legs : a = Review("synthetic_bundle", "EXECUTABLE_SYNTHETIC_BUNDLE",
                                BundleId(event, key, c, hedge, kind), c, legs, FALSE)
  BY DEF DetectPlayerBundle
<1>2. a.id = BundleId(event, key, c, hedge, kind)
  BY <1>1 DEF Review, Finding
<1>3. \A b \in DetectPlayerBundle(event, key, ms, hedge, kind) : a = b
  BY DEF DetectPlayerBundle
<1>4. QED BY <1>2, <1>3 DEF BundleId

-----------------------------------------------------------------------------
\* The books of a sport, each of one event and one kind, and the fields.
LEMMA DutchTold ==
    ASSUME board \in Boards, NEW s \in Sports, NEW t \in Sports, NEW over,
           NEW a \in FindDutchBooks(Contracts(s), over), NEW b \in FindDutchBooks(Contracts(t), over)
    PROVE  /\ a.id[1] = "dutch_book"
           /\ a.id = b.id => s = t /\ a = b
<1> DEFINE listed(u) == {m \in Trusted(Contracts(u)) : m.kind # "exact_order"}
           twoWay(u) == {m \in listed(u) : IsTwoWay(m)}
           fields(u) == {m \in listed(u) : ~IsTwoWay(m) /\ IsField(m)}
           pair(u, c) == {m \in twoWay(u) : m.event = c.event /\ m.kind = c.kind}
           field(u, e) == {m \in fields(u) : m.event = e}
<1>1. ASSUME NEW u \in Sports, NEW r \in FindDutchBooks(Contracts(u), over)
      PROVE  \/ \E c \in twoWay(u) : r \in DetectTwoWay(c.event, pair(u, c), over)
             \/ \E c \in fields(u) : r \in DetectField(c.event, field(u, c.event))
  <2> DEFINE found(g) == DetectTwoWay(g[1], {m \in twoWay(u) : m.event = g[1] /\ m.kind = g[2]}, over)
  <2>1. FindDutchBooks(Contracts(u), over)
          = (UNION {found(g) : g \in {<<m.event, m.kind>> : m \in twoWay(u)}})
            \cup (UNION {DetectField(e, field(u, e)) : e \in {m.event : m \in fields(u)}})
    BY DEF FindDutchBooks
  <2> HIDE DEF twoWay, fields, field
  <2>2. \A c : found(<<c.event, c.kind>>) = DetectTwoWay(c.event, pair(u, c), over)
    OBVIOUS
  <2> HIDE DEF found, pair
  <2>3. QED BY <1>1, <2>1, <2>2
<1>2. \A u \in Sports : twoWay(u) \subseteq Contracts(u) /\ fields(u) \subseteq Contracts(u)
  BY DEF Trusted
<1> HIDE DEF twoWay, fields, field
<1>3. 1..3 # 1..4
  OBVIOUS
<1>4. CASE \E c \in twoWay(s) : a \in DetectTwoWay(c.event, pair(s, c), over)
  <2>1. PICK c \in twoWay(s) : a \in DetectTwoWay(c.event, pair(s, c), over)
    BY <1>4
  <2>2. a.id[1] = "dutch_book" /\ a.id[2] = c.event /\ DOMAIN a.id = 1..3
    BY <2>1, TwoWayTold
  <2>3. SUFFICES ASSUME a.id = b.id PROVE s = t /\ a = b
    BY <2>2
  <2>4. PICK d \in twoWay(t) : b \in DetectTwoWay(d.event, pair(t, d), over)
    BY <1>1, <1>3, <2>2, <2>3, FieldTold
  <2>5. c.event = d.event
    BY <2>2, <2>3, <2>4, TwoWayTold
  <2>6. s = t /\ c.kind = d.kind
    BY <1>2, <2>5, ContractsTold
  <2>7. QED BY <2>1, <2>4, <2>5, <2>6, TwoWayTold
<1>5. CASE \E c \in fields(s) : a \in DetectField(c.event, field(s, c.event))
  <2>1. PICK c \in fields(s) : a \in DetectField(c.event, field(s, c.event))
    BY <1>5
  <2>2. a.id[1] = "dutch_book" /\ a.id[2] = c.event /\ DOMAIN a.id = 1..4
    BY <2>1, FieldTold
  <2>3. SUFFICES ASSUME a.id = b.id PROVE s = t /\ a = b
    BY <2>2
  <2>4. PICK d \in fields(t) : b \in DetectField(d.event, field(t, d.event))
    <3> HIDE DEF pair
    <3>1. QED BY <1>1, <1>3, <2>2, <2>3, TwoWayTold
  <2>5. c.event = d.event
    BY <2>2, <2>3, <2>4, FieldTold
  <2>6. s = t
    BY <1>2, <2>5, ContractsTold
  <2>7. QED BY <2>1, <2>4, <2>5, <2>6, FieldTold
<1>6. QED BY <1>1, <1>4, <1>5

\* The group baskets, one of each event.
LEMMA BasketsTold ==
    ASSUME board \in Boards, NEW s \in Sports, NEW t \in Sports,
           NEW a \in FindGroupBaskets(Contracts(s)), NEW b \in FindGroupBaskets(Contracts(t))
    PROVE  /\ a.id[1] = "group_basket"
           /\ a.id = b.id => s = t /\ a = b
<1> DEFINE listed(u) == {m \in Trusted(Contracts(u)) : IsGroupBasket(m)}
           of(u, e) == {m \in listed(u) : m.event = e}
<1>1. \A u \in Sports : \A r \in FindGroupBaskets(Contracts(u)) :
         \E c \in listed(u) : r \in DetectGroupBasket(c.event, of(u, c.event))
  <2>1. \A u : FindGroupBaskets(Contracts(u))
               = UNION {DetectGroupBasket(e, of(u, e)) : e \in {m.event : m \in listed(u)}}
    BY DEF FindGroupBaskets
  <2> HIDE DEF listed, of
  <2>2. QED BY <2>1
<1>2. \A u \in Sports : listed(u) \subseteq Contracts(u)
  BY DEF Trusted
<1> HIDE DEF listed, of
<1>3. PICK c \in listed(s) : a \in DetectGroupBasket(c.event, of(s, c.event))
  BY <1>1
<1>4. PICK d \in listed(t) : b \in DetectGroupBasket(d.event, of(t, d.event))
  BY <1>1
<1>5. a.id[1] = "group_basket" /\ a.id[2] = c.event /\ b.id[2] = d.event
  BY <1>3, <1>4, BasketTold
<1>6. ASSUME a.id = b.id PROVE s = t /\ a = b
  <2>1. c.event = d.event
    BY <1>5, <1>6
  <2>2. s = t
    BY <1>2, <2>1, ContractsTold
  <2>3. QED BY <1>3, <1>4, <2>1, <2>2, BasketTold
<1>7. QED BY <1>5, <1>6

\* The stage books, one of each event, and the synthetics, one of each event and rung.
LEMMA StageBooksTold ==
    ASSUME board \in Boards, NEW s \in Sports, NEW t \in Sports,
           NEW a \in FindStageElimBooks(Contracts(s)), NEW b \in FindStageElimBooks(Contracts(t))
    PROVE  /\ a.id[1] = "stage_elim_book"
           /\ a.id = b.id => s = t /\ a = b
<1>1. \A u \in Sports : \A r \in FindStageElimBooks(Contracts(u)) :
         \E c \in Contracts(u) : r \in DetectStageBook(c.event, StageRows(Contracts(u), c.event))
  BY DEF FindStageElimBooks, StageEvents, Trusted
<1>2. PICK c \in Contracts(s) : a \in DetectStageBook(c.event, StageRows(Contracts(s), c.event))
  BY <1>1
<1>3. PICK d \in Contracts(t) : b \in DetectStageBook(d.event, StageRows(Contracts(t), d.event))
  BY <1>1
<1>4. a.id[1] = "stage_elim_book" /\ a.id[2] = c.event /\ b.id[2] = d.event
  BY <1>2, <1>3, StageBookTold
<1>5. ASSUME a.id = b.id PROVE s = t /\ a = b
  <2>1. c.event = d.event
    BY <1>4, <1>5
  <2>2. s = t
    BY <2>1, ContractsTold
  <2>3. QED BY <1>2, <1>3, <2>1, <2>2, StageBookTold
<1>6. QED BY <1>4, <1>5

\* Two synthetics of stages with one name are one, of one sport.
LEMMA StageSyntheticsTold ==
    ASSUME board \in Boards, NEW s \in Sports, NEW t \in Sports,
           NEW a \in FindStageElimSynthetics(Contracts(s)), NEW b \in FindStageElimSynthetics(Contracts(t))
    PROVE  /\ a.id[1] = "stage_elim_synth"
           /\ a.id = b.id => s = t /\ a = b
<1> DEFINE team(u, e) == (CHOOSE m \in StageRows(Contracts(u), e) : TRUE).key
           found(u, e, n, h) == DetectStageSynthetic(e, team(u, e), StageRows(Contracts(u), e), n, h)
           R(u, r, c, n, h) == /\ c \in Contracts(u) /\ h \in AdvanceHedge(Contracts(u), team(u, c.event), n)
                               /\ r \in found(u, c.event, n, h)
<1>1. \A u \in Sports : \A r \in FindStageElimSynthetics(Contracts(u)) :
         \E c, n, h : R(u, r, c, n, h)
  <2>1. \A u : FindStageElimSynthetics(Contracts(u))
          = UNION {IF ~Complete(StageRows(Contracts(u), e)) THEN {}
                   ELSE UNION {UNION {found(u, e, n, h) : h \in AdvanceHedge(Contracts(u), team(u, e), n)}
                                 : n \in DOMAIN RungTails}
                   : e \in StageEvents(Contracts(u))}
    BY DEF FindStageElimSynthetics
  <2>2. \A u : \A e \in StageEvents(Contracts(u)) : \E c \in Contracts(u) : e = c.event
    BY DEF StageEvents, Trusted
  <2> HIDE DEF team, found
  <2>3. QED BY <2>1, <2>2
<1> HIDE DEF team
<1>3. PICK c, n, h : R(s, a, c, n, h)
  BY <1>1
<1>5. PICK d, o, i : R(t, b, d, o, i)
  BY <1>1
<1>6. a.id[1] = "stage_elim_synth" /\ a.id[2] = c.event /\ a.id[4] = n
  BY <1>3, StageSyntheticTold
<1>7. b.id[2] = d.event /\ b.id[4] = o
  BY <1>5, StageSyntheticTold
<1>8. ASSUME a.id = b.id PROVE s = t /\ a = b
  <2>1. c.event = d.event /\ n = o
    BY <1>6, <1>7, <1>8
  <2>2. s = t
    BY <1>3, <1>5, <2>1, ContractsTold
  <2>3. h = i
    BY <1>3, <1>5, <2>1, <2>2, OneRow DEF AdvanceHedge
  <2>4. QED BY <1>3, <1>5, <2>1, <2>2, <2>3, StageSyntheticTold
<1>9. QED BY <1>6, <1>8

\* The bundles, each of one event, one player and one hedge.
LEMMA BundlesTold ==
    ASSUME board \in Boards, NEW s \in Sports, NEW t \in Sports,
           NEW a \in FindSyntheticBundles(Contracts(s)), NEW b \in FindSyntheticBundles(Contracts(t))
    PROVE  /\ a.id[1] = "synthetic_bundle"
           /\ a.id = b.id => s = t /\ a = b
<1> DEFINE of(u, e, k) == {m \in {x \in Contracts(u) : x.kind = "exact_score"} : m.event = e /\ m.key = k}
           tour(u, e, k) == (CHOOSE m \in of(u, e, k) : TRUE).tour
           hedges(u, e, k, kind) ==
             IF kind = "match" THEN MatchHedge(Contracts(u), k)
             ELSE AdvanceHedge({m \in Contracts(u) : m.tour = tour(u, e, k)}, k, Implied(of(u, e, k)))
           found(u, e, k, h, kind) == DetectPlayerBundle(e, k, of(u, e, k), h, kind)
           R(u, r, c, kind, h) ==
             /\ c \in Contracts(u) /\ kind \in {"match", "advance"}
             /\ h \in hedges(u, c.event, c.key, kind) /\ r \in found(u, c.event, c.key, h, kind)
<1>1. \A u : \A r \in FindSyntheticBundles(Contracts(u)) :
         \E c, kind, h : R(u, r, c, kind, h)
  <2> SUFFICES ASSUME NEW u, NEW r \in FindSyntheticBundles(Contracts(u))
               PROVE  \E c, kind, h : R(u, r, c, kind, h)
    OBVIOUS
  <2> DEFINE scores == {x \in Contracts(u) : x.kind = "exact_score"}
             all(e, k) == (UNION {found(u, e, k, h, "match") : h \in hedges(u, e, k, "match")})
                            \cup (UNION {found(u, e, k, h, "advance") : h \in hedges(u, e, k, "advance")})
  <2>1. FindSyntheticBundles(Contracts(u)) = UNION {all(g[1], g[2]) : g \in {<<m.event, m.key>> : m \in scores}}
    BY DEF FindSyntheticBundles
  <2>2. \A c \in scores : c \in Contracts(u)
    OBVIOUS
  <2> HIDE DEF scores, all
  <2>3. PICK c \in scores : r \in all(c.event, c.key)
    BY <2>1
  <2> HIDE DEF found, hedges
  <2>4. \E kind \in {"match", "advance"} : \E h \in hedges(u, c.event, c.key, kind) : r \in found(u, c.event, c.key, h, kind)
    BY <2>3 DEF all
  <2>5. QED BY <2>2, <2>4
<1>2. \A u \in Sports : \A e, k, kind : \A h, i \in hedges(u, e, k, kind) : h = i
  <2> SUFFICES ASSUME NEW u \in Sports, NEW e, NEW k, NEW kind PROVE \A h, i \in hedges(u, e, k, kind) : h = i
    OBVIOUS
  <2>1. \A h, i \in MatchHedge(Contracts(u), k) : h = i
    BY OneRow DEF MatchHedge
  <2>2. \A ms \in SUBSET Contracts(u) : \A node : \A h, i \in AdvanceHedge(ms, k, node) : h = i
    BY OneRow DEF AdvanceHedge
  <2>3. {m \in Contracts(u) : m.tour = tour(u, e, k)} \in SUBSET Contracts(u)
    OBVIOUS
  <2> HIDE DEF of, tour
  <2>4. QED BY <2>1, <2>2, <2>3
<1> HIDE DEF of, hedges
<1>3. PICK c, kind, h : R(s, a, c, kind, h)
  BY <1>1
<1>4. PICK d, sort, i : R(t, b, d, sort, i)
  BY <1>1
<1>5. /\ a.id[1] = "synthetic_bundle" /\ a.id[2] = c.event /\ a.id[3] = c.key
      /\ kind \in {"match", "advance"}
      /\ (kind = "match" => DOMAIN a.id = 1..4) /\ (kind = "advance" => DOMAIN a.id = 1..6)
  BY <1>3, PlayerBundleTold
<1>6. /\ b.id[2] = d.event /\ b.id[3] = d.key
      /\ sort \in {"match", "advance"}
      /\ (sort = "match" => DOMAIN b.id = 1..4) /\ (sort = "advance" => DOMAIN b.id = 1..6)
  BY <1>4, PlayerBundleTold
<1>7. ASSUME a.id = b.id PROVE s = t /\ a = b
  <2>1. c.event = d.event /\ c.key = d.key
    BY <1>5, <1>6, <1>7
  <2>2. kind = sort
    <3>1. 1..4 # 1..6
      OBVIOUS
    <3>2. QED BY <1>5, <1>6, <1>7, <3>1
  <2>3. s = t
    BY <1>3, <1>4, <2>1, ContractsTold
  <2>4. h = i
    BY <1>2, <1>3, <1>4, <2>1, <2>2, <2>3
  <2>5. QED BY <1>3, <1>4, <2>1, <2>2, <2>3, <2>4, PlayerBundleTold
<1>8. QED BY <1>5, <1>7

-----------------------------------------------------------------------------
\* What is shown keeps its id, with its cost or without it, and with fields that are not its id.
LEMMA ShownId ==
    ASSUME NEW check, NEW status, NEW bucket, NEW tradable, NEW id, NEW legs, NEW cost, NEW floor, NEW worst, NEW best
    PROVE  LET row == Shown(check, status, bucket, tradable, id, legs, cost, floor, worst, best)
           IN row.id = id /\ WithoutCost(row).id = id
BY DEF Shown, WithoutCost

\* More fields do not change what a row is called.
LEMMA ShownWithId ==
    ASSUME NEW check, NEW status, NEW bucket, NEW tradable, NEW id, NEW legs, NEW cost, NEW floor, NEW worst, NEW best,
           NEW more, "id" \notin DOMAIN more
    PROVE  With(Shown(check, status, bucket, tradable, id, legs, cost, floor, worst, best), more).id = id
<1> DEFINE row == Shown(check, status, bucket, tradable, id, legs, cost, floor, worst, best)
<1>1. "id" \in DOMAIN row /\ row.id = id
  BY DEF Shown
<1> HIDE DEF row
<1>2. With(row, more).id = id
  BY <1>1 DEF With
<1>3. QED BY <1>2 DEF row

\* The premiums, one of each group and team.
LEMMA PremiumsTold ==
    ASSUME board \in Boards, NEW s \in Sports, NEW t \in Sports,
           NEW a \in FindExactOrderPremiums(Contracts(s)), NEW b \in FindExactOrderPremiums(Contracts(t))
    PROVE  /\ WithoutCost(a).id[1] = "exact_order"
           /\ WithoutCost(a).id = WithoutCost(b).id => s = t /\ a = b
<1> DEFINE of(u, e) == {m \in {x \in Trusted(Contracts(u)) : x.kind = "exact_order"} : m.event = e}
           group(u, e) == (CHOOSE m \in of(u, e) : TRUE).group
           R(u, r, c, team, q) == /\ c \in Contracts(u)
                                  /\ q \in Qualifiers(Contracts(u), group(u, c.event), team)
                                  /\ r = TopTwoBundle(c.event, TopTwo(of(u, c.event), team), q)
<1>1. \A u : \A r \in FindExactOrderPremiums(Contracts(u)) : \E c, team, q : R(u, r, c, team, q)
  <2> SUFFICES ASSUME NEW u, NEW r \in FindExactOrderPremiums(Contracts(u))
               PROVE  \E c, team, q : R(u, r, c, team, q)
    OBVIOUS
  <2>1. PICK e : r \in DetectGroup(Contracts(u), e, of(u, e)) /\ \E c \in Contracts(u) : c.event = e
    BY DEF FindExactOrderPremiums, Trusted
  <2>2. PICK c \in Contracts(u) : c.event = e
    BY <2>1
  <2> HIDE DEF of
  <2>3. \E team, q : /\ q \in Qualifiers(Contracts(u), group(u, e), team)
                     /\ r = TopTwoBundle(e, TopTwo(of(u, e), team), q)
    BY <2>1 DEF DetectGroup
  <2>4. QED BY <2>2, <2>3
<1> HIDE DEF of
<1>2. \A event, top, q : WithoutCost(TopTwoBundle(event, top, q)).id = <<"exact_order", event, q.key>>
  BY DEF TopTwoBundle, Shown, WithoutCost
<1>3. PICK c, team, q : R(s, a, c, team, q)
  BY <1>1
<1>4. PICK d, other, o : R(t, b, d, other, o)
  BY <1>1
<1>5. ASSUME WithoutCost(a).id = WithoutCost(b).id PROVE s = t /\ a = b
  <2>1. c.event = d.event /\ q.key = o.key
    BY <1>2, <1>3, <1>4, <1>5
  <2>2. s = t
    BY <1>3, <1>4, <2>1, ContractsTold
  <2>3. /\ q \in Contracts(s) /\ q.series = "KXWCGROUPQUAL" /\ q.name = team
        /\ o \in Contracts(s) /\ o.series = "KXWCGROUPQUAL" /\ o.name = other
    BY <1>3, <1>4, <2>2 DEF Qualifiers, LastOf
  <2>4. team = other
    <3>1. \A x, y \in {z \in Contracts(s) : z.series = "KXWCGROUPQUAL"} : x.key = y.key => x.name = y.name
      BY BoardListed DEF Listing, Sports, Contracts
    <3>2. QED BY <2>1, <2>3, <3>1
  <2>5. q = o
    BY <1>3, <1>4, <2>1, <2>2, <2>4, OneRow DEF Qualifiers
  <2>6. QED BY <1>3, <1>4, <2>1, <2>2, <2>4, <2>5
<1>6. QED BY <1>2, <1>3, <1>5

\* The signals, one of each team.
LEMMA SignalsTold ==
    ASSUME board \in Boards, NEW s \in Sports, NEW t \in Sports,
           NEW a \in FindGameSupportSignals(Contracts(s)), NEW b \in FindGameSupportSignals(Contracts(t))
    PROVE  /\ a.id[1] = "game_support"
           /\ a.id = b.id => s = t /\ a = b
<1> DEFINE games(u) == {m \in Games(Contracts(u)) : ValidGame({n \in Games(Contracts(u)) : n.event = m.event})}
           teams(u) == {m.id : m \in {x \in games(u) : ~x.tie}} \ {""}
           qualifier(u, id) == LastOf({m \in Contracts(u) : m.series = "KXWCGROUPQUAL" /\ m.id = id})
           wins(u, id) == {m \in games(u) : m.id = id /\ ~m.tie}
           R(u, r, id, q) == q \in qualifier(u, id) /\ r \in Signal(games(u), wins(u, id), q)
<1>1. \A u : \A r \in FindGameSupportSignals(Contracts(u)) : \E q \in Contracts(u) : R(u, r, q.id, q)
  <2> SUFFICES ASSUME NEW u, NEW r \in FindGameSupportSignals(Contracts(u))
               PROVE  \E q \in Contracts(u) : R(u, r, q.id, q)
    OBVIOUS
  <2>1. FindGameSupportSignals(Contracts(u))
          = UNION {UNION {Signal(games(u), wins(u, id), q) : q \in qualifier(u, id)} : id \in teams(u)}
    BY DEF FindGameSupportSignals
  <2>2. \A id : \A q \in qualifier(u, id) : q \in Contracts(u) /\ q.series = "KXWCGROUPQUAL" /\ q.id = id
    BY DEF LastOf
  <2> HIDE DEF games, wins, qualifier, teams
  <2>3. PICK id, q : q \in qualifier(u, id) /\ r \in Signal(games(u), wins(u, id), q)
    BY <2>1
  <2>4. QED BY <2>2, <2>3
<1>2. \A u : \A id : \A q \in qualifier(u, id) : q \in Contracts(u) /\ q.series = "KXWCGROUPQUAL"
  BY DEF LastOf
<1>3. \A u \in Sports : \A id : \A q, o \in qualifier(u, id) : q = o
  BY OneRow
<1> HIDE DEF games, wins, qualifier, teams
<1>4. \A gs, ws, q : \A r \in Signal(gs, ws, q) : r.id = <<"game_support", q.id>> /\ \A x \in Signal(gs, ws, q) : r = x
  <2> SUFFICES ASSUME NEW gs, NEW ws, NEW q, NEW r \in Signal(gs, ws, q)
               PROVE  r.id = <<"game_support", q.id>> /\ \A x \in Signal(gs, ws, q) : r = x
    OBVIOUS
  <2>1. \E x : Signal(gs, ws, q) \subseteq {x}
    BY DEF Signal
  <2>2. PICK info : r = Shown("game_support", "GAME_SUPPORT_SIGNAL", "qualifier_setup", "Diagnostic only",
                            <<"game_support", q.id>>, info, None, None, NoGap, NoGap)
    BY DEF Signal
  <2>3. r.id = <<"game_support", q.id>>
    BY <2>2 DEF Shown
  <2>4. QED BY <2>1, <2>3
<1>5. PICK q \in Contracts(s) : R(s, a, q.id, q)
  BY <1>1
<1>6. PICK o \in Contracts(t) : R(t, b, o.id, o)
  BY <1>1
<1>7. a.id[1] = "game_support" /\ a.id[2] = q.id /\ b.id[2] = o.id
  BY <1>4, <1>5, <1>6
<1>8. ASSUME a.id = b.id PROVE s = t /\ a = b
  <2>1. q.id = o.id
    BY <1>7, <1>8
  <2>2. s = t
    BY <1>2, <1>5, <1>6, ContractsTold
  <2>3. q = o
    BY <1>3, <1>5, <1>6, <2>1, <2>2
  <2>4. QED BY <1>4, <1>5, <1>6, <2>2, <2>3
<1>9. QED BY <1>7, <1>8

\* The bands, one of each participant, tournament and pair of rungs, and the outrights, one of
\* each market.
LEMMA StructuresTold ==
    ASSUME board \in Boards, NEW s \in Sports, NEW t \in Sports,
           NEW a \in FindNoStructures(Contracts(s)), NEW b \in FindNoStructures(Contracts(t))
    PROVE  /\ a.id[1] \in {"no_structure_band", "no_structure_outright"}
           /\ a.id = b.id => s = t /\ a = b
<1> DEFINE of(u, g) == RowsOf(Trusted(Contracts(u)), g)
           band(u, g, p) == Band(Standing(of(u, g), p[1]), Standing(of(u, g), p[2]), p, g)
           outright(m) ==
             With(Shown("no_structure", "NO_STRUCTURE_OUTRIGHT", "no_structure", "Speculative",
                        <<"no_structure_outright", m.ticker>>,
                        {[side |-> "no", ticker |-> m.ticker, price |-> BuyNo(m)]},
                        BuyNo(m), None, -BuyNo(m), 100 - BuyNo(m)),
                  [scope |-> ScopeOf(m)])
           B(u, r, c, p) == /\ c \in Contracts(u) /\ p = <<p[1], p[2]>>
                            /\ r = band(u, <<c.key, c.tour>>, p)
           O(u, r, c) == c \in Contracts(u) /\ r = outright(c)
<1>1. \A child, parent, p, g :
        Band(child, parent, p, g).id = <<"no_structure_band", g[1], g[2], p[1], p[2]>>
  <2> SUFFICES ASSUME NEW child, NEW parent, NEW p, NEW g
               PROVE  Band(child, parent, p, g).id = <<"no_structure_band", g[1], g[2], p[1], p[2]>>
    OBVIOUS
  <2> DEFINE more == [scope |-> ScopeOf(child)]
             id == <<"no_structure_band", g[1], g[2], p[1], p[2]>>
  <2>1. "id" \notin DOMAIN more
    OBVIOUS
  <2>2. \E legs, cost, worst, best :
          Band(child, parent, p, g)
            = With(Shown("no_structure", "NO_STRUCTURE_BAND", "no_structure", "Speculative", id, legs, cost, 100,
                         worst, best), more)
    BY DEF Band
  <2> HIDE DEF more, id
  <2>3. Band(child, parent, p, g).id = id
    BY <2>1, <2>2, ShownWithId
  <2>4. QED BY <2>3 DEF id
<1>2. \A m : outright(m).id = <<"no_structure_outright", m.ticker>>
  <2> SUFFICES ASSUME NEW m PROVE outright(m).id = <<"no_structure_outright", m.ticker>>
    OBVIOUS
  <2> DEFINE more == [scope |-> ScopeOf(m)]
             id == <<"no_structure_outright", m.ticker>>
  <2>1. "id" \notin DOMAIN more
    OBVIOUS
  <2>2. \E legs, cost, worst, best :
          outright(m) = With(Shown("no_structure", "NO_STRUCTURE_OUTRIGHT", "no_structure", "Speculative", id, legs,
                                   cost, None, worst, best), more)
    OBVIOUS
  <2> HIDE DEF more, id, outright
  <2>3. outright(m).id = id
    BY <2>1, <2>2, ShownWithId
  <2>4. QED BY <2>3 DEF id
<1>3. \A u : \A r \in FindNoStructures(Contracts(u)) : (\E c, p : B(u, r, c, p)) \/ (\E c : O(u, r, c))
  <2> SUFFICES ASSUME NEW u, NEW r \in FindNoStructures(Contracts(u))
               PROVE  (\E c, p : B(u, r, c, p)) \/ (\E c : O(u, r, c))
    OBVIOUS
  <2>1. CASE r \in Bands(Contracts(u))
    <3>1. PICK g \in Groups(Trusted(Contracts(u))) : \E p \in LadderOf(of(u, g)).adjacent : r = band(u, g, p)
      BY <2>1 DEF Bands
    <3>2. PICK c \in Contracts(u) : g = <<c.key, c.tour>>
      BY DEF Groups, Trusted
    <3>3. GoodLadder(LadderOf(of(u, g)))
      BY LaddersGood DEF LadderOf
    <3> HIDE DEF of, band
    <3>4. PICK p \in LadderOf(of(u, g)).adjacent : r = band(u, g, p)
      BY <3>1
    <3>5. p = <<p[1], p[2]>>
      BY <3>3 DEF GoodLadder, GoodPair
    <3>6. B(u, r, c, p)
      BY <3>2, <3>4, <3>5
    <3>7. QED BY <3>6
  <2>2. CASE r \in Outrights(Contracts(u))
    <3>1. \E c \in Contracts(u) : r = outright(c)
      BY <2>2 DEF Outrights
    <3> HIDE DEF outright
    <3>2. QED BY <3>1
  <2>3. QED BY <2>1, <2>2 DEF FindNoStructures
<1> HIDE DEF of, outright
<1>4. CASE \E c, p : B(s, a, c, p)
  <2>1. PICK c, p : B(s, a, c, p)
    BY <1>4
  <2>2. /\ a.id[1] = "no_structure_band" /\ a.id[2] = c.key /\ a.id[3] = c.tour
        /\ a.id[4] = p[1] /\ a.id[5] = p[2]
    BY <1>1, <2>1
  <2>3. SUFFICES ASSUME a.id = b.id PROVE s = t /\ a = b
    BY <2>2
  <2>4. PICK d, q : B(t, b, d, q)
    <3>1. \A d : O(t, b, d) => b.id[1] = "no_structure_outright"
      BY <1>2
    <3>2. QED BY <1>3, <2>2, <2>3, <3>1
  <2>5. b.id[2] = d.key /\ b.id[3] = d.tour /\ b.id[4] = q[1] /\ b.id[5] = q[2]
    BY <1>1, <2>4
  <2>6. c.key = d.key /\ c.tour = d.tour /\ p[1] = q[1] /\ p[2] = q[2]
    BY <2>2, <2>3, <2>5
  <2>7. s = t /\ p = q
    BY <2>1, <2>4, <2>6, ContractsTold
  <2>8. QED BY <2>1, <2>4, <2>6, <2>7
<1>5. CASE \E c : O(s, a, c)
  <2>1. PICK c : O(s, a, c)
    BY <1>5
  <2>2. a.id[1] = "no_structure_outright" /\ a.id[2] = c.ticker
    BY <1>2, <2>1
  <2>3. SUFFICES ASSUME a.id = b.id PROVE s = t /\ a = b
    BY <2>2
  <2>4. PICK d : O(t, b, d)
    <3>1. \A d, q : B(t, b, d, q) => b.id[1] = "no_structure_band"
      BY <1>1
    <3>2. QED BY <1>3, <2>2, <2>3, <3>1
  <2>5. c.ticker = d.ticker
    BY <1>2, <2>2, <2>3, <2>4
  <2>6. s = t /\ c = d
    BY <2>1, <2>4, <2>5, ContractsTold
  <2>7. QED BY <2>1, <2>4, <2>6
<1>6. QED BY <1>3, <1>4, <1>5

\* The blends, one of each tournament, pair of rungs and field of contenders.
LEMMA BlendsTold ==
    ASSUME board \in Boards, NEW s \in Sports, NEW t \in Sports,
           NEW a \in FindConditionalBlends(Contracts(s)), NEW b \in FindConditionalBlends(Contracts(t))
    PROVE  /\ a.id[1] = "conditional_blend"
           /\ a.id = b.id => s = t /\ a = b
<1> DEFINE of(u, tour) == {m \in {x \in Contracts(u) : Recognised(x)} : m.tour = tour}
           R(u, r, c, p) == c \in Contracts(u) /\ r \in Blend(c.tour, of(u, c.tour), p)
<1>1. \A u : \A r \in FindConditionalBlends(Contracts(u)) : \E c, p : R(u, r, c, p)
  <2> SUFFICES ASSUME NEW u, NEW r \in FindConditionalBlends(Contracts(u)) PROVE \E c, p : R(u, r, c, p)
    OBVIOUS
  <2> DEFINE known == {m \in Contracts(u) : Recognised(m)}
             pairs(tour) == {q \in LadderOf(of(u, tour)).adjacent :
                               /\ q[1] \in Range(LadderOf(of(u, tour)).order)
                               /\ q[2] \in Range(LadderOf(of(u, tour)).order)
                               /\ SurvivorsOf(SportOf((CHOOSE m \in of(u, tour) : TRUE).series), q[2]) = 2}
  <2>1. FindConditionalBlends(Contracts(u))
          = UNION {UNION {Blend(tour, of(u, tour), p) : p \in pairs(tour)} : tour \in {m.tour : m \in known}}
    BY DEF FindConditionalBlends
  <2>2. known \subseteq Contracts(u)
    OBVIOUS
  <2> HIDE DEF of, known, pairs
  <2>3. QED BY <2>1, <2>2
<1> HIDE DEF of
<1>2. \A tour, ms, p : \A r \in Blend(tour, ms, p) :
         r.id[1] = "conditional_blend" /\ r.id[2] = tour /\ r.id[3] = p /\ \A x \in Blend(tour, ms, p) : r = x
  <2> SUFFICES ASSUME NEW tour, NEW ms, NEW p, NEW r \in Blend(tour, ms, p)
               PROVE  r.id[1] = "conditional_blend" /\ r.id[2] = tour /\ r.id[3] = p
                      /\ \A x \in Blend(tour, ms, p) : r = x
    OBVIOUS
  <2>1. \E x : Blend(tour, ms, p) \subseteq {x}
    BY DEF Blend
  <2>2. PICK key, live, legs, cost :
          r = Shown("conditional_blend", "MODEL_BLEND_CANDIDATE", "speculative_model",
                    "Speculative - model validation only", <<"conditional_blend", tour, p, key, live>>, legs, cost,
                    None, NoGap, NoGap)
    BY DEF Blend
  <2>3. r.id = <<"conditional_blend", tour, p, key, live>>
    BY <2>2 DEF Shown
  <2>4. QED BY <2>1, <2>3
<1>3. PICK c, p : R(s, a, c, p)
  BY <1>1
<1>4. PICK d, q : R(t, b, d, q)
  BY <1>1
<1>5. a.id[1] = "conditional_blend" /\ a.id[2] = c.tour /\ a.id[3] = p /\ b.id[2] = d.tour /\ b.id[3] = q
  BY <1>2, <1>3, <1>4
<1>6. ASSUME a.id = b.id PROVE s = t /\ a = b
  <2>1. c.tour = d.tour /\ p = q
    BY <1>5, <1>6
  <2>2. s = t
    BY <1>3, <1>4, <2>1, ContractsTold
  <2>3. QED BY <1>2, <1>3, <1>4, <2>1, <2>2
<1>7. QED BY <1>5, <1>6

\* The boxes, one of each event, direction and pair of strikes.
LEMMA BoxesTold ==
    ASSUME board \in Boards, NEW s \in Sports, NEW t \in Sports,
           NEW a \in FindPayoffBoxes(Contracts(s)), NEW b \in FindPayoffBoxes(Contracts(t))
    PROVE  /\ a.id[1] = "payoff_state"
           /\ a.id = b.id => s = t /\ a = b
<1> DEFINE R(u, r, event, direction, c, d) ==
             c \in Rungs(Contracts(u), event, direction) /\ d \in Rungs(Contracts(u), event, direction) /\ r = Box(c, d)
<1>1. \A u : \A r \in FindPayoffBoxes(Contracts(u)) : \E event, direction, c, d : R(u, r, event, direction, c, d)
  BY DEF FindPayoffBoxes, Neighbours
<1>2. \A broad, deep :
        Box(broad, deep).id = <<"payoff_state", broad.event, broad.strike[1], broad.strike[2], deep.strike[2]>>
  <2> SUFFICES ASSUME NEW broad, NEW deep
               PROVE  Box(broad, deep).id
                        = <<"payoff_state", broad.event, broad.strike[1], broad.strike[2], deep.strike[2]>>
    OBVIOUS
  <2> DEFINE id == <<"payoff_state", broad.event, broad.strike[1], broad.strike[2], deep.strike[2]>>
  <2> DEFINE legs == {[side |-> "yes", ticker |-> broad.ticker, price |-> FirmYesAsk(broad)],
                      [side |-> "no", ticker |-> deep.ticker, price |-> FirmNoAsk(deep)]}
             r == EvaluatePayoff(legs, {0 + 100, 100 + 100, 100 + 0}, TRUE)
             profit(p) == IF r.cost = None THEN NoGap ELSE p - r.cost
             worst == profit(r.worst)
             best == profit(r.best)
             more == [classification |-> r.classification, authoritative |-> r.authoritative]
  <2>1. "id" \notin DOMAIN more
    OBVIOUS
  <2>2. Box(broad, deep) = With(Shown("payoff_state", "PAYOFF_STATE_DIAGNOSTIC", "payoff_state", "No - diagnostic only",
                                     id, legs, r.cost, r.worst, worst, best), more)
    BY DEF Box
  <2> HIDE DEF legs, r, profit, id, worst, best, more
  <2> DEFINE row == Shown("payoff_state", "PAYOFF_STATE_DIAGNOSTIC", "payoff_state", "No - diagnostic only",
                          id, legs, r.cost, r.worst, worst, best)
  <2>3. "id" \in DOMAIN row /\ row.id = id
    BY DEF Shown
  <2> HIDE DEF row
  <2>4. With(row, more).id = id
    BY <2>1, <2>3 DEF With
  <2>5. Box(broad, deep).id = id
    BY <2>2, <2>4 DEF row
  <2>6. QED BY <2>5 DEF id
<1>3. \A u, event, direction : \A c \in Rungs(Contracts(u), event, direction) :
        /\ c \in Contracts(u) /\ c.event = event /\ c.strike[1] = direction
  BY DEF Rungs, FirstOf
<1>10. \A u, event, direction : \A c \in Rungs(Contracts(u), event, direction) :
        /\ c \in FirstOf({m \in {n \in Contracts(u) : n.event = event /\ n.strike # <<>> /\ n.strike[1] = direction}
                            : m.strike[2] = c.strike[2]})
  BY DEF Rungs, FirstOf
<1>4. \A u \in Sports : \A event, direction : \A c, d \in Rungs(Contracts(u), event, direction) :
        c.strike[2] = d.strike[2] => c = d
  <2> SUFFICES ASSUME NEW u \in Sports, NEW event, NEW direction, NEW c \in Rungs(Contracts(u), event, direction),
                      NEW d \in Rungs(Contracts(u), event, direction), c.strike[2] = d.strike[2]
               PROVE  c = d
    OBVIOUS
  <2> DEFINE ms == {m \in {n \in Contracts(u) : n.event = event /\ n.strike # <<>> /\ n.strike[1] = direction}
                       : m.strike[2] = c.strike[2]}
  <2>1. c \in FirstOf(ms) /\ d \in FirstOf(ms)
    BY <1>10
  <2>2. ms \in SUBSET Contracts(u)
    OBVIOUS
  <2> HIDE DEF ms
  <2>3. QED BY <2>1, <2>2, OneRow
<1>5. PICK event, direction, c, d : R(s, a, event, direction, c, d)
  BY <1>1
<1>6. PICK where, sense, e, f : R(t, b, where, sense, e, f)
  BY <1>1
<1>7. /\ a.id[1] = "payoff_state" /\ a.id[2] = c.event /\ a.id[3] = c.strike[1]
      /\ a.id[4] = c.strike[2] /\ a.id[5] = d.strike[2]
      /\ b.id[2] = e.event /\ b.id[3] = e.strike[1] /\ b.id[4] = e.strike[2] /\ b.id[5] = f.strike[2]
  BY <1>2, <1>5, <1>6
<1>8. ASSUME a.id = b.id PROVE s = t /\ a = b
  <2>1. /\ c.event = e.event /\ c.strike[1] = e.strike[1] /\ c.strike[2] = e.strike[2]
        /\ d.strike[2] = f.strike[2]
    BY <1>7, <1>8
  <2>2. s = t
    BY <1>3, <1>5, <1>6, <2>1, ContractsTold
  <2>3. event = where /\ direction = sense
    BY <1>3, <1>5, <1>6, <2>1
  <2>4. c = e /\ d = f
    BY <1>4, <1>5, <1>6, <2>1, <2>2, <2>3
  <2>5. QED BY <1>5, <1>6, <2>2, <2>4
<1>9. QED BY <1>7, <1>8

-----------------------------------------------------------------------------
\* Whatever the detectors find: the id says which detector found it, of which sport, and what.
LEMMA DetectedTold ==
    ASSUME board \in Boards, NEW s \in Sports, NEW t \in Sports,
           NEW a \in Detected(Contracts(s)), NEW b \in Detected(Contracts(t)), a.id = b.id
    PROVE  s = t /\ a = b
<1> DEFINE premium(u, r) == \E q \in FindExactOrderPremiums(Contracts(u)) : r = WithoutCost(q)
           of(u, r) ==
             \/ r \in BuildChecks(Contracts(u), RiskBudget)
             \/ r \in FindDutchBooks(Contracts(u), NearMissOver)
             \/ r \in FindGroupBaskets(Contracts(u))
             \/ r \in FindSyntheticBundles(Contracts(u))
             \/ premium(u, r)
             \/ r \in FindGameSupportSignals(Contracts(u))
             \/ r \in FindStageElimBooks(Contracts(u))
             \/ r \in FindStageElimSynthetics(Contracts(u))
             \/ r \in FindNoStructures(Contracts(u))
             \/ r \in FindConditionalBlends(Contracts(u))
             \/ r \in FindPayoffBoxes(Contracts(u))
<1>1. of(s, a) /\ of(t, b)
  BY DEF Detected
<1>2. \A u \in Sports : \A r :
        /\ r \in BuildChecks(Contracts(u), RiskBudget)
             => r.id[1] \in {"containment_adjacent", "containment_transitive", "match_alignment"}
        /\ r \in FindDutchBooks(Contracts(u), NearMissOver) => r.id[1] = "dutch_book"
        /\ r \in FindGroupBaskets(Contracts(u)) => r.id[1] = "group_basket"
        /\ r \in FindSyntheticBundles(Contracts(u)) => r.id[1] = "synthetic_bundle"
        /\ premium(u, r) => r.id[1] = "exact_order"
        /\ r \in FindGameSupportSignals(Contracts(u)) => r.id[1] = "game_support"
  BY CheckTag, DutchTold, BasketsTold, BundlesTold, PremiumsTold, SignalsTold
<1>3. \A u \in Sports : \A r :
        /\ r \in FindStageElimBooks(Contracts(u)) => r.id[1] = "stage_elim_book"
        /\ r \in FindStageElimSynthetics(Contracts(u)) => r.id[1] = "stage_elim_synth"
        /\ r \in FindNoStructures(Contracts(u)) => r.id[1] \in {"no_structure_band", "no_structure_outright"}
        /\ r \in FindConditionalBlends(Contracts(u)) => r.id[1] = "conditional_blend"
        /\ r \in FindPayoffBoxes(Contracts(u)) => r.id[1] = "payoff_state"
  BY StageBooksTold, StageSyntheticsTold, StructuresTold, BlendsTold, BoxesTold
<1> HIDE DEF premium
<1>4. CASE a \in BuildChecks(Contracts(s), RiskBudget)
  BY <1>1, <1>2, <1>3, <1>4, ChecksTold
<1>5. CASE a \in FindDutchBooks(Contracts(s), NearMissOver)
  BY <1>1, <1>2, <1>3, <1>5, DutchTold
<1>6. CASE a \in FindGroupBaskets(Contracts(s))
  BY <1>1, <1>2, <1>3, <1>6, BasketsTold
<1>7. CASE a \in FindSyntheticBundles(Contracts(s))
  BY <1>1, <1>2, <1>3, <1>7, BundlesTold
<1>8. CASE premium(s, a)
  <2>1. premium(t, b)
    BY <1>1, <1>2, <1>3, <1>8
  <2>2. QED BY <1>8, <2>1, PremiumsTold DEF premium
<1>9. CASE a \in FindGameSupportSignals(Contracts(s))
  BY <1>1, <1>2, <1>3, <1>9, SignalsTold
<1>10. CASE a \in FindStageElimBooks(Contracts(s))
  BY <1>1, <1>2, <1>3, <1>10, StageBooksTold
<1>11. CASE a \in FindStageElimSynthetics(Contracts(s))
  BY <1>1, <1>2, <1>3, <1>11, StageSyntheticsTold
<1>12. CASE a \in FindNoStructures(Contracts(s))
  BY <1>1, <1>2, <1>3, <1>12, StructuresTold
<1>13. CASE a \in FindConditionalBlends(Contracts(s))
  BY <1>1, <1>2, <1>3, <1>13, BlendsTold
<1>14. CASE a \in FindPayoffBoxes(Contracts(s))
  BY <1>1, <1>2, <1>3, <1>14, BoxesTold
<1>15. QED BY <1>1, <1>4, <1>5, <1>6, <1>7, <1>8, <1>9, <1>10, <1>11, <1>12, <1>13, <1>14

\* No two rows of a scan share an id, whatever the exchange lists: the id names the detector,
\* what tells its findings apart, and through it the sport.
THEOREM UniqueIdsHolds == Spec => []UniqueIds
<1>1. ScanInv => UniqueIds
  <2> SUFFICES ASSUME ScanInv, NEW a \in rows, NEW b \in rows, a.row.id = b.row.id PROVE a = b
    BY DEF UniqueIds
  <2>1. /\ board \in Boards
        /\ a.sport \in Sports /\ a \in RowsFor(a.sport) /\ b.sport \in Sports /\ b \in RowsFor(b.sport)
    BY DEF ScanInv, Accounted, FoundThere
  <2>2. /\ a.row \in Detected(Contracts(a.sport)) /\ a = [sport |-> a.sport, row |-> a.row]
        /\ b.row \in Detected(Contracts(b.sport)) /\ b = [sport |-> b.sport, row |-> b.row]
    BY <2>1 DEF RowsFor, Contracts
  <2>3. a.sport = b.sport /\ a.row = b.row
    BY <2>1, <2>2, DetectedTold
  <2>4. QED BY <2>2, <2>3
<1>2. QED BY <1>1, ScanInvariance, PTL

-----------------------------------------------------------------------------
\* The contracts of a scan.
AllContracts == UNION {Contracts(s) : s \in Sports}

\* A row buys the YES of some contracts and the NO of others.
Bought(yes, no) == {<<"yes", m.ticker>> : m \in yes} \cup {<<"no", m.ticker>> : m \in no}

\* What is bought tells of which contracts.
LEMMA BoughtIn ==
    ASSUME board \in Boards,
           NEW yes \in SUBSET AllContracts, NEW no \in SUBSET AllContracts,
           NEW ayes \in SUBSET AllContracts, NEW ano \in SUBSET AllContracts, Bought(yes, no) = Bought(ayes, ano)
    PROVE  yes \subseteq ayes /\ no \subseteq ano
<1>1. \A c, d \in AllContracts : c.ticker = d.ticker => c = d
  BY ContractsTold DEF AllContracts
<1>2. \A x, y : <<"yes", x>> # <<"no", y>> /\ (<<"yes", x>> = <<"yes", y>> => x = y) /\ (<<"no", x>> = <<"no", y>> => x = y)
  OBVIOUS
<1>3. ASSUME NEW m \in yes PROVE m \in ayes
  <2>1. <<"yes", m.ticker>> \in Bought(ayes, ano)
    BY <1>3 DEF Bought
  <2>2. PICK k \in ayes : <<"yes", m.ticker>> = <<"yes", k.ticker>>
    BY <1>2, <2>1 DEF Bought
  <2>3. QED BY <1>1, <1>2, <2>2
<1>4. ASSUME NEW m \in no PROVE m \in ano
  <2>1. <<"no", m.ticker>> \in Bought(ayes, ano)
    BY <1>4 DEF Bought
  <2>2. PICK k \in ano : <<"no", m.ticker>> = <<"no", k.ticker>>
    BY <1>2, <2>1 DEF Bought
  <2>3. QED BY <1>1, <1>2, <2>2
<1>5. QED BY <1>3, <1>4

\* A price is a whole number of cents, rounded or not.
LEMMA PriceCents ==
    ASSUME NEW c, Quoted(c)
    PROVE  /\ c.ask # None => c.ask \in 0..100
           /\ BuyNo(c) # None => BuyNo(c) \in 0..100
           /\ FirmYesAsk(c) # None => FirmYesAsk(c) = c.ask
           /\ FirmNoAsk(c) # None => FirmNoAsk(c) = BuyNo(c)
<1> DEFINE m == Named(c.ticker)
<1>1. /\ c.bid = ToCents(m.bid) /\ c.ask = ToCents(m.ask) /\ c.noAsk = ToCents(m.noAsk)
      /\ {m.bid, m.ask, m.noAsk} \subseteq Tenths
  BY DEF Quoted
<1> HIDE DEF m
<1>2. ASSUME NEW q, NEW p \in {m.bid, m.ask, m.noAsk}, q = ToCents(p), q # None PROVE q \in 0..100
  <2>1. p \in Tenths
    BY <1>1
  <2>2. (p = None => q = None) /\ (p # None => q \in 0..100)
    BY <1>2, <2>1, WholeCents
  <2>3. QED BY <1>2, <2>2
<1>3. m.bid \in {m.bid, m.ask, m.noAsk} /\ m.ask \in {m.bid, m.ask, m.noAsk} /\ m.noAsk \in {m.bid, m.ask, m.noAsk}
  OBVIOUS
<1>4. /\ c.bid # None => c.bid \in 0..100
      /\ c.ask # None => c.ask \in 0..100
      /\ c.noAsk # None => c.noAsk \in 0..100
  BY <1>1, <1>2, <1>3
<1>5. BuyNo(c) # None => BuyNo(c) \in 0..100
  BY <1>4 DEF BuyNo
<1>6. QED BY <1>4, <1>5 DEF FirmYesAsk, FirmNoAsk

\* The least and the greatest of two.
LEMMA LeastOfTwo ==
    ASSUME NEW a \in Int, NEW b \in Int, a <= b
    PROVE  Min({a, b}) = a /\ Max({a, b}) = b
BY DEF Min, Max

\* The cost of a pair of buys is the sum of its prices.
PairLegs(long, ask, short, noAsk) ==
    {[side |-> "yes", ticker |-> long.ticker, price |-> ask],
     [side |-> "no", ticker |-> short.ticker, price |-> noAsk]}

\* What such a pair costs, and what it buys.
LEMMA PairCost ==
    ASSUME NEW long, NEW short, NEW ask \in 0..100 \cup {None}, NEW noAsk \in 0..100 \cup {None},
           NEW legs, legs = PairLegs(long, ask, short, noAsk)
    PROVE  /\ PlanCost(legs) = IF ask # None /\ noAsk # None THEN ask + noAsk ELSE None
           /\ {<<l.side, l.ticker>> : l \in legs} = Bought({long}, {short})
           /\ legs # {}
<1> DEFINE a == [side |-> "yes", ticker |-> long.ticker, price |-> ask]
           b == [side |-> "no", ticker |-> short.ticker, price |-> noAsk]
           p == [l \in legs |-> l.price]
<1>1. /\ a.side = "yes" /\ b.side = "no" /\ a.price = ask /\ b.price = noAsk
      /\ a.ticker = long.ticker /\ b.ticker = short.ticker
  OBVIOUS
<1> HIDE DEF a, b
<1>2. a # b /\ legs = {a, b}
  BY <1>1 DEF a, b, PairLegs
<1>3. p[a] = ask /\ p[b] = noAsk
  BY <1>1, <1>2
<1>4. MapThenSumSet(LAMBDA l : l.price, legs) = SumOf(p, legs)
  BY PlanSum
<1> HIDE DEF p
<1>5. ask # None /\ noAsk # None => SumOf(p, legs) = ask + noAsk
  <2> SUFFICES ASSUME ask # None, noAsk # None PROVE SumOf(p, legs) = ask + noAsk
    OBVIOUS
  <2>1. p[a] \in Nat /\ p[b] \in Nat
    BY <1>3
  <2>2. SumOf(p, {a, b}) = p[a] + p[b]
    BY <1>2, <2>1, SumTwo
  <2>3. QED BY <1>2, <1>3, <2>2
<1>6. {<<l.side, l.ticker>> : l \in legs} = Bought({long}, {short})
  BY <1>1, <1>2 DEF Bought
<1>7. (\A l \in legs : l.price # None) <=> ask # None /\ noAsk # None
  BY <1>1, <1>2
<1>8. PlanCost(legs) = IF \A l \in legs : l.price # None THEN SumOf(p, legs) ELSE None
  BY <1>2, <1>4 DEF PlanCost
<1>9. QED BY <1>2, <1>5, <1>6, <1>7, <1>8

-----------------------------------------------------------------------------
\* What a purchase costs, and what it pays at least and at most, is told by the contracts bought:
\* the same side of all of them, as a basket of four teams or as a book (one NO alone may pay
\* nothing), or both sides, which pay as often as there are NOs unless one contract contains the
\* other.
Outlay(yes, no) == SumOf([m \in yes |-> m.ask], yes) + SumOf([m \in no |-> BuyNo(m)], no)

BasketRule(ms) ==
    LET series == (CHOOSE m \in ms : TRUE).series IN SportOf(series).baskets[series]
Floor(side, ms) ==
    CASE Cardinality(ms) = 4 -> 100 * (IF side = "yes" THEN BasketRule(ms).yes_floor ELSE BasketRule(ms).no_floor)
      [] Cardinality(ms) # 4 -> IF side = "yes" THEN 100 ELSE 100 * (Cardinality(ms) - 1)
Ceiling(side, ms) ==
    CASE Cardinality(ms) = 4 ->
           100 * (IF side = "yes" THEN BasketRule(ms).yes_ceiling_count ELSE BasketRule(ms).no_ceiling_count)
      [] Cardinality(ms) = 1 -> 100
      [] Cardinality(ms) \notin {1, 4} -> Floor(side, ms)
Contains(c, d) ==
    \/ c.event = d.event
    \/ c.node # d.node /\ NoNode \notin {c.node, d.node}
Nested(yes, no) == \E c, d \in AllContracts : yes = {c} /\ no = {d} /\ Contains(c, d)

Least(yes, no) ==
    IF no = {} THEN Floor("yes", yes) ELSE IF yes = {} THEN Floor("no", no) ELSE 100 * Cardinality(no)
Most(yes, no) ==
    IF no = {} THEN Ceiling("yes", yes) ELSE IF yes = {} THEN Ceiling("no", no)
    ELSE IF Nested(yes, no) THEN 200 ELSE 100 * Cardinality(no)

Says(row, yes, no) ==
    /\ Purchase(row) = Bought(yes, no)
    /\ row.cost = Outlay(yes, no)
    /\ row.worst = Least(yes, no) - row.cost /\ row.best = Most(yes, no) - row.cost

\* A row with legs and a worst case says what its purchase tells.
Said(row) ==
    row.legs # {} /\ row.worst # NoGap
    => \E yes, no \in SUBSET AllContracts : Says(row, yes, no)

-----------------------------------------------------------------------------
\* Rows that say what their purchases tell agree on a purchase.
LEMMA SaidAgree ==
    ASSUME board \in Boards, NEW a, NEW b, Said(a), Said(b), a.legs # {}, b.legs # {},
           a.worst # NoGap, b.worst # NoGap, Purchase(a) = Purchase(b)
    PROVE  a.cost = b.cost /\ a.worst = b.worst /\ a.best = b.best
<1>1. PICK yes, no \in SUBSET AllContracts : Says(a, yes, no)
  BY DEF Said
<1>2. PICK ayes, ano \in SUBSET AllContracts : Says(b, ayes, ano)
  BY DEF Said
<1>3. Bought(yes, no) = Bought(ayes, ano)
  BY <1>1, <1>2 DEF Says
<1>4. yes \subseteq ayes /\ no \subseteq ano /\ ayes \subseteq yes /\ ano \subseteq no
  BY <1>3, BoughtIn
<1>5. yes = ayes /\ no = ano
  BY <1>4
<1>6. QED BY <1>1, <1>2, <1>5 DEF Says

\* A contract is quoted.
LEMMA AllQuoted == ASSUME board \in Boards, NEW c \in AllContracts PROVE Quoted(c)
BY ContractQuoted DEF AllContracts

\* The sum over a single contract.
LEMMA SumSingle == ASSUME NEW c, NEW f, f[c] \in Nat PROVE SumOf(f, {c}) = f[c]
<1>1. IsFiniteSet({c})
  BY FS_Singleton
<1>2. SumOf(f, {c}) = f[c] + SumOf(f, {c} \ {c})
  BY <1>1, SumTake
<1>3. {c} \ {c} = {}
  OBVIOUS
<1>4. QED BY <1>2, <1>3, SumEmpty

\* What is bought of one contract each.
LEMMA PairOutlay ==
    ASSUME NEW c, NEW d, c.ask \in 0..100, BuyNo(d) \in 0..100
    PROVE  Outlay({c}, {d}) = c.ask + BuyNo(d)
<1> DEFINE f == [m \in {c} |-> m.ask]
           g == [m \in {d} |-> BuyNo(m)]
<1>1. f[c] = c.ask /\ g[d] = BuyNo(d)
  OBVIOUS
<1> HIDE DEF f, g
<1>2. SumOf(f, {c}) = f[c] /\ SumOf(g, {d}) = g[d]
  BY <1>1, SumSingle
<1>3. QED BY <1>1, <1>2 DEF Outlay, f, g

\* A YES and a NO.
LEMMA PairSaid ==
    ASSUME board \in Boards, NEW c \in AllContracts, NEW d \in AllContracts, NEW row,
           c.ask # None, BuyNo(d) # None,
           Purchase(row) = Bought({c}, {d}), row.cost = c.ask + BuyNo(d),
           row.worst = 100 - row.cost, row.best = (IF Contains(c, d) THEN 200 ELSE 100) - row.cost
    PROVE  Said(row)
<1>1. row.cost = Outlay({c}, {d})
  BY AllQuoted, PriceCents, PairOutlay
<1>2. Cardinality({d}) = 1
  BY FS_Singleton
<1>3. Least({c}, {d}) = 100
  BY <1>2 DEF Least
<1>4. Nested({c}, {d}) <=> Contains(c, d)
  BY DEF Nested
<1>5. Most({c}, {d}) = IF Contains(c, d) THEN 200 ELSE 100
  BY <1>2, <1>4 DEF Most
<1>6. Says(row, {c}, {d})
  BY <1>1, <1>3, <1>5 DEF Says
<1>7. {c} \in SUBSET AllContracts /\ {d} \in SUBSET AllContracts
  OBVIOUS
<1>8. QED BY <1>6, <1>7 DEF Said

-----------------------------------------------------------------------------
\* What one side of some contracts costs.
LEMMA SideCost ==
    ASSUME board \in Boards, NEW s \in Sports, NEW ms \in SUBSET Contracts(s)
    PROVE  LET asks == [m \in ms |-> m.ask]
               noAsks == [m \in ms |-> BuyNo(m)]
           IN /\ Priced("yes", ms) => Cost("yes", ms) = SumOf(asks, ms) /\ SumOf(asks, ms) \in Nat
              /\ Priced("no", ms) => Cost("no", ms) = SumOf(noAsks, ms) /\ SumOf(noAsks, ms) \in Nat
<1> DEFINE asks == [m \in ms |-> m.ask]
           noAsks == [m \in ms |-> BuyNo(m)]
<1>1. IsFiniteSet(ms)
  BY ContractsFinite, FS_Subset
<1>2. ASSUME Priced("yes", ms) PROVE Cost("yes", ms) = SumOf(asks, ms) /\ SumOf(asks, ms) \in Nat
  <2>1. ASSUME NEW m \in ms PROVE BuyPrice("yes", m) = m.ask /\ m.ask \in Nat
    <3>1. FirmYesAsk(m) # None
      BY <1>2 DEF Priced, BuyPrice
    <3>2. Quoted(m)
      BY ContractQuoted
    <3>3. QED BY <3>1, <3>2, PriceCents DEF BuyPrice
  <2>2. [m \in ms |-> BuyPrice("yes", m)] = asks
    BY <2>1
  <2>3. \A m \in ms : asks[m] \in Nat
    BY <2>1
  <2> HIDE DEF asks
  <2>4. QED BY <1>1, <2>2, <2>3, CostIs, SumNat
<1>3. ASSUME Priced("no", ms) PROVE Cost("no", ms) = SumOf(noAsks, ms) /\ SumOf(noAsks, ms) \in Nat
  <2>1. ASSUME NEW m \in ms PROVE BuyPrice("no", m) = BuyNo(m) /\ BuyNo(m) \in Nat
    <3>1. FirmNoAsk(m) # None
      BY <1>3 DEF Priced, BuyPrice
    <3>2. Quoted(m)
      BY ContractQuoted
    <3>3. QED BY <3>1, <3>2, PriceCents DEF BuyPrice
  <2>2. [m \in ms |-> BuyPrice("no", m)] = noAsks
    BY <2>1
  <2>3. \A m \in ms : noAsks[m] \in Nat
    BY <2>1
  <2> HIDE DEF noAsks
  <2>4. QED BY <1>1, <2>2, <2>3, CostIs, SumNat
<1>4. QED BY <1>2, <1>3

\* The legs of one side buy that side.
LEMMA LegsBuy ==
    ASSUME NEW row, NEW ms
    PROVE  /\ row.legs = Legs("yes", ms) => Purchase(row) = Bought(ms, {})
           /\ row.legs = Legs("no", ms) => Purchase(row) = Bought({}, ms)
<1>1. ASSUME NEW side, row.legs = Legs(side, ms) PROVE Purchase(row) = {<<side, m.ticker>> : m \in ms}
  <2> DEFINE leg(m) == [side |-> side, ticker |-> m.ticker, price |-> BuyPrice(side, m)]
  <2>1. Purchase(row) = {<<l.side, l.ticker>> : l \in {leg(m) : m \in ms}}
    BY <1>1 DEF Purchase, Legs
  <2>2. \A m : leg(m).side = side /\ leg(m).ticker = m.ticker
    OBVIOUS
  <2> HIDE DEF leg
  <2>3. QED BY <2>1, <2>2
<1>2. Bought(ms, {}) = {<<"yes", m.ticker>> : m \in ms} /\ Bought({}, ms) = {<<"no", m.ticker>> : m \in ms}
  BY DEF Bought
<1>3. QED BY <1>1, <1>2

\* A row that buys one side of a book.
LEMMA BookSaid ==
    ASSUME board \in Boards, NEW s \in Sports, NEW ms \in SUBSET Contracts(s), ms # {},
           NEW side \in {"yes", "no"}, Priced(side, ms), NEW row,
           row.legs = Legs(side, ms), row.cost = Cost(side, ms),
           row.worst = Floor(side, ms) - row.cost, row.best = Ceiling(side, ms) - row.cost
    PROVE  Said(row)
<1>1. ms \in SUBSET AllContracts /\ {} \in SUBSET AllContracts
  BY DEF AllContracts
<1> DEFINE asks(S) == [m \in S |-> m.ask]
           noAsks(S) == [m \in S |-> BuyNo(m)]
<1>2. /\ \A yes, no : Outlay(yes, no) = SumOf(asks(yes), yes) + SumOf(noAsks(no), no)
      /\ Priced("yes", ms) => Cost("yes", ms) = SumOf(asks(ms), ms) /\ SumOf(asks(ms), ms) \in Nat
      /\ Priced("no", ms) => Cost("no", ms) = SumOf(noAsks(ms), ms) /\ SumOf(noAsks(ms), ms) \in Nat
  BY SideCost DEF Outlay
<1> HIDE DEF asks, noAsks
<1>3. SumOf(asks({}), {}) = 0 /\ SumOf(noAsks({}), {}) = 0
  BY SumEmpty
<1>4. CASE side = "yes"
  <2>1. Cost("yes", ms) = Outlay(ms, {})
    BY <1>2, <1>4, <1>3
  <2>2. Least(ms, {}) = Floor("yes", ms) /\ Most(ms, {}) = Ceiling("yes", ms)
    BY DEF Least, Most
  <2>3. Says(row, ms, {})
    BY <1>4, <2>1, <2>2, LegsBuy DEF Says
  <2>4. QED BY <1>1, <2>3 DEF Said
<1>5. CASE side = "no"
  <2>1. Cost("no", ms) = Outlay({}, ms)
    BY <1>2, <1>5, <1>3
  <2>2. Least({}, ms) = Floor("no", ms) /\ Most({}, ms) = Ceiling("no", ms)
    BY DEF Least, Most
  <2>3. Says(row, {}, ms)
    BY <1>5, <2>1, <2>2, LegsBuy DEF Says
  <2>4. QED BY <1>1, <2>3 DEF Said
<1>6. QED BY <1>4, <1>5

\* What is chosen among the directions of a book is one of them.
LEMMA ChosenWay ==
    ASSUME board \in Boards, NEW s \in Sports, NEW ms \in SUBSET Contracts(s), NEW f \in Int, NEW g \in Int,
           NEW cands \in SUBSET (Direction("yes", ms, f) \cup Direction("no", ms, g)), cands # {}
    PROVE  LET c == Widest(cands)
           IN /\ c.side \in {"yes", "no"} /\ ms # {} /\ Priced(c.side, ms)
              /\ c.legs = Legs(c.side, ms) /\ c.cost = Cost(c.side, ms)
              /\ c.floor = (IF c.side = "yes" THEN f ELSE g) /\ c.gap = c.floor - c.cost
<1> DEFINE way(side, floor) == [side |-> side, legs |-> Legs(side, ms), cost |-> Cost(side, ms), floor |-> floor,
                                gap |-> floor - Cost(side, ms), units |-> Units(side, ms)]
           x == IF Priced("yes", ms) THEN way("yes", f) ELSE [side |-> "yes", gap |-> 0]
           y == IF Priced("no", ms) THEN way("no", g) ELSE [side |-> "no", gap |-> 0]
<1>1. /\ cands \in SUBSET {x, y} /\ ms # {}
      /\ x \in cands => Priced("yes", ms) /\ x = way("yes", f)
      /\ y \in cands => Priced("no", ms) /\ y = way("no", g)
  BY DEF Direction
<1>2. (Priced("yes", ms) => Cost("yes", ms) \in Nat) /\ (Priced("no", ms) => Cost("no", ms) \in Nat)
  BY SideCost
<1>3. \A side, floor : /\ way(side, floor).side = side /\ way(side, floor).legs = Legs(side, ms)
                       /\ way(side, floor).cost = Cost(side, ms) /\ way(side, floor).floor = floor
                       /\ way(side, floor).gap = floor - Cost(side, ms)
  OBVIOUS
<1> HIDE DEF way
<1>4. x.side = "yes" /\ x.gap \in Int /\ y.side = "no" /\ y.gap \in Int
  BY <1>2, <1>3
<1> HIDE DEF x, y
<1>5. Widest(cands) \in cands
  BY <1>1, <1>4, WidestIn
<1>6. CASE Widest(cands) = x
  BY <1>1, <1>3, <1>5, <1>6
<1>7. CASE Widest(cands) = y
  BY <1>1, <1>3, <1>5, <1>7
<1>8. QED BY <1>1, <1>5, <1>6, <1>7

-----------------------------------------------------------------------------
\* A row that has no legs, or no worst case, says nothing.
LEMMA NothingSaid == ASSUME NEW row, row.legs = {} \/ row.worst = NoGap PROVE Said(row)
BY DEF Said

\* A finding on one side of a book that is no basket and no single contract.
LEMMA FlatSaid ==
    ASSUME board \in Boards, NEW s \in Sports, NEW ms \in SUBSET Contracts(s), Cardinality(ms) \in Nat \ {1, 4},
           Directions(ms) # {}, NEW row,
           row.legs = Widest(Directions(ms)).legs, row.cost = Widest(Directions(ms)).cost,
           row.worst = Widest(Directions(ms)).gap, row.best = Widest(Directions(ms)).gap
    PROVE  Said(row)
<1> DEFINE f == 100
           g == 100 * (Cardinality(ms) - 1)
           cands == Directions(ms)
           c == Widest(cands)
<1>1. cands \in SUBSET (Direction("yes", ms, f) \cup Direction("no", ms, g)) /\ f \in Int /\ g \in Int
  BY DEF Directions
<1>2. cands # {}
  OBVIOUS
<1>3. row.legs = c.legs /\ row.cost = c.cost /\ row.worst = c.gap /\ row.best = c.gap
  OBVIOUS
<1> HIDE DEF f, g, cands
<1>4. /\ c.side \in {"yes", "no"} /\ ms # {} /\ Priced(c.side, ms)
      /\ c.legs = Legs(c.side, ms) /\ c.cost = Cost(c.side, ms)
      /\ c.floor = (IF c.side = "yes" THEN f ELSE g) /\ c.gap = c.floor - c.cost
  BY ONLY board \in Boards, s \in Sports, ms \in SUBSET Contracts(s), <1>1, <1>2, ChosenWay
<1> HIDE DEF c
<1>5. Floor(c.side, ms) = (IF c.side = "yes" THEN f ELSE g) /\ Ceiling(c.side, ms) = Floor(c.side, ms)
  BY DEF Floor, Ceiling, f, g
<1>6. QED BY <1>3, <1>4, <1>5, BookSaid

-----------------------------------------------------------------------------
\* Two-way and three-way books.
LEMMA BookRowSaid ==
    ASSUME board \in Boards, NEW s \in Sports, NEW ms \in SUBSET Contracts(s), Cardinality(ms) \in {2, 3},
           NEW event, NEW over, NEW row \in Book(event, ms, over)
    PROVE  Said(row)
<1> DEFINE cands == Directions(ms)
           c == Widest(cands)
           id == <<"dutch_book", event, {m.key : m \in ms}>>
<1>1. cands # {}
  BY DEF Book, EdgeOf
<1>2. \/ row = Finding("dutch_book", "EXECUTABLE_DUTCH_BOOK", StrictBucket(c, ms), id, c, ms, c.gap)
      \/ row = Finding("dutch_book", "NEAR_MISS_DUTCH_BOOK", "near_miss", id, c, ms, c.gap)
  BY DEF Book
<1> HIDE DEF id, c
<1>3. row.legs = c.legs /\ row.cost = c.cost /\ row.worst = c.gap /\ row.best = c.gap
  <2>1. CASE row = Finding("dutch_book", "EXECUTABLE_DUTCH_BOOK", StrictBucket(c, ms), id, c, ms, c.gap)
    BY <2>1 DEF Finding
  <2>2. CASE row = Finding("dutch_book", "NEAR_MISS_DUTCH_BOOK", "near_miss", id, c, ms, c.gap)
    BY <2>2 DEF Finding
  <2>3. QED BY <1>2, <2>1, <2>2
<1>4. Cardinality(ms) \in Nat \ {1, 4}
  OBVIOUS
<1>5. QED BY <1>1, <1>3, <1>4, FlatSaid DEF c

\* Every book find_dutch_books reports; a field shows no cases.
LEMMA DutchBooksSaid ==
    ASSUME board \in Boards, NEW s \in Sports, NEW over, NEW row \in FindDutchBooks(Contracts(s), over)
    PROVE  Said(row)
<1> DEFINE kept == {m \in Trusted(Contracts(s)) : m.kind # "exact_order"}
           twoWay == {m \in kept : IsTwoWay(m)}
           fields == {m \in kept : ~IsTwoWay(m) /\ IsField(m)}
           pair(g) == {m \in twoWay : m.event = g[1] /\ m.kind = g[2]}
           field(e) == {m \in fields : m.event = e}
           pairs == {DetectTwoWay(g[1], pair(g), over) : g \in {<<m.event, m.kind>> : m \in twoWay}}
           inField == {DetectField(e, field(e)) : e \in {m.event : m \in fields}}
<1>1. row \in (UNION pairs) \cup (UNION inField)
  BY DEF FindDutchBooks
<1>2. \A g : pair(g) \in SUBSET Contracts(s)
  BY DEF Trusted
<1>3. \A ms, event : row \in DetectTwoWay(event, ms, over) => row \in Book(event, ms, over) /\ Cardinality(ms) \in {2, 3}
  BY DEF DetectTwoWay, DetectNWay, DetectPair, ProveMece
<1> HIDE DEF pair, field, twoWay, fields
<1>4. CASE row \in UNION pairs
  <2>1. PICK g : row \in DetectTwoWay(g[1], pair(g), over)
    BY <1>4
  <2>2. QED BY <1>2, <1>3, <2>1, BookRowSaid
<1>5. CASE row \in UNION inField
  <2>1. PICK e : row \in DetectField(e, field(e))
    BY <1>5
  <2>2. \E status, bucket, id, c, legs : row = [Finding("dutch_book", status, bucket, id, c, legs, NoGap) EXCEPT !.worst = NoGap]
    BY <2>1 DEF DetectField
  <2>3. row.worst = NoGap
    BY <2>2 DEF Finding
  <2>4. QED BY <2>3, NothingSaid
<1> HIDE DEF pairs, inField
<1>6. row \in UNION pairs \/ row \in UNION inField
  BY ONLY <1>1
<1>7. QED BY <1>4, <1>5, <1>6

\* Every basket find_group_baskets reports.
LEMMA BasketsSaid ==
    ASSUME board \in Boards, NEW s \in Sports, NEW row \in FindGroupBaskets(Contracts(s))
    PROVE  Said(row)
<1>1. PICK ms \in SUBSET {m \in Trusted(Contracts(s)) : IsGroupBasket(m)} : \E event : row \in DetectGroupBasket(event, ms)
  BY DEF FindGroupBaskets
<1>2. PICK event : row \in DetectGroupBasket(event, ms)
  BY <1>1
<1> DEFINE series == (CHOOSE m \in ms : TRUE).series
           rule == SportOf(series).baskets[series]
           f == 100 * rule.yes_floor
           g == 100 * rule.no_floor
           cands == Direction("yes", ms, f) \cup Direction("no", ms, g)
           c == Widest(cands)
           ceiling == 100 * (IF c.side = "yes" THEN rule.yes_ceiling_count ELSE rule.no_ceiling_count)
           best == ceiling - c.cost
<1>3. /\ cands # {} /\ Cardinality(ms) = rule.team_count
      /\ row = Finding("group_basket", "EXECUTABLE_GROUP_BASKET", StrictBucket(c, ms),
                       <<"group_basket", event, "basket">>, c, ms, best)
  BY <1>2 DEF DetectGroupBasket
<1>4. ms # {}
  BY <1>3 DEF Direction
<1>5. series \in DOMAIN SportOf(series).baskets
  BY <1>4 DEF IsGroupBasket
<1>6. rule.team_count = 4 /\ f \in Int /\ g \in Int
  BY <1>5, BasketFloors
<1>7. ms \in SUBSET Contracts(s)
  BY DEF Trusted
<1>8. BasketRule(ms) = rule
  BY DEF BasketRule
<1>9. cands \in SUBSET (Direction("yes", ms, f) \cup Direction("no", ms, g))
  OBVIOUS
<1>10. f = 100 * rule.yes_floor /\ g = 100 * rule.no_floor
       /\ ceiling = 100 * (IF c.side = "yes" THEN rule.yes_ceiling_count ELSE rule.no_ceiling_count)
  OBVIOUS
<1> HIDE DEF series, rule, f, g, ceiling, cands
<1>11. /\ c.side \in {"yes", "no"} /\ ms # {} /\ Priced(c.side, ms)
       /\ c.legs = Legs(c.side, ms) /\ c.cost = Cost(c.side, ms)
       /\ c.gap = (IF c.side = "yes" THEN f ELSE g) - c.cost
  BY <1>3, <1>6, <1>7, <1>9, ChosenWay
<1> HIDE DEF c
<1>12. row.legs = c.legs /\ row.cost = c.cost /\ row.worst = c.gap /\ row.best = ceiling - c.cost
  BY <1>3 DEF Finding
<1>13. Floor(c.side, ms) = (IF c.side = "yes" THEN f ELSE g) /\ Ceiling(c.side, ms) = ceiling
  BY <1>3, <1>6, <1>8, <1>10 DEF Floor, Ceiling
<1>14. QED BY <1>7, <1>11, <1>12, <1>13, BookSaid

-----------------------------------------------------------------------------
\* There are seven stages at which a team may go out.
LEMMA SevenBuckets == Cardinality(Buckets) = 7
<1>1. Cardinality({"FW"}) = 1 /\ IsFiniteSet({"FW"})
  BY FS_Singleton
<1>2. Cardinality({"FW"} \cup {"FL"}) = 2 /\ IsFiniteSet({"FW"} \cup {"FL"})
  BY <1>1, FS_AddElement
<1>3. {"FW"} \cup {"FL"} = {"FW", "FL"}
  OBVIOUS
<1>4. Cardinality({"FW", "FL"} \cup {"SF"}) = 3 /\ IsFiniteSet({"FW", "FL"} \cup {"SF"})
  BY <1>2, <1>3, FS_AddElement
<1>5. {"FW", "FL"} \cup {"SF"} = {"FW", "FL", "SF"}
  OBVIOUS
<1>6. Cardinality({"FW", "FL", "SF"} \cup {"QF"}) = 4 /\ IsFiniteSet({"FW", "FL", "SF"} \cup {"QF"})
  BY <1>4, <1>5, FS_AddElement
<1>7. {"FW", "FL", "SF"} \cup {"QF"} = {"FW", "FL", "SF", "QF"}
  OBVIOUS
<1>8. Cardinality({"FW", "FL", "SF", "QF"} \cup {"R16"}) = 5 /\ IsFiniteSet({"FW", "FL", "SF", "QF"} \cup {"R16"})
  BY <1>6, <1>7, FS_AddElement
<1>9. {"FW", "FL", "SF", "QF"} \cup {"R16"} = {"FW", "FL", "SF", "QF", "R16"}
  OBVIOUS
<1>10. /\ Cardinality({"FW", "FL", "SF", "QF", "R16"} \cup {"R32"}) = 6
       /\ IsFiniteSet({"FW", "FL", "SF", "QF", "R16"} \cup {"R32"})
  BY <1>8, <1>9, FS_AddElement
<1>11. {"FW", "FL", "SF", "QF", "R16"} \cup {"R32"} = {"FW", "FL", "SF", "QF", "R16", "R32"}
  OBVIOUS
<1>12. Cardinality({"FW", "FL", "SF", "QF", "R16", "R32"} \cup {"GS"}) = 7
  BY <1>10, <1>11, FS_AddElement
<1>13. Buckets = {"FW", "FL", "SF", "QF", "R16", "R32"} \cup {"GS"}
  <2>1. DOMAIN StageElimBuckets = 1..7
    BY DEF StageElimBuckets
  <2>2. /\ StageElimBuckets[1] = "GS" /\ StageElimBuckets[2] = "R32" /\ StageElimBuckets[3] = "R16"
        /\ StageElimBuckets[4] = "QF" /\ StageElimBuckets[5] = "SF" /\ StageElimBuckets[6] = "FL"
        /\ StageElimBuckets[7] = "FW"
    BY DEF StageElimBuckets
  <2>3. 1..7 = {1, 2, 3, 4, 5, 6, 7}
    OBVIOUS
  <2>4. QED BY <2>1, <2>2, <2>3 DEF Buckets
<1>14. QED BY <1>12, <1>13

\* Every book find_stage_elim_books reports.
LEMMA StageBooksSaid ==
    ASSUME board \in Boards, NEW s \in Sports, NEW row \in FindStageElimBooks(Contracts(s))
    PROVE  Said(row)
<1>1. PICK event : row \in DetectStageBook(event, StageRows(Contracts(s), event))
  BY DEF FindStageElimBooks
<1> DEFINE ms == StageRows(Contracts(s), event)
           cands == Directions(ms)
           c == Widest(cands)
           id == <<"stage_elim_book", event, (CHOOSE m \in ms : TRUE).key>>
<1>2. ms \in SUBSET Contracts(s)
  BY DEF StageRows, Trusted
<1>3. /\ cands # {} /\ Complete(ms)
      /\ row = Finding("stage_elim_book", "EXECUTABLE_STAGE_ELIM_BOOK", StrictBucket(c, ms), id, c, ms, c.gap)
  BY <1>1 DEF DetectStageBook, Firing, BookProof
<1>4. Cardinality(ms) = 7
  BY <1>3, SevenBuckets DEF Complete
<1>5. Cardinality(ms) \in Nat \ {1, 4}
  BY <1>4
<1> HIDE DEF id, ms, c
<1>6. row.legs = c.legs /\ row.cost = c.cost /\ row.worst = c.gap /\ row.best = c.gap
  BY <1>3 DEF Finding
<1>7. QED BY <1>2, <1>3, <1>5, <1>6, FlatSaid DEF c

-----------------------------------------------------------------------------
\* What is shown without a worst case.
LEMMA ShownSaid ==
    ASSUME NEW check, NEW status, NEW bucket, NEW tradable, NEW id, NEW legs, NEW cost, NEW floor, NEW best
    PROVE  LET row == Shown(check, status, bucket, tradable, id, legs, cost, floor, NoGap, best)
           IN Said(row) /\ Said(WithoutCost(row))
<1> DEFINE row == Shown(check, status, bucket, tradable, id, legs, cost, floor, NoGap, best)
<1>1. row.worst = NoGap /\ WithoutCost(row).worst = NoGap
  BY DEF Shown, WithoutCost
<1> HIDE DEF row
<1>2. QED BY <1>1, NothingSaid DEF row

\* A replication of a match or of a rung has no proven worst case.
LEMMA UnboundedSaid ==
    ASSUME NEW check, NEW status, NEW id, NEW c, NEW ms PROVE Said(Review(check, status, id, c, ms, FALSE))
<1>1. Review(check, status, id, c, ms, FALSE).worst = NoGap
  BY DEF Review, Finding
<1>2. QED BY <1>1, NothingSaid

\* Every row of find_synthetic_bundles.
LEMMA BundlesSaid ==
    ASSUME NEW contracts, NEW row \in FindSyntheticBundles(contracts)
    PROVE  Said(row)
<1>1. \A event, key, ms, hedge, kind : row \in DetectPlayerBundle(event, key, ms, hedge, kind) => Said(row)
  <2> SUFFICES ASSUME NEW event, NEW key, NEW ms, NEW hedge, NEW kind,
                      row \in DetectPlayerBundle(event, key, ms, hedge, kind)
               PROVE  Said(row)
    OBVIOUS
  <2>1. \E id, c, legs : row = Review("synthetic_bundle", "EXECUTABLE_SYNTHETIC_BUNDLE", id, c, legs, FALSE)
    BY DEF DetectPlayerBundle
  <2>2. QED BY <2>1, UnboundedSaid
<1> DEFINE scores == {m \in contracts : m.kind = "exact_score"}
           of(g) == {m \in scores : m.event = g[1] /\ m.key = g[2]}
           advances(g) == AdvanceHedge({m \in contracts : m.tour = (CHOOSE n \in of(g) : TRUE).tour},
                                       g[2], Implied(of(g)))
           matched(g) == UNION {DetectPlayerBundle(g[1], g[2], of(g), h, "match") : h \in MatchHedge(contracts, g[2])}
           advanced(g) == UNION {DetectPlayerBundle(g[1], g[2], of(g), h, "advance") : h \in advances(g)}
<1>2. FindSyntheticBundles(contracts) = UNION {matched(g) \cup advanced(g) : g \in {<<m.event, m.key>> : m \in scores}}
  BY DEF FindSyntheticBundles
<1>3. \A g : row \in matched(g) \cup advanced(g) => Said(row)
  <2> HIDE DEF of, advances
  <2>1. QED BY <1>1
<1> HIDE DEF scores, matched, advanced
<1>4. QED BY <1>2, <1>3

\* Every row of find_exact_order_premiums.
LEMMA PremiumsSaid ==
    ASSUME NEW contracts, NEW r \in FindExactOrderPremiums(contracts)
    PROVE  Said(WithoutCost(r))
<1>1. \E event, ms : r \in DetectGroup(contracts, event, ms)
  BY DEF FindExactOrderPremiums
<1>2. \E event, top, q : r = TopTwoBundle(event, top, q)
  BY <1>1 DEF DetectGroup
<1>3. QED BY <1>2, ShownSaid DEF TopTwoBundle

\* Every row of find_game_support_signals.
LEMMA SignalsSaid ==
    ASSUME NEW contracts, NEW row \in FindGameSupportSignals(contracts)
    PROVE  Said(row)
<1> DEFINE games == {m \in Games(contracts) : ValidGame({n \in Games(contracts) : n.event = m.event})}
           teams == {m.id : m \in {x \in games : ~x.tie}} \ {""}
           qualifier(id) == LastOf({m \in contracts : m.series = "KXWCGROUPQUAL" /\ m.id = id})
           wins(t) == {m \in games : m.id = t /\ ~m.tie}
           of(t) == {Signal(games, wins(t), q) : q \in qualifier(t)}
<1>1. FindGameSupportSignals(contracts) = UNION {UNION of(t) : t \in teams}
  BY DEF FindGameSupportSignals
<1> HIDE DEF games, teams, qualifier, wins
<1>2. PICK t, q : row \in Signal(games, wins(t), q)
  BY <1>1
<1> DEFINE info == {[side |-> "info", ticker |-> m.ticker, price |-> 3 * m.ask + TieOf(games, m).ask] : m \in wins(t)}
<1>3. row = Shown("game_support", "GAME_SUPPORT_SIGNAL", "qualifier_setup", "Diagnostic only",
                  <<"game_support", q.id>>, info, None, None, NoGap, NoGap)
  BY <1>2 DEF Signal
<1> HIDE DEF info
<1>4. QED BY <1>3, ShownSaid

\* Every row of find_conditional_blends.
LEMMA BlendsSaid ==
    ASSUME NEW contracts, NEW row \in FindConditionalBlends(contracts)
    PROVE  Said(row)
<1> DEFINE known == {m \in contracts : Recognised(m)}
           of(t) == {m \in known : m.tour = t}
           pairs(t) == {q \in LadderOf(of(t)).adjacent :
                          /\ q[1] \in Range(LadderOf(of(t)).order) /\ q[2] \in Range(LadderOf(of(t)).order)
                          /\ SurvivorsOf(SportOf((CHOOSE m \in of(t) : TRUE).series), q[2]) = 2}
<1>1. FindConditionalBlends(contracts) = UNION {UNION {Blend(t, of(t), p) : p \in pairs(t)} : t \in {m.tour : m \in known}}
  BY DEF FindConditionalBlends
<1> HIDE DEF known, of, pairs
<1>2. PICK t, p : row \in Blend(t, of(t), p)
  BY <1>1
<1>3. \E id, legs, cost : row = Shown("conditional_blend", "MODEL_BLEND_CANDIDATE", "speculative_model",
                                      "Speculative - model validation only", id, legs, cost, None, NoGap, NoGap)
  BY <1>2 DEF Blend
<1>4. QED BY <1>3, ShownSaid

-----------------------------------------------------------------------------
\* No stage at which a team goes out is a rung of a ladder.
LEMMA StageOffLadder ==
    ASSUME NEW s, NEW c \in Contracts(s), c.kind = "stage_of_elim"
    PROVE  c.node = NoNode
<1>1. \A cfg \in Sportses : "stage_of_elim" \notin DOMAIN cfg.leaf
  <2>1. "stage_of_elim" \notin DOMAIN Tennis.leaf BY DEF Tennis, Default
  <2>2. "stage_of_elim" \notin DOMAIN Nba.leaf BY DEF Nba, Default
  <2>3. "stage_of_elim" \notin DOMAIN Wnba.leaf BY DEF Wnba, Default
  <2>4. "stage_of_elim" \notin DOMAIN Golf.leaf BY DEF Golf, Default
  <2>5. "stage_of_elim" \notin DOMAIN Soccer.leaf BY DEF Soccer, Default
  <2>6. "stage_of_elim" \notin DOMAIN Mlb.leaf BY DEF Mlb, Default
  <2>7. "stage_of_elim" \notin DOMAIN Nhl.leaf BY DEF Nhl, Default
  <2>8. "stage_of_elim" \notin DOMAIN Nfl.leaf BY DEF Nfl, Default
  <2>9. "stage_of_elim" \notin DOMAIN Motorsport.leaf BY DEF Motorsport, Default
  <2>10. "stage_of_elim" \notin DOMAIN Esports.leaf BY DEF Esports, Default
  <2>11. "stage_of_elim" \notin DOMAIN Unknown.leaf BY DEF Unknown, Default
  <2>12. QED BY <2>1, <2>2, <2>3, <2>4, <2>5, <2>6, <2>7, <2>8, <2>9, <2>10, <2>11 DEF Sportses
<1>2. PICK e \in board.events[s] : \E m \in e.markets : c = Contract(e, m)
  BY ContractIs
<1>3. PICK m \in e.markets : c = Contract(e, m)
  BY <1>2
<1> DEFINE cfg == SportOf(e.series)
           family == FamilyOf(cfg, e.series)
           stage == StageOf(cfg, family, e.series, m.round)
<1>4. c.node = NodeOf(cfg, family, stage) /\ c.kind = family
  BY <1>3 DEF Contract, With
<1>5. cfg \in Sportses
  BY SportIs
<1> HIDE DEF cfg, family, stage
<1>6. QED BY <1>1, <1>4, <1>5 DEF NodeOf

-----------------------------------------------------------------------------
\* What one side of some contracts costs is a number, and so is what one of them costs.
LEMMA CostNat ==
    ASSUME board \in Boards, NEW s \in Sports, NEW ms \in SUBSET Contracts(s), NEW side \in {"yes", "no"},
           Priced(side, ms)
    PROVE  Cost(side, ms) \in Nat
<1> DEFINE asks == [m \in ms |-> m.ask]
           noAsks == [m \in ms |-> BuyNo(m)]
           x == SumOf(asks, ms)
           y == SumOf(noAsks, ms)
<1>1. /\ Priced("yes", ms) => Cost("yes", ms) = x /\ x \in Nat
      /\ Priced("no", ms) => Cost("no", ms) = y /\ y \in Nat
  BY SideCost
<1> HIDE DEF x, y
<1>2. QED BY <1>1

\* What is bought is quoted in whole cents.
LEMMA BuyNat ==
    ASSUME board \in Boards, NEW s \in Sports, NEW c \in Contracts(s), NEW side, BuyPrice(side, c) # None
    PROVE  /\ BuyPrice(side, c) \in Nat
           /\ BuyPrice(side, c) = IF side = "yes" THEN c.ask ELSE BuyNo(c)
<1>1. Quoted(c)
  BY ContractQuoted
<1>2. CASE side = "yes"
  BY <1>1, <1>2, PriceCents DEF BuyPrice
<1>3. CASE side # "yes"
  BY <1>1, <1>3, PriceCents DEF BuyPrice
<1>4. QED BY <1>2, <1>3

-----------------------------------------------------------------------------
\* The replication that is chosen is one of the two.
LEMMA ChosenReplica ==
    ASSUME board \in Boards, NEW s \in Sports, NEW parts \in SUBSET Contracts(s), NEW whole \in Contracts(s),
           NEW cands, cands = Replications(parts, whole), cands # {}
    PROVE  LET c == Widest(cands)
           IN \/ /\ Priced("yes", parts) /\ BuyPrice("no", whole) # None
                 /\ c.legs = Legs("yes", parts) \cup {Leg("no", whole)}
                 /\ c.cost = Cost("yes", parts) + BuyPrice("no", whole) /\ c.floor = 100 /\ c.gap = 100 - c.cost
              \/ /\ Priced("no", parts) /\ BuyPrice("yes", whole) # None
                 /\ c.legs = Legs("no", parts) \cup {Leg("yes", whole)}
                 /\ c.cost = Cost("no", parts) + BuyPrice("yes", whole)
                 /\ c.floor = 100 * Cardinality(parts) /\ c.gap = 100 * Cardinality(parts) - c.cost
<1> DEFINE sized(side, other) == Units(side, parts) # None /\ Pos(BuySize(other, whole))
           way(side, other, floor) ==
             [side |-> side, legs |-> Legs(side, parts) \cup {Leg(other, whole)},
              cost |-> Cost(side, parts) + BuyPrice(other, whole), floor |-> floor,
              gap |-> floor - (Cost(side, parts) + BuyPrice(other, whole)),
              units |-> IF sized(side, other) THEN Min({Units(side, parts), BuySize(other, whole)}) ELSE None]
           g == 100 * Cardinality(parts)
           forward == Priced("yes", parts) /\ BuyPrice("no", whole) # None
           reverse == Priced("no", parts) /\ BuyPrice("yes", whole) # None
           x == IF forward THEN way("yes", "no", 100) ELSE [side |-> "yes", gap |-> 0]
           y == IF reverse THEN way("no", "yes", g) ELSE [side |-> "no", gap |-> 0]
<1>1. /\ cands \in SUBSET {x, y}
      /\ x \in cands => forward /\ x = way("yes", "no", 100)
      /\ y \in cands => reverse /\ y = way("no", "yes", g)
  BY DEF Replications, Replication
<1>2. forward => Cost("yes", parts) + BuyPrice("no", whole) \in Int
  <2>1. Priced("yes", parts) => Cost("yes", parts) \in Nat
    BY CostNat
  <2>2. BuyPrice("no", whole) # None => BuyPrice("no", whole) \in Nat
    BY BuyNat
  <2>3. QED BY <2>1, <2>2
<1>3. reverse => Cost("no", parts) + BuyPrice("yes", whole) \in Int
  <2>1. Priced("no", parts) => Cost("no", parts) \in Nat
    BY CostNat
  <2>2. BuyPrice("yes", whole) # None => BuyPrice("yes", whole) \in Nat
    BY BuyNat
  <2>3. QED BY <2>1, <2>2
<1>4. g \in Int
  BY ContractsFinite, FS_Subset, FS_CardinalityType
<1>5. \A side, other, floor :
        /\ way(side, other, floor).side = side
        /\ way(side, other, floor).legs = Legs(side, parts) \cup {Leg(other, whole)}
        /\ way(side, other, floor).cost = Cost(side, parts) + BuyPrice(other, whole)
        /\ way(side, other, floor).floor = floor
        /\ way(side, other, floor).gap = floor - (Cost(side, parts) + BuyPrice(other, whole))
  OBVIOUS
<1> HIDE DEF way, g
<1>6. x.side = "yes" /\ x.gap \in Int /\ y.side = "no" /\ y.gap \in Int
  BY <1>2, <1>3, <1>4, <1>5
<1> HIDE DEF x, y
<1>7. Widest(cands) \in cands
  BY <1>1, <1>6, WidestIn
<1>8. CASE Widest(cands) = x
  BY <1>1, <1>5, <1>7, <1>8
<1>9. CASE Widest(cands) = y
  BY <1>1, <1>5, <1>7, <1>9 DEF g
<1>10. QED BY <1>1, <1>7, <1>8, <1>9

-----------------------------------------------------------------------------
\* What is bought of some contracts on one side and of one on the other.
LEMMA MixedOutlay ==
    ASSUME board \in Boards, NEW s \in Sports, NEW parts \in SUBSET Contracts(s), NEW whole \in Contracts(s)
    PROVE  /\ Priced("yes", parts) /\ BuyPrice("no", whole) # None
                => Outlay(parts, {whole}) = Cost("yes", parts) + BuyPrice("no", whole)
           /\ Priced("no", parts) /\ BuyPrice("yes", whole) # None
                => Outlay({whole}, parts) = Cost("no", parts) + BuyPrice("yes", whole)
<1> DEFINE asks(S) == [m \in S |-> m.ask]
           noAsks(S) == [m \in S |-> BuyNo(m)]
<1>1. /\ \A yes, no : Outlay(yes, no) = SumOf(asks(yes), yes) + SumOf(noAsks(no), no)
      /\ Priced("yes", parts) => Cost("yes", parts) = SumOf(asks(parts), parts) /\ SumOf(asks(parts), parts) \in Nat
      /\ Priced("no", parts) => Cost("no", parts) = SumOf(noAsks(parts), parts) /\ SumOf(noAsks(parts), parts) \in Nat
  BY SideCost DEF Outlay
<1>2. asks({whole})[whole] = whole.ask /\ noAsks({whole})[whole] = BuyNo(whole)
  OBVIOUS
<1> HIDE DEF asks, noAsks
<1>3. BuyPrice("no", whole) # None => SumOf(noAsks({whole}), {whole}) = BuyPrice("no", whole)
                                      /\ BuyPrice("no", whole) \in Nat
  BY <1>2, BuyNat, SumSingle
<1>4. BuyPrice("yes", whole) # None => SumOf(asks({whole}), {whole}) = BuyPrice("yes", whole)
                                       /\ BuyPrice("yes", whole) \in Nat
  BY <1>2, BuyNat, SumSingle
<1>5. QED BY <1>1, <1>3, <1>4

\* The legs of a replication buy one side of the parts and the other of the whole.
LEMMA MixedBuy ==
    ASSUME NEW row, NEW parts, NEW whole
    PROVE  /\ row.legs = Legs("yes", parts) \cup {Leg("no", whole)} => Purchase(row) = Bought(parts, {whole})
           /\ row.legs = Legs("no", parts) \cup {Leg("yes", whole)} => Purchase(row) = Bought({whole}, parts)
<1> DEFINE buys(side, ms) == {<<side, m.ticker>> : m \in ms}
<1>1. ASSUME NEW side, NEW other, row.legs = Legs(side, parts) \cup {Leg(other, whole)}
      PROVE  Purchase(row) = buys(side, parts) \cup buys(other, {whole})
  <2> DEFINE leg(m) == [side |-> side, ticker |-> m.ticker, price |-> BuyPrice(side, m)]
             last == Leg(other, whole)
  <2>1. Purchase(row) = {<<l.side, l.ticker>> : l \in {leg(m) : m \in parts} \cup {last}}
    BY <1>1 DEF Purchase, Legs
  <2>2. (\A m : leg(m).side = side /\ leg(m).ticker = m.ticker) /\ last.side = other /\ last.ticker = whole.ticker
    BY DEF Leg
  <2> HIDE DEF leg, last
  <2>3. QED BY <2>1, <2>2
<1>2. \A yes, no : Bought(yes, no) = buys("yes", yes) \cup buys("no", no)
  BY DEF Bought
<1> HIDE DEF buys
<1>3. /\ Bought(parts, {whole}) = buys("yes", parts) \cup buys("no", {whole})
      /\ Bought({whole}, parts) = buys("no", parts) \cup buys("yes", {whole})
  BY <1>2
<1>4. QED BY <1>1, <1>3

\* A replication none of whose parts contains the whole or is contained in it.
LEMMA ReplicaSaid ==
    ASSUME board \in Boards, NEW s \in Sports, NEW parts \in SUBSET Contracts(s), NEW whole \in Contracts(s),
           parts # {}, \A m \in parts : ~Contains(m, whole) /\ ~Contains(whole, m),
           NEW cands, cands = Replications(parts, whole), cands # {},
           NEW row, row.legs = Widest(cands).legs, row.cost = Widest(cands).cost,
           row.worst = Widest(cands).gap, row.best = Widest(cands).gap
    PROVE  Said(row)
<1> DEFINE c == Widest(cands)
<1>1. \/ /\ Priced("yes", parts) /\ BuyPrice("no", whole) # None
         /\ c.legs = Legs("yes", parts) \cup {Leg("no", whole)}
         /\ c.cost = Cost("yes", parts) + BuyPrice("no", whole) /\ c.gap = 100 - c.cost
      \/ /\ Priced("no", parts) /\ BuyPrice("yes", whole) # None
         /\ c.legs = Legs("no", parts) \cup {Leg("yes", whole)}
         /\ c.cost = Cost("no", parts) + BuyPrice("yes", whole)
         /\ c.gap = 100 * Cardinality(parts) - c.cost
  BY ChosenReplica
<1>2. row.legs = c.legs /\ row.cost = c.cost /\ row.worst = c.gap /\ row.best = c.gap
  OBVIOUS
<1>3. parts \in SUBSET AllContracts /\ {whole} \in SUBSET AllContracts
  BY DEF AllContracts
<1>4. ~Nested(parts, {whole}) /\ ~Nested({whole}, parts)
  BY DEF Nested
<1>5. Cardinality({whole}) = 1
  BY FS_Singleton
<1> HIDE DEF c
<1>6. CASE /\ Priced("yes", parts) /\ BuyPrice("no", whole) # None
           /\ c.legs = Legs("yes", parts) \cup {Leg("no", whole)}
           /\ c.cost = Cost("yes", parts) + BuyPrice("no", whole) /\ c.gap = 100 - c.cost
  <2>1. Purchase(row) = Bought(parts, {whole}) /\ row.cost = Outlay(parts, {whole})
    BY <1>2, <1>6, MixedBuy, MixedOutlay
  <2>2. Least(parts, {whole}) = 100 /\ Most(parts, {whole}) = 100
    BY <1>4, <1>5 DEF Least, Most
  <2>3. Says(row, parts, {whole})
    BY <1>2, <1>6, <2>1, <2>2 DEF Says
  <2>4. QED BY <1>3, <2>3 DEF Said
<1>7. CASE /\ Priced("no", parts) /\ BuyPrice("yes", whole) # None
           /\ c.legs = Legs("no", parts) \cup {Leg("yes", whole)}
           /\ c.cost = Cost("no", parts) + BuyPrice("yes", whole)
           /\ c.gap = 100 * Cardinality(parts) - c.cost
  <2>1. Purchase(row) = Bought({whole}, parts) /\ row.cost = Outlay({whole}, parts)
    <3>4. row.legs = Legs("no", parts) \cup {Leg("yes", whole)}
      BY <1>2, <1>7
    <3>1. Purchase(row) = Bought({whole}, parts)
      BY ONLY <3>4, MixedBuy
    <3>2. Outlay({whole}, parts) = Cost("no", parts) + BuyPrice("yes", whole)
      BY <1>7, MixedOutlay
    <3>3. QED BY <1>2, <1>7, <3>1, <3>2
  <2>2. Least({whole}, parts) = 100 * Cardinality(parts) /\ Most({whole}, parts) = 100 * Cardinality(parts)
    BY <1>4 DEF Least, Most
  <2>3. Says(row, {whole}, parts)
    BY <1>2, <1>7, <2>1, <2>2 DEF Says
  <2>4. QED BY <1>3, <2>3 DEF Said
<1>8. QED BY <1>1, <1>6, <1>7

-----------------------------------------------------------------------------
\* Every rung is reached by the teams that go out at the last stage, and so by one of the buckets.
LEMMA TailNotEmpty ==
    ASSUME NEW node \in DOMAIN RungTails, NEW ms, Complete(ms)
    PROVE  \E m \in ms : m.round \in RungTails[node]
<1>1. "FW" \in RungTails[node]
  BY DEF RungTails
<1>2. "FW" \in Buckets
  <2>1. 7 \in DOMAIN StageElimBuckets /\ StageElimBuckets[7] = "FW"
    BY DEF StageElimBuckets
  <2>2. QED BY <2>1 DEF Buckets
<1>3. PICK m \in ms : m.round = "FW"
  BY <1>2 DEF Complete
<1>4. QED BY <1>1, <1>3

\* Every row of find_stage_elim_synthetics.
LEMMA StageSyntheticsSaid ==
    ASSUME board \in Boards, NEW s \in Sports, NEW row \in FindStageElimSynthetics(Contracts(s))
    PROVE  Said(row)
<1> DEFINE of(e) == StageRows(Contracts(s), e)
           team(e) == (CHOOSE m \in of(e) : TRUE).key
           hedges(e, n) == AdvanceHedge(Contracts(s), team(e), n)
<1>1. \E e : \E n \in DOMAIN RungTails : \E h \in hedges(e, n) :
        Complete(of(e)) /\ row \in DetectStageSynthetic(e, team(e), of(e), n, h)
  BY DEF FindStageElimSynthetics
<1>2. PICK e : \E n \in DOMAIN RungTails : \E h \in hedges(e, n) :
        Complete(of(e)) /\ row \in DetectStageSynthetic(e, team(e), of(e), n, h)
  BY <1>1
<1>3. PICK n \in DOMAIN RungTails : \E h \in hedges(e, n) :
        Complete(of(e)) /\ row \in DetectStageSynthetic(e, team(e), of(e), n, h)
  BY <1>2
<1>4. PICK h \in hedges(e, n) : Complete(of(e)) /\ row \in DetectStageSynthetic(e, team(e), of(e), n, h)
  BY <1>3
<1>5. of(e) \in SUBSET Contracts(s) /\ \A m \in of(e) : m.kind = "stage_of_elim"
  BY DEF StageRows, Trusted
<1>6. h \in Contracts(s) /\ h.kind \in {"advance", "winner"}
  BY DEF AdvanceHedge, FirstOf
<1> DEFINE tail == {m \in of(e) : m.round \in RungTails[n]}
           cands == Replications(tail, h)
           c == Widest(cands)
           id == <<"stage_elim_synth", e, team(e), n>>
           ms == tail \cup {h}
<1>7. /\ row = Review("stage_elim_synth", "STAGE_ELIM_SYNTHETIC", id, c, ms, TRUE)
      /\ cands # {}
  BY <1>4 DEF DetectStageSynthetic, Firing
<1>8. tail \in SUBSET Contracts(s)
  BY <1>5
<1>9. tail # {}
  BY <1>4, TailNotEmpty
<1>10. ASSUME NEW m \in tail PROVE ~Contains(m, h) /\ ~Contains(h, m)
  <2>1. m.kind = "stage_of_elim" /\ m \in Contracts(s)
    BY <1>5
  <2>2. m.node = NoNode
    BY <2>1, StageOffLadder
  <2>3. m.event # h.event
    BY <1>6, <2>1, ContractsTold
  <2>4. QED BY <2>2, <2>3 DEF Contains
<1> HIDE DEF of, id, ms, c, tail, team, hedges
<1>11. row.legs = c.legs /\ row.cost = c.cost /\ row.worst = c.gap /\ row.best = c.gap
  BY <1>7 DEF Review, Finding
<1>12. cands = Replications(tail, h)
  OBVIOUS
<1> HIDE DEF cands
<1>13. QED BY <1>6, <1>7, <1>8, <1>9, <1>10, <1>11, <1>12, ReplicaSaid DEF c

-----------------------------------------------------------------------------
\* What a plan pays after its cost.
ProfitsAt(cost, rel) == {p - cost : p \in Payouts(rel = "match_alignment")}

\* The least and the most of it.
LEMMA ProfitsOf ==
    ASSUME NEW cost \in Int, NEW rel
    PROVE  /\ ProfitsAt(cost, rel) # {} /\ Min(ProfitsAt(cost, rel)) = 100 - cost
           /\ Max(ProfitsAt(cost, rel)) = (IF rel = "match_alignment" THEN 100 ELSE 200) - cost
<1> DEFINE a == 100 - cost
           b == (IF rel = "match_alignment" THEN 100 ELSE 200) - cost
<1>1. a \in Int /\ b \in Int /\ a <= b
  OBVIOUS
<1>2. ProfitsAt(cost, rel) = {a, b}
  <2>1. CASE rel = "match_alignment"
    BY <2>1 DEF Payouts, ProfitsAt
  <2>2. CASE rel # "match_alignment"
    BY <2>2 DEF Payouts, ProfitsAt
  <2>3. QED BY <2>1, <2>2
<1> HIDE DEF a, b
<1>3. ProfitsAt(cost, rel) # {} /\ Min(ProfitsAt(cost, rel)) = a /\ Max(ProfitsAt(cost, rel)) = b
  BY <1>1, <1>2, LeastOfTwo
<1>4. QED BY <1>3 DEF a, b

\* What a plan for two contracts costs, and what it buys.
PlanPriced(legs, long, short) ==
    PlanCost(legs) # None => /\ PlanCost(legs) \in Int /\ PlanCost(legs) = long.ask + BuyNo(short)
                             /\ long.ask # None /\ BuyNo(short) # None

LEMMA PlanPrices ==
    ASSUME board \in Boards, NEW long \in AllContracts, NEW short \in AllContracts,
           NEW ask \in {long.ask, None}, NEW noAsk \in {BuyNo(short), None},
           NEW legs, legs = PairLegs(long, ask, short, noAsk)
    PROVE  PlanPriced(legs, long, short)
<1>1. ask \in 0..100 \cup {None}
  BY AllQuoted, PriceCents
<1>2. noAsk \in 0..100 \cup {None}
  BY AllQuoted, PriceCents
<1>3. PlanCost(legs) = IF ask # None /\ noAsk # None THEN ask + noAsk ELSE None
  BY <1>1, <1>2, PairCost
<1>5. ASSUME PlanCost(legs) # None
      PROVE  /\ PlanCost(legs) \in Int /\ PlanCost(legs) = long.ask + BuyNo(short)
             /\ long.ask # None /\ BuyNo(short) # None
  <2>1. ask # None /\ noAsk # None
    BY <1>3, <1>5
  <2>2. ask = long.ask /\ noAsk = BuyNo(short)
    BY <2>1
  <2>3. ask \in Int /\ noAsk \in Int
    BY <1>1, <1>2, <2>1
  <2>4. PlanCost(legs) = ask + noAsk
    BY <1>3, <2>1
  <2>5. QED BY <2>1, <2>2, <2>3, <2>4
<1>6. QED BY <1>5 DEF PlanPriced

LEMMA PlanBuys ==
    ASSUME board \in Boards, NEW long \in AllContracts, NEW short \in AllContracts,
           NEW ask \in {long.ask, None}, NEW noAsk \in {BuyNo(short), None},
           NEW legs, legs = PairLegs(long, ask, short, noAsk)
    PROVE  {<<l.side, l.ticker>> : l \in legs} = Bought({long}, {short})
<1>1. ask \in 0..100 \cup {None}
  BY AllQuoted, PriceCents
<1>2. noAsk \in 0..100 \cup {None}
  BY AllQuoted, PriceCents
<1>3. QED BY <1>1, <1>2, PairCost

LEMMA PlanPair ==
    ASSUME board \in Boards, NEW long \in AllContracts, NEW short \in AllContracts,
           NEW ask \in {long.ask, None}, NEW noAsk \in {BuyNo(short), None},
           NEW legs, legs = PairLegs(long, ask, short, noAsk)
    PROVE  /\ PlanCost(legs) # None => /\ PlanCost(legs) \in Int /\ PlanCost(legs) = long.ask + BuyNo(short)
                                       /\ long.ask # None /\ BuyNo(short) # None
           /\ {<<l.side, l.ticker>> : l \in legs} = Bought({long}, {short})
<1>1. {<<l.side, l.ticker>> : l \in legs} = Bought({long}, {short})
  BY PlanBuys
<1>2. PlanPriced(legs, long, short)
  BY PlanPrices
<1>3. QED BY <1>1, <1>2 DEF PlanPriced

\* A row that compares two contracts, of which one contains the other unless they are to price alike.
LEMMA CheckSaid ==
    ASSUME board \in Boards, NEW child \in AllContracts, NEW parent \in AllContracts,
           NEW rel, NEW childNode, NEW parentNode, NEW ladder, NEW budget,
           Contains(child, parent) <=> rel # "match_alignment"
    PROVE  Said(Check(rel, child, parent, childNode, parentNode, ladder, budget))
<1> DEFINE eq == rel = "match_alignment"
           status == StatusOf(child, parent, eq, budget)
           plan == Plan(child, parent, eq)
           legs == IF status \in ActionStatuses THEN plan ELSE {}
           cost == PlanCost(legs)
           profits == IF cost = None THEN {} ELSE ProfitsAt(cost, rel)
           row == Check(rel, child, parent, childNode, parentNode, ladder, budget)
<1>1. /\ row.legs = legs /\ row.cost = PlanCost(legs)
      /\ row.worst = (IF profits = {} THEN NoGap ELSE Min(profits))
      /\ row.best = (IF profits = {} THEN NoGap ELSE Max(profits))
  BY DEF Check, ProfitsAt
<1>2. /\ cost = PlanCost(legs)
      /\ profits = IF cost = None THEN {} ELSE ProfitsAt(cost, rel)
      /\ legs = {} \/ legs = plan
      /\ ~eq <=> Contains(child, parent)
  OBVIOUS
<1>3. \E long, short \in {child, parent} : {long, short} = {child, parent}
                                          /\ plan = PairLegs(long, long.ask, short, BuyNo(short))
  BY DEF Plan, PairLegs
<1> HIDE DEF plan, legs, cost, profits, row
<1>4. PICK long, short \in {child, parent} : {long, short} = {child, parent}
                                            /\ plan = PairLegs(long, long.ask, short, BuyNo(short))
  BY <1>3
<1>5. CASE legs = {} \/ cost = None
  BY <1>1, <1>2, <1>5, NothingSaid DEF row
<1>6. CASE legs = plan /\ cost # None
  <2>1. Contains(long, short) <=> ~eq
    <3>1. (long = child /\ short = parent) \/ (long = parent /\ short = child)
      BY <1>4
    <3>2. Contains(child, parent) <=> Contains(parent, child)
      BY DEF Contains
    <3>3. QED BY <1>2, <3>1, <3>2
  <2>2. long \in AllContracts /\ short \in AllContracts
    OBVIOUS
  <2>3. legs = PairLegs(long, long.ask, short, BuyNo(short)) /\ row.legs = legs
        /\ row.cost = PlanCost(legs) /\ row.cost = cost
    BY <1>1, <1>2, <1>4, <1>6
  <2>4. PlanCost(legs) # None
    BY <1>2, <1>6
  <2>5. cost \in Int /\ cost = long.ask + BuyNo(short) /\ long.ask # None /\ BuyNo(short) # None
    <3> DEFINE ask == long.ask
               noAsk == BuyNo(short)
    <3>1. ask \in {long.ask, None} /\ noAsk \in {BuyNo(short), None}
      OBVIOUS
    <3>2. legs = PairLegs(long, ask, short, noAsk)
      BY <2>3
    <3> HIDE DEF ask, noAsk
    <3>3. PlanPriced(legs, long, short)
      BY <2>2, <3>1, <3>2, PlanPrices
    <3>4. PlanCost(legs) = cost /\ cost # None
      BY <2>3, <2>4
    <3> HIDE DEF legs, cost
    <3>5. QED BY <3>3, <3>4 DEF PlanPriced
  <2>6. {<<l.side, l.ticker>> : l \in legs} = Bought({long}, {short})
    <3> DEFINE ask == long.ask
               noAsk == BuyNo(short)
    <3>1. ask \in {long.ask, None} /\ noAsk \in {BuyNo(short), None}
      OBVIOUS
    <3>2. legs = PairLegs(long, ask, short, noAsk)
      BY <2>3
    <3> HIDE DEF legs, ask, noAsk
    <3>3. QED BY <2>2, <3>1, <3>2, PlanBuys
  <2>7. profits = ProfitsAt(cost, rel)
    BY <1>2, <1>6
  <2>8. row.worst = 100 - cost /\ row.best = (IF eq THEN 100 ELSE 200) - cost
    <3>1. cost \in Int
      BY <2>5
    <3>2. profits # {} /\ Min(profits) = 100 - cost /\ Max(profits) = (IF eq THEN 100 ELSE 200) - cost
      BY <2>7, <3>1, ProfitsOf
    <3>3. QED BY <1>1, <3>2
  <2>9. Purchase(row) = Bought({long}, {short})
    BY <2>3, <2>6 DEF Purchase
  <2>10. Said(row)
    BY <2>1, <2>2, <2>3, <2>5, <2>8, <2>9, PairSaid
  <2>11. QED BY <2>10 DEF row
<1>7. QED BY <1>2, <1>5, <1>6

-----------------------------------------------------------------------------
\* Contracts of two rungs contain one another; a match and the market of the node it reaches do not.
LEMMA RungsContain ==
    ASSUME board \in Boards, NEW s \in Sports, NEW listed \in SUBSET Contracts(s), NEW n, NEW k, n # NoNode, k # NoNode
    PROVE  /\ n # k /\ Has(listed, n, "market") /\ Has(listed, k, "market")
                => Contains(Representative(listed, n, "market"), Representative(listed, k, "market"))
           /\ Has(listed, n, "match") /\ Has(listed, n, "market")
                => ~Contains(Representative(listed, n, "match"), Representative(listed, n, "market"))
<1>1. \A node, source : Has(listed, node, source) =>
        /\ Representative(listed, node, source) \in Contracts(s)
        /\ Representative(listed, node, source).node = node
        /\ Source(Representative(listed, node, source)) = source
  BY RepresentativeAt DEF At
<1>2. ASSUME n # k, Has(listed, n, "market"), Has(listed, k, "market")
      PROVE  Contains(Representative(listed, n, "market"), Representative(listed, k, "market"))
  <2>1. /\ Representative(listed, n, "market").node = n
        /\ Representative(listed, k, "market").node = k
    BY <1>1, <1>2
  <2>2. QED BY <1>2, <2>1 DEF Contains
<1>3. ASSUME Has(listed, n, "match"), Has(listed, n, "market")
      PROVE  ~Contains(Representative(listed, n, "match"), Representative(listed, n, "market"))
  <2> DEFINE c == Representative(listed, n, "match")
             d == Representative(listed, n, "market")
  <2>1. /\ c \in Contracts(s) /\ c.node = n /\ Source(c) = "match"
        /\ d \in Contracts(s) /\ d.node = n /\ Source(d) = "market"
    BY <1>1, <1>3
  <2> HIDE DEF c, d
  <2>2. c.kind # d.kind
    BY <2>1 DEF Source
  <2>3. c.event # d.event
    BY <2>1, <2>2, ContractsTold
  <2>4. ~Contains(c, d)
    BY <2>1, <2>3 DEF Contains
  <2>5. QED BY <2>4 DEF c, d
<1>4. QED BY <1>2, <1>3

\* Every row of build_checks.
LEMMA ChecksSaid ==
    ASSUME board \in Boards, NEW s \in Sports, NEW row \in BuildChecks(Contracts(s), RiskBudget)
    PROVE  Said(row)
<1> DEFINE cs == Contracts(s)
<1>1. PICK g \in Groups(cs) : \/ \E p : AdjacentOf(cs, g, row, p)
                              \/ \E p : TransitiveOf(cs, g, row, p)
                              \/ \E n : AlignmentOf(cs, g, row, n)
                              \/ \E m : UnmappedOf(cs, g, row, m)
  BY ChecksAre
<1> DEFINE rs == RowsOf(cs, g)
           ladder == LadderOf(rs)
           rep(n, source) == Representative(rs, n, source)
<1>2. rs \in SUBSET Contracts(s)
  BY DEF RowsOf
<1>3. GoodLadder(ladder)
  BY LaddersGood DEF LadderOf
<1>4. \A status, rel, id, market : Said(Unchecked(status, rel, id, market))
  BY NothingSaid DEF Unchecked
<1>5. CASE \E p : AdjacentOf(cs, g, row, p)
  <2>1. PICK p : AdjacentOf(cs, g, row, p)
    BY <1>5
  <2>2. /\ p \in ladder.adjacent
        /\ row = IF Has(rs, p[1], "market") /\ Has(rs, p[2], "market")
                 THEN Check("containment_adjacent", rep(p[1], "market"), rep(p[2], "market"),
                            p[1], p[2], ladder, RiskBudget)
                 ELSE Unchecked("MISSING_LAYER", "containment_adjacent",
                                <<"containment_adjacent", g[1], g[2], p[1], p[2]>>, None)
    BY <2>1 DEF AdjacentOf
  <2> HIDE DEF rs, ladder, rep
  <2>3. p[1] # p[2] /\ p[1] # NoNode /\ p[2] # NoNode
    BY <1>3, <2>2 DEF GoodLadder, GoodPair
  <2>4. CASE Has(rs, p[1], "market") /\ Has(rs, p[2], "market")
    <3>1. Contains(rep(p[1], "market"), rep(p[2], "market"))
      BY <1>2, <2>3, <2>4, RungsContain DEF rep
    <3>2. rep(p[1], "market") \in AllContracts /\ rep(p[2], "market") \in AllContracts
      BY <1>2, <2>4, RepresentativeIn DEF rep, AllContracts
    <3>3. QED BY <2>2, <2>4, <3>1, <3>2, CheckSaid
  <2>5. CASE ~(Has(rs, p[1], "market") /\ Has(rs, p[2], "market"))
    BY <1>4, <2>2, <2>5
  <2>6. QED BY <2>4, <2>5
<1>6. CASE \E p : TransitiveOf(cs, g, row, p)
  <2>1. PICK p : TransitiveOf(cs, g, row, p)
    BY <1>6
  <2> DEFINE n == ladder.order[p[2]]
             k == ladder.order[p[1]]
  <2>2. /\ p[1] \in DOMAIN ladder.order /\ p[2] \in DOMAIN ladder.order /\ p[1] # p[2]
        /\ Has(rs, k, "market") /\ Has(rs, n, "market")
        /\ row = Check("containment_transitive", rep(n, "market"), rep(k, "market"), n, k, ladder, RiskBudget)
    BY <2>1 DEF TransitiveOf
  <2> HIDE DEF rs, ladder, rep
  <2>3. n # k /\ n # NoNode /\ k # NoNode
    BY <1>3, <2>2 DEF GoodLadder, Apart
  <2> HIDE DEF n, k
  <2>4. Contains(rep(n, "market"), rep(k, "market"))
    BY <1>2, <2>2, <2>3, RungsContain DEF rep
  <2>5. rep(n, "market") \in AllContracts /\ rep(k, "market") \in AllContracts
    BY <1>2, <2>2, RepresentativeIn DEF rep, AllContracts
  <2>6. QED BY <2>2, <2>4, <2>5, CheckSaid
<1>7. CASE \E n : AlignmentOf(cs, g, row, n)
  <2>1. PICK n : AlignmentOf(cs, g, row, n)
    BY <1>7
  <2>2. /\ n # NoNode /\ Has(rs, n, "match") /\ Has(rs, n, "market")
        /\ row = Check("match_alignment", rep(n, "match"), rep(n, "market"), n, n, ladder, 0)
    BY <2>1 DEF AlignmentOf
  <2> HIDE DEF rs, ladder, rep
  <2>3. ~Contains(rep(n, "match"), rep(n, "market"))
    BY <1>2, <2>2, RungsContain DEF rep
  <2>4. rep(n, "match") \in AllContracts /\ rep(n, "market") \in AllContracts
    BY <1>2, <2>2, RepresentativeIn DEF rep, AllContracts
  <2>5. QED BY <2>2, <2>3, <2>4, CheckSaid
<1>8. CASE \E m : UnmappedOf(cs, g, row, m)
  <2>1. PICK m : UnmappedOf(cs, g, row, m)
    BY <1>8
  <2>2. QED BY <1>4, <2>1 DEF UnmappedOf
<1>9. QED BY <1>1, <1>5, <1>6, <1>7, <1>8

-----------------------------------------------------------------------------
\* What is shown with fields added keeps its figures.
LEMMA ShownWith ==
    ASSUME NEW check, NEW status, NEW bucket, NEW tradable, NEW id, NEW legs, NEW cost, NEW floor, NEW worst, NEW best,
           NEW more, {"legs", "cost", "worst", "best"} \cap DOMAIN more = {},
           NEW row, row = With(Shown(check, status, bucket, tradable, id, legs, cost, floor, worst, best), more)
    PROVE  row.legs = legs /\ row.cost = cost /\ row.worst = worst /\ row.best = best
<1> DEFINE shown == Shown(check, status, bucket, tradable, id, legs, cost, floor, worst, best)
<1>1. /\ {"legs", "cost", "worst", "best"} \subseteq DOMAIN shown
      /\ shown.legs = legs /\ shown.cost = cost /\ shown.worst = worst /\ shown.best = best
  BY DEF Shown
<1>2. row = With(shown, more)
  OBVIOUS
<1> HIDE DEF shown
<1>3. QED BY <1>1, <1>2 DEF With

\* What stands for a node is a contract of it.
LEMMA StandingAt ==
    ASSUME board \in Boards, NEW s \in Sports, NEW listed \in SUBSET Contracts(s), NEW node, Listed(listed, node)
    PROVE  Standing(listed, node) \in Contracts(s) /\ Standing(listed, node).node = node
<1> DEFINE source == IF Has(listed, node, "market") THEN "market" ELSE "match"
<1>1. Has(listed, node, source) /\ Standing(listed, node) = Representative(listed, node, source)
  BY DEF Listed, Standing
<1> HIDE DEF source
<1>2. Standing(listed, node) \in At(listed, node, source)
  BY <1>1, RepresentativeAt
<1>3. QED BY <1>2 DEF At

\* A band buys the broader rung and the NO of the deeper one.
LEMMA BandSaid ==
    ASSUME board \in Boards, NEW child \in AllContracts, NEW parent \in AllContracts, Contains(parent, child),
           IsBand(child, parent), NEW p, NEW g
    PROVE  Said(Band(child, parent, p, g))
<1> DEFINE row == Band(child, parent, p, g)
           ask == parent.ask
           noAsk == BuyNo(child)
           legs == PairLegs(parent, ask, child, noAsk)
           cost == ask + noAsk
           worst == 100 - cost
           best == 200 - cost
           id == <<"no_structure_band", g[1], g[2], p[1], p[2]>>
           more == [scope |-> ScopeOf(child)]
<1>1. row = With(Shown("no_structure", "NO_STRUCTURE_BAND", "no_structure", "Speculative",
                       id, legs, cost, 100, worst, best), more)
  BY DEF Band, PairLegs
<1>2. {"legs", "cost", "worst", "best"} \cap DOMAIN more = {}
  OBVIOUS
<1>3. parent.ask # None /\ BuyNo(child) # None
  BY AllQuoted, FirmCents DEF IsBand
<1>4. ask \in 0..100 \cup {None}
  BY AllQuoted, PriceCents
<1>5. noAsk \in 0..100 \cup {None}
  BY AllQuoted, PriceCents
<1>6. /\ legs = PairLegs(parent, ask, child, noAsk)
      /\ cost = parent.ask + BuyNo(child) /\ worst = 100 - cost /\ best = 200 - cost
  OBVIOUS
<1> HIDE DEF row, legs, ask, noAsk, cost, worst, best, id, more
<1>7. row.legs = legs /\ row.cost = cost /\ row.worst = worst /\ row.best = best
  BY <1>1, <1>2, ShownWith
<1>8. {<<l.side, l.ticker>> : l \in legs} = Bought({parent}, {child})
  BY <1>4, <1>5, <1>6, PairCost
<1>9. Purchase(row) = Bought({parent}, {child})
  BY <1>7, <1>8 DEF Purchase
<1>10. row.worst = 100 - row.cost /\ row.best = 200 - row.cost /\ row.cost = parent.ask + BuyNo(child)
  BY <1>6, <1>7
<1>11. Said(row)
  BY <1>3, <1>9, <1>10, PairSaid
<1>12. QED BY <1>11 DEF row

\* An outright buys one NO.
LEMMA OutrightSaid ==
    ASSUME board \in Boards, NEW m \in AllContracts, BuyNo(m) # None, NEW row,
           Purchase(row) = Bought({}, {m}), row.cost = BuyNo(m), row.worst = -BuyNo(m), row.best = 100 - BuyNo(m)
    PROVE  Said(row)
<1> DEFINE g == [n \in {m} |-> BuyNo(n)]
           f == [n \in {} |-> n.ask]
<1>1. BuyNo(m) \in 0..100
  BY AllQuoted, PriceCents
<1>2. Outlay({}, {m}) = SumOf(f, {}) + SumOf(g, {m}) /\ g[m] = BuyNo(m)
  BY DEF Outlay
<1> HIDE DEF f, g
<1>3. SumOf(f, {}) = 0 /\ SumOf(g, {m}) = BuyNo(m)
  BY <1>1, <1>2, SumEmpty, SumSingle
<1>4. row.cost = Outlay({}, {m})
  BY <1>1, <1>2, <1>3
<1>5. Cardinality({m}) = 1
  BY FS_Singleton
<1>6. Floor("no", {m}) = 0 /\ Ceiling("no", {m}) = 100
  BY <1>5 DEF Floor, Ceiling
<1>7. Least({}, {m}) = 0 /\ Most({}, {m}) = 100
  BY <1>6 DEF Least, Most
<1>8. Says(row, {}, {m})
  BY <1>1, <1>4, <1>7 DEF Says
<1>9. {} \in SUBSET AllContracts /\ {m} \in SUBSET AllContracts
  OBVIOUS
<1>10. QED BY <1>8, <1>9 DEF Said

\* A box buys the broader threshold and the NO of the deeper one.
LEMMA BoxSaid ==
    ASSUME board \in Boards, NEW broad \in AllContracts, NEW deep \in AllContracts, broad.event = deep.event
    PROVE  Said(Box(broad, deep))
<1> DEFINE row == Box(broad, deep)
           ask == FirmYesAsk(broad)
           noAsk == FirmNoAsk(deep)
           legs == PairLegs(broad, ask, deep, noAsk)
           r == EvaluatePayoff(legs, {0 + 100, 100 + 100, 100 + 0}, TRUE)
           profit(p) == IF r.cost = None THEN NoGap ELSE p - r.cost
           cost == r.cost
           worst == profit(r.worst)
           best == profit(r.best)
           id == <<"payoff_state", broad.event, broad.strike[1], broad.strike[2], deep.strike[2]>>
           more == [classification |-> r.classification, authoritative |-> r.authoritative]
<1>1. row = With(Shown("payoff_state", "PAYOFF_STATE_DIAGNOSTIC", "payoff_state", "No - diagnostic only",
                       id, legs, cost, r.worst, worst, best), more)
  BY DEF Box, PairLegs
<1>2. {"legs", "cost", "worst", "best"} \cap DOMAIN more = {}
  OBVIOUS
<1>3. ask \in {broad.ask, None} /\ noAsk \in {BuyNo(deep), None}
  BY AllQuoted, PriceCents
<1>4. r.worst = 100 /\ r.best = 200
  <2>1. {0 + 100, 100 + 100, 100 + 0} = {100, 200}
    OBVIOUS
  <2>2. r.worst = Min({100, 200}) /\ r.best = Max({100, 200})
    BY <2>1 DEF EvaluatePayoff
  <2>3. Min({100, 200}) = 100 /\ Max({100, 200}) = 200
    <3> DEFINE a == 100
               b == 200
    <3>1. a \in Int /\ b \in Int /\ a <= b
      OBVIOUS
    <3> HIDE DEF a, b
    <3>2. Min({a, b}) = a /\ Max({a, b}) = b
      BY <3>1, LeastOfTwo
    <3>3. QED BY <3>2 DEF a, b
  <2>4. QED BY <2>2, <2>3
<1>5. legs # {} => cost = PlanCost(legs)
  BY DEF EvaluatePayoff, PlanCost
<1>6. /\ legs = PairLegs(broad, ask, deep, noAsk)
      /\ worst = IF cost = None THEN NoGap ELSE r.worst - cost
      /\ best = IF cost = None THEN NoGap ELSE r.best - cost
  OBVIOUS
<1>7. legs # {}
  BY DEF PairLegs
<1> DEFINE floor == r.worst
<1> HIDE DEF row, legs, ask, noAsk, r, profit, cost, worst, best, id, more, floor
<1>8. row.legs = legs /\ row.cost = cost /\ row.worst = worst /\ row.best = best
  <2>1. row = With(Shown("payoff_state", "PAYOFF_STATE_DIAGNOSTIC", "payoff_state", "No - diagnostic only",
                         id, legs, cost, floor, worst, best), more)
    BY <1>1 DEF floor
  <2> DEFINE check == "payoff_state"
             status == "PAYOFF_STATE_DIAGNOSTIC"
             tradable == "No - diagnostic only"
  <2>2. row = With(Shown(check, status, check, tradable, id, legs, cost, floor, worst, best), more)
    BY <2>1
  <2> HIDE DEF check, status, tradable
  <2>3. QED BY <1>2, <2>2, ShownWith
<1>9. CASE cost = None
  BY <1>6, <1>8, <1>9, NothingSaid DEF row
<1>10. CASE cost # None
  <2>1. PlanCost(legs) # None
    BY <1>5, <1>7, <1>10
  <2>2. PlanCost(legs) = broad.ask + BuyNo(deep) /\ broad.ask # None /\ BuyNo(deep) # None
    BY <1>3, <1>6, <2>1, PlanPair
  <2>3. {<<l.side, l.ticker>> : l \in legs} = Bought({broad}, {deep})
    BY <1>3, <1>6, PlanPair
  <2>4. Purchase(row) = Bought({broad}, {deep})
    BY <1>8, <2>3 DEF Purchase
  <2>5. row.cost = broad.ask + BuyNo(deep) /\ row.worst = 100 - row.cost /\ row.best = 200 - row.cost
    BY <1>4, <1>5, <1>6, <1>7, <1>8, <1>10, <2>2
  <2>6. Contains(broad, deep)
    BY DEF Contains
  <2>7. Said(row)
    BY <2>2, <2>4, <2>5, <2>6, PairSaid
  <2>8. QED BY <2>7 DEF row
<1>11. QED BY <1>9, <1>10

-----------------------------------------------------------------------------
\* Every row of find_no_structures.
LEMMA BandsSaid ==
    ASSUME board \in Boards, NEW s \in Sports, NEW row \in Bands(Contracts(s))
    PROVE  Said(row)
<1> DEFINE trusted == Trusted(Contracts(s))
           of(g) == RowsOf(trusted, g)
           stand(g, n) == Standing(of(g), n)
           pairs(g) == {q \in LadderOf(of(g)).adjacent :
                          /\ Listed(of(g), q[1]) /\ Listed(of(g), q[2])
                          /\ IsBand(stand(g, q[1]), stand(g, q[2]))}
<1>1. Bands(Contracts(s)) = UNION {{Band(stand(g, p[1]), stand(g, p[2]), p, g) : p \in pairs(g)} : g \in Groups(trusted)}
  BY DEF Bands
<1> HIDE DEF stand
<1>2. PICK g : \E p \in pairs(g) : row = Band(stand(g, p[1]), stand(g, p[2]), p, g)
  BY <1>1
<1>3. PICK p \in pairs(g) : row = Band(stand(g, p[1]), stand(g, p[2]), p, g)
  BY <1>2
<1>4. of(g) \in SUBSET Contracts(s)
  BY DEF RowsOf, Trusted
<1>5. GoodLadder(LadderOf(of(g)))
  BY LaddersGood DEF LadderOf
<1> HIDE DEF of
<1>6. /\ p \in LadderOf(of(g)).adjacent /\ Listed(of(g), p[1]) /\ Listed(of(g), p[2])
      /\ IsBand(stand(g, p[1]), stand(g, p[2]))
  OBVIOUS
<1>7. p[1] # p[2] /\ p[1] # NoNode /\ p[2] # NoNode
  BY <1>5, <1>6 DEF GoodLadder, GoodPair
<1>8. /\ stand(g, p[1]) \in Contracts(s) /\ stand(g, p[1]).node = p[1]
      /\ stand(g, p[2]) \in Contracts(s) /\ stand(g, p[2]).node = p[2]
  BY <1>4, <1>6, StandingAt DEF stand
<1>9. Contains(stand(g, p[2]), stand(g, p[1]))
  BY <1>7, <1>8 DEF Contains
<1>10. stand(g, p[1]) \in AllContracts /\ stand(g, p[2]) \in AllContracts
  BY <1>8 DEF AllContracts
<1>11. QED BY <1>3, <1>6, <1>9, <1>10, BandSaid

\* A single NO says what it tells.
LEMMA OutrightsSaid ==
    ASSUME board \in Boards, NEW s \in Sports, NEW row \in Outrights(Contracts(s))
    PROVE  Said(row)
<1>1. PICK m \in {x \in Contracts(s) : Anchored(x) /\ Pos(x.bidSize) /\ BuyNo(x) \in 1 .. OutrightMax} :
        row = With(Shown("no_structure", "NO_STRUCTURE_OUTRIGHT", "no_structure", "Speculative",
                         <<"no_structure_outright", m.ticker>>,
                         {[side |-> "no", ticker |-> m.ticker, price |-> BuyNo(m)]},
                         BuyNo(m), None, -BuyNo(m), 100 - BuyNo(m)),
                   [scope |-> ScopeOf(m)])
  BY DEF Outrights
<1>2. BuyNo(m) # None
  BY DEF None, OutrightMax
<1>3. m \in AllContracts
  BY DEF AllContracts
<1> DEFINE leg == [side |-> "no", ticker |-> m.ticker, price |-> BuyNo(m)]
           legs == {leg}
           id == <<"no_structure_outright", m.ticker>>
           more == [scope |-> ScopeOf(m)]
           cost == BuyNo(m)
           worst == -BuyNo(m)
           best == 100 - BuyNo(m)
<1>4. row = With(Shown("no_structure", "NO_STRUCTURE_OUTRIGHT", "no_structure", "Speculative",
                       id, legs, cost, None, worst, best), more)
  BY <1>1
<1>5. {"legs", "cost", "worst", "best"} \cap DOMAIN more = {}
  OBVIOUS
<1>6. leg.side = "no" /\ leg.ticker = m.ticker
  OBVIOUS
<1>7. legs = {leg} /\ cost = BuyNo(m) /\ worst = -BuyNo(m) /\ best = 100 - BuyNo(m)
  OBVIOUS
<1> HIDE DEF leg, legs, id, more, cost, worst, best
<1>8. row.legs = legs /\ row.cost = cost /\ row.worst = worst /\ row.best = best
  BY <1>4, <1>5, ShownWith
<1>9. Purchase(row) = {<<"no", m.ticker>>}
  BY <1>6, <1>7, <1>8 DEF Purchase
<1>10. Bought({}, {m}) = {<<"no", m.ticker>>}
  BY DEF Bought
<1>11. QED BY <1>2, <1>3, <1>7, <1>8, <1>9, <1>10, OutrightSaid

\* Every row of find_payoff_boxes.
LEMMA PayoffBoxesSaid ==
    ASSUME board \in Boards, NEW s \in Sports, NEW row \in FindPayoffBoxes(Contracts(s))
    PROVE  Said(row)
<1> DEFINE cs == Contracts(s)
           rungs(g) == Rungs(cs, g[1], g[2])
           pairs(g) == {q \in Neighbours(rungs(g)) : SameScalar(q[1], q[2])}
<1>1. FindPayoffBoxes(cs) = UNION {{Box(p[1], p[2]) : p \in pairs(g)}
                                     : g \in {<<m.event, m.strike[1]>> : m \in {x \in cs : x.strike # <<>>}}}
  BY DEF FindPayoffBoxes
<1>2. PICK g : \E p \in pairs(g) : row = Box(p[1], p[2])
  BY <1>1
<1>3. PICK p \in pairs(g) : row = Box(p[1], p[2])
  BY <1>2
<1>4. p[1] \in rungs(g) /\ p[2] \in rungs(g)
  BY DEF Neighbours
<1>5. \A c \in rungs(g) : c \in Contracts(s) /\ c.event = g[1]
  BY DEF Rungs, FirstOf
<1> HIDE DEF rungs
<1>6. p[1] \in AllContracts /\ p[2] \in AllContracts /\ p[1].event = p[2].event
  BY <1>4, <1>5 DEF AllContracts
<1>7. QED BY <1>3, <1>6, BoxSaid

-----------------------------------------------------------------------------
\* Whatever the detectors find.
LEMMA DetectedSaid ==
    ASSUME board \in Boards, NEW s \in Sports, NEW row \in Detected(Contracts(s))
    PROVE  Said(row)
<1> DEFINE cs == Contracts(s)
<1>1. \/ row \in BuildChecks(cs, RiskBudget) \/ row \in FindDutchBooks(cs, NearMissOver)
      \/ row \in FindGroupBaskets(cs) \/ row \in FindSyntheticBundles(cs)
      \/ \E r \in FindExactOrderPremiums(cs) : row = WithoutCost(r)
      \/ row \in FindGameSupportSignals(cs) \/ row \in FindStageElimBooks(cs)
      \/ row \in FindStageElimSynthetics(cs) \/ row \in Bands(cs) \/ row \in Outrights(cs)
      \/ row \in FindConditionalBlends(cs) \/ row \in FindPayoffBoxes(cs)
  BY DEF Detected, FindNoStructures
<1>2. /\ row \in BuildChecks(cs, RiskBudget) => Said(row)
      /\ row \in FindDutchBooks(cs, NearMissOver) => Said(row)
      /\ row \in FindGroupBaskets(cs) => Said(row)
      /\ row \in FindStageElimBooks(cs) => Said(row)
      /\ row \in FindStageElimSynthetics(cs) => Said(row)
      /\ row \in Bands(cs) => Said(row)
      /\ row \in Outrights(cs) => Said(row)
      /\ row \in FindPayoffBoxes(cs) => Said(row)
  BY ChecksSaid, DutchBooksSaid, BasketsSaid, StageBooksSaid, StageSyntheticsSaid, BandsSaid, OutrightsSaid,
     PayoffBoxesSaid
<1> HIDE DEF cs
<1>3. QED BY <1>1, <1>2, BundlesSaid, PremiumsSaid, SignalsSaid, BlendsSaid

\* Two findings that are one purchase agree on its cost and on its cases, whichever detectors made
\* them and of whichever sport: what is bought tells both.
THEOREM SameLegsAgreeHolds == Spec => []SameLegsAgree
<1>1. ScanInv => SameLegsAgree
  <2> SUFFICES ASSUME ScanInv, NEW a \in rows, NEW b \in rows, a.row.legs # {}, b.row.legs # {},
                      a.row.worst # NoGap, b.row.worst # NoGap, Purchase(a.row) = Purchase(b.row)
               PROVE  a.row.cost = b.row.cost /\ a.row.worst = b.row.worst /\ a.row.best = b.row.best
    BY DEF SameLegsAgree, Found
  <2>1. /\ board \in Boards
        /\ a.sport \in Sports /\ a \in RowsFor(a.sport) /\ b.sport \in Sports /\ b \in RowsFor(b.sport)
    BY DEF ScanInv, Accounted, FoundThere
  <2>2. a.row \in Detected(Contracts(a.sport)) /\ b.row \in Detected(Contracts(b.sport))
    BY <2>1 DEF RowsFor, Contracts
  <2>3. Said(a.row) /\ Said(b.row)
    BY <2>1, <2>2, DetectedSaid
  <2>4. QED BY <2>1, <2>3, SaidAgree
<1>2. QED BY <1>1, ScanInvariance, PTL

-----------------------------------------------------------------------------
\* What one leg pays.
Paying(l, w) == IF l.side = "yes" THEN w[l.ticker] ELSE 100 - w[l.ticker]

\* A row's floor is one, and its cases bound its profit.
Honest(row) ==
    /\ row.floor # None => \A w \in Settles(row) : Pays(row, w) >= row.floor
    /\ \A w \in board.worlds : /\ row.worst # NoGap => row.worst <= Profit(row, w)
                               /\ row.best # NoGap => Profit(row, w) <= row.best

-----------------------------------------------------------------------------
\* The ways a board may settle follow the laws.
LEMMA WorldIs ==
    ASSUME board \in Boards, NEW s \in Sports, NEW w \in board.worlds \cup board.odd
    PROVE  /\ Lawful(Contracts(s), w)
           /\ w \in board.worlds => Replicated(Contracts(s), w)
           /\ \A c \in Contracts(s) : w[c.ticker] \in 0..100
<1>1. Lawful(Contracts(s), w) /\ (w \in board.worlds => Replicated(Contracts(s), w))
  BY SettlingAssumption DEF Settling, Contracts, Sports
<1>2. \A c \in Contracts(s) : w[c.ticker] \in 0..100
  BY <1>1 DEF Lawful, Pays01, Cents
<1>3. QED BY <1>1, <1>2

\* A row counts on the ways in which the rules agree, and on no others than those of the board.
LEMMA SettlesIs == ASSUME NEW row PROVE board.worlds \subseteq Settles(row) /\ Settles(row) \subseteq board.worlds \cup board.odd
BY DEF Settles

\* It pays at least and at most so much, whatever it counts on.
LEMMA HonestIf ==
    ASSUME NEW row, NEW lo \in Int, NEW hi \in Int, row.floor \in {None, lo},
           row.worst = NoGap \/ (row.cost \in Int /\ row.worst = lo - row.cost),
           row.best = NoGap \/ (row.cost \in Int /\ row.best = hi - row.cost),
           \A w \in Settles(row) : Pays(row, w) \in Int /\ lo <= Pays(row, w) /\ Pays(row, w) <= hi
    PROVE  Honest(row)
<1>1. row.floor # None => \A w \in Settles(row) : Pays(row, w) >= row.floor
  OBVIOUS
<1>2. ASSUME NEW w \in board.worlds
      PROVE  /\ row.worst # NoGap => row.worst <= Profit(row, w)
             /\ row.best # NoGap => Profit(row, w) <= row.best
  <2>1. Pays(row, w) \in Int /\ lo <= Pays(row, w) /\ Pays(row, w) <= hi
    BY <1>2, SettlesIs
  <2>2. QED BY <2>1 DEF Profit
<1>3. QED BY <1>1, <1>2 DEF Honest

\* A row that promises nothing.
LEMMA HonestNothing ==
    ASSUME NEW row, row.floor = None, row.worst = NoGap, row.best = NoGap PROVE Honest(row)
BY DEF Honest

-----------------------------------------------------------------------------
\* What some legs pay, as the sum of a function.
LEMMA PayingIs ==
    ASSUME NEW legs, NEW w
    PROVE  MapThenSumSet(LAMBDA l : Paying(l, w), legs) = SumOf([l \in legs |-> Paying(l, w)], legs)
BY DEF SumOf, MapThenSumSet, MapThenFoldSet

\* What a row pays, and what the YES of some contracts pays.
LEMMA PaysIs ==
    ASSUME NEW row, NEW w
    PROVE  Pays(row, w) = SumOf([l \in row.legs |-> Paying(l, w)], row.legs)
<1>1. Pays(row, w) = MapThenSumSet(LAMBDA l : Paying(l, w), row.legs)
  BY DEF Pays, Paying
<1>2. QED BY <1>1, PayingIs

LEMMA YesPaysIs ==
    ASSUME NEW w, NEW ms
    PROVE  YesPays(w, ms) = SumOf([m \in ms |-> w[m.ticker]], ms)
BY DEF YesPays, SumOf, MapThenSumSet, MapThenFoldSet

\* One side of some contracts.
LEMMA LegsPay ==
    ASSUME board \in Boards, NEW s \in Sports, NEW ms \in SUBSET Contracts(s), NEW side \in {"yes", "no"},
           NEW w, \A c \in Contracts(s) : w[c.ticker] \in 0..100,
           NEW h, \A l \in Legs(side, ms) : h[l] = Paying(l, w)
    PROVE  /\ IsFiniteSet(Legs(side, ms)) /\ \A l \in Legs(side, ms) : h[l] \in Nat
           /\ YesPays(w, ms) \in Nat /\ Cardinality(ms) \in Nat
           /\ SumOf(h, Legs(side, ms)) = IF side = "yes" THEN YesPays(w, ms) ELSE 100 * Cardinality(ms) - YesPays(w, ms)
<1> DEFINE g == [m \in ms |-> [side |-> side, ticker |-> m.ticker, price |-> BuyPrice(side, m)]]
           legs == {g[m] : m \in ms}
           f == [m \in ms |-> w[m.ticker]]
           r == [m \in ms |-> 100 - w[m.ticker]]
           q == IF side = "yes" THEN f ELSE r
<1>1. IsFiniteSet(ms)
  BY ContractsFinite, FS_Subset
<1>2. Legs(side, ms) = legs
  BY DEF Legs
<1>3. \A m \in ms : f[m] \in 0..100 /\ r[m] = 100 - f[m]
  OBVIOUS
<1>4. \A m, n \in ms : g[m] = g[n] => m = n
  <2>1. \A m \in ms : g[m].ticker = m.ticker /\ m \in Contracts(s)
    OBVIOUS
  <2> HIDE DEF g
  <2>2. QED BY <2>1, ContractQuoted
<1>5. ASSUME NEW m \in ms PROVE h[g[m]] = q[m]
  <2>1. g[m].side = side /\ g[m].ticker = m.ticker /\ g[m] \in Legs(side, ms)
    BY DEF Legs
  <2>2. h[g[m]] = Paying(g[m], w)
    BY <2>1
  <2>3. q[m] = IF side = "yes" THEN w[m.ticker] ELSE 100 - w[m.ticker]
    OBVIOUS
  <2> HIDE DEF g, q
  <2>4. QED BY <2>1, <2>2, <2>3 DEF Paying
<1>6. YesPays(w, ms) = SumOf(f, ms)
  BY YesPaysIs
<1> HIDE DEF f, r, g
<1>7. \A m \in ms : q[m] \in Nat
  BY <1>3
<1>8. /\ SumOf(f, ms) \in Nat /\ Cardinality(ms) \in Nat
      /\ SumOf(r, ms) = 100 * Cardinality(ms) - SumOf(f, ms)
  BY <1>1, <1>3, SumComplement
<1>9. SumOf(q, ms) = IF side = "yes" THEN YesPays(w, ms) ELSE 100 * Cardinality(ms) - YesPays(w, ms)
  BY <1>6, <1>8
<1> HIDE DEF q
<1>10. SumOf(h, legs) = SumOf(q, ms)
  BY <1>1, <1>4, <1>5, <1>7, SumImage
<1>11. IsFiniteSet(legs)
  BY <1>1, FiniteImage
<1>12. \A l \in legs : h[l] \in Nat
  BY <1>5, <1>7
<1> HIDE DEF legs
<1>13. QED BY <1>2, <1>6, <1>8, <1>9, <1>10, <1>11, <1>12

-----------------------------------------------------------------------------
\* What one side of some contracts pays.
SidePays(side, ms, w) == IF side = "yes" THEN YesPays(w, ms) ELSE 100 * Cardinality(ms) - YesPays(w, ms)

\* A row that buys one side of some contracts.
LEMMA BookPays ==
    ASSUME board \in Boards, NEW s \in Sports, NEW ms \in SUBSET Contracts(s), NEW side \in {"yes", "no"},
           NEW row, row.legs = Legs(side, ms), NEW w \in board.worlds \cup board.odd
    PROVE  /\ YesPays(w, ms) \in Nat /\ Cardinality(ms) \in Nat
           /\ Pays(row, w) = SidePays(side, ms, w) /\ Pays(row, w) \in Int
<1> DEFINE h == [l \in row.legs |-> Paying(l, w)]
<1>1. \A l \in Legs(side, ms) : h[l] = Paying(l, w)
  OBVIOUS
<1>2. Pays(row, w) = SumOf(h, Legs(side, ms))
  BY PaysIs
<1> HIDE DEF h
<1>3. \A c \in Contracts(s) : w[c.ticker] \in 0..100
  BY WorldIs
<1>4. /\ YesPays(w, ms) \in Nat /\ Cardinality(ms) \in Nat
      /\ SumOf(h, Legs(side, ms)) = SidePays(side, ms, w)
  BY <1>1, <1>3, LegsPay DEF SidePays
<1>5. QED BY <1>2, <1>4 DEF SidePays

\* A row that buys the YES of one contract and the NO of another.
LEMMA PairPays ==
    ASSUME board \in Boards, NEW s \in Sports, NEW c \in Contracts(s), NEW d \in Contracts(s),
           NEW ask, NEW noAsk, NEW row, row.legs = PairLegs(c, ask, d, noAsk), NEW w \in board.worlds \cup board.odd
    PROVE  /\ w[c.ticker] \in 0..100 /\ w[d.ticker] \in 0..100
           /\ Pays(row, w) = 100 + w[c.ticker] - w[d.ticker]
<1> DEFINE a == [side |-> "yes", ticker |-> c.ticker, price |-> ask]
           b == [side |-> "no", ticker |-> d.ticker, price |-> noAsk]
           h == [l \in row.legs |-> Paying(l, w)]
<1>1. w[c.ticker] \in 0..100 /\ w[d.ticker] \in 0..100
  BY WorldIs
<1>2. /\ a.side = "yes" /\ b.side = "no" /\ a.ticker = c.ticker /\ b.ticker = d.ticker /\ a # b
  OBVIOUS
<1>3. row.legs = {a, b}
  BY DEF PairLegs
<1> HIDE DEF a, b
<1>4. h[a] = w[c.ticker] /\ h[b] = 100 - w[d.ticker]
  BY <1>2, <1>3 DEF Paying
<1>5. Pays(row, w) = SumOf(h, row.legs)
  BY PaysIs
<1> HIDE DEF h
<1>6. SumOf(h, {a, b}) = h[a] + h[b]
  <2>1. h[a] \in Nat /\ h[b] \in Nat
    BY <1>1, <1>4
  <2>2. QED BY <1>2, <2>1, SumTwo
<1>7. Pays(row, w) = w[c.ticker] + (100 - w[d.ticker])
  BY <1>3, <1>4, <1>5, <1>6
<1> DEFINE x == w[c.ticker]
           y == w[d.ticker]
<1>8. x \in 0..100 /\ y \in 0..100 /\ Pays(row, w) = x + (100 - y)
  BY <1>1, <1>7
<1> HIDE DEF x, y
<1>9. x + (100 - y) = 100 + x - y
  BY <1>8
<1>10. QED BY <1>8, <1>9 DEF x, y

\* A row that buys one side of the parts and the other side of the whole.
LEMMA ReplicaPays ==
    ASSUME board \in Boards, NEW s \in Sports, NEW parts \in SUBSET Contracts(s), NEW whole \in Contracts(s),
           NEW side, NEW other, <<side, other>> \in {<<"yes", "no">>, <<"no", "yes">>},
           NEW row, row.legs = Legs(side, parts) \cup {Leg(other, whole)}, NEW w \in board.worlds \cup board.odd,
           YesPays(w, parts) = w[whole.ticker]
    PROVE  /\ Cardinality(parts) \in Nat
           /\ Pays(row, w) = IF side = "yes" THEN 100 ELSE 100 * Cardinality(parts)
<1> DEFINE h == [l \in row.legs |-> Paying(l, w)]
           last == Leg(other, whole)
           legs == Legs(side, parts)
<1>1. side \in {"yes", "no"} /\ other \in {"yes", "no"} /\ side # other
  OBVIOUS
<1>2. last.side = other /\ last.ticker = whole.ticker /\ \A l \in legs : l.side = side
  BY DEF Leg, Legs
<1>3. /\ \A l \in legs : h[l] = Paying(l, w)
      /\ h[last] = Paying(last, w)
  OBVIOUS
<1>4. Pays(row, w) = SumOf(h, legs \cup {last})
  BY PaysIs
<1>5. legs = Legs(side, parts)
  OBVIOUS
<1> HIDE DEF h, last, legs
<1>6. last \notin legs
  BY <1>1, <1>2
<1>7. \A c \in Contracts(s) : w[c.ticker] \in 0..100
  BY WorldIs
<1>8. h[last] = (IF other = "yes" THEN w[whole.ticker] ELSE 100 - w[whole.ticker]) /\ h[last] \in Nat
  BY <1>2, <1>3, <1>7 DEF Paying
<1>9. /\ IsFiniteSet(legs) /\ \A l \in legs : h[l] \in Nat
      /\ YesPays(w, parts) \in Nat /\ Cardinality(parts) \in Nat
      /\ SumOf(h, legs) = SidePays(side, parts, w)
  BY <1>1, <1>3, <1>5, <1>7, LegsPay DEF SidePays
<1>10. SumOf(h, legs \cup {last}) = h[last] + SumOf(h, legs)
  BY <1>6, <1>8, <1>9, SumMore
<1>11. Pays(row, w) = h[last] + SidePays(side, parts, w)
  BY <1>4, <1>9, <1>10
<1>12. w[whole.ticker] \in 0..100
  BY <1>7
<1>13. QED BY <1>1, <1>8, <1>9, <1>11, <1>12 DEF SidePays

-----------------------------------------------------------------------------
\* A row that buys one side of some contracts, which pay at least and at most so much.
LEMMA BookHonest ==
    ASSUME board \in Boards, NEW s \in Sports, NEW ms \in SUBSET Contracts(s), NEW side \in {"yes", "no"},
           Priced(side, ms), NEW row, row.legs = Legs(side, ms), row.cost = Cost(side, ms),
           NEW lo \in Int, NEW hi \in Int, row.floor \in {None, lo},
           row.worst = NoGap \/ row.worst = lo - row.cost, row.best = NoGap \/ row.best = hi - row.cost,
           \A w \in Settles(row) : lo <= SidePays(side, ms, w) /\ SidePays(side, ms, w) <= hi
    PROVE  Honest(row)
<1>1. row.cost \in Int
  BY CostNat
<1>2. ASSUME NEW w \in Settles(row) PROVE Pays(row, w) \in Int /\ lo <= Pays(row, w) /\ Pays(row, w) <= hi
  <2>1. w \in board.worlds \cup board.odd
    BY SettlesIs
  <2>2. Pays(row, w) = SidePays(side, ms, w) /\ Pays(row, w) \in Int
    BY <2>1, BookPays
  <2>3. QED BY <2>2
<1>3. QED BY <1>1, <1>2, HonestIf

\* A finding on one side of a book that pays a dollar between its YES.
LEMMA FlatHonest ==
    ASSUME board \in Boards, NEW s \in Sports, NEW ms \in SUBSET Contracts(s),
           Directions(ms) # {}, \A w \in board.worlds \cup board.odd : YesPays(w, ms) = 100, NEW row,
           row.legs = Widest(Directions(ms)).legs, row.cost = Widest(Directions(ms)).cost,
           row.floor = Widest(Directions(ms)).floor,
           row.worst = Widest(Directions(ms)).gap, row.best = Widest(Directions(ms)).gap
    PROVE  Honest(row)
<1> DEFINE f == 100
           g == 100 * (Cardinality(ms) - 1)
           cands == Directions(ms)
           c == Widest(cands)
           lo == IF c.side = "yes" THEN f ELSE g
<1>1. Cardinality(ms) \in Nat
  BY ContractsFinite, FS_Subset, FS_CardinalityType
<1>2. cands \in SUBSET (Direction("yes", ms, f) \cup Direction("no", ms, g)) /\ f \in Int /\ g \in Int
  BY <1>1 DEF Directions
<1>3. cands # {}
  OBVIOUS
<1>4. row.legs = c.legs /\ row.cost = c.cost /\ row.floor = c.floor /\ row.worst = c.gap /\ row.best = c.gap
  OBVIOUS
<1> HIDE DEF f, g, cands
<1>5. /\ c.side \in {"yes", "no"} /\ ms # {} /\ Priced(c.side, ms)
      /\ c.legs = Legs(c.side, ms) /\ c.cost = Cost(c.side, ms)
      /\ c.floor = (IF c.side = "yes" THEN f ELSE g) /\ c.gap = c.floor - c.cost
  BY <1>2, <1>3, ChosenWay
<1>6. \A w \in Settles(row) : SidePays(c.side, ms, w) = lo
  <2> SUFFICES ASSUME NEW w \in Settles(row) PROVE SidePays(c.side, ms, w) = lo
    OBVIOUS
  <2>1. YesPays(w, ms) = 100
    BY SettlesIs
  <2> HIDE DEF c
  <2>2. QED BY <1>1, <2>1 DEF SidePays, f, g
<1>7. lo \in Int /\ c.floor = lo
  BY <1>2, <1>5
<1> HIDE DEF c, lo
<1>8. \A w \in Settles(row) : lo <= SidePays(c.side, ms, w) /\ SidePays(c.side, ms, w) <= lo
  BY <1>6, <1>7
<1>9. QED BY <1>4, <1>5, <1>7, <1>8, BookHonest

-----------------------------------------------------------------------------
\* What the YES of two contracts pays, and of three.
LEMMA YesPaysTwo ==
    ASSUME board \in Boards, NEW s \in Sports, NEW a \in Contracts(s), NEW b \in Contracts(s), a # b,
           NEW w \in board.worlds \cup board.odd
    PROVE  YesPays(w, {a, b}) = w[a.ticker] + w[b.ticker]
<1> DEFINE f == [m \in {a, b} |-> w[m.ticker]]
<1>1. f[a] = w[a.ticker] /\ f[b] = w[b.ticker] /\ YesPays(w, {a, b}) = SumOf(f, {a, b})
  BY YesPaysIs
<1> HIDE DEF f
<1>0. \A m \in Contracts(s) : w[m.ticker] \in 0..100
  BY WorldIs
<1>2. f[a] \in Nat /\ f[b] \in Nat
  <2>1. w[a.ticker] \in 0..100 /\ w[b.ticker] \in 0..100
    BY <1>0
  <2>2. QED BY <1>1, <2>1
<1>3. SumOf(f, {a, b}) = f[a] + f[b]
  BY <1>2, SumTwo
<1>4. QED BY <1>1, <1>3
LEMMA YesPaysThree ==
    ASSUME board \in Boards, NEW s \in Sports, NEW a \in Contracts(s), NEW b \in Contracts(s), NEW c \in Contracts(s),
           a # b, c \notin {a, b}, NEW w \in board.worlds \cup board.odd
    PROVE  YesPays(w, {a, b, c}) = w[a.ticker] + w[b.ticker] + w[c.ticker]
<1> DEFINE f == [m \in {a, b, c} |-> w[m.ticker]]
<1>1. /\ f[a] = w[a.ticker] /\ f[b] = w[b.ticker] /\ f[c] = w[c.ticker]
      /\ YesPays(w, {a, b, c}) = SumOf(f, {a, b, c})
  BY YesPaysIs
<1> HIDE DEF f
<1>0. \A m \in Contracts(s) : w[m.ticker] \in 0..100
  BY WorldIs
<1>2. f[a] \in Nat /\ f[b] \in Nat /\ f[c] \in Nat
  <2>1. w[a.ticker] \in 0..100 /\ w[b.ticker] \in 0..100 /\ w[c.ticker] \in 0..100
    BY <1>0
  <2>2. QED BY <1>1, <2>1
<1>3. SumOf(f, {a, b, c}) = f[a] + f[b] + f[c]
  <2>1. a # b /\ a # c /\ b # c /\ f[a] \in Nat /\ f[b] \in Nat /\ f[c] \in Nat
    BY <1>2
  <2>2. QED BY ONLY <2>1, SumThree
<1>4. QED BY <1>1, <1>3

\* The two sides of a contest.
LEMMA PairSettles ==
    ASSUME board \in Boards, NEW s \in Sports, NEW ms \in SUBSET Contracts(s), NEW w \in board.worlds \cup board.odd,
           Cardinality(ms) = 2, Distinct(ms), NEW series,
           \A m \in ms : IsTwoWay(m) /\ m.series = series, ~SportOf(series).nWay,
           \A m, n \in ms : m.event = n.event /\ m.kind = n.kind,
           \/ SportOf(series).meceByShape
           \/ \E m \in ms : m.kind # "game"
           \/ ProvesFixedSum(ms)
    PROVE  YesPays(w, ms) = 100
<1>1. IsFiniteSet(ms)
  BY ContractsFinite, FS_Subset
<1>2. PICK a, b \in ms : a # b /\ ms = {a, b}
  BY <1>1, OfTwo
<1> DEFINE keys == [m \in ms |-> m.key]
<1>3. a.key # b.key
  <2>1. {keys[m] : m \in ms} = {m.key : m \in ms} /\ keys[a] = a.key /\ keys[b] = b.key
    OBVIOUS
  <2>2. Cardinality({keys[m] : m \in ms}) = Cardinality(ms)
    BY <2>1 DEF Distinct
  <2> HIDE DEF keys
  <2>3. \A x, y \in ms : keys[x] = keys[y] => x = y
    BY <1>1, <2>2, DifferentValues
  <2>4. QED BY <1>2, <2>1, <2>3
<1>4. \/ SportOf(series).meceByShape \/ a.kind # "game"
      \/ a.tieBasis = b.tieBasis /\ a.tieBasis \in {"tie_half", "no_tie_winner"}
  BY <1>2 DEF ProvesFixedSum
<1>5. Contests(Contracts(s), w)
  BY WorldIs DEF Lawful
<1>6. w[a.ticker] + w[b.ticker] = 100
  <2> DEFINE sides == {c \in Contracts(s) : IsTwoWay(c) /\ ~SportOf(c.series).nWay}
  <2>1. \A c, d \in sides :
          /\ c.event = d.event /\ c.kind = d.kind /\ c.key # d.key
          /\ \/ SportOf(c.series).meceByShape \/ c.kind # "game"
             \/ c.tieBasis = d.tieBasis /\ c.tieBasis \in {"tie_half", "no_tie_winner"}
          => w[c.ticker] + w[d.ticker] = 100
    BY <1>5 DEF Contests
  <2>2. a \in sides /\ b \in sides /\ a.series = series
    BY <1>2
  <2> HIDE DEF sides
  <2>3. QED BY <1>2, <1>3, <1>4, <2>1, <2>2
<1>7. QED BY <1>2, <1>6, YesPaysTwo

\* The two sides of a game and the draw.
LEMMA ThreeSettle ==
    ASSUME board \in Boards, NEW s \in Sports, NEW ms \in SUBSET Contracts(s), NEW w \in board.worlds \cup board.odd,
           ProveMece(ms), \A m \in ms : IsTwoWay(m), \A m, n \in ms : m.event = n.event
    PROVE  YesPays(w, ms) = 100
<1> DEFINE players == {m \in ms : m.participant}
           keys == [m \in ms |-> m.key]
<1>1. IsFiniteSet(ms) /\ IsFiniteSet(players) /\ Cardinality(ms) = 3 /\ Cardinality(players) = 2
  BY ContractsFinite, FS_Subset DEF ProveMece
<1>2. PICK a, b \in players : a # b /\ players = {a, b}
  <2> HIDE DEF players
  <2>1. QED BY <1>1, OfTwo
<1>3. PICK t : ms \ players = {t}
  <2>1. players = {a, b} /\ a # b /\ a \in ms /\ b \in ms
    BY <1>2
  <2>2. IsFiniteSet(ms \ {a}) /\ Cardinality(ms \ {a}) = 2
    BY <1>1, <2>1, FS_RemoveElement
  <2> DEFINE rest == ms \ {a}
  <2>3. b \in rest /\ rest \ {b} = ms \ players /\ IsFiniteSet(rest) /\ Cardinality(rest) = 2
    BY <2>1, <2>2
  <2> HIDE DEF rest, players
  <2>4. IsFiniteSet(rest \ {b}) /\ Cardinality(rest \ {b}) = 1
    BY <2>3, FS_RemoveElement
  <2>5. QED BY <2>3, <2>4, FS_Singleton
<1>4. /\ a \in ms /\ b \in ms /\ t \in ms /\ a.participant /\ b.participant /\ ~t.participant
      /\ ms = {a, b, t} /\ t \notin {a, b}
  BY <1>2, <1>3
<1>5. a.key # b.key
  <2>1. {keys[m] : m \in ms} = {m.key : m \in ms} /\ keys[a] = a.key /\ keys[b] = b.key
    BY <1>4
  <2>2. Cardinality({keys[m] : m \in ms}) = Cardinality(ms)
    BY <2>1 DEF ProveMece, Distinct
  <2> HIDE DEF keys, players
  <2>3. \A x, y \in ms : keys[x] = keys[y] => x = y
    BY <1>1, <2>2, DifferentValues
  <2>4. QED BY <1>2, <1>4, <2>1, <2>3
<1> HIDE DEF players
<1>6. a.rules = t.rules /\ b.rules = t.rules
  <2> DEFINE texts == {m.rules : m \in ms}
  <2>1. Cardinality(texts) = 1
    BY DEF ProveMece, Single
  <2>2. IsFiniteSet(texts)
    <3> DEFINE rules == [m \in ms |-> m.rules]
    <3>1. texts = {rules[m] : m \in ms}
      OBVIOUS
    <3> HIDE DEF rules, texts
    <3>2. QED BY <1>1, <3>1, FiniteImage
  <2>3. a.rules \in texts /\ b.rules \in texts /\ t.rules \in texts
    BY <1>4
  <2> HIDE DEF texts
  <2>4. PICK r : texts = {r}
    BY <2>1, <2>2, FS_Singleton
  <2>5. QED BY <2>3, <2>4
<1>7. a.drawExcluded \/ b.drawExcluded \/ t.drawExcluded
  BY <1>4 DEF ProveMece
<1>8. a.mx /\ b.mx /\ t.mx
  BY <1>4 DEF ProveMece
<1>9. ThreeWays(Contracts(s), w)
  BY WorldIs DEF Lawful
<1>10. w[a.ticker] + w[b.ticker] + w[t.ticker] = 100
  <2> DEFINE games == {c \in Contracts(s) : IsTwoWay(c) /\ c.mx}
  <2>1. \A x, y \in {c \in games : c.participant} : \A z \in {c \in games : ~c.participant} :
          /\ x.event = z.event /\ y.event = z.event /\ x.key # y.key
          /\ x.rules = z.rules /\ y.rules = z.rules
          /\ x.drawExcluded \/ y.drawExcluded \/ z.drawExcluded
          => w[x.ticker] + w[y.ticker] + w[z.ticker] = 100
    BY <1>9 DEF ThreeWays
  <2>2. a \in {c \in games : c.participant} /\ b \in {c \in games : c.participant} /\ t \in {c \in games : ~c.participant}
    BY <1>4, <1>8
  <2>3. a.event = t.event /\ b.event = t.event
    BY <1>4
  <2> HIDE DEF games
  <2>4. QED BY <1>5, <1>6, <1>7, <2>1, <2>2, <2>3
<1>11. QED BY <1>2, <1>4, <1>10, YesPaysThree

-----------------------------------------------------------------------------
\* A book of an event whose YES pay a dollar between them.
LEMMA BookRowHonest ==
    ASSUME board \in Boards, NEW s \in Sports, NEW ms \in SUBSET Contracts(s),
           \A w \in board.worlds \cup board.odd : YesPays(w, ms) = 100,
           NEW event, NEW over, NEW row \in Book(event, ms, over)
    PROVE  Honest(row)
<1> DEFINE cands == Directions(ms)
           c == Widest(cands)
           id == <<"dutch_book", event, {m.key : m \in ms}>>
<1>1. cands # {}
  BY DEF Book, EdgeOf
<1>2. \/ row = Finding("dutch_book", "EXECUTABLE_DUTCH_BOOK", StrictBucket(c, ms), id, c, ms, c.gap)
      \/ row = Finding("dutch_book", "NEAR_MISS_DUTCH_BOOK", "near_miss", id, c, ms, c.gap)
  BY DEF Book
<1> HIDE DEF id, c
<1>3. row.legs = c.legs /\ row.cost = c.cost /\ row.floor = c.floor /\ row.worst = c.gap /\ row.best = c.gap
  <2>1. CASE row = Finding("dutch_book", "EXECUTABLE_DUTCH_BOOK", StrictBucket(c, ms), id, c, ms, c.gap)
    BY <2>1 DEF Finding
  <2>2. CASE row = Finding("dutch_book", "NEAR_MISS_DUTCH_BOOK", "near_miss", id, c, ms, c.gap)
    BY <2>2 DEF Finding
  <2>3. QED BY <1>2, <2>1, <2>2
<1>4. QED BY <1>1, <1>3, FlatHonest DEF c

\* What detect_two_way reports is a proven book.
LEMMA TwoWayHonest ==
    ASSUME board \in Boards, NEW s \in Sports, NEW ms \in SUBSET Contracts(s),
           \A m \in ms : IsTwoWay(m), \A m, n \in ms : m.event = n.event /\ m.kind = n.kind,
           NEW event, NEW over, NEW row \in DetectTwoWay(event, ms, over)
    PROVE  Honest(row)
<1> DEFINE one == CHOOSE m \in ms : TRUE
           cfg == SportOf(one.series)
<1>1. row \in Book(event, ms, over) /\ ms # {} /\ IF cfg.nWay THEN ProveMece(ms) ELSE Cardinality(ms) = 2 /\ Distinct(ms)
  <2>1. row \in Book(event, ms, over) /\ IF cfg.nWay THEN ProveMece(ms) ELSE Cardinality(ms) = 2 /\ Distinct(ms)
    BY DEF DetectTwoWay, DetectNWay, DetectPair
  <2>2. ms # {}
    <3>1. Cardinality(ms) # 0
      BY <2>1 DEF ProveMece
    <3>2. QED BY <3>1, FS_EmptySet
  <2>3. QED BY <2>1, <2>2
<1>2. one \in ms
  BY <1>1
<1>3. \A m \in ms : m.series = one.series
  BY <1>2, ContractsTold
<1>4. \A w \in board.worlds \cup board.odd : YesPays(w, ms) = 100
  <2> SUFFICES ASSUME NEW w \in board.worlds \cup board.odd PROVE YesPays(w, ms) = 100
    OBVIOUS
  <2>1. CASE cfg.nWay
    BY <1>1, <2>1, ThreeSettle
  <2>2. CASE ~cfg.nWay
    <3>1. cfg.meceByShape \/ (\E m \in ms : m.kind # "game") \/ ProvesFixedSum(ms)
      BY <2>2 DEF DetectTwoWay
    <3> DEFINE series == one.series
    <3>2. /\ \A m \in ms : IsTwoWay(m) /\ m.series = series
          /\ ~SportOf(series).nWay
          /\ SportOf(series).meceByShape \/ (\E m \in ms : m.kind # "game") \/ ProvesFixedSum(ms)
      BY <1>3, <2>2, <3>1
    <3> HIDE DEF series
    <3>3. QED BY <1>1, <2>2, <3>2, PairSettles
  <2>3. QED BY <2>1, <2>2
<1>5. QED BY <1>1, <1>4, BookRowHonest

\* Of a field at most one market settles YES.
LEMMA FieldHonest ==
    ASSUME board \in Boards, NEW s \in Sports, NEW ms \in SUBSET Contracts(s), \A m, n \in ms : m.event = n.event,
           NEW event, NEW row \in DetectField(event, ms)
    PROVE  Honest(row)
<1> DEFINE subset == FieldOverroundSubset(ms)
           g == 100 * (Cardinality(subset) - 1)
           cands == Direction("no", subset, g)
           c == Widest(cands)
           id == <<"dutch_book", event, "field", "overround">>
           bucket == StrictBucket(c, subset)
<1>1. /\ \A m \in ms : m.mx
      /\ cands # {}
      /\ row = [Finding("dutch_book", "EXECUTABLE_DUTCH_BOOK", bucket, id, c, subset, NoGap) EXCEPT !.worst = NoGap]
  BY DEF DetectField, ProveFieldMece
<1>2. subset \in SUBSET ms /\ subset \in SUBSET Contracts(s)
  BY DEF FieldOverroundSubset
<1> HIDE DEF subset
<1>3. IsFiniteSet(Contracts(s)) /\ Cardinality(subset) \in Nat
  BY <1>2, ContractsFinite, FS_Subset, FS_CardinalityType
<1>4. subset # {} /\ cands \in SUBSET (Direction("yes", subset, 100) \cup Direction("no", subset, g))
  BY <1>1 DEF Direction
<1>5. g \in Int /\ g = 100 * Cardinality(subset) - 100
  BY <1>3
<1> HIDE DEF cands, g
<1>6. \A d \in cands : d.side = "no"
  BY DEF cands, Direction
<1>7. /\ c.side \in {"yes", "no"} /\ Priced(c.side, subset)
      /\ c.legs = Legs(c.side, subset) /\ c.cost = Cost(c.side, subset)
      /\ c.floor = (IF c.side = "yes" THEN 100 ELSE g)
  BY <1>1, <1>2, <1>4, <1>5, ChosenWay
<1>8. c.side = "no"
  <2>1. PICK d : cands = {d}
    BY <1>1 DEF cands, Direction
  <2>2. c = d
    BY <2>1 DEF Widest
  <2>3. QED BY <1>6, <2>1, <2>2
<1> HIDE DEF c, bucket, id
<1>9. /\ row.legs = c.legs /\ row.cost = c.cost /\ row.floor = c.floor
      /\ row.worst = NoGap /\ row.best = NoGap
  BY <1>1 DEF Finding
<1>10. ASSUME NEW w \in Settles(row)
       PROVE  g <= SidePays("no", subset, w) /\ SidePays("no", subset, w) <= 100 * Cardinality(subset)
  <2>1. w \in board.worlds \cup board.odd
    BY SettlesIs
  <2>2. PICK m \in subset : TRUE
    BY <1>4
  <2> DEFINE all == {x \in Contracts(s) : x.event = m.event}
             f == [x \in all |-> w[x.ticker]]
             f1 == [x \in subset |-> w[x.ticker]]
  <2>3. YesPays(w, all) <= 100
    <3>1. Exclusive(Contracts(s), w)
      BY <2>1, WorldIs DEF Lawful
    <3>2. m.event \in {x.event : x \in {y \in Contracts(s) : y.mx}}
      BY <1>1, <1>2
    <3>3. QED BY <3>1, <3>2 DEF Exclusive
  <2>4. subset \in SUBSET all /\ all \in SUBSET Contracts(s)
    BY <1>2
  <2>5. IsFiniteSet(all)
    BY <1>3, <2>4, FS_Subset
  <2>6. \A x \in Contracts(s) : w[x.ticker] \in 0..100
    BY <2>1, WorldIs
  <2>7. \A x \in all : f[x] \in Nat
    BY <2>4, <2>6
  <2>8. \A x \in subset : f1[x] \in Nat /\ f1[x] = f[x]
    BY <2>4, <2>6
  <2>9. YesPays(w, all) = SumOf(f, all) /\ YesPays(w, subset) = SumOf(f1, subset)
    BY YesPaysIs
  <2> HIDE DEF all, f, f1
  <2>10. IsFiniteSet(subset)
    BY <2>4, <2>5, FS_Subset
  <2>11. SumOf(f, subset) <= SumOf(f, all) /\ SumOf(f, all) \in Nat
    BY <2>4, <2>5, <2>7, SumMonotone, SumNat
  <2>12. SumOf(f1, subset) = SumOf(f, subset) /\ SumOf(f1, subset) \in Nat
    BY <2>8, <2>10, SumSame, SumNat
  <2>13. YesPays(w, subset) \in 0..100
    BY <2>3, <2>9, <2>11, <2>12
  <2>14. QED BY <1>3, <1>5, <2>13 DEF SidePays
<1> DEFINE hi == 100 * Cardinality(subset)
<1>11. hi \in Int /\ \A w \in Settles(row) : g <= SidePays("no", subset, w) /\ SidePays("no", subset, w) <= hi
  BY <1>3, <1>10
<1> HIDE DEF hi
<1>12. row.floor = g /\ row.legs = Legs("no", subset) /\ row.cost = Cost("no", subset) /\ Priced("no", subset)
  BY <1>7, <1>8, <1>9
<1>13. QED BY <1>2, <1>5, <1>9, <1>11, <1>12, BookHonest

\* Every book find_dutch_books reports.
LEMMA DutchBooksHonest ==
    ASSUME board \in Boards, NEW s \in Sports, NEW over, NEW row \in FindDutchBooks(Contracts(s), over)
    PROVE  Honest(row)
<1> DEFINE kept == {m \in Trusted(Contracts(s)) : m.kind # "exact_order"}
           twoWay == {m \in kept : IsTwoWay(m)}
           fields == {m \in kept : ~IsTwoWay(m) /\ IsField(m)}
           pair(g) == {m \in twoWay : m.event = g[1] /\ m.kind = g[2]}
           field(e) == {m \in fields : m.event = e}
           pairs == {DetectTwoWay(g[1], pair(g), over) : g \in {<<m.event, m.kind>> : m \in twoWay}}
           inField == {DetectField(e, field(e)) : e \in {m.event : m \in fields}}
<1>1. row \in (UNION pairs) \cup (UNION inField)
  BY DEF FindDutchBooks
<1>2. \A g : /\ pair(g) \in SUBSET Contracts(s) /\ \A m \in pair(g) : IsTwoWay(m)
             /\ \A m, n \in pair(g) : m.event = n.event /\ m.kind = n.kind
  BY DEF Trusted
<1>3. \A e : field(e) \in SUBSET Contracts(s) /\ \A m, n \in field(e) : m.event = n.event
  BY DEF Trusted
<1> HIDE DEF pair, field, twoWay, fields
<1>4. CASE row \in UNION pairs
  <2>1. PICK g : row \in DetectTwoWay(g[1], pair(g), over)
    BY <1>4
  <2>2. QED BY <1>2, <2>1, TwoWayHonest
<1>5. CASE row \in UNION inField
  <2>1. PICK e : row \in DetectField(e, field(e))
    BY <1>5
  <2>2. QED BY <1>3, <2>1, FieldHonest
<1> HIDE DEF pairs, inField
<1>6. row \in UNION pairs \/ row \in UNION inField
  BY ONLY <1>1
<1>7. QED BY <1>4, <1>5, <1>6

-----------------------------------------------------------------------------
\* What a basket pays is what the format of the tournament says.
LEMMA BasketHonest ==
    ASSUME board \in Boards, NEW s \in Sports, NEW ms \in SUBSET Contracts(s),
           \A m \in ms : IsGroupBasket(m), \A m, n \in ms : m.event = n.event,
           NEW event, NEW row \in DetectGroupBasket(event, ms)
    PROVE  Honest(row)
<1> DEFINE one == CHOOSE m \in ms : TRUE
           series == one.series
           rule == SportOf(series).baskets[series]
           f == 100 * rule.yes_floor
           g == 100 * rule.no_floor
           cands == Direction("yes", ms, f) \cup Direction("no", ms, g)
           c == Widest(cands)
           ceiling == 100 * (IF c.side = "yes" THEN rule.yes_ceiling_count ELSE rule.no_ceiling_count)
           best == ceiling - c.cost
<1>1. /\ cands # {} /\ Cardinality(ms) = rule.team_count /\ Distinct(ms)
      /\ row = Finding("group_basket", "EXECUTABLE_GROUP_BASKET", StrictBucket(c, ms),
                       <<"group_basket", event, "basket">>, c, ms, best)
  BY DEF DetectGroupBasket
<1>2. one \in ms
  <2>1. ms # {}
    BY <1>1 DEF Direction
  <2>2. QED BY <2>1
<1>3. series \in DOMAIN SportOf(series).baskets
  BY <1>2 DEF IsGroupBasket
<1>4. \A m \in ms : m.series = series
  BY <1>2, ContractsTold
<1>5. \/ series = "KXWCGROUPQUAL" /\ rule = GroupRule(4, 2, 1, 3, 2)
      \/ series = "KXWCGROUPBOTTOM" /\ rule = GroupRule(4, 1, 3, 1, 3)
  BY <1>3, BasketRules
<1> DEFINE lo == IF c.side = "yes" THEN f ELSE g
<1>6. /\ f = 100 * rule.yes_floor /\ g = 100 * rule.no_floor
      /\ ceiling = 100 * (IF c.side = "yes" THEN rule.yes_ceiling_count ELSE rule.no_ceiling_count)
      /\ best = ceiling - c.cost
  OBVIOUS
<1>7. cands \in SUBSET (Direction("yes", ms, f) \cup Direction("no", ms, g))
  OBVIOUS
<1> HIDE DEF rule, f, g, ceiling, cands, best
<1>8. \/ /\ series = "KXWCGROUPQUAL" /\ f = 200 /\ g = 100
         /\ ceiling = (IF c.side = "yes" THEN 300 ELSE 200)
      \/ /\ series = "KXWCGROUPBOTTOM" /\ f = 100 /\ g = 300
         /\ ceiling = (IF c.side = "yes" THEN 100 ELSE 300)
  BY <1>5, <1>6 DEF GroupRule
<1>9. Cardinality(ms) = 4
  BY <1>1, <1>5 DEF GroupRule
<1>10. f \in Int /\ g \in Int /\ ceiling \in Int
  BY <1>8
<1>11. /\ c.side \in {"yes", "no"} /\ ms # {} /\ Priced(c.side, ms)
       /\ c.legs = Legs(c.side, ms) /\ c.cost = Cost(c.side, ms)
       /\ c.floor = lo /\ c.gap = c.floor - c.cost
  BY <1>1, <1>7, <1>10, ChosenWay
<1> HIDE DEF c
<1>12. row.legs = c.legs /\ row.cost = c.cost /\ row.floor = c.floor /\ row.worst = c.gap /\ row.best = best
  BY <1>1 DEF Finding
<1> HIDE DEF one
<1>13. ASSUME NEW w \in Settles(row)
       PROVE  lo <= SidePays(c.side, ms, w) /\ SidePays(c.side, ms, w) <= ceiling
  <2>1. GroupsOfFour(Contracts(s), w)
    BY SettlesIs, WorldIs DEF Lawful
  <2>2. ms \in SUBSET {x \in Contracts(s) : x.event = one.event /\ IsGroupBasket(x)}
    BY <1>2
  <2>3. one.event \in {x.event : x \in {y \in Contracts(s) : IsGroupBasket(y)}}
    BY <1>2
  <2>4. /\ (\A m \in ms : m.series = "KXWCGROUPQUAL") => YesPays(w, ms) \in 200 .. 300
        /\ (\A m \in ms : m.series = "KXWCGROUPBOTTOM") => YesPays(w, ms) = 100
    BY <1>1, <1>9, <2>1, <2>2, <2>3 DEF GroupsOfFour
  <2>5. CASE series = "KXWCGROUPQUAL"
    <3>1. YesPays(w, ms) \in 200 .. 300
      BY <1>4, <2>4, <2>5
    <3>2. QED BY <1>8, <1>9, <1>11, <2>5, <3>1 DEF SidePays
  <2>6. CASE series = "KXWCGROUPBOTTOM"
    <3>1. YesPays(w, ms) = 100
      BY <1>4, <2>4, <2>6
    <3>2. QED BY <1>8, <1>9, <1>11, <2>6, <3>1 DEF SidePays
  <2>7. QED BY <1>8, <2>5, <2>6
<1>14. lo \in Int
  BY <1>10
<1> HIDE DEF lo
<1>15. QED BY <1>6, <1>10, <1>11, <1>12, <1>13, <1>14, BookHonest

LEMMA BasketsHonest ==
    ASSUME board \in Boards, NEW s \in Sports, NEW row \in FindGroupBaskets(Contracts(s))
    PROVE  Honest(row)
<1> DEFINE kept == {m \in Trusted(Contracts(s)) : IsGroupBasket(m)}
           of(e) == {m \in kept : m.event = e}
<1>1. PICK e : row \in DetectGroupBasket(e, of(e))
  BY DEF FindGroupBaskets
<1>2. /\ of(e) \in SUBSET Contracts(s) /\ \A m \in of(e) : IsGroupBasket(m)
      /\ \A m, n \in of(e) : m.event = n.event
  BY DEF Trusted
<1> HIDE DEF of
<1>3. QED BY <1>1, <1>2, BasketHonest

-----------------------------------------------------------------------------
\* The seven stages of one team, once each: one of them pays.
LEMMA StagesHonest ==
    ASSUME board \in Boards, NEW s \in Sports, NEW ms \in SUBSET Contracts(s), NEW event,
           \A m \in ms : m.kind = "stage_of_elim" /\ m.event = event, Complete(ms),
           NEW w \in board.worlds \cup board.odd
    PROVE  ms \in StageBooks(Contracts(s), event) /\ YesPays(w, ms) = 100
<1> DEFINE rounds == [m \in ms |-> m.round]
<1>1. IsFiniteSet(ms) /\ {rounds[m] : m \in ms} = Buckets /\ Cardinality(ms) = Cardinality({rounds[m] : m \in ms})
  <2>1. {rounds[m] : m \in ms} = {m.round : m \in ms}
    OBVIOUS
  <2>2. IsFiniteSet(ms)
    BY ContractsFinite, FS_Subset
  <2>3. QED BY <2>1, <2>2 DEF Complete
<1>2. \A m \in ms : rounds[m] = m.round
  OBVIOUS
<1> HIDE DEF rounds
<1>3. \A m, n \in ms : rounds[m] = rounds[n] => m = n
  BY <1>1, DifferentValues
<1>4. EachStageOnce(ms)
  BY <1>1, <1>2, <1>3 DEF EachStageOnce, Complete
<1>5. ms \in StageBooks(Contracts(s), event)
  BY <1>4 DEF StageBooks, StagesOf
<1>6. ms # {}
  BY <1>1 DEF Buckets, StageElimBuckets
<1>7. event \in {c.event : c \in Contracts(s)}
  BY <1>6
<1>8. Eliminations(Contracts(s), w)
  BY WorldIs DEF Lawful
<1>9. QED BY <1>5, <1>7, <1>8 DEF Eliminations

LEMMA StageBooksHonest ==
    ASSUME board \in Boards, NEW s \in Sports, NEW row \in FindStageElimBooks(Contracts(s))
    PROVE  Honest(row)
<1>1. PICK e : row \in DetectStageBook(e, StageRows(Contracts(s), e))
  BY DEF FindStageElimBooks
<1> DEFINE ms == StageRows(Contracts(s), e)
           cands == Directions(ms)
           c == Widest(cands)
           id == <<"stage_elim_book", e, (CHOOSE m \in ms : TRUE).key>>
<1>2. /\ cands # {} /\ Complete(ms)
      /\ row = Finding("stage_elim_book", "EXECUTABLE_STAGE_ELIM_BOOK", StrictBucket(c, ms), id, c, ms, c.gap)
  BY <1>1 DEF DetectStageBook, BookProof, Firing
<1>3. ms \in SUBSET Contracts(s) /\ \A m \in ms : m.kind = "stage_of_elim" /\ m.event = e
  BY DEF StageRows, Trusted
<1> HIDE DEF id, c, ms
<1>4. row.legs = c.legs /\ row.cost = c.cost /\ row.floor = c.floor /\ row.worst = c.gap /\ row.best = c.gap
  BY <1>2 DEF Finding
<1>5. \A w \in board.worlds \cup board.odd : YesPays(w, ms) = 100
  BY <1>2, <1>3, StagesHonest
<1>6. QED BY <1>2, <1>3, <1>4, <1>5, FlatHonest DEF c

-----------------------------------------------------------------------------
\* A replication, where the parts pay what the whole pays.
LEMMA ReplicaHonest ==
    ASSUME board \in Boards, NEW s \in Sports, NEW parts \in SUBSET Contracts(s), NEW whole \in Contracts(s),
           NEW cands, cands = Replications(parts, whole), cands # {},
           NEW row, row.legs = Widest(cands).legs, row.cost = Widest(cands).cost, row.floor = Widest(cands).floor,
           row.worst \in {NoGap, Widest(cands).gap}, row.best \in {NoGap, Widest(cands).gap},
           \A w \in Settles(row) : YesPays(w, parts) = w[whole.ticker]
    PROVE  Honest(row)
<1> DEFINE c == Widest(cands)
           n == Cardinality(parts)
<1>1. \/ /\ Priced("yes", parts) /\ BuyPrice("no", whole) # None
         /\ c.legs = Legs("yes", parts) \cup {Leg("no", whole)}
         /\ c.cost = Cost("yes", parts) + BuyPrice("no", whole) /\ c.floor = 100 /\ c.gap = 100 - c.cost
      \/ /\ Priced("no", parts) /\ BuyPrice("yes", whole) # None
         /\ c.legs = Legs("no", parts) \cup {Leg("yes", whole)}
         /\ c.cost = Cost("no", parts) + BuyPrice("yes", whole)
         /\ c.floor = 100 * n /\ c.gap = 100 * n - c.cost
  BY ChosenReplica
<1>2. /\ row.legs = c.legs /\ row.cost = c.cost /\ row.floor = c.floor
      /\ row.worst \in {NoGap, c.gap} /\ row.best \in {NoGap, c.gap}
  OBVIOUS
<1>3. n \in Nat
  BY ContractsFinite, FS_Subset, FS_CardinalityType
<1> HIDE DEF c
<1>4. CASE /\ Priced("yes", parts) /\ BuyPrice("no", whole) # None
           /\ c.legs = Legs("yes", parts) \cup {Leg("no", whole)}
           /\ c.cost = Cost("yes", parts) + BuyPrice("no", whole) /\ c.floor = 100 /\ c.gap = 100 - c.cost
  <2>1. row.cost \in Int
    <3>1. Cost("yes", parts) \in Nat
      BY <1>4, CostNat
    <3>2. BuyPrice("no", whole) \in Nat
      BY <1>4, BuyNat
    <3>3. QED BY <1>2, <1>4, <3>1, <3>2
  <2>2. ASSUME NEW w \in Settles(row) PROVE Pays(row, w) = 100
    <3>1. w \in board.worlds \cup board.odd /\ YesPays(w, parts) = w[whole.ticker]
      BY SettlesIs
    <3> DEFINE side == "yes"
               other == "no"
    <3>2. <<side, other>> \in {<<"yes", "no">>, <<"no", "yes">>} /\ row.legs = Legs(side, parts) \cup {Leg(other, whole)} /\ side = "yes"
      BY <1>2, <1>4
    <3> HIDE DEF side, other
    <3>3. Pays(row, w) = IF side = "yes" THEN 100 ELSE 100 * Cardinality(parts)
      BY <3>1, <3>2, ReplicaPays
    <3>4. QED BY <3>2, <3>3
  <2> DEFINE lo == 100
  <2>3. \A w \in Settles(row) : Pays(row, w) \in Int /\ lo <= Pays(row, w) /\ Pays(row, w) <= lo
    BY <2>2
  <2>4. lo \in Int /\ row.floor = lo /\ c.gap = lo - row.cost
    BY <1>2, <1>4
  <2> HIDE DEF lo
  <2>5. QED BY <1>2, <2>1, <2>3, <2>4, HonestIf
<1>5. CASE /\ Priced("no", parts) /\ BuyPrice("yes", whole) # None
           /\ c.legs = Legs("no", parts) \cup {Leg("yes", whole)}
           /\ c.cost = Cost("no", parts) + BuyPrice("yes", whole)
           /\ c.floor = 100 * n /\ c.gap = 100 * n - c.cost
  <2>1. row.cost \in Int
    <3>1. Cost("no", parts) \in Nat
      BY <1>5, CostNat
    <3>2. BuyPrice("yes", whole) \in Nat
      BY <1>5, BuyNat
    <3>3. QED BY <1>2, <1>5, <3>1, <3>2
  <2>2. ASSUME NEW w \in Settles(row) PROVE Pays(row, w) = 100 * n
    <3>1. w \in board.worlds \cup board.odd /\ YesPays(w, parts) = w[whole.ticker]
      BY SettlesIs
    <3> DEFINE side == "no"
               other == "yes"
    <3>2. <<side, other>> \in {<<"yes", "no">>, <<"no", "yes">>} /\ row.legs = Legs(side, parts) \cup {Leg(other, whole)} /\ side # "yes"
      BY <1>2, <1>5
    <3> HIDE DEF side, other
    <3>3. Pays(row, w) = IF side = "yes" THEN 100 ELSE 100 * Cardinality(parts)
      BY <3>1, <3>2, ReplicaPays
    <3>4. QED BY <3>2, <3>3
  <2> DEFINE lo == 100 * n
  <2>3. lo \in Int
    BY <1>3
  <2>4. \A w \in Settles(row) : Pays(row, w) \in Int /\ lo <= Pays(row, w) /\ Pays(row, w) <= lo
    BY <2>2, <2>3
  <2>5. row.floor = lo /\ c.gap = lo - row.cost
    BY <1>2, <1>5
  <2> HIDE DEF lo
  <2>6. QED BY <1>2, <2>1, <2>3, <2>4, <2>5, HonestIf
<1>6. QED BY <1>1, <1>4, <1>5

\* A replication counts only on the ways in which the rules agree.
LEMMA ReviewIs ==
    ASSUME NEW check, NEW status, NEW id, NEW c, NEW ms, NEW bounded \in BOOLEAN, NEW row,
           row = Review(check, status, id, c, ms, bounded)
    PROVE  /\ row.legs = c.legs /\ row.cost = c.cost /\ row.floor = c.floor
           /\ row.worst \in {NoGap, c.gap} /\ row.best \in {NoGap, c.gap}
           /\ Settles(row) = board.worlds
<1>1. /\ row.legs = c.legs /\ row.cost = c.cost /\ row.floor = c.floor
      /\ row.worst \in {NoGap, c.gap} /\ row.best \in {NoGap, c.gap}
      /\ row.flag = "SETTLEMENT_CHECK_REQUIRED"
  BY DEF Review, Finding
<1>2. QED BY <1>1 DEF Settles

\* Reaching a stage is going out at it or later.
LEMMA StageSyntheticsHonest ==
    ASSUME board \in Boards, NEW s \in Sports, NEW row \in FindStageElimSynthetics(Contracts(s))
    PROVE  Honest(row)
<1> DEFINE of(e) == StageRows(Contracts(s), e)
           team(e) == (CHOOSE m \in of(e) : TRUE).key
           hedges(e, n) == AdvanceHedge(Contracts(s), team(e), n)
<1>1. \E e : \E n \in DOMAIN RungTails : \E h \in hedges(e, n) :
        Complete(of(e)) /\ row \in DetectStageSynthetic(e, team(e), of(e), n, h)
  BY DEF FindStageElimSynthetics
<1>2. PICK e : \E n \in DOMAIN RungTails : \E h \in hedges(e, n) :
        Complete(of(e)) /\ row \in DetectStageSynthetic(e, team(e), of(e), n, h)
  BY <1>1
<1>3. PICK n \in DOMAIN RungTails : \E h \in hedges(e, n) :
        Complete(of(e)) /\ row \in DetectStageSynthetic(e, team(e), of(e), n, h)
  BY <1>2
<1>4. PICK h \in hedges(e, n) : Complete(of(e)) /\ row \in DetectStageSynthetic(e, team(e), of(e), n, h)
  BY <1>3
<1>5. of(e) \in SUBSET Contracts(s) /\ \A m \in of(e) : m.kind = "stage_of_elim" /\ m.event = e
  BY DEF StageRows, Trusted
<1>6. h \in Contracts(s) /\ h.kind \in {"advance", "winner"} /\ h.key = team(e) /\ h.node = n
  BY DEF AdvanceHedge, FirstOf
<1> DEFINE tail == {m \in of(e) : m.round \in RungTails[n]}
           cands == Replications(tail, h)
           c == Widest(cands)
           id == <<"stage_elim_synth", e, team(e), n>>
           ms == tail \cup {h}
<1>7. /\ row = Review("stage_elim_synth", "STAGE_ELIM_SYNTHETIC", id, c, ms, TRUE)
      /\ cands # {}
  BY <1>4 DEF DetectStageSynthetic, Firing
<1>8. tail \in SUBSET Contracts(s)
  BY <1>5
<1>9. \E m \in of(e) : m.key = h.key
  <2>1. of(e) # {}
    BY <1>4, TailNotEmpty
  <2>2. QED BY <1>6, <2>1
<1> HIDE DEF of, id, ms, c, team, hedges, cands
<1>10. /\ row.legs = c.legs /\ row.cost = c.cost /\ row.floor = c.floor
       /\ row.worst \in {NoGap, c.gap} /\ row.best \in {NoGap, c.gap}
       /\ Settles(row) = board.worlds
  <2>1. row \in {Review("stage_elim_synth", "STAGE_ELIM_SYNTHETIC", id, c, ms, b) : b \in BOOLEAN}
    BY <1>7
  <2>2. QED BY <2>1, ReviewIs
<1>11. ASSUME NEW w \in Settles(row) PROVE YesPays(w, tail) = w[h.ticker]
  <2>1. w \in board.worlds
    BY <1>10
  <2>2. Replicated(Contracts(s), w)
    BY <2>1, WorldIs
  <2>3. of(e) \in StageBooks(Contracts(s), e)
    BY <1>4, <1>5, <2>1, StagesHonest
  <2>4. e \in {x.event : x \in {y \in Contracts(s) : y.kind = "stage_of_elim"}}
    BY <1>5, <1>9
  <2>5. h \in {x \in Contracts(s) : x.kind \in {"advance", "winner"} /\ x.node \in DOMAIN RungTails}
    BY <1>3, <1>6
  <2>6. YesPays(w, {m \in of(e) : m.round \in RungTails[h.node]}) = w[h.ticker]
    BY <1>9, <2>2, <2>3, <2>4, <2>5 DEF Replicated
  <2>7. QED BY <1>6, <2>6
<1>12. cands = Replications(tail, h)
  BY DEF cands
<1> HIDE DEF tail
<1>13. QED BY <1>6, <1>7, <1>8, <1>10, <1>11, <1>12, ReplicaHonest DEF c

-----------------------------------------------------------------------------
\* One value is the value of all.
LEMMA SingleValue ==
    ASSUME NEW S, IsFiniteSet(S), NEW g, Single({g[x] : x \in S})
    PROVE  \A x, y \in S : g[x] = g[y]
<1> DEFINE V == {g[x] : x \in S}
<1>1. IsFiniteSet(V) /\ Cardinality(V) = 1
  BY FiniteImage DEF Single
<1>2. \A x \in S : g[x] \in V
  OBVIOUS
<1> HIDE DEF V
<1>3. PICK v : V = {v}
  BY <1>1, FS_Singleton
<1>4. QED BY <1>2, <1>3

\* An index that meets a key again keeps the last row.
LEMMA HasLast ==
    ASSUME board \in Boards, NEW s \in Sports, NEW ms \in SUBSET Contracts(s), ms # {}
    PROVE  \E m \in LastOf(ms) : TRUE
<1> DEFINE R == {p \in ms \X ms : p[1].ticker >= p[2].ticker}
<1>1. IsFiniteSet(ms)
  BY ContractsFinite, FS_Subset
<1>2. \A x \in ms : x.ticker \in Nat
  BY ContractNats
<1>3. \A x, y \in ms : <<x, y>> \in R <=> x.ticker >= y.ticker
  OBVIOUS
<1> HIDE DEF R
<1>4. \A x, y \in ms : x.ticker >= y.ticker \/ y.ticker >= x.ticker
  BY <1>2
<1>5. \A x, y, z \in ms : x.ticker >= y.ticker /\ y.ticker >= z.ticker => x.ticker >= z.ticker
  BY <1>2
<1>6. \E m \in ms : \A x \in ms : <<m, x>> \in R
  <2>1. \A x, y \in ms : <<x, y>> \in R \/ <<y, x>> \in R
    BY <1>3, <1>4
  <2>2. \A x, y, z \in ms : <<x, y>> \in R /\ <<y, z>> \in R => <<x, z>> \in R
    BY <1>3, <1>5
  <2>3. QED BY <1>1, <2>1, <2>2, HasFirst
<1>7. QED BY <1>3, <1>6 DEF LastOf

\* The scores a detector puts together are those the format allows, once each.
States(ms) == UNION {LastOf({m \in ms : m.score = v}) : v \in ExpectedStates(CHOOSE m \in ms : TRUE)}
LEMMA StatesAre ==
    ASSUME board \in Boards, NEW s \in Sports, NEW ms \in SUBSET Contracts(s), ms # {},
           \A m, n \in ms : m.event = n.event,
           ExpectedStates(CHOOSE m \in ms : TRUE) # {},
           {m.score : m \in ms} \ {""} = ExpectedStates(CHOOSE m \in ms : TRUE)
    PROVE  /\ States(ms) \subseteq ms /\ States(ms) # {}
           /\ \A p, q \in States(ms) : p.score = q.score => p = q
           /\ \A p \in States(ms) : {q.score : q \in States(ms)} = ExpectedStates(p)
<1> DEFINE one == CHOOSE m \in ms : TRUE
           expected == ExpectedStates(one)
           of(v) == {m \in ms : m.score = v}
           states == States(ms)
<1>1. one \in ms
  OBVIOUS
<1>2. \A v : of(v) \in SUBSET Contracts(s) /\ \A m \in of(v) : m.score = v /\ m \in ms
  OBVIOUS
<1>3. expected # {} /\ \A v \in expected : of(v) # {}
  OBVIOUS
<1>4. states = UNION {LastOf(of(v)) : v \in expected}
  BY DEF States
<1>5. \A p \in ms : ExpectedStates(p) = expected
  <2>1. one \in Contracts(s) /\ \A p \in ms : p \in Contracts(s) /\ p.event = one.event
    BY <1>1
  <2> HIDE DEF one
  <2>2. \A p \in ms : p.series = one.series /\ p.tour = one.tour
    <3> SUFFICES ASSUME NEW p \in ms PROVE p.series = one.series /\ p.tour = one.tour
      OBVIOUS
    <3>1. p \in Contracts(s) /\ one \in Contracts(s) /\ p.event = one.event
      BY <2>1
    <3>2. QED BY ONLY board \in Boards, s \in Sports, <3>1, ContractsTold
  <2>3. QED BY <2>2 DEF ExpectedStates
<1> HIDE DEF one, expected, of, states
<1>6. \A v : \A p \in LastOf(of(v)) : p \in of(v)
  BY DEF LastOf
<1>7. \A v \in expected : \E p \in states : p.score = v
  <2> SUFFICES ASSUME NEW v \in expected PROVE \E p \in states : p.score = v
    OBVIOUS
  <2>1. PICK p \in LastOf(of(v)) : TRUE
    BY <1>2, <1>3, HasLast
  <2>2. p \in states
    BY <1>4, <2>1
  <2>3. QED BY <1>2, <1>6, <2>1, <2>2
<1>8. \A p \in states : p \in ms /\ p.score \in expected /\ p \in LastOf(of(p.score))
  <2> SUFFICES ASSUME NEW p \in states PROVE p \in ms /\ p.score \in expected /\ p \in LastOf(of(p.score))
    OBVIOUS
  <2>1. PICK v \in expected : p \in LastOf(of(v))
    BY <1>4
  <2>2. p \in ms /\ p.score = v
    BY <1>2, <1>6, <2>1
  <2>3. QED BY <2>1, <2>2
<1>9. \A p, q \in states : p.score = q.score => p = q
  BY <1>2, <1>8, OneRow
<1>10. {q.score : q \in states} = expected
  BY <1>7, <1>8
<1>11. states # {}
  BY <1>3, <1>7
<1>12. \A p \in states : {q.score : q \in states} = ExpectedStates(p)
  BY <1>5, <1>8, <1>10
<1>13. QED BY <1>8, <1>9, <1>11, <1>12 DEF states

\* A bundle against a market that means the same.
LEMMA PlayerBundleHonest ==
    ASSUME board \in Boards, NEW s \in Sports, NEW ms \in SUBSET Contracts(s), NEW event, NEW key,
           \A m \in ms : m.kind = "exact_score" /\ m.event = event /\ m.key = key,
           NEW h \in Contracts(s), h.key = key, NEW kind,
           SameRound(ms, h, kind) => \A m \in ms : Means(h, m),
           NEW row \in DetectPlayerBundle(event, key, ms, h, kind)
    PROVE  Honest(row)
<1> DEFINE states == States(ms)
           cands == Replications(states, h)
           c == Widest(cands)
           id == BundleId(event, key, c, h, kind)
           legs == states \cup {h}
<1>1. /\ ExpectedStates(CHOOSE m \in ms : TRUE) # {}
      /\ {m.score : m \in ms} \ {""} = ExpectedStates(CHOOSE m \in ms : TRUE)
      /\ SameRound(ms, h, kind) /\ cands # {}
      /\ row = Review("synthetic_bundle", "EXECUTABLE_SYNTHETIC_BUNDLE", id, c, legs, FALSE)
  BY DEF DetectPlayerBundle, Firing, States
<1>2. ms # {}
  BY <1>1
<1>3. /\ states \subseteq ms /\ states # {}
      /\ \A p, q \in states : p.score = q.score => p = q
      /\ \A p \in states : {q.score : q \in states} = ExpectedStates(p)
  BY <1>1, <1>2, StatesAre
<1> HIDE DEF states, cands, c, id, legs
<1>4. /\ row.legs = c.legs /\ row.cost = c.cost /\ row.floor = c.floor
      /\ row.worst \in {NoGap, c.gap} /\ row.best \in {NoGap, c.gap}
      /\ Settles(row) = board.worlds
  <2>1. row \in {Review("synthetic_bundle", "EXECUTABLE_SYNTHETIC_BUNDLE", id, c, legs, b) : b \in BOOLEAN}
    BY <1>1
  <2>2. QED BY <2>1, ReviewIs
<1>5. states \in ScoreSets(Contracts(s), h)
  <2>1. states \in SUBSET {m \in Contracts(s) : m.kind = "exact_score" /\ m.key = h.key /\ Means(h, m)}
    BY <1>1, <1>3
  <2>2. \A p, q \in states : p.event = q.event
    BY <1>3
  <2>3. QED BY <1>3, <2>1, <2>2 DEF ScoreSets
<1>6. \A w \in Settles(row) : YesPays(w, states) = w[h.ticker]
  BY <1>4, <1>5, WorldIs DEF Replicated
<1>7. states \in SUBSET Contracts(s)
  BY <1>3
<1>8. /\ cands = Replications(states, h) /\ cands # {}
      /\ row.legs = Widest(cands).legs /\ row.cost = Widest(cands).cost /\ row.floor = Widest(cands).floor
      /\ row.worst \in {NoGap, Widest(cands).gap} /\ row.best \in {NoGap, Widest(cands).gap}
  BY <1>1, <1>4 DEF cands, c
<1>9. QED BY <1>6, <1>7, <1>8, ReplicaHonest

\* The match market of the player, and the rung that winning the match reaches.
LEMMA MatchMeans ==
    ASSUME board \in Boards, NEW s \in Sports, NEW ms \in SUBSET Contracts(s), NEW key,
           NEW h \in MatchHedge(Contracts(s), key), SameRound(ms, h, "match")
    PROVE  /\ h \in Contracts(s) /\ h.key = key
           /\ \A m \in ms : Means(h, m)
<1>1. h \in Contracts(s) /\ h.key = key /\ h.kind = SportOf(h.series).matchFamily
  BY DEF MatchHedge, LastOf
<1>2. \A m \in ms : SportOf(m.series) = SportOf(h.series)
  BY <1>1, SameConfig
<1>3. \A m \in ms : m.stage = h.stage
  BY DEF SameRound
<1>4. QED BY <1>1, <1>2, <1>3 DEF Means

LEMMA AdvanceMeans ==
    ASSUME board \in Boards, NEW s \in Sports, NEW ms \in SUBSET Contracts(s), NEW key,
           NEW pool \in SUBSET Contracts(s), NEW h \in AdvanceHedge(pool, key, Implied(ms))
    PROVE  /\ h \in Contracts(s) /\ h.key = key
           /\ \A m \in ms : Means(h, m)
<1> DEFINE one == CHOOSE m \in ms : TRUE
           cfg == SportOf(one.series)
           stages == {m.stage : m \in ms}
           stage == CHOOSE v \in stages : TRUE
           stageOf == [m \in ms |-> m.stage]
<1>1. /\ h \in Contracts(s) /\ h.key = key /\ h.kind \in {"advance", "winner"}
      /\ h.node = Implied(ms) /\ h.node # NoNode
  BY DEF AdvanceHedge, FirstOf
<1>2. Single(stages) /\ stage \in DOMAIN cfg.h2h /\ h.node = cfg.h2h[stage]
  BY <1>1 DEF Implied
<1>3. IsFiniteSet(ms)
  BY ContractsFinite, FS_Subset
<1>4. \A m, n \in ms : m.stage = n.stage
  <2>1. stages = {stageOf[m] : m \in ms} /\ \A m \in ms : stageOf[m] = m.stage
    OBVIOUS
  <2> HIDE DEF stageOf
  <2>2. Single({stageOf[m] : m \in ms})
    BY <1>2, <2>1
  <2>3. \A m, n \in ms : stageOf[m] = stageOf[n]
    BY <1>3, <2>2, SingleValue
  <2>4. QED BY <2>1, <2>3
<1>5. \A m \in ms : stage = m.stage
  <2>1. \A m \in ms : m.stage \in stages
    OBVIOUS
  <2>2. \A v \in stages : \E n \in ms : v = n.stage
    OBVIOUS
  <2> HIDE DEF stages
  <2>3. \A m \in ms : stage \in stages
    BY <2>1
  <2>4. QED BY <1>4, <2>2, <2>3
<1>6. \A m \in ms : SportOf(m.series) = cfg
  <2>1. \A m \in ms : one \in ms
    OBVIOUS
  <2> HIDE DEF one
  <2>2. QED BY <2>1, SameConfig
<1> HIDE DEF stage, cfg, stages
<1>7. QED BY <1>1, <1>2, <1>5, <1>6 DEF Means

\* Every bundle find_synthetic_bundles reports.
LEMMA BundlesHonest ==
    ASSUME board \in Boards, NEW s \in Sports, NEW row \in FindSyntheticBundles(Contracts(s))
    PROVE  Honest(row)
<1> DEFINE scores == {m \in Contracts(s) : m.kind = "exact_score"}
           of(g) == {m \in scores : m.event = g[1] /\ m.key = g[2]}
           pool(g) == {m \in Contracts(s) : m.tour = (CHOOSE n \in of(g) : TRUE).tour}
           advances(g) == AdvanceHedge(pool(g), g[2], Implied(of(g)))
           matches(g) == MatchHedge(Contracts(s), g[2])
           matched(g) == UNION {DetectPlayerBundle(g[1], g[2], of(g), h, "match") : h \in matches(g)}
           advanced(g) == UNION {DetectPlayerBundle(g[1], g[2], of(g), h, "advance") : h \in advances(g)}
<1>1. FindSyntheticBundles(Contracts(s)) = UNION {matched(g) \cup advanced(g) : g \in {<<m.event, m.key>> : m \in scores}}
  BY DEF FindSyntheticBundles
<1>2. \A g : /\ of(g) \in SUBSET Contracts(s) /\ pool(g) \in SUBSET Contracts(s)
             /\ \A m \in of(g) : m.kind = "exact_score" /\ m.event = g[1] /\ m.key = g[2]
  OBVIOUS
<1> HIDE DEF scores, of, pool
<1>3. ASSUME NEW g, row \in matched(g) PROVE Honest(row)
  <2>1. PICK h \in matches(g) : row \in DetectPlayerBundle(g[1], g[2], of(g), h, "match")
    BY <1>3
  <2>2. h \in MatchHedge(Contracts(s), g[2])
    OBVIOUS
  <2> DEFINE event == g[1]
             key == g[2]
             ms == of(g)
             kind == "match"
  <2>3. h \in Contracts(s) /\ h.key = key
    BY <2>2 DEF MatchHedge, LastOf
  <2>4. SameRound(ms, h, kind) => \A m \in ms : Means(h, m)
    BY <1>2, <2>2, MatchMeans
  <2>5. /\ ms \in SUBSET Contracts(s) /\ \A m \in ms : m.kind = "exact_score" /\ m.event = event /\ m.key = key
        /\ row \in DetectPlayerBundle(event, key, ms, h, kind)
    BY <1>2, <2>1
  <2> HIDE DEF event, key, ms, kind
  <2>6. QED BY <2>3, <2>4, <2>5, PlayerBundleHonest
<1>4. ASSUME NEW g, row \in advanced(g) PROVE Honest(row)
  <2>1. PICK h \in advances(g) : row \in DetectPlayerBundle(g[1], g[2], of(g), h, "advance")
    BY <1>4
  <2>2. h \in AdvanceHedge(pool(g), g[2], Implied(of(g)))
    OBVIOUS
  <2> DEFINE event == g[1]
             key == g[2]
             ms == of(g)
             kind == "advance"
  <2>3. /\ h \in Contracts(s) /\ h.key = key
        /\ \A m \in ms : Means(h, m)
    BY <1>2, <2>2, AdvanceMeans
  <2>4. /\ ms \in SUBSET Contracts(s) /\ \A m \in ms : m.kind = "exact_score" /\ m.event = event /\ m.key = key
        /\ row \in DetectPlayerBundle(event, key, ms, h, kind)
    BY <1>2, <2>1
  <2> HIDE DEF event, key, ms, kind
  <2>5. QED BY <2>3, <2>4, PlayerBundleHonest
<1> HIDE DEF matched, advanced
<1>5. QED BY <1>1, <1>3, <1>4

-----------------------------------------------------------------------------
\* Buying the broader of two rungs and the NO of the deeper pays a dollar at least.
LEMMA PairHonest ==
    ASSUME board \in Boards, NEW s \in Sports, NEW c \in Contracts(s), NEW d \in Contracts(s), NEW ask, NEW noAsk,
           NEW row, row.legs = PairLegs(c, ask, d, noAsk), NEW same \in BOOLEAN, row.floor = 100,
           row.worst = NoGap \/ (row.cost \in Int /\ row.worst = 100 - row.cost),
           row.best = NoGap \/ (row.cost \in Int /\ row.best = (IF same THEN 100 ELSE 200) - row.cost),
           \A w \in Settles(row) : w[d.ticker] <= w[c.ticker] /\ (same => w[d.ticker] = w[c.ticker])
    PROVE  Honest(row)
<1> DEFINE lo == 100
           hi == IF same THEN 100 ELSE 200
<1>1. ASSUME NEW w \in Settles(row) PROVE Pays(row, w) \in Int /\ lo <= Pays(row, w) /\ Pays(row, w) <= hi
  <2>1. w \in board.worlds \cup board.odd
    BY SettlesIs
  <2>2. /\ w[c.ticker] \in 0..100 /\ w[d.ticker] \in 0..100
        /\ Pays(row, w) = 100 + w[c.ticker] - w[d.ticker]
    BY <2>1, PairPays
  <2> DEFINE x == w[c.ticker]
             y == w[d.ticker]
  <2>3. x \in 0..100 /\ y \in 0..100 /\ Pays(row, w) = 100 + x - y /\ y <= x /\ (same => y = x)
    BY <2>2
  <2> HIDE DEF x, y
  <2>4. QED BY <2>3
<1>2. /\ lo \in Int /\ hi \in Int /\ row.floor = lo
      /\ row.worst = NoGap \/ (row.cost \in Int /\ row.worst = lo - row.cost)
      /\ row.best = NoGap \/ (row.cost \in Int /\ row.best = hi - row.cost)
  OBVIOUS
<1> HIDE DEF lo, hi
<1>3. QED BY <1>1, <1>2, HonestIf

\* A check that is no equivalence is bought forward.
LEMMA PlanForward ==
    ASSUME NEW child, NEW parent, Quoted(child), Quoted(parent), NEW eq \in BOOLEAN
    PROVE  \/ Plan(child, parent, eq) = PairLegs(parent, parent.ask, child, BuyNo(child))
           \/ eq /\ Plan(child, parent, eq) = PairLegs(child, child.ask, parent, BuyNo(parent))
<1>1. CASE eq
  BY <1>1 DEF Plan, PairLegs
<1>2. CASE ~eq
  <2> DEFINE cands == Candidates(child, parent, eq)
  <2>1. cands = Cross(parent, child, TRUE)
    BY <1>2 DEF Candidates
  <2>2. ASSUME cands # {} PROVE Best(cands).forward
    <3>1. PICK c \in cands : TRUE
      BY <2>2
    <3>2. c.gap \in Int /\ c.forward /\ \A d \in cands : d = c
      <4> DEFINE forward == TRUE
      <4>1. c \in Cross(parent, child, forward) /\ cands = Cross(parent, child, forward) /\ forward
        BY <2>1
      <4> HIDE DEF forward, cands
      <4>2. c.gap \in Int /\ c.forward = forward
        BY <4>1, GapInt
      <4>3. \A d \in Cross(parent, child, forward) : d = c
        BY <4>1, CrossIs
      <4>4. QED BY <4>1, <4>2, <4>3
    <3> HIDE DEF cands
    <3>3. \A d \in cands : c.gap > d.gap \/ (c.gap = d.gap /\ (c.forward \/ ~d.forward))
      BY <3>2
    <3>4. Best(cands) \in cands
      BY <3>3 DEF Best
    <3>5. QED BY <3>2, <3>4
  <2>3. QED BY <2>2 DEF Plan, PairLegs
<1>3. QED BY <1>1, <1>2

\* A check: the rungs settle in their order, or alike.
LEMMA CheckHonest ==
    ASSUME board \in Boards, NEW s \in Sports, NEW child \in Contracts(s), NEW parent \in Contracts(s),
           NEW rel, NEW childNode, NEW parentNode, NEW ladder, NEW budget,
           rel # "match_alignment" => \A w \in board.worlds : w[child.ticker] <= w[parent.ticker],
           rel # "match_alignment" /\ ~ladder.simultaneous => \A w \in board.odd : w[child.ticker] <= w[parent.ticker],
           rel = "match_alignment" => \A w \in board.worlds : w[child.ticker] = w[parent.ticker]
    PROVE  Honest(Check(rel, child, parent, childNode, parentNode, ladder, budget))
<1> DEFINE eq == rel = "match_alignment"
           status == StatusOf(child, parent, eq, budget)
           plan == Plan(child, parent, eq)
           legs == IF status \in ActionStatuses THEN plan ELSE {}
           cost == PlanCost(legs)
           profits == IF cost = None THEN {} ELSE ProfitsAt(cost, rel)
           row == Check(rel, child, parent, childNode, parentNode, ladder, budget)
<1>1. /\ row.legs = legs /\ row.cost = cost /\ row.floor = (IF cost = None THEN None ELSE 100)
      /\ row.worst = (IF profits = {} THEN NoGap ELSE Min(profits))
      /\ row.best = (IF profits = {} THEN NoGap ELSE Max(profits))
      /\ row.flag = RuleFlag(child, parent, eq, ladder.simultaneous)
  BY DEF Check, ProfitsAt
<1>2. /\ cost = PlanCost(legs)
      /\ profits = IF cost = None THEN {} ELSE ProfitsAt(cost, rel)
      /\ legs = {} \/ legs = plan
      /\ eq \in BOOLEAN
  OBVIOUS
<1>3. Quoted(child) /\ Quoted(parent) /\ child \in AllContracts /\ parent \in AllContracts
  BY ContractQuoted DEF AllContracts
<1>4. /\ eq => row.flag # "" /\ \A w \in board.worlds : w[child.ticker] = w[parent.ticker]
      /\ ~eq => \A w \in board.worlds : w[child.ticker] <= w[parent.ticker]
      /\ ~eq /\ row.flag = "" => \A w \in board.odd : w[child.ticker] <= w[parent.ticker]
  BY <1>1 DEF RuleFlag
<1>5. eq <=> rel = "match_alignment"
  OBVIOUS
<1>6. \/ plan = PairLegs(parent, parent.ask, child, BuyNo(child))
      \/ eq /\ plan = PairLegs(child, child.ask, parent, BuyNo(parent))
  BY <1>3, PlanForward
<1> HIDE DEF plan, legs, cost, profits, row, eq
<1>7. CASE cost = None
  <2>1. row.floor = None /\ row.worst = NoGap /\ row.best = NoGap
    BY <1>1, <1>2, <1>7
  <2>2. Honest(row)
    BY <2>1, HonestNothing
  <2>3. QED BY <2>2 DEF row
<1>8. CASE cost # None
  <2>1. legs # {}
    BY <1>2, <1>8 DEF PlanCost
  <2>2. legs = plan
    BY <1>2, <2>1
  <2>3. PICK long, short \in {child, parent} :
            /\ plan = PairLegs(long, long.ask, short, BuyNo(short))
            /\ eq \/ (long = parent /\ short = child)
            /\ {long, short} = {child, parent}
    BY <1>6
  <2>4. long \in AllContracts /\ short \in AllContracts /\ long \in Contracts(s) /\ short \in Contracts(s)
    BY <1>3
  <2>5. cost \in Int
    <3> DEFINE ask == long.ask
               noAsk == BuyNo(short)
    <3>1. ask \in {long.ask, None} /\ noAsk \in {BuyNo(short), None}
      OBVIOUS
    <3>2. legs = PairLegs(long, ask, short, noAsk)
      BY <2>2, <2>3
    <3> HIDE DEF ask, noAsk
    <3>3. PlanCost(legs) # None => PlanCost(legs) \in Int
      BY <2>4, <3>1, <3>2, PlanPair
    <3>4. QED BY <1>2, <1>8, <3>3
  <2>6. profits # {} /\ Min(profits) = 100 - cost /\ Max(profits) = (IF eq THEN 100 ELSE 200) - cost
    <3>1. profits = ProfitsAt(cost, rel)
      BY <1>2, <1>8
    <3>2. /\ ProfitsAt(cost, rel) # {} /\ Min(ProfitsAt(cost, rel)) = 100 - cost
          /\ Max(ProfitsAt(cost, rel)) = (IF rel = "match_alignment" THEN 100 ELSE 200) - cost
      BY <2>5, ProfitsOf
    <3>3. QED BY <1>5, <3>1, <3>2
  <2>7. /\ row.legs = PairLegs(long, long.ask, short, BuyNo(short)) /\ row.cost \in Int
        /\ row.floor = 100 /\ row.worst = 100 - row.cost /\ row.best = (IF eq THEN 100 ELSE 200) - row.cost
    BY <1>1, <1>8, <2>2, <2>3, <2>5, <2>6
  <2>8. \A w \in Settles(row) : w[short.ticker] <= w[long.ticker] /\ (eq => w[short.ticker] = w[long.ticker])
    <3> SUFFICES ASSUME NEW w \in Settles(row)
                 PROVE  w[short.ticker] <= w[long.ticker] /\ (eq => w[short.ticker] = w[long.ticker])
      OBVIOUS
    <3>1. w \in board.worlds \cup board.odd
      BY SettlesIs
    <3>2. w[long.ticker] \in 0..100 /\ w[short.ticker] \in 0..100
      <4>1. \A x \in Contracts(s) : w[x.ticker] \in 0..100
        BY <3>1, WorldIs
      <4>2. QED BY <2>4, <4>1
    <3>3. CASE eq
      <4>1. w \in board.worlds
        BY <1>4, <3>3 DEF Settles
      <4>2. w[child.ticker] = w[parent.ticker]
        BY <1>4, <3>3, <4>1
      <4>3. w[short.ticker] = w[long.ticker]
        BY <2>3, <4>2
      <4>4. QED BY <3>2, <4>3
    <3>4. CASE ~eq
      <4>1. w \in board.worlds \/ (row.flag = "" /\ w \in board.odd)
        BY DEF Settles
      <4>2. w[child.ticker] <= w[parent.ticker]
        BY <1>4, <3>4, <4>1
      <4>3. QED BY <2>3, <3>4, <4>2
    <3>5. QED BY <3>3, <3>4
  <2> DEFINE ask == long.ask
             noAsk == BuyNo(short)
  <2>9. row.legs = PairLegs(long, ask, short, noAsk)
    BY <2>7
  <2> HIDE DEF ask, noAsk
  <2>10. Honest(row)
    BY <1>2, <2>4, <2>7, <2>8, <2>9, PairHonest
  <2>11. QED BY <2>10 DEF row
<1>9. QED BY <1>7, <1>8

-----------------------------------------------------------------------------
\* Two contracts of one ladder, of which one is deeper.
LEMMA RungsNest ==
    ASSUME board \in Boards, NEW s \in Sports, NEW listed \in SUBSET Contracts(s),
           \A x, y \in listed : SameLadder(x, y),
           NEW c \in listed, NEW d \in listed, c.node # NoNode, d.node # NoNode,
           Deeper(LadderOf(listed), c.node, d.node),
           NEW w \in board.worlds \cup board.odd, w \in board.worlds \/ ~(OwnRules(c.series) \/ OwnRules(d.series))
    PROVE  w[c.ticker] <= w[d.ticker]
<1> DEFINE m == CHOOSE x \in listed : TRUE
<1>1. m \in listed /\ LadderOf(listed) = LadderFor(SportOf(m.series), m.competition)
  BY DEF LadderOf
<1> HIDE DEF m
<1>2. /\ m \in Contracts(s) /\ c \in Contracts(s) /\ d \in Contracts(s) /\ SameLadder(c, d) /\ SameLadder(c, m)
      /\ Deeper(LadderFor(SportOf(m.series), m.competition), c.node, d.node)
  BY <1>1
<1>3. CASE w \in board.worlds
  <2>1. Nesting(Contracts(s), Contracts(s), w)
    BY <1>3, WorldIs DEF Replicated
  <2>2. c \in {x \in Contracts(s) : x.node # NoNode} /\ d \in {x \in Contracts(s) : x.node # NoNode}
    BY <1>2
  <2>3. QED BY <1>2, <2>1, <2>2 DEF Nesting
<1>4. CASE ~(OwnRules(c.series) \/ OwnRules(d.series))
  <2> DEFINE of == {x \in Contracts(s) : ~OwnRules(x.series)}
  <2>1. Nesting(Contracts(s), of, w)
    BY WorldIs DEF Lawful
  <2>2. c \in {x \in of : x.node # NoNode} /\ d \in {x \in of : x.node # NoNode}
    BY <1>2, <1>4
  <2> HIDE DEF of
  <2>3. QED BY <1>2, <2>1, <2>2 DEF Nesting
<1>5. QED BY <1>3, <1>4

\* The rungs of a final order are all on a ladder that says so.
LEMMA FinalOrder ==
    ASSUME NEW cfg \in Sportses, cfg.id \in {"golf", "motorsport"}, NEW competition,
           NEW n, NEW m, Deeper(LadderFor(cfg, competition), n, m)
    PROVE  LadderFor(cfg, competition).simultaneous
<1>1. cfg = Golf \/ cfg = Motorsport
  <2>1. cfg.id = Golf.id \/ cfg.id = Motorsport.id
    BY DEF Golf, Motorsport, Default
  <2>2. Golf \in Sportses /\ Motorsport \in Sportses
    BY DEF Sportses
  <2>3. QED BY <2>1, <2>2, OneConfig
<1>2. CASE cfg = Golf
  <2>1. Golf.id = "golf" /\ Golf.ladder.simultaneous
    BY DEF Golf, Default, Ladder
  <2>2. QED BY <1>2, <2>1 DEF LadderFor
<1>3. CASE cfg = Motorsport
  <2>1. Motorsport.id = "motorsport"
    BY DEF Motorsport, Default
  <2>2. LadderFor(cfg, competition) = IF competition \in DOMAIN MotorLadders THEN MotorLadders[competition] ELSE NoLadder
    BY <1>3, <2>1 DEF LadderFor
  <2>3. \A order : MotorLadder(order).simultaneous
    BY DEF MotorLadder, Ladder
  <2>4. \A c \in DOMAIN MotorLadders : \E order : MotorLadders[c] = MotorLadder(order)
    BY DEF MotorLadders
  <2>5. ~Deeper(NoLadder, n, m)
    <3>1. NoLadder.order = <<>> /\ NoLadder.adjacent = {}
      BY DEF NoLadder, Ladder
    <3>2. QED BY <3>1 DEF Deeper
  <2>6. QED BY <2>2, <2>3, <2>4, <2>5
<1>4. QED BY <1>1, <1>2, <1>3

\* Two markets of one ladder, of which one is deeper, settle in that order, on a final order at
\* least where their rules agree.
LEMMA RungsSettle ==
    ASSUME board \in Boards, NEW s \in Sports, NEW listed \in SUBSET Contracts(s),
           \A x, y \in listed : SameLadder(x, y),
           NEW c \in listed, NEW d \in listed, c.node # NoNode, d.node # NoNode,
           c.kind # "match", d.kind # "match", Deeper(LadderOf(listed), c.node, d.node)
    PROVE  /\ \A w \in board.worlds : w[c.ticker] <= w[d.ticker]
           /\ ~LadderOf(listed).simultaneous => \A w \in board.odd : w[c.ticker] <= w[d.ticker]
<1>1. \A w \in board.worlds : w[c.ticker] <= w[d.ticker]
  BY RungsNest
<1>2. ASSUME ~LadderOf(listed).simultaneous PROVE \A x \in listed : x.kind # "match" => ~OwnRules(x.series)
  <2> SUFFICES ASSUME NEW x \in listed, x.kind # "match", OwnRules(x.series) PROVE FALSE
    OBVIOUS
  <2> DEFINE m == CHOOSE y \in listed : TRUE
  <2>1. m \in listed /\ LadderOf(listed) = LadderFor(SportOf(m.series), m.competition)
    BY DEF LadderOf
  <2> HIDE DEF m
  <2>2. x.kind = FamilyOf(SportOf(x.series), x.series)
    BY ContractIs, ContractEvent
  <2>3. SportOf(x.series).id \in {"golf", "motorsport"}
    BY <2>2 DEF OwnRules
  <2>4. SportOf(m.series) = SportOf(x.series) /\ SportOf(m.series) \in Sportses
    BY <2>1, SameConfig, SportIs
  <2>5. LadderFor(SportOf(m.series), m.competition).simultaneous
    BY <2>1, <2>3, <2>4, FinalOrder
  <2>6. QED BY <1>2, <2>1, <2>5
<1>3. QED BY <1>1, <1>2, RungsNest

-----------------------------------------------------------------------------
\* Every row of build_checks.
LEMMA ChecksHonest ==
    ASSUME board \in Boards, NEW s \in Sports, NEW row \in BuildChecks(Contracts(s), RiskBudget)
    PROVE  Honest(row)
<1> DEFINE cs == Contracts(s)
<1>1. PICK g \in Groups(cs) : \/ \E p : AdjacentOf(cs, g, row, p)
                              \/ \E p : TransitiveOf(cs, g, row, p)
                              \/ \E n : AlignmentOf(cs, g, row, n)
                              \/ \E m : UnmappedOf(cs, g, row, m)
  BY ChecksAre
<1> DEFINE rs == RowsOf(cs, g)
           ladder == LadderOf(rs)
           rep(n, source) == Representative(rs, n, source)
<1>2. rs \in SUBSET Contracts(s) /\ \A x, y \in rs : SameLadder(x, y)
  BY DEF RowsOf, SameLadder
<1>3. GoodLadder(ladder)
  BY LaddersGood DEF LadderOf
<1>4. \A status, rel, id, market : Honest(Unchecked(status, rel, id, market))
  BY HonestNothing DEF Unchecked
<1>5. \A n, source : Has(rs, n, source) =>
        /\ rep(n, source) \in rs /\ rep(n, source) \in Contracts(s) /\ rep(n, source).node = n
        /\ source = "market" => rep(n, source).kind # "match"
  <2> HIDE DEF rs
  <2> SUFFICES ASSUME NEW n, NEW source, Has(rs, n, source)
               PROVE  /\ rep(n, source) \in rs /\ rep(n, source) \in Contracts(s) /\ rep(n, source).node = n
                      /\ source = "market" => rep(n, source).kind # "match"
    OBVIOUS
  <2>1. rep(n, source) \in At(rs, n, source)
    BY <1>2, RepresentativeAt
  <2> HIDE DEF rep
  <2>2. QED BY <1>2, <2>1 DEF At, Source
<1>6. ladder = LadderOf(rs)
  OBVIOUS
<1>7. CASE \E p : AdjacentOf(cs, g, row, p)
  <2>1. PICK p : AdjacentOf(cs, g, row, p)
    BY <1>7
  <2>2. /\ p \in ladder.adjacent
        /\ row = IF Has(rs, p[1], "market") /\ Has(rs, p[2], "market")
                 THEN Check("containment_adjacent", rep(p[1], "market"), rep(p[2], "market"),
                            p[1], p[2], ladder, RiskBudget)
                 ELSE Unchecked("MISSING_LAYER", "containment_adjacent",
                                <<"containment_adjacent", g[1], g[2], p[1], p[2]>>, None)
    BY <2>1 DEF AdjacentOf
  <2> HIDE DEF rs, ladder, rep
  <2>3. p = <<p[1], p[2]>> /\ p[1] # NoNode /\ p[2] # NoNode
    BY <1>3, <2>2 DEF GoodLadder, GoodPair
  <2>4. CASE Has(rs, p[1], "market") /\ Has(rs, p[2], "market")
    <3> DEFINE c == rep(p[1], "market")
               d == rep(p[2], "market")
               rel == "containment_adjacent"
    <3>1. /\ c \in rs /\ c \in Contracts(s) /\ c.node = p[1] /\ c.kind # "match"
          /\ d \in rs /\ d \in Contracts(s) /\ d.node = p[2] /\ d.kind # "match"
      BY <1>5, <2>4
    <3>2. row = Check(rel, c, d, p[1], p[2], ladder, RiskBudget) /\ rel # "match_alignment"
      BY <2>2, <2>4
    <3> HIDE DEF c, d, rel
    <3>3. Deeper(ladder, c.node, d.node) /\ c.node # NoNode /\ d.node # NoNode
      BY <2>2, <2>3, <3>1 DEF Deeper
    <3>4. /\ \A w \in board.worlds : w[c.ticker] <= w[d.ticker]
          /\ ~ladder.simultaneous => \A w \in board.odd : w[c.ticker] <= w[d.ticker]
      BY <1>2, <1>6, <3>1, <3>3, RungsSettle
    <3>5. QED BY <3>1, <3>2, <3>4, CheckHonest
  <2>5. CASE ~(Has(rs, p[1], "market") /\ Has(rs, p[2], "market"))
    BY <1>4, <2>2, <2>5
  <2>6. QED BY <2>4, <2>5
<1>8. CASE \E p : TransitiveOf(cs, g, row, p)
  <2>1. PICK p : TransitiveOf(cs, g, row, p)
    BY <1>8
  <2> DEFINE n == ladder.order[p[2]]
             k == ladder.order[p[1]]
  <2>2. /\ p[1] \in DOMAIN ladder.order /\ p[2] \in DOMAIN ladder.order /\ p[1] < p[2]
        /\ Has(rs, k, "market") /\ Has(rs, n, "market")
        /\ row = Check("containment_transitive", rep(n, "market"), rep(k, "market"), n, k, ladder, RiskBudget)
    BY <2>1 DEF TransitiveOf
  <2> HIDE DEF rs, ladder, rep
  <2>3. n # NoNode /\ k # NoNode
    BY <1>3, <2>2 DEF GoodLadder, Apart
  <2>4. Deeper(ladder, n, k)
    BY <2>2 DEF Deeper
  <2> HIDE DEF n, k
  <2> DEFINE c == rep(n, "market")
             d == rep(k, "market")
             rel == "containment_transitive"
  <2>5. /\ c \in rs /\ c \in Contracts(s) /\ c.node = n /\ c.kind # "match"
        /\ d \in rs /\ d \in Contracts(s) /\ d.node = k /\ d.kind # "match"
    BY <1>5, <2>2
  <2>6. row = Check(rel, c, d, n, k, ladder, RiskBudget) /\ rel # "match_alignment"
    BY <2>2
  <2> HIDE DEF c, d, rel
  <2>7. Deeper(ladder, c.node, d.node) /\ c.node # NoNode /\ d.node # NoNode
    BY <2>3, <2>4, <2>5
  <2>8. /\ \A w \in board.worlds : w[c.ticker] <= w[d.ticker]
        /\ ~ladder.simultaneous => \A w \in board.odd : w[c.ticker] <= w[d.ticker]
    BY <1>2, <1>6, <2>5, <2>7, RungsSettle
  <2>9. QED BY <2>5, <2>6, <2>8, CheckHonest
<1>9. CASE \E n : AlignmentOf(cs, g, row, n)
  <2>1. PICK n : AlignmentOf(cs, g, row, n)
    BY <1>9
  <2>2. /\ n # NoNode /\ Has(rs, n, "match") /\ Has(rs, n, "market")
        /\ row = Check("match_alignment", rep(n, "match"), rep(n, "market"), n, n, ladder, 0)
    BY <2>1 DEF AlignmentOf
  <2> HIDE DEF rs, ladder, rep
  <2> DEFINE c == rep(n, "match")
             d == rep(n, "market")
             rel == "match_alignment"
  <2>3. /\ c \in rs /\ c \in Contracts(s) /\ c.node = n
        /\ d \in rs /\ d \in Contracts(s) /\ d.node = n
    BY <1>5, <2>2
  <2>4. row = Check(rel, c, d, n, n, ladder, 0) /\ rel = "match_alignment"
    BY <2>2
  <2> HIDE DEF c, d, rel
  <2>5. c \in {x \in Contracts(s) : x.node # NoNode} /\ d \in {x \in Contracts(s) : x.node # NoNode}
        /\ SameLadder(c, d) /\ c.node = d.node
    BY <1>2, <2>2, <2>3
  <2>6. \A w \in board.worlds : w[c.ticker] = w[d.ticker]
    <3> SUFFICES ASSUME NEW w \in board.worlds PROVE w[c.ticker] = w[d.ticker]
      OBVIOUS
    <3>1. Replicated(Contracts(s), w)
      BY WorldIs
    <3>2. QED BY <2>5, <3>1 DEF Replicated
  <2>7. QED BY <2>3, <2>4, <2>6, CheckHonest
<1>10. CASE \E m : UnmappedOf(cs, g, row, m)
  <2>1. PICK m : UnmappedOf(cs, g, row, m)
    BY <1>10
  <2>2. \E id, market : row = Unchecked("UNKNOWN_RELATIONSHIP", "match_alignment", id, market)
    BY <2>1 DEF UnmappedOf
  <2>3. QED BY <1>4, <2>2
<1>11. QED BY <1>1, <1>7, <1>8, <1>9, <1>10

-----------------------------------------------------------------------------
\* What is shown with fields added keeps its floor and its status as well.
LEMMA ShownFloor ==
    ASSUME NEW check, NEW status, NEW bucket, NEW tradable, NEW id, NEW legs, NEW cost, NEW floor, NEW worst, NEW best,
           NEW more, {"floor", "status"} \cap DOMAIN more = {},
           NEW row, row = With(Shown(check, status, bucket, tradable, id, legs, cost, floor, worst, best), more)
    PROVE  row.floor = floor /\ row.status = status
<1> DEFINE shown == Shown(check, status, bucket, tradable, id, legs, cost, floor, worst, best)
<1>1. /\ {"floor", "status"} \subseteq DOMAIN shown
      /\ shown.floor = floor /\ shown.status = status
  BY DEF Shown
<1>2. row = With(shown, more)
  OBVIOUS
<1> HIDE DEF shown
<1>3. QED BY <1>1, <1>2 DEF With

\* A band with a leg that has rules of its own does not count on the ways in which the rules part.
LEMMA MatchBand ==
    ASSUME board \in Boards, NEW s \in Sports, NEW c \in Contracts(s), OwnRules(c.series),
           NEW row, row.status = "NO_STRUCTURE_BAND", NEW l \in row.legs, l.ticker = c.ticker
    PROVE  Settles(row) = board.worlds
<1>1. PICK e \in board.events[s] : \E m \in e.markets : c = Contract(e, m)
  BY ContractIs
<1>2. PICK m \in e.markets : c = Contract(e, m)
  BY <1>1
<1>3. {"ticker", "vol"} \subseteq DOMAIN m
  BY <1>1, <1>2, BoardListed DEF Listing, Sports
<1>4. c.ticker = m.ticker
  BY <1>2, <1>3, ContractFields
<1>5. OwnRules(e.series)
  BY <1>2, ContractEvent
<1>6. m.ticker \in {k.ticker : k \in row.legs}
  BY <1>4
<1>7. Unflagged(row)
  BY <1>1, <1>2, <1>5, <1>6 DEF Unflagged
<1>8. QED BY <1>7 DEF Settles

\* A band between two rungs that settle in their order wherever it counts on it.
LEMMA BandHonest ==
    ASSUME board \in Boards, NEW s \in Sports, NEW child \in Contracts(s), NEW parent \in Contracts(s),
           IsBand(child, parent), NEW p, NEW g,
           \A w \in board.worlds : w[child.ticker] <= w[parent.ticker],
           ~(OwnRules(child.series) \/ OwnRules(parent.series))
             => \A w \in board.worlds \cup board.odd : w[child.ticker] <= w[parent.ticker]
    PROVE  Honest(Band(child, parent, p, g))
<1> DEFINE row == Band(child, parent, p, g)
           ask == parent.ask
           noAsk == BuyNo(child)
           legs == PairLegs(parent, ask, child, noAsk)
           cost == ask + noAsk
           worst == 100 - cost
           best == 200 - cost
           floor == 100
           id == <<"no_structure_band", g[1], g[2], p[1], p[2]>>
           more == [scope |-> ScopeOf(child)]
           status == "NO_STRUCTURE_BAND"
           same == FALSE
<1>1. row = With(Shown("no_structure", status, "no_structure", "Speculative",
                       id, legs, cost, floor, worst, best), more)
  BY DEF Band, PairLegs
<1>2. {"legs", "cost", "worst", "best"} \cap DOMAIN more = {} /\ {"floor", "status"} \cap DOMAIN more = {}
  OBVIOUS
<1>3. parent \in AllContracts /\ child \in AllContracts
  BY DEF AllContracts
<1>4. parent.ask # None /\ BuyNo(child) # None
  BY <1>3, AllQuoted, FirmCents DEF IsBand
<1>5. ask \in Int /\ noAsk \in Int
  BY <1>3, <1>4, AllQuoted, PriceCents
<1>6. /\ legs = PairLegs(parent, ask, child, noAsk) /\ floor = 100
      /\ cost \in Int /\ worst = 100 - cost /\ best = (IF same THEN 100 ELSE 200) - cost
      /\ same \in BOOLEAN /\ ~same /\ status = "NO_STRUCTURE_BAND"
  BY <1>5
<1>7. legs = {[side |-> "yes", ticker |-> parent.ticker, price |-> ask],
              [side |-> "no", ticker |-> child.ticker, price |-> noAsk]}
  BY DEF PairLegs
<1> HIDE DEF row, legs, ask, noAsk, cost, worst, best, id, more, status, same, floor
<1>8. row.legs = legs /\ row.cost = cost /\ row.worst = worst /\ row.best = best
  BY <1>1, <1>2, ShownWith
<1>9. row.floor = floor /\ row.status = status
  <2> DEFINE check == "no_structure"
             tradable == "Speculative"
  <2>1. row = With(Shown(check, status, check, tradable, id, legs, cost, floor, worst, best), more)
    BY <1>1
  <2> HIDE DEF check, tradable
  <2>2. QED BY <1>2, <2>1, ShownFloor
<1>10. ASSUME NEW w \in Settles(row) PROVE w[child.ticker] <= w[parent.ticker]
  <2>1. w \in board.worlds \cup board.odd
    BY SettlesIs
  <2>2. \E l, k \in row.legs : l.ticker = child.ticker /\ k.ticker = parent.ticker
    BY <1>7, <1>8
  <2>3. CASE OwnRules(child.series) \/ OwnRules(parent.series)
    <3>1. row.status = "NO_STRUCTURE_BAND"
      BY <1>6, <1>9
    <3>2. Settles(row) = board.worlds
      BY <2>2, <2>3, <3>1, MatchBand
    <3>3. QED BY <1>10, <3>2
  <2>4. CASE ~(OwnRules(child.series) \/ OwnRules(parent.series))
    BY <2>1, <2>4
  <2>5. QED BY <2>3, <2>4
<1>11. /\ row.legs = PairLegs(parent, ask, child, noAsk) /\ row.floor = 100
       /\ row.cost \in Int /\ row.worst = 100 - row.cost /\ row.best = (IF same THEN 100 ELSE 200) - row.cost
  BY <1>6, <1>8, <1>9
<1>12. \A w \in Settles(row) : w[child.ticker] <= w[parent.ticker]
                               /\ (same => w[child.ticker] = w[parent.ticker])
  BY <1>6, <1>10
<1>13. Honest(row)
  BY <1>6, <1>11, <1>12, PairHonest
<1>14. QED BY <1>13 DEF row

\* Every band.
LEMMA BandsHonest ==
    ASSUME board \in Boards, NEW s \in Sports, NEW row \in Bands(Contracts(s))
    PROVE  Honest(row)
<1> DEFINE trusted == Trusted(Contracts(s))
           of(g) == RowsOf(trusted, g)
           stand(g, n) == Standing(of(g), n)
           pairs(g) == {q \in LadderOf(of(g)).adjacent :
                          /\ Listed(of(g), q[1]) /\ Listed(of(g), q[2])
                          /\ IsBand(stand(g, q[1]), stand(g, q[2]))}
<1>1. Bands(Contracts(s)) = UNION {{Band(stand(g, p[1]), stand(g, p[2]), p, g) : p \in pairs(g)} : g \in Groups(trusted)}
  BY DEF Bands
<1> HIDE DEF stand
<1>2. PICK g : \E p \in pairs(g) : row = Band(stand(g, p[1]), stand(g, p[2]), p, g)
  BY <1>1
<1>3. PICK p \in pairs(g) : row = Band(stand(g, p[1]), stand(g, p[2]), p, g)
  BY <1>2
<1>4. of(g) \in SUBSET Contracts(s) /\ \A x, y \in of(g) : SameLadder(x, y)
  BY DEF RowsOf, Trusted, SameLadder
<1>5. GoodLadder(LadderOf(of(g)))
  BY LaddersGood DEF LadderOf
<1> HIDE DEF of
<1>6. /\ p \in LadderOf(of(g)).adjacent /\ Listed(of(g), p[1]) /\ Listed(of(g), p[2])
      /\ IsBand(stand(g, p[1]), stand(g, p[2]))
  OBVIOUS
<1>7. p = <<p[1], p[2]>> /\ p[1] # NoNode /\ p[2] # NoNode
  BY <1>5, <1>6 DEF GoodLadder, GoodPair
<1>8. \A n : Listed(of(g), n) => stand(g, n) \in of(g) /\ stand(g, n) \in Contracts(s) /\ stand(g, n).node = n
  <2> SUFFICES ASSUME NEW n, Listed(of(g), n)
               PROVE  stand(g, n) \in of(g) /\ stand(g, n) \in Contracts(s) /\ stand(g, n).node = n
    OBVIOUS
  <2> DEFINE source == IF Has(of(g), n, "market") THEN "market" ELSE "match"
  <2>1. Has(of(g), n, source) /\ stand(g, n) = Representative(of(g), n, source)
    BY DEF Listed, Standing, stand
  <2> HIDE DEF source
  <2>2. stand(g, n) \in At(of(g), n, source)
    BY <1>4, <2>1, RepresentativeAt
  <2>3. QED BY <1>4, <2>2 DEF At
<1> DEFINE listed == of(g)
           child == stand(g, p[1])
           parent == stand(g, p[2])
<1>9. /\ child \in listed /\ child \in Contracts(s) /\ child.node = p[1]
      /\ parent \in listed /\ parent \in Contracts(s) /\ parent.node = p[2]
  BY <1>6, <1>8
<1>10. row = Band(child, parent, p, g) /\ IsBand(child, parent)
  BY <1>3, <1>6
<1>11. listed \in SUBSET Contracts(s) /\ (\A x, y \in listed : SameLadder(x, y)) /\ p \in LadderOf(listed).adjacent
  BY <1>4, <1>6
<1> HIDE DEF listed, child, parent, pairs
<1>12. Deeper(LadderOf(listed), child.node, parent.node) /\ child.node # NoNode /\ parent.node # NoNode
  BY <1>7, <1>9, <1>11 DEF Deeper
<1>13. ASSUME NEW w \in board.worlds \cup board.odd, w \in board.worlds \/ ~(OwnRules(child.series) \/ OwnRules(parent.series))
       PROVE  w[child.ticker] <= w[parent.ticker]
  BY <1>9, <1>11, <1>12, <1>13, RungsNest
<1>14. QED BY <1>9, <1>10, <1>13, BandHonest

\* Every single NO: it pays a dollar or nothing, or its share.
LEMMA OutrightsHonest ==
    ASSUME board \in Boards, NEW s \in Sports, NEW row \in Outrights(Contracts(s))
    PROVE  Honest(row)
<1>1. PICK m \in {x \in Contracts(s) : Anchored(x) /\ Pos(x.bidSize) /\ BuyNo(x) \in 1 .. OutrightMax} :
        row = With(Shown("no_structure", "NO_STRUCTURE_OUTRIGHT", "no_structure", "Speculative",
                         <<"no_structure_outright", m.ticker>>,
                         {[side |-> "no", ticker |-> m.ticker, price |-> BuyNo(m)]},
                         BuyNo(m), None, -BuyNo(m), 100 - BuyNo(m)),
                   [scope |-> ScopeOf(m)])
  BY DEF Outrights
<1> DEFINE leg == [side |-> "no", ticker |-> m.ticker, price |-> BuyNo(m)]
           legs == {leg}
           id == <<"no_structure_outright", m.ticker>>
           more == [scope |-> ScopeOf(m)]
           cost == BuyNo(m)
           floor == None
           worst == -BuyNo(m)
           best == 100 - BuyNo(m)
           status == "NO_STRUCTURE_OUTRIGHT"
           lo == 0
           hi == 100
<1>2. row = With(Shown("no_structure", status, "no_structure", "Speculative",
                       id, legs, cost, floor, worst, best), more)
  BY <1>1
<1>3. {"legs", "cost", "worst", "best"} \cap DOMAIN more = {} /\ {"floor", "status"} \cap DOMAIN more = {}
  OBVIOUS
<1>4. leg.side = "no" /\ leg.ticker = m.ticker
  OBVIOUS
<1>5. cost \in Int
  BY DEF OutrightMax
<1>6. /\ legs = {leg} /\ worst = lo - cost /\ best = hi - cost /\ floor = None
      /\ lo = 0 /\ hi = 100 /\ lo \in Int /\ hi \in Int
  BY <1>5
<1> HIDE DEF leg, legs, id, more, cost, worst, best, status, floor, lo, hi
<1>7. row.legs = legs /\ row.cost = cost /\ row.worst = worst /\ row.best = best
  BY <1>2, <1>3, ShownWith
<1>8. row.floor = floor
  <2> DEFINE check == "no_structure"
             tradable == "Speculative"
  <2>1. row = With(Shown(check, status, check, tradable, id, legs, cost, floor, worst, best), more)
    BY <1>2
  <2> HIDE DEF check, tradable
  <2>2. QED BY <1>3, <2>1, ShownFloor
<1>9. ASSUME NEW w \in Settles(row) PROVE Pays(row, w) \in Int /\ lo <= Pays(row, w) /\ Pays(row, w) <= hi
  <2>1. w \in board.worlds \cup board.odd
    BY SettlesIs
  <2>2. w[m.ticker] \in 0..100
    <3>1. \A c \in Contracts(s) : w[c.ticker] \in 0..100
      BY <2>1, WorldIs
    <3>2. QED BY <3>1
  <2> DEFINE h == [l \in row.legs |-> Paying(l, w)]
             x == w[m.ticker]
  <2>3. h[leg] = 100 - x
    BY <1>4, <1>6, <1>7 DEF Paying
  <2>4. Pays(row, w) = SumOf(h, row.legs)
    BY PaysIs
  <2> HIDE DEF h
  <2>5. x \in 0..100
    BY <2>2
  <2> HIDE DEF x
  <2>6. h[leg] \in Nat
    BY <2>3, <2>5
  <2>7. SumOf(h, {leg}) = h[leg]
    BY <2>6, SumSingle
  <2>8. Pays(row, w) = 100 - x
    BY <1>6, <1>7, <2>3, <2>4, <2>7
  <2>9. QED BY <1>6, <2>5, <2>8
<1>10. /\ row.floor \in {None, lo} /\ row.cost \in Int
       /\ row.worst = lo - row.cost /\ row.best = hi - row.cost
  BY <1>5, <1>6, <1>7, <1>8
<1>11. QED BY <1>6, <1>9, <1>10, HonestIf

-----------------------------------------------------------------------------
\* A box between two thresholds that settle in their order.
LEMMA BoxHonest ==
    ASSUME board \in Boards, NEW s \in Sports, NEW broad \in Contracts(s), NEW deep \in Contracts(s),
           \A w \in board.worlds \cup board.odd : w[deep.ticker] <= w[broad.ticker]
    PROVE  Honest(Box(broad, deep))
<1> DEFINE row == Box(broad, deep)
           ask == FirmYesAsk(broad)
           noAsk == FirmNoAsk(deep)
           legs == PairLegs(broad, ask, deep, noAsk)
           r == EvaluatePayoff(legs, {0 + 100, 100 + 100, 100 + 0}, TRUE)
           profit(p) == IF r.cost = None THEN NoGap ELSE p - r.cost
           cost == r.cost
           worst == profit(r.worst)
           best == profit(r.best)
           floor == r.worst
           id == <<"payoff_state", broad.event, broad.strike[1], broad.strike[2], deep.strike[2]>>
           more == [classification |-> r.classification, authoritative |-> r.authoritative]
           check == "payoff_state"
           status == "PAYOFF_STATE_DIAGNOSTIC"
           tradable == "No - diagnostic only"
           same == FALSE
<1>1. row = With(Shown(check, status, check, tradable, id, legs, cost, floor, worst, best), more)
  BY DEF Box, PairLegs
<1>2. {"legs", "cost", "worst", "best"} \cap DOMAIN more = {} /\ {"floor", "status"} \cap DOMAIN more = {}
  OBVIOUS
<1>3. broad \in AllContracts /\ deep \in AllContracts
  BY DEF AllContracts
<1>4. ask \in {broad.ask, None} /\ noAsk \in {BuyNo(deep), None}
  BY <1>3, AllQuoted, PriceCents
<1>5. r.worst = 100 /\ r.best = 200
  <2>1. {0 + 100, 100 + 100, 100 + 0} = {100, 200}
    OBVIOUS
  <2>2. r.worst = Min({100, 200}) /\ r.best = Max({100, 200})
    BY <2>1 DEF EvaluatePayoff
  <2>3. Min({100, 200}) = 100 /\ Max({100, 200}) = 200
    <3> DEFINE a == 100
               b == 200
    <3>1. a \in Int /\ b \in Int /\ a <= b
      OBVIOUS
    <3> HIDE DEF a, b
    <3>2. Min({a, b}) = a /\ Max({a, b}) = b
      BY <3>1, LeastOfTwo
    <3>3. QED BY <3>2 DEF a, b
  <2>4. QED BY <2>2, <2>3
<1>6. legs # {} /\ (legs # {} => cost = PlanCost(legs))
  BY DEF EvaluatePayoff, PlanCost, PairLegs
<1>7. /\ legs = PairLegs(broad, ask, deep, noAsk) /\ floor = r.worst
      /\ worst = IF cost = None THEN NoGap ELSE r.worst - cost
      /\ best = IF cost = None THEN NoGap ELSE r.best - cost
      /\ same \in BOOLEAN /\ ~same
  OBVIOUS
<1> HIDE DEF row, legs, ask, noAsk, r, profit, cost, worst, best, id, more, floor, check, status, tradable, same
<1>8. row.legs = legs /\ row.cost = cost /\ row.worst = worst /\ row.best = best
  BY <1>1, <1>2, ShownWith
<1>9. row.floor = floor
  BY <1>1, <1>2, ShownFloor
<1>10. cost # None => cost \in Int
  <2>1. legs = PairLegs(broad, ask, deep, noAsk)
    BY <1>7
  <2>2. PlanCost(legs) # None => PlanCost(legs) \in Int
    BY <1>3, <1>4, <2>1, PlanPair
  <2>3. QED BY <1>6, <2>2
<1>11. /\ row.legs = PairLegs(broad, ask, deep, noAsk) /\ row.floor = 100
       /\ row.worst = NoGap \/ (row.cost \in Int /\ row.worst = 100 - row.cost)
       /\ row.best = NoGap \/ (row.cost \in Int /\ row.best = (IF same THEN 100 ELSE 200) - row.cost)
  <2>1. CASE cost = None
    BY <1>5, <1>7, <1>8, <1>9, <2>1
  <2>2. CASE cost # None
    BY <1>5, <1>7, <1>8, <1>9, <1>10, <2>2
  <2>3. QED BY <2>1, <2>2
<1>12. \A w \in Settles(row) : w[deep.ticker] <= w[broad.ticker] /\ (same => w[deep.ticker] = w[broad.ticker])
  BY <1>7, SettlesIs
<1>13. Honest(row)
  BY <1>7, <1>11, <1>12, PairHonest
<1>14. QED BY <1>13 DEF row

\* Every row of find_payoff_boxes.
LEMMA PayoffBoxesHonest ==
    ASSUME board \in Boards, NEW s \in Sports, NEW row \in FindPayoffBoxes(Contracts(s))
    PROVE  Honest(row)
<1> DEFINE cs == Contracts(s)
           rungs(g) == Rungs(cs, g[1], g[2])
           pairs(g) == {q \in Neighbours(rungs(g)) : SameScalar(q[1], q[2])}
<1>1. FindPayoffBoxes(cs) = UNION {{Box(p[1], p[2]) : p \in pairs(g)}
                                     : g \in {<<m.event, m.strike[1]>> : m \in {x \in cs : x.strike # <<>>}}}
  BY DEF FindPayoffBoxes
<1>2. PICK g : \E p \in pairs(g) : row = Box(p[1], p[2])
  BY <1>1
<1>3. PICK p \in pairs(g) : row = Box(p[1], p[2])
  BY <1>2
<1>4. p[1] \in rungs(g) /\ p[2] \in rungs(g) /\ Broader(p[1], p[2]) /\ SameScalar(p[1], p[2])
  BY DEF Neighbours
<1>5. \A c \in rungs(g) : c \in Contracts(s) /\ c.event = g[1] /\ c.strike # <<>> /\ c.strike[1] = g[2]
  BY DEF Rungs, FirstOf
<1> HIDE DEF rungs, pairs
<1> DEFINE broad == p[1]
           deep == p[2]
<1>6. /\ broad \in Contracts(s) /\ deep \in Contracts(s) /\ broad.strike # <<>> /\ deep.strike # <<>>
      /\ broad.event = deep.event /\ broad.strike[1] = deep.strike[1]
      /\ Broader(broad, deep) /\ SameScalar(broad, deep) /\ row = Box(broad, deep)
  BY <1>3, <1>4, <1>5
<1> HIDE DEF broad, deep
<1>7. ASSUME NEW w \in board.worlds \cup board.odd PROVE w[deep.ticker] <= w[broad.ticker]
  <2>1. Thresholds(Contracts(s), w)
    BY WorldIs DEF Lawful
  <2>2. broad \in {c \in Contracts(s) : c.strike # <<>>} /\ deep \in {c \in Contracts(s) : c.strike # <<>>}
    BY <1>6
  <2>3. QED BY <1>6, <2>1, <2>2 DEF Thresholds
<1>8. QED BY <1>6, <1>7, BoxHonest

-----------------------------------------------------------------------------
\* What is shown without a floor and without cases.
LEMMA ShownHonest ==
    ASSUME NEW check, NEW status, NEW bucket, NEW tradable, NEW id, NEW legs, NEW cost
    PROVE  LET row == Shown(check, status, bucket, tradable, id, legs, cost, None, NoGap, NoGap)
           IN Honest(row) /\ Honest(WithoutCost(row))
<1> DEFINE row == Shown(check, status, bucket, tradable, id, legs, cost, None, NoGap, NoGap)
<1>1. /\ row.floor = None /\ row.worst = NoGap /\ row.best = NoGap
      /\ WithoutCost(row).floor = None /\ WithoutCost(row).worst = NoGap /\ WithoutCost(row).best = NoGap
  BY DEF Shown, WithoutCost
<1> HIDE DEF row
<1>2. QED BY <1>1, HonestNothing DEF row

\* Every row of find_exact_order_premiums.
LEMMA PremiumsHonest ==
    ASSUME NEW contracts, NEW r \in FindExactOrderPremiums(contracts)
    PROVE  Honest(WithoutCost(r))
<1>1. \E event, ms : r \in DetectGroup(contracts, event, ms)
  BY DEF FindExactOrderPremiums
<1>2. \E event, top, q : r = TopTwoBundle(event, top, q)
  BY <1>1 DEF DetectGroup
<1>3. QED BY <1>2, ShownHonest DEF TopTwoBundle

\* Every row of find_game_support_signals.
LEMMA SignalsHonest ==
    ASSUME NEW contracts, NEW row \in FindGameSupportSignals(contracts)
    PROVE  Honest(row)
<1> DEFINE games == {m \in Games(contracts) : ValidGame({n \in Games(contracts) : n.event = m.event})}
           teams == {m.id : m \in {x \in games : ~x.tie}} \ {""}
           qualifier(id) == LastOf({m \in contracts : m.series = "KXWCGROUPQUAL" /\ m.id = id})
           wins(t) == {m \in games : m.id = t /\ ~m.tie}
           of(t) == {Signal(games, wins(t), q) : q \in qualifier(t)}
<1>1. FindGameSupportSignals(contracts) = UNION {UNION of(t) : t \in teams}
  BY DEF FindGameSupportSignals
<1> HIDE DEF games, teams, qualifier, wins
<1>2. PICK t, q : row \in Signal(games, wins(t), q)
  BY <1>1
<1> DEFINE info == {[side |-> "info", ticker |-> m.ticker, price |-> 3 * m.ask + TieOf(games, m).ask] : m \in wins(t)}
<1>3. row = Shown("game_support", "GAME_SUPPORT_SIGNAL", "qualifier_setup", "Diagnostic only",
                  <<"game_support", q.id>>, info, None, None, NoGap, NoGap)
  BY <1>2 DEF Signal
<1> HIDE DEF info
<1>4. QED BY <1>3, ShownHonest

\* Every row of find_conditional_blends.
LEMMA BlendsHonest ==
    ASSUME NEW contracts, NEW row \in FindConditionalBlends(contracts)
    PROVE  Honest(row)
<1> DEFINE known == {m \in contracts : Recognised(m)}
           of(t) == {m \in known : m.tour = t}
           pairs(t) == {q \in LadderOf(of(t)).adjacent :
                          /\ q[1] \in Range(LadderOf(of(t)).order) /\ q[2] \in Range(LadderOf(of(t)).order)
                          /\ SurvivorsOf(SportOf((CHOOSE m \in of(t) : TRUE).series), q[2]) = 2}
<1>1. FindConditionalBlends(contracts) = UNION {UNION {Blend(t, of(t), p) : p \in pairs(t)} : t \in {m.tour : m \in known}}
  BY DEF FindConditionalBlends
<1> HIDE DEF known, of, pairs
<1>2. PICK t, p : row \in Blend(t, of(t), p)
  BY <1>1
<1>3. \E id, legs, cost : row = Shown("conditional_blend", "MODEL_BLEND_CANDIDATE", "speculative_model",
                                      "Speculative - model validation only", id, legs, cost, None, NoGap, NoGap)
  BY <1>2 DEF Blend
<1>4. QED BY <1>3, ShownHonest

-----------------------------------------------------------------------------
\* Whatever the detectors find keeps its word.
LEMMA DetectedHonest ==
    ASSUME board \in Boards, NEW s \in Sports, NEW row \in Detected(Contracts(s))
    PROVE  Honest(row)
<1> DEFINE cs == Contracts(s)
<1>1. \/ row \in BuildChecks(cs, RiskBudget) \/ row \in FindDutchBooks(cs, NearMissOver)
      \/ row \in FindGroupBaskets(cs) \/ row \in FindSyntheticBundles(cs)
      \/ \E r \in FindExactOrderPremiums(cs) : row = WithoutCost(r)
      \/ row \in FindGameSupportSignals(cs) \/ row \in FindStageElimBooks(cs)
      \/ row \in FindStageElimSynthetics(cs) \/ row \in Bands(cs) \/ row \in Outrights(cs)
      \/ row \in FindConditionalBlends(cs) \/ row \in FindPayoffBoxes(cs)
  BY DEF Detected, FindNoStructures
<1>2. /\ row \in BuildChecks(cs, RiskBudget) => Honest(row)
      /\ row \in FindDutchBooks(cs, NearMissOver) => Honest(row)
      /\ row \in FindGroupBaskets(cs) => Honest(row)
      /\ row \in FindSyntheticBundles(cs) => Honest(row)
      /\ row \in FindStageElimBooks(cs) => Honest(row)
      /\ row \in FindStageElimSynthetics(cs) => Honest(row)
      /\ row \in Bands(cs) => Honest(row)
      /\ row \in Outrights(cs) => Honest(row)
      /\ row \in FindPayoffBoxes(cs) => Honest(row)
  BY ChecksHonest, DutchBooksHonest, BasketsHonest, BundlesHonest, StageBooksHonest, StageSyntheticsHonest,
     BandsHonest, OutrightsHonest, PayoffBoxesHonest
<1> HIDE DEF cs
<1>3. QED BY <1>1, <1>2, PremiumsHonest, SignalsHonest, BlendsHonest

\* What is found is honest.
LEMMA FoundHonest == ASSUME ScanInv, NEW row \in Found PROVE Honest(row)
<1>1. PICK r \in rows : row = r.row
  BY DEF Found
<1>2. board \in Boards /\ r.sport \in Sports /\ r \in RowsFor(r.sport)
  BY <1>1 DEF ScanInv, Accounted, FoundThere
<1>3. row \in Detected(Contracts(r.sport))
  BY <1>1, <1>2 DEF RowsFor, Contracts
<1>4. QED BY <1>2, <1>3, DetectedHonest

\* Whatever the exchange lists and however it settles, the legs of every finding pay its floor at
\* least, on all the ways to settle in which the finding does not ask to compare the rules first.
THEOREM FloorHoldsHolds == Spec => []FloorHolds
<1>1. ScanInv => FloorHolds
  BY FoundHonest DEF FloorHolds, Honest
<1>2. QED BY <1>1, ScanInvariance, PTL

\* Where the rules of its markets agree no settlement is worse than the worst case a finding
\* shows, and none is better than the best.
THEOREM ProfitBoundedHolds == Spec => []ProfitBounded
<1>1. ScanInv => ProfitBounded
  BY FoundHonest DEF ProfitBounded, Honest
<1>2. QED BY <1>1, ScanInvariance, PTL
=============================================================================
