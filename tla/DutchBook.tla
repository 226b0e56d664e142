----------------------------- MODULE DutchBook -----------------------------
(***************************************************************************)
(* dutchbook.py: sets of markets that must pay a fixed floor between them  *)
(* cost less than that floor.  Pure operators: from the contracts of one   *)
(* sport to its findings, one per event at most.                           *)
(***************************************************************************)
EXTENDS Contracts

(* Rows come in the order of their tickers; an index that meets a key again *)
(* keeps the first row (setdefault) or the last (an assignment).            *)
FirstOf(ms) == {m \in ms : \A n \in ms : m.ticker <= n.ticker}
LastOf(ms) == {m \in ms : \A n \in ms : m.ticker >= n.ticker}

Recognised(m) == SportOf(m.series).id # "unknown"
Single(values) == Cardinality(values) = 1
Distinct(ms) == Cardinality({m.key : m \in ms}) = Cardinality(ms)

(* Buying one side of every leg, priced against what the set must pay.      *)
Direction(side, ms, floor) ==
  IF ms # {} /\ Priced(side, ms)
  THEN {[side |-> side, legs |-> Legs(side, ms), cost |-> Cost(side, ms), floor |-> floor,
         gap |-> floor - Cost(side, ms), units |-> Units(side, ms)]}
  ELSE {}
Directions(ms) == Direction("yes", ms, 100) \cup Direction("no", ms, 100 * (Cardinality(ms) - 1))

(* The best direction; buying YES is listed first and wins a tie.           *)
Widest(cands) ==
  CHOOSE c \in cands : \A d \in cands : c.gap > d.gap \/ (c.gap = d.gap /\ (c.side = "yes" \/ d.side = "no"))

(* _select_edge: a strict book, or else one that misses by a few cents.     *)
EdgeOf(cands, over) ==
  IF cands = {} THEN ""
  ELSE LET gap == Widest(cands).gap
       IN IF gap > 0 THEN "strict"
          ELSE IF over > 0 /\ -over <= gap /\ gap <= -1 THEN "near_miss"
          ELSE ""

TradableNow(c, ms) == IF c.units # None /\ Open(ms) THEN "Yes" ELSE "No"

(* A finding on the legs ms.  Its floor is paid in every state, so its      *)
(* profit is flat; bestCase is what the set may pay at most.                *)
Finding(check, status, bucket, id, c, ms, bestCase) ==
  [source |-> check, rel |-> check, status |-> status, bucket |-> bucket, id |-> id,
   legs |-> c.legs, cost |-> c.cost, floor |-> c.floor, gap |-> c.gap, units |-> c.units,
   worst |-> c.gap, best |-> bestCase, flag |-> "", tradable |-> TradableNow(c, ms)]
StrictBucket(c, ms) == IF TradableNow(c, ms) = "Yes" THEN "actionable" ELSE "blocked"

Book(event, ms, over) ==
  LET cands == Directions(ms)
      c == Widest(cands)
      id == <<"dutch_book", event, {m.key : m \in ms}>>
  IN CASE EdgeOf(cands, over) = "strict" ->
            {Finding("dutch_book", "EXECUTABLE_DUTCH_BOOK", StrictBucket(c, ms), id, c, ms, c.gap)}
       [] EdgeOf(cands, over) = "near_miss" ->
            {Finding("dutch_book", "NEAR_MISS_DUTCH_BOOK", "near_miss", id, c, ms, c.gap)}
       [] OTHER -> {}

-----------------------------------------------------------------------------
(* Two ways: exactly two markets of one series, of two participants.        *)
IsTwoWay(m) == Recognised(m) /\ m.kind \in {SportOf(m.series).matchFamily, "game"}
DetectPair(event, ms, over) ==
  IF Cardinality(ms) = 2 /\ Distinct(ms) /\ Single({m.series : m \in ms}) THEN Book(event, ms, over) ELSE {}

(* A game that can end in a tie is one only if the text of both legs says   *)
(* that a tie pays half to each, or that there is none.                     *)
ProvesFixedSum(ms) == \E basis \in {"tie_half", "no_tie_winner"} : \A m \in ms : m.tieBasis = basis

\* Mutant: no leg need speak of regulation time.
ProveMeceAnyDraw(ms) ==
  /\ Cardinality(ms) = 3 /\ Cardinality({m \in ms : m.participant}) = 2
  /\ Distinct(ms) /\ Single({m.series : m \in ms}) /\ Single({m.rules : m \in ms})
  /\ \A m \in ms : m.mx

(* Three ways: two participants and the draw, settled on regulation time.   *)
ProveMece(ms) ==
  /\ Cardinality(ms) = 3 /\ Cardinality({m \in ms : m.participant}) = 2
  /\ Distinct(ms)
  /\ Single({m.series : m \in ms})
  /\ \A m \in ms : m.mx
  /\ \E m \in ms : m.drawExcluded
  /\ Single({m.rules : m \in ms})
DetectNWay(event, ms, over) == IF ProveMece(ms) THEN Book(event, ms, over) ELSE {}

-----------------------------------------------------------------------------
(* A field: at most one market settles YES, so buying NO on any of them     *)
(* pays for all but one.  Nothing proves that one does.                     *)
IsField(m) == Recognised(m) /\ m.kind \in SportOf(m.series).fieldFamilies
ProveFieldMece(ms) ==
  /\ Cardinality(ms) >= 3
  /\ Distinct(ms)
  /\ \A m \in ms : m.mx
  /\ Single({m.series : m \in ms}) /\ Single({m.kind : m \in ms}) /\ Single({m.rules : m \in ms})
FieldOverroundSubset(ms) == {m \in ms : FirmNoAsk(m) # None /\ m.bid > 0}
DetectField(event, ms) ==
  LET subset == FieldOverroundSubset(ms)
      cands == Direction("no", subset, 100 * (Cardinality(subset) - 1))
      c == Widest(cands)
      id == <<"dutch_book", event, "field", "overround">>
  IN IF ProveFieldMece(ms) /\ Cardinality(subset) >= 2 /\ cands # {} /\ c.gap > 0
     THEN {[Finding("dutch_book", "EXECUTABLE_DUTCH_BOOK", StrictBucket(c, subset), id, c, subset, NoGap)
              EXCEPT !.worst = NoGap]}
     ELSE {}

-----------------------------------------------------------------------------
(* A group basket: how many of its markets settle YES is bounded by the     *)
(* format of the tournament.                                                *)
IsGroupBasket(m) == Recognised(m) /\ m.series \in DOMAIN SportOf(m.series).baskets
DetectGroupBasket(event, ms) ==
  LET series == (CHOOSE m \in ms : TRUE).series
      rule == SportOf(series).baskets[series]
      cands == Direction("yes", ms, 100 * rule.yes_floor) \cup Direction("no", ms, 100 * rule.no_floor)
      c == Widest(cands)
      ceiling == 100 * (IF c.side = "yes" THEN rule.yes_ceiling_count ELSE rule.no_ceiling_count)
  IN IF Cardinality(ms) = rule.team_count /\ Distinct(ms) /\ cands # {} /\ c.gap > 0
     THEN {Finding("group_basket", "EXECUTABLE_GROUP_BASKET", StrictBucket(c, ms),
                   <<"group_basket", event, "basket">>, c, ms, ceiling - c.cost)}
     ELSE {}

-----------------------------------------------------------------------------
\* Mutant: rounded prices are trusted.
TrustedAll(contracts) == contracts

(* Sub-cent rows are dropped before the markets are grouped.                *)
Trusted(contracts) == {m \in contracts : ~m.subpenny}

FindGroupBaskets(contracts) ==
  LET rows == {m \in Trusted(contracts) : IsGroupBasket(m)}
  IN UNION {DetectGroupBasket(e, {m \in rows : m.event = e}) : e \in {m.event : m \in rows}}

DetectTwoWay(event, ms, over) ==
  LET cfg == SportOf((CHOOSE m \in ms : TRUE).series)
  IN CASE cfg.nWay -> DetectNWay(event, ms, over)
       [] ~cfg.nWay /\ ~cfg.meceByShape /\ (\A m \in ms : m.kind = "game") /\ ~ProvesFixedSum(ms) -> {}
       [] OTHER -> DetectPair(event, ms, over)

FindDutchBooks(contracts, over) ==
  LET rows == {m \in Trusted(contracts) : m.kind # "exact_order"}
      twoWay == {m \in rows : IsTwoWay(m)}
      fields == {m \in rows : ~IsTwoWay(m) /\ IsField(m)}
  IN (UNION {DetectTwoWay(g[1], {m \in twoWay : m.event = g[1] /\ m.kind = g[2]}, over)
               : g \in {<<m.event, m.kind>> : m \in twoWay}})
     \cup (UNION {DetectField(e, {m \in fields : m.event = e}) : e \in {m.event : m \in fields}})
=============================================================================
