----------------------------- MODULE Containment -----------------------------
(***************************************************************************)
(* consistency.py: a deeper outcome of a ladder (win the title) must not   *)
(* price above a broader one that contains it (reach the final).  Pure     *)
(* operators: from the contracts of one sport to its check rows.           *)
(*                                                                         *)
(* A contract is what module Contracts makes of a market; of its fields,   *)
(* key is the participant, tour the tournament, node the ladder node and   *)
(* rules what its settlement text says.                                    *)
(***************************************************************************)
EXTENDS Contracts

ActionStatuses == {"EXECUTABLE_VIOLATION", "DISPLAY_VIOLATION", "QUOTE_SIZE_MISSING",
                   "RISK_BUDGET_CANDIDATE"}
DisplayTol == 1
NearEdgeMin == -5

-----------------------------------------------------------------------------
(* The contract that stands for a node and source: one with a display       *)
(* price, then the larger volume, then the smallest ticker.                 *)
Before(a, b) ==
  LET blank(m) == IF DisplayCents(m) = None THEN 1 ELSE 0
  IN \/ blank(a) < blank(b)
     \/ blank(a) = blank(b) /\ a.vol > b.vol
     \/ blank(a) = blank(b) /\ a.vol = b.vol /\ a.ticker <= b.ticker
Source(m) == IF m.kind = "match" THEN "match" ELSE "market"
At(rows, node, source) == {m \in rows : m.node = node /\ Source(m) = source}
Has(rows, node, source) == At(rows, node, source) # {}
Representative(rows, node, source) ==
  CHOOSE m \in At(rows, node, source) : \A n \in At(rows, node, source) : Before(m, n)

(* representative(): the market of a node, or else what a match implies.    *)
Listed(rows, node) == Has(rows, node, "market") \/ Has(rows, node, "match")
Standing(rows, node) ==
  Representative(rows, node, IF Has(rows, node, "market") THEN "market" ELSE "match")

-----------------------------------------------------------------------------
(* _classify.  A candidate is a cross that could be traded: buy YES on the  *)
(* long leg, NO on the short one.  Only an equivalence is checked both ways.*)
Cross(long, short, forward) ==
  {[gap |-> FirmBid(s) - FirmAsk(l), forward |-> forward,
    sized |-> Pos(s.bidSize) /\ Pos(l.askSize),
    units |-> IF s.bidSize = None \/ l.askSize = None THEN None ELSE Min({s.bidSize, l.askSize})]
     : l \in {m \in {long} : FirmAsk(m) # None}, s \in {m \in {short} : FirmBid(m) # None}}
Candidates(child, parent, equivalence) ==
  Cross(parent, child, TRUE) \cup (IF equivalence THEN Cross(child, parent, FALSE) ELSE {})
Best(cands) ==
  CHOOSE c \in cands : \A d \in cands : c.gap > d.gap \/ (c.gap = d.gap /\ (c.forward \/ ~d.forward))

DisplayEvaluable(child, parent) == DisplayCents(child) # None /\ DisplayCents(parent) # None
DisplayViolation(child, parent) ==
  /\ DisplayEvaluable(child, parent)
  /\ DisplayCents(child) - DisplayCents(parent) >
       IF child.subpenny \/ parent.subpenny THEN DisplayTol + 1 ELSE DisplayTol

ExecutableGap(child, parent, equivalence) ==
  LET cands == Candidates(child, parent, equivalence)
  IN IF cands = {} THEN NoGap ELSE Best(cands).gap

(* The precedence of the statuses; budget is 0 for equivalence pairs.       *)
InBudget(best, budget) == budget > 0 /\ best.sized /\ -budget <= best.gap /\ best.gap <= 0
StatusOf(child, parent, equivalence, budget) ==
  LET cands == Candidates(child, parent, equivalence)
      best == Best(cands)
      crosses == cands # {} /\ best.gap > 0
  IN IF crosses /\ best.sized THEN "EXECUTABLE_VIOLATION"
     ELSE IF DisplayViolation(child, parent) THEN "DISPLAY_VIOLATION"
     ELSE IF crosses THEN "QUOTE_SIZE_MISSING"
     ELSE IF (child.subpenny \/ parent.subpenny) /\ DisplayEvaluable(child, parent) THEN "CLEAN"
     ELSE IF cands = {} \/ ~DisplayEvaluable(child, parent) THEN "MISSING_QUOTE"
     ELSE IF ~equivalence /\ InBudget(best, budget) THEN "RISK_BUDGET_CANDIDATE"
     ELSE IF WorstQuality(child.quality, parent.quality) \in {"Wide", "Very wide"} THEN "WIDE_QUOTE"
     ELSE "CLEAN"

RuleFlag(child, parent, equivalence, simultaneous) ==
  IF equivalence THEN IF child.rules # parent.rules THEN "RULE_MISMATCH" ELSE "RULE_CHECK_REQUIRED"
  ELSE IF simultaneous THEN "RULE_CHECK_REQUIRED" ELSE ""

\* Mutant: the long leg is priced at its bid.
PlanAtBid(child, parent, equivalence) ==
  LET reverse == \E c \in Candidates(child, parent, equivalence) : c.gap > 0 /\ ~c.forward
      long == IF reverse THEN child ELSE parent
      short == IF reverse THEN parent ELSE child
  IN {[side |-> "yes", ticker |-> long.ticker, price |-> long.bid],
      [side |-> "no", ticker |-> short.ticker, price |-> BuyNo(short)]}

(* The two buys of a row that calls for action: the winning cross, or the   *)
(* forward one when only the displayed prices cross.                        *)
Plan(child, parent, equivalence) ==
  LET cands == Candidates(child, parent, equivalence)
      reverse == cands # {} /\ Best(cands).gap > 0 /\ ~Best(cands).forward
      long == IF reverse THEN child ELSE parent
      short == IF reverse THEN parent ELSE child
  IN {[side |-> "yes", ticker |-> long.ticker, price |-> long.ask],
      [side |-> "no", ticker |-> short.ticker, price |-> BuyNo(short)]}
PlanCost(legs) == IF legs = {} \/ \E l \in legs : l.price = None THEN None
                  ELSE MapThenSumSet(LAMBDA l : l.price, legs)

Tradable(status, child, parent, ruleFlag) ==
  IF ~(child.active /\ parent.active) THEN "No"
  ELSE IF status = "EXECUTABLE_VIOLATION" THEN IF ruleFlag # "" THEN "Yes, rule-dependent" ELSE "Yes"
  ELSE IF status = "RISK_BUDGET_CANDIDATE" THEN "Yes"
  ELSE "No"
IsTradable(t) == t \in {"Yes", "Yes, rule-dependent"}

\* Mutant: an equivalence pays like a rung of a ladder.
PayoutsOfLadder(equivalence) == {100, 200}
\* Mutant: the state between the rungs, which pays twice, is forgotten.
PayoutsOfFloor(equivalence) == {100}

(* scenario_payoffs: what the two buys pay per unit in the states where the *)
(* settlement rules agree.                                                  *)
Payouts(equivalence) == IF equivalence THEN {100} ELSE {100, 200}

(* bucket_of: the section of the dashboard a check row belongs to.          *)
BucketOf(status, tradable, gap, quality) ==
  CASE status = "RISK_BUDGET_CANDIDATE" -> "risk_budget"
    [] status = "EXECUTABLE_VIOLATION" -> IF IsTradable(tradable) THEN "actionable" ELSE "blocked"
    [] status = "QUOTE_SIZE_MISSING" -> "blocked"
    [] status = "DISPLAY_VIOLATION" -> "display_signal"
    [] status = "WIDE_QUOTE" -> "wide_signal"
    [] status = "CLEAN" -> IF NearEdgeMin <= gap /\ gap <= 0 /\ quality \in {"Tight", "OK"}
                           THEN "near_edge" ELSE "clean"
    [] OTHER -> "data_quality"

-----------------------------------------------------------------------------
(* _row: one check, with its plan, payoff and bucket.                       *)
Check(rel, child, parent, childNode, parentNode, ladder, budget) ==
  LET eq == rel = "match_alignment"
      status == StatusOf(child, parent, eq, budget)
      flag == RuleFlag(child, parent, eq, ladder.simultaneous)
      firm == status \in {"EXECUTABLE_VIOLATION", "RISK_BUDGET_CANDIDATE"}
      legs == IF status \in ActionStatuses THEN Plan(child, parent, eq) ELSE {}
      cost == PlanCost(legs)
      profits == IF cost = None THEN {} ELSE {p - cost : p \in Payouts(eq)}
      gap == ExecutableGap(child, parent, eq)
      tradable == Tradable(status, child, parent, flag)
  IN [source |-> "containment", rel |-> rel, status |-> status,
      id |-> <<rel, child.key, child.tour, childNode, parentNode>>,
      legs |-> legs, cost |-> cost, floor |-> IF cost = None THEN None ELSE 100,
      gap |-> IF firm THEN gap ELSE NoGap,
      units |-> IF firm THEN Best(Candidates(child, parent, eq)).units ELSE None,
      worst |-> IF profits = {} THEN NoGap ELSE Min(profits),
      best |-> IF profits = {} THEN NoGap ELSE Max(profits),
      flag |-> flag, tradable |-> tradable,
      bucket |-> BucketOf(status, tradable, gap, WorstQuality(child.quality, parent.quality))]

(* A row that compares nothing: a required layer is not listed, or a market *)
(* is on a match of a round the ladder does not know.                       *)
Unchecked(status, rel, id, market) ==
  [source |-> "containment", rel |-> rel, status |-> status, id |-> id, legs |-> {}, cost |-> None,
   floor |-> None, gap |-> NoGap, units |-> None, worst |-> NoGap, best |-> NoGap, flag |-> "",
   tradable |-> "No", bucket |-> "data_quality", market |-> market]

Adjacent(rows, key, tour, ladder, budget) ==
  LET both(p) == Has(rows, p[1], "market") /\ Has(rows, p[2], "market")
      rep(n) == Representative(rows, n, "market")
  IN {Check("containment_adjacent", rep(p[1]), rep(p[2]), p[1], p[2], ladder, budget)
        : p \in {q \in ladder.adjacent : both(q)}}
     \cup {Unchecked("MISSING_LAYER", "containment_adjacent",
                     <<"containment_adjacent", key, tour, p[1], p[2]>>, None)
        : p \in {q \in ladder.adjacent : ~both(q) /\ q[1] \notin ladder.optional}}

(* Every deeper node of the order against every broader one, unless the two *)
(* are adjacent.                                                            *)
Transitive(rows, ladder, budget) ==
  LET order == ladder.order
      present == {i \in DOMAIN order : Has(rows, order[i], "market")}
      rep(i) == Representative(rows, order[i], "market")
  IN {Check("containment_transitive", rep(p[2]), rep(p[1]), order[p[2]], order[p[1]], ladder, budget)
        : p \in {q \in present \X present : q[1] < q[2] /\ <<order[q[2]], order[q[1]]>> \notin ladder.adjacent}}

(* Winning a match is reaching the next node: the two must price alike.     *)
Alignments(rows, ladder) ==
  {Check("match_alignment", Representative(rows, n, "match"), Representative(rows, n, "market"),
         n, n, ladder, 0)
     : n \in {m.node : m \in {r \in rows : r.node # NoNode /\ Has(rows, r.node, "match")
                                                         /\ Has(rows, r.node, "market")}}}

(* One row for each market, though the id names its match only.             *)
Unmapped(rows, cfg) ==
  {Unchecked("UNKNOWN_RELATIONSHIP", "match_alignment",
             <<"match_alignment", m.key, m.tour, <<"unmapped", m.event, m.stage>>>>, m.ticker)
     : m \in {r \in rows : r.kind = cfg.matchFamily /\ r.stage \notin DOMAIN cfg.h2h}}

(* build_checks: one participant of one tournament at a time, against the   *)
(* ladder of its sport and competition.                                     *)
Groups(contracts) == {<<m.key, m.tour>> : m \in contracts}
RowsOf(contracts, g) == {m \in contracts : m.key = g[1] /\ m.tour = g[2]}
LadderOf(rows) == LET m == CHOOSE x \in rows : TRUE IN LadderFor(SportOf(m.series), m.competition)
BuildChecks(contracts, budget) ==
  UNION {LET rows == RowsOf(contracts, g)
             ladder == LadderOf(rows)
             cfg == SportOf((CHOOSE m \in rows : TRUE).series)
         IN IF \A m \in rows : m.node = NoNode THEN {}
            ELSE Adjacent(rows, g[1], g[2], ladder, budget) \cup Transitive(rows, ladder, budget)
                   \cup Alignments(rows, ladder) \cup Unmapped(rows, cfg)
         : g \in Groups(contracts)}
=============================================================================
