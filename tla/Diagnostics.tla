---------------------------- MODULE Diagnostics ----------------------------
(***************************************************************************)
(* The detectors whose rows are never an executable edge: no_structures,   *)
(* exact_order, game_support, conditional_blend and numeric_box_adapter    *)
(* with the payoff engine it rests on.                                     *)
(***************************************************************************)
EXTENDS Containment, DutchBook

Shown(check, status, bucket, tradable, id, legs, cost, floor, worst, best) ==
  [source |-> check, rel |-> check, status |-> status, bucket |-> bucket, id |-> id, legs |-> legs,
   cost |-> cost, floor |-> floor, gap |-> NoGap, units |-> None, worst |-> worst, best |-> best,
   flag |-> "", tradable |-> tradable]

-----------------------------------------------------------------------------
(* no_structures: buying NO on a deeper rung, alone or against the broader  *)
(* one.  A strict cross costs less than 100 and belongs to Containment.     *)
BandMaxLoss == 40
OutrightMax == 25
Anchored(m) == m.quality \notin {"No quote", "Crossed", "One-sided"} /\ m.active /\ ~m.subpenny

Scopes == <<"event", "tournament", "championship">>
ScopeOf(m) ==
  LET cfg == SportOf(m.series)
      level == IF m.kind \notin DOMAIN cfg.levels THEN -1
               ELSE LET byStage == cfg.levels[m.kind]
                    IN IF m.stage \in DOMAIN byStage THEN byStage[m.stage] ELSE byStage["*"]
  IN IF level = -1 THEN "" ELSE Scopes[level + 1]

Band(child, parent, p, g) ==
  LET cost == parent.ask + BuyNo(child)
      legs == {[side |-> "yes", ticker |-> parent.ticker, price |-> parent.ask],
               [side |-> "no", ticker |-> child.ticker, price |-> BuyNo(child)]}
  IN With(Shown("no_structure", "NO_STRUCTURE_BAND", "no_structure", "Speculative",
                <<"no_structure_band", g[1], g[2], p[1], p[2]>>, legs, cost, 100, 100 - cost, 200 - cost),
          [scope |-> ScopeOf(child)])
IsBand(child, parent) ==
  /\ Anchored(child) /\ Anchored(parent)
  /\ FirmAsk(parent) # None /\ BuyNo(child) # None
  /\ Pos(parent.askSize) /\ Pos(child.bidSize)
  /\ parent.ask + BuyNo(child) \in 100 .. 100 + BandMaxLoss
Bands(contracts) ==
  LET trusted == Trusted(contracts)
  IN UNION {LET rows == RowsOf(trusted, g)
            IN {Band(Standing(rows, p[1]), Standing(rows, p[2]), p, g)
                  : p \in {q \in LadderOf(rows).adjacent :
                             /\ Listed(rows, q[1]) /\ Listed(rows, q[2])
                             /\ IsBand(Standing(rows, q[1]), Standing(rows, q[2]))}}
            : g \in Groups(trusted)}

Outrights(contracts) ==
  {With(Shown("no_structure", "NO_STRUCTURE_OUTRIGHT", "no_structure", "Speculative",
              <<"no_structure_outright", m.ticker>>, {[side |-> "no", ticker |-> m.ticker, price |-> BuyNo(m)]},
              BuyNo(m), None, -BuyNo(m), 100 - BuyNo(m)),
        [scope |-> ScopeOf(m)])
     : m \in {x \in contracts : Anchored(x) /\ Pos(x.bidSize) /\ BuyNo(x) \in 1 .. OutrightMax}}
FindNoStructures(contracts) == Bands(contracts) \cup Outrights(contracts)

-----------------------------------------------------------------------------
(* exact_order: the twelve standings of a group of four in which a team is  *)
(* among the first two, against the market for qualifying, which is only a  *)
(* comparator: a third team may qualify too.                                *)
SpeculativeDiscount == 5
SpeculativeUnits == 5
BuyableAsk(m) == IF m.quality \notin {"No quote", "Crossed"} /\ m.active /\ Pos(m.askSize) THEN m.ask ELSE None

Qualifiers(contracts, group, team) ==
  LastOf({m \in contracts : m.series = "KXWCGROUPQUAL" /\ m.group = group /\ m.name = team})
ProvenStandings(ms) ==
  /\ Cardinality(ms) = 24
  /\ \A m \in ms : Len(m.placement) = 4 /\ Cardinality(Range(m.placement)) = 4
  /\ Cardinality(UNION {Range(m.placement) : m \in ms}) = 4
TopTwo(ms, team) == {m \in ms : team \in {m.placement[1], m.placement[2]}}

IsSpeculative(top, cost, q) ==
  /\ cost < 100 /\ q.ask - cost >= SpeculativeDiscount
  /\ \A m \in top \cup {q} : m.quality \notin {"Wide", "Very wide"}
  /\ \A m \in top : m.askSize >= SpeculativeUnits

TopTwoBundle(event, top, q) ==
  LET cost == MapThenSumSet(BuyableAsk, top)
      speculative == IsSpeculative(top, cost, q)
  IN Shown("exact_order",
           IF speculative THEN "SPECULATIVE_TOP2_RELATIVE_VALUE" ELSE "EXACT_ORDER_DIAGNOSTIC",
           "qualifier_setup", IF speculative THEN "Review execution" ELSE "Diagnostic only",
           <<"exact_order", event, q.key>>, Legs("yes", top), cost, None, NoGap, NoGap)
DetectGroup(contracts, event, ms) ==
  UNION {LET top == TopTwo(ms, team)
             group == (CHOOSE m \in ms : TRUE).group
         IN IF Cardinality(top) # 12 \/ \E m \in top : BuyableAsk(m) = None THEN {}
            ELSE {TopTwoBundle(event, top, q)
                    : q \in {x \in Qualifiers(contracts, group, team) : BuyableAsk(x) # None}}
         : team \in UNION {Range(m.placement) : m \in ms}}
FindExactOrderPremiums(contracts) ==
  LET rows == {m \in Trusted(contracts) : m.kind = "exact_order"}
      of(e) == {m \in rows : m.event = e}
  IN UNION {DetectGroup(contracts, e, of(e))
              : e \in {x \in {m.event : m \in rows} : ProvenStandings(of(x))}}

-----------------------------------------------------------------------------
(* game_support: the three group games of a team, scored as points are,     *)
(* against a qualifying market that is neither a longshot nor a lock.       *)
StrongScore == 400
QualifierBand == 35 .. 80
FirmAnySize(m) == IF m.quality \notin {"No quote", "Crossed"} /\ m.active THEN m.ask ELSE None

Games(contracts) == {m \in contracts : m.kind = "game" /\ m.series = "KXWCGAME"}
ValidGame(ms) == Cardinality({m \in ms : m.tie}) = 1 /\ Cardinality({m \in ms : ~m.tie}) = 2
TieOf(games, m) == CHOOSE t \in games : t.event = m.event /\ t.tie
Signal(games, wins, q) ==
  LET priced == \A m \in wins : FirmAnySize(m) # None /\ FirmAnySize(TieOf(games, m)) # None
      score == MapThenSumSet(LAMBDA m : 3 * FirmAnySize(m) + FirmAnySize(TieOf(games, m)), wins)
      info == {[side |-> "info", ticker |-> m.ticker, price |-> 3 * m.ask + TieOf(games, m).ask] : m \in wins}
  IN IF /\ Cardinality(wins) = 3 /\ priced
        /\ FirmAnySize(q) \in QualifierBand /\ score >= StrongScore
     THEN {Shown("game_support", "GAME_SUPPORT_SIGNAL", "qualifier_setup", "Diagnostic only",
                 <<"game_support", q.id>>, info, None, None, NoGap, NoGap)}
     ELSE {}
FindGameSupportSignals(contracts) ==
  LET games == {m \in Games(contracts) : ValidGame({n \in Games(contracts) : n.event = m.event})}
      teams == {m.id : m \in {x \in games : ~x.tie}} \ {""}
      qualifier(id) == LastOf({m \in contracts : m.series = "KXWCGROUPQUAL" /\ m.id = id})
  IN UNION {UNION {Signal(games, {m \in games : m.id = t /\ ~m.tie}, q) : q \in qualifier(t)} : t \in teams}

-----------------------------------------------------------------------------
(* conditional_blend: one participant is through to a round of two and two  *)
(* others play for the other place.  Mids are in half cents.                *)
LockFloor == 98
DeadFloor == 2
ComplementTol == 10
FirmYesBid(m) == IF m.quality \in {"No quote", "Crossed"} THEN None ELSE m.bid
TwiceMid(m) ==
  LET bid == FirmYesBid(m)
      ask == FirmYesAsk(m)
  IN CASE bid # None /\ ask # None -> bid + ask
       [] bid = None /\ ask # None -> 2 * ask
       [] bid # None /\ ask = None -> 2 * bid
       [] OTHER -> None

(* One contender of the open place: what it wins next never prices above    *)
(* what it must win first.                                                  *)
Contends(broad, deep) == /\ TwiceMid(broad) > 0 /\ TwiceMid(deep) # None
                         /\ TwiceMid(deep) <= TwiceMid(broad)
Abs(x) == IF x < 0 THEN -x ELSE x
Blend(tour, rows, p) ==
  LET of(k) == {m \in rows : m.key = k}
      keys == {k \in {m.key : m \in rows} : Listed(of(k), p[2])}
      at(k, node) == Standing(of(k), node)
      alive == {k \in keys : ~(FirmYesAsk(at(k, p[2])) \in 0 .. DeadFloor)}
      locked == {k \in alive : FirmYesBid(at(k, p[2])) >= LockFloor}
      live == alive \ locked
      a == CHOOSE k \in locked : TRUE
      target == at(a, p[1])
  IN IF /\ Cardinality(locked) = 1 /\ Cardinality(live) = 2
        /\ \A k \in alive : Listed(of(k), p[1])
        /\ FirmYesAsk(target) # None /\ target.active
        /\ \A k \in live : at(k, p[2]).active /\ Contends(at(k, p[2]), at(k, p[1]))
        /\ Abs(MapThenSumSet(LAMBDA k : TwiceMid(at(k, p[2])), live) - 200) <= 2 * ComplementTol
     THEN {Shown("conditional_blend", "MODEL_BLEND_CANDIDATE", "speculative_model",
                 "Speculative - model validation only", <<"conditional_blend", tour, p, a, live>>,
                 {[side |-> "yes", ticker |-> target.ticker, price |-> target.ask]}, target.ask,
                 None, NoGap, NoGap)}
     ELSE {}
FindConditionalBlends(contracts) ==
  LET known == {m \in contracts : Recognised(m)}
  IN UNION {LET rows == {m \in known : m.tour = t}
                cfg == SportOf((CHOOSE m \in rows : TRUE).series)
                ladder == LadderOf(rows)
            IN UNION {Blend(t, rows, p)
                        : p \in {q \in ladder.adjacent : /\ q[1] \in Range(ladder.order)
                                                         /\ q[2] \in Range(ladder.order)
                                                         /\ SurvivorsOf(cfg, q[2]) = 2}}
            : t \in {m.tour : m \in known}}

-----------------------------------------------------------------------------
(* payoff_engine: a matrix of states by legs.  Its worst case is a floor    *)
(* only on a proven, fully priced matrix within the caps.                   *)
MaxLegs == 24
MaxStates == 64
EvaluatePayoff(legs, payouts, proven) ==
  LET priced == \A l \in legs : l.price # None
      cost == IF priced THEN MapThenSumSet(LAMBDA l : l.price, legs) ELSE None
      worst == Min(payouts)
      authoritative == proven /\ priced /\ Cardinality(legs) <= MaxLegs /\ Cardinality(payouts) <= MaxStates
  IN [cost |-> cost, worst |-> worst, best |-> Max(payouts), authoritative |-> authoritative,
      classification |-> CASE ~authoritative -> "diagnostic"
                           [] authoritative /\ worst >= cost -> "structural_floor"
                           [] authoritative /\ 0 < worst /\ worst < cost -> "bounded_loss"
                           [] OTHER -> "speculative"]

(* numeric_ladder: the thresholds of one event in one direction, broad to   *)
(* deep; a strike listed twice counts once.  numeric_box_adapter pairs      *)
(* neighbours, unless they are known to be about different participants.    *)
Rungs(contracts, event, direction) ==
  LET ms == {m \in contracts : m.event = event /\ m.strike # <<>> /\ m.strike[1] = direction}
  IN UNION {FirstOf({m \in ms : m.strike[2] = at}) : at \in {m.strike[2] : m \in ms}}
Broader(a, b) == IF a.strike[1] = "ge" THEN a.strike[2] < b.strike[2] ELSE a.strike[2] > b.strike[2]
Neighbours(rungs) ==
  {p \in rungs \X rungs : Broader(p[1], p[2]) /\ \A m \in rungs : ~(Broader(p[1], m) /\ Broader(m, p[2]))}
SameScalar(broad, deep) == broad.key = deep.key \/ (broad.id = "" /\ deep.id = "")
Box(broad, deep) ==
  LET legs == {[side |-> "yes", ticker |-> broad.ticker, price |-> FirmYesAsk(broad)],
               [side |-> "no", ticker |-> deep.ticker, price |-> FirmNoAsk(deep)]}
      r == EvaluatePayoff(legs, {0 + 100, 100 + 100, 100 + 0}, TRUE)
      profit(p) == IF r.cost = None THEN NoGap ELSE p - r.cost
  IN With(Shown("payoff_state", "PAYOFF_STATE_DIAGNOSTIC", "payoff_state", "No - diagnostic only",
                <<"payoff_state", broad.event, broad.strike[1], broad.strike[2], deep.strike[2]>>,
                legs, r.cost, r.worst, profit(r.worst), profit(r.best)),
          [classification |-> r.classification, authoritative |-> r.authoritative])
FindPayoffBoxes(contracts) ==
  UNION {{Box(p[1], p[2]) : p \in {q \in Neighbours(Rungs(contracts, g[1], g[2])) : SameScalar(q[1], q[2])}}
         : g \in {<<m.event, m.strike[1]>> : m \in {x \in contracts : x.strike # <<>>}}}
=============================================================================
