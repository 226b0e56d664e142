----------------------------- MODULE Synthetic -----------------------------
(***************************************************************************)
(* synthetic_bundle.py and stage_elim.py: a set of outcomes that adds up   *)
(* to another market.  All the exact scores with which a player wins a     *)
(* match are the match; all the stages a team may go out at from the       *)
(* quarterfinals on are reaching the quarterfinals.                        *)
(***************************************************************************)
EXTENDS DutchBook

(* Buy every part and the NO of the whole (forward: exactly one leg pays),  *)
(* or the other way round (reverse: as many legs pay as there are parts).   *)
Leg(side, m) == [side |-> side, ticker |-> m.ticker, price |-> BuyPrice(side, m)]
Replication(partSide, parts, wholeSide, whole, floor) ==
  IF Priced(partSide, parts) /\ BuyPrice(wholeSide, whole) # None
  THEN LET cost == Cost(partSide, parts) + BuyPrice(wholeSide, whole)
           sized == Units(partSide, parts) # None /\ Pos(BuySize(wholeSide, whole))
       IN {[side |-> partSide, legs |-> Legs(partSide, parts) \cup {Leg(wholeSide, whole)},
            cost |-> cost, floor |-> floor, gap |-> floor - cost,
            units |-> IF sized THEN Min({Units(partSide, parts), BuySize(wholeSide, whole)}) ELSE None]}
  ELSE {}
Replications(parts, whole) ==
  Replication("yes", parts, "no", whole, 100)
    \cup Replication("no", parts, "yes", whole, 100 * Cardinality(parts))

(* A replication may miss on a walkover, so it is never more than a row to  *)
(* review.                                                                  *)
Review(check, status, id, c, ms, bounded) ==
  LET ready == c.units # None /\ Open(ms)
  IN [Finding(check, status, IF ready THEN "review_signal" ELSE "blocked", id, c, ms,
              IF bounded THEN c.gap ELSE NoGap)
        EXCEPT !.worst = IF bounded THEN c.gap ELSE NoGap,
               !.flag = "SETTLEMENT_CHECK_REQUIRED",
               !.tradable = IF ready THEN "Review rules" ELSE "No"]
Firing(cands) == cands # {} /\ Widest(cands).gap > 0

-----------------------------------------------------------------------------
(* synthetic_bundle.  The scores a player may win a match with follow from  *)
(* the format of the tournament, never from the markets found.              *)
ExpectedStates(m) ==
  LET cfg == SportOf(m.series)
      format == IF cfg.id = "tennis" THEN ScoreFormat(m.series, m.tour[1]) ELSE ""
  IN IF format \in DOMAIN cfg.formats THEN cfg.formats[format] ELSE {}

(* The match market of a player: in an event of two players.                *)
MatchHedge(contracts, key) ==
  LET matches == {m \in contracts : Recognised(m) /\ m.kind = SportOf(m.series).matchFamily}
  IN LastOf({m \in matches :
               m.key = key /\ Cardinality({n.key : n \in {x \in matches : x.event = m.event}}) = 2})

AdvanceHedge(contracts, key, node) ==
  FirstOf({m \in contracts : m.kind \in {"advance", "winner"} /\ m.key = key /\ m.node = node /\ node # NoNode})

(* Proven to settle apart: a leg that is not binary, closing times more     *)
(* than six hours apart, or rules that do not name the same events.         *)
CloseTolerance == 6
CloseTimesDiverge(ms) ==
  /\ Cardinality(ms) >= 2
  /\ \A m \in ms : m.close # None
  /\ \E m, n \in ms : m.close - n.close > CloseTolerance
Unsafe(legs, closing) ==
  \/ \E m \in legs : m.marketType \notin {"", "binary"}
  \/ CloseTimesDiverge(closing)
  \/ ~Single({m.rules : m \in legs})

(* The hedge must be of the round the scores are of: the match itself, or   *)
(* the node that winning it reaches.                                        *)
Implied(ms) ==
  LET cfg == SportOf((CHOOSE m \in ms : TRUE).series)
      stages == {m.stage : m \in ms}
      stage == CHOOSE s \in stages : TRUE
  IN IF Single(stages) /\ stage \in DOMAIN cfg.h2h THEN cfg.h2h[stage] ELSE NoNode
SameRound(ms, hedge, kind) ==
  IF kind = "match" THEN {m.stage : m \in ms} = {hedge.stage} ELSE hedge.node = Implied(ms)

\* Mutant: the id forgets the hedge.
BundleIdOfPlayer(event, key, c, hedge, kind) ==
  <<"synthetic_bundle", event, key, IF c.side = "yes" THEN "forward" ELSE "reverse">>

(* A bundle against a rung is a different opportunity from the one against  *)
(* the match.                                                               *)
BundleId(event, key, c, hedge, kind) ==
  LET direction == IF c.side = "yes" THEN "forward" ELSE "reverse"
  IN IF kind = "match" THEN <<"synthetic_bundle", event, key, direction>>
     ELSE <<"synthetic_bundle", event, key, kind, hedge.node, direction>>

DetectPlayerBundle(event, key, ms, hedge, kind) ==
  LET expected == ExpectedStates(CHOOSE m \in ms : TRUE)
      states == UNION {LastOf({m \in ms : m.score = s}) : s \in expected}
      cands == Replications(states, hedge)
      c == Widest(cands)
      id == BundleId(event, key, c, hedge, kind)
  IN IF /\ expected # {}
        /\ {m.score : m \in ms} \ {""} = expected
        /\ SameRound(ms, hedge, kind)
        /\ ~Unsafe(states \cup {hedge}, IF kind = "match" THEN states \cup {hedge} ELSE states)
        /\ Firing(cands)
     THEN {Review("synthetic_bundle", "EXECUTABLE_SYNTHETIC_BUNDLE", id, c, states \cup {hedge}, FALSE)}
     ELSE {}

FindSyntheticBundles(contracts) ==
  LET scores == {m \in contracts : m.kind = "exact_score"}
  IN UNION {LET ms == {m \in scores : m.event = g[1] /\ m.key = g[2]}
                tour == (CHOOSE m \in ms : TRUE).tour
                advances == AdvanceHedge({m \in contracts : m.tour = tour}, g[2], Implied(ms))
            IN (UNION {DetectPlayerBundle(g[1], g[2], ms, h, "match") : h \in MatchHedge(contracts, g[2])})
               \cup (UNION {DetectPlayerBundle(g[1], g[2], ms, h, "advance") : h \in advances})
            : g \in {<<m.event, m.key>> : m \in scores}}

-----------------------------------------------------------------------------
(* stage_elim.  A team goes out at exactly one of the seven stages.         *)
Buckets == {StageElimBuckets[i] : i \in DOMAIN StageElimBuckets}
StageRows(contracts, event) == {m \in Trusted(contracts) : m.kind = "stage_of_elim" /\ m.event = event}
StageEvents(contracts) == {m.event : m \in {x \in Trusted(contracts) : x.kind = "stage_of_elim"}}
Complete(ms) == Cardinality(ms) = Cardinality(Buckets) /\ {m.round : m \in ms} = Buckets
BookProof(ms) == Complete(ms) /\ Single({m.key : m \in ms})

DetectStageBook(event, ms) ==
  LET c == Widest(Directions(ms))
      id == <<"stage_elim_book", event, (CHOOSE m \in ms : TRUE).key>>
  IN IF BookProof(ms) /\ Firing(Directions(ms))
     THEN {Finding("stage_elim_book", "EXECUTABLE_STAGE_ELIM_BOOK", StrictBucket(c, ms), id, c, ms, c.gap)}
     ELSE {}
FindStageElimBooks(contracts) ==
  UNION {DetectStageBook(e, StageRows(contracts, e)) : e \in StageEvents(contracts)}

(* Reaching a stage is going out at it or later.                            *)
RungTails ==
  [n \in {"Reach Round of 32", "Reach Round of 16", "Reach Quarterfinals", "Reach Semifinals",
          "Reach Finals", "Win the World Cup"} |->
     CASE n = "Reach Round of 32" -> {"R32", "R16", "QF", "SF", "FL", "FW"}
       [] n = "Reach Round of 16" -> {"R16", "QF", "SF", "FL", "FW"}
       [] n = "Reach Quarterfinals" -> {"QF", "SF", "FL", "FW"}
       [] n = "Reach Semifinals" -> {"SF", "FL", "FW"}
       [] n = "Reach Finals" -> {"FL", "FW"}
       [] OTHER -> {"FW"}]

DetectStageSynthetic(event, team, ms, node, hedge) ==
  LET tail == {m \in ms : m.round \in RungTails[node]}
      cands == Replications(tail, hedge)
      c == Widest(cands)
  IN IF Firing(cands)
     THEN {Review("stage_elim_synth", "STAGE_ELIM_SYNTHETIC",
                  <<"stage_elim_synth", event, team, node>>, c, tail \cup {hedge}, TRUE)}
     ELSE {}
FindStageElimSynthetics(contracts) ==
  UNION {LET ms == StageRows(contracts, e)
             team == (CHOOSE m \in ms : TRUE).key
         IN IF ~Complete(ms) THEN {}
            ELSE UNION {UNION {DetectStageSynthetic(e, team, ms, n, h) : h \in AdvanceHedge(contracts, team, n)}
                          : n \in DOMAIN RungTails}
         : e \in StageEvents(contracts)}
=============================================================================
