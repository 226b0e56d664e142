----------------------------- MODULE Settlement -----------------------------
(***************************************************************************)
(* How related markets settle, as far as the detectors count on it.  A     *)
(* settlement is a function from ticker to the cents its YES pays.  The    *)
(* laws speak of the contracts of one sport; all but Replicated hold of    *)
(* every settlement, that one only where the rules of the markets agree.   *)
(***************************************************************************)
EXTENDS Synthetic, Diagnostics

YesPays(w, ms) == MapThenSumSet(LAMBDA m : w[m.ticker], ms)

Pays01(cs, w) == \A c \in cs : c.ticker \in DOMAIN w /\ w[c.ticker] \in Cents

(* Where a match stands for a rung, or a place in the final order for one,  *)
(* rules of their own decide: a match may be walked over, a place shared.   *)
OwnRules(series) ==
  FamilyOf(SportOf(series), series) = "match" \/ SportOf(series).id \in {"golf", "motorsport"}

(* The rungs of a participant's ladder: a deeper one is only reached by way *)
(* of the broader ones.                                                     *)
SameLadder(c, d) == c.key = d.key /\ c.tour = d.tour
Deeper(ladder, n, m) ==
  \/ <<n, m>> \in ladder.adjacent
  \/ \E i, j \in DOMAIN ladder.order : i < j /\ ladder.order[i] = m /\ ladder.order[j] = n
Nesting(cs, of, w) ==
  LET rungs == {c \in of : c.node # NoNode}
  IN \A c, d \in rungs : SameLadder(c, d) =>
       \A m \in cs : SameLadder(c, m) /\ Deeper(LadderFor(SportOf(m.series), m.competition), c.node, d.node)
                     => w[c.ticker] <= w[d.ticker]

(* At most one market of an event that is flagged exclusive.                *)
Exclusive(cs, w) ==
  \A e \in {c.event : c \in {x \in cs : x.mx}} : YesPays(w, {c \in cs : c.event = e}) <= 100

(* The two sides of a contest share its 100 cents.  Where a tie is possible *)
(* the rules of both have to say how it is settled.                         *)
Contests(cs, w) ==
  LET sides == {c \in cs : IsTwoWay(c) /\ ~SportOf(c.series).nWay}
  IN \A c, d \in sides :
       /\ c.event = d.event /\ c.kind = d.kind /\ c.key # d.key
       /\ \/ SportOf(c.series).meceByShape \/ c.kind # "game"
          \/ c.tieBasis = d.tieBasis /\ c.tieBasis \in {"tie_half", "no_tie_winner"}
       => w[c.ticker] + w[d.ticker] = 100

(* A win of either side or the draw, if one set of rules goes for all three *)
(* and it is about regulation time.                                         *)
ThreeWays(cs, w) ==
  LET games == {c \in cs : IsTwoWay(c) /\ c.mx}
  IN \A a, b \in {c \in games : c.participant} : \A t \in {c \in games : ~c.participant} :
       /\ a.event = t.event /\ b.event = t.event /\ a.key # b.key
       /\ a.rules = t.rules /\ b.rules = t.rules
       /\ a.drawExcluded \/ b.drawExcluded \/ t.drawExcluded
       => w[a.ticker] + w[b.ticker] + w[t.ticker] = 100

(* Of the four teams of a group two or three go on, and one is last.        *)
GroupsOfFour(cs, w) ==
  \A e \in {c.event : c \in {x \in cs : IsGroupBasket(x)}} :
    \A ms \in SUBSET {c \in cs : c.event = e /\ IsGroupBasket(c)} :
      Cardinality(ms) = 4 /\ Distinct(ms) =>
        /\ (\A m \in ms : m.series = "KXWCGROUPQUAL") => YesPays(w, ms) \in 200 .. 300
        /\ (\A m \in ms : m.series = "KXWCGROUPBOTTOM") => YesPays(w, ms) = 100

(* A stage-of-elimination event is about one team, which goes out once.     *)
StagesOf(cs, e) == {c \in cs : c.kind = "stage_of_elim" /\ c.event = e}
EachStageOnce(ms) == {m.round : m \in ms} = Buckets /\ \A m, n \in ms : m.round = n.round => m = n
StageBooks(cs, e) == {ms \in SUBSET StagesOf(cs, e) : EachStageOnce(ms)}
Eliminations(cs, w) ==
  \A e \in {c.event : c \in cs} :
    /\ \A c, d \in StagesOf(cs, e) : c.key = d.key
    /\ \A ms \in StageBooks(cs, e) : YesPays(w, ms) = 100

(* A threshold of one count is passed on the way to the next.               *)
Thresholds(cs, w) ==
  LET counted == {c \in cs : c.strike # <<>>}
  IN \A c, d \in counted :
       c.event = d.event /\ c.strike[1] = d.strike[1] /\ SameScalar(c, d) /\ Broader(c, d)
       => w[d.ticker] <= w[c.ticker]

(* Winning a match is reaching the node it leads to, and winning it with    *)
(* one of the scores it may end with; reaching a stage is going out there   *)
(* or later.  A player is in one tournament at a time, and one World Cup is *)
(* listed at a time.                                                        *)
Means(h, m) ==
  LET cfg == SportOf(m.series)
  IN \/ h.kind = cfg.matchFamily /\ h.stage = m.stage
     \/ h.kind \in {"advance", "winner"} /\ m.stage \in DOMAIN cfg.h2h /\ h.node = cfg.h2h[m.stage]
ScoreSets(cs, h) ==
  LET ms == {m \in cs : m.kind = "exact_score" /\ m.key = h.key /\ Means(h, m)}
  IN {ps \in SUBSET ms : /\ ps # {} /\ \A p, q \in ps : p.event = q.event /\ (p.score = q.score => p = q)
                         /\ \A p \in ps : {q.score : q \in ps} = ExpectedStates(p)}
Replicated(cs, w) ==
  /\ Nesting(cs, cs, w)
  /\ \A c, d \in {x \in cs : x.node # NoNode} : SameLadder(c, d) /\ c.node = d.node => w[c.ticker] = w[d.ticker]
  /\ \A h \in cs : \A ps \in ScoreSets(cs, h) : YesPays(w, ps) = w[h.ticker]
  /\ \A e \in {c.event : c \in {x \in cs : x.kind = "stage_of_elim"}} : \A ms \in StageBooks(cs, e) :
       \A h \in {x \in cs : x.kind \in {"advance", "winner"} /\ x.node \in DOMAIN RungTails} :
         (\E m \in ms : m.key = h.key) => YesPays(w, {m \in ms : m.round \in RungTails[h.node]}) = w[h.ticker]

Lawful(cs, w) ==
  /\ Pays01(cs, w)
  /\ Nesting(cs, {c \in cs : ~OwnRules(c.series)}, w)
  /\ Exclusive(cs, w) /\ Contests(cs, w) /\ ThreeWays(cs, w)
  /\ GroupsOfFour(cs, w) /\ Eliminations(cs, w) /\ Thresholds(cs, w)
=============================================================================
