----------------------------- MODULE MCScanner -----------------------------
(* Small boards for Scanner, one family for each kind of structure a        *)
(* detector looks for, with the settlements the listing really allows.      *)
EXTENDS Scanner

(* A market of participant name, quoted bid / ask in whole cents.           *)
Plain ==
  [tie |-> FALSE, round |-> "", last |-> None, noAsk |-> None, tick |-> FALSE, bidSize |-> 10, askSize |-> 10,
   active |-> TRUE, vol |-> 1, rules |-> {}, drawExcluded |-> FALSE, tieBasis |-> "", score |-> "",
   placement |-> <<>>, strike |-> <<>>, group |-> "", marketType |-> "binary", close |-> 0]
Tenths(cents) == IF cents = None THEN None ELSE 10 * cents
Q(b, a) == [bid |-> Tenths(b), ask |-> Tenths(a), quality |-> CHOOSE q \in QuoteQuality(b, a) : TRUE] @@ Plain
M(ticker, name, q) == [ticker |-> ticker, name |-> name, id |-> name] @@ q
E(ticker, series, markets) ==
  [ticker |-> ticker, series |-> series, competition |-> "Cup", season |-> 1, mx |-> TRUE, markets |-> markets]
Loose(e) == [e EXCEPT !.mx = FALSE]

Wins(tickers, yes) == [t \in tickers |-> IF t \in yes THEN 100 ELSE 0]
Board(events, worlds, odd) == [events |-> events, worlds |-> worlds, odd |-> odd]

(* Two-sided books of every width, and the ones that are no quote at all.   *)
Broken == {Q(0, 100), Q(60, 40), Q(None, 30), Q(30, None)}
Unsized == {[Q(40, 42) EXCEPT !.askSize = None], [Q(55, 57) EXCEPT !.bidSize = 0]}
Halted == {[Q(55, 57) EXCEPT !.active = FALSE]}
Tick(q, b, a) == [q EXCEPT !.bid = b, !.ask = a, !.tick = TRUE]
(* Quoted on a tenth of a cent: 40.4 rounds to 40, 60.6 to 61.              *)
Fine == {Tick(Q(40, 40), 396, 404), Tick(Q(60, 61), 596, 606)}
(* Wide books; at a spread of 15 cents the label may be either.             *)
Wide == {[Q(20, 35) EXCEPT !.quality = l] : l \in QuoteQuality(20, 35)} \cup {Q(10, 28)}
Usual == {Q(20, 24), Q(26, 30), Q(40, 42), Q(55, 57), Q(30, 60)}

-----------------------------------------------------------------------------
(* A tennis player's road to the title, and the semifinal they play.  The   *)
(* match may be walked over: it is void, and the player is in the final.    *)
RoadQuotes == Usual \cup Wide \cup Broken \cup Unsized \cup Halted \cup Fine
Rounded(q, round) == [q EXCEPT !.round = round]
Road(q1, q2, q3) ==
  {E("sf", "KXATPADVANCE", {M(1, "A", Rounded(q1, "Semifinal"))}),
   E("f", "KXATPADVANCE", {M(2, "A", Rounded(q2, "Final"))}),
   [E("w", "KXFOMEN", {M(3, "A", q3)}) EXCEPT !.competition = ""]}
Roads == {Road(q[1], q[2], q[3]) : q \in (Usual \cup Broken \cup {Q(60, 64)}) \X RoadQuotes \X Usual}
French(events) == {IF e.series = "KXFOMEN" THEN e ELSE [e EXCEPT !.competition = "French Open"] : e \in events}
RoadBoards ==
  {Board([tennis |-> French(r)], {Wins(1 .. 3, 1 .. d) : d \in 0 .. 3}, {}) : r \in Roads}

MatchEvent(qa, qb, round) ==
  E("m", "KXATPMATCH", {[M(4, "A", Rounded(qa, round)) EXCEPT !.rules = {"walkover"}], M(5, "B", Rounded(qb, round))})
(* Without a market for reaching the final the semifinal stands for it.      *)
StandInBoards ==
  {Board([tennis |-> French({e \in Road(Q(90, 95), q[1], q[2]) : e.ticker # "f"} \cup {MatchEvent(q[1], q[3], "Semifinal")})],
         {Wins(1 .. 5, {1, 5}), Wins(1 .. 5, {1, 2, 4}), Wins(1 .. 5, {1, 2, 3, 4})},
         {[Wins(1 .. 5, {1, 2} \cup won) EXCEPT ![4] = 50, ![5] = 50] : won \in {{}, {3}}})
     : q \in {Q(55, 57), Q(40, 42), Q(60, 61)} \X Usual \X Usual}
MatchBoards ==
  {Board([tennis |-> French(Road(Q(90, 95), q[1], Q(20, 24)) \cup {MatchEvent(q[2], q[3], round)})],
         {Wins(1 .. 5, {1, 5}), Wins(1 .. 5, {1, 2, 4}), Wins(1 .. 5, {1, 2, 3, 4})},
         {[Wins(1 .. 5, {1, 2}) EXCEPT ![4] = 50, ![5] = 50], [Wins(1 .. 5, {1}) EXCEPT ![4] = 50, ![5] = 50]})
     : q \in RoadQuotes \X (Usual \cup Broken \cup Halted \cup Fine) \X {Q(55, 57), Q(40, 42), Q(60, 61)},
       round \in {"Semifinal", "Round of 16"}}

-----------------------------------------------------------------------------
(* Two teams, one winner; a team listed twice; a football game that may end *)
(* in a tie, whose rules say so, say nothing, or say it of one leg only.    *)
PairQuotes == Usual \cup Broken \cup Unsized \cup Halted \cup Fine
                \cup {[Q(40, 42) EXCEPT !.noAsk = 600], Q(47, 49), Q(52, 56)}
Pair(ts, series, q) == E(series, series, {M(ts[1], "A", q[1]), M(ts[2], "B", q[2])})
Duel(ts) == {Wins({ts[1], ts[2]}, {t}) : t \in {ts[1], ts[2]}}
PairBoards ==
  {Board([nba |-> {Pair(<<1, 2>>, "KXNBAGAME", q)}], Duel(<<1, 2>>), {}) : q \in PairQuotes \X PairQuotes}
  \cup {Board([nba |-> {Loose(E("g", "KXNBAGAME", {M(1, "A", q[1]), [M(2, "B", q[2]) EXCEPT !.id = "A"]}))}],
              {Wins(1 .. 2, {}), Wins(1 .. 2, {1, 2})}, {}) : q \in Usual \X Usual}

TieBases == {<<"", "">>, <<"tie_half", "">>, <<"tie_half", "tie_half">>, <<"no_tie_winner", "no_tie_winner">>,
             <<"tie_half", "no_tie_winner">>}
TiePays(basis) == IF basis = "tie_half" THEN 50 ELSE 0
TieBoards ==
  {Board([nfl |-> {E("g", "KXNFLGAME", {M(1, "A", [q[1] EXCEPT !.tieBasis = b[1]]),
                                        M(2, "B", [q[2] EXCEPT !.tieBasis = b[2]])})}],
         Duel(<<1, 2>>) \cup (IF b = <<"no_tie_winner", "no_tie_winner">> THEN {}
                              ELSE {[i \in 1 .. 2 |-> TiePays(b[i])]}), {})
     : q \in (Usual \cup {Q(52, 56)}) \X Usual, b \in TieBases}

(* A soccer game: a win of either, or the draw.  Nothing need settle YES    *)
(* when no leg says it is about regulation time, or when one has rules of   *)
(* its own; without the flag of the exchange the draw and a winner may both. *)
Shapes == {"proven", "unproven", "rules_differ", "not_exclusive"}
ThreeWayEvent(q, shape) ==
  LET rules(i) == IF shape = "rules_differ" /\ i = 3 THEN {"cancel"} ELSE {}
      side(i) == [q[i] EXCEPT !.drawExcluded = (shape # "unproven"), !.rules = rules(i)]
  IN [E("g", "KXWCGAME", {M(1, "A", side(1)), M(2, "B", side(2)), [M(3, "Tie", side(3)) EXCEPT !.tie = TRUE]})
        EXCEPT !.mx = (shape # "not_exclusive")]
ThreeWayWorlds(shape) ==
  {Wins(1 .. 3, {i}) : i \in 1 .. 3}
    \cup (IF shape \in {"unproven", "rules_differ"} THEN {Wins(1 .. 3, {})} ELSE {})
    \cup (IF shape = "not_exclusive" THEN {Wins(1 .. 3, {1, 3}), Wins(1 .. 3, {2, 3})} ELSE {})
ThreeWayQuotes == {Q(20, 24), Q(30, 33), Q(38, 41), Q(45, 47), Q(None, 30)} \cup Fine
ThreeWayBoards ==
  {Board([soccer |-> {ThreeWayEvent(q, shape)}], ThreeWayWorlds(shape), {})
     : q \in {<<a, b, c>> : a \in ThreeWayQuotes, b \in ThreeWayQuotes, c \in {Q(20, 24), Q(38, 41)}},
       shape \in Shapes}

(* A race: three of its drivers, the podium and the top five for the first. *)
(* Unless the event is exclusive, two may share the win.  Five who share the *)
(* third place are all on the podium and share the rest of the top five.     *)
RaceQuotes == {Q(20, 24), Q(40, 44), Q(55, 57), Q(60, 40), Q(None, 30)} \cup Fine
RaceWorlds == {{}, {5}, {4, 5}, {1, 4, 5}, {2}, {2, 5}, {3, 4, 5}}
Race(q, podium, top) ==
  {E("race", "KXF1RACE", {M(1, "D1", q[1]), M(2, "D2", q[2]), M(3, "D3", q[3])}),
   E("podium", "KXF1RACEPODIUM", {M(4, "D1", podium)}), E("top", "KXF1TOP5", {M(5, "D1", top)})}
F1(events) == {[e EXCEPT !.competition = "F1"] : e \in events}
RaceBoards ==
  {Board([motorsport |-> IF mx THEN F1(Race(q, r[1], r[2])) ELSE {Loose(e) : e \in F1(Race(q, r[1], r[2]))}],
         {Wins(1 .. 5, yes) : yes \in RaceWorlds \cup IF mx THEN {} ELSE {{1, 2, 4, 5}, {2, 3}}},
         {[Wins(1 .. 5, {2, 4}) EXCEPT ![5] = 60]})
     : q \in {<<a, b, c>> : a \in RaceQuotes, b \in RaceQuotes, c \in {Q(20, 24), Q(40, 44)}},
       r \in {<<Q(40, 45), Q(60, 65)>>, <<Q(50, 54), Q(42, 46)>>}, mx \in BOOLEAN}

-----------------------------------------------------------------------------
(* A group of four: two or three go on, and exactly one is last.            *)
Teams == <<"T1", "T2", "T3", "T4">>
GroupMarkets(first, q, n) == {[M(first + i, Teams[i], q[i]) EXCEPT !.group = "A"] : i \in 1 .. n}
Qualify(n, ts) == {Wins(ts, {t \in ts : t \in yes}) : yes \in {s \in SUBSET (1 .. 4) : Cardinality(s) \in 2 .. n}}
GroupQuotes == {Q(40, 45), Q(78, 82), Q(55, 60), Q(None, 24), Q(28, 33)} \cup Fine
Fours(S, last) == {<<a, b, c, d>> : a \in S, b \in S, c \in S, d \in last}
GroupBoards ==
  {Board([soccer |-> {Loose(E("qual", "KXWCGROUPQUAL", GroupMarkets(0, q, n)))}], Qualify(3, 1 .. n), {})
     : q \in Fours({Q(40, 45), Q(78, 82), Q(60, 64)}, GroupQuotes), n \in {3, 4}}
  \cup {Board([soccer |-> {E("last", "KXWCGROUPBOTTOM", GroupMarkets(0, q, n))}],
              {Wins(1 .. n, {t} \cap (1 .. n)) : t \in 1 .. 4}, {})
          : q \in Fours({Q(18, 22), Q(28, 33)}, GroupQuotes), n \in {3, 4}}

(* A team goes out at one of seven stages, a stretch of which is priced      *)
(* high; some of its rungs are listed.                                      *)
ElimEvent(hi, n) ==
  E("elim", "KXWCSTAGEOFELIM",
    {M(i, "T1", Rounded(IF i \in hi THEN Q(17, 20) ELSE Q(8, 11), StageElimBuckets[i])) : i \in 1 .. n})
RungEvents(r) ==
  {E("r16", "KXWCROUND", {M(8, "T1", Rounded(r[1], "Round of 16"))}),
   E("qf", "KXWCROUND", {M(9, "T1", Rounded(r[2], "Quarterfinals"))}),
   E("q", "KXWCGROUPQUAL", {M(10, "T1", r[3])}), E("gw", "KXWCGROUPWIN", {M(11, "T1", r[4])})}
OutAt(i) == {i} \cup (IF i >= 3 THEN {8} ELSE {}) \cup (IF i >= 4 THEN {9} ELSE {})
                \cup (IF i >= 2 THEN {10} ELSE {})
ElimWorlds(ts) == {Wins(ts, OutAt(i) \cap ts) : i \in 1 .. 7} \cup {Wins(ts, (OutAt(i) \cup {11}) \cap ts) : i \in 2 .. 7}
ElimBoards ==
  {Board([soccer |-> {ElimEvent(hi, n)} \cup RungEvents(r)], ElimWorlds((1 .. n) \cup 8 .. 11), {})
     : hi \in {i .. j : i \in 1 .. 7, j \in 1 .. 7} \ {{}}, n \in {6, 7},
       r \in {<<Q(44, 48), Q(40, 43), Q(60, 66), Q(30, 34)>>,
              <<Q(70, 74), Q(62, 66), Q(80, 85), Q(84, 90)>>,
              <<CHOOSE q \in Fine : q.ask < 500, Q(30, 34), Q(None, 50), Q(20, 24)>>}}

(* The scores a player may win a quarterfinal with, over three sets or over *)
(* five, the match and the semifinal it leads to.  The scores may be        *)
(* incomplete, close late, not be binary or have rules of their own.        *)
Faults == {"none", "late", "scalar", "rules", "missing"}
ScoresOf(slam) == IF slam THEN <<"3-0", "3-1", "3-2">> ELSE <<"2-0", "2-1">>
ScoreMarket(i, name, score, q, fault) ==
  [M(i, name, Rounded(q, "Quarterfinal"))
     EXCEPT !.score = IF fault = "missing" /\ i = 2 THEN "" ELSE score,
            !.close = IF fault = "late" /\ i = 1 THEN 7 ELSE 0,
            !.marketType = IF fault = "scalar" /\ i = 1 THEN "scalar" ELSE "binary",
            !.rules = IF fault = "rules" THEN {"retire"} ELSE {}]
ScoreEvents(slam, q, hedge, advance, fault) ==
  {E("score", "KXATPEXACTMATCH", {ScoreMarket(i, "A", ScoresOf(slam)[i], q[i], fault) : i \in DOMAIN ScoresOf(slam)}),
   E("match", "KXATPMATCH", {M(4, "A", Rounded(hedge, "Quarterfinal")), M(5, "B", Rounded(Q(40, 45), "Quarterfinal"))}),
   E("adv", "KXATPADVANCE", {M(6, "A", Rounded(advance, "Semifinal"))})}
ScoreBoard(slam, q, h, fault) ==
  LET n == Len(ScoresOf(slam))
      ts == (1 .. n) \cup 4 .. 6
      event(e) == [e EXCEPT !.competition = IF slam THEN "Wimbledon" ELSE "Halle"]
  IN Board([tennis |-> {event(e) : e \in ScoreEvents(slam, q, h[1], h[2], fault)}],
           {Wins(ts, {i, 4, 6}) : i \in 1 .. n} \cup {Wins(ts, {5})}, {Wins(ts, {4, 6})})
ScoreBoards ==
  {ScoreBoard(slam, q, h, fault)
     : slam \in BOOLEAN, q \in {<<a, b, Q(12, 15)>> : a \in {Q(20, 24), Q(30, 34)} \cup Fine,
                                                     b \in {Q(20, 24), Q(30, 60), Q(None, 30)}},
       h \in {Q(55, 57), Q(70, 74), Q(40, 45)} \X ({Q(55, 57), Q(76, 80)} \cup Fine), fault \in Faults}

(* Tenths that every leg rounds away: 24.4 + 25.4 + 50.4 costs 99 of 100,   *)
(* and so does 33.4 three times.                                            *)
TickBoards ==
  {Board([soccer |-> {ThreeWayEvent([i \in 1 .. 3 |-> Tick(Q(32, 33), 324, 334)], "proven")}],
         ThreeWayWorlds("proven"), {})} \cup
  {ScoreBoard(FALSE, <<Tick(Q(24, 24), 240, 244), q, Q(12, 15)>>, <<Tick(Q(50, 51), 496, 506), Q(76, 80)>>, "none")
     : q \in {Tick(Q(25, 25), 250, 254), Q(20, 24)}}

-----------------------------------------------------------------------------
(* The twenty-four standings of a group, each with its digits for a ticker, *)
(* and the market for going on.  One of them may be missing.                *)
Standings == {p \in (1 .. 4) \X (1 .. 4) \X (1 .. 4) \X (1 .. 4) : Cardinality(Range(p)) = 4}
Digits(p) == 1000 * p[1] + 100 * p[2] + 10 * p[3] + p[4]
OrderMarket(p, q) ==
  [M(Digits(p), "order", q) EXCEPT !.id = "", !.group = "A", !.placement = [k \in 1 .. 4 |-> Teams[p[k]]]]
OrderTickers(ps) == {Digits(p) : p \in ps} \cup 1 .. 4
OrderWorlds(ps) ==
  {Wins(OrderTickers(ps), {Digits(p)} \cup {p[k] : k \in 1 .. n}) : p \in Standings, n \in 2 .. 3}
OrderBoards ==
  {Board([soccer |-> {E("order", "KXWCGROUPORDER",
                        {OrderMarket(p, IF p = <<1, 2, 3, 4>> THEN first ELSE rest) : p \in ps}),
                      Loose(E("qual", "KXWCGROUPQUAL", GroupMarkets(0, <<q, Q(40, 44), Q(60, 64), Q(48, 50)>>, 4)))}],
         OrderWorlds(ps), {})
     : rest \in {Q(2, 3), Q(4, 6)}, first \in {Q(2, 3), Q(None, 4), Q(2, 30), [Q(2, 3) EXCEPT !.askSize = 4]},
       q \in {Q(40, 44), Q(85, 88), Q(20, 24)}, ps \in {Standings, Standings \ {<<4, 3, 2, 1>>}}}

(* The three games of a team.                                               *)
GameMarkets(g, win) ==
  {M(3 * g + 1, "T1", win), M(3 * g + 2, Teams[g + 2], Q(20, 24)), [M(3 * g + 3, "Tie", Q(28, 31)) EXCEPT !.tie = TRUE]}
SeasonBoards ==
  {Board([soccer |-> {E(<<"g0", "g1", "g2">>[g + 1], "KXWCGAME", GameMarkets(g, q[g + 1])) : g \in 0 .. 2}
                       \cup {E("qual", "KXWCGROUPQUAL", GroupMarkets(20, <<q[4]>>, 1))}],
         {Wins((1 .. 9) \cup {21}, {a, 3 + b, 6 + c} \cup last)
            : a \in 1 .. 3, b \in 1 .. 3, c \in 1 .. 3, last \in {{}, {21}}}, {})
     : q \in Fours({Q(90, 94), Q(60, 64), Q(None, 40)}, {Q(60, 64), Q(85, 88)})}

(* One finalist is known and two play for the other place.                  *)
FinalMarkets(q) ==
  {Loose(E("f", "KXATPADVANCE", {M(i, Teams[i], Rounded(q[i], "Final")) : i \in 1 .. 3})),
   [E("w", "KXFOMEN", {M(3 + i, Teams[i], q[3 + i]) : i \in 1 .. 3}) EXCEPT !.competition = ""]}
FinalBoards ==
  {Board([tennis |-> French(FinalMarkets(q))],
         {Wins(1 .. 6, yes) : yes \in {{1, 2, 4}, {1, 2, 5}, {1, 3, 4}, {1, 3, 6}}}, {})
     : q \in {<<a, b, c, d, e, f>> : a \in {Q(98, 99), Q(90, 94)}, b \in {Q(50, 54), Q(70, 74), Q(0, 2)},
              c \in {Q(44, 48), Q(60, 64)}, d \in {Q(50, 55), Q(None, 50)}, e \in {Q(20, 24), Q(80, 84)},
              f \in {Q(20, 24), Q(0, 100)}}}

(* How many games a match takes: thresholds from above and from below.      *)
TotalMarket(i, strike, q) == [M(i, "total", q) EXCEPT !.id = "", !.strike = strike]
Strikes == <<<<"ge", 20>>, <<"ge", 21>>, <<"ge", 23>>, <<"le", 21>>, <<"le", 19>>>>
Reached(n) == {i \in 1 .. 5 : IF Strikes[i][1] = "ge" THEN n >= Strikes[i][2] ELSE n <= Strikes[i][2]}
TotalBoards ==
  {Board([tennis |-> {Loose(E("total", "KXATPGTOTAL", {TotalMarket(i, Strikes[i], q[i]) : i \in 1 .. 5}))}],
         {Wins(1 .. 5, Reached(n)) : n \in 18 .. 24}, {})
     : q \in {<<a, b, c, Q(40, 45), d>> : a \in {Q(60, 65), Q(40, 44), Q(None, 30)}, b \in {Q(50, 54), Q(0, 100)},
              c \in {Q(30, 34), Q(70, 75)}, d \in {Q(20, 24), Q(60, 64)}}}

(* A scan of several sports, more of them than there are workers.           *)
Season(ts, series, sport) ==
  [s \in {sport} |-> {[Pair(ts, series, <<Q(40, 42), Q(50, 54)>>) EXCEPT !.competition = sport]}]
SeveralBoards ==
  {Board(Season(<<1, 2>>, "KXNBAGAME", "nba") @@ Season(<<3, 4>>, "KXWNBAGAME", "wnba")
           @@ Season(<<5, 6>>, "KXMLBGAME", "mlb") @@ Season(<<7, 8>>, "KXNHLGAME", "nhl")
           @@ Season(<<9, 10>>, "KXCS2GAME", "esports"),
         {Wins(1 .. 10, {1, 3, 5, 7, 9}), Wins(1 .. 10, {2, 4, 6, 8, 10})}, {})}

AllBoards == RoadBoards \cup MatchBoards \cup StandInBoards \cup PairBoards \cup TieBoards \cup ThreeWayBoards \cup RaceBoards
               \cup GroupBoards \cup ElimBoards \cup ScoreBoards \cup TickBoards \cup OrderBoards \cup SeasonBoards
               \cup FinalBoards \cup TotalBoards \cup SeveralBoards
=============================================================================
