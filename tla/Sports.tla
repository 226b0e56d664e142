------------------------------- MODULE Sports -------------------------------
(***************************************************************************)
(* sports.py: one record per sport with the bits the engine reads from it. *)
(* A series is its ticker; the series a sport finds by prefix or keyword   *)
(* are named one by one, and a series nobody names here is "other".        *)
(*                                                                         *)
(*   families        series -> market family                               *)
(*   rung            series -> the stage every market of it is at          *)
(*   reach, h2h      stage -> ladder node, of "advance" and of match markets*)
(*   leaf            family -> the one node all of its markets are at       *)
(*   ladder          [order, adjacent, optional, simultaneous]             *)
(*   survivors       node -> how many participants end up there            *)
(*   levels          family -> stage -> 0 contest, 1 tournament, 2 season;  *)
(*                   "*" is the stage of the default                       *)
(***************************************************************************)
EXTENDS Integers, Sequences, FiniteSets, TLC

NoNode == ""

All(S, v) == [s \in S |-> v]
Flat(S, level) == [s \in S |-> [any \in {"*"} |-> level]]

(* A ladder, broad to deep; each node is contained in the one before it.    *)
Ladder(order) ==
  [order |-> order, optional |-> {}, simultaneous |-> FALSE,
   adjacent |-> {<<order[i + 1], order[i]>> : i \in 1 .. Len(order) - 1}]
NoLadder == Ladder(<<>>)

(* SportConfig: a sport starts from the defaults and names the rest.        *)
Default ==
  [id |-> "", families |-> <<>>, rung |-> <<>>, reach |-> <<>>, h2h |-> <<>>, leaf |-> <<>>,
   ladder |-> NoLadder, survivors |-> <<>>, levels |-> <<>>,
   ladderFamilies |-> {"match", "advance", "winner"}, matchFamily |-> "", nonParticipant |-> {},
   fieldFamilies |-> {"winner"}, meceByShape |-> TRUE, nWay |-> FALSE, baskets |-> <<>>,
   formats |-> <<>>, roles |-> {}, hasTie |-> FALSE]

Unknown == [Default EXCEPT !.id = "unknown", !.ladderFamilies = {}]

Tennis ==
  [Default EXCEPT
    !.id = "tennis",
    !.families = All({"KXATPMATCH", "KXWTAMATCH", "KXITFMATCH", "KXITFWMATCH"}, "match")
                   @@ All({"KXATPADVANCE", "KXWTAADVANCE"}, "advance")
                   @@ All({"KXFOMEN", "KXFOWOMEN", "KXFOMENSINGLES", "KXFOWOMENSINGLES",
                           "KXFOPENMENSINGLE", "KXFOPENWMENSINGLE"}, "winner")
                   @@ All({"KXATPEXACTMATCH", "KXWTAEXACTMATCH"}, "exact_score")
                   @@ All({"KXATPSETWINNER", "KXWTASETWINNER"}, "set_winner")
                   @@ All({"KXATPGRANDSLAM", "KXWTAGRANDSLAM"}, "grand_slam")
                   @@ All({"KXATPGTOTAL"}, "other"),
    !.reach = [Semifinal |-> "Reach Semifinal", Final |-> "Reach Final"],
    !.h2h = [Quarterfinal |-> "Reach Semifinal", Semifinal |-> "Reach Final", Final |-> "Win Tournament"],
    !.leaf = [winner |-> "Win Tournament"],
    !.ladder = Ladder(<<"Reach Semifinal", "Reach Final", "Win Tournament">>),
    !.survivors = "Reach Semifinal" :> 4 @@ "Reach Final" :> 2 @@ "Win Tournament" :> 1,
    !.levels = Flat({"match", "set_winner", "exact_score"}, 0) @@ Flat({"advance", "winner"}, 1)
                 @@ Flat({"grand_slam"}, 2),
    !.matchFamily = "match",
    !.formats = [tennis_bo5 |-> {"3-0", "3-1", "3-2"}, tennis_bo3 |-> {"2-0", "2-1"}]]

(* Men play best of five at the four Slams; a tournament that could not be  *)
(* named has no proven format.                                              *)
Slams == {"Australian Open", "French Open", "Roland Garros", "Wimbledon", "US Open"}
Women == {"KXFOWOMEN", "KXFOWOMENSINGLES", "KXFOPENWMENSINGLE", "KXITFWMATCH", "KXWTAMATCH",
          "KXWTAADVANCE", "KXWTAEXACTMATCH", "KXWTASETWINNER", "KXWTAGRANDSLAM"}
ScoreFormat(series, tournament) ==
  CASE tournament = "unknown" -> ""
    [] tournament \in Slams /\ series \notin Women -> "tennis_bo5"
    [] OTHER -> "tennis_bo3"

(* The playoff sports share a shape: reach the playoffs, win the conference *)
(* (or league), win the title.                                              *)
Titles(reach, middle, title) == Ladder(<<reach, middle, title>>)

Nba ==
  [Default EXCEPT
    !.id = "nba",
    !.families = All({"KXNBA"}, "winner") @@ All({"KXNBAEAST", "KXNBAWEST", "KXNBAPLAYOFF"}, "advance")
                   @@ All({"KXNBASERIES"}, "match") @@ All({"KXNBAGAME"}, "game"),
    !.rung = All({"KXNBAPLAYOFF"}, "Playoffs") @@ All({"KXNBAEAST", "KXNBAWEST"}, "Conference"),
    !.reach = [Playoffs |-> "Reach Playoffs", Conference |-> "Win Conference"],
    !.h2h = "Finals" :> "Win Championship" @@ "Conference Finals" :> "Win Conference",
    !.leaf = [winner |-> "Win Championship"],
    !.ladder = Titles("Reach Playoffs", "Win Conference", "Win Championship"),
    !.survivors = "Win Conference" :> 2 @@ "Win Championship" :> 1,
    !.levels = Flat({"game"}, 0) @@ Flat({"match"}, 1) @@ Flat({"winner"}, 2)
                 @@ [advance |-> "Playoffs" :> 1 @@ "Conference" :> 2 @@ "*" :> 2],
    !.matchFamily = "match"]

Wnba ==
  [Default EXCEPT
    !.id = "wnba",
    !.families = All({"KXWNBA"}, "winner")
                   @@ All({"KXWNBAPLAYOFF", "KXWNBASEMIFINAL", "KXWNBAFINAL"}, "advance")
                   @@ All({"KXWNBASERIES"}, "match") @@ All({"KXWNBAGAME"}, "game"),
    !.rung = [KXWNBAPLAYOFF |-> "Playoffs", KXWNBASEMIFINAL |-> "Semifinals", KXWNBAFINAL |-> "Finals"],
    !.reach = [Playoffs |-> "Reach Playoffs", Semifinals |-> "Reach Semifinals", Finals |-> "Reach Finals"],
    !.h2h = "Finals" :> "Win Championship" @@ "Semifinals" :> "Reach Finals"
              @@ "First Round" :> "Reach Semifinals",
    !.leaf = [winner |-> "Win Championship"],
    !.ladder = Ladder(<<"Reach Playoffs", "Reach Semifinals", "Reach Finals", "Win Championship">>),
    !.survivors = "Reach Semifinals" :> 4 @@ "Reach Finals" :> 2 @@ "Win Championship" :> 1,
    !.levels = Flat({"game"}, 0) @@ Flat({"match"}, 1) @@ Flat({"winner"}, 2)
                 @@ [advance |-> "Playoffs" :> 1 @@ "Semifinals" :> 2 @@ "Finals" :> 2 @@ "*" :> 2],
    !.matchFamily = "match"]

(* Finishing positions: all the rungs of a tournament settle together.      *)
Golf ==
  [Default EXCEPT
    !.id = "golf",
    !.families = All({"KXPGATOUR"}, "winner") @@ All({"KXPGATOP5", "KXPGATOP10", "KXPGATOP20"}, "advance"),
    !.rung = [KXPGATOP5 |-> "Top 5", KXPGATOP10 |-> "Top 10", KXPGATOP20 |-> "Top 20"],
    !.reach = [n \in {"Top 5", "Top 10", "Top 20"} |-> n],
    !.leaf = [winner |-> "Win Tournament"],
    !.ladder = [Ladder(<<"Top 20", "Top 10", "Top 5", "Win Tournament">>) EXCEPT !.simultaneous = TRUE],
    !.survivors = "Top 20" :> 20 @@ "Top 10" :> 10 @@ "Top 5" :> 5 @@ "Win Tournament" :> 1,
    !.levels = Flat({"advance", "winner"}, 0)]

-----------------------------------------------------------------------------
(* The buckets of a stage-of-elimination event, shallow to deep.            *)
StageElimBuckets == <<"GS", "R32", "R16", "QF", "SF", "FL", "FW">>

GroupRule(teams, yes, no, yesMax, noMax) ==
  [team_count |-> teams, yes_floor |-> yes, no_floor |-> no,
   yes_ceiling_count |-> yesMax, no_ceiling_count |-> noMax]

(* "Win group" hangs off the first rung: it is incomparable to the deeper   *)
(* ones and need not be listed.                                             *)
SoccerLadder ==
  [Ladder(<<"Reach Round of 32", "Reach Round of 16", "Reach Quarterfinals",
            "Reach Semifinals", "Reach Finals", "Win the World Cup">>) EXCEPT
     !.adjacent = @ \cup {<<"Win group", "Reach Round of 32">>},
     !.optional = {"Win group"}]

Soccer ==
  [Default EXCEPT
    !.id = "soccer",
    !.families = All({"KXWCGAME"}, "game") @@ All({"KXWCROUND", "KXWCGROUPQUAL"}, "advance")
                   @@ All({"KXWCGROUPWIN"}, "group_winner") @@ All({"KXWCGROUPORDER"}, "exact_order")
                   @@ All({"KXWCGROUPBOTTOM"}, "group_bottom") @@ All({"KXWCSTAGEOFELIM"}, "stage_of_elim")
                   @@ All({"KXMENWORLDCUP"}, "winner")
                   @@ All({"KXWCSTAGE", "KXWCBESTHOST", "KXWCFURTHESTADVANCING", "KXWCGOALLEADER", "KXWCAWARD",
                           "KXWCTOTALGOAL", "KXWCTEAMGOALS", "KXWCGROUPGOALS", "KXWCGROUPWINNER",
                           "KXWCTEAMH2H"}, "other"),
    !.rung = [KXWCGROUPQUAL |-> "Round of 32"],
    !.reach = "Round of 32" :> "Reach Round of 32" @@ "Round of 16" :> "Reach Round of 16"
                @@ "Quarterfinals" :> "Reach Quarterfinals" @@ "Semifinals" :> "Reach Semifinals"
                @@ "Finals" :> "Reach Finals",
    !.leaf = [winner |-> "Win the World Cup", group_winner |-> "Win group"],
    !.ladder = SoccerLadder,
    !.survivors = "Reach Round of 32" :> 32 @@ "Reach Round of 16" :> 16 @@ "Reach Quarterfinals" :> 8
                    @@ "Reach Semifinals" :> 4 @@ "Reach Finals" :> 2 @@ "Win the World Cup" :> 1,
    !.levels = Flat({"game"}, 0) @@ Flat({"advance", "group_winner", "winner"}, 1),
    !.ladderFamilies = {"advance", "winner", "group_winner"},
    !.nonParticipant = {"exact_order"}, !.nWay = TRUE, !.hasTie = TRUE,
    !.baskets = [KXWCGROUPQUAL |-> GroupRule(4, 2, 1, 3, 2), KXWCGROUPBOTTOM |-> GroupRule(4, 1, 3, 1, 3)]]

Mlb ==
  [Default EXCEPT
    !.id = "mlb",
    !.families = All({"KXMLB"}, "winner") @@ All({"KXMLBPLAYOFFS", "KXMLBAL", "KXMLBNL"}, "advance")
                   @@ All({"KXMLBGAME"}, "game"),
    !.rung = All({"KXMLBPLAYOFFS"}, "Playoffs") @@ All({"KXMLBAL", "KXMLBNL"}, "League"),
    !.reach = [Playoffs |-> "Reach Playoffs", League |-> "Win League"],
    !.leaf = [winner |-> "Win World Series"],
    !.ladder = Titles("Reach Playoffs", "Win League", "Win World Series"),
    !.survivors = "Win League" :> 2 @@ "Win World Series" :> 1,
    !.levels = Flat({"game"}, 0) @@ Flat({"winner"}, 2)
                 @@ [advance |-> "Playoffs" :> 1 @@ "League" :> 2 @@ "*" :> 2],
    !.ladderFamilies = {"advance", "winner"}]

Nhl ==
  [Default EXCEPT
    !.id = "nhl",
    !.families = All({"KXNHL"}, "winner") @@ All({"KXNHLEAST", "KXNHLWEST", "KXNHLPLAYOFF"}, "advance")
                   @@ All({"KXNHLSERIES"}, "match") @@ All({"KXNHLGAME"}, "game"),
    !.rung = All({"KXNHLPLAYOFF"}, "Playoffs") @@ All({"KXNHLEAST", "KXNHLWEST"}, "Conference"),
    !.reach = [Playoffs |-> "Reach Playoffs", Conference |-> "Win Conference"],
    !.h2h = "Stanley Cup Final" :> "Win Championship" @@ "Conference Finals" :> "Win Conference",
    !.leaf = [winner |-> "Win Championship"],
    !.ladder = Titles("Reach Playoffs", "Win Conference", "Win Championship"),
    !.survivors = "Win Conference" :> 2 @@ "Win Championship" :> 1,
    !.levels = Flat({"game"}, 0) @@ Flat({"match"}, 1) @@ Flat({"winner"}, 2)
                 @@ [advance |-> "Playoffs" :> 1 @@ "Conference" :> 2 @@ "*" :> 2],
    !.matchFamily = "match"]

(* An NFL game may end in a tie, so its shape alone proves nothing.         *)
Nfl ==
  [Default EXCEPT
    !.id = "nfl",
    !.families = All({"KXSB"}, "winner") @@ All({"KXNFLPLAYOFF", "KXNFLAFCCHAMP", "KXNFLNFCCHAMP"}, "advance")
                   @@ All({"KXNFLGAME"}, "game"),
    !.rung = All({"KXNFLPLAYOFF"}, "Playoffs") @@ All({"KXNFLAFCCHAMP", "KXNFLNFCCHAMP"}, "Conference"),
    !.reach = [Playoffs |-> "Reach Playoffs", Conference |-> "Win Conference"],
    !.leaf = [winner |-> "Win Super Bowl"],
    !.ladder = Titles("Reach Playoffs", "Win Conference", "Win Super Bowl"),
    !.survivors = "Win Conference" :> 2 @@ "Win Super Bowl" :> 1,
    !.levels = Flat({"game"}, 0) @@ Flat({"advance", "winner"}, 1),
    !.ladderFamilies = {"advance", "winner"}, !.meceByShape = FALSE]

-----------------------------------------------------------------------------
(* A race's markets are a ladder of its competition and a set of one-winner *)
(* fields; drivers, constructors and teams are keyed apart.                 *)
MotorLadder(nodes) == [Ladder(nodes) EXCEPT !.simultaneous = TRUE]
MotorLadders ==
  [c \in {"F1", "NASCAR Cup Series", "NASCAR Truck Series", "IndyCar"} |->
     MotorLadder(CASE c = "F1" -> <<"Top 10", "Top 5", "Podium", "Win Race">>
                   [] c = "NASCAR Cup Series" -> <<"Top 20", "Top 10", "Top 5", "Top 3", "Win Race">>
                   [] OTHER -> <<"Top 10", "Top 3", "Win Race">>)]

Motorsport ==
  [Default EXCEPT
    !.id = "motorsport",
    !.families = All({"KXF1", "KXMOTOGP", "KXNASCAR", "KXNASCARCUPSERIES", "KXNASCARTRUCKSERIES",
                      "KXINDYCARSERIES"}, "winner")
                   @@ All({"KXF1RACE", "KXF1RACESPRINT", "KXNASCARRACE", "KXINDYCARRACE", "KXINDY500",
                           "KXMOTOGPRACE"}, "race_winner")
                   @@ All({"KXF1POLE", "KXNASCARPOLE"}, "pole")
                   @@ All({"KXF1FASTLAP", "KXNASCARFASTLAP"}, "fastest_lap")
                   @@ All({"KXF1CONSTRUCTORS", "KXF1TOPCONSTRUCTOR"}, "constructor")
                   @@ All({"KXNASCARTOPTEAM", "KXNASCARTOPMANU", "KXMOTOGPTEAMS"}, "team")
                   @@ All({"KXF1RACEPODIUM", "KXF1TOP5", "KXF1TOP10", "KXNASCARTOP3", "KXNASCARTOP5",
                           "KXNASCARTOP10", "KXNASCARTOP20", "KXINDYCARTOP3", "KXINDYCARTOP10"}, "advance"),
    !.rung = All({"KXF1RACEPODIUM"}, "Podium") @@ All({"KXNASCARTOP3", "KXINDYCARTOP3"}, "Top 3")
               @@ All({"KXF1TOP5", "KXNASCARTOP5"}, "Top 5")
               @@ All({"KXF1TOP10", "KXNASCARTOP10", "KXINDYCARTOP10"}, "Top 10")
               @@ All({"KXNASCARTOP20"}, "Top 20"),
    !.reach = [n \in {"Podium", "Top 3", "Top 5", "Top 10", "Top 20"} |-> n],
    !.leaf = [race_winner |-> "Win Race"],
    !.levels = Flat({"race_winner", "pole", "fastest_lap", "advance"}, 0)
                 @@ Flat({"winner", "constructor", "team"}, 1),
    !.ladderFamilies = {"advance", "race_winner"},
    !.fieldFamilies = {"winner", "race_winner", "pole", "fastest_lap", "constructor", "team"},
    !.roles = {"constructor", "team"}]

Esports ==
  [Default EXCEPT
    !.id = "esports",
    !.families = All({"KXCS2GAME", "KXCS2MAP", "KXLOLGAME", "KXLOLMAP", "KXVALORANTGAME", "KXVALORANTMAP",
                      "KXDOTA2GAME", "KXDOTA2MAP", "KXCODGAME", "KXCODMAP", "KXR6GAME", "KXR6MAP",
                      "KXOWGAME", "KXRLGAME", "KXRLMAP"}, "game")
                   @@ All({"KXCS2", "KXDOTA2", "KXCOD", "KXVALORANT", "KXR6", "KXOVERWATCH", "KXPUBG",
                           "KXBRAWLSTARS", "KXCROSSFIRE", "KXROCKETLEAGUE", "KXLEAGUEWORLDS"}, "winner"),
    !.levels = Flat({"game"}, 0) @@ Flat({"winner"}, 1),
    !.ladderFamilies = {}]

-----------------------------------------------------------------------------
Registry == <<Tennis, Nba, Wnba, Golf, Soccer, Mlb, Nhl, Nfl, Motorsport, Esports>>

(* sport_for_series: no series belongs to two sports, and a foreign one to  *)
(* none.                                                                    *)
SportOf(series) ==
  IF \E i \in DOMAIN Registry : series \in DOMAIN Registry[i].families
  THEN Registry[CHOOSE i \in DOMAIN Registry : series \in DOMAIN Registry[i].families]
  ELSE Unknown

FamilyOf(cfg, series) == IF series \in DOMAIN cfg.families THEN cfg.families[series] ELSE "other"

(* classify: round is the round a market's text names, "" when it names none.*)
StageOf(cfg, family, series, round) ==
  CASE family = "winner" /\ cfg.id # "soccer" -> "Champion"
    [] family = "advance" /\ series \in DOMAIN cfg.rung -> cfg.rung[series]
    [] family = "race_winner" -> "Win Race"
    [] \/ cfg.id = "tennis"
       \/ family = "match"
       \/ cfg.id = "soccer" /\ family \in {"advance", "stage_of_elim"} -> round
    [] OTHER -> ""

NodeOf(cfg, family, stage) ==
  CASE family \in DOMAIN cfg.leaf -> cfg.leaf[family]
    [] family = "advance" /\ stage \in DOMAIN cfg.reach -> cfg.reach[stage]
    [] family = "match" /\ stage \in DOMAIN cfg.h2h -> cfg.h2h[stage]
    [] OTHER -> NoNode

LadderFor(cfg, competition) ==
  IF cfg.id # "motorsport" THEN cfg.ladder
  ELSE IF competition \in DOMAIN MotorLadders THEN MotorLadders[competition] ELSE NoLadder

SurvivorsOf(cfg, node) == IF node \in DOMAIN cfg.survivors THEN cfg.survivors[node] ELSE 0
Role(cfg, family) == IF cfg.id # "motorsport" THEN ""
                     ELSE IF family \in cfg.roles THEN family ELSE "driver"
=============================================================================
