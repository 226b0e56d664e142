----------------------------- MODULE Contracts -----------------------------
(***************************************************************************)
(* data.build_contracts: the exchange's events of a series, flattened into *)
(* one contract per named market.  An event is a record                    *)
(*   ticker, series, competition, season, mx, markets                      *)
(* (mx: the exchange flags its markets mutually exclusive) and a market    *)
(*   ticker          a number; tickers are ordered as their strings are    *)
(*   name, id        its participant: what it is called, its stable id     *)
(*   round           the round or bucket its text names                    *)
(*   tie             it is the draw of its event                           *)
(*   bid, ask, last, noAsk    in tenths of a cent, as quoted; or None      *)
(*   tick            quoted on a tick below one cent                       *)
(*   quality, bidSize, askSize, active, vol                                *)
(*   rules           what its settlement text says on walkovers and the like*)
(*   drawExcluded, tieBasis   what it says on extra time, and on ties      *)
(*   score, placement, strike the set score, the standing of a group or the*)
(*                            numeric threshold it is about, where it is   *)
(*   group, marketType, close the letter of its group, the kind of payout, *)
(*                            when it closes (in hours)                    *)
(***************************************************************************)
EXTENDS Quotes, Sports

(* to_cents: round to even.  The price the exchange charges is not rounded. *)
ToCents(tenths) ==
  LET q == tenths \div 10
      r == tenths % 10
  IN IF tenths = None THEN None
     ELSE IF r < 5 \/ (r = 5 /\ q % 2 = 0) THEN q ELSE q + 1

Subpenny(m) == m.tick \/ \E p \in {m.bid, m.ask, m.noAsk, m.last} : p # None /\ p % 10 # 0

(* tournament_of and the sports' own event keys: what a participant's       *)
(* markets must share to form a ladder.  Seasons are kept apart, except in  *)
(* tennis; events of a tournament nobody names are never put together.      *)
FoWinners == {"KXFOMEN", "KXFOWOMEN", "KXFOMENSINGLES", "KXFOWOMENSINGLES", "KXFOPENMENSINGLE",
              "KXFOPENWMENSINGLE"}
TournamentOf(cfg, e) ==
  CASE cfg.id = "soccer" -> <<"World Cup", e.season>>
    [] cfg.id = "motorsport" ->
         <<IF e.competition = "" THEN "Motorsport" ELSE e.competition,
           IF e.series = "KXF1RACESPRINT" THEN "sprint" ELSE "main-race", e.season>>
    [] cfg.id = "tennis" ->
         <<IF e.competition # "" THEN e.competition
           ELSE IF e.series \in FoWinners THEN "French Open" ELSE "unknown",
           IF e.competition = "" /\ e.series \notin FoWinners THEN e.ticker ELSE "">>
    [] OTHER -> <<IF e.competition # "" THEN e.competition ELSE "unknown",
                  IF e.competition = "" THEN e.ticker ELSE "", e.season>>

(* The stable id when there is one, else the name; roles are kept apart and *)
(* an outcome that is nobody's gets a key of its own.                       *)
IdentityOf(m) == IF m.id # "" THEN m.id ELSE m.name
KeyOf(cfg, family, e, m) ==
  IF cfg.hasTie /\ m.tie THEN <<"tie", e.ticker>>
  ELSE IF family \in cfg.nonParticipant THEN <<family, m.ticker>>
  ELSE <<Role(cfg, family), IdentityOf(m)>>

Contract(e, m) ==
  LET cfg == SportOf(e.series)
      family == FamilyOf(cfg, e.series)
      stage == StageOf(cfg, family, e.series, m.round)
  IN With(m,
     [bid |-> ToCents(m.bid), ask |-> ToCents(m.ask), last |-> ToCents(m.last), noAsk |-> ToCents(m.noAsk),
      subpenny |-> Subpenny(m), event |-> e.ticker, series |-> e.series, mx |-> e.mx,
      competition |-> e.competition, tour |-> TournamentOf(cfg, e), key |-> KeyOf(cfg, family, e, m),
      participant |-> ~(cfg.hasTie /\ m.tie) /\ family \notin cfg.nonParticipant,
      kind |-> family, stage |-> stage, node |-> NodeOf(cfg, family, stage)])

BuildContracts(events) ==
  UNION {{Contract(e, m) : m \in {x \in e.markets : x.name # ""}} : e \in events}
=============================================================================
