------------------------------- MODULE Quotes -------------------------------
(***************************************************************************)
(* The price arithmetic every detector rests on: data.py (a market's quote *)
(* to exact integer cents) and the firm-leg helpers of consistency.py and  *)
(* dutchbook.py.  A quote is a record                                      *)
(*   bid, ask, last, noAsk   cents, or None                                *)
(*   bidSize, askSize        units behind the resting order, or None       *)
(*   active, subpenny        market open; priced on a sub-cent tick        *)
(*   quality                 the label data.quote_quality gives the book   *)
(***************************************************************************)
EXTENDS Integers, Sequences, FiniteSets, FiniteSetsExt

None == -1                   \* Python's None (and the NaN pandas makes of it)
Cents == 0 .. 100
NoGap == -1000               \* None for a gap or a profit, which may be negative

(* {**m, **new}: the fields of new, and those of m that it does not have.    *)
With(m, new) == [f \in DOMAIN m \cup DOMAIN new |-> IF f \in DOMAIN new THEN new[f] ELSE m[f]]

(* data.py: an 0/100 book has no orders; a book whose ask is below its bid  *)
(* is malformed.                                                            *)
EmptyBook(bid, ask) == bid = 0 /\ ask = 100
TwoSided(bid, ask) == bid # None /\ ask # None /\ ~EmptyBook(bid, ask) /\ ask >= bid

(* The labels quote_quality may give a book.  It compares binary floats     *)
(* with 0.05, 0.15 and 0.30, so a spread of exactly 5, 15 or 30 cents falls *)
(* on either side, depending on the two prices.                             *)
QuoteQuality(bid, ask) ==
  LET s == ask - bid
      Upto(lo, hi) == lo <= s /\ s <= hi
  IN IF (bid = None /\ ask = None) \/ EmptyBook(bid, ask) THEN {"No quote"}
     ELSE IF bid = None \/ ask = None THEN {"One-sided"}
     ELSE IF ask < bid THEN {"Crossed"}
     ELSE (IF Upto(0, 5) THEN {"Tight"} ELSE {})
            \cup (IF Upto(5, 15) THEN {"OK"} ELSE {})
            \cup (IF Upto(15, 30) THEN {"Wide"} ELSE {})
            \cup (IF s >= 30 THEN {"Very wide"} ELSE {})

QualityRank == [q \in {"Tight", "OK", "Wide", "Very wide", "One-sided", "No quote", "Crossed"} |->
                  CASE q = "Tight" -> 0 [] q = "OK" -> 1 [] q = "Wide" -> 2 [] q = "Very wide" -> 3
                    [] q = "One-sided" -> 4 [] q = "No quote" -> 5 [] q = "Crossed" -> 6]
WorstQuality(a, b) == IF QualityRank[a] >= QualityRank[b] THEN a ELSE b

(* Python's round() of a half-integer goes to the even neighbour.           *)
HalfEven(twice) == IF twice % 2 = 0 THEN twice \div 2
                   ELSE LET low == (twice - 1) \div 2 IN IF low % 2 = 0 THEN low ELSE low + 1

(* data.display_cents: the midpoint of a book at most 20 cents wide, else   *)
(* the last trade, else nothing.                                            *)
DisplayCents(m) ==
  IF TwoSided(m.bid, m.ask) /\ m.ask - m.bid <= 20 THEN HalfEven(m.bid + m.ask)
  ELSE IF m.last > 0 THEN m.last
  ELSE None

(* consistency._leg: the firm price and size of one side.  Neither an empty *)
(* or crossed book nor one on a sub-cent tick has a firm leg.               *)
FirmBook(m) == m.quality \notin {"No quote", "Crossed"} /\ ~m.subpenny
FirmBid(m) == IF FirmBook(m) THEN m.bid ELSE None
FirmAsk(m) == IF FirmBook(m) THEN m.ask ELSE None
Pos(size) == size # None /\ size > 0

(* _buy_no_c and _firm_no_ask_c: the reported NO ask, else 100 - YES bid.   *)
BuyNo(m) == IF m.noAsk # None THEN m.noAsk ELSE IF m.bid # None THEN 100 - m.bid ELSE None

(* dutchbook: buying YES needs a usable ask; buying NO also refuses a       *)
(* one-sided book.  Sub-cent rows never reach the detectors that use these. *)
FirmYesAsk(m) == IF m.quality \in {"No quote", "Crossed"} THEN None ELSE m.ask
FirmNoAsk(m) == IF m.quality \in {"No quote", "Crossed", "One-sided"} THEN None ELSE BuyNo(m)
BuyPrice(side, m) == IF side = "yes" THEN FirmYesAsk(m) ELSE FirmNoAsk(m)
BuySize(side, m) == IF side = "yes" THEN m.askSize ELSE m.bidSize

(* One direction over a set of legs: buy the same side of every one.        *)
Legs(side, ms) == {[side |-> side, ticker |-> m.ticker, price |-> BuyPrice(side, m)] : m \in ms}
Priced(side, ms) == \A m \in ms : BuyPrice(side, m) # None
Cost(side, ms) == MapThenSumSet(LAMBDA m : BuyPrice(side, m), ms)
Units(side, ms) == IF \A m \in ms : Pos(BuySize(side, m))
                   THEN Min({BuySize(side, m) : m \in ms}) ELSE None
Open(ms) == \A m \in ms : m.active
=============================================================================
