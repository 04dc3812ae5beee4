--------------------------- MODULE TradeValuation ---------------------------
(***************************************************************************)
(* From a spread and its entry to a path of marks and the exits on it:     *)
(* fees, entry ledgers, the valuation of every path point from what was    *)
(* known there, and the exit rules.                                        *)
(*                                                                         *)
(* BTC amounts are integers in units of 1 / Scale, so a VWAP over a few    *)
(* small amounts is exact; a model price is intrinsic value plus the       *)
(* volatility, which keeps what the code's formula is used for: it exists  *)
(* only with a volatility, and at expiry it is the intrinsic value.        *)
(* A candle is [opens, closes, low, high, price].                          *)
(***************************************************************************)
EXTENDS EntrySelection

Scale == 12

(***************************************************************************)
(* Fees: a base rate capped at an eighth of the premium; a combo pays only *)
(* the dearer of its buying and selling side.                              *)
(***************************************************************************)
BaseFee == 3
OptionFee(price, amount) == Lesser(BaseFee, Larger(0, price) \div 8) * Abs(amount)
RoutedFees(buying, selling, route) ==
    IF route = "official-combo" THEN Larger(buying, selling) ELSE buying + selling

(***************************************************************************)
(* Marks.                                                                  *)
(***************************************************************************)
Vwap(rows) == LET total == MapThenSumSet(LAMBDA p : p.amount, rows)
              IN IF total = 0 THEN None
                 ELSE (Scale * MapThenSumSet(LAMBDA p : p.price * p.amount, rows)) \div total

VwapIv(rows) == LET known == {p \in rows : p.iv # None /\ p.iv > 0}
                    total == MapThenSumSet(LAMBDA p : p.amount, known)
                IN IF total = 0 THEN None
                   ELSE (Scale * MapThenSumSet(LAMBDA p : p.iv * p.amount, known)) \div total

IntrinsicPrice(type, index, strike) ==
    IF index <= 0 THEN 0
    ELSE (Scale * Larger(0, IF type = "C" THEN index - strike ELSE strike - index)) \div index

ModelPrice(contract, index, at, iv) ==
    IF iv = None THEN None
    ELSE IntrinsicPrice(contract.type, index, contract.strike)
         + (IF at >= contract.expiry THEN 0 ELSE iv)

SpreadValue(kind, sold, bought) ==
    IF sold = None \/ bought = None THEN None
    ELSE IF kind = "credit" THEN sold - bought ELSE bought - sold

\* Raw and model marks of a normalized spread.
Marks(spread, norm, index, at) ==
    LET Iv(contract, leg) == ModelPrice(contract, index, at, VwapIv(leg.selected))
    IN [raw |-> [sold |-> Vwap(norm.sold.selected), bought |-> Vwap(norm.bought.selected)],
        iv |-> [sold |-> Iv(spread.sold, norm.sold), bought |-> Iv(spread.bought, norm.bought)]]

\* A method's entry: value per contract and opening fees, or None.
EntryLedger(spread, marks, amount, route) ==
    IF SpreadValue(spread.kind, marks.sold, marks.bought) = None THEN None
    ELSE LET value == SpreadValue(spread.kind, marks.sold, marks.bought)
             fees == RoutedFees(OptionFee(marks.bought, amount), OptionFee(marks.sold, amount), route)
         IN [value |-> value, fees |-> fees,
             cash |-> (IF spread.kind = "credit" THEN value ELSE -value) * amount - fees]

EntryNorm(spread, event, mode) ==
    NormalizeSpread(spread.sold, spread.bought, spread.listed, event.at, mode, Windows, "entry")

\* Both methods or neither.
BuildEntryLedgers(spread, event, mode, amount, route) ==
    LET norm == EntryNorm(spread, event, mode)
        marks == Marks(spread, norm, event.price, event.at)
        raw == EntryLedger(spread, marks.raw, amount, route)
        iv == EntryLedger(spread, marks.iv, amount, route)
    IN IF norm.apart = None \/ raw = None \/ iv = None THEN None ELSE [raw |-> raw, iv |-> iv]

(***************************************************************************)
(* The path.                                                               *)
(***************************************************************************)
Quarter == 240    \* path points every four hours, in minutes

LatestCompletedCandle(candles, at) ==
    LET done == {c \in candles : c.closes <= at}
    IN IF done = {} THEN None ELSE CHOOSE c \in done : \A d \in done : d.closes <= c.closes

ValuationTimestamps(entry, expiry, special) ==
    InOrder({t \in {entry, expiry} \cup special
                        \cup {entry + Quarter * k : k \in 1..((expiry - entry) \div Quarter)} :
                     entry <= t /\ t <= expiry}, <)

\* The underlying a point may use: the event's at entry, the official delivery
\* price at expiry, otherwise the last candle completed by then.
IndexEvidence(spread, event, candles, at) ==
    LET candle == LatestCompletedCandle(candles, at)
    IN IF at = event.at THEN [index |-> event.price, source |-> "event-entry-price", from |-> at]
       ELSE IF at = spread.expiry
            THEN IF spread.delivery = None
                 THEN [index |-> None, source |-> "unavailable", from |-> None]
                 ELSE [index |-> spread.delivery, source |-> "deribit-delivery-price", from |-> at]
       ELSE IF candle = None THEN [index |-> None, source |-> "unavailable", from |-> None]
       ELSE [index |-> candle.price, source |-> "completed-candle", from |-> candle.closes]

Pnl(spread, entry, value, amount, fees) ==
    IF entry.value = None \/ entry.fees = None \/ value = None THEN None
    ELSE (IF spread.kind = "credit" THEN entry.value - value ELSE value - entry.value) * amount
         - entry.fees - fees

Captured(spread, entry, value) ==
    IF spread.kind # "credit" \/ entry.value = None \/ value = None THEN None
    ELSE IF entry.value = 0 THEN None ELSE [won |-> entry.value - value, of |-> entry.value]

UnvaluedPoint(at, evidence, source, quality, norm) ==
    [at |-> at, evidence |-> evidence, source |-> source, quality |-> quality,
     raw |-> None, iv |-> None, captured |-> None,
     fallback |-> norm # None /\ (norm.sold.directionFallback \/ norm.bought.directionFallback),
     newest |-> None]

PathPoint(spread, event, candles, mode, amount, route, ledgers, at) ==
    LET evidence == IndexEvidence(spread, event, candles, at)
        norm == NormalizeSpread(spread.sold, spread.bought, spread.listed, at, mode, Windows, "close")
        marks == Marks(spread, norm, evidence.index, at)
        intrinsic == [sold |-> IntrinsicPrice(spread.type, evidence.index, spread.sold.strike),
                      bought |-> IntrinsicPrice(spread.type, evidence.index, spread.bought.strike)]
        settled == SpreadValue(spread.kind, intrinsic.sold, intrinsic.bought)
        ExitFees(m) == RoutedFees(OptionFee(m.sold, amount), OptionFee(m.bought, amount), route)
        Value(m) == SpreadValue(spread.kind, m.sold, m.bought)
        At(method, m) == Pnl(spread, ledgers[method], Value(m), amount,
                             IF Value(m) = None THEN 0 ELSE ExitFees(m))
        capturedIv == Captured(spread, ledgers.iv, Value(marks.iv))
    IN IF at = spread.expiry
       THEN IF evidence.index = None
            THEN UnvaluedPoint(at, evidence, "settlement-data-unavailable", "settlement", None)
            ELSE [at |-> at, evidence |-> evidence, source |-> "settlement",
                  quality |-> "settlement", raw |-> Pnl(spread, ledgers.raw, settled, amount, 0),
                  iv |-> Pnl(spread, ledgers.iv, settled, amount, 0), captured |-> None,
                  fallback |-> FALSE, newest |-> None]
       ELSE IF evidence.index = None
       THEN UnvaluedPoint(at, evidence, "unavailable", "underlying-unavailable", None)
       ELSE IF norm.apart = None
       THEN UnvaluedPoint(at, evidence, "unavailable", "red", norm)
       ELSE [at |-> at, evidence |-> evidence, source |-> "trade-window", quality |-> norm.quality,
             raw |-> At("raw", marks.raw), iv |-> At("iv", marks.iv),
             captured |-> IF capturedIv # None THEN capturedIv
                          ELSE Captured(spread, ledgers.raw, Value(marks.raw)),
             fallback |-> norm.sold.directionFallback \/ norm.bought.directionFallback,
             newest |-> Max({p.at : p \in norm.sold.selected \cup norm.bought.selected})]

Primary(point) == IF point.iv # None THEN point.iv ELSE IF point.raw # None THEN point.raw ELSE 0
Valued == {"trade-window", "settlement"}

\* The points in order, each with the worst and best mark up to it.
BuildValuationPath(spread, event, candles, mode, amount, route, special) ==
    LET times == ValuationTimestamps(event.at, spread.expiry, special)
        both == BuildEntryLedgers(spread, event, mode, amount, route)
        marks == Marks(spread, EntryNorm(spread, event, mode), event.price, event.at)
        \* A method's entry value stands without its ledger; its fees do not.
        Entry(m, method) == [value |-> SpreadValue(spread.kind, m.sold, m.bought),
                             fees |-> IF both = None THEN None ELSE both[method].fees]
        ledgers == [raw |-> Entry(marks.raw, "raw"), iv |-> Entry(marks.iv, "iv")]
        points == [k \in DOMAIN times |->
                      PathPoint(spread, event, candles, mode, amount, route, ledgers, times[k])]
        UpTo(k) == {0} \cup {Primary(points[j]) : j \in {i \in 1..k : points[i].source \in Valued}}
    IN [k \in DOMAIN points |->
           points[k] @@ [adverse |-> Min(UpTo(k)), favorable |-> Max(UpTo(k))]]

\* Marks of an executed entry: both legs filled, anchored to its cash flow.
BuildExecutedValuationPath(spread, candles, entry, special) ==
    LET start == Larger(entry.soldAt, entry.boughtAt)
        times == ValuationTimestamps(start, spread.expiry, special)
        Mark(at) ==
            LET settlement == at = spread.expiry
                candle == LatestCompletedCandle(candles, at)
                index == IF settlement THEN spread.delivery
                         ELSE IF candle = None THEN None ELSE candle.price
                norm == NormalizeSpread(spread.sold, spread.bought, spread.listed, at, "taker",
                                        Windows, "close")
                marks == IF settlement
                         THEN LET m == [sold |-> IntrinsicPrice(spread.type, index, spread.sold.strike),
                                        bought |-> IntrinsicPrice(spread.type, index, spread.bought.strike)]
                              IN [raw |-> m, iv |-> m]
                         ELSE Marks(spread, norm, index, at)
                Pnl2(m) == IF m.sold = None \/ m.bought = None THEN None
                           ELSE entry.cash + (m.bought - m.sold) * entry.amount
                                - (IF settlement THEN 0
                                   ELSE RoutedFees(OptionFee(m.sold, entry.amount),
                                                   OptionFee(m.bought, entry.amount), entry.route))
            IN IF index = None \/ (~settlement /\ norm.apart = None)
               THEN [at |-> at, role |-> "not-executed", raw |-> None, iv |-> None]
               ELSE [at |-> at, role |-> "diagnostic-mark",
                     raw |-> Pnl2(marks.raw), iv |-> Pnl2(marks.iv)]
    IN [k \in DOMAIN times |-> Mark(times[k])]

(***************************************************************************)
(* Exits.                                                                  *)
(***************************************************************************)
\* The first candle, opened at or after a time, that trades through a price.
FirstTouch(candles, price, after) ==
    LET hit == {c \in candles : c.opens >= after /\ c.low <= price /\ price <= c.high}
    IN IF hit = {} THEN None ELSE CHOOSE c \in hit : \A d \in hit : c.opens <= d.opens

\* Every fourth hourly candle from the entry closes a four-hour one.
FirstInvalidationClose(candles, event) ==
    LET ordered == InOrder({c \in candles : c.opens >= event.at},
                                LAMBDA c, d : c.opens < d.opens)
        broken == {k \in DOMAIN ordered :
                      /\ k % 4 = 0
                      /\ IF event.direction = "long" THEN ordered[k].price < event.invalidation
                         ELSE ordered[k].price > event.invalidation}
    IN IF event.invalidation = None \/ broken = {} THEN None ELSE ordered[Min(broken)]

\* A mark an exit may be valued at: observed on the closing side, of the right
\* direction, and from nothing later than itself.
Causal(point) ==
    /\ point.source = "trade-window" /\ point.quality # "red" /\ ~point.fallback
    /\ point.evidence.source # "unavailable"
    /\ point.evidence.from # None /\ point.evidence.from <= point.at
    /\ point.newest = None \/ point.newest <= point.at

FirstPoint(path, Test(_)) ==
    LET found == {k \in DOMAIN path : Test(path[k])} IN IF found = {} THEN None ELSE path[Min(found)]

FirstCausalPathPoint(path, at) ==
    FirstPoint(path, LAMBDA p : p.at >= at /\ p.raw # None /\ p.iv # None /\ Causal(p))

ToExit(rule, point, trigger) ==
    [rule |-> rule, trigger |-> trigger,
     status |-> IF point = None THEN "unavailable" ELSE "hit",
     at |-> IF point = None THEN None ELSE point.at,
     raw |-> IF point = None THEN None ELSE point.raw,
     iv |-> IF point = None THEN None ELSE point.iv]

NoExit(rule, status) == [rule |-> rule, trigger |-> None, status |-> status,
                         at |-> None, raw |-> None, iv |-> None]

EvaluateExits(path, spread, event, candles, day) ==
    LET touch == FirstTouch(candles, event.vpoc, event.at)
        broken == FirstInvalidationClose(candles, event)
        Capture(rule, tenths) ==
            LET point == FirstPoint(path, LAMBDA p : /\ Causal(p) /\ p.captured # None
                                                     /\ IF p.captured.of > 0
                                                        THEN 10 * p.captured.won >= tenths * p.captured.of
                                                        ELSE 10 * p.captured.won <= tenths * p.captured.of)
            IN IF spread.kind # "credit" THEN NoExit(rule, "unavailable")
               ELSE IF point = None THEN NoExit(rule, "not-hit") ELSE ToExit(rule, point, point.at)
        Fixed(rule, days) ==
            LET due == event.at + days * day
            IN IF due > spread.expiry THEN [NoExit(rule, "unavailable") EXCEPT !.trigger = due]
               ELSE ToExit(rule, FirstCausalPathPoint(path, due), due)
        Settlement == FirstPoint(path, LAMBDA p : p.source = "settlement")
    IN IF path = <<>> THEN {}
       ELSE {IF event.vpoc = None THEN NoExit("VPOC hit", "unavailable")
             ELSE IF touch = None THEN NoExit("VPOC hit", "not-hit")
             ELSE ToExit("VPOC hit", FirstCausalPathPoint(path, touch.closes), touch.closes),
             Capture("50% credit", 5), Capture("70% credit", 7),
             Fixed("3D fixed", 3), Fixed("5D fixed", 5), Fixed("7D fixed", 7), Fixed("14D fixed", 14),
             IF broken = None THEN NoExit("4H invalidation", "not-hit")
             ELSE ToExit("4H invalidation", FirstCausalPathPoint(path, broken.closes), broken.closes),
             ToExit("Expiry", Settlement, spread.expiry)}
=============================================================================
