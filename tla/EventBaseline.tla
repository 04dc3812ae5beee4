---------------------------- MODULE EventBaseline ----------------------------
(***************************************************************************)
(* When an event's outcomes are known, and the perpetual baseline built    *)
(* from those decisions.                                                   *)
(*                                                                         *)
(* An event is [at, direction, target, vpoc, invalidation, latency, losses]*)
(* with None for what it does not have; a candle is [opens, closes, low,   *)
(* high], its close one short of the next open.  A market is [points,      *)
(* interval, funding, fee, trades]: the points [at, open, close] of the    *)
(* perpetual, the interval its retrieval recorded and the rate of each     *)
(* funded hour.  Prices are integers and fees hundredths of one.           *)
(***************************************************************************)
EXTENDS MarketEvidence

HourLength == 60
DayLength == 1440

SmallestGap(times) ==
    LET gaps == {x[2] - x[1] : x \in {y \in times \X times : y[1] < y[2]}}
    IN IF gaps = {} THEN HourLength ELSE Min(gaps)

(***************************************************************************)
(* Timing.  Both outcomes are ordered as the candles their decisions land  *)
(* in, so neither has a head start within one.                             *)
(***************************************************************************)
Breaches(event, c) ==
    IF event.direction = "long" THEN c.low <= event.invalidation ELSE c.high >= event.invalidation

SequenceByKnowledge(vpocCandle, breach) ==
    CASE vpocCandle = None /\ breach = None -> "unresolved"
      [] vpocCandle # None /\ breach = None -> "vpoc_first"
      [] vpocCandle = None /\ breach # None -> "invalidation_first"
      [] vpocCandle # None /\ breach # None ->
             IF vpocCandle < breach.closes THEN "vpoc_first" ELSE "invalidation_first"
SequenceOf(vpocCandle, breach) ==
    CASE vpocCandle = None /\ breach = None -> "unresolved"
      [] vpocCandle # None /\ breach = None -> "vpoc_first"
      [] vpocCandle = None /\ breach # None -> "invalidation_first"
      [] vpocCandle # None /\ breach # None ->
             CASE vpocCandle = breach.opens -> "ambiguous"
               [] vpocCandle < breach.opens -> "vpoc_first"
               [] vpocCandle > breach.opens -> "invalidation_first"

ResolveEventTiming(event, candles) ==
    LET breaching == IF event.at = None \/ event.invalidation = None THEN {}
                     ELSE {c \in candles : c.opens >= event.at /\ Breaches(event, c)}
        breach == IF breaching = {} THEN None ELSE FirstBy(breaching, LAMBDA c : <<c.opens>>)
        around == {c \in candles : c.opens <= event.vpoc /\ event.vpoc <= c.closes}
        unit == SmallestGap({c.opens : c \in candles})
        vpocCandle == IF event.vpoc = None THEN None
                      ELSE IF around # {} THEN Min({c.opens : c \in around})
                      ELSE (event.vpoc \div unit) * unit
    IN [at |-> event.at, unit |-> unit,
        target |-> CASE event.vpoc # None -> "reached"
                     [] event.vpoc = None /\ event.target # None -> "not_reached"
                     [] event.vpoc = None /\ event.target = None -> "not_configured",
        vpoc |-> IF event.vpoc = None THEN None ELSE event.vpoc + HourLength,
        trigger |-> IF breach = None THEN None ELSE breach.opens,
        breach |-> IF breach = None THEN None ELSE breach.closes,
        ends |-> IF candles = {} THEN event.at ELSE Max({c.closes : c \in candles}),
        sequence |-> SequenceOf(vpocCandle, breach)]

(***************************************************************************)
(* The baseline.  A decision is filled at the first bar within one         *)
(* interval of it, never at an earlier bar carried forward.                *)
(***************************************************************************)
FuturesPolicies == {"vpoc", "invalidation", "fixed_3d", "fixed_5d", "fixed_7d"}

ObserveAtOrAfter(points, decision, interval) ==
    LET after == {p \in points : p.at >= decision}
        first == FirstBy(after, LAMBDA p : <<p.at>>)
    IN IF after = {} THEN None ELSE IF first.at - decision >= interval THEN None ELSE first

FillPrice(point) == IF point.open # None THEN point.open ELSE point.close

\* A policy's decision, and whether its target was reached, not reached or never set.
Decision(timing, event, order, policy) ==
    LET Level(decision, configured) ==
            [decision |-> decision,
             outcome |-> IF decision # None THEN "reached"
                         ELSE IF configured THEN "not_reached" ELSE "not_configured"]
        Days(n) == [decision |-> order + n * DayLength, outcome |-> "reached"]
    IN CASE policy = "vpoc" -> Level(timing.vpoc, timing.target = "not_reached")
         [] policy = "invalidation" -> Level(timing.breach, event.invalidation # None)
         [] policy = "fixed_3d" -> Days(3)
         [] policy = "fixed_5d" -> Days(5)
         [] policy = "fixed_7d" -> Days(7)

Endpoint(timing, event, order, points, entry, interval, policy) ==
    LET d == Decision(timing, event, order, policy)
        point == IF d.decision = None THEN None
                 ELSE IF d.decision < entry.at THEN None
                 ELSE ObserveAtOrAfter(points, d.decision, interval)
    IN [decision |-> d.decision, outcome |-> d.outcome, point |-> point,
        status |-> IF point # None THEN "available"
                   ELSE IF d.outcome = "reached" THEN "unavailable" ELSE d.outcome]

\* Funding of the hours held, each at its own bar; one unknown hour leaves it unknown.
HoursHeld(entry, exit) ==
    {h \in (entry.at \div HourLength)..(exit.at \div HourLength) :
        h > entry.at \div HourLength /\ h * HourLength <= exit.at}

Funding(market, sign, entry, exit) ==
    LET hours == HoursHeld(entry, exit)
        BarAt(h) == CHOOSE p \in market.points : p.at = h * HourLength
        known == {h \in hours : /\ \E f \in market.funding : f.at = h * HourLength
                                /\ \E p \in market.points : p.at = h * HourLength}
        RateAt(h) == (CHOOSE f \in market.funding : f.at = h * HourLength).rate
    IN CASE exit = None -> [status |-> "not_evaluated", paid |-> None]
         [] exit # None /\ market.funding = None -> [status |-> "unavailable", paid |-> None]
         [] exit # None /\ market.funding # None ->
                IF known = hours
                THEN [status |-> "available",
                      paid |-> -sign * MapThenSumSet(LAMBDA h : FillPrice(BarAt(h)) * RateAt(h), hours)]
                ELSE [status |-> IF known = {} THEN "unavailable" ELSE "partial", paid |-> None]

\* The dollar budget of the structure that can lose most, over the risk of one unit.
EqualRiskFuturesQuantity(budget, risk) ==
    IF budget = None \/ risk = None THEN None
    ELSE IF budget <= 0 \/ risk <= 0 THEN None ELSE [of |-> budget, per |-> risk]

NoBaseline(reason) == [status |-> "unavailable", reason |-> reason]

BuildEventFuturesBaseline(event, candles, market, policy) ==
    LET timing == ResolveEventTiming(event, candles)
        order == event.at + event.latency
        points == {p \in market.points : p.close > 0}
        interval == IF market.interval = None THEN SmallestGap({p.at : p \in points}) ELSE market.interval
        sign == IF event.direction = "long" THEN 1 ELSE -1
        entry == ObserveAtOrAfter(points, order, interval)
        ends == [p \in FuturesPolicies |-> Endpoint(timing, event, order, points, entry, interval, p)]
        exit == ends[policy].point
        bought == FillPrice(entry)
        sold == FillPrice(exit)
        gross == IF exit = None THEN None ELSE sign * (sold - bought)
        fees == IF exit = None \/ market.fee = None THEN None ELSE (bought + sold) * market.fee
        before == IF gross = None \/ fees = None THEN None ELSE 100 * gross - fees
        funding == Funding([market EXCEPT !.points = points], sign, entry, exit)
        terminus == IF exit # None THEN exit.at ELSE Max({p.at : p \in points})
        risk == IF event.invalidation = None THEN None ELSE Abs(bought - event.invalidation)
        traded == {t \in market.trades : /\ t.at >= order
                                         /\ t.dir = (IF event.direction = "long" THEN "buy" ELSE "sell")}
        budget == IF \A x \in event.losses : x <= 0 THEN None ELSE Max(event.losses)
    IN CASE event.at = None -> NoBaseline("futures_entry_observation_unavailable")
         [] event.at # None /\ points = {} -> NoBaseline("futures_reference_series_unavailable")
         [] event.at # None /\ points # {} /\ event.direction = None ->
                NoBaseline("futures_direction_unavailable")
         [] event.at # None /\ points # {} /\ event.direction # None ->
                IF entry = None THEN NoBaseline("futures_entry_observation_unavailable")
                ELSE [status |-> "available", entry |-> entry, bought |-> bought, ends |-> ends,
                      exit |-> exit, gross |-> gross, fees |-> fees, before |-> before, funding |-> funding,
                      after |-> IF before = None \/ funding.status # "available" THEN None
                                ELSE before + funding.paid,
                      observed |-> IF traded = {} THEN None
                                   ELSE FirstBy(traded, LAMBDA t : <<t.at>>).at,
                      ordering |-> IF timing.sequence = "ambiguous" THEN "ambiguous" ELSE "ordered",
                      quantity |-> EqualRiskFuturesQuantity(budget, risk),
                      path |-> [t \in {p.at : p \in {x \in points : entry.at <= x.at /\ x.at <= terminus}} |->
                                   sign * (FillPrice(CHOOSE p \in points : p.at = t) - bought)]]

(***************************************************************************)
(* The status an outcome keeps when it is exported, and the time a track   *)
(* held it from its own entry.                                             *)
(***************************************************************************)
OutcomeSourceStatus(snapshot) ==
    IF snapshot = None THEN "absent"
    ELSE IF snapshot.status \in {"estimated", "not-hit"} THEN snapshot.status ELSE "unavailable"

OutcomeTriggerStatus(snapshot, expiry) ==
    IF snapshot = None THEN "unavailable"
    ELSE CASE snapshot.status = "not-hit" -> "not_reached"
           [] snapshot.status # "not-hit" ->
                  IF snapshot.due # None /\ snapshot.due > expiry THEN "after_expiry"
                  ELSE IF snapshot.ambiguous THEN "ambiguous"
                  ELSE IF snapshot.due = None THEN "unavailable" ELSE "reached"

OutcomeHoldingHours(reached, entry, valued, decided, expiry) ==
    LET closes == IF valued # None THEN valued ELSE decided
    IN IF ~reached \/ entry = None \/ closes = None THEN None
       ELSE IF closes < entry THEN None
       ELSE IF expiry # None /\ closes > expiry THEN None
       ELSE closes - entry
=============================================================================
