-------------------------- MODULE ResearchValuation --------------------------
(***************************************************************************)
(* The research valuation of a spread: its theoretical entry from the      *)
(* reference hierarchy, its maker and its taker entry from the tape, the   *)
(* marks along its life, its outcomes, and both at another size.           *)
(*                                                                         *)
(* A leg is [name, type, strike, expiry, prints]; a spread is [sold,       *)
(* bought, ready, section, expiry, delivery, official], the section being  *)
(* the tape of its whole expiry.  Prices are as in TradeValuation, rounded *)
(* down; an option before its expiry is worth its intrinsic value at the   *)
(* forward and a time value that grows with the variance.                  *)
(***************************************************************************)
EXTENDS TradeValuation, VolatilitySurface

ResearchWindows == <<30, 60, 120>>
CloseWindow == 120
LegGap == 60

InverseOptionPrice(leg, index, at, base, variance) ==
    CASE index <= 0 -> None
      [] index > 0 /\ at >= leg.expiry -> IntrinsicPrice(leg.type, index, leg.strike)
      [] index > 0 /\ at < leg.expiry ->
             IntrinsicPrice(leg.type, IF base = None THEN 2 * index ELSE base, 2 * leg.strike)
             + (Scale * variance.n) \div variance.d

(***************************************************************************)
(* The index of a point: a candle that opens or closes then, the candle    *)
(* around it, or one that ended no more than its own length before.        *)
(***************************************************************************)
ResolveUnderlyingIndex(candles, at) ==
    LET touching == {c \in candles : at \in {c.opens, c.closes}}
        around == {c \in candles : c.opens <= at /\ at < c.closes}
        done == {c \in candles : c.closes <= at}
        latest == FirstBy(done, LAMBDA c : <<-c.opens>>)
        FromFirst(S) == FirstBy(S, LAMBDA c : <<c.opens>>).price
    IN CASE touching # {} -> FromFirst(touching)
         [] touching = {} /\ around # {} -> FromFirst(around)
         [] touching = {} /\ around = {} ->
                IF done = {} THEN None
                ELSE IF at - latest.closes <= latest.closes - latest.opens THEN latest.price ELSE None

(***************************************************************************)
(* Anchors: prints of the leg itself, of the last twelve hours.  Of two    *)
(* legs the latest that have a counterpart within the gap.                 *)
(***************************************************************************)
UndatedAnchor(p, at) == at - p.at <= AnchorMaxAge /\ p.iv # None /\ p.iv > 0 /\ p.index > 0
AnchorPrint(p, at) ==
    p.at <= at /\ at - p.at <= AnchorMaxAge /\ p.iv # None /\ p.iv > 0 /\ p.index > 0
CausalAnchors(leg, at) == {p \in leg.prints : p.name = leg.name /\ AnchorPrint(p, at)}

LatestAnchor(anchors) == IF anchors = {} THEN None ELSE FirstBy(anchors, LAMBDA p : <<-p.at, p.id>>)
SelectIvAnchor(leg, at) == LatestAnchor(CausalAnchors(leg, at))

SelectSynchronizedIvAnchors(short, long, at, gap) ==
    LET S == CausalAnchors(short, at)
        L == CausalAnchors(long, at)
        Near2(p, q) == Abs(p.at - q.at) <= gap
        paired == {p \in S : \E q \in L : Near2(p, q)}
    IN IF paired = {} THEN None
       ELSE [short |-> LatestAnchor(paired), long |-> LatestAnchor({q \in L : \E p \in S : Near2(p, q)})]

(***************************************************************************)
(* The legs of a valuation.  What a model leg rests on, its evidence, is   *)
(* [at, variance, amount].                                                 *)
(***************************************************************************)
FromPrint(p) == IF p = None THEN None
                ELSE [at |-> p.at, variance |-> Squared(Frac(p.iv, 1)), amount |-> p.amount]
FromReference(r) == [at |-> r.at, variance |-> r.variance, amount |-> 0]

WithSlippage(side, price, bps) == Slipped(IF side = "sold" THEN "sell" ELSE "buy", price, bps) \div 10000

DirectLeg(leg, fill, amount) ==
    IF fill.status # "filled" THEN None
    ELSE [name |-> leg.name, price |-> (Scale * fill.price) \div (10000 * amount),
          source |-> "direct-vwap", observed |-> fill.filled, model |-> None]

Reconstructed(leg, side, price, bps, evidence) ==
    IF price = None THEN None
    ELSE [name |-> leg.name, price |-> WithSlippage(side, price, bps), source |-> "model-reconstructed",
          observed |-> evidence.amount, model |-> evidence]

ModelLeg(leg, at, index, side, bps, evidence) ==
    IF evidence = None THEN None ELSE IF evidence.at > at THEN None
    ELSE Reconstructed(leg, side, InverseOptionPrice(leg, index, at, None, evidence.variance), bps, evidence)

ModelLegFromIv(leg, at, index, side, bps, evidence, base) ==
    IF base = None \/ evidence.at > at \/ at >= leg.expiry THEN None
    ELSE Reconstructed(leg, side, InverseOptionPrice(leg, index, at, base, evidence.variance), bps, evidence)

\* A fill keeps, as a memo, the anchor a model would have used.
RetainModelAnchor(direct, leg, at, index) ==
    LET modeled == ModelLeg(leg, at, index, "sold", 0, FromPrint(SelectIvAnchor(leg, at)))
    IN IF direct = None \/ modeled = None THEN direct ELSE [direct EXCEPT !.model = modeled.model]

Fees(sold, bought, amount, route) ==
    RoutedFees(OptionFee(bought.price, amount), OptionFee(sold.price, amount), route)

Assemble(sold, bought, amount, route, index, quality) ==
    LET fees == Fees(sold, bought, amount, route)
        per == sold.price - bought.price
        direct == sold.source = "direct-vwap" /\ bought.source = "direct-vwap"
    IN [status |-> "priced", sold |-> sold, bought |-> bought, amount |-> amount, per |-> per,
        gross |-> per * amount, fees |-> fees, net |-> per * amount - fees, index |-> index,
        source |-> IF direct THEN "direct-vwap" ELSE "model-reconstructed", quality |-> quality,
        observed |-> Lesser(sold.observed, bought.observed), completed |-> None]

Refused(reason) == [status |-> "unavailable", reason |-> reason]
Resolved(spread) == spread.sold # None /\ spread.bought # None /\ spread.ready
CreditOr(reason, estimate) == IF estimate.per > 0 THEN estimate ELSE Refused(reason)

(***************************************************************************)
(* The entry of one execution mode.  A request is [spread, at, index,      *)
(* amount, bps, route, order, window, sync]; without a window the three    *)
(* are tried in turn.  A short fill refuses; only an empty tape is         *)
(* reconstructed from anchors, and then never better than red.             *)
(***************************************************************************)
EstimateResearchSpread(q, mode) ==
    LET s == q.spread
        tried == IF q.window = None THEN ResearchWindows ELSE <<q.window>>
        Try(w) == ExecuteHistoricalSpread(s, "open", mode, q.order, w, q.amount, q.sync, q.bps)
        done == {k \in DOMAIN tried : Try(tried[k]).status # "no-trade"}
        first == Try(tried[Min(done)])
        last == Try(tried[Len(tried)])
        Direct(leg, fill) == RetainModelAnchor(DirectLeg(leg, fill, q.amount), leg, q.at, q.index)
        quality == IF tried[Min(done)] = 30 /\ Abs(first.sold.at - first.bought.at) <= 30
                   THEN "green" ELSE "yellow"
        pair == SelectSynchronizedIvAnchors(s.sold, s.bought, q.at, q.sync)
        sold == ModelLeg(s.sold, q.at, q.index, "sold", q.bps, FromPrint(pair.short))
        bought == ModelLeg(s.bought, q.at, q.index, "bought", q.bps, FromPrint(pair.long))
    IN CASE q.amount <= 0 \/ q.bps < 0 \/ q.index <= 0 -> Refused("invalid-inputs")
         [] ~Resolved(s) -> Refused("exact-contract-unresolved")
         [] OTHER ->
            IF done # {}
            THEN CreditOr("no-credit",
                   [Assemble(Direct(s.sold, first.sold), Direct(s.bought, first.bought), q.amount,
                             q.route, q.index, quality) EXCEPT !.completed = first.completed])
            ELSE IF last.sold.filled > 0 \/ last.bought.filled > 0
            THEN Refused("insufficient-compatible-amount")
            ELSE IF pair = None THEN Refused("no-anchor-pair")
            ELSE IF sold = None \/ bought = None THEN Refused("no-anchor")
            ELSE CreditOr("no-credit", Assemble(sold, bought, q.amount, q.route, q.index, "red"))

(***************************************************************************)
(* The theoretical entry.  One forward for both legs, a smile of its own   *)
(* for each; if the two disagree on when the market was, a pair of anchors *)
(* that does not.                                                          *)
(***************************************************************************)
MarketState(spread, at, index) ==
    BuildReferenceCrossSection(spread.section, spread.sold.expiry, at, index, {}, MarketIvMaxAge)
LegSection(spread, state, leg, at, index) ==
    IF spread.section = <<>> THEN None
    ELSE [BuildReferenceCrossSection(spread.section, spread.sold.expiry, at, index, {leg.name},
                                     MarketIvMaxAge)
             EXCEPT !.base = state.base, !.evidence = state.evidence]
LegReferenceAt(spread, state, leg, at, index, anchor) ==
    ValueReferenceLeg([strike |-> leg.strike, expiry |-> leg.expiry], at,
                      LegSection(spread, state, leg, at, index), anchor, RuleC)

EstimateModelSpread(q) ==
    LET s == q.spread
        state == MarketState(s, q.at, q.index)
        base == IF s.section = <<>> THEN None ELSE state.base
        Own(leg) == LegReferenceAt(s, state, leg, q.at, q.index, SelectIvAnchor(leg, q.at))
        short == Own(s.sold)
        long == Own(s.bought)
        together == ReferenceLegsAreSynchronized(short, long, q.sync)
        pair == SelectSynchronizedIvAnchors(s.sold, s.bought, q.at, q.sync)
        Leg(leg, side, own, anchor) ==
            ModelLegFromIv(leg, q.at, q.index, side, q.bps,
                           IF together THEN FromReference(own) ELSE FromPrint(anchor), base)
        sold == Leg(s.sold, "sold", short, pair.short)
        bought == Leg(s.bought, "bought", long, pair.long)
        With(e) == [estimate |-> e, short |-> short, long |-> long,
                    fallback |-> ~together /\ pair # None]
        Without(reason) == [With(Refused(reason)) EXCEPT !.fallback = FALSE]
    IN CASE ~Resolved(s) -> [estimate |-> Refused("exact-contract-unresolved"), short |-> None,
                             long |-> None, fallback |-> FALSE]
         [] Resolved(s) ->
            IF q.at < s.sold.expiry /\ base = None THEN Without("causal-expiry-forward-unavailable")
            ELSE IF short.variance = None \/ long.variance = None
            THEN Without("reference-evidence-unavailable")
            ELSE IF ~together /\ pair = None THEN Without("causal-iv-anchor-pair-unavailable")
            ELSE IF sold = None \/ bought = None THEN With(Refused("model-input-invalid"))
            ELSE With(CreditOr("model-non-credit",
                               Assemble(sold, bought, q.amount, "synchronized-leg-proxy", q.index, "red")))

ReferenceValuationSourceOf(v) ==
    CASE v.short = None -> IF v.estimate.status = "priced" THEN "local_iv_interpolation" ELSE "unavailable"
      [] v.short # None /\ v.fallback -> "local_iv_anchor"
      [] v.short # None /\ ~v.fallback ->
             LET sources == {v.short.source, v.long.source}
             IN IF "unavailable" \in sources THEN "unavailable"
                ELSE IF sources = {"same_expiry_linear_interpolation"}
                     THEN "same_expiry_linear_interpolation" ELSE "local_iv_anchor"

\* Construction, theory, maker tape and taker tape, none inferred from another.
ExecutionLayer(q, mode) ==
    LET e == EstimateResearchSpread([q EXCEPT !.window = IF @ = None THEN CloseWindow ELSE @], mode)
    IN IF e.status = "priced" /\ e.source # "direct-vwap" THEN Refused("raw-vwap-unavailable") ELSE e
EvaluateResearchEntryLayers(q) ==
    [structural |-> IF Resolved(q.spread) THEN "resolved" ELSE "unresolved",
     model |-> EstimateModelSpread(q),
     maker |-> ExecutionLayer(q, "maker"), taker |-> ExecutionLayer(q, "taker")]

(***************************************************************************)
(* Marks along the life of an entry.  Closing buys the short leg back and  *)
(* sells the long one.                                                     *)
(***************************************************************************)
Unmarked(reason) == [estimate |-> None, source |-> "unavailable", reason |-> reason]

\* Both legs interpolated at the point, else a synchronized pair, else the entry's
\* own pair of anchors; never one leg of each.
ModelMark(s, at, index, entry, bps, route) ==
    LET expired == at = s.sold.expiry
        state == MarketState(s, at, index)
        base == IF expired \/ s.section = <<>> THEN None ELSE state.base
        short == LegReferenceAt(s, state, s.sold, at, index, None)
        long == LegReferenceAt(s, state, s.bought, at, index, None)
        smile == /\ base # None
                 /\ {short.source, long.source} = {"same_expiry_linear_interpolation"}
        pair == SelectSynchronizedIvAnchors(s.sold, s.bought, at, LegGap)
        memo == <<entry.sold.model, entry.bought.model>>
        kept == /\ None \notin {memo[1], memo[2]}
                /\ Abs(memo[1].at - memo[2].at) <= LegGap /\ memo[1].at <= at /\ memo[2].at <= at
        evidence == CASE smile -> <<FromReference(short), FromReference(long)>>
                      [] ~smile /\ pair # None -> <<FromPrint(pair.short), FromPrint(pair.long)>>
                      [] ~smile /\ pair = None -> IF kept THEN memo ELSE None
        source == CASE smile -> "same-expiry-interpolation"
                    [] ~smile /\ expired -> "intrinsic-at-expiry"
                    [] ~smile /\ ~expired -> IF pair # None THEN "local-observed-IV" ELSE "constant-entry-IV"
        Leg(leg, side, e) == IF expired THEN ModelLeg(leg, at, index, side, bps, e)
                             ELSE ModelLegFromIv(leg, at, index, side, bps, e, base)
        sold == Leg(s.sold, "bought", evidence[1])
        bought == Leg(s.bought, "sold", evidence[2])
    IN IF at > s.sold.expiry THEN Unmarked("after-expiry")
       ELSE IF evidence = None THEN Unmarked("missing-entry-iv")
       ELSE IF sold = None \/ bought = None THEN Unmarked("model-input-invalid")
       ELSE [estimate |-> Assemble(sold, bought, entry.amount, route, index, "red"),
             source |-> source, reason |-> None]

Missing(at, index, reason) ==
    [at |-> at, status |-> "missing", index |-> index, raw |-> None, model |-> None, source |-> "unavailable",
     reason |-> reason, value |-> None, fees |-> None, pnl |-> None, rawPnl |-> None]
Primary2(point) == IF point.raw # None THEN point.raw ELSE point.model
ClosingValue(estimate) == estimate.bought.price - estimate.sold.price

EstimatedPoint(s, candles, entry, mode, bps, route, at) ==
    LET index == IF at = s.expiry /\ s.delivery # None THEN s.delivery ELSE ResolveUnderlyingIndex(candles, at)
        mark == ModelMark(s, at, index, entry, bps, route)
        model == mark.estimate
        closed == ExecuteHistoricalSpread(s, "close", mode, at, CloseWindow, entry.amount, LegGap, bps)
        quality == IF Abs(closed.sold.at - closed.bought.at) <= 30 THEN "green" ELSE "yellow"
        raw == IF closed.status = "no-trade" THEN None
               ELSE [Assemble(DirectLeg(s.sold, closed.sold, entry.amount),
                              DirectLeg(s.bought, closed.bought, entry.amount),
                              entry.amount, route, index, quality) EXCEPT !.completed = closed.completed]
        Pnl2(e) == entry.net + ClosingValue(e) * entry.amount - e.fees
    IN IF index = None THEN Missing(at, None, "missing-target-index")
       ELSE IF raw = None /\ model = None THEN Missing(at, index, mark.reason)
       ELSE [at |-> at, status |-> "priced", index |-> index, raw |-> raw, model |-> model,
             source |-> mark.source, reason |-> None,
             value |-> IF model = None THEN None ELSE ClosingValue(model),
             fees |-> IF model = None THEN None ELSE model.fees,
             pnl |-> IF model = None THEN None ELSE Pnl2(model),
             rawPnl |-> IF raw = None THEN None ELSE Pnl2(raw)]

BuildEstimatedPath(s, times, candles, entry, mode, bps, route) ==
    LET ordered == InOrder({t \in times : t <= s.expiry}, <)
    IN [k \in DOMAIN ordered |-> EstimatedPoint(s, candles, entry, mode, bps, route, ordered[k])]

(***************************************************************************)
(* Outcomes, each valued at the first point at or after its trigger.       *)
(***************************************************************************)
NoOutcome(label, due, at) ==
    [label |-> label, due |-> due, at |-> at, status |-> "unavailable", pnl |-> None, fees |-> None,
     index |-> None]

ResearchOutcomeAt(label, due, path) ==
    LET after == {k \in DOMAIN path : path[k].at >= due}
        point == path[Min(after)]
    IN IF due = None THEN NoOutcome(label, None, None)
       ELSE IF after = {} THEN NoOutcome(label, due, None)
       ELSE IF point.pnl = None THEN NoOutcome(label, due, point.at)
       ELSE [label |-> label, due |-> due, at |-> point.at, status |-> "estimated", pnl |-> point.pnl,
             fees |-> Primary2(point).fees, index |-> point.index]

CompletedCandleTrigger(hit, after) ==
    LET later == {t \in {c.closes : c \in hit} : t > after}
    IN IF later = {} THEN None ELSE Min(later)

DeliveryFee(intrinsic, amount) == Lesser(BaseFee \div 2, intrinsic \div 8) * amount

\* The payoff of the entry at the official delivery price of its own expiry.
Settled(s, entry) ==
    LET short == IntrinsicPrice(s.sold.type, s.delivery, s.sold.strike)
        long == IntrinsicPrice(s.bought.type, s.delivery, s.bought.strike)
        fees == DeliveryFee(short, entry.amount) + DeliveryFee(long, entry.amount)
    IN [label |-> "Settlement", due |-> s.expiry, at |-> s.expiry, status |-> "estimated",
        pnl |-> entry.net + (long - short) * entry.amount - fees, fees |-> fees, index |-> s.delivery]
OfficialDelivery(s) ==
    s.sold.expiry = s.expiry /\ s.bought.expiry = s.expiry /\ s.delivery # None /\ s.official

BuildResearchOutcomes(event, s, start, entry, path, candles, day) ==
    LET Capture(label, percent) ==
            LET won == {k \in DOMAIN path :
                           /\ path[k].pnl # None /\ entry.gross > 0
                           /\ 100 * (entry.gross + ClosingValue(Primary2(path[k])) * entry.amount)
                                  >= percent * entry.gross}
            IN ResearchOutcomeAt(label, IF won = {} THEN None ELSE path[Min(won)].at, path)
        Fixed2(label, days) ==
            IF start + days * day > s.expiry THEN NoOutcome(label, start + days * day, None)
            ELSE ResearchOutcomeAt(label, start + days * day, path)
        broken == IF event.invalidation = None THEN None
                  ELSE CompletedCandleTrigger({c \in candles : IF event.direction = "long"
                                                                  THEN c.price < event.invalidation
                                                                  ELSE c.price > event.invalidation}, start)
    IN {ResearchOutcomeAt("VPOC", event.vpoc, path), Capture("25% credit", 25),
        Capture("50% credit", 50), Capture("70% credit", 70), Fixed2("3D", 3), Fixed2("5D", 5),
        Fixed2("7D", 7), ResearchOutcomeAt("Invalidation", broken, path),
        IF OfficialDelivery(s) THEN Settled(s, entry) ELSE NoOutcome("Settlement", s.expiry, None)}

(***************************************************************************)
(* The same entry and path at another size.                                *)
(***************************************************************************)
ScaleResearchEstimate(e, amount, route) ==
    LET fees == Fees(e.sold, e.bought, amount, route)
    IN [e EXCEPT !.amount = amount, !.gross = e.per * amount, !.fees = fees,
                 !.net = e.per * amount - fees]

ScaleResearchPath(path, entry, amount, route) ==
    LET Scaled(point) ==
            LET mark == ScaleResearchEstimate(Primary2(point), amount, route)
                per == IF point.value = None THEN ClosingValue(mark) ELSE point.value
            IN IF point.status # "priced" THEN [point EXCEPT !.pnl = None]
               ELSE [point EXCEPT
                        !.raw = IF @ = None THEN None ELSE mark,
                        !.model = IF @ = None THEN None ELSE mark,
                        !.fees = mark.fees,
                        !.pnl = ScaleResearchEstimate(entry, amount, route).net + per * amount - mark.fees]
    IN [k \in DOMAIN path |-> Scaled(path[k])]
=============================================================================
