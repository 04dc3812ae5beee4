--------------------------- MODULE MarketEvidence ---------------------------
(***************************************************************************)
(* Market volatility at a moment: what counts as evidence, the reference   *)
(* series, its percentile, realized volatility, and the states of an event *)
(* and of a structure that are built of them.                              *)
(*                                                                         *)
(* A print is [name, id, at, strike, type, expiry, created, origin, iv,    *)
(* index, price, forward].  Times are minutes, prices and strikes          *)
(* hundredths of the spot, and names are places in alphabetical order.     *)
(* ln(K / F) is kept as 2 K - 2 F, which has its sign and its order, the   *)
(* 2 F being what a median of two middle values leaves; a volatility that  *)
(* was interpolated or averaged is the fraction [n, d].                    *)
(***************************************************************************)
EXTENDS TapeExecution

Day == 1440
MarketIvMaxAge == 60
MoneynessTolerance == 10
NominalTenors == [d7 |-> [days |-> 7, tolerance |-> 3], d14 |-> [days |-> 14, tolerance |-> 4],
                  d30 |-> [days |-> 30, tolerance |-> 8]]
Tenors == DOMAIN NominalTenors

\* Lexicographic order of keys, and the first member of a set by its key.
Lower(a, b) == \E i \in DOMAIN a : a[i] < b[i] /\ \A j \in 1..(i - 1) : a[j] = b[j]
FirstBy(S, Key(_)) == CHOOSE x \in S : \A y \in S : ~Lower(Key(y), Key(x))

Frac(n, d) == [n |-> n, d |-> d]
Minus(f, g) == Frac(f.n * g.d - g.n * f.d, f.d * g.d)

\* The code of the first ground that holds; None when none does.
FirstGround(grounds) ==
    LET k == SelectInSeq(grounds, LAMBDA g : g[1]) IN IF k = 0 THEN None ELSE grounds[k][2]

(***************************************************************************)
(* The one gate: circularity, self-reference, causality, existence, sanity.*)
(***************************************************************************)
IsCausalLater(p, target) == TRUE
IsCausalAt(p, target) == p.at <= target

Refusal(p, target, spot, maxAge, excluded) ==
    FirstGround(<<
        <<p.origin = "inverted-price", "iv_from_model_price">>,
        <<p.origin = "intrinsic", "intrinsic_at_expiry">>,
        <<p.origin = "model", "iv_source_is_model">>,
        <<p.origin = "reconstructed", "observation_reconstructed">>,
        <<p.name \in excluded, "self_leg_excluded">>,
        <<~IsCausalAt(p, target), "future_observation">>,
        <<target - p.at > maxAge, "stale_beyond_max_age">>,
        <<p.created # None /\ p.created > target, "contract_not_listed_at_target">>,
        <<p.expiry <= target, "expiry_not_after_target">>,
        <<p.iv = None, "missing_iv">>,
        <<p.iv # None /\ p.iv <= 0, "non_positive_iv">>,
        <<p.index = None \/ spot <= 0 \/ p.strike <= 0, "missing_index_price">> >>)

\* An admitted print at a target; `base` is twice the forward, or the spot.
Observation(p, target, base) ==
    [name |-> p.name, id |-> p.id, strike |-> p.strike, type |-> p.type, expiry |-> p.expiry,
     at |-> p.at, age |-> target - p.at, iv |-> p.iv, price |-> p.price,
     k |-> 2 * p.strike - base, base |-> base, dte |-> p.expiry - target]

AdmitMarketIvTrades(prints, target, spot, maxAge, excluded) ==
    {Observation(p, target, 2 * spot) : p \in {q \in prints : Refusal(q, target, spot, maxAge, excluded) = None}}

(***************************************************************************)
(* The reference volatility of one expiry: the listed strike at the money, *)
(* else the nearest inside the envelope, else between two that bracket.    *)
(* Observations of two expiries are a caller's error, and throw (None).    *)
(***************************************************************************)
Unreferenced(code) == [status |-> "unavailable", reason |-> code, class |-> "unavailable", iv |-> None,
                       strike |-> None, at |-> None, age |-> None, sources |-> {}]
ReferencedBy(o, class) ==
    [status |-> "available", reason |-> None, class |-> class, iv |-> Frac(o.iv, 1),
     strike |-> o.strike, at |-> o.at, age |-> o.age, sources |-> {o}]
Between(below, above) ==
    LET span == above.k - below.k
    IN [status |-> "available", reason |-> None, class |-> "local_interpolation",
        iv |-> IF span = 0 THEN Frac(below.iv, 1)
               ELSE Frac(below.iv * above.k - above.iv * below.k, span),
        strike |-> None, at |-> Lesser(below.at, above.at), age |-> Larger(below.age, above.age),
        sources |-> {below, above}]

ResolveReferenceIv(observations, spot, strikes, expiry, maxAge) ==
    LET usable == {o \in observations : o.age \in 0..maxAge}
        Rank(o) == <<o.age, o.name, o.id>>
        atm == FirstBy(strikes, LAMBDA s : <<Abs(s - spot), s>>)
        atTheMoney == {o \in usable : strikes # {} /\ o.strike = atm}
        near == {o \in usable : Abs(o.k) <= MoneynessTolerance}
        lower == {o \in usable : o.k <= 0}
        upper == {o \in usable : o.k >= 0}
        below == FirstBy(lower, LAMBDA o : <<-o.k>> \o Rank(o))
        above == FirstBy(upper, LAMBDA o : <<o.k>> \o Rank(o))
    IN CASE \E o \in observations : o.expiry # expiry -> None
         [] usable = {} -> Unreferenced("no_qualifying_observation")
         [] atTheMoney # {} -> ReferencedBy(FirstBy(atTheMoney, Rank), "exact_atm")
         [] usable # {} /\ atTheMoney = {} /\ near # {} ->
                ReferencedBy(FirstBy(near, LAMBDA o : <<Abs(o.k)>> \o Rank(o)), "nearest_strike_reference")
         [] usable # {} /\ atTheMoney = {} /\ near = {} ->
                IF lower = {} \/ upper = {} THEN Unreferenced("extrapolation_refused")
                ELSE IF below.name = above.name THEN Unreferenced("interpolation_inputs_not_bracketing")
                ELSE Between(below, above)

\* The listed expiry nearest a nominal horizon, the earlier of two as near.
ResolveTenor(nominal, target, listed) ==
    LET wanted == NominalTenors[nominal].days * Day
        live == {e \in listed : e.expiry > target /\ (e.created = None \/ e.created <= target)}
        best == FirstBy(live, LAMBDA e : <<Abs(e.expiry - target - wanted), e.expiry>>)
        passed == Abs(best.expiry - target - wanted) <= NominalTenors[nominal].tolerance * Day
    IN IF live = {} THEN [expiry |-> None, dte |-> None, passed |-> FALSE, reason |-> "no_qualifying_observation"]
       ELSE [expiry |-> best.expiry, dte |-> best.expiry - target, passed |-> passed,
             reason |-> IF passed THEN None ELSE "tenor_tolerance_failed"]

(***************************************************************************)
(* The reference series: one row per nominal tenor at a timestamp, or the  *)
(* row of an expiry that is given.                                         *)
(***************************************************************************)
SeriesRow(target, nominal, tenor, own, reference) ==
    [series |-> "reference", at |-> target, tenor |-> nominal, expiry |-> tenor.expiry, dte |-> tenor.dte,
     passed |-> tenor.passed, excluded |-> own, class |-> reference.class, iv |-> reference.iv,
     strike |-> reference.strike, observed |-> reference.at, age |-> reference.age,
     passes |-> reference.status = "available", sources |-> reference.sources,
     quality |-> CASE reference.status = "unavailable" -> "unavailable"
                   [] reference.class = "local_interpolation" -> "interpolated"
                   [] OTHER -> "observed",
     reason |-> reference.reason]

BuildUnavailableReferenceSeriesRows(target, listed, reason) ==
    {SeriesRow(target, t, ResolveTenor(t, target, listed), FALSE, Unreferenced(reason)) : t \in Tenors}

StrikesOf(listed, expiry) == UNION {e.strikes : e \in {f \in listed : f.expiry = expiry}}

BuildReferenceSeriesRows(prints, target, spot, listed, excluded) ==
    LET admitted == AdmitMarketIvTrades(prints, target, spot, MarketIvMaxAge, excluded)
        Of(t) == LET tenor == ResolveTenor(t, target, listed)
                     own == {o \in admitted : o.expiry = tenor.expiry}
                 IN SeriesRow(target, t, tenor, excluded # {},
                              IF ~tenor.passed THEN Unreferenced(tenor.reason)
                              ELSE ResolveReferenceIv(own, spot, StrikesOf(listed, tenor.expiry),
                                                      tenor.expiry, MarketIvMaxAge))
    IN {Of(t) : t \in Tenors}

BuildExpiryReferenceRow(prints, target, spot, expiry, strikes, excluded) ==
    LET admitted == AdmitMarketIvTrades({p \in prints : p.expiry = expiry}, target, spot, MarketIvMaxAge, excluded)
    IN SeriesRow(target, "d7", [expiry |-> expiry, dte |-> expiry - target, passed |-> TRUE], excluded # {},
                 ResolveReferenceIv(admitted, spot, strikes, expiry, MarketIvMaxAge))

\* What a cache may reuse: rows of this series, and a timestamp only whole.
IsCurrentReferenceRow(row) ==
    /\ row.series = "reference" /\ row.tenor \in Tenors
    /\ IF row.class = "unavailable" THEN row.iv = None /\ ~row.passes /\ row.reason # None
       ELSE row.iv # None /\ row.iv.n > 0 /\ row.passes
IsReferenceTimestampComplete(rows, target) ==
    \A t \in Tenors : \E row \in rows : IsCurrentReferenceRow(row) /\ row.at = target /\ row.tenor = t

\* The broad index, by time, positive closes only; it never fills a tenor.
BuildDvolRows(points) ==
    InOrder({[series |-> "dvol", at |-> p.at, iv |-> p.close] : p \in {q \in points : q.close > 0}},
            LAMBDA p, q : p.at < q.at \/ (p.at = q.at /\ p.iv < q.iv))

(***************************************************************************)
(* A percentile among the strictly earlier rows of the same tenor; another *)
(* series throws (None).  Ties count half.                                 *)
(***************************************************************************)
EmpiricalPercentile(history, value) ==
    LET below == {o \in history : Minus(o.iv, value).n < 0}
        equal == {o \in history : Minus(o.iv, value).n = 0}
    IN Frac(2 * Cardinality(below) + Cardinality(equal), 2 * Cardinality(history))

CausalHistory(history, target) == {o \in history : o.iv # None /\ o.at < target}

CausalIvPercentile(subject, tenor, target, history, minimum) ==
    LET causal == CausalHistory(history, target)
        prior == {o \in causal : o.tenor = tenor}
        reason == FirstGround(<<<<subject = None, "subject_value_unavailable">>,
                                <<prior = {} /\ causal # {}, "no_matching_tenor_observations">>,
                                <<prior = {}, "no_prior_observations">>,
                                <<Cardinality(prior) < minimum, "insufficient_prior_history">> >>)
    IN IF \E o \in history : o.series # "reference" THEN None
       ELSE [tenor |-> tenor, prior |-> Cardinality(prior), reason |-> reason,
             percentile |-> IF reason = None THEN EmpiricalPercentile(prior, subject) ELSE None]

(***************************************************************************)
(* Realized volatility over the hours before a target.  A return is formed *)
(* only of bars an hour apart; ln(c / b) is kept as c - b.                  *)
(***************************************************************************)
HourlyReturns(bars) ==
    {[at |-> pair[2].at, r |-> pair[2].close - pair[1].close] :
        pair \in {q \in bars \X bars : q[2].at - q[1].at = 60}}

RealizedVolatility(bars, target, hours) ==
    LET window == {b \in bars : target - 60 * hours <= b.at /\ b.at < target /\ b.close > 0}
        returns == HourlyReturns(window)
        covered == 100 * Cardinality(returns) >= 95 * hours
        reason == FirstGround(<<<<window = {}, "no_bars_in_window">>,
                                <<returns = {}, "no_valid_returns">>,
                                <<~covered, "insufficient_coverage">> >>)
    IN [hours |-> hours, count |-> Cardinality(returns), reason |-> reason,
        rv |-> IF reason # None THEN None
               ELSE Frac(MapThenSumSet(LAMBDA x : x.r * x.r, returns), Cardinality(returns))]

RealizedVolatilityProfile(bars, target, horizons) ==
    [h \in DOMAIN horizons |-> RealizedVolatility(bars, target, horizons[h])]

(***************************************************************************)
(* The state of an event: its tenors, slopes, percentiles and IV less RV.  *)
(***************************************************************************)
UnknownTenor == [status |-> "unavailable", iv |-> None, dte |-> None, passed |-> FALSE, passes |-> FALSE,
                 reason |-> "no_qualifying_observation"]
TenorState(row) ==
    LET available == row.iv # None /\ row.passes /\ row.passed
    IN [status |-> IF available THEN "available" ELSE "unavailable",
        iv |-> IF available THEN row.iv ELSE None, dte |-> row.dte, passed |-> row.passed,
        passes |-> row.passes,
        reason |-> CASE available -> None
                     [] ~available /\ row.reason # None -> row.reason
                     [] OTHER -> IF row.passed THEN "stale_beyond_max_age" ELSE "tenor_tolerance_failed"]

Derived(value, reason) == [value |-> value, reason |-> reason]

BuildSlope(from, to) ==
    LET span == to.dte - from.dte
        reason == FirstGround(<<<<~from.passed \/ ~to.passed, "endpoint_tenor_tolerance_failed">>,
                                <<from.status # "available" \/ to.status # "available", "endpoint_unavailable">>,
                                <<from.dte = to.dte, "degenerate_tenor_span">> >>)
        rise == Minus(to.iv, from.iv)
    IN Derived(IF reason = None THEN Frac(rise.n, rise.d * span) ELSE None, reason)

IvMinusRv(state, rv) ==
    IF state.status # "available" \/ rv.rv = None THEN Derived(None, "endpoint_unavailable")
    ELSE Derived(<<state.iv, rv.rv>>, None)

BuildEventVolatilityState(rows, rv, history, target, minimum) ==
    LET Of(t) == LET own == {r \in rows : r.tenor = t}
                 IN IF own = {} THEN UnknownTenor ELSE TenorState(CHOOSE r \in own : TRUE)
        reference == [t \in Tenors |-> Of(t)]
    IN [reference |-> reference,
        slopes |-> [pair \in {<<"d7", "d14">>, <<"d14", "d30">>, <<"d7", "d30">>} |->
                       BuildSlope(reference[pair[1]], reference[pair[2]])],
        percentiles |-> [t \in Tenors |-> CausalIvPercentile(reference[t].iv, t, target, history, minimum)],
        rv |-> rv,
        gap |-> [t \in Tenors |-> IvMinusRv(reference[t], rv[t])]]

(***************************************************************************)
(* The state of a structure: its legs as observed, its reference, and      *)
(* differentials only against a reference that left its own legs out.      *)
(***************************************************************************)
LegState(leg, target) ==
    LET age == target - leg.at
        reason == FirstGround(<<<<leg = None, "no_snapshot">>,
                                <<leg # None /\ leg.observation # "observed", "not_market_evidence">>,
                                <<leg # None /\ leg.iv = None, "no_positive_iv">>,
                                <<leg # None /\ ~(age \in 0..MarketIvMaxAge), "outside_window">> >>)
    IN [iv |-> IF reason = None THEN Frac(leg.iv, 1) ELSE None, reason |-> reason]

Differential(a, b, usable) ==
    IF usable /\ a # None /\ b # None THEN Derived(Minus(a, b), None) ELSE Derived(None, "endpoint_unavailable")

OwnLegsExcluded(row) == row.excluded

BuildStructureVolatilityState(short, long, row, target) ==
    LET s == LegState(short, target)
        l == LegState(long, target)
        available == row # None /\ row.iv # None /\ row.passes
        usable == available /\ OwnLegsExcluded(row)
        iv == IF available THEN row.iv ELSE None
    IN [legs |-> <<s, l>>, reference |-> iv,
        differentials |-> [short |-> Differential(s.iv, iv, usable), long |-> Differential(l.iv, iv, usable),
                           spread |-> Differential(s.iv, l.iv, TRUE)]]

(***************************************************************************)
(* Coverage of exported states: every row is available or has its reason.  *)
(***************************************************************************)
Tally(items) == [available |-> Cardinality({k \in DOMAIN items : items[k].reason = None}),
                 total |-> Len(items),
                 reasons |-> [r \in {items[k].reason : k \in DOMAIN items} \ {None} |->
                                 Cardinality({k \in DOMAIN items : items[k].reason = r})]]

ProjectVolatilityAnalytics(events, structures) ==
    LET OfTenor(field, t) == Tally([k \in DOMAIN events |-> events[k][field][t]])
        legs == FlattenSeq([k \in DOMAIN structures |-> structures[k].legs])
        reference == [k \in DOMAIN structures |->
                         [reason |-> IF structures[k].reference = None THEN "unavailable" ELSE None]]
        anyTenor == {k \in DOMAIN events : \E t \in Tenors : events[k].reference[t].status = "available"}
    IN [reference |-> [t \in Tenors |-> OfTenor("reference", t)],
        tolerance |-> [t \in Tenors |->
                          Tally([k \in DOMAIN events |->
                              [reason |-> IF events[k].reference[t].passed THEN None
                                          ELSE "tenor_tolerance_failed"]])],
        percentiles |-> [t \in Tenors |-> OfTenor("percentiles", t)],
        rv |-> [t \in Tenors |-> OfTenor("rv", t)],
        legs |-> Tally(legs), structures |-> Tally(reference), withReference |-> Cardinality(anyTenor),
        hasMarketEvidence |-> anyTenor # {} \/ Tally(reference).available > 0 \/ Tally(legs).available > 0]
=============================================================================
