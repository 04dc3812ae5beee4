-------------------------- MODULE VolatilitySurface --------------------------
(***************************************************************************)
(* The cross-section of one moment and what is read from it: the forward   *)
(* of each expiry, the admitted prints, the geometry around a leg, one     *)
(* smile point per strike and type, and the estimators of a leg's          *)
(* volatility, none of which extrapolates.                                 *)
(*                                                                         *)
(* A print's forward is the forward its own premium and volatility imply,  *)
(* None when they imply none.  A volatility is interpolated as its square, *)
(* the total variance of one expiry up to a factor.  The fits of SVI and   *)
(* SSVI are not modelled.                                                  *)
(***************************************************************************)
EXTENDS MarketEvidence

ForwardMaxAge == 60
AnchorMaxAge == 720
PerSideDense == 2
StrikesDense == 5
StrikesSparse == 2
StrikesAdjacent == 4
RuleC == 5

Middle(ordered) == LET n == Len(ordered)
                   IN IF n % 2 = 1 THEN 2 * ordered[(n + 1) \div 2]
                      ELSE ordered[n \div 2] + ordered[n \div 2 + 1]
Ascending(S, Value(_)) ==
    LET ordered == InOrder(S, LAMBDA p, q : Lower(<<Value(p), p.name, p.id>>, <<Value(q), q.name, q.id>>))
    IN [i \in DOMAIN ordered |-> Value(ordered[i])]
\* The least member that a share num / den of a sorted sequence does not exceed.
Quantile(ordered, num, den) ==
    IF ordered = <<>> THEN None
    ELSE ordered[Lesser(Len(ordered), Larger(1, (num * Len(ordered) + den - 1) \div den))]

(***************************************************************************)
(* The forward of an expiry: the median of what its prints of the hour     *)
(* strictly before imply, the excluded instruments left out.               *)
(***************************************************************************)
ResolveExpiryForward(prints, target, expiry, excluded) ==
    LET evidence == {p \in prints : /\ p.expiry = expiry /\ p.name \notin excluded
                                    /\ p.at < target /\ target - p.at <= ForwardMaxAge
                                    /\ (p.created = None \/ p.created <= target)
                                    /\ p.forward # None}
    IN IF evidence = {} THEN [base |-> None, at |-> None, count |-> 0]
       ELSE [base |-> Middle(Ascending(evidence, LAMBDA p : p.forward)),
             at |-> Max({p.at : p \in evidence}), count |-> Cardinality(evidence)]

(***************************************************************************)
(* Admission of a tape, a sequence of pages that may repeat a print.       *)
(***************************************************************************)
SamePrint(p, q) == p.id = q.id
DedupePrints(tape) ==
    LET firsts == {i \in DOMAIN tape : \A j \in 1..(i - 1) : ~SamePrint(tape[j], tape[i])}
    IN [prints |-> {tape[i] : i \in firsts}, removed |-> Len(tape) - Cardinality(firsts)]

AdmitCrossSection(tape, target, spot, maxAge, envelope, excluded) ==
    LET unique == DedupePrints(tape)
        forward == [e \in {p.expiry : p \in unique.prints} |->
                       ResolveExpiryForward(unique.prints, target, e, excluded)]
        Code(p) == IF Refusal(p, target, spot, maxAge, excluded) # None
                   THEN Refusal(p, target, spot, maxAge, excluded)
                   ELSE IF forward[p.expiry].base = None THEN "forward_unavailable" ELSE None
        gated == {p \in unique.prints : Code(p) = None}
        seen == {[Observation(p, target, forward[p.expiry].base) EXCEPT !.iv = p.iv] : p \in gated}
        kept == {o \in seen : envelope = None \/ Abs(o.k) <= envelope}
        refused == unique.prints \ gated
    IN [observations |-> kept, removed |-> unique.removed, envelope |-> Cardinality(seen \ kept),
        rejected |-> [c \in {Code(p) : p \in refused} |-> Cardinality({p \in refused : Code(p) = c})],
        forwards |-> forward]

\* Whether an admitted print is market evidence, whatever window retrieved it.
PassesMarketStateRule(o) == o.age \in 0..MarketIvMaxAge

(***************************************************************************)
(* The geometry of one expiry, and of a leg in it.                          *)
(***************************************************************************)
ExpirySliceDiagnostics(observations, spot) ==
    LET any == CHOOSE o \in observations : TRUE
        base == IF observations = {} THEN 2 * spot ELSE any.base
        ages == Ascending(observations, LAMBDA o : o.age)
        strikes == {o.strike : o \in observations}
        below == {s \in strikes : 2 * s < base}
        above == {s \in strikes : 2 * s > base}
        OfType(t) == Cardinality({o \in observations : o.type = t})
    IN [expiry |-> IF observations = {} THEN 0 ELSE any.expiry,
        dte |-> IF observations = {} THEN 0 ELSE any.dte,
        trades |-> Cardinality(observations), instruments |-> Cardinality({o.name : o \in observations}),
        calls |-> OfType("C"), puts |-> OfType("P"),
        freshest |-> IF ages = <<>> THEN None ELSE ages[1],
        median |-> Quantile(ages, 1, 2), p95 |-> Quantile(ages, 19, 20),
        strikes |-> strikes, below |-> Cardinality(below), above |-> Cardinality(above),
        bracketed |-> below # {} /\ above # {},
        low |-> IF strikes = {} THEN None ELSE Min(strikes),
        high |-> IF strikes = {} THEN None ELSE Max(strikes)]

\* A leg is [strike, type, name]; the slice is None where nothing was admitted.
ClassifyLeg(leg, slice, observations, perSide) ==
    LET exact == {o \in observations : /\ leg.type = None \/ o.type = leg.type
                                       /\ IF leg.name # None THEN o.name = leg.name
                                          ELSE o.strike = leg.strike}
        strikes == IF slice = None THEN {} ELSE slice.strikes
        below == Cardinality({s \in strikes : s < leg.strike})
        above == Cardinality({s \in strikes : s > leg.strike})
        nearest == FirstBy(strikes, LAMBDA s : <<Abs(s - leg.strike), s>>)
    IN [class |-> CASE exact # {} -> "exact_observed"
                    [] exact = {} /\ below >= perSide /\ above >= perSide -> "interpolation_candidate"
                    [] exact = {} /\ ~(below >= perSide /\ above >= perSide) ->
                           IF strikes # {} THEN "extrapolation_required" ELSE "unidentifiable",
        exact |-> Cardinality(exact), below |-> below, above |-> above,
        inRange |-> strikes # {} /\ leg.strike >= Min(strikes) /\ leg.strike <= Max(strikes),
        nearest |-> IF strikes = {} THEN None ELSE nearest,
        freshest |-> IF exact = {} THEN None ELSE Min({o.age : o \in exact})]

ClassifySurfaceReadiness(slice, legs, adjacent) ==
    LET strikes == IF slice = None THEN 0 ELSE Cardinality(slice.strikes)
        usable == Cardinality({s \in adjacent : Cardinality(s.strikes) >= StrikesAdjacent /\ s.bracketed})
        dense == legs # {} /\ \A l \in legs : \/ l.class = "exact_observed"
                                              \/ l.below >= PerSideDense /\ l.above >= PerSideDense
        reason == FirstGround(<<
            <<strikes = 0 /\ usable = 0, "surface_unidentifiable">>,
            <<usable = 0 /\ \E l \in legs : l.class = "unidentifiable", "surface_unidentifiable">>,
            <<\E l \in legs : l.class = "extrapolation_required", "extrapolation_required">>,
            <<strikes >= StrikesDense /\ dense, "same_expiry_dense">>,
            <<strikes >= StrikesSparse, "same_expiry_sparse">>,
            <<usable > 0, "cross_expiry_supported">>,
            <<TRUE, "surface_unidentifiable">> >>)
    IN [readiness |-> reason, strikes |-> strikes, adjacent |-> usable,
        allInRange |-> legs # {} /\ \A l \in legs : l.inRange,
        allExact |-> legs # {} /\ \A l \in legs : l.class = "exact_observed"]

MaturityCoverage(slices, expiry, minimum) ==
    LET usable == {s \in slices : Cardinality(s.strikes) >= minimum}
        nearer == {s.expiry : s \in {u \in usable : u.expiry < expiry}}
        further == {s.expiry : s \in {u \in usable : u.expiry > expiry}}
        Following(s) == Min({u.dte : u \in {v \in usable : v.expiry > s.expiry}})
        gaps == {Following(s) - s.dte : s \in {u \in usable : \E v \in usable : v.expiry > u.expiry}}
    IN [usable |-> Cardinality(usable), below |-> IF nearer = {} THEN None ELSE Max(nearer),
        above |-> IF further = {} THEN None ELSE Min(further),
        bracketed |-> nearer # {} /\ further # {},
        span |-> IF usable = {} THEN None
                 ELSE Max({s.dte : s \in usable}) - Min({s.dte : s \in usable}),
        gap |-> IF gaps = {} THEN None ELSE Max(gaps)]

(***************************************************************************)
(* Snapshots.  The content hash is the evidence itself: what was observed  *)
(* and the forward it was placed by, in no order.                          *)
(***************************************************************************)
SnapshotContentHash(observations) == {<<o.name, o.id, o.at, o.iv, o.base>> : o \in observations}
SlicesOf(observations, spot) ==
    {ExpirySliceDiagnostics({o \in observations : o.expiry = e}, spot) : e \in {o.expiry : o \in observations}}

BuildSurfaceSnapshot(tape, target, spot, maxAge, envelope, excluded) ==
    LET admission == AdmitCrossSection(tape, target, spot, maxAge, envelope, excluded)
    IN [target |-> target, spot |-> spot, maxAge |-> maxAge, removed |-> admission.removed,
        rejected |-> admission.rejected, envelope |-> admission.envelope,
        observations |-> admission.observations, slices |-> SlicesOf(admission.observations, spot),
        hash |-> SnapshotContentHash(admission.observations)]

SnapshotFromObservations(header, observations) ==
    [header EXCEPT !.observations = observations, !.slices = SlicesOf(observations, header.spot)]

ObservationsFor(snapshot, expiry) == {o \in snapshot.observations : o.expiry = expiry}
SliceFor(snapshot, expiry) ==
    LET own == {s \in snapshot.slices : s.expiry = expiry}
    IN IF own = {} THEN None ELSE CHOOSE s \in own : TRUE

\* The index at a moment, of the latest print then known and of a tie the first.
CausalUnderlyingPrice(tape, target) ==
    LET prior == {i \in DOMAIN tape : tape[i].index # None /\ tape[i].at <= target}
    IN IF prior = {} THEN None ELSE tape[FirstBy(prior, LAMBDA i : <<-tape[i].at, i>>)].index

\* The expiries then listed, since the first of their contracts was, and their ladders.
ListedExpiriesAt(manifest, target) ==
    LET live == {m \in manifest : m.created <= target /\ m.expiry > target}
    IN {LET own == {m \in live : m.expiry = e}
        IN [expiry |-> e, created |-> Min({m.created : m \in own}), strikes |-> {m.strike : m \in own}] :
            e \in {m.expiry : m \in live}}

(***************************************************************************)
(* One smile point per strike and type: the mean by freshness of the       *)
(* prints that are not outliers.  The weight halves every thirty minutes   *)
(* and is taken at whole half-lives.                                       *)
(***************************************************************************)
FreshnessWeight(age) == CASE age < 30 -> 4 [] age \in 30..59 -> 2 [] OTHER -> 1

AggregateStrike(prints) ==
    LET centre == Middle(Ascending(prints, LAMBDA o : o.iv))
        mad == Middle(Ascending(prints, LAMBDA o : Abs(2 * o.iv - centre)))
        near == {o \in prints : 2 * Abs(2 * o.iv - centre) <= 3 * mad}
        robust == IF Cardinality(prints) >= 3 /\ mad > 0 THEN near ELSE prints
        kept == IF robust = {} THEN prints ELSE robust
        first == CHOOSE o \in prints : TRUE
        Weighted(Value(_)) == MapThenSumSet(LAMBDA o : FreshnessWeight(o.age) * Value(o), kept)
        weight == Weighted(LAMBDA o : 1)
        at == Weighted(LAMBDA o : o.at) \div weight
    IN [expiry |-> first.expiry, strike |-> first.strike, type |-> first.type, k |-> first.k,
        iv |-> Frac(Weighted(LAMBDA o : o.iv), weight), at |-> at, age |-> first.at + first.age - at,
        prints |-> Cardinality(prints), outliers |-> Cardinality(prints) - Cardinality(kept),
        low |-> Min({o.iv : o \in prints}), high |-> Max({o.iv : o \in prints})]

AggregateSlice(observations) ==
    {AggregateStrike({o \in observations : <<o.expiry, o.strike, o.type>> = key}) :
        key \in {<<o.expiry, o.strike, o.type>> : o \in observations}}

\* Calls and puts of a strike, compared, never merged.
AssessCallPutCompatibility(points) ==
    LET pairs == {pair \in points \X points : /\ pair[1].type = "C" /\ pair[2].type = "P"
                                              /\ pair[1].strike = pair[2].strike}
        signed == {[name |-> pair[1].strike, id |-> 0, gap |-> Minus(pair[1].iv, pair[2].iv)] : pair \in pairs}
    IN [matched |-> Cardinality(pairs), signed |-> signed]

(***************************************************************************)
(* The estimators.  A target is [k, base, expiry, at, strike]; an estimate *)
(* has the square of a volatility, or the reason there is none.            *)
(***************************************************************************)
Estimate(variance, points, bracket) ==
    [status |-> "available", variance |-> variance, reason |-> None, points |-> points, bracket |-> bracket]
NoEstimate(reason, points) ==
    [status |-> "unavailable", variance |-> None, reason |-> reason, points |-> points, bracket |-> {}]
\* What pricing refuses: no forward, or no time left.
Priced(variance, target, points, bracket) ==
    CASE target.base = None -> NoEstimate("forward_unavailable", points)
      [] target.base # None /\ target.at >= target.expiry -> NoEstimate("pricing_unavailable", points)
      [] OTHER -> Estimate(variance, points, bracket)

Squared(f) == Frac(f.n * f.n, f.d * f.d)
SumOfSquares(points) ==
    FoldSet(LAMBDA p, f : Frac(f.n * p.iv.d * p.iv.d + p.iv.n * p.iv.n * f.d, f.d * p.iv.d * p.iv.d),
            Frac(0, 1), points)

EstimateLocalIvAnchor(anchor, target, maxAge) ==
    IF anchor = None THEN NoEstimate("no_causal_anchor", 0)
    ELSE IF anchor.iv <= 0 \/ ~(target.at - anchor.at \in 0..maxAge) THEN NoEstimate("no_causal_anchor", 0)
    ELSE Priced(Squared(Frac(anchor.iv, 1)), target, 1, {})

\* The last point below and the first above, by moneyness and then by type.
PointBelow(points, k) ==
    LET below == {p \in points : p.k < k}
    IN IF below = {} THEN None ELSE FirstBy(below, LAMBDA p : <<-p.k, IF p.type = "P" THEN 0 ELSE 1>>)
PointAbove(points, k) ==
    LET above == {p \in points : p.k > k}
    IN IF above = {} THEN None ELSE FirstBy(above, LAMBDA p : <<p.k, IF p.type = "C" THEN 0 ELSE 1>>)

EstimateLinearInterpolation(points, target) ==
    LET exact == {p \in points : p.k = target.k}
        below == PointBelow(points, target.k)
        above == PointAbove(points, target.k)
        w == Squared(below.iv)
        rise == Minus(Squared(above.iv), w)
        n == Cardinality(points)
        sum == SumOfSquares(exact)
    IN CASE n < 2 \/ target.base = None -> NoEstimate(IF n < 2 THEN "insufficient_observations"
                                                      ELSE "target_outside_observed_strike_range", n)
         [] n >= 2 /\ target.base # None /\ exact # {} ->
                Priced(Frac(sum.n, sum.d * Cardinality(exact)), target, n, exact)
         [] n >= 2 /\ target.base # None /\ exact = {} ->
                IF below = None \/ above = None THEN NoEstimate("target_outside_observed_strike_range", n)
                ELSE Priced(Frac(w.n * rise.d * (above.k - below.k) + w.d * rise.n * (target.k - below.k),
                                 w.d * rise.d * (above.k - below.k)), target, n, {below, above})

\* Bracketed interpolation where the rule's strikes suffice, else the anchor.
HybridEligibility(points, target, minimum) ==
    LET bracketed == /\ target.base # None
                     /\ \/ \E p \in points : p.k = target.k
                        \/ PointBelow(points, target.k) # None /\ PointAbove(points, target.k) # None
    IN FirstGround(<<<<points = {}, "no_qualifying_same_expiry_observations">>,
                     <<~bracketed, "target_not_bracketed">>,
                     <<Cardinality({p.strike : p \in points}) < minimum, "unique_strike_count_below">> >>)

EstimateHybrid(points, anchor, target, minimum, finalDay) ==
    LET refused == HybridEligibility(points, target, minimum)
        interpolated == EstimateLinearInterpolation(points, target)
        anchored == EstimateLocalIvAnchor(anchor, target, AnchorMaxAge)
        fallback == IF refused = None THEN "interpolation_tier_returned_no_value" ELSE refused
    IN CASE refused = None /\ interpolated.status = "available" ->
                [tier |-> "interpolation", fallback |-> None, estimate |-> interpolated]
         [] ~(refused = None /\ interpolated.status = "available") /\ anchored.status = "available" ->
                [tier |-> "local_anchor", fallback |-> fallback, estimate |-> anchored]
         [] OTHER -> [tier |-> "unavailable", fallback |-> fallback,
                      estimate |-> NoEstimate(IF finalDay THEN "surface_not_identifiable_final_day"
                                              ELSE "no_causal_anchor", Cardinality(points))]

EvaluateRuleCInterpolation(points, target, minimum) ==
    LET estimate == EstimateLinearInterpolation(points, target)
        exact == {p \in points : p.k = target.k}
        beside == {PointBelow(points, target.k), PointAbove(points, target.k)} \ {None}
        decline == FirstGround(<<
            <<points = {}, "no_qualifying_same_expiry_observations">>,
            <<Cardinality({p.strike : p \in points}) < minimum, "unique_strike_count_below_minimum">>,
            <<estimate.reason = "target_outside_observed_strike_range", "target_not_bracketed">>,
            <<estimate.reason = "insufficient_observations", "unique_strike_count_below_minimum">>,
            <<estimate.status # "available", "interpolation_returned_no_value">> >>)
    IN [decline |-> decline, estimate |-> estimate, contributors |-> IF exact = {} THEN beside ELSE exact]

(***************************************************************************)
(* The production reference of one leg: interpolation, else its own        *)
(* anchor, else the reason there is no mark.                               *)
(***************************************************************************)
BuildReferenceCrossSection(tape, expiry, target, spot, excluded, maxAge) ==
    LET own == SelectSeq(tape, LAMBDA p : p.expiry = expiry)
        admission == AdmitCrossSection(own, target, spot, maxAge, None, excluded)
        points == AggregateSlice(admission.observations)
        some == admission.observations # {}
    IN [points |-> points, strikes |-> Cardinality({p.strike : p \in points}),
        count |-> Cardinality(admission.observations), maxAge |-> maxAge, spot |-> spot,
        base |-> IF some THEN admission.forwards[expiry].base ELSE None,
        evidence |-> IF some THEN admission.forwards[expiry].at ELSE None]

Reference(source, variance, at, decline, reason) ==
    [source |-> source, variance |-> variance, at |-> at, decline |-> decline, reason |-> reason]

ValueReferenceLeg(leg, target, section, anchor, minimum) ==
    LET base == IF section = None THEN None ELSE section.base
        wanted == [k |-> IF base = None THEN 0 ELSE 2 * leg.strike - base, base |-> base,
                   expiry |-> leg.expiry, at |-> target, strike |-> leg.strike]
        rule == EvaluateRuleCInterpolation(section.points, wanted, minimum)
        decline == IF section = None THEN "cross_section_unavailable" ELSE rule.decline
        anchored == IF anchor = None THEN FALSE
                    ELSE IF anchor.iv = None THEN FALSE ELSE anchor.iv > 0 /\ anchor.at <= target
        reason == CASE leg.expiry - target < Day -> "surface_not_identifiable_final_day"
                    [] leg.expiry - target >= Day /\ decline \in
                           {"cross_section_unavailable", "no_qualifying_same_expiry_observations"} ->
                           "no_market_evidence"
                    [] OTHER -> "no_causal_anchor"
    IN CASE decline = None -> Reference("same_expiry_linear_interpolation", rule.estimate.variance,
                                        Max({p.at : p \in rule.contributors}), None, None)
         [] decline # None /\ anchored -> Reference("local_iv_anchor", Squared(Frac(anchor.iv, 1)),
                                                    anchor.at, decline, None)
         [] decline # None /\ ~anchored -> Reference("unavailable", None, None, decline, reason)

ReferenceLegsAreSynchronized(short, long, gap) ==
    IF short.at = None \/ long.at = None THEN FALSE ELSE Abs(short.at - long.at) <= gap
=============================================================================
