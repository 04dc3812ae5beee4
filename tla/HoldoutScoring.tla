---------------------------- MODULE HoldoutScoring ----------------------------
(***************************************************************************)
(* The comparison of the estimators: contracts are withheld from a         *)
(* snapshot, estimated from what remains, and the errors are summarised,   *)
(* over all cases and without one event at a time.                         *)
(*                                                                         *)
(* A scored case is [id, event, target, expiry, method, bucket, status,    *)
(* reason, error, price], errors being whole numbers.                      *)
(***************************************************************************)
EXTENDS VolatilitySurface

SynchronousWindow == 5

(***************************************************************************)
(* A case withholds every print of its instruments, at every expiry, and   *)
(* looks at what remains; without a print to hide there is none.            *)
(***************************************************************************)
FittingInputs(snapshot, withheld) == {o \in snapshot.observations : o.name \notin withheld}

\* The second look that refuses a leak: by instrument, and by trade.
HoldoutIsClean(holdout) ==
    /\ \A o \in holdout.fitting : o.name \notin holdout.withheld
    /\ \A o \in holdout.fitting : \A t \in holdout.truth : o.id = None \/ o.id # t.id

BuildHoldoutCase(snapshot, expiry, mode, withheld, legs) ==
    LET hidden == {o \in ObservationsFor(snapshot, expiry) : o.name \in withheld}
        fitting == FittingInputs(snapshot, withheld)
        remaining == {o \in fitting : o.expiry = expiry}
        slice == IF remaining = {} THEN None ELSE ExpirySliceDiagnostics(remaining, snapshot.spot)
        evidence == {ClassifyLeg(leg, slice, remaining, 1) : leg \in legs}
        adjacent == {s \in snapshot.slices : s.expiry # expiry}
    IN IF hidden = {} THEN None
       ELSE [mode |-> mode, expiry |-> expiry, fitting |-> fitting, truth |-> hidden, withheld |-> withheld,
             slice |-> slice, evidence |-> evidence,
             readiness |-> ClassifySurfaceReadiness(slice, evidence, adjacent),
             hash |-> <<snapshot.hash, mode, expiry, withheld, {<<o.name, o.id, o.iv>> : o \in hidden}>>]

BuildSingleContractHoldouts(snapshot, expiry) ==
    LET own == ObservationsFor(snapshot, expiry)
        Leg(n) == LET o == CHOOSE p \in own : p.name = n IN [strike |-> o.strike, type |-> o.type, name |-> n]
    IN {BuildHoldoutCase(snapshot, expiry, "exact_target_contract", {n}, {Leg(n)}) : n \in {o.name : o \in own}}

\* A vertical: both legs withheld, its credit only of two real prints.
BuildSpreadHoldout(snapshot, expiry, short, long) ==
    LET Freshest(leg) == LET own == {o \in ObservationsFor(snapshot, expiry) : o.name = leg.name}
                         IN IF own = {} THEN None ELSE FirstBy(own, LAMBDA o : <<o.age, o.id>>)
        s == Freshest(short)
        l == Freshest(long)
        both == s # None /\ l # None
        gap == IF both THEN Abs(s.at - l.at) ELSE None
        mode == CASE both -> "structure_both_legs"
                  [] ~both /\ s # None -> "structure_short_leg"
                  [] OTHER -> "structure_long_leg"
    IN IF s = None /\ l = None THEN None
       ELSE [holdout |-> BuildHoldoutCase(snapshot, expiry, mode, {short.name, long.name}, {short, long}),
             short |-> short.name, long |-> long.name, gap |-> gap,
             class |-> CASE ~both -> "single_leg_only"
                         [] both /\ Abs(s.at - l.at) <= SynchronousWindow -> "synchronous"
                         [] OTHER -> "asynchronous_within_window",
             age |-> Max({o.age : o \in {s, l} \ {None}}),
             credit |-> IF both THEN s.price - l.price ELSE None]

\* Buckets by whole days, by moneyness and by age, lowest bound first.
BucketOf(value, bounds) == Cardinality({i \in DOMAIN bounds : value >= bounds[i]})
DteBucket(dte) == BucketOf(dte, <<3 * Day, 7 * Day, 14 * Day, 30 * Day>>)
MoneynessBucket(k) == [side |-> IF Abs(k) <= 4 THEN "atm" ELSE IF k < 0 THEN "below" ELSE "above",
                       distance |-> BucketOf(Abs(k), <<5, 11, 25>>)]

SummarizeHoldouts(cases) ==
    LET truths == UNION {c.truth : c \in cases}
        PerMode(m) == Cardinality({c \in cases : c.mode = m})
        Of(c) == CHOOSE o \in c.truth : TRUE
    IN [cases |-> Cardinality(cases), truths |-> MapThenSumSet(LAMBDA c : Cardinality(c.truth), cases),
        modes |-> [m \in {c.mode : c \in cases} |-> PerMode(m)],
        dte |-> [b \in 0..4 |-> Cardinality({c \in cases : DteBucket(Of(c).dte) = b})],
        moneyness |-> [b \in {MoneynessBucket(o.k) : o \in truths} |->
                          Cardinality({c \in cases : MoneynessBucket(Of(c).k) = b})],
        hash |-> {c.hash : c \in cases}]

(***************************************************************************)
(* Errors.  Their mean stays a fraction; the quantile is a member.          *)
(***************************************************************************)
SummarizeErrors(error) ==
    LET known == {c \in DOMAIN error : error[c] # None}
        n == Cardinality(known)
        ordered == InOrder(known, LAMBDA c, d : Lower(<<Abs(error[c]), c.id>>, <<Abs(error[d]), d.id>>))
        absolute == [i \in DOMAIN ordered |-> Abs(error[ordered[i]])]
    IN IF known = {} THEN [count |-> 0, mean |-> None, mae |-> None, median |-> None, mse |-> None,
                           p90 |-> None, p95 |-> None, worst |-> None]
       ELSE [count |-> n, mean |-> Frac(MapThenSumSet(LAMBDA c : error[c], known), n),
             mae |-> Frac(MapThenSumSet(LAMBDA c : Abs(error[c]), known), n),
             median |-> Middle(absolute),
             mse |-> Frac(MapThenSumSet(LAMBDA c : error[c] * error[c], known), n),
             p90 |-> Quantile(absolute, 9, 10), p95 |-> Quantile(absolute, 19, 20), worst |-> absolute[n]]

Available(cases) == {c \in cases : c.status = "available"}
ReasonsOf(cases) == LET missing == cases \ Available(cases)
                    IN [r \in {c.reason : c \in missing} |-> Cardinality({c \in missing : c.reason = r})]

\* One method: its errors, and each smile's mean counted once.
SummarizeMethod(cases, cohort) ==
    LET answered == Available(cases)
        smiles == {<<c.event, c.target, c.expiry>> : c \in answered}
        Of(g) == {c \in answered : <<c.event, c.target, c.expiry>> = g}
    IN [cohort |-> cohort, eligible |-> Cardinality(answered),
        unavailable |-> Cardinality(cases) - Cardinality(answered), reasons |-> ReasonsOf(cases),
        iv |-> SummarizeErrors([c \in answered |-> c.error]),
        price |-> SummarizeErrors([c \in answered |-> c.price]),
        grouped |-> [g \in smiles |-> SummarizeErrors([c \in Of(g) |-> c.error]).mean],
        groups |-> Cardinality(smiles)]

SummarizeBy(cases, bucket) ==
    [b \in {bucket[c] : c \in cases} |->
        LET own == {c \in cases : bucket[c] = b} IN SummarizeMethod(own, Cardinality(own))]

\* The methods ranked without one event, those without an error last.
LeaveOneEventOut(byMethod) ==
    LET all == UNION {byMethod[m] : m \in DOMAIN byMethod}
        Kept(m, e) == {c \in Available(byMethod[m]) : c.event # e}
        Mae(m, e) == SummarizeErrors([c \in Kept(m, e) |-> c.error]).mae
        Better(m, l, e) == IF Mae(m, e) = None THEN FALSE
                           ELSE IF Mae(l, e) = None THEN TRUE ELSE Minus(Mae(m, e), Mae(l, e)).n < 0
    IN [e \in {c.event : c \in all} \ {None} |->
           [remaining |-> Cardinality({c \in all : c.event # e}),
            ranking |-> [m \in DOMAIN byMethod |->
                            [place |-> Cardinality({l \in DOMAIN byMethod : Better(l, m, e)}),
                             mae |-> Mae(m, e), eligible |-> Cardinality(Kept(m, e))]]]]

SummarizeSpreads(cases, cohort) ==
    LET answered == Available(cases)
        flips == {c \in answered : c.flip}
    IN [cohort |-> cohort, eligible |-> Cardinality(answered), reasons |-> ReasonsOf(cases),
        credit |-> SummarizeErrors([c \in answered |-> c.error]),
        flips |-> Cardinality(flips),
        rate |-> IF answered = {} THEN None ELSE Frac(Cardinality(flips), Cardinality(answered))]

(***************************************************************************)
(* The measurement: the moments of an event, the readiness of a structure  *)
(* at each of them, and the cases taken there.                              *)
(***************************************************************************)
MeasuredTargets(entry, named, last, step, entryOnly) ==
    {entry} \cup {t \in named : t > entry /\ t <= last}
        \cup IF entryOnly THEN {} ELSE {t \in entry..last : t > entry /\ (t - entry) % step = 0}

StructureReadiness(snapshot, expiry, short, long) ==
    LET slice == SliceFor(snapshot, expiry)
        own == ObservationsFor(snapshot, expiry)
        legs == {ClassifyLeg(leg, slice, own, 1) : leg \in {short, long}}
        adjacent == {s \in snapshot.slices : s.expiry # expiry}
        maturity == MaturityCoverage(snapshot.slices, expiry, StrikesAdjacent)
    IN [readiness |-> ClassifySurfaceReadiness(slice, legs, adjacent).readiness, legs |-> legs,
        strikes |-> IF slice = None THEN 0 ELSE Cardinality(slice.strikes),
        bracketed |-> IF slice = None THEN FALSE ELSE slice.bracketed,
        maturity |-> maturity.bracketed]

\* The cases of one moment; a moment without an index has none.
MeasuredCases(tape, target, structures) ==
    LET spot == CausalUnderlyingPrice(tape, target)
        window == SelectSeq(tape, LAMBDA p : p.at \in (target - MarketIvMaxAge)..target)
        snapshot == BuildSurfaceSnapshot(window, target, spot, MarketIvMaxAge, None, {})
        alive == {s \in structures : target <= s.expiry}
    IN IF spot = None THEN [snapshot |-> None, singles |-> {}, spreads |-> {}]
       ELSE [snapshot |-> snapshot,
             singles |-> UNION {BuildSingleContractHoldouts(snapshot, s.expiry) : s \in alive},
             spreads |-> {BuildSpreadHoldout(snapshot, s.expiry, s.short, s.long) : s \in alive} \ {None}]

\* For each contract the latest print of the band before the hour, both ends in.
AnchorBand(target) == (target - AnchorMaxAge)..(target - MarketIvMaxAge)
FetchPriorAnchors(prints, target) ==
    LET seen == {p \in prints : /\ p.at \in AnchorBand(target) /\ p.iv # None /\ p.index # None
                                /\ IF p.iv = None THEN FALSE ELSE p.iv > 0}
    IN [n \in {p.name : p \in seen} |->
           FirstBy({p \in seen : p.name = n}, LAMBDA p : <<-p.at, p.id>>)]

(***************************************************************************)
(* The scores of a case.  Errors are those of the square, rounded down.    *)
(***************************************************************************)
RuleStrikes == [rule_a |-> 2, rule_b |-> 3, rule_c |-> 5]
Methods == {"local_iv_anchor", "linear_interpolation"} \cup DOMAIN RuleStrikes

TargetOf(o) == [k |-> o.k, base |-> o.base, expiry |-> o.expiry, at |-> o.at + o.age, strike |-> o.strike]
SmileOf(holdout) == AggregateSlice({o \in holdout.fitting : o.expiry = holdout.expiry})
EstimateBy(method, points, anchor, target) ==
    CASE method = "local_iv_anchor" -> EstimateLocalIvAnchor(anchor, target, AnchorMaxAge)
      [] method = "linear_interpolation" -> EstimateLinearInterpolation(points, target)
      [] OTHER -> EstimateHybrid(points, anchor, target, RuleStrikes[method],
                                 target.expiry - target.at < Day).estimate

ScoreCase(holdout, anchors, event) ==
    LET truth == FirstBy(holdout.truth, LAMBDA o : <<o.at, o.id, o.iv>>)
        iv == Middle(Ascending(holdout.truth, LAMBDA o : o.iv))
        anchor == IF truth.name \in DOMAIN anchors THEN anchors[truth.name] ELSE None
        Score(method) ==
            LET e == EstimateBy(method, SmileOf(holdout), anchor, TargetOf(truth))
                error == IF e.variance = None THEN None
                         ELSE (4 * e.variance.n) \div e.variance.d - iv * iv
            IN [id |-> truth.name, event |-> event, target |-> truth.at + truth.age,
                expiry |-> holdout.expiry, method |-> method, bucket |-> holdout.readiness.readiness,
                status |-> e.status, reason |-> e.reason, error |-> error, price |-> error,
                estimate |-> e]
    IN [method \in Methods |-> Score(method)]

\* A spread is scored by a method that prices both of its real legs.
ScoreSpread(spread, anchors, event) ==
    LET Truth(n) == FirstBy({o \in spread.holdout.truth : o.name = n}, LAMBDA o : <<o.age, o.id>>)
        Anchor(n) == IF n \in DOMAIN anchors THEN anchors[n] ELSE None
        Leg(method, n) == EstimateBy(method, SmileOf(spread.holdout), Anchor(n), TargetOf(Truth(n)))
        Of(method) ==
            LET s == Leg(method, spread.short)
                l == Leg(method, spread.long)
                both == s.status = "available" /\ l.status = "available"
                credit == s.variance.n \div s.variance.d - l.variance.n \div l.variance.d
            IN [id |-> spread.short, event |-> event,
                status |-> IF both THEN "available" ELSE "unavailable",
                reason |-> CASE both -> None
                             [] ~both /\ s.reason # None -> s.reason
                             [] OTHER -> l.reason,
                error |-> IF both THEN credit - spread.credit ELSE None,
                flip |-> both /\ IF both THEN (credit > 0) # (spread.credit > 0) \/ (credit < 0) # (spread.credit < 0)
                                 ELSE FALSE]
    IN [method \in Methods |->
           IF spread.credit = None
           THEN [id |-> spread.short, event |-> event, status |-> "unavailable",
                 reason |-> "no_two_leg_observed_truth", error |-> None, flip |-> FALSE]
           ELSE Of(method)]

\* Exactly the recorded cases, by snapshot, expiry and what they withhold.
NaturalKey(case) == <<case.hash[1], case.expiry, case.withheld>>
FrozenCohort(recorded, rebuilt) ==
    [cohort |-> {c \in rebuilt : NaturalKey(c) \in recorded},
     missing |-> recorded \ {NaturalKey(c) : c \in rebuilt},
     extra |-> {NaturalKey(c) : c \in rebuilt} \ recorded]
=============================================================================
