------------------------ MODULE UnderlyingResolution ------------------------
(***************************************************************************)
(* How long events take to resolve: the normalized events, the survival    *)
(* curve of those still open and the percentiles read off either.          *)
(*                                                                         *)
(* An event of a dataset is [id, at, direction, price, touch, breach,      *)
(* ends, sequence, path], the path a set of [at, low, high]; times are     *)
(* kept in minutes.  A survival probability is a pair <<over, under>> and  *)
(* an interpolated percentile is hundredths.                               *)
(***************************************************************************)
EXTENDS ResearchAnalytics

ResolvedOutcomes == {"vpoc_first", "invalidation_first", "ambiguous"}
Elapsed(from, to) == IF from = None \/ to = None THEN None ELSE to - from
Defined(values) == {x \in values : x # None}
FirstOf(times) == IF Defined(times) = {} THEN None ELSE Min(Defined(times))

\* The way a position had to go, until its thesis was answered.
Excursion(e, until) ==
    LET seen == {c \in e.path : e.at <= c.at /\ c.at <= until}
        high == Max({c.high : c \in seen})
        low == Min({c.low : c \in seen})
    IN IF None \in {e.price, e.direction, e.at, until} THEN None
       ELSE IF seen = {} THEN None
       ELSE IF e.direction = "long" THEN [favourable |-> high - e.price, adverse |-> low - e.price]
       ELSE [favourable |-> e.price - low, adverse |-> e.price - high]

NormalizeMrEvent(e) ==
    LET observed == Elapsed(e.at, e.ends)
        toVpoc == IF e.sequence \in {"vpoc_first", "ambiguous"} THEN Elapsed(e.at, e.touch) ELSE None
        toInvalidation == IF e.sequence \in {"invalidation_first", "ambiguous"} THEN Elapsed(e.at, e.breach) ELSE None
        toResolution == FirstOf({toVpoc, toInvalidation})
    IN [id |-> e.id, at |-> e.at, direction |-> e.direction, outcome |-> e.sequence,
        censored |-> e.sequence = "unresolved", toVpoc |-> toVpoc, toInvalidation |-> toInvalidation,
        toResolution |-> toResolution, observed |-> observed,
        excursion |-> Excursion(e, IF toResolution = None THEN e.ends ELSE e.at + toResolution),
        ineligible |-> IF e.at = None THEN "missing_entry_timestamp"
                       ELSE IF (IF observed = None THEN TRUE ELSE observed <= 0) THEN "no_observation_window" ELSE None]

(***************************************************************************)
(* The event-free probability.  An observation is [time, observed]; those  *)
(* censored at a time are at risk of the events of that time, and leave    *)
(* the risk set only then.                                                 *)
(***************************************************************************)
InTime(observations) == SelectSeq(observations, LAMBDA o : o.time >= 0)
CountOf(observations, Test(_)) == Len(SelectSeq(observations, Test))
AtRiskOfCensored(observations, t) == CountOf(observations, LAMBDA o : o.time > t \/ (o.observed /\ o.time = t))
AtRisk(observations, t) == CountOf(observations, LAMBDA o : o.time >= t)

KaplanMeierPoint(observations, t, survival) ==
    [time |-> t, atRisk |-> AtRisk(observations, t), survival |-> survival,
     events |-> CountOf(observations, LAMBDA o : o.observed /\ o.time = t),
     censored |-> CountOf(observations, LAMBDA o : ~o.observed /\ o.time = t)]
Survivors(survival, point) == <<survival[1] * (point.atRisk - point.events), survival[2] * point.atRisk>>

KaplanMeier(all) ==
    LET observations == InTime(all)
        times == {observations[k].time : k \in DOMAIN observations}
        steps == SetToSortSeq({observations[k].time : k \in {j \in DOMAIN observations : observations[j].observed}}, <)
        anchor == [time |-> 0, atRisk |-> Len(observations), survival |-> <<1, 1>>, events |-> 0, censored |-> 0]
        Step(curve, t) ==
            LET point == KaplanMeierPoint(observations, t, Last(curve).survival)
            IN Append(curve, [point EXCEPT !.survival = Survivors(@, point)])
        curve == FoldLeft(Step, <<anchor>>, steps)
        followed == Max(times)
    IN IF observations = <<>> THEN <<>>
       ELSE IF followed > Last(curve).time
       THEN Append(curve, [KaplanMeierPoint(observations, followed, Last(curve).survival) EXCEPT !.events = 0])
       ELSE curve

\* The first time by which a percentage of the events has happened, if it ever has.
KaplanMeierQuantile(curve, percent) ==
    LET fallen == {k \in DOMAIN curve : 100 * curve[k].survival[1] <= (100 - percent) * curve[k].survival[2]}
    IN IF fallen = {} \/ percent <= 0 \/ percent >= 100 THEN None ELSE curve[Min(fallen)].time
RiskSummary(all) ==
    LET observations == InTime(all)
        observed == CountOf(observations, LAMBDA o : o.observed)
    IN [effective |-> Len(observations), observed |-> observed, censored |-> Len(observations) - observed]

\* Of a sample that all happened: between the two nearest order statistics.
ObservedPercentile(values, percent) ==
    LET sorted == SortSeq(values, <)
        index == (Len(sorted) - 1) * percent
        lower == 1 + index \div 100
        upper == IF index % 100 = 0 THEN lower ELSE lower + 1
    IN IF sorted = <<>> \/ percent <= 0 \/ percent >= 100 THEN None
       ELSE 100 * sorted[lower] + (sorted[upper] - sorted[lower]) * (index % 100)
FiveNumber(values) ==
    IF values = <<>> THEN None
    ELSE [min |-> 100 * Min(Range(values)), q1 |-> ObservedPercentile(values, 25),
          median |-> ObservedPercentile(values, 50), q3 |-> ObservedPercentile(values, 75),
          max |-> 100 * Max(Range(values)), n |-> Len(values)]

(***************************************************************************)
(* The report of a sequence of events: the two endpoints as what was seen  *)
(* of those that reached them first, the first resolution as survival.     *)
(***************************************************************************)
Percentiles == {20, 50, 80, 90}
Values(events, Of(_)) == SelectSeq([k \in DOMAIN events |-> Of(events[k])], LAMBDA x : x # None)
OutcomeCounts(events) ==
    [of \in ResolvedOutcomes \cup {"unresolved"} |-> CountOf(events, LAMBDA e : e.outcome = of)]

ConditionalBlock(events, endpoint) ==
    LET reached == SelectSeq(events, LAMBDA e : e.outcome = endpoint)
        times == Values(reached, LAMBDA e : IF endpoint = "vpoc_first" THEN e.toVpoc ELSE e.toInvalidation)
    IN [observed |-> Len(times), percentiles |-> [p \in Percentiles |-> ObservedPercentile(times, p)]]

ResolutionObservations(events) ==
    LET Of(e) == [time |-> IF e.outcome \in ResolvedOutcomes THEN e.toResolution ELSE e.observed,
                  observed |-> e.outcome \in ResolvedOutcomes]
    IN SelectSeq([k \in DOMAIN events |-> Of(events[k])], LAMBDA o : IF o.time = None THEN FALSE ELSE o.time >= 0)
ResolutionBlock(events) ==
    LET observations == ResolutionObservations(events)
        curve == KaplanMeier(observations)
    IN RiskSummary(observations) @@ [percentiles |-> [p \in Percentiles |-> KaplanMeierQuantile(curve, p)]]

ExcursionSummary(events) ==
    LET seen == SelectSeq(events, LAMBDA e : e.excursion # None)
    IN [available |-> Len(seen), total |-> Len(events),
        favourable |-> ObservedPercentile(Values(seen, LAMBDA e : e.excursion.favourable), 50),
        adverse |-> ObservedPercentile(Values(seen, LAMBDA e : e.excursion.adverse), 50)]

BuildUnderlyingResolutionReport(rows) ==
    LET events == [k \in DOMAIN rows |-> NormalizeMrEvent(rows[k])]
        eligible == SelectSeq(events, LAMBDA e : e.ineligible = None)
        Of(direction) == SelectSeq(eligible, LAMBDA e : e.direction = direction)
    IN [total |-> Len(events), effective |-> Len(eligible), counts |-> OutcomeCounts(eligible),
        resolved |-> CountOf(eligible, LAMBDA e : e.outcome \in ResolvedOutcomes),
        endpoints |-> [of \in {"vpoc_first", "invalidation_first"} |-> ConditionalBlock(eligible, of)],
        resolution |-> ResolutionBlock(eligible), survival |-> KaplanMeier(ResolutionObservations(eligible)),
        byDirection |-> [d \in {"long", "short"} |->
                            [counts |-> OutcomeCounts(Of(d)), summary |-> FiveNumber(Values(Of(d), LAMBDA e : e.toResolution))]],
        excursion |-> [overall |-> ExcursionSummary(eligible)]
                      @@ [of \in {"vpoc_first", "invalidation_first"} |->
                             ExcursionSummary(SelectSeq(eligible, LAMBDA e : e.outcome = of))]]
=============================================================================
