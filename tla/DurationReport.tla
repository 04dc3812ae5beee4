----------------------------- MODULE DurationReport -----------------------------
(***************************************************************************)
(* The duration report over a set of studies: one structure a candidate,   *)
(* one population a horizon, the comparisons matched one to one.  Shares   *)
(* are pairs [of, all] and medians hundredths.  Of a horizon family only   *)
(* its nominal days stay.                                                  *)
(***************************************************************************)
EXTENDS DurationDte

MedianOver(S, Of(_)) == ObservedPercentile(Values(SetToSeq(S), Of), 50)
PercentileOver(S, Of(_), p) == ObservedPercentile(Values(SetToSeq(S), Of), p)
KnownOf(S, Of(_)) == {x \in S : Of(x) # None}
Share(S, T) == [of |-> Cardinality(T), all |-> Cardinality(S)]

BuildHorizonFamilies(studies) ==
    UNION {{r.horizon : r \in {x \in s.data.availability \cup s.data.candidates : x.horizon # None}} : s \in studies}

(***************************************************************************)
(* Coverage of a horizon: an event counts once, however many structures it *)
(* generated, and what was never assessed is neither unavailable nor zero. *)
(***************************************************************************)
ScenarioCoverage(rows, scenario, eligible) ==
    LET own == {r \in rows : r.row.scenario = scenario}
        evaluated == {r \in own : r.row.status = "evaluated"}
    IN [status |-> CASE own = {} -> "not_evaluated"
                     [] own # {} /\ evaluated # {} -> "measured"
                     [] own # {} /\ evaluated = {} ->
                            IF \E r \in own : r.row.status = "unavailable" THEN "unavailable" ELSE "not_evaluated",
        events |-> Cardinality({r.event : r \in evaluated}), eligible |-> eligible]

CandidateRows(studies) == UNION {{[event |-> s.event.id, row |-> c] : c \in s.data.candidates} : s \in studies}
ChosenRow(rows) ==
    CHOOSE r \in rows : IF \E x \in rows : x.selected = TRUE THEN r.selected = TRUE
                        ELSE (\E x \in rows : x.status = "priced") => r.status = "priced"
HorizonAvailability(studies, n) ==
    LET at == [s \in studies |-> {a \in s.data.availability : a.horizon = n}]
        eligible == {s \in studies : at[s] # {}}
        priced == {s \in eligible : ChosenRow(at[s]).status = "priced"}
        rows == {r \in CandidateRows(studies) : r.row.horizon = n}
    IN [horizon |-> n, eligible |-> Cardinality(eligible), priced |-> Cardinality(priced),
        quality |-> [q \in {"green", "yellow", "red", None} |->
                        Cardinality({s \in priced : ChosenRow(at[s]).quality = q})],
        selected |-> Cardinality({r.event : r \in rows}),
        coverage |-> [mode \in Modes |-> ScenarioCoverage(rows, mode, Cardinality(eligible))],
        sync |-> [mode \in Modes |->
                     MedianOver({r \in rows : r.row.scenario = mode /\ r.row.status = "evaluated"}, LAMBDA r : r.row.sync)]]
GlobalScenarioCoverage(studies) ==
    [mode \in Modes |->
        ScenarioCoverage(CandidateRows(studies), mode, Cardinality({s \in studies : s.data.availability # {}}))]

(***************************************************************************)
(* Populations: one row a structure, and one structure an event and        *)
(* horizon unless its variants disagree on what they share.                *)
(***************************************************************************)
EligibleOf(rows) == {c \in rows : c.ineligible = None}
AtHorizon(rows, n) == {c \in EligibleOf(rows) : c.horizon = n}

ToStructures(rows) ==
    LET Own(id) == {c \in rows : c.id = id}
        Pool(id) == IF \E c \in Own(id) : c.status = "evaluated" THEN {c \in Own(id) : c.status = "evaluated"}
                    ELSE Own(id)
    IN {CHOOSE c \in Pool(id) : (\E x \in Pool(id) : x.scenario = "maker") => c.scenario = "maker" :
           id \in {c.id : c \in rows}}

SharedFacts(c) == <<c.expiry, c.dte, c.entry>>
EventHorizonPopulation(structures) ==
    LET groups == {{x \in structures : x.event = c.event /\ x.horizon = c.horizon} : c \in structures}
        agreeing == {g \in groups : \A x, y \in g : SharedFacts(x) = SharedFacts(y)}
    IN [population |-> {CHOOSE c \in g : TRUE : g \in agreeing}, conflicts |-> groups \ agreeing]

(***************************************************************************)
(* The tables of a horizon.                                                *)
(***************************************************************************)
Buckets == {"vpoc_before_expiry", "invalidation_before_expiry", "ambiguous_before_expiry",
            "no_resolution_before_expiry", "vpoc_before_structure_entry"}
OutcomeBeforeExpiryRow(structures, n) ==
    LET at == AtHorizon(structures, n)
    IN [counts |-> [b \in Buckets |-> Cardinality({c \in at : c.bucket = b})],
        detail |-> [x \in {"resolved_later", "still_unresolved"} |-> Cardinality({c \in at : c.detail = x})],
        undetermined |-> Cardinality({c \in at : c.bucket = None})]

OverviewRow(structures, rows, references, n) ==
    LET at == AtHorizon(structures, n)
        known == {c \in at : c.within # None}
    IN [events |-> Cardinality({c.event : c \in at}),
        unavailable |-> [x \in {"not_evaluated", "unavailable"} |-> Cardinality({c \in AtHorizon(rows, n) : c.status = x})],
        dte |-> FiveNumber(Values(SetToSeq(at), LAMBDA c : c.dte)),
        covered |-> Share(known, {c \in known : c.within}),
        unresolved |-> Share(known, {c \in known : c.bucket = "no_resolution_before_expiry"}),
        buffer |-> MedianOver(at, LAMBDA c : c.buffer),
        capture |-> MedianOver(AtHorizon(references, n),
                               LAMBDA c : IF FieldOf(c.capture[50], "reached") = TRUE THEN c.capture[50].after ELSE None)]

DteBufferRow(structures, n) == FiveNumber(Values(SetToSeq(AtHorizon(structures, n)), LAMBDA c : c.buffer))

HoldingPeriodRow(structures, n) ==
    LET at == AtHorizon(structures, n)
        settled == {c \in at : c.heldToExpiry # None}
    IN [held |-> Cardinality(KnownOf(at, LAMBDA c : c.holding)), median |-> MedianOver(at, LAMBDA c : c.holding),
        p80 |-> PercentileOver(at, LAMBDA c : c.holding, 80), toSettlement |-> Share(settled, {c \in settled : c.heldToExpiry})]

CaptureRow(rows, n, threshold) ==
    LET all == {[id |-> c.id, of |-> c.capture[threshold]] :
                   c \in {x \in AtHorizon(rows, n) : x.capture[threshold] # None}}
        evaluable == {c \in all : c.of.evaluable}
        reached == {c \in evaluable : c.of.reached}
        Before(Of(_)) == Share(KnownOf(all, Of), {c \in all : Of(c) = TRUE})
    IN [all |-> Cardinality(evaluable), reached |-> Cardinality(reached),
        unavailable |-> Cardinality(all) - Cardinality(evaluable), median |-> MedianOver(reached, LAMBDA c : c.of.after),
        beforeVpoc |-> Before(LAMBDA c : c.of.beforeVpoc), beforeInvalidation |-> Before(LAMBDA c : c.of.beforeInvalidation)]

PnlRow(rows, n) ==
    [b \in Buckets |->
        LET items == {c \in AtHorizon(rows, n) : c.bucket = b}
            ResultOf(c) == IF b = "ambiguous_before_expiry" THEN c.ambiguous ELSE RealizedPnlOf(c)
            worst == KnownOf(items, LAMBDA c : c.adverse.worst)
        IN [n |-> Cardinality(items), priced |-> Cardinality(KnownOf(items, ResultOf)), pnl |-> MedianOver(items, ResultOf),
            worst |-> MedianOver(items, LAMBDA c : c.adverse.worst),
            before |-> MedianOver(items, LAMBDA c : c.adverse.before),
            reasons |-> [x \in {c.adverse.status : c \in items \ worst} |->
                            Cardinality({c \in items \ worst : c.adverse.status = x})]]]
AdverseDiagnostics(rows) ==
    [status |-> [x \in {c.adverse.status : c \in rows} |-> Cardinality({c \in rows : c.adverse.status = x})],
     valued |-> Cardinality(KnownOf(rows, LAMBDA c : c.adverse.worst)),
     profited |-> Cardinality(KnownOf(rows, LAMBDA c : c.adverse.before))]

(***************************************************************************)
(* The longer horizon less the shorter, within one structural variant; a   *)
(* variant that is twice at a horizon is there with its earliest expiry.   *)
(***************************************************************************)
VariantsAt(rows, n) == {c.variant : c \in AtHorizon(rows, n)}
OfVariant(rows, n, v) ==
    LET own == {c \in AtHorizon(rows, n) : c.variant = v}
        dated == {c \in own : c.expiry # None}
    IN IF dated = {} THEN CHOOSE c \in own : TRUE ELSE CHOOSE c \in dated : \A x \in dated : c.expiry <= x.expiry

CapturedAfter(o) == IF o = None THEN None ELSE IF o.reached THEN o.after ELSE None
Delta(x, y, Of(_)) == Difference(Of(x), Of(y))
MatchedDteComparison(rows, shorter, longer) ==
    LET matched == {<<OfVariant(rows, longer, v), OfVariant(rows, shorter, v)>> :
                       v \in VariantsAt(rows, longer) \cap VariantsAt(rows, shorter)}
        events == {p[1].event : p \in matched}
        PerEvent(Of(_)) ==
            MedianOver({[event |-> e, value |-> MedianOver({p \in matched : p[1].event = e},
                                                           LAMBDA p : Delta(p[1], p[2], Of))] : e \in events},
                       LAMBDA x : x.value)
        Comparable(Of(_)) == Cardinality({p \in matched : Delta(p[1], p[2], Of) # None})
        Capture(c) == CapturedAfter(c.capture[50])
    IN [matched |-> Cardinality(matched), events |-> Cardinality(events),
        pnl |-> PerEvent(RealizedPnlOf), worst |-> PerEvent(LAMBDA c : c.adverse.worst),
        holding |-> PerEvent(LAMBDA c : c.holding), capture |-> PerEvent(Capture), dte |-> PerEvent(LAMBDA c : c.dte),
        comparable |-> [pnl |-> Comparable(RealizedPnlOf), worst |-> Comparable(LAMBDA c : c.adverse.worst),
                        holding |-> Comparable(LAMBDA c : c.holding), capture |-> Comparable(Capture)],
        shorterOnly |-> Cardinality(VariantsAt(rows, shorter) \ VariantsAt(rows, longer)),
        longerOnly |-> Cardinality(VariantsAt(rows, longer) \ VariantsAt(rows, shorter))]

(***************************************************************************)
(* Maker less taker, of a structure that both were evaluated for.          *)
(***************************************************************************)
MatchedExecution(rows, n) ==
    LET Evaluated(mode) == {c \in AtHorizon(rows, n) : c.scenario = mode /\ c.status = "evaluated" /\ ~c.legacy}
        Ids(mode) == {c.id : c \in Evaluated(mode)}
        Of(id, mode) == CHOOSE c \in Evaluated(mode) : c.id = id
        pairs == {<<Of(id, "maker"), Of(id, "taker")>> : id \in Ids("maker") \cap Ids("taker")}
        Drag(What(_)) == MedianOver(pairs, LAMBDA p : Delta(p[1], p[2], What))
    IN [matched |-> Cardinality(pairs), makerOnly |-> Cardinality(Ids("maker") \ Ids("taker")),
        takerOnly |-> Cardinality(Ids("taker") \ Ids("maker")), pnl |-> Drag(ObservedPnlOf),
        worst |-> Drag(LAMBDA c : c.observedAdverse.worst),
        capture |-> Drag(LAMBDA c : CapturedAfter(c.observedCapture[50])), sync |-> Drag(LAMBDA c : c.sync)]

(***************************************************************************)
(* How much each horizon depends on a fast resolution.                     *)
(***************************************************************************)
ResolutionSpeedBoundaries(studies) ==
    LET events == {[id |-> s.event.id, after |-> NormalizeMrEvent(s.event).toResolution] :
                      s \in {x \in studies : NormalizeMrEvent(x.event).ineligible = None}}
        resolved == KnownOf(events, LAMBDA e : e.after)
    IN [p25 |-> PercentileOver(resolved, LAMBDA e : e.after, 25), p75 |-> PercentileOver(resolved, LAMBDA e : e.after, 75),
        resolved |-> Cardinality(resolved), unresolved |-> Cardinality(events \ resolved)]
CohortOf(after, b) ==
    CASE after = None -> "unresolved"
      [] after # None -> IF b.p25 # None /\ 100 * after < b.p25 THEN "fast"
                         ELSE IF b.p75 # None /\ 100 * after > b.p75 THEN "slow" ELSE "normal"
ResolutionSpeed(studies, structures, economics, n) ==
    LET b == ResolutionSpeedBoundaries(studies)
        Group(rows, cohort) == {c \in AtHorizon(rows, n) : CohortOf(c.mr.toResolution, b) = cohort}
    IN IF b.resolved < 2 THEN None
       ELSE [cohort \in {"fast", "normal", "slow", "unresolved"} |->
                LET at == Group(structures, cohort)
                    known == {c \in at : c.within # None}
                    settled == {c \in at : c.heldToExpiry # None}
                IN [n |-> Cardinality(at), survived |-> Share(known, {c \in known : c.within}),
                    settlement |-> Share(settled, {c \in settled : c.heldToExpiry}),
                    pnl |-> MedianOver(Group(economics, cohort), RealizedPnlOf),
                    worst |-> MedianOver(Group(economics, cohort), LAMBDA c : c.adverse.worst)]]

\* The table of entries at fixed delays, as it stands; no other track is evidence of one.
BuildEntryDelayReport(studies) ==
    LET rows == UNION {s.data.delays : s \in studies}
        available == {r \in rows : r.status = "available"}
        Of(set, mode, hours) == {r \in set : r.scenario = mode /\ r.hours = hours}
    IN [hours \in FixedEntryDelayHours |-> [mode \in Modes |->
           [support |-> Cardinality({r.id : r \in Of(available, mode, hours)}),
            denominator |-> Cardinality({r.id : r \in Of(rows, mode, hours)}),
            actual |-> MedianOver(Of(available, mode, hours), LAMBDA r : r.actual - r.target + hours * HourLength),
            preEntry |-> Cardinality({r \in Of(rows, mode, hours) : r.status = "pre_entry_resolution"})]]]

(***************************************************************************)
(* Coverage is what the survival curve leaves, as a pair over the same.    *)
(***************************************************************************)
CoverageFromSurvival(curve) ==
    [k \in DOMAIN curve |-> [time |-> curve[k].time,
                             coverage |-> <<curve[k].survival[2] - curve[k].survival[1], curve[k].survival[2]>>]]

BuildDurationDteReport(studies, scenario) ==
    LET all == UNION {NormalizeDteCandidates(s) : s \in studies}
        structures == ToStructures(all)
        chosen == EventHorizonPopulation(structures)
        horizons == BuildHorizonFamilies(studies)
        underlying == BuildUnderlyingResolutionReport(SetToSeq({s.event : s \in studies}))
    IN [population |-> chosen.population, conflicts |-> chosen.conflicts, all |-> all,
        coverageCurve |-> CoverageFromSurvival(underlying.survival), coverage |-> GlobalScenarioCoverage(studies),
        overview |-> [n \in horizons |->
                         OverviewRow(chosen.population, {c \in all : c.scenario = scenario}, structures, n)],
        availability |-> [n \in horizons |-> HorizonAvailability(studies, n)],
        outcomes |-> [n \in horizons |-> OutcomeBeforeExpiryRow(chosen.population, n)],
        buffer |-> [n \in horizons |-> DteBufferRow(chosen.population, n)],
        holding |-> [n \in horizons |-> HoldingPeriodRow(chosen.population, n)],
        capture |-> [n \in horizons |-> [t \in Thresholds |-> CaptureRow(structures, n, t)]],
        pnl |-> [n \in horizons |-> PnlRow(structures, n)], adverse |-> AdverseDiagnostics(structures),
        matched |-> [p \in {x \in horizons \X horizons : x[1] < x[2]} |-> MatchedDteComparison(structures, p[1], p[2])],
        execution |-> [n \in horizons |-> MatchedExecution(all, n)],
        speed |-> [n \in horizons |-> ResolutionSpeed(studies, chosen.population, structures, n)],
        delay |-> BuildEntryDelayReport(studies)]
=============================================================================
