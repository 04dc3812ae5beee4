---------------------------- MODULE MCVolatility ----------------------------
(***************************************************************************)
(* The volatility algorithms over bounded tapes: the surface of one        *)
(* moment, the withheld contracts scored on it, and the states an export   *)
(* materializes.  A state is an algorithm and one of its inputs.           *)
(***************************************************************************)
EXTENDS HoldoutScoring, VolatilityMaterialization, Integers, Sequences, FiniteSets, FiniteSetsExt, SequencesExt, TLC

VARIABLES algorithm, input
taken == <<algorithm, input>>

\* A print of an option on an index of 100, and the forward it implies.
Option(n, i, t, k, y, e, v, f) ==
    [name |-> n, id |-> i, at |-> t, strike |-> k, type |-> y, expiry |-> e, created |-> 0,
     origin |-> "trade", iv |-> v, index |-> 100, price |-> v, forward |-> f]
TapeOf(prints) == InOrder(prints, LAMBDA p, q : p.at < q.at \/ (p.at = q.at /\ p.id < q.id))
KnownAt(tape, t) == SelectSeq(tape, LAMBDA p : p.at <= t)

(***************************************************************************)
(* The surface at minute 1000 of an expiry a week away: seven contracts,   *)
(* prints at the moment itself, an hour before, after it and long before,  *)
(* one without a volatility, one of a contract listed after its moment,    *)
(* and one of another expiry.                                              *)
(***************************************************************************)
Near1 == 11080
Far1 == 22000
SurfaceTarget == 1000
Fixed == {Option(1, 1, 950, 90, "P", Near1, 6, 100), Option(3, 3, 940, 100, "C", Near1, 3, 100),
          Option(6, 6, 980, 110, "C", Near1, 5, 100), Option(8, 10, 960, 100, "C", Far1, 4, 102)}
Optional == {Option(2, 2, 970, 95, "P", Near1, 4, 99), Option(4, 4, 990, 100, "P", Near1, 2, 101),
             Option(5, 5, 1000, 105, "C", Near1, 3, 104), Option(5, 8, 1005, 105, "C", Near1, 6, 110),
             Option(3, 7, 500, 100, "C", Near1, 4, 100), Option(2, 11, 930, 95, "P", Near1, 5, 97),
             Option(4, 12, 995, 100, "P", Near1, None, 100),
             [Option(7, 9, 1000, 115, "C", Near1, 2, 96) EXCEPT !.created = 1001]}
SurfaceInputs == [prints : {Fixed \cup S : S \in SUBSET Optional}, own : {{}, {2}, {3, 4}, {1, 6}}]

Snapshot(tape, maxAge, own) == BuildSurfaceSnapshot(tape, SurfaceTarget, 100, maxAge, None, own)
Legs1 == {[name |-> 2, strike |-> 95, type |-> "P", expiry |-> Near1],
          [name |-> 3, strike |-> 100, type |-> "C", expiry |-> Near1],
          [name |-> 7, strike |-> 115, type |-> "C", expiry |-> Near1]}
LegReference(tape, leg, own) ==
    LET section == BuildReferenceCrossSection(tape, leg.expiry, SurfaceTarget, 100, own, MarketIvMaxAge)
        anchors == FetchPriorAnchors({p \in {tape[i] : i \in DOMAIN tape} : p.expiry = leg.expiry}, SurfaceTarget)
    IN ValueReferenceLeg(leg, SurfaceTarget, section,
                         IF leg.name \in DOMAIN anchors THEN anchors[leg.name] ELSE None, 2)

\* A surface is its evidence and nothing else: it is the same had no later print come,
\* the pages come in another order or twice, or a longer window been asked for; a
\* leg's reference rests on no print of the legs left out, never lies outside
\* what it was made of, and is interpolated where the leg is inside the observed
\* strikes (buildSurfaceSnapshot, passesMarketStateRule, valueReferenceLeg,
\* classifyLeg, estimateLinearInterpolation).
SoundSurface(in) ==
    LET tape == TapeOf(in.prints)
        s == Snapshot(tape, MarketIvMaxAge, in.own)
        wide == Snapshot(tape, 4 * MarketIvMaxAge, in.own)
        without == SelectSeq(tape, LAMBDA p : p.name \notin in.own)
        Same(t) == LET u == Snapshot(t, MarketIvMaxAge, in.own)
                   IN <<u.observations, u.slices, u.hash>> = <<s.observations, s.slices, s.hash>>
        own == ObservationsFor(s, Near1)
        points == AggregateSlice(own)
    IN /\ Same(KnownAt(tape, SurfaceTarget)) /\ Same(Reverse(tape)) /\ Same(tape \o tape)
       /\ s.observations = {o \in wide.observations : PassesMarketStateRule(o)}
       /\ SnapshotFromObservations(s, {o \in wide.observations : PassesMarketStateRule(o)}) = s
       /\ \A leg \in Legs1 :
             LET r == LegReference(tape, leg, in.own)
                 used == {o.iv : o \in own}
                 class == ClassifyLeg(leg, SliceFor(s, Near1), own, 1).class
             IN /\ r = LegReference(KnownAt(tape, SurfaceTarget), leg, in.own)
                /\ LET section == BuildReferenceCrossSection(tape, Near1, SurfaceTarget, 100, in.own, 60)
                   IN section = BuildReferenceCrossSection(without, Near1, SurfaceTarget, 100, {}, 60)
                /\ r.at # None => r.at <= SurfaceTarget
                /\ r.source = "same_expiry_linear_interpolation" =>
                       /\ r.variance.n <= Max(used) * Max(used) * r.variance.d
                       /\ r.variance.n >= Min(used) * Min(used) * r.variance.d
                /\ class = "interpolation_candidate" => r.decline = None
       /\ AssessCallPutCompatibility(points).matched
            = Cardinality({k \in {p.strike : p \in points} :
                              {"C", "P"} \subseteq {o.type : o \in {x \in own : x.strike = k}}})

(***************************************************************************)
(* The same tapes with every contract withheld in turn, and a spread.      *)
(***************************************************************************)
HoldoutInputs == {Fixed \cup S : S \in SUBSET Optional}
Structures1 == {[expiry |-> Near1, short |-> [name |-> 2, strike |-> 95, type |-> "P"],
                 long |-> [name |-> 1, strike |-> 90, type |-> "P"]]}
Cases(prints) == MeasuredCases(TapeOf(prints), SurfaceTarget, Structures1)
\* What a score says without what it is measured against.
Estimates(scores) == [m \in DOMAIN scores |-> scores[m].estimate]
\* The tape with the volatility, not the forward, of the withheld contract changed.
Changed(prints, names) ==
    {IF p.name \in names /\ p.at >= SurfaceTarget - MarketIvMaxAge /\ p.iv # None
     THEN [p EXCEPT !.iv = 1] ELSE p : p \in prints}

ReadinessOrder == [surface_unidentifiable |-> 0, extrapolation_required |-> 1, cross_expiry_supported |-> 1,
                   same_expiry_sparse |-> 2, same_expiry_dense |-> 3]
Total(reasons) == MapThenSumSet(LAMBDA r : reasons[r], DOMAIN reasons)

\* Every case is in one summary of each kind and one bucket of each; a ranking without
\* one event is the same whatever that event's errors are (summarizeMethod, summarizeBy,
\* summarizeSpreads, summarizeHoldouts, leaveOneEventOut).
SummariesAddUp(measured, anchors) ==
    LET Scored(m) == {ScoreCase(c, anchors, c.withheld \subseteq 1..3)[m] : c \in measured.singles}
        Worse(c) == [c EXCEPT !.error = IF @ = None THEN None ELSE @ + 50]
        holdouts == SummarizeHoldouts(measured.singles)
        ranked == LeaveOneEventOut([m \in Methods |-> Scored(m)])
    IN /\ holdouts.cases = Total(holdouts.modes) /\ holdouts.cases = Total(holdouts.dte)
       /\ holdouts.cases = Total(holdouts.moneyness)
       /\ \A m \in Methods :
             LET summary == SummarizeMethod(Scored(m), Cardinality(Scored(m)))
                 by == SummarizeBy(Scored(m), [c \in Scored(m) |-> c.bucket])
                 spreads == SummarizeSpreads({ScoreSpread(s, anchors, 1)[m] : s \in measured.spreads},
                                             Cardinality(measured.spreads))
             IN /\ summary.eligible + summary.unavailable = summary.cohort
                /\ summary.iv.count + Total(summary.reasons) = summary.cohort
                /\ summary.cohort = MapThenSumSet(LAMBDA b : by[b].eligible + Total(by[b].reasons), DOMAIN by)
                /\ spreads.eligible + Total(spreads.reasons) = spreads.cohort /\ spreads.flips <= spreads.eligible
       /\ \A e \in DOMAIN ranked :
             ranked[e].ranking = LeaveOneEventOut([m \in Methods |->
                             {IF c.event = e THEN Worse(c) ELSE c : c \in Scored(m)}])[e].ranking

\* A case withholds all of a contract and only that, which never makes its surface readier;
\* its estimates would be the same had the withheld prints any other volatility (save of a
\* print exactly an hour old, which is also an anchor); the summaries miss none; and the
\* cases of any measured moment depend on nothing later nor on how its pages came, so that
\* a recorded cohort is found again (buildHoldoutCase, holdoutIsClean, scoreOne,
\* structureReadiness, frozen cohort).
SoundHoldouts(in) ==
    LET measured == Cases(in)
        anchors == FetchPriorAnchors(in, SurfaceTarget)
        spreads == {s.holdout : s \in measured.spreads}
        later == Cases({p \in in : p.at <= SurfaceTarget})
        recorded == {NaturalKey(c) : c \in measured.singles \cup spreads}
        again == MeasuredCases(Reverse(TapeOf(in)), SurfaceTarget, Structures1)
        frozen == FrozenCohort(recorded, again.singles \cup {s.holdout : s \in again.spreads})
    IN /\ \A c \in measured.singles \cup spreads :
             /\ HoldoutIsClean(c)
             /\ c.fitting \cup c.truth = measured.snapshot.observations
             /\ c.fitting \cap c.truth = {}
       /\ \A c \in measured.singles :
             LET other == Cases(Changed(in, c.withheld))
                 alike == CHOOSE d \in other.singles : d.withheld = c.withheld
             IN (\A o \in c.truth : o.age < MarketIvMaxAge) =>
                    Estimates(ScoreCase(c, anchors, 1))
                        = Estimates(ScoreCase(alike, FetchPriorAnchors(Changed(in, c.withheld), SurfaceTarget), 1))
       /\ \A s \in measured.spreads : \A m \in Methods :
             LET score == ScoreSpread(s, anchors, 1)[m]
             IN (score.status = "available") = (score.error # None)
       /\ SummariesAddUp(measured, anchors)
       /\ \A s \in Structures1 : \A c \in spreads :
             ReadinessOrder[StructureReadiness(measured.snapshot, s.expiry, s.short, s.long).readiness]
                 >= ReadinessOrder[c.readiness.readiness]
       /\ \A t \in MeasuredTargets(SurfaceTarget - 40, {985, 1200}, 1005, 20, FALSE) :
             LET cases == MeasuredCases(TapeOf(in), t, Structures1)
             IN \A c \in cases.singles : /\ HoldoutIsClean(c)
                                         /\ \A o \in c.fitting \cup c.truth : o.at <= t /\ o.at + o.age = t
       /\ measured.singles = later.singles /\ measured.spreads = later.spreads
       /\ frozen.missing = {} /\ frozen.extra = {} /\ frozen.cohort = measured.singles \cup spreads

\* Both: a surface, and a holdout scored on one, is what was observed by its moment
\* (volatility/surface-models.ts, holdout.ts).
SurfacesAreTheirEvidence ==
    [][/\ algorithm' = "surface" => SoundSurface(input')
       /\ algorithm' = "holdout" => SoundHoldouts(input')]_taken

(***************************************************************************)
(* Exports over the turn of a day, minute 1440: three expiries, one of     *)
(* each tenor, that print together at up to six moments; entries at 25   *)
(* and 26 hours; retrievals that fail; and contracts of the structure's    *)
(* expiry listed before and after the entry.                               *)
(***************************************************************************)
WeekOut == 11560
Contracts == {[name |-> 1, strike |-> 92, type |-> "P", expiry |-> WeekOut, created |-> 1200],
              [name |-> 2, strike |-> 100, type |-> "C", expiry |-> 21640, created |-> 1200],
              [name |-> 3, strike |-> 100, type |-> "C", expiry |-> 44680, created |-> 1200],
              [name |-> 4, strike |-> 112, type |-> "C", expiry |-> WeekOut, created |-> 1200],
              [name |-> 5, strike |-> 109, type |-> "C", expiry |-> WeekOut, created |-> 1200]}
ListedLate == [name |-> 6, strike |-> 100, type |-> "C", expiry |-> WeekOut, created |-> 1530]
Moments1 == {1290, 1320, 1381, 1440, 1500, 1541}
PrintsAt(t) == {[Option(m.name, 10 * t + m.name, t, m.strike, m.type, m.expiry, 2 + (m.name % 3), 100)
                    EXCEPT !.created = m.created, !.index = IF t = 1541 THEN 101 ELSE 100] : m \in Contracts}
MaterializeInputs == [moments : SUBSET Moments1, late : {FALSE}, failing : {{}, {1380}, {1500, 1440}},
                      entries : {<<1500>>, <<1500, 1560>>, <<1560, 1500>>}]
                     \cup [moments : SUBSET Moments1, late : {TRUE}, failing : {{}},
                           entries : {<<1500>>, <<1560, 1500>>}]

ContractsIn(in) == Contracts \cup IF in.late THEN {ListedLate} ELSE {}
Environment(in) == [tape |-> TapeOf(UNION {PrintsAt(t) : t \in in.moments}), manifest |-> ContractsIn(in),
                    failing |-> in.failing, batch |-> 3, most |-> 4, minimum |-> 3]
Structures2(in) ==
    {[short |-> legs[1], long |-> legs[2], entry |-> in.entries[k], expiry |-> WeekOut,
      path |-> {1510, 1545}, outcomes |-> {[id |-> "vpoc", at |-> 1550]}] :
        k \in DOMAIN in.entries, legs \in {<<5, 4>>, <<4, 1>>}}
Bars == {[at |-> 60 * h, close |-> h] : h \in 22..27}
DvolPoints == {[at |-> 1440, close |-> 4], [at |-> 1380, close |-> 5], [at |-> 1500, close |-> 6],
               [at |-> 1470, close |-> 0], [at |-> 1560, close |-> 3]}
Dvol == BuildDvolRows(DvolPoints)
Horizons == [t \in Tenors |-> 2]
EventState(cached, entry, env) == MaterializeEvent(entry, cached, Bars, Dvol, Horizons, env)
Through(env, t) == [env EXCEPT !.tape = KnownAt(@, t)]
Unfailing(env) == [env EXCEPT !.failing = {}]

\* A reference row is what its own hour of the tape says, whichever run, batch,
\* event or day it was evaluated in, so that a backfill repeated after failures
\* holds all that one without failures has; and the states of an entry are the
\* same had the tape, the bars and the broad index ended with it, its percentile
\* one among the rows strictly before it
\* (materializeVolatilityStates, precomputeLocalVolatility).
SoundRows(in) ==
    LET env == Environment(in)
        cached == Backfill({}, in.entries, env)
        repeated == Backfill(cached, in.entries, Unfailing(env))
        whole == Backfill({}, in.entries, Unfailing(env))
        targets == {60 * h : h \in 21..26}
        streamed == PrecomputeDays(targets, {}, env.tape, env.manifest)
        Own(t) == ReferenceRows(t, env.tape, env.manifest)
    IN /\ \A r \in cached \cup repeated : r \in Own(r.at)
       /\ whole \subseteq repeated
       /\ \A k \in DOMAIN in.entries : IsReferenceTimestampComplete(repeated, in.entries[k])
       /\ streamed = UNION {Own(t) : t \in targets}
       /\ \A k \in DOMAIN in.entries :
             LET entry == in.entries[k]
                 then == Through(env, entry)
                 before == {b \in Bars : b.at < entry}
                 early == {r \in cached : r.at <= entry}
             IN /\ \A r \in Own(entry) : r \in ReferenceRows(entry, then.tape, env.manifest)
                /\ EventState(cached, entry, env)
                     = MaterializeEvent(entry, early, before,
                                        BuildDvolRows({p \in DvolPoints : p.at <= entry}), Horizons, env)
                /\ \A t \in Tenors :
                      LET state == EventState(cached, entry, env).state
                      IN state.percentiles[t]
                           = CausalIvPercentile(state.reference[t].iv, t, entry,
                                                History({r \in cached : r.at < entry}), env.minimum)

\* A structure's state uses no print after its entry and no reference made of its
\* own legs, its later legs are the tape's at those moments whatever the other
\* structures asked for, the live measurement of the same moment agrees, and the
\* coverage of an export adds up: every item is available or has its reason
\* (buildStructureVolatilityState, leg, measure-volatility-coverage,
\* projectVolatilityAnalytics).
SoundStates(in) ==
    LET env == Environment(in)
        cached == Backfill({}, in.entries, env)
        structures == Structures2(in)
        Of(s) == MaterializeStructure(s, structures, env)
        events == [k \in DOMAIN in.entries |-> EventState(cached, in.entries[k], env).state]
        states == SetToSeq({Of(s).state : s \in structures})
        a == ProjectVolatilityAnalytics(events, states)
        AddsUp(t) == t.available + MapThenSumSet(LAMBDA r : t.reasons[r], DOMAIN t.reasons) = t.total
    IN /\ \A s \in structures :
             /\ Of(s).state = MaterializeStructure(s, structures, Through(env, s.entry)).state
             /\ \A e \in DOMAIN Of(s).post :
                   Of(s).post[e].short = LegSnapshot(env.tape, s.short, e.at)
             /\ \A t \in DOMAIN Of(s).path : Of(s).path[t].long = LegSnapshot(env.tape, s.long, t)
             /\ ~in.late =>
                   Of(s).state = MeasureVolatilityCoverage(s.entry, 100, {s}, Bars, Horizons, env).structures[s]
             /\ Of(s).state.reference # None =>
                   Of(s).state.reference
                     = MaterializeStructure(s, structures,
                           [env EXCEPT !.tape = SelectSeq(@, LAMBDA p : p.name \notin {s.short, s.long})]).state.reference
       /\ \A t \in Tenors : AddsUp(a.reference[t]) /\ AddsUp(a.percentiles[t]) /\ AddsUp(a.rv[t])
       /\ AddsUp(a.legs) /\ AddsUp(a.structures)

\* Both: the rows of the reference history and the states made of them
\* (materialize-volatility-states.ts, precompute-local-volatility.ts).
StatesAreTheirEvidence ==
    [][algorithm' = "materialize" => SoundRows(input') /\ SoundStates(input')]_taken

\* The strikes a reference is chosen by were listed at the entry, as the method
\* defines them: what is listed later changes nothing.
LadderIsCausal ==
    algorithm = "materialize" =>
        LET env == Environment(input)
            listed == [env EXCEPT !.manifest = {m \in @ : m.created <= 1500}]
            structures == {s \in Structures2(input) : s.entry = 1500}
        IN \A s \in structures :
              MaterializeStructure(s, structures, env).state = MaterializeStructure(s, structures, listed).state

LadderSpec == algorithm = "materialize" /\ input \in MaterializeInputs /\ [][FALSE]_<<algorithm, input>>
=============================================================================
