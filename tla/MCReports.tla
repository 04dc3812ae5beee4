------------------------------ MODULE MCReports ------------------------------
(***************************************************************************)
(* What the reports make of an exported bundle, of an event with two       *)
(* horizons, of the outcomes of one reference track, of the placements of  *)
(* a short strike and of a few resolution times.                           *)
(***************************************************************************)
EXTENDS MCBundle, ExitPolicies, StrikePlacement, EntrySelection, Integers, Sequences, SequencesExt

(***************************************************************************)
(* The bundles of MCBundle, imported.                                      *)
(***************************************************************************)
WithDebit(path) == {p @@ [debit |-> IF p.pnl = None THEN None ELSE 8 - p.pnl] : p \in path}
WithLedger(reference, opened) ==
    [reference EXCEPT !.path = WithDebit(@)]
    @@ [ledger |-> IF opened = None THEN NoLedger
                   ELSE [gross |-> 8, fees |-> 2, net |-> 6, spread |-> None, index |-> opened.index]]
DatasetOf(b) ==
    LET timing == ResolveEventTiming(b.event, BaselineCandles([vpoc |-> b.event.vpoc, trade |-> <<"long", 0>>, breach |-> None]))
    IN [version |-> 45, source |-> 45,
        event |-> [signal |-> 0, vpoc |-> timing.vpoc, breach |-> timing.breach, sequence |-> timing.sequence],
        candidates |-> {[c EXCEPT !.reference = WithLedger(@, c.opened)]
                        @@ [track |-> None, delay |-> None, pricing |-> None, policy |-> None, legacy |-> FALSE,
                            spread |-> IF c.resolved THEN 10 * Scale * c.quantity ELSE None, index |-> 95] :
                           c \in b.candidates},
        margins |-> {m @@ [scenario |-> None, opening |-> None, peak |-> None, at |-> None, fees |-> None,
                           bounded |-> FALSE] : m \in b.margins},
        economics |-> b.economics, availability |-> b.availability, valuations |-> b.valuations,
        outcomes |-> b.outcomes, delays |-> b.delays]

ImportedReports(store) ==
    LET d == DatasetOf(BuildResearchBundle(store))
    IN [d |-> d, of |-> [t \in AnalyticsTracks |-> DatasetForAnalyticsTrack(d, t, "all")]]

\* The structures as if the immediate scenarios had filled none of them.
Unfilled(s, in) == [s EXCEPT !.strict = StrictOf([in EXCEPT !.strict = "none"])]
Engine == AnalyticsTracks \ {ImmediateTrack[mode] : mode \in Modes}
ModeledTracks == {"modeled_expected", "modeled_conservative"}

SoundReports(in) ==
    LET store == StoreOf(in)
        Bare(S) == {Unexecuted(s, in) : s \in S}
        AllUnfilled(S) == {Unfilled(s, in) : s \in S}
        reports == ImportedReports(store)
        unexecuted == ImportedReports([store EXCEPT !.selected = Bare(@), !.research = Bare(@)])
        unfilled == ImportedReports([store EXCEPT !.selected = AllUnfilled(@), !.research = AllUnfilled(@)])
        observations == BuildResearchAnalyticsModel(reports.d, "all")
        bareObservations == BuildResearchAnalyticsModel(unexecuted.d, "all")
    IN /\ \A o \in observations : \A t \in Engine \cap DOMAIN o.tracks :
             LET described == Descriptor(reports.d, o.id, t)
             IN described # None =>
                   /\ Standing(o, t) =
                         (/\ described.status = "available"
                          /\ t \in ModeledTracks => o.id \in {s.id : s \in store.selected})
                   /\ ~Standing(o, t) =>
                         ~\E x \in reports.of[t].outcomes \cup reports.of[t].valuations : x.id = o.id
       /\ \A rows \in {"outcomes", "valuations"} :
             /\ \A t \in {"reference"} \cup ModeledTracks : reports.of[t][rows] = unexecuted.of[t][rows]
             /\ \A t \in Engine : reports.of[t][rows] = unfilled.of[t][rows]
       /\ \A t \in Engine : \A x \in reports.of[t].outcomes :
             x.status = "priced" => x.trigger = "reached" /\ x.source = "estimated"
       /\ \A o \in observations : \A mode \in {m \in Modes : ImmediateTrack[m] \in DOMAIN o.tracks} :
             /\ \A x \in o.tracks[ImmediateTrack[mode]].outcomes : x.track = StrictName(mode)
             /\ {x.kind : x \in o.tracks[ImmediateTrack[mode]].outcomes}
                  = {x.kind : x \in {y \in reports.d.outcomes : y.id = o.id /\ y.track = StrictName(mode)
                                                                /\ Standing(o, ImmediateTrack[mode])}}
       /\ TrackSummary(observations, "reference") = TrackSummary(bareObservations, "reference")
       /\ Denominators(reports.d, observations).available["reference"]
            = Denominators(unexecuted.d, bareObservations).available["reference"]
       /\ \A t \in Engine :
             LET summary == TrackSummary(observations, t)
             IN /\ summary.entered + summary.missed + summary.excluded <= Cardinality(observations)
                /\ summary.entered <= Denominators(reports.d, observations).available[t]
       /\ \A t \in Engine :
             /\ {c.id : c \in reports.of[t].candidates} = {c.id : c \in reports.d.candidates}
             /\ Cardinality(reports.of[t].candidates) = Cardinality({c.id : c \in reports.d.candidates})

\* A track that an engine persisted (every track but the immediate ones) is available
\* exactly where the bundle describes it so and has its snapshot, which it has of entered
\* structures only when the opening was modeled; one that is not contributes nothing; its
\* tables are its own: those of the reference and of modeled openings are there without
\* any execution, those of delayed entries without an immediate fill; no projection makes
\* a price of an outcome that was not reached or was not priced; a structure keeps its one
\* row in every such track; and an immediate track has the outcomes of the strict scenario
\* of its mode and no other.  The last is not the doing of the filter, which takes any row
\* of the scenario, but of the delayed engine, whose one outcome is outside the export's
\* contract.  The marks of immediate tracks are MarksSurviveProjection's subject
\* (buildResearchAnalyticsModel, gateCanonicalTrack, projectOutcome,
\* datasetForAnalyticsTrack).
ReportsAreTheirTracks == [][algorithm' = "bundle" => SoundReports(input')]_taken

\* The bundles alone, for a claim of the tests.
BundlesSpec ==
    /\ algorithm = "start" /\ input = "bundle"
    /\ [][algorithm = "start" /\ algorithm' = "bundle" /\ input' \in BundleInputs]_taken

SoundMarks(in) ==
    LET reports == ImportedReports(StoreOf(in))
    IN \A o \in BuildResearchAnalyticsModel(reports.d, "all") :
          \A mode \in {m \in Modes : Standing(o, ImmediateTrack[m])} :
             \A v \in {w \in reports.d.valuations : w.id = o.id /\ w.track = StrictName(mode)} :
                \E x \in reports.of[ImmediateTrack[mode]].valuations : x.id = v.id /\ x.at = v.at

\* "the valuation row survives projection": a mark exported of an execution is in the
\* tables of the immediate track that stands for it
\* (tests/analytics-integration-audit.unit.test.ts, datasetForAnalyticsTrack).
MarksSurviveProjection == [][SoundMarks(input')]_taken

(***************************************************************************)
(* One event, an hour a candle, and its structure at two horizons.         *)
(***************************************************************************)
DurationInputs ==
    [touch : {None, 30, 100, 119, 330, 500}, broken : {None, 1, 5, 9}, entry : {60, 110}, ends : {0, 300, 1000},
     far : {400, 700}, marks : SUBSET {70, 330}, executed : {{}, {"taker"}}]

DurationEvent(in) ==
    LET breach == IF in.broken = None THEN None ELSE [opens |-> HourLength * in.broken, closes |-> HourLength * in.broken + 59]
    IN [id |-> "e", at |-> 0, direction |-> "long", price |-> 2000, touch |-> in.touch,
        breach |-> IF breach = None THEN None ELSE breach.closes, ends |-> in.ends,
        sequence |-> SequenceOf(IF in.touch = None THEN None ELSE CandleOf(in.touch), breach), path |-> {}]

DurationReference(in, expiry) ==
    [status |-> IF in.entry = None THEN "unavailable" ELSE "valued", entry |-> in.entry,
     path |-> WithDebit({[at |-> t, raw |-> None, pnl |-> 200 - t] : t \in in.marks}),
     outcomes |-> {Result("vpoc", "estimated", in.touch, in.touch, 1), Result("invalidation", "estimated", 0, 0, 2),
                   Result("settlement", "estimated", expiry, expiry, 3)},
     ledger |-> [gross |-> 200, fees |-> 2, net |-> 198, spread |-> None, index |-> 95]]
DurationStudy(in) ==
    LET Row(id, expiry, mode) ==
            [id |-> id, scenario |-> mode, selected |-> TRUE, role |-> None, expiry |-> expiry, entry |-> in.entry,
             status |-> IF mode \in in.executed THEN "evaluated" ELSE "unavailable", track |-> None, delay |-> None,
             pricing |-> None, policy |-> None, legacy |-> FALSE, native |-> None, spread |-> None, index |-> None,
             reference |-> IF in.entry = None THEN None ELSE DurationReference(in, expiry), delayed |-> None,
             modeled |-> None, horizon |-> expiry, dte |-> expiry, variant |-> "v", sync |-> 5]
    IN [event |-> DurationEvent(in),
        data |-> [version |-> 45, source |-> 45, event |-> [signal |-> 0, vpoc |-> in.touch, breach |-> None],
                  candidates |-> {Row("n", 200, mode) : mode \in Modes} \cup {Row("f", in.far, mode) : mode \in Modes},
                  economics |-> {}, margins |-> {}, valuations |-> {}, outcomes |-> {}, delays |-> {},
                  availability |-> {[id |-> "n", horizon |-> 200, selected |-> TRUE, status |-> "priced", quality |-> "green"]}]]

\* The facts of a row that its execution has no part in.
IndependentFacts(c) ==
    <<c.id, c.entry, c.expiry, c.dte, c.bucket, c.within, c.buffer, c.holding, c.heldToExpiry, c.pnl, c.ambiguous,
      c.adverse, c.capture>>
WithoutMarksAfter(in, t) == [in EXCEPT !.marks = {m \in @ : m <= t}]

SoundDurations(in) ==
    LET rows == NormalizeDteCandidates(DurationStudy(in))
        mr == NormalizeMrEvent(DurationEvent(in))
        report == BuildDurationDteReport({DurationStudy(in)}, "maker")
        Of(id) == CHOOSE c \in rows : c.id = id
        near == Of("n")
        far == Of("f")
        matched == report.matched[<<200, in.far>>]
        Ends(c) == IF c.resolved = None THEN c.expiry ELSE FirstOf({c.entry + c.resolved, c.expiry})
    IN /\ \A x, y \in rows : x.id = y.id => IndependentFacts(x) = IndependentFacts(y)
       /\ \A c \in rows : c.bucket # None =>
             /\ c.within = (c.resolved # None /\ ~c.heldToExpiry)
             /\ c.within /\ c.entry # None => c.buffer >= 0 /\ c.holding + c.buffer = c.expiry - c.entry
             /\ RealizedPnlOf(c) # None /\ c.entry # None => c.entry <= Ends(c) /\ Ends(c) <= c.expiry
             /\ c.bucket = "ambiguous_before_expiry" => mr.toVpoc = mr.toInvalidation
             /\ c.bucket = "vpoc_before_structure_entry" => in.touch < c.entry /\ RealizedPnlOf(c) = None
       /\ \A c \in NormalizeDteCandidates(DurationStudy(WithoutMarksAfter(in, Ends(far)))) :
             \E x \in rows : x.id = c.id /\ x.scenario = c.scenario /\ c.adverse = x.adverse
       /\ near.within = TRUE => far.bucket = near.bucket /\ far.holding = near.holding
       /\ matched.holding # None => matched.holding >= 0 /\ matched.comparable.holding = 1
       /\ Cardinality(report.population) + Cardinality(report.conflicts) = 2

(***************************************************************************)
(* Up to four observations, of which some are censored.                    *)
(***************************************************************************)
SurvivalInputs == SeqOf([time : 1..3, observed : BOOLEAN], 4)
Below(a, b) == a[1] * b[2] <= b[1] * a[2]

SoundSurvival(observations) ==
    LET curve == KaplanMeier(observations)
        n == Len(observations)
        EventsBy(t) == CountOf(observations, LAMBDA o : o.observed /\ o.time <= t)
        CensoredBefore(t) == CountOf(observations, LAMBDA o : ~o.observed /\ o.time < t)
        Fallen(k, percent) == Below(curve[k].survival, <<100 - percent, 100>>)
    IN /\ KaplanMeier(Reverse(observations)) = curve
       /\ \A k \in 2..Len(curve) : curve[k - 1].time < curve[k].time /\ Below(curve[k].survival, curve[k - 1].survival)
       /\ \A k \in DOMAIN curve :
             LET t == curve[k].time
             IN /\ Below(<<n - EventsBy(t) - CensoredBefore(t), n>>, curve[k].survival)
                /\ Below(curve[k].survival, <<n - EventsBy(t), n>>)
       /\ \A j \in DOMAIN observations : ~observations[j].observed =>
             LET longer == KaplanMeier([observations EXCEPT ![j].time = @ + 1])
             IN \A k \in DOMAIN curve : curve[k].time <= observations[j].time =>
                   \E l \in DOMAIN longer : longer[l].time <= curve[k].time /\ longer[l].survival = curve[k].survival
       /\ \A percent \in Percentiles :
             LET time == KaplanMeierQuantile(curve, percent)
             IN \A k \in DOMAIN curve : Fallen(k, percent) = (time # None /\ curve[k].time >= time)

\* Execution has no part in what a structure lived to see, which is what was known when
\* its thesis or its life ended; a later expiry changes nothing that ended before the
\* earlier; an event has the same share of survivors in any order of the events, between
\* what it would be if all those no longer followed had resolved and if none had, and
\* following one for longer changes nothing before (normalizeDteCandidates, kaplanMeier).
DurationsAreConsistent ==
    [][/\ algorithm' = "duration" => SoundDurations(input')
       /\ algorithm' = "survival" => SoundSurvival(input')]_taken

(***************************************************************************)
(* A structure of minutes 60 to 2000 and when its outcomes came about: one *)
(* before its entry, at once with another, past its expiry or never, with  *)
(* and without a price, and the marks it had on the way.                   *)
(***************************************************************************)
PolicyInputs ==
    [vpoc : {None, 50, 100, 200, 3000}, invalidation : {None, 100, 200}, capture : {None, 100, 150},
     priced : {S \cup {"settlement"} : S \in SUBSET {"vpoc", "invalidation", "credit_capture_50"}},
     ambiguous : BOOLEAN, marks : {{}, {120, 180}}]
DueOf(in) == [vpoc |-> in.vpoc, invalidation |-> in.invalidation, credit_capture_50 |-> in.capture, settlement |-> 2000]

PolicyData(in) ==
    LET Due(kind) == DueOf(in)[kind]
        Worth(at) == 3 - (at % 7)
        Outcome(kind) ==
            IF Due(kind) = None THEN Result(kind, "not-hit", None, None, None)
            ELSE IF kind \in in.priced THEN Result(kind, "estimated", Due(kind), Due(kind) + (IF kind = "settlement" THEN 0 ELSE 30),
                            Worth(Due(kind)))
            ELSE Result(kind, "unavailable", Due(kind), None, None)
        reference ==
            [status |-> "valued", entry |-> 60, ledger |-> NoLedger,
             path |-> {[at |-> t, raw |-> None, pnl |-> Worth(t)] : t \in in.marks},
             outcomes |-> {IF kind = "vpoc" /\ in.vpoc # None THEN [Outcome(kind) EXCEPT !.ambiguous = in.ambiguous]
                           ELSE Outcome(kind) : kind \in DOMAIN DueOf(in)}]
        row == [id |-> "s", scenario |-> "maker", selected |-> TRUE, role |-> None, expiry |-> 2000, entry |-> None,
                status |-> "unavailable", track |-> None, delay |-> None, pricing |-> None, policy |-> None,
                legacy |-> FALSE, native |-> None, spread |-> None, index |-> None, reference |-> reference,
                delayed |-> None, modeled |-> None]
    IN [version |-> 45, source |-> 45, event |-> [signal |-> 0, vpoc |-> in.vpoc, breach |-> in.invalidation],
        candidates |-> {row}, economics |-> {}, availability |-> {}, valuations |-> {}, outcomes |-> {}, delays |-> {},
        margins |-> {[id |-> "s", status |-> "available", usd |-> 5, at |-> 0, fees |-> 0, bounded |-> TRUE, scenario |-> None,
                      opening |-> 4, peak |-> 6]}]

\* The input as it was known at a time.
PolicyKnownAt(in, t) ==
    LET Known(due) == IF due = None THEN None ELSE IF due > t THEN None ELSE due
    IN [in EXCEPT !.vpoc = Known(@), !.invalidation = Known(@), !.capture = Known(@), !.marks = {m \in @ : m <= t}]
ExitsOf(in) == BuildExitPolicyReport(PolicyData(in), "maximum_economic_loss", 90)["reference"]
ExitOf(exits, policy) == CHOOSE x \in exits[policy].observations : TRUE
OfPolicy(policy, kind) == kind \in {ExitPolicies[policy][k] : k \in DOMAIN ExitPolicies[policy]}

SoundExitPolicies(in) ==
    LET exits == ExitsOf(in)
        repriced == {ExitsOf([in EXCEPT !.priced = priced]) : priced \in {{}, DOMAIN DueOf(in)}}
        Decided(x) == <<x.trigger, x.decided>>
        EndsIt(kind) ==
            LET due == DueOf(in)[kind]
            IN due # None /\ (kind = "vpoc" => ~in.ambiguous) /\ (due # None => Lifetime(due, 60, 2000))
    IN \A policy \in PolicyIds :
          LET x == ExitOf(exits, policy)
              thesis == ExitOf(exits, "thesis")
          IN /\ \A other \in repriced : Decided(ExitOf(other, policy)) = Decided(x)
             /\ \A kind \in DOMAIN DueOf(in) :
                   OfPolicy(policy, kind) /\ EndsIt(kind) => x.trigger # None /\ x.decided <= DueOf(in)[kind]
             /\ x.trigger # None => OfPolicy(policy, x.trigger) /\ EndsIt(x.trigger) /\ x.decided = DueOf(in)[x.trigger]
             /\ policy # "settlement_benchmark" => x.decided <= thesis.decided
             /\ x.status = "priced" =>
                   /\ x.mae <= x.pnl
                   /\ [ExitOf(ExitsOf(PolicyKnownAt(in, x.at)), policy) EXCEPT !.marks = {}] = [x EXCEPT !.marks = {}]
                   /\ \A post \in exits[policy].paired.post :
                         /\ thesis.pnl - x.pnl <= post.surrendered
                         /\ x.pnl - thesis.pnl <= post.avoided

(***************************************************************************)
(* The placements that the generation asks for about an event, resolved on *)
(* a chain with gaps, and candles that dip or not to `by` below the        *)
(* technical strike, at their low or at their close too.  What a falling   *)
(* event sees is what a rising one does in the mirror of its price.        *)
(***************************************************************************)
StrikeInputs ==
    [near : {1, 15}, gaps : SUBSET {20, 40}, widths : {{20, 40}, {40}}, dips : SUBSET {120, 180}, by : {0, 1, 21},
     closes : BOOLEAN, vpoc : {None, 59, 119, 179, 239}, broken : {None, 119, 179, 239}, marks : {{100, 200}}, faces : {"long"}]

StrikeSpot == 100
Facing(in, price) == IF in.faces = "long" THEN price ELSE 2 * StrikeSpot - price
StrikeRequest(in) == [extreme |-> Facing(in, 60 + in.near), direction |-> in.faces]
StrikeSpreads(in) == GenerateShortStrikeResearchSpreads(StrikeRequest(in), {1}, in.widths, "credit")
StrikeChain(in) ==
    {c \in [type : {"P", "C"}, expiry : {240}, strike : {20 * k : k \in 0..10}, first : {0}] :
        c.strike \notin {Facing(in, 60 - gap) : gap \in in.gaps}}

StrikeEvent(in) ==
    LET Candle(at) ==
            LET low == IF at \in in.dips THEN Facing(in, 60 - in.by) ELSE StrikeSpot
            IN [at |-> at, low |-> IF in.faces = "long" THEN low ELSE StrikeSpot,
                high |-> IF in.faces = "long" THEN StrikeSpot ELSE low, close |-> IF in.closes THEN low ELSE StrikeSpot]
    IN [id |-> "e", direction |-> in.faces, price |-> StrikeSpot, extreme |-> Facing(in, 60 + in.near),
        stop |-> Facing(in, 55), low |-> 60, high |-> 140, path |-> {Candle(at) : at \in {60, 120, 180, 240}}]

StrikeReference(in, far) ==
    LET Of(kind, due, pnl) == IF due = None THEN Result(kind, "not-hit", None, None, None)
                              ELSE Result(kind, "estimated", due, due, pnl)
    IN [status |-> "valued", entry |-> 60,
        path |-> WithDebit({[at |-> t, raw |-> None, pnl |-> (IF t = 100 THEN -far ELSE 10 - far)] : t \in in.marks}),
        outcomes |-> {[Of("vpoc", in.vpoc, 40 - far) EXCEPT !.ambiguous = in.vpoc # None /\ in.vpoc = in.broken],
                      Of("invalidation", in.broken, far - 40), Result("settlement", "estimated", 240, 240, 30 - far)},
        ledger |-> [gross |-> 50 - far, fees |-> 2, net |-> 48 - far, spread |-> None, index |-> StrikeSpot]]
StrikeRow(in, spread, mode) ==
    LET found == RetrieveSpread(spread, 60, StrikeChain(in), 1)
        short == found.sold.strike
        long == found.bought.strike
    IN [id |-> <<spread.width, spread.buffered>>, scenario |-> mode, selected |-> ~spread.buffered,
        role |-> IF spread.buffered THEN "short_strike_buffered" ELSE "short_strike_technical", expiry |-> 240, entry |-> None,
        status |-> "unavailable", track |-> None, delay |-> None, pricing |-> None, policy |-> None, legacy |-> FALSE,
        native |-> None, spread |-> None, index |-> StrikeSpot, delayed |-> None, modeled |-> None, dte |-> 1,
        reference |-> IF found.sold = found.bought THEN None ELSE StrikeReference(in, Abs(StrikeSpot - short) \div 10),
        short |-> short, long |-> long, width |-> Abs(short - long), structure |-> "credit", type |-> spread.type,
        method |-> IF spread.buffered THEN "buffered" ELSE "anchor"]
StrikeStudy(in) ==
    LET rows == {StrikeRow(in, spread, mode) : spread \in StrikeSpreads(in), mode \in Modes}
    IN [event |-> StrikeEvent(in),
        data |-> [version |-> 45, source |-> 45, event |-> [signal |-> 0, vpoc |-> in.vpoc, breach |-> in.broken],
                  candidates |-> rows, economics |-> {}, margins |-> {}, valuations |-> {}, outcomes |-> {}, delays |-> {},
                  availability |-> {[id |-> r.id, role |-> r.role, resolved |-> r.short # r.long] : r \in rows}]]

\* The study as it was known at a time.
StrikeKnownAt(in, t) ==
    LET Known(due) == IF due = None THEN None ELSE IF due > t THEN None ELSE due
        study == StrikeStudy([in EXCEPT !.vpoc = Known(@), !.broken = Known(@), !.marks = {m \in @ : m <= t}])
    IN [study EXCEPT !.event.path = {c \in @ : c.at + HourLength - 1 <= t}]
\* What a structure says, and what it says of the strike, whichever way the event faces.
Unfaced(s) == <<s.id, s.status, s.method, s.width, s.geometry, s.challenge, s.gross, s.net, s.resolution, s.exit,
                s.realized, s.adverse>>

SoundStrikes(in) ==
    LET report == BuildShortStrikeReport({StrikeStudy(in)}, "reference")
        structures == report.structures
        mirrored == BuildShortStrikeReport({StrikeStudy([in EXCEPT !.faces = IF @ = "long" THEN "short" ELSE "long"])},
                                           "reference")
        scoped == PlacementScope(StrikeStudy(in), "reference").data
        Thesis(s) == EvaluatePolicy(scoped, CHOOSE r \in scoped.candidates : r.id = s.id, "thesis", "maximum_economic_loss")
        requested == {x.width : x \in {y \in StrikeSpreads(in) : y.buffered}}
        Sides == UNION {{p.technical, p.buffered} : p \in report.pairs}
    IN /\ Sides \cup {u.structure : u \in report.unpaired} = structures
       /\ 2 * Cardinality(report.pairs) + Cardinality(report.unpaired) = Cardinality(structures)
       /\ report.summary.eligible = Cardinality(requested)
       /\ LET fewer == report.summary.breachDifference.value IN fewer # None => fewer <= 0
       /\ in.gaps = {} =>
             /\ {p.technical.width : p \in report.pairs} = requested
             /\ {Unfaced(s) : s \in structures} = {Unfaced(s) : s \in mirrored.structures}
       /\ \A p \in report.pairs :
             LET t == p.technical.challenge
                 b == p.buffered.challenge
             IN /\ p.further = Thousand
                /\ Observable(p.technical) /\ Observable(p.buffered) =>
                      /\ b.touched => t.touched /\ t.firstTouch <= b.firstTouch
                      /\ b.breached => t.breached /\ t.firstBreach <= b.firstBreach
       /\ \A s \in structures :
             s.status = "evaluated" /\ s.resolution # "ambiguous_resolution_order" =>
                /\ Thesis(s).trigger = s.resolution /\ Thesis(s).pnl = s.realized
                /\ Thesis(s).decided = Given(s.exit, s.expiry)
       /\ \A s \in structures : \A challenge \in {s.challenge.firstTouch, s.challenge.firstBreach} \ {None} :
             s.exit # None => challenge + HourLength <= s.exit
       /\ \A t \in {s.exit : s \in structures} \ {None} :
             {Unfaced(s) : s \in {x \in structures : x.exit = t}} \subseteq
                {Unfaced(s) : s \in NormalizeShortStrikeStructures(PlacementScope(StrikeKnownAt(in, t), "reference"))}

\* An exit policy ends a position at the first of its outcomes that was decided while it
\* was open, whether or not that one, or any other, has a price; nothing that came later
\* has a part in the exit or in what it came to; a policy of more outcomes never leaves
\* later; and no result is better than the worst it is said to have gone through.  The
\* comparison of strike placements, which has its own way of finding the thesis exit,
\* finds the one of that policy; what it says of a challenge, of the way down and of the
\* result was known at that exit; and a structure is in one pair or is listed as in none,
\* in a pair of each width that was asked for when all strikes are listed, of which the
\* buffered strike is challenged only if and after the technical one is, for a falling
\* event as for its mirror (normalizeExitPolicies, pairedComparison, challengeOf,
\* normalizeShortStrikeStructures, buildShortStrikeReport).
ExitsAreChronological ==
    [][/\ algorithm' = "policy" => SoundExitPolicies(input')
       /\ algorithm' = "strike" => SoundStrikes(input')]_taken

(***************************************************************************)
(* The durations alone, for a claim of the tests.                          *)
(***************************************************************************)
DurationSpec == algorithm = "duration" /\ input \in DurationInputs /\ [][FALSE]_<<algorithm, input>>

\* An event whose target and invalidation fell into one candle is in a bucket of its own,
\* never in that of either (tests/duration-dte-report.unit.test.ts,
\* normalizeDteCandidates).
AmbiguousKeepsItsBucket ==
    DurationEvent(input).sequence = "ambiguous" =>
        \A c \in NormalizeDteCandidates(DurationStudy(input)) :
           c.bucket \notin {"vpoc_before_expiry", "invalidation_before_expiry"}
=============================================================================
