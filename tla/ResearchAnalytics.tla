-------------------------- MODULE ResearchAnalytics --------------------------
(***************************************************************************)
(* The analytical model of an imported bundle: one observation for each    *)
(* generated structure, its tracks kept apart, and the tables of a single  *)
(* track for the reports.                                                  *)
(*                                                                         *)
(* A dataset is the tables of a bundle of one event, [version, source,     *)
(* event, economics, candidates, availability, margins, valuations,        *)
(* outcomes, delays]: its event is [signal, vpoc, breach, sequence], its   *)
(* candidates add [track, delay, pricing, policy, legacy, spread, index]   *)
(* and its margins [scenario, opening, peak].  The declared sensitivity,   *)
(* which no engine produces, is no track of this model.                    *)
(***************************************************************************)
EXTENDS ResearchBundle

CanonicalTrackOf ==
    [reference |-> "reference_fair_value", immediate_maker |-> "strict_maker", immediate_taker |-> "strict_taker",
     delayed_maker |-> "delayed_maker", delayed_taker |-> "delayed_taker",
     modeled_expected |-> "modeled_expected", modeled_conservative |-> "modeled_conservative"]
AnalyticsTracks == DOMAIN CanonicalTrackOf
ImmediateTrack == [maker |-> "immediate_maker", taker |-> "immediate_taker"]
DelayedTrackOf == [maker |-> "delayed_maker", taker |-> "delayed_taker"]
ExecutionScenarioOf(track) ==
    IF \E mode \in Modes : track \in {ImmediateTrack[mode], DelayedTrackOf[mode]}
    THEN CHOOSE mode \in Modes : track \in {ImmediateTrack[mode], DelayedTrackOf[mode]} ELSE None

\* Of an older import only, the normalized prices stand for the modeled track.
TrackOf(r, version) ==
    CASE r.track \in AnalyticsTracks -> r.track
      [] r.track \notin AnalyticsTracks /\ r.scenario \in Modes ->
             (IF r.delay = None \/ r.delay = 0 THEN ImmediateTrack ELSE DelayedTrackOf)[r.scenario]
      [] r.track \notin AnalyticsTracks /\ r.scenario \notin Modes ->
             IF version < 37 /\ r.pricing = "iv_normalized" THEN "modeled_expected" ELSE None

(***************************************************************************)
(* The tables of a cohort: its candidates, and the rows that belong to one *)
(* of them.                                                                *)
(***************************************************************************)
ControlledResearchRoles == {"short_strike_technical", "short_strike_buffered"}
ControlledResearchAware == 41..45

DatasetForAnalyticsCohort(d, cohort) ==
    LET selected == {c \in d.candidates : c.selected # FALSE}
        controlled == {c \in d.candidates : c.role \in ControlledResearchRoles}
        kept == CASE cohort = "selected" -> selected
                  [] cohort = "controlled-research" ->
                         IF controlled = {} /\ d.source \notin ControlledResearchAware THEN selected ELSE controlled
        ids == {c.id : c \in kept}
        Own(rows) == {r \in rows : r.id \in ids}
    IN IF cohort = "all" THEN d
       ELSE [d EXCEPT !.candidates = kept, !.economics = Own(@), !.availability = Own(@), !.margins = Own(@),
                      !.valuations = Own(@), !.outcomes = Own(@), !.delays = Own(@)]

(***************************************************************************)
(* What a position came to.  A ledger is [gross, fees, net, spread, index].*)
(***************************************************************************)
NoLedger == [gross |-> None, fees |-> None, net |-> None, spread |-> None, index |-> None]
Given(x, fallback) == IF x = None THEN fallback ELSE x
FieldOf(row, name) == IF row = None THEN None ELSE IF name \in DOMAIN row THEN row[name] ELSE None

\* A strict row states its result by pricing track alone.
NetPnl(o) == IF FieldOf(o, "track") \in {"strict_maker", "strict_taker"} THEN None ELSE FieldOf(o, "pnl")

PositionEconomics(ledger, margin, outcome, entry, loss) ==
    LET net == IF ledger.net # None THEN ledger.net
               ELSE IF ledger.gross = None THEN None ELSE ledger.gross - Given(ledger.fees, 0)
        derived == IF None \in {ledger.spread, ledger.index, net} THEN None
                   ELSE Larger(0, ledger.spread \div ledger.index - net)
        opening == FieldOf(margin, "opening")
        exit == FieldOf(outcome, "at")
        values == [loss |-> Given(loss.usd, Given(FieldOf(margin, "usd"), derived)), opening |-> opening,
                   peak |-> Given(FieldOf(margin, "peak"), opening), pnl |-> NetPnl(outcome)]
        held == IF entry = None \/ exit = None THEN None ELSE IF exit < entry THEN None ELSE exit - entry
    IN values @@ [gross |-> ledger.gross, net |-> net,
                  capitalDays |-> IF held = None \/ values.peak = None THEN None ELSE held * values.peak,
                  reasons |-> {v \in DOMAIN values : values[v] = None}]
NoEconomics(reason) ==
    [gross |-> None, net |-> None, loss |-> None, opening |-> None, peak |-> None, pnl |-> None,
     capitalDays |-> None, reasons |-> {reason}]

(***************************************************************************)
(* A track from the snapshot its engine persisted; an outcome at the end   *)
(* of the structure stands for the position, else the first there is.      *)
(***************************************************************************)
OutcomeOrder == <<"vpoc", "invalidation", "credit_capture_25", "credit_capture_50", "credit_capture_70",
                  "fixed_3d", "fixed_5d", "fixed_7d", "fixed_14d", "settlement", "terminal_delayed_path">>
FirstOutcome(outcomes) ==
    IF outcomes = {} THEN None
    ELSE LET Rank(o) == CHOOSE k \in DOMAIN OutcomeOrder : OutcomeOrder[k] = o.kind
         IN CHOOSE o \in outcomes : \A x \in outcomes : Rank(o) <= Rank(x)

SnapshotStatuses == {"valued", "evaluated", "available"}
CanonicalSnapshotTrack(track, base, snapshot, signal, loss) ==
    LET available == /\ snapshot.status \in SnapshotStatuses
                     /\ (\E mode \in Modes : track = DelayedTrackOf[mode])
                            => DelayedEconomicPathAvailable(snapshot, base.expiry)
        entry == Given(snapshot.entry, signal)
        final == {o \in snapshot.outcomes : o.kind \in {"settlement", "terminal_delayed_path"}}
        outcome == FirstOutcome(IF final # {} THEN final ELSE snapshot.outcomes)
        opened == IF "ledger" \in DOMAIN snapshot THEN snapshot.ledger ELSE NoLedger
        ledger == [opened EXCEPT !.spread = base.spread]
    IN [track |-> track, status |-> IF available THEN "available" ELSE "unavailable", entry |-> entry, ledger |-> ledger,
        path |-> IF "path" \in DOMAIN snapshot THEN snapshot.path ELSE {}, outcomes |-> snapshot.outcomes,
        economics |-> PositionEconomics(ledger, None, outcome, entry, loss),
        reason |-> IF available THEN None ELSE "unavailable"]

\* A track that the bundle describes as not available keeps nothing.
Descriptor(d, id, track) ==
    LET own == UNION {{t \in e.tracks : t.track = CanonicalTrackOf[track]} : e \in {x \in d.economics : x.id = id}}
    IN IF own = {} THEN None ELSE CHOOSE t \in own : TRUE
GateCanonicalTrack(d, id, value) ==
    LET described == Descriptor(d, id, value.track)
        stands == IF described = None THEN TRUE ELSE described.status \in SnapshotStatuses
    IN IF stands THEN value
       ELSE [value EXCEPT !.status = "unavailable", !.entry = None, !.ledger = None, !.path = {}, !.outcomes = {},
                          !.economics = NoEconomics(described.reason), !.reason = described.reason]

StructuralLossFor(d, id) ==
    LET Of(rows) == IF \E r \in rows : r.id = id THEN CHOOSE r \in rows : r.id = id ELSE None
        economics == Of(d.economics)
    IN ReadCanonicalStructuralLoss(IF economics = None THEN None ELSE economics.loss, Of(d.margins), None)

(***************************************************************************)
(* A track from a row of an execution scenario: the outcome of its policy  *)
(* is the first of its scenario, strict rows before the others, and of two *)
(* outcomes of one name the last stays.                                    *)
(***************************************************************************)
OfStrictRow(o) == o.track \in {"strict_maker", "strict_taker"}
RowTrack(d, r, track) ==
    LET event == d.event
        resolved == Given(event.vpoc, event.breach)
        status == CASE r.legacy -> "legacy_limited"
                    [] ~r.legacy ->
                           IF resolved # None /\ r.entry # None /\ resolved < r.entry THEN "pre_entry_resolution"
                           ELSE IF r.status = "evaluated" THEN "available" ELSE "unavailable"
        Mine(rows) == {x \in rows : x.id = r.id /\ x.scenario = r.scenario}
        First(rows) == IF rows = {} THEN None
                       ELSE CHOOSE o \in rows : (\E x \in rows : OfStrictRow(x)) => OfStrictRow(o)
        Latest(rows) == CHOOSE o \in rows : (\E x \in rows : ~OfStrictRow(x)) => ~OfStrictRow(o)
        named == Mine(d.outcomes)
        margins == Mine(d.margins)
        ledger == [gross |-> FieldOf(r.native, "gross"), fees |-> FieldOf(r.native, "fees"),
                   net |-> FieldOf(r.native, "net"), spread |-> r.spread, index |-> r.index]
        outcome == First({o \in named : o.kind = Given(r.policy, "settlement")})
    IN [track |-> track, status |-> status, entry |-> r.entry, ledger |-> ledger,
        path |-> {x \in Mine(d.valuations) : x.track \in {None, track}},
        outcomes |-> {Latest({o \in named : o.kind = kind}) : kind \in {o.kind : o \in named}},
        economics |-> PositionEconomics(ledger, IF margins = {} THEN None ELSE CHOOSE m \in margins : TRUE,
                                        outcome, r.entry, StructuralLossFor(d, r.id)),
        reason |-> None]

(***************************************************************************)
(* An observation: the tracks of its rows, then those of the snapshots of  *)
(* its first row, which replace them.                                      *)
(***************************************************************************)
NoSnapshot == [status |-> None, entry |-> None, path |-> {}, outcomes |-> {}]
FirstRow(rows) == CHOOSE r \in rows : (\E x \in rows : x.scenario = "maker") => r.scenario = "maker"
ScenarioRows(d, id) == {c \in d.candidates : c.id = id}

SnapshotsOf(base) ==
    (IF base.reference = None THEN <<>> ELSE [reference |-> base.reference])
    @@ (IF base.delayed = None THEN <<>>
        ELSE [delayed_maker |-> base.delayed["maker"], delayed_taker |-> base.delayed["taker"]])
    @@ (IF base.modeled = None THEN <<>>
        ELSE [modeled_expected |-> base.modeled["expected"], modeled_conservative |-> base.modeled["conservative"]])

AnalyticsObservation(d, id) ==
    LET rows == ScenarioRows(d, id)
        base == FirstRow(rows)
        loss == StructuralLossFor(d, id)
        snapshots == IF rows = {} THEN <<>> ELSE SnapshotsOf(base)
        ofRows == {TrackOf(r, d.version) : r \in rows} \ {None}
        ofBase == IF rows = {} THEN {}
                  ELSE {t \in AnalyticsTracks \ {ImmediateTrack[mode] : mode \in Modes} :
                           t \in DOMAIN snapshots \/ Descriptor(d, id, t) # None}
        Snapshot(t) == IF t \in DOMAIN snapshots THEN snapshots[t] ELSE NoSnapshot
    IN [id |-> id, expiry |-> IF rows = {} THEN None ELSE base.expiry,
        retrieval |-> \E a \in d.availability : a.id = id /\ FieldOf(a, "reason") = "retrieval",
        tracks |-> [t \in ofRows \cup ofBase |->
                       GateCanonicalTrack(d, id,
                           IF t \in ofBase THEN CanonicalSnapshotTrack(t, base, Snapshot(t), d.event.signal, loss)
                           ELSE RowTrack(d, CHOOSE r \in rows : TrackOf(r, d.version) = t, t))]]

Observations(d) == {AnalyticsObservation(d, id) : id \in {r.id : r \in d.candidates \cup d.availability}}
BuildResearchAnalyticsModel(d, cohort) == Observations(DatasetForAnalyticsCohort(d, cohort))

(***************************************************************************)
(* Denominators and summaries.  A structure whose contracts could not be   *)
(* retrieved is no missed opportunity.                                     *)
(***************************************************************************)
Standing(o, track) == track \in DOMAIN o.tracks /\ o.tracks[track].status = "available"
Denominators(d, observations) ==
    [generated |-> Cardinality(d.availability),
     available |-> [t \in AnalyticsTracks |-> Cardinality({o \in observations : Standing(o, t)})],
     retrievalFailures |-> Cardinality({a \in d.availability : FieldOf(a, "reason") = "retrieval"}),
     fullyUnavailable |-> Cardinality({o \in observations : \A t \in DOMAIN o.tracks : ~Standing(o, t)})]

TrackSummary(observations, track) ==
    LET offered == {o \in observations : track \in DOMAIN o.tracks}
        eligible == {o \in offered : ~o.retrieval}
        entered == {o \in eligible : Standing(o, track)}
        priced == {o \in entered : o.tracks[track].economics.pnl # None}
    IN [track |-> track, eligible |-> Cardinality(eligible), entered |-> Cardinality(entered),
        missed |-> Cardinality(eligible) - Cardinality(entered), priced |-> Cardinality(priced),
        pnl |-> MapThenSumSet(LAMBDA o : o.tracks[track].economics.pnl, priced),
        excluded |-> Cardinality(offered \ eligible)]

(***************************************************************************)
(* The tables of one track.  An outcome keeps its own state: exported rows *)
(* state it, a snapshot is classified, and the track's availability        *)
(* promotes neither.                                                       *)
(***************************************************************************)
SnapshotOnlyStatuses == {"estimated", "not-hit"}
ProjectByTrack(x, t, id, expiry) ==
    [id |-> id, scenario |-> ExecutionScenarioOf(t.track), track |-> t.track, kind |-> x.kind,
     trigger |-> "reached", source |-> OutcomeSourceStatus(x), due |-> x.due, at |-> x.at, decided |-> x.due, holding |-> None,
     status |-> IF t.status = "available" THEN "priced" ELSE "unavailable", pnl |-> x.pnl]
ProjectOutcome(x, t, id, expiry) ==
    LET stated == "trigger" \in DOMAIN x
        trigger == IF stated THEN x.trigger ELSE OutcomeTriggerStatus(x, expiry)
        source == IF stated THEN x.source ELSE OutcomeSourceStatus(x)
        status == CASE x.status \in {"evaluated", "priced"} -> "priced"
                    [] x.status \in SnapshotOnlyStatuses ->
                           IF trigger = "reached" /\ source = "estimated" /\ x.pnl # None THEN "priced" ELSE "unavailable"
                    [] OTHER -> x.status
    IN [id |-> id, scenario |-> ExecutionScenarioOf(t.track), track |-> t.track, kind |-> x.kind,
        trigger |-> trigger, source |-> source, due |-> x.due, at |-> x.at,
        decided |-> IF stated /\ x.at = None THEN None ELSE x.due,
        holding |-> IF stated THEN x.holding ELSE OutcomeHoldingHours(status = "priced", t.entry, x.at, x.due, expiry),
        status |-> status, pnl |-> IF stated /\ OfStrictRow(x) THEN x.raw ELSE x.pnl]

\* Rows of a bundle state their own status; a point of the delayed engine has no
\* result under the name that is read here.
ProjectValuation(p, t, id) ==
    LET delayed == \E mode \in Modes : t.track = DelayedTrackOf[mode]
        pnl == IF delayed THEN None ELSE p.pnl
    IN [id |-> id, scenario |-> ExecutionScenarioOf(t.track), track |-> t.track, at |-> p.at, pnl |-> pnl,
        status |-> IF "status" \in DOMAIN p THEN p.status ELSE IF pnl # None THEN "priced" ELSE "unavailable"]

DatasetForAnalyticsTrack(d, track, cohort) ==
    LET own == DatasetForAnalyticsCohort(d, cohort)
        based == {o \in Observations(own) : ScenarioRows(own, o.id) # {}}
        tracked == {o \in based : track \in DOMAIN o.tracks}
        Projected(o) ==
            LET t == IF o \in tracked THEN o.tracks[track] ELSE None
                available == Standing(o, track)
            IN [FirstRow(ScenarioRows(own, o.id)) EXCEPT
                   !.track = track, !.scenario = ExecutionScenarioOf(track),
                   !.status = IF available THEN "evaluated" ELSE "unavailable",
                   !.entry = IF t = None THEN None ELSE t.entry,
                   !.native = IF available THEN [gross |-> t.economics.gross, net |-> t.economics.net] ELSE None]
    IN [own EXCEPT
          !.candidates = {Projected(o) : o \in based},
          !.outcomes = UNION {{ProjectOutcome(x, o.tracks[track], o.id, o.expiry) : x \in o.tracks[track].outcomes} :
                                 o \in tracked},
          !.valuations = UNION {{ProjectValuation(p, o.tracks[track], o.id) : p \in o.tracks[track].path} :
                                   o \in tracked}]
=============================================================================
