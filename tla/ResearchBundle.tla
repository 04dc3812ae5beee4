---------------------------- MODULE ResearchBundle ----------------------------
(***************************************************************************)
(* The export of a selection store to the tables of a bundle, and the      *)
(* rules a bundle must satisfy to be written.                              *)
(*                                                                         *)
(* A store is [event, candles, market, selected, research, generated] of   *)
(* one event: the structures entered, those of the controlled research and *)
(* the attempts [id, config] of the generation.  A structure adds to what  *)
(* ResearchTracks and ResearchMargin read [id, role, quantity, opened,     *)
(* marks, margin]: the entry of its reference, the marks of its path and   *)
(* the margin kept for it.  A strict scenario adds [sold, bought, cash]    *)
(* and a delayed one its attempts [window, start, status, entry].          *)
(***************************************************************************)
EXTENDS ResearchTracks, ResearchMargin

RequiredOutcomes == {"vpoc", "invalidation", "credit_capture_25", "credit_capture_50", "credit_capture_70",
                     "fixed_3d", "fixed_5d", "fixed_7d", "settlement"}
OutsideExportContract == {"fixed_14d", "terminal_delayed_path"}
FixedEntryDelayHours == {0, 4, 8, 12}
SearchWindow == 120
IsInsideFixedEntryDelayWindow(target, actual) == target < actual /\ actual <= target + SearchWindow

(***************************************************************************)
(* What a store becomes when it is read: points outside a strict holding   *)
(* are dropped, and of a delayed attempt only its diagnostics stay.        *)
(***************************************************************************)
Lifetime(at, entry, expiry) == (entry # None => entry <= at) /\ (expiry # None => at <= expiry)

CompactDelayedAttempt(a) ==
    [window |-> None, start |-> IF a.window = None THEN None ELSE a.window.start, status |-> a.status, entry |-> None]
CompactResearchStructure(s) ==
    [s EXCEPT !.delayed = [mode \in Modes |-> [@[mode] EXCEPT !.attempts = {CompactDelayedAttempt(a) : a \in @}]]]
CanonicalizeScenario(x, expiry) ==
    IF x.status # "evaluated" \/ x.entry = None \/ expiry = None THEN x
    ELSE [x EXCEPT !.path = {p \in @ : Lifetime(p.at, x.entry, expiry)}]
MigrateResearchSelectionStore(store) ==
    [store EXCEPT !.selected =
        {CompactResearchStructure(
             [s EXCEPT !.strict = [mode \in Modes |-> CanonicalizeScenario(@[mode], s.expiry)]]) : s \in @}]

(***************************************************************************)
(* The structures: research keeps its own reference, and takes only the    *)
(* execution of the selected structure of its candidate.                   *)
(***************************************************************************)
IsSelected(store, id) == \E x \in store.selected : x.id = id
Overlay(r, x) == [r EXCEPT !.strict = x.strict, !.delayed = x.delayed, !.modeled = x.modeled, !.margin = None]
Analytical(store) ==
    {IF IsSelected(store, r.id) THEN Overlay(r, CHOOSE x \in store.selected : x.id = r.id) ELSE r :
        r \in store.research}
        \cup {x \in store.selected : ~\E r \in store.research : r.id = x.id}

StructureLoss(s) ==
    IF s.opened = None \/ None \in {s.type, s.short, s.long, s.expiry} THEN NoLoss("reference_incomplete")
    ELSE CanonicalStructuralLoss([type |-> s.type, short |-> s.short, long |-> s.long, expires |-> s.expiry,
                                  amount |-> s.quantity] @@ s.opened)
Economics(s) == [id |-> s.id, expiry |-> s.expiry, entry |-> s.reference.entry, loss |-> StructureLoss(s),
                 tracks |-> DescribeCanonicalTracks(s)]

(***************************************************************************)
(* A row for each structure and execution scenario.  A scenario whose      *)
(* prices are no credit loses its execution; one that cannot be told what  *)
(* it is blocks the export, unless its contracts were never resolved.      *)
(***************************************************************************)
Coherent(s, mode) ==
    /\ s.short # None /\ s.long # None
    /\ IF s.type = "C" THEN s.short < s.long ELSE s.short > s.long
    /\ s.strict[mode].status = "evaluated" => s.strict[mode].sold >= s.strict[mode].bought
Forced(s, mode) == s.strict[mode].status = "evaluated" /\ ~Coherent(s, mode)
Unreconciled(s) == \E mode \in Modes : /\ s.strict[mode].status # "evaluated" /\ ~Coherent(s, mode)
                                       /\ ~(s.short = None /\ s.long = None)

Candidate(store, s, mode) ==
    LET x == s.strict[mode]
        evaluated == x.status = "evaluated"
        kept == evaluated /\ ~Forced(s, mode)
    IN [id |-> s.id, scenario |-> mode, selected |-> IsSelected(store, s.id), role |-> s.role,
        status |-> IF Forced(s, mode) THEN "unavailable" ELSE x.status, expiry |-> s.expiry,
        entry |-> IF kept THEN x.entry ELSE None,
        sold |-> IF kept THEN x.sold ELSE None, bought |-> IF kept THEN x.bought ELSE None,
        native |-> IF kept THEN x.cash ELSE None, dollars |-> IF evaluated THEN x.cash ELSE None,
        quantity |-> s.quantity, reference |-> s.reference, opened |-> s.opened,
        modeled |-> IF IsSelected(store, s.id) THEN s.modeled ELSE None,
        delayed |-> IF IsSelected(store, s.id) THEN s.delayed ELSE None,
        resolved |-> s.short # None /\ s.long # None]

(***************************************************************************)
(* Valuations and outcomes: the immediate tracks of selected structures    *)
(* from their scenarios, the others from their own engines.                *)
(***************************************************************************)
Exported(s) == {mode \in Modes : s.strict[mode].status = "evaluated" /\ ~Forced(s, mode)}

ValuationRow(s, mode, track, pricing, at, pnl) ==
    [id |-> s.id, scenario |-> mode, track |-> track, pricing |-> pricing, at |-> at, pnl |-> pnl,
     status |-> IF pnl = None THEN "unavailable" ELSE "priced"]
StrictValuations(s) ==
    UNION {{ValuationRow(s, mode, StrictName(mode), pricing, p.at, IF pricing = "raw_vwap" THEN p.raw ELSE p.pnl) :
               p \in {q \in s.strict[mode].path : Lifetime(q.at, s.strict[mode].entry, s.expiry)},
               pricing \in {"raw_vwap", "iv_normalized"}} : mode \in Exported(s)}

SnapshotOf(outcomes, kind) ==
    IF \E o \in outcomes : o.kind = kind THEN CHOOSE o \in outcomes : o.kind = kind ELSE None

\* One outcome of a track; strict rows repeat the result of any snapshot, the others
\* only that of an evaluated one.
OutcomeRow(s, t, kind, o) ==
    LET source == OutcomeSourceStatus(o)
        trigger == OutcomeTriggerStatus(o, s.expiry)
        evaluated == trigger = "reached" /\ source = "estimated"
        due == IF o = None THEN None ELSE o.due
        valued == IF o = None THEN None ELSE o.at
        within == /\ valued # None /\ t.entry # None /\ s.expiry # None
                  /\ t.entry <= valued /\ valued <= s.expiry
        strict == t.track \in {"strict_maker", "strict_taker"}
    IN [id |-> s.id, scenario |-> t.mode, track |-> t.track, kind |-> kind, source |-> source, trigger |-> trigger,
        status |-> IF evaluated THEN "evaluated" ELSE "unavailable",
        due |-> due, at |-> IF within THEN valued ELSE None,
        holding |-> OutcomeHoldingHours(evaluated, t.entry, valued, due, s.expiry),
        pnl |-> IF o # None /\ (strict \/ evaluated) THEN o.pnl ELSE None,
        raw |-> IF o # None /\ strict /\ trigger = "reached" /\ (kind = "settlement" \/ o.raw) THEN o.pnl ELSE None]
StrictOutcomes(s) ==
    UNION {{OutcomeRow(s, StrictTrack(s, mode), kind, SnapshotOf(s.strict[mode].outcomes, kind)) :
               kind \in RequiredOutcomes} : mode \in Exported(s)}

GatedTracks(s) == {t \in DescribeCanonicalTracks(s) :
                      /\ t.status = "available" /\ t.track \notin {"strict_maker", "strict_taker"}
                      /\ \E mode \in Modes : s.strict[mode].status = "evaluated"}
IndependentTracks(s) ==
    {t \in DescribeCanonicalTracks(s) : t.status = "available" /\ t.track \notin {"strict_maker", "strict_taker"}}
IndependentValuations(s) ==
    UNION {{ValuationRow(s, t.mode, t.track, t.track, p.at, p.pnl) :
               p \in {q \in t.path : Lifetime(q.at, t.entry, s.expiry)}} : t \in IndependentTracks(s)}
IndependentOutcomes(s) ==
    UNION {{OutcomeRow(s, t, kind, SnapshotOf(t.outcomes, kind)) :
               kind \in {k \in RequiredOutcomes : SnapshotOf(t.outcomes, k) # None}} : t \in IndependentTracks(s)}

(***************************************************************************)
(* Margin, recomputed where none was kept; what a configuration came to;   *)
(* and each structure's entry at fixed delays.                             *)
(***************************************************************************)
AsVertical(s) ==
    [type |-> s.type, short |-> s.short, long |-> s.long, expires |-> s.expiry, amount |-> s.quantity,
     reference |-> [status |-> s.reference.status, entry |-> s.opened, path |-> s.marks]]
Margin(s) ==
    LET m == IF (IF s.margin = None THEN TRUE ELSE s.margin.reason = "margin_not_recomputed")
             THEN BuildResearchMarginSnapshot(AsVertical(s)) ELSE s.margin
    IN [id |-> s.id, status |-> m.status, reason |-> IF "reason" \in DOMAIN m THEN m.reason ELSE None,
        usd |-> IF "usd" \in DOMAIN m THEN m.usd ELSE None]

EconomicOpportunity(modeled) ==
    CASE modeled.status = "evaluated" -> "trade"
      [] modeled.status # "evaluated" ->
             IF modeled.code = "empirical_nonpositive_credit_after_fees" THEN "explicit_no_trade" ELSE "unavailable"
Opportunity(store, config) ==
    LET chosen == {s \in store.selected : \E c \in store.generated : c.config = config /\ c.id = s.id}
    IN [config |-> config,
        id |-> IF Cardinality(chosen) = 1 THEN (CHOOSE s \in chosen : TRUE).id ELSE None,
        status |-> IF Cardinality(chosen) = 1 THEN EconomicOpportunity((CHOOSE s \in chosen : TRUE).modeled["expected"])
                   ELSE "unavailable"]

PreEntry(timing, target) ==
    LET ends == {[of |-> "pre_entry_vpoc", at |-> timing.vpoc], [of |-> "pre_entry_invalidation", at |-> timing.breach]}
        before == {e \in ends : e.at # None /\ target # None /\ e.at < target}
        first == {e \in before : \A f \in before : e.at <= f.at}
    IN CASE first = {} -> "none"
         [] Cardinality(first) = 1 -> (CHOOSE e \in first : TRUE).of
         [] OTHER -> "pre_entry_ambiguous"

EntryDelay(store, s, mode, hours) ==
    LET reference == s.reference.entry
        target == IF reference = None THEN None ELSE reference + HourLength * hours
        found == {a \in s.delayed[mode].attempts : a.window # None /\ a.window.start = HourLength * hours}
        attempt == IF found = {} THEN None ELSE CHOOSE a \in found : TRUE
        actual == IF attempt = None THEN None ELSE attempt.entry
        pre == PreEntry(ResolveEventTiming(store.event, store.candles), target)
        available == /\ pre = "none" /\ actual # None /\ target # None
                     /\ attempt.status \in {"delayed observed opportunity", "delayed taker execution proxy"}
                     /\ IsInsideFixedEntryDelayWindow(target, actual)
    IN [id |-> s.id, scenario |-> mode, hours |-> hours, target |-> target, actual |-> IF available THEN actual ELSE None,
        status |-> IF reference = None THEN "not_evaluated"
                   ELSE IF pre # "none" THEN "pre_entry_resolution"
                   ELSE IF available THEN "available" ELSE "unavailable"]

BuildResearchBundle(persisted) ==
    LET store == MigrateResearchSelectionStore(persisted)
        all == Analytical(store)
    IN [economics |-> {Economics(s) : s \in all},
        candidates |-> {Candidate(store, s, mode) : s \in all, mode \in Modes},
        valuations |-> UNION {StrictValuations(s) : s \in store.selected} \cup UNION {IndependentValuations(s) : s \in all},
        outcomes |-> UNION {StrictOutcomes(s) : s \in store.selected} \cup UNION {IndependentOutcomes(s) : s \in all},
        availability |-> {[id |-> c.id, selected |-> IsSelected(store, c.id)] : c \in store.generated},
        opportunities |-> {Opportunity(store, config) : config \in {c.config : c \in store.generated}},
        margins |-> {Margin(s) : s \in {x \in all : IsSelected(store, x.id)}},
        futures |-> BuildEventFuturesBaseline(store.event, store.candles, store.market, "vpoc"),
        delays |-> {EntryDelay(store, s, mode, hours) : s \in store.selected, mode \in Modes, hours \in FixedEntryDelayHours},
        event |-> store.event, unreconciled |-> \E s \in all : Unreconciled(s)]

(***************************************************************************)
(* A structure may be exported on a reference whose contents stand up, or  *)
(* on an execution.                                                        *)
(***************************************************************************)
ValidReference(c, event) ==
    /\ c.reference.status = "valued" /\ c.resolved
    /\ c.opened # None /\ c.quantity > 0 /\ c.opened.sold > c.opened.bought
    /\ c.reference.entry # None /\ event.at <= c.reference.entry /\ c.reference.entry <= c.expiry
    /\ \A p \in c.reference.path : Lifetime(p.at, c.reference.entry, c.expiry)
AssessCandidateAnalyticalTracks(rows, event) ==
    \E c \in rows : ValidReference(c, event) \/ c.status = "evaluated"

(***************************************************************************)
(* The rules of a bundle b.                                                *)
(***************************************************************************)
TracksOf(b) == UNION {{[id |-> e.id, expiry |-> e.expiry, of |-> t] : t \in e.tracks} : e \in b.economics}
RowsOfTrack(rows, t) == {r \in rows : r.id = t.id /\ r.track = t.of.track}
CandidateIds(b) == {c.id : c \in b.candidates}

OneRecordEach(b) ==
    /\ {e.id : e \in b.economics} = CandidateIds(b) /\ Cardinality(b.economics) = Cardinality(CandidateIds(b))
    /\ \A e \in b.economics : CanonicalTracks \subseteq {t.track : t \in e.tracks}
Provenance(b) ==
    \A c \in b.candidates :
        /\ c.selected \/ c.role # None
        /\ ~c.selected => c.status # "evaluated"
        /\ \E a \in b.availability : a.id = c.id /\ a.selected = c.selected
KeysResolve(b) == \A r \in b.valuations \cup b.outcomes \cup b.margins \cup b.delays : r.id \in CandidateIds(b)

\* By structure and scenario, whatever track of the scenario the row is of.
WithinScenario(b) ==
    \A r \in b.valuations \cup b.outcomes : \A c \in b.candidates :
        c.id = r.id /\ c.scenario = r.scenario /\ r.at # None => Lifetime(r.at, c.entry, c.expiry)
Reconciled(b) ==
    \A c \in b.candidates :
        /\ c.native # None => c.native.net = c.native.gross - c.native.fees
                              /\ c.native.gross = (c.sold - c.bought) * c.quantity
        /\ c.dollars # None => c.dollars.net = c.dollars.gross - c.dollars.fees
OneLoss(b) ==
    \A e \in b.economics :
        /\ e.loss.status = "available" => e.loss.usd >= 0
        /\ \A m \in b.margins :
              m.id = e.id /\ m.usd # None /\ e.loss.usd # None => StructuralLossAgrees(m.usd, e.loss.usd)
MarginsOfSelected(b) ==
    /\ {m.id : m \in b.margins} = {c.id : c \in {x \in b.candidates : x.selected}}
    /\ \A m \in b.margins : (m.status = "available") = (m.reason = None)

Exportable(t) == {o \in t.of.outcomes : o.kind \notin OutsideExportContract}
TracksExported(b) ==
    \A t \in TracksOf(b) :
        /\ t.of.status = "available" => t.of.pathStatus = "available"
        /\ t.of.status = "available" /\ t.of.track \in {"delayed_maker", "delayed_taker"} =>
               \E r \in RowsOfTrack(b.valuations, t) : r.status = "priced"
        /\ Exportable(t) # {} => RowsOfTrack(b.outcomes, t) # {}
OutcomesFaithful(b) ==
    \A t \in TracksOf(b) : \A o \in Exportable(t) :
        \E r \in RowsOfTrack(b.outcomes, t) :
            /\ r.kind = o.kind /\ r.source = OutcomeSourceStatus(o)
            /\ r.source = "estimated" /\ r.trigger = "reached" => r.status = "evaluated"
            /\ r.due # None /\ o.due # None => r.due = o.due
            /\ r.at # None /\ o.at # None => r.at = o.at
            /\ r.source = "estimated" /\ o.pnl # None /\ r.pnl # None => r.pnl = o.pnl
HoldingsOfTracks(b) ==
    \A r \in b.outcomes :
        LET t == CHOOSE x \in TracksOf(b) : x.id = r.id /\ x.of.track = r.track
            closes == IF r.at # None THEN r.at ELSE r.due
        IN IF r.holding = None THEN ~(r.status = "evaluated" /\ r.at # None)
           ELSE /\ r.holding >= 0 /\ r.status = "evaluated"
                /\ closes # None /\ t.of.entry # None => r.holding = closes - t.of.entry
                /\ closes # None => closes <= t.expiry
EvaluatedIsSupported(b) ==
    \A r \in b.outcomes : r.status = "evaluated" =>
        \A t \in TracksOf(b) : t.id = r.id /\ t.of.track = r.track => t.of.outcomes # {}
WithinTrack(b) ==
    /\ \A r \in b.valuations : \E t \in TracksOf(b) :
          t.id = r.id /\ t.of.track = r.track /\ Lifetime(r.at, t.of.entry, t.expiry)
    /\ \A r, x \in b.valuations :
          r # x => <<r.id, r.track, r.at, r.pricing>> # <<x.id, x.track, x.at, x.pricing>>
NeverBackdated(b) ==
    \A t, u \in TracksOf(b) :
        (/\ t.id = u.id /\ u.of.track = "reference_fair_value"
         /\ t.of.track \in {"delayed_maker", "delayed_taker"}
         /\ t.of.entry # None /\ u.of.entry # None) => u.of.entry <= t.of.entry
FuturesKept(b) ==
    b.futures.status = "available" => b.futures.path # <<>>
DelaysInWindow(b) ==
    \A d \in b.delays : IF d.status = "available" THEN IsInsideFixedEntryDelayWindow(d.target, d.actual)
                        ELSE d.actual = None
Complete(b) ==
    \A c \in b.candidates :
        c.status = "evaluated" =>
            /\ {"raw_vwap", "iv_normalized"}
                   \subseteq {r.pricing : r \in {x \in b.valuations : x.id = c.id /\ x.scenario = c.scenario}}
            /\ RequiredOutcomes \subseteq {r.kind : r \in {x \in b.outcomes : x.id = c.id /\ x.scenario = c.scenario}}
Admissible(b) ==
    \A id \in CandidateIds(b) :
        LET rows == {c \in b.candidates : c.id = id}
        IN \/ AssessCandidateAnalyticalTracks(rows, b.event)
           \/ \E c \in rows : ~c.selected /\ c.role # None /\ c.reference.status = "unavailable"

\* The rules that a bundle breaks; any of them keeps it from being written.
ValidateResearchBundle(b) ==
    {rule[1] : rule \in {r \in
        {<<"economics", OneRecordEach(b)>>, <<"provenance", Provenance(b)>>, <<"keys", KeysResolve(b)>>,
         <<"scenario bounds", WithinScenario(b)>>, <<"reconciliation", Reconciled(b)>>, <<"loss", OneLoss(b)>>,
         <<"margin", MarginsOfSelected(b)>>, <<"tracks", TracksExported(b)>>, <<"outcomes", OutcomesFaithful(b)>>,
         <<"holding", HoldingsOfTracks(b)>>, <<"support", EvaluatedIsSupported(b)>>,
         <<"track bounds", WithinTrack(b)>>, <<"backdating", NeverBackdated(b)>>, <<"futures", FuturesKept(b)>>,
         <<"delays", DelaysInWindow(b)>>, <<"completeness", Complete(b)>>, <<"admissibility", Admissible(b)>>} :
        ~r[2]}}
=============================================================================
