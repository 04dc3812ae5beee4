------------------------------ MODULE DurationDte ------------------------------
(***************************************************************************)
(* Duration and days to expiry: what each structure of an event lived to   *)
(* see, and its horizons and executions compared with each other.          *)
(*                                                                         *)
(* A study is [data, event]: the dataset of an event and the event's row   *)
(* as UnderlyingResolution reads it.  Here a candidate row adds [horizon,  *)
(* dte, variant, sync], a row of availability [horizon, status, quality]   *)
(* and a point of a reference path [debit], what closing it would have     *)
(* cost.  Times and durations are minutes.                                 *)
(***************************************************************************)
EXTENDS UnderlyingResolution

Thresholds == {25, 50, 70}
CaptureOf == [t \in Thresholds |-> CASE t = 25 -> "credit_capture_25" [] t = 50 -> "credit_capture_50"
                                     [] t = 70 -> "credit_capture_70"]
Difference(a, b) == IF a = None \/ b = None THEN None ELSE a - b

(***************************************************************************)
(* Facts of a structure, whichever of its rows is read.  Its entry is that *)
(* of its reference, and never falls back to an execution's or the event's.*)
(***************************************************************************)
StructuralDte(rows) ==
    LET known == {r.dte : r \in {x \in rows : x.dte # None}}
    IN IF known = {} THEN None ELSE CHOOSE dte \in known : TRUE
StructuralEntry(reference, economics) ==
    Given(FieldOf(reference, "entry"), FieldOf(economics, "entry"))

\* The row of a scenario the tables give first: strict rows precede the others.
FoundOutcome(d, id, scenario, kind) ==
    LET rows == {o \in d.outcomes : o.id = id /\ o.scenario = scenario /\ o.kind = kind}
    IN IF scenario = None \/ rows = {} THEN None
       ELSE CHOOSE o \in rows : (\E x \in rows : OfStrictRow(x)) => OfStrictRow(o)

\* A strict row states its result by pricing track; of the others, exported as
\* evaluated, nothing is read.
PnlAt(d, id, scenario, kind) ==
    LET o == FoundOutcome(d, id, scenario, kind)
    IN IF o = None THEN None
       ELSE IF OfStrictRow(o) THEN o.raw
       ELSE IF o.status = "priced" THEN o.pnl ELSE None

CaptureObservation(d, id, scenario, threshold, entry, mr) ==
    LET o == FoundOutcome(d, id, scenario, CaptureOf[threshold])
        reached == o.trigger = "reached"
        after == IF reached /\ o.at # None THEN Difference(o.due, entry) ELSE None
        By(time) == IF time = None \/ after = None THEN None ELSE after <= time
    IN IF o = None THEN None
       ELSE [reached |-> reached, after |-> after, evaluable |-> reached \/ o.trigger = "not_reached",
             beforeVpoc |-> By(mr.toVpoc), beforeInvalidation |-> By(mr.toInvalidation)]

(***************************************************************************)
(* The reference track: what it came to at an outcome, when enough of its  *)
(* credit was kept, and how far under water it went.                       *)
(***************************************************************************)
EvaluablePoint(p) == FieldOf(p, "status") \in {None, "priced", "evaluated"}
ReferencePnl(track, kind) ==
    LET own == {o \in track.outcomes : o.kind = kind}
    IN IF own = {} THEN None ELSE (CHOOSE o \in own : TRUE).pnl

NoCapture == [reached |-> FALSE, after |-> None, evaluable |-> FALSE, beforeVpoc |-> None, beforeInvalidation |-> None]
ReferenceCapture(track, threshold, entry, expiry, vpoc, invalidation) ==
    LET credit == track.economics.gross
        marks == {p \in track.path : EvaluablePoint(p) /\ FieldOf(p, "debit") # None /\ Lifetime(p.at, entry, expiry)}
        enough == {p.at : p \in {x \in marks : 100 * x.debit <= credit * (100 - threshold)}}
        hit == FirstOf(enough)
        By(time) == IF hit = None \/ time = None THEN None ELSE hit <= time
    IN IF track.status # "available" THEN None
       ELSE IF (IF credit = None THEN TRUE ELSE credit <= 0) \/ marks = {} THEN NoCapture
       ELSE [reached |-> hit # None, after |-> Difference(hit, entry), evaluable |-> TRUE,
             beforeVpoc |-> By(vpoc), beforeInvalidation |-> By(invalidation)]
ReferenceAdverse(track, entry, boundary) ==
    EvaluateReferenceAdversePath(
        IF track.status # "available" THEN {}
        ELSE {[at |-> p.at, usd |-> p.pnl, native |-> p.pnl] : p \in {x \in track.path : EvaluablePoint(x)}},
        entry, boundary)
ObservedAdverse(d, r, entry, boundary) ==
    AdversePath({[candidate |-> v.id, scenario |-> v.scenario, track |-> FieldOf(v, "pricing"), status |-> v.status,
                  reason |-> None, at |-> v.at, usd |-> v.pnl] : v \in d.valuations},
                r.id, r.scenario, r.status = "evaluated", entry, boundary)

(***************************************************************************)
(* A structure against the thesis of its event.  Only a resolution after   *)
(* its entry counts, and the first one decides its bucket.                 *)
(***************************************************************************)
AfterEntry(times, entry) == FirstOf({t \in times : t # None /\ (entry # None => t >= entry)})

OutcomeBeforeExpiry(vpoc, invalidation, resolved, entry, expiry, dte) ==
    CASE expiry = None \/ dte = None -> None
      [] expiry # None /\ dte # None /\ vpoc # None /\ entry # None /\ vpoc < entry -> "vpoc_before_structure_entry"
      [] expiry # None /\ dte # None /\ ~(vpoc # None /\ entry # None /\ vpoc < entry) ->
             IF (IF resolved = None THEN TRUE ELSE resolved > expiry) THEN "no_resolution_before_expiry"
             ELSE IF resolved = vpoc /\ resolved = invalidation THEN "ambiguous_before_expiry"
             ELSE IF resolved = vpoc THEN "vpoc_before_expiry" ELSE "invalidation_before_expiry"

AmbiguousPnl(track, bucket, vpoc, invalidation) ==
    LET shared == {p \in track.path : EvaluablePoint(p) /\ p.at = vpoc /\ p.pnl # None}
    IN IF bucket = "ambiguous_before_expiry" /\ vpoc = invalidation /\ track # None /\ Cardinality(shared) = 1
       THEN (CHOOSE p \in shared : TRUE).pnl ELSE None

RequiredCapital(d, id) ==
    LET own == {m \in d.margins : m.id = id}
        m == CHOOSE x \in own : TRUE
    IN IF own = {} THEN None
       ELSE IF m.status = "available" THEN Given(m.usd, m.peak) ELSE None

Structural(d, r, siblings, reference) ==
    LET economics == {e \in d.economics : e.id = r.id}
    IN [id |-> r.id, scenario |-> r.scenario, status |-> r.status, legacy |-> r.legacy, horizon |-> r.horizon,
        variant |-> r.variant, sync |-> IF r.status = "evaluated" THEN r.sync ELSE None, expiry |-> r.expiry,
        entry |-> StructuralEntry(reference, IF economics = {} THEN None ELSE CHOOSE e \in economics : TRUE),
        dte |-> StructuralDte(siblings)]

NoResolution == [toVpoc |-> None, toInvalidation |-> None, toResolution |-> None, outcome |-> "unresolved"]
Nothing == [of \in {"vpoc", "invalidation", "settlement"} |-> None]
NotCaptured == [t \in Thresholds |-> None]
Ineligible(mr) ==
    [mr |-> NoResolution, preEntryVpoc |-> FALSE, resolved |-> None, within |-> None, bucket |-> None, detail |-> None,
     buffer |-> None, holding |-> None, heldToExpiry |-> None, pnl |-> Nothing, observed |-> Nothing, ambiguous |-> None,
     adverse |-> NoPath("no_observation_window"), observedAdverse |-> NoPath("no_observation_window"),
     capture |-> NotCaptured, observedCapture |-> NotCaptured, capital |-> None, ineligible |-> mr.ineligible]

NormalizeDteCandidate(study, r) ==
    LET d == [study.data EXCEPT !.candidates = {c \in @ : c.selected # FALSE}]
        mr == NormalizeMrEvent(study.event)
        observations == BuildResearchAnalyticsModel(d, "selected")
        observation == CHOOSE o \in observations : o.id = r.id
        reference == IF "reference" \in DOMAIN observation.tracks THEN observation.tracks["reference"] ELSE None
        structural == Structural(d, r, ScenarioRows(d, r.id), reference)
        entry == structural.entry
        Absolute(time) == IF time = None THEN None ELSE mr.at + time
        vpoc == Absolute(mr.toVpoc)
        invalidation == Absolute(mr.toInvalidation)
        early == vpoc # None /\ entry # None /\ vpoc < entry
        resolved == AfterEntry({vpoc, invalidation}, entry)
        bucket == OutcomeBeforeExpiry(vpoc, invalidation, resolved, entry, r.expiry, structural.dte)
        boundary == IF resolved # None THEN resolved ELSE FirstOf({r.expiry, Absolute(mr.observed)})
        observed == [of \in {"vpoc", "invalidation", "settlement"} |-> PnlAt(d, r.id, r.scenario, of)]
        valued == IF reference = None THEN observed ELSE [of \in DOMAIN observed |-> ReferencePnl(reference, of)]
        adverse == ObservedAdverse(d, r, entry, boundary)
        captured == [t \in Thresholds |-> CaptureObservation(d, r.id, r.scenario, t, entry, mr)]
    IN structural @@
       (IF mr.ineligible # None THEN Ineligible(mr)
        ELSE [mr |-> mr, preEntryVpoc |-> early, resolved |-> Difference(resolved, entry),
              within |-> IF r.expiry = None \/ structural.dte = None THEN None
                         ELSE IF resolved = None THEN FALSE ELSE resolved <= r.expiry,
              bucket |-> bucket,
              detail |-> IF bucket # "no_resolution_before_expiry" THEN None
                         ELSE IF mr.toResolution # None THEN "resolved_later" ELSE "still_unresolved",
              buffer |-> Difference(r.expiry, resolved),
              holding |-> Difference(FirstOf({resolved, r.expiry}), entry),
              heldToExpiry |-> IF r.expiry = None THEN None ELSE IF resolved = None THEN TRUE ELSE resolved > r.expiry,
              pnl |-> IF early THEN [valued EXCEPT !["vpoc"] = None] ELSE valued,
              ambiguous |-> AmbiguousPnl(reference, bucket, vpoc, invalidation),
              observed |-> observed, observedAdverse |-> adverse,
              adverse |-> IF reference = None THEN adverse ELSE ReferenceAdverse(reference, entry, boundary),
              capture |-> IF reference = None THEN captured
                          ELSE [t \in Thresholds |->
                                   ReferenceCapture(reference, t, entry, r.expiry, vpoc, invalidation)],
              observedCapture |-> captured, capital |-> RequiredCapital(d, r.id), ineligible |-> None])

NormalizeDteCandidates(study) ==
    {NormalizeDteCandidate(study, r) @@ [event |-> study.event.id] :
        r \in {c \in study.data.candidates : c.selected # FALSE}}

\* What came of a structure while it existed.
OutcomeOfBucket == [vpoc_before_expiry |-> "vpoc", invalidation_before_expiry |-> "invalidation",
                    no_resolution_before_expiry |-> "settlement"]
ResultIn(c, results) == IF c.bucket \in DOMAIN OutcomeOfBucket THEN results[OutcomeOfBucket[c.bucket]] ELSE None
RealizedPnlOf(c) == ResultIn(c, c.pnl)
ObservedPnlOf(c) == ResultIn(c, c.observed)
=============================================================================
