---------------------------- MODULE ResearchMargin ----------------------------
(***************************************************************************)
(* What a credit vertical can lose and what it ties up: the structural     *)
(* loss over every settlement, the standard margin along the reference     *)
(* path, the settlement ledger and the adverse path.                       *)
(*                                                                         *)
(* A vertical is [type, short, long, expires, amount, sold, bought, index, *)
(* fees], the premiums and fees in prices of Scale to the coin.  Dollars   *)
(* are multiplied by Scale and margins by a thousand, so that both stay    *)
(* integers.  A mark is [at, index, sold, bought].                         *)
(***************************************************************************)
EXTENDS ResearchValuation

CONSTANTS MarginVerifiedFrom,   \* first moment of the verified rule period
          OptionToFutureFrom    \* first expiry settled through a future
ASSUME MarginAssumption == MarginVerifiedFrom \in Int /\ OptionToFutureFrom \in Int

(***************************************************************************)
(* The bounded loss: the entry at its own index and the spread at each     *)
(* settlement, delivery fees apart.                                        *)
(***************************************************************************)
CreditSpreadKind(v) ==
    CASE v.type = "C" /\ 0 < v.short /\ v.short < v.long -> "bear-call-credit"
      [] v.type = "P" /\ 0 < v.long /\ v.long < v.short -> "bull-put-credit"
      [] OTHER -> None

Payable(type, strike, index) == Larger(0, IF type = "C" THEN index - strike ELSE strike - index)
NetEntry(v) == (v.sold - v.bought) * v.amount - v.fees
StructuralValue(v, index) ==
    NetEntry(v) * v.index + Scale * (Payable(v.type, v.long, index) - Payable(v.type, v.short, index)) * v.amount
DeliveryFees(v, index) ==
    DeliveryFee(IntrinsicPrice(v.type, index, v.short), v.amount)
        + DeliveryFee(IntrinsicPrice(v.type, index, v.long), v.amount)

\* Next to zero, both knees, and the plateau beyond them.
StructuralSampleIndices(v) ==
    {0, v.short, v.long, 4 * Larger(Larger(v.short, v.long), v.index)}

NoLoss(reason) == [status |-> "unavailable", reason |-> reason, usd |-> None, at |-> None, fees |-> None,
                   bounded |-> FALSE, source |-> None, reconciled |-> FALSE]

CanonicalStructuralLoss(v) ==
    LET kind == CreditSpreadKind(v)
        samples == StructuralSampleIndices(v)
        worst == Min({StructuralValue(v, i) : i \in samples})
        tied == {i \in samples : StructuralValue(v, i) = worst}
        at == IF kind = "bear-call-credit" THEN Min(tied) ELSE Max(tied)
    IN IF v.index = None THEN NoLoss("no_reference_index")
       ELSE IF v.index <= 0 THEN NoLoss("no_reference_index")
       ELSE IF kind = None \/ v.amount <= 0 \/ v.fees < 0 THEN NoLoss("not_a_credit_spread")
       ELSE [status |-> "available", reason |-> None, usd |-> Abs(worst), at |-> at, fees |-> DeliveryFees(v, at),
             bounded |-> kind = "bull-put-credit", source |-> "canonical_helper", reconciled |-> FALSE]

(***************************************************************************)
(* The two exported tables carry the loss; a reader takes it from either,  *)
(* from neither if they disagree, and computes it only if both are silent. *)
(* A row is [status, usd, at, fees, bounded, reason], or None.             *)
(***************************************************************************)
StructuralLossAgrees(a, b) == 1000000 * Abs(a - b) <= Larger(Scale, Larger(Abs(a), Abs(b)))

FeesFromRow(row) == [fees |-> row.fees, bounded |-> row.bounded]
ReadingOf(row, source, reconciled) ==
    [status |-> "available", reason |-> None, usd |-> Abs(row.usd), at |-> row.at,
     source |-> source, reconciled |-> reconciled] @@ FeesFromRow(row)

ReadCanonicalStructuralLoss(economics, margin, fallback) ==
    LET stated == IF economics = None THEN FALSE ELSE economics.status = "available" /\ economics.usd # None
        kept == IF margin = None THEN FALSE ELSE margin.usd # None
        agree == stated /\ kept => StructuralLossAgrees(economics.usd, margin.usd)
    IN CASE ~agree -> NoLoss("integrity_failure")
         [] agree /\ stated -> ReadingOf(economics, "structure_economics", kept)
         [] ~stated /\ kept -> ReadingOf(margin, "margin_scenarios", FALSE)
         [] ~stated /\ ~kept ->
                IF (IF economics = None THEN FALSE ELSE economics.status # "available")
                THEN NoLoss(economics.reason)
                ELSE IF fallback = None THEN NoLoss("absent") ELSE CanonicalStructuralLoss(fallback)

(***************************************************************************)
(* Standard margin, held from each mark to the next and from the last to   *)
(* the end.  The long leg needs none and lends no offset.                  *)
(***************************************************************************)
EstimateStandardOptionMargin(v, mark) ==
    LET refused == CASE mark.at < MarginVerifiedFrom -> "margin_historical_rule_unverified"
                     [] mark.at >= MarginVerifiedFrom /\ mark.index = None -> "margin_missing_index"
                     [] mark.at >= MarginVerifiedFrom /\ mark.index # None ->
                            IF mark.index <= 0 THEN "margin_missing_index"
                            ELSE IF mark.sold = None THEN "margin_missing_short_mark"
                            ELSE IF mark.sold < 0 THEN "margin_missing_short_mark" ELSE None
        otm == (1000 * Payable(IF v.type = "C" THEN "P" ELSE "C", v.short, mark.index)) \div mark.index
    IN IF refused # None THEN [status |-> "unavailable", reason |-> refused]
       ELSE [status |-> "ok", at |-> mark.at,
             initial |-> (1000 * mark.sold + Scale * Larger(150 - otm, 100)) * v.amount,
             maintenance |-> (1000 * mark.sold + Scale * 75) * v.amount]

NoMargin(reason) == [status |-> "unavailable", reason |-> reason]

CapitalDays(path, terminal) ==
    FoldLeft(LAMBDA sum, k :
                 sum + path[k].initial
                       * Larger(0, (IF k < Len(path) THEN path[k + 1].at ELSE terminal) - path[k].at),
             0, [k \in DOMAIN path |-> k])

ReconstructStandardVerticalMargin(v, marks, entry, end) ==
    LET terminal == Lesser(end, v.expires)
        held == {m \in marks : entry <= m.at /\ m.at <= terminal}
        ordered == SetToSortSeq(held, LAMBDA m, n : m.at < n.at)
        path == [k \in DOMAIN ordered |-> EstimateStandardOptionMargin(v, ordered[k])]
        refused == {k \in DOMAIN path : path[k].status # "ok"}
        PeakOf(field(_)) ==
            LET top == Max({field(path[k]) : k \in DOMAIN path})
            IN [value |-> top, at |-> Min({path[k].at : k \in {j \in DOMAIN path : field(path[j]) = top}})]
    IN CASE held = {} -> NoMargin("margin_no_canonical_valuation_path")
         [] held # {} /\ CreditSpreadKind(v) = None -> NoMargin("verified_historical_margin_model_unavailable")
         [] held # {} /\ CreditSpreadKind(v) # None ->
                IF refused # {} THEN NoMargin(path[Min(refused)].reason)
                ELSE [status |-> "available", opening |-> path[1], days |-> CapitalDays(path, terminal),
                      peakInitial |-> PeakOf(LAMBDA p : p.initial),
                      peakMaintenance |-> PeakOf(LAMBDA p : p.maintenance),
                      covered |-> Cardinality({m \in held : m.bought # None})]

\* The entry's mark, replaced by the path's of the same moment.
ReferenceMarginPoints(reference) ==
    IF reference = None THEN {}
    ELSE IF reference.status # "valued" THEN {}
    ELSE LET path == reference.path
             entry == reference.entry
         IN path \cup IF entry.at = None \/ \E m \in path : m.at = entry.at THEN {}
                      ELSE {[at |-> entry.at, index |-> entry.index, sold |-> entry.sold, bought |-> entry.bought]}

BuildResearchMarginSnapshot(s) ==
    LET entry == s.reference.entry
        v == [type |-> s.type, short |-> s.short, long |-> s.long, expires |-> s.expires, amount |-> s.amount,
              sold |-> entry.sold, bought |-> entry.bought, index |-> entry.index, fees |-> entry.fees]
        complete == /\ s.type \in {"C", "P"}
                    /\ None \notin {v.short, v.long, v.expires, v.sold, v.bought, v.index, v.fees, entry.at}
        loss == CanonicalStructuralLoss(v)
    IN IF s.reference = None THEN NoMargin("margin_no_canonical_valuation_path")
       ELSE IF s.reference.status # "valued" THEN NoMargin("margin_no_canonical_valuation_path")
       ELSE IF ~complete THEN NoMargin("verified_historical_margin_model_unavailable")
       ELSE IF loss.status # "available" THEN NoMargin("verified_historical_margin_model_unavailable")
       ELSE ReconstructStandardVerticalMargin(v, ReferenceMarginPoints(s.reference), entry.at, v.expires)
            @@ [usd |-> loss.usd, at |-> loss.at, fees |-> loss.fees, bounded |-> loss.bounded]

(***************************************************************************)
(* Settlement of one leg: in cash, or since a date through a future struck *)
(* at its strike.  Profit and loss in dollars at the delivery price.       *)
(***************************************************************************)
FutureOfSide(leg) == (IF leg.side = "long" THEN 1 ELSE -1) * leg.amount * leg.strike
GeneratedFuture(leg) ==
    (IF leg.side = "long" THEN 1 ELSE -1) * (IF leg.type = "C" THEN 1 ELSE -1) * leg.amount * leg.strike

BuildOptionSettlementLedger(leg) ==
    LET payable == Payable(leg.type, leg.strike, leg.delivery)
        value == (IF leg.side = "long" THEN 1 ELSE -1) * leg.amount * payable
        fee == DeliveryFee(IntrinsicPrice(leg.type, leg.delivery, leg.strike), leg.amount)
        future == GeneratedFuture(leg)
    IN CASE leg.expires < OptionToFutureFrom ->
                [entries |-> <<"direct-cash-settlement">>, future |-> 0, pnl |-> value, fee |-> fee]
         [] leg.expires >= OptionToFutureFrom /\ payable = 0 ->
                [entries |-> <<"expiry">>, future |-> 0, pnl |-> 0, fee |-> 0]
         [] leg.expires >= OptionToFutureFrom /\ payable # 0 ->
                [entries |-> <<"option-to-future", "future-delivery">>, future |-> future,
                 pnl |-> (future * (leg.delivery - leg.strike)) \div leg.strike, fee |-> fee]

(***************************************************************************)
(* How far under water a structure went, up to a boundary.  A point is     *)
(* [at, usd, native]; a valuation row adds [candidate, scenario, track,    *)
(* status, reason].                                                        *)
(***************************************************************************)
NoPath(status) == [status |-> status, worst |-> None, before |-> None, marks |-> 0]

MarksInWindow(points, entry, boundary) ==
    SetToSortSeq({p \in points : entry <= p.at /\ p.at <= boundary /\ p.usd # None},
                 LAMBDA p, q : p.at < q.at)
AdverseOf(marks) ==
    LET won == {k \in DOMAIN marks : marks[k].usd > 0}
        Under(n) == Min({0} \cup {marks[k].usd : k \in 1..n})
    IN [status |-> "available", worst |-> Under(Len(marks)), marks |-> Len(marks),
        before |-> IF won = {} THEN None ELSE Under(Min(won))]

EvaluateReferenceAdversePath(points, entry, boundary) ==
    LET marks == MarksInWindow(points, entry, boundary)
        native == \E p \in points : entry <= p.at /\ p.at <= boundary /\ p.native # None
    IN CASE entry = None \/ boundary = None -> NoPath("no_observation_window")
         [] entry # None /\ boundary # None ->
                IF marks # <<>> THEN AdverseOf(marks)
                ELSE NoPath(IF native THEN "usd_representation_unavailable" ELSE "no_raw_marks")

\* The first reason that any row gives, in the order the code looks for them.
PathReasons == <<"insufficient_amount", "missing_leg", "synchronization_failure", "no_compatible_tape">>
AdversePath(rows, candidate, scenario, evaluated, entry, boundary) ==
    LET own == {r \in rows : r.candidate = candidate /\ r.scenario = scenario /\ r.track = "raw_vwap"}
        marks == MarksInWindow({r \in own : r.status = "priced"}, entry, boundary)
        given == {k \in DOMAIN PathReasons : \E r \in own : r.reason = PathReasons[k]}
    IN CASE scenario = None \/ ~evaluated -> NoPath("scenario_not_evaluated")
         [] scenario # None /\ evaluated /\ (entry = None \/ boundary = None) -> NoPath("no_observation_window")
         [] scenario # None /\ evaluated /\ entry # None /\ boundary # None ->
                IF marks # <<>> THEN AdverseOf(marks)
                ELSE NoPath(IF own = {} THEN "raw_evaluation_not_attempted"
                            ELSE IF given = {} THEN "no_raw_marks" ELSE PathReasons[Min(given)])
ReferenceAdversePath(rows, candidate, entry, boundary) ==
    EvaluateReferenceAdversePath({r \in rows : r.candidate = candidate /\ r.track \in {"reference", "reference_fair_value"}},
                                 entry, boundary)
=============================================================================
