------------------------------ MODULE ExitPolicies ------------------------------
(***************************************************************************)
(* Exit policies over a dataset projected to one track: of the outcomes a  *)
(* policy names, the one decided first ends the position, and only then is *)
(* it asked whether there is a price for it.                               *)
(***************************************************************************)
EXTENDS DurationReport

ExitPolicies ==
    [thesis |-> <<"vpoc", "invalidation", "settlement">>,
     capture_50 |-> <<"credit_capture_50", "vpoc", "invalidation", "settlement">>,
     capture_70 |-> <<"credit_capture_70", "vpoc", "invalidation", "settlement">>,
     time_cap_3d |-> <<"vpoc", "invalidation", "fixed_3d", "settlement">>,
     time_cap_5d |-> <<"vpoc", "invalidation", "fixed_5d", "settlement">>,
     time_cap_7d |-> <<"vpoc", "invalidation", "fixed_7d", "settlement">>,
     settlement_benchmark |-> <<"invalidation", "settlement">>]
PolicyIds == DOMAIN ExitPolicies

\* No value is neither the name of an outcome nor of a ground to pass one over.
ASSUME NoneIsNoAnswer ==
    None \notin {"credit_capture_50", "credit_capture_70", "vpoc", "invalidation", "fixed_3d", "fixed_5d", "fixed_7d",
                 "settlement", "not_reached", "ambiguous_timing", "outcome_after_expiry", "pre_entry_outcome"}

(***************************************************************************)
(* The winner.  An outcome before the entry or past expiry ends nothing,   *)
(* nor does one whose moment is not known; a tie is broken by priority.    *)
(***************************************************************************)
PolicyRows(d, r, policy) ==
    {o \in d.outcomes : /\ o.id = r.id /\ o.scenario = r.scenario /\ o.track = r.track
                        /\ \E k \in DOMAIN ExitPolicies[policy] : ExitPolicies[policy][k] = o.kind}
Exclusion(r, o) ==
    CASE o.trigger = "after_expiry" -> "outcome_after_expiry"
      [] o.trigger = "ambiguous" \/ (o.trigger = "reached" /\ o.decided = None) -> "ambiguous_timing"
      [] o.trigger = "reached" /\ o.decided # None ->
             IF r.entry # None /\ o.decided < r.entry THEN "pre_entry_outcome"
             ELSE IF r.expiry # None /\ o.decided > r.expiry THEN "outcome_after_expiry" ELSE None
      [] OTHER -> "not_reached"

PricedExit(r, o) == o.status = "priced" /\ o.pnl # None /\ o.at # None /\ Lifetime(o.at, r.entry, r.expiry)
DecisionKey(policy, o) ==
    <<o.decided, CHOOSE k \in DOMAIN ExitPolicies[policy] : ExitPolicies[policy][k] = o.kind>>
WinnerAmongPriced(rows, policy, r) ==
    FirstBy(IF \E o \in rows : PricedExit(r, o) THEN {o \in rows : PricedExit(r, o)} ELSE rows, LAMBDA o : DecisionKey(policy, o))
Winner(rows, policy, r) == FirstBy(rows, LAMBDA o : DecisionKey(policy, o))

\* Why a winner has no price.
WhyUnpriced(r, o) ==
    CASE o.at # None /\ r.entry # None /\ o.at < r.entry -> "pre_entry_outcome"
      [] o.at # None /\ r.expiry # None /\ o.at > r.expiry -> "outcome_after_expiry"
      [] OTHER -> IF o.source \in {"absent", "unavailable"} THEN o.source ELSE "outcome_reached_unpriced"

(***************************************************************************)
(* What it came to, and what it needed while it was held.                  *)
(***************************************************************************)
CapitalDaysOf(d, id, basis, entry, exit) ==
    LET margins == {m \in d.margins : m.id = id /\ m.status = "available"}
        needed == CASE basis = "maximum_economic_loss" -> StructuralLossFor(d, id).usd
                    [] basis = "incremental_opening_margin" ->
                           IF margins = {} THEN None ELSE (CHOOSE m \in margins : TRUE).opening
    IN IF entry = None \/ exit = None \/ needed = None THEN None
       ELSE IF exit < entry THEN None ELSE needed * (exit - entry)

\* The reference path within the holding, the exit itself in place of its mark.
ReferenceMarks(d, r) ==
    {v \in d.valuations : /\ r.track = "reference" /\ v.id = r.id /\ v.track = r.track /\ v.scenario = None
                          /\ v.status = "priced" /\ Lifetime(v.at, r.entry, r.expiry)}
PreExitMae(r, marks, o) ==
    LET before == {v.pnl : v \in {x \in marks : o.at # None /\ x.at <= o.at /\ ~(PricedExit(r, o) /\ x.at = o.at)}}
                      \cup (IF r.track = "reference" /\ PricedExit(r, o) THEN {o.pnl} ELSE {})
    IN IF before = {} THEN None ELSE Min({0} \cup before)

NoPolicyExit(r, policy, status, diagnostic) ==
    [id |-> r.id, track |-> r.track, policy |-> policy, trigger |-> None, status |-> status, diagnostic |-> diagnostic,
     decided |-> None, at |-> None, pnl |-> None, holding |-> None, capitalDays |-> None, mae |-> None, marks |-> {},
     tied |-> {}]

EvaluatePolicy(d, r, policy, basis) ==
    LET rows == PolicyRows(d, r, policy)
        admissible == {o \in rows : Exclusion(r, o) = None}
        excluded == {Exclusion(r, o) : o \in rows} \ {None, "not_reached"}
        o == Winner(admissible, policy, r)
        priced == PricedExit(r, o)
        marks == ReferenceMarks(d, r)
    IN CASE r.legacy -> NoPolicyExit(r, policy, "unavailable", "legacy_incompatibility")
         [] ~r.legacy /\ r.status # "evaluated" -> NoPolicyExit(r, policy, "unavailable", "source_outcome_unavailable")
         [] ~r.legacy /\ r.status = "evaluated" ->
                IF admissible = {}
                THEN NoPolicyExit(r, policy, "unavailable",
                            IF excluded # {} THEN CHOOSE x \in excluded : TRUE
                            ELSE IF Cardinality(rows) < Len(ExitPolicies[policy]) THEN "source_outcome_absent"
                            ELSE "source_outcome_unavailable")
                ELSE [id |-> r.id, track |-> r.track, policy |-> policy, trigger |-> o.kind,
                      status |-> IF priced THEN "priced" ELSE "triggered_unpriced",
                      diagnostic |-> IF priced THEN None ELSE WhyUnpriced(r, o), decided |-> o.decided, at |-> o.at,
                      pnl |-> IF priced THEN o.pnl ELSE None, holding |-> IF priced THEN o.holding ELSE None,
                      capitalDays |-> IF priced THEN CapitalDaysOf(d, r.id, basis, r.entry, o.at) ELSE None,
                      mae |-> PreExitMae(r, marks, o), marks |-> marks,
                      tied |-> {x.kind : x \in {y \in admissible : y.decided = o.decided}}]
NormalizeExitPolicies(d, basis) == {EvaluatePolicy(d, r, policy, basis) : r \in d.candidates, policy \in PolicyIds}

(***************************************************************************)
(* A policy on its own, and against the thesis exit of the same structure. *)
(***************************************************************************)
PolicyStatistics(rows) ==
    LET determinate == {x \in rows : x.trigger # None}
        priced == {x \in rows : x.status = "priced"}
    IN [determinate |-> Cardinality(determinate), priced |-> Share(determinate, priced), cohort |-> Share(rows, priced),
        triggers |-> [t \in {x.trigger : x \in determinate} |-> Cardinality({x \in determinate : x.trigger = t})],
        pnl |-> MedianOver(priced, LAMBDA x : x.pnl), mae |-> MedianOver(priced, LAMBDA x : x.mae),
        holding |-> MedianOver(priced, LAMBDA x : x.holding)]
NearFullLoss(d, rows, percent) ==
    LET eligible == {x \in rows : x.status = "priced" /\ x.pnl # None /\ StructuralLossFor(d, x.id).usd # None}
    IN Share(eligible, {x \in eligible : 100 * x.pnl <= -percent * StructuralLossFor(d, x.id).usd})

\* What was given up, and what was avoided, by leaving before the thesis did.
PostExit(s, t) ==
    LET marks == {v.pnl : v \in {x \in s.marks : x.at > s.at /\ x.at < t.at}} \cup {t.pnl}
    IN IF s.at = None \/ t.at = None THEN None
       ELSE IF s.at >= t.at THEN None
       ELSE [surrendered |-> Larger(0, Max(marks) - s.pnl), avoided |-> Larger(0, s.pnl - Min(marks))]
PairedComparison(subject, thesis) ==
    LET Of(rows) == {x \in rows : x.status = "priced"}
        pairs == {p \in Of(subject) \X Of(thesis) : p[1].id = p[2].id /\ p[1].track = p[2].track}
    IN [matched |-> Cardinality(pairs), unmatched |-> [subject |-> Cardinality(subject) - Cardinality(pairs),
                                                       thesis |-> Cardinality(thesis) - Cardinality(pairs)],
        pnl |-> MedianOver(pairs, LAMBDA p : p[1].pnl - p[2].pnl),
        holding |-> MedianOver(pairs, LAMBDA p : Difference(p[1].holding, p[2].holding)),
        mae |-> MedianOver(pairs, LAMBDA p : Difference(p[1].mae, p[2].mae)),
        post |-> {PostExit(p[1], p[2]) : p \in pairs} \ {None}]

ExitLayer(d, basis, percent) ==
    LET all == NormalizeExitPolicies(d, basis)
        Of(policy) == {x \in all : x.policy = policy}
    IN [policy \in PolicyIds |->
           [observations |-> Of(policy), statistics |-> PolicyStatistics(Of(policy)),
            nearFullLoss |-> NearFullLoss(d, Of(policy), percent),
            paired |-> PairedComparison(Of(policy), Of("thesis"))]]
BuildExitPolicyReport(d, basis, percent) ==
    [track \in {"reference", "immediate_maker", "immediate_taker"} |->
        ExitLayer(DatasetForAnalyticsTrack(d, track, "selected"), basis, percent)]
=============================================================================
