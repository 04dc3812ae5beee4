---------------------------- MODULE ResearchTracks ----------------------------
(***************************************************************************)
(* The seven analytical tracks of a structure, each described from the     *)
(* snapshots its own engine persisted.                                     *)
(*                                                                         *)
(* A structure has an expiry, `reference`, `modeled` by layer, `strict`    *)
(* and `delayed` by mode.  A snapshot is [status, entry, path, outcomes]:  *)
(* points [at, raw, pnl] and outcomes [kind, status, due, ambiguous, at,   *)
(* pnl]; a modeled layer has the producer's code and calibration count,    *)
(* and no path of its own.  None stands for what is absent.                *)
(***************************************************************************)
EXTENDS EventBaseline

CanonicalTracks == {"reference_fair_value", "modeled_conservative", "modeled_expected",
                    "strict_maker", "strict_taker", "delayed_maker", "delayed_taker"}
Modes == {"maker", "taker"}

MissingTrack(track, reason, mode) ==
    [track |-> track, status |-> "unavailable", reason |-> reason, basis |-> "unavailable",
     entry |-> None, marks |-> "unavailable", mode |-> mode, path |-> {}, outcomes |-> {},
     entryStatus |-> "unavailable", pathStatus |-> "unavailable"]

ReadyTrack(track, basis, marks, mode, snapshot) ==
    [track |-> track, status |-> "available", reason |-> "track_available", basis |-> basis,
     entry |-> snapshot.entry, marks |-> marks, mode |-> mode, path |-> snapshot.path,
     outcomes |-> snapshot.outcomes, entryStatus |-> "available", pathStatus |-> "available"]

ReferenceTrack(s) ==
    CASE s.reference.status = "valued" ->
             ReadyTrack("reference_fair_value", "reference_fair_value_entry", "reference_marks", None, s.reference)
      [] s.reference.status \in {None, "not_evaluated"} ->
             MissingTrack("reference_fair_value", "reference_valuation_not_evaluated", None)
      [] OTHER -> MissingTrack("reference_fair_value", "reference_valuation_unavailable", None)

\* Why the modeled layer did not produce a track, in the producer's own terms.
ModeledReason(m) ==
    CASE m.status = "not_evaluated" -> "modeled_execution_pending"
      [] m.status # "not_evaluated" ->
             CASE m.code = "empirical_nonpositive_credit_after_fees" -> "modeled_execution_non_economic"
               [] m.code = "empirical_calibration_insufficient" \/ (m.code = None /\ m.count # None) ->
                      "modeled_calibration_insufficient"
               [] m.code = "empirical_reference_inputs_unavailable" ->
                      "modeled_execution_reference_inputs_unavailable"
               [] m.code = "empirical_invalid_adjusted_iv" -> "modeled_execution_invalid_adjusted_iv"
               [] OTHER -> "modeled_execution_unavailable"

\* A modeled opening, valued against the marks of the reference.
ModeledTrack(s, layer) ==
    LET m == s.modeled[layer]
        track == IF layer = "conservative" THEN "modeled_conservative" ELSE "modeled_expected"
    IN CASE m.status # "evaluated" -> MissingTrack(track, ModeledReason(m), None)
         [] m.status = "evaluated" ->
                IF s.reference.status # "valued"
                THEN MissingTrack(track, "reference_valuation_unavailable", None)
                ELSE ReadyTrack(track, "modeled_opening_ledger", "reference_marks", None,
                               [entry |-> IF m.entry # None THEN m.entry ELSE s.reference.entry,
                                path |-> s.reference.path, outcomes |-> m.outcomes])

StrictName(mode) == IF mode = "maker" THEN "strict_maker" ELSE "strict_taker"
StrictTrack(s, mode) ==
    LET x == s.strict[mode]
    IN CASE x.status = "evaluated" ->
                ReadyTrack(StrictName(mode), "observed_immediate_fill", "observed_marks", mode, x)
         [] x.status = "not_evaluated" ->
                MissingTrack(StrictName(mode), "immediate_execution_not_evaluated", mode)
         [] OTHER -> MissingTrack(StrictName(mode), "immediate_execution_unavailable", mode)

UsableDelayedPoints(points, entry, expiry) ==
    {p \in points : /\ entry # None => p.at >= entry
                    /\ expiry # None => p.at <= expiry
                    /\ p.pnl # None}

DelayedEconomicPathAvailable(snapshot, expiry) ==
    snapshot.status = "evaluated" /\ snapshot.entry # None
        /\ UsableDelayedPoints(snapshot.path, snapshot.entry, expiry) # {}

\* A delayed opening alone is entry-only evidence, never an economic track.
DescribeDelayed(s, mode) ==
    LET x == s.delayed[mode]
        track == IF mode = "maker" THEN "delayed_maker" ELSE "delayed_taker"
        usable == UsableDelayedPoints(x.path, x.entry, s.expiry)
        whole == ReadyTrack(track, "observed_delayed_fill", "reconstructed_intrinsic_marks", mode, x)
        parts == [whole EXCEPT !.entryStatus = IF x.entry # None THEN @ ELSE "unavailable",
                               !.pathStatus = IF usable # {} THEN @ ELSE "unavailable"]
    IN CASE x.status = "not_evaluated" -> MissingTrack(track, "delayed_execution_not_evaluated", mode)
         [] x.status = "evaluated" ->
                IF x.entry # None /\ usable # {} THEN parts
                ELSE [parts EXCEPT !.status = "unavailable",
                                   !.reason = IF x.entry = None THEN "delayed_execution_unavailable"
                                              ELSE "delayed_entry_available_path_unavailable"]
         [] OTHER -> MissingTrack(track, "delayed_execution_unavailable", mode)

DescribeCanonicalTracks(s) ==
    {ReferenceTrack(s), ModeledTrack(s, "conservative"), ModeledTrack(s, "expected")}
        \cup {StrictTrack(s, mode) : mode \in Modes} \cup {DescribeDelayed(s, mode) : mode \in Modes}

\* A leg's volatility as the exported row states it: observed only where a trade was.
LegVolatility(leg, pointIv, pointSource) ==
    LET iv == IF leg.anchor # None THEN leg.anchor ELSE pointIv
        source == CASE pointSource # None -> pointSource
                    [] pointSource = None -> IF leg.source # None THEN leg.source
                                             ELSE IF leg.anchor # None THEN "model_anchor" ELSE None
    IN [iv |-> iv, source |-> source,
        observation |-> CASE iv = None -> "unavailable"
                          [] iv # None -> IF source = "local-observed-IV" \/ leg.source = "direct-vwap"
                                          THEN "observed" ELSE "reconstructed"]
=============================================================================
