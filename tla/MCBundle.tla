------------------------------ MODULE MCBundle ------------------------------
(***************************************************************************)
(* Selection stores and the bundles they are exported to: one candidate of *)
(* an event, entered, held for research or both, and sometimes another of  *)
(* its configuration.                                                      *)
(***************************************************************************)
EXTENDS MCOutcomes, ResearchBundle, FiniteSets, TLC

BundleInputs ==
    {in \in
       [held : {"selected", "research", "both"}, reference : {"valued", "partial", "unavailable"},
        modeled : {"evaluated", "rejected", "absent"}, strict : {"none", "filled", "slow", "debit", "unmarked"},
        delayed : {"none", "early", "later", "opened"}, vpoc : {None, 125}, resolved : BOOLEAN, rival : BOOLEAN] :
            /\ in.held = "research" => in.strict = "none" /\ in.delayed = "none"
            /\ ~in.resolved => ~in.rival /\ in.reference = "unavailable" /\ in.modeled = "absent" /\ in.held = "research"}

Point(at, pnl) == [at |-> at, raw |-> pnl, pnl |-> pnl]
Result(kind, status, due, at, pnl) ==
    [kind |-> kind, status |-> status, due |-> due, ambiguous |-> FALSE, at |-> at, pnl |-> pnl, raw |-> kind # "vpoc"]
NotRun == [status |-> "not_evaluated", entry |-> None, path |-> {}, outcomes |-> {}]

ReferenceOf(in, shift) ==
    CASE in.reference = "unavailable" -> [NotRun EXCEPT !.status = "unavailable"]
      [] in.reference = "valued" ->
             [status |-> "valued", entry |-> 60, path |-> {Point(60, 0), Point(240, 2 + shift), Point(1000, 3 + shift)},
              outcomes |-> {Result("vpoc", "estimated", 179, 240, 2 + shift), Result("invalidation", "not-hit", None, None, None),
                            Result("settlement", "estimated", 2000, 2000, 4)}]
      [] OTHER ->
             [status |-> "valued", entry |-> 60, path |-> {Point(60, 0), Point(240, None)},
              outcomes |-> {Result("vpoc", "estimated", 179, 240, None), Result("fixed_3d", "unavailable", 4380, None, None)}]

ModeledOf(in) ==
    [layer \in {"conservative", "expected"} |->
        CASE in.modeled = "absent" -> [NotRun @@ [code |-> None, count |-> None] EXCEPT !.status = "not_evaluated"]
          [] in.modeled = "rejected" ->
                 NotRun @@ [code |-> IF layer = "expected" THEN "empirical_nonpositive_credit_after_fees"
                                     ELSE "empirical_calibration_insufficient", count |-> 3]
          [] OTHER -> [status |-> "evaluated", code |-> None, count |-> 30, entry |-> None,
                       outcomes |-> {Result("vpoc", "estimated", 179, 240, 1)}]]

StrictOf(in) ==
    LET unfilled == [status |-> "unavailable", entry |-> None, path |-> {}, outcomes |-> {},
                     sold |-> None, bought |-> None, cash |-> None]
        filled == [status |-> "evaluated", entry |-> 70, path |-> {Point(65, 9), Point(100, 1), Point(1000, 2), Point(3000, 9)},
                   outcomes |-> {Result("vpoc", "estimated", 179, 180, 1), Result("fixed_3d", "estimated", 4390, None, None)},
                   sold |-> 7, bought |-> 3, cash |-> [gross |-> 8, fees |-> 2, net |-> 6]]
    IN [mode \in Modes |->
           IF mode = "maker" THEN unfilled
           ELSE CASE in.strict = "none" -> unfilled
                  [] in.strict = "filled" -> filled
                  [] in.strict = "slow" -> [filled EXCEPT !.entry = 150, !.path = {p \in @ : p.at >= 150}]
                  [] in.strict = "debit" -> [filled EXCEPT !.sold = 3, !.bought = 7, !.cash = [gross |-> -8, fees |-> 2, net |-> -10]]
                  [] OTHER -> [filled EXCEPT !.path = {}]]

\* The attempts of an entry at its fixed delays, in the first or the second window.
DelayedOf(in) ==
    LET entered == IF in.delayed = "later" THEN 330 ELSE 90
        start == IF in.delayed = "later" THEN 240 ELSE 0
        attempt == [window |-> [start |-> start], start |-> start,
                    status |-> "delayed taker execution proxy", entry |-> entered]
        failed == [window |-> [start |-> 720], start |-> 720, status |-> "no opening", entry |-> None]
    IN [mode \in Modes |->
           IF mode = "maker" \/ in.delayed = "none" THEN NotRun @@ [attempts |-> {failed}]
           ELSE [status |-> "evaluated", entry |-> entered,
                 path |-> {Point(entered + 30, IF in.delayed = "opened" THEN None ELSE 1), Point(1000, None)},
                 outcomes |-> {Result("terminal_delayed_path", None, None, 1000, 1)}, attempts |-> {attempt, failed}]]

Structure(in, id, shift) ==
    [id |-> id, role |-> "short_strike_technical", type |-> "P", short |-> IF in.resolved THEN 100 ELSE None,
     long |-> IF in.resolved THEN 90 ELSE None, expiry |-> 2000, quantity |-> 2, reference |-> ReferenceOf(in, shift),
     opened |-> IF in.reference = "unavailable" THEN None
                ELSE [at |-> 60, index |-> 95, sold |-> 7, bought |-> 3, fees |-> 2],
     marks |-> {[at |-> 60 * t, index |-> 95 - t, sold |-> 5, bought |-> None] : t \in {1, 4}},
     margin |-> None, modeled |-> ModeledOf(in), strict |-> StrictOf(in), delayed |-> DelayedOf(in)]
Unexecuted(s, in) ==
    LET bare == [in EXCEPT !.strict = "none", !.delayed = "none"]
    IN [s EXCEPT !.strict = StrictOf(bare), !.delayed = DelayedOf(bare)]

\* The reference of the copy that was entered is older than that of the research.
StoreOf(in) ==
    LET fresh == Structure(in, "s", 0)
        entered == Structure(in, "s", IF in.held = "both" THEN 5 ELSE 0)
        other == [Structure(in, "r", 0) EXCEPT !.strict = StrictOf([in EXCEPT !.strict = "none"])]
        event == [vpoc |-> in.vpoc, trade |-> <<"long", 0>>, breach |-> None]
    IN [event |-> BaselineEvent(event), candles |-> BaselineCandles(event),
        market |-> Market([points |-> {60, 120, 180}, interval |-> 60, funded |-> {120, 180}]),
        selected |-> (IF in.held = "research" THEN {} ELSE {entered}) \cup (IF in.rival THEN {other} ELSE {}),
        research |-> IF in.held = "selected" THEN {} ELSE {Unexecuted(fresh, in)},
        generated |-> {[id |-> "s", config |-> "k"]} \cup (IF in.rival THEN {[id |-> "r", config |-> "k"]} ELSE {})]

SoundExport(in) ==
    LET store == StoreOf(in)
        b == BuildResearchBundle(store)
        Bare(S) == {Unexecuted(s, in) : s \in S}
        Independent(st) ==
            UNION {IndependentValuations(s) \cup IndependentOutcomes(s) : s \in Analytical(MigrateResearchSelectionStore(st))}
        Adverse(st, id) ==
            ReferenceAdversePath({[candidate |-> r.id, track |-> r.track, at |-> r.at, usd |-> r.pnl, native |-> r.pnl] :
                                     r \in BuildResearchBundle(st).valuations}, id, 60, 2000)
        Unexecuting(rows) == {r \in rows : r.scenario = None}
        Held(id, track) ==
            LET own == {s \in store.research : s.id = id}
                entered == {s \in store.selected : s.id = id}
            IN CHOOSE s \in own \cup entered :
                  IF track = "reference_fair_value" THEN own # {} => s \in own ELSE entered # {} => s \in entered
        Paths(s, r) ==
            CASE r.track = "reference_fair_value" -> s.reference.path
              [] r.track \in {"strict_maker", "strict_taker"} -> s.strict[r.scenario].path
              [] r.track \in {"delayed_maker", "delayed_taker"} -> s.delayed[r.scenario].path
              [] OTHER -> {p \in Held(r.id, "reference_fair_value").reference.path : s.modeled["expected"].status = "evaluated"}
        delivered == in.strict \in {"filled", "slow", "unmarked"}
        contested == in.strict = "debit" \/ (in.strict = "slow" /\ in.delayed = "early")
    IN /\ Unexecuting(Independent(store))
              = Unexecuting(Independent([store EXCEPT !.selected = Bare(@), !.research = Bare(@)]))
       /\ \A s \in store.selected \cup store.research :
             Adverse(store, s.id) = Adverse([store EXCEPT !.selected = Bare(@), !.research = Bare(@)], s.id)
       /\ \A r \in b.valuations : \E p \in Paths(Held(r.id, r.track), r) : p.at = r.at /\ p.pnl = r.pnl
       /\ \A o \in b.opportunities : o.status = "trade" => o.id # None /\ in.modeled = "evaluated"
       /\ ~contested =>
             ValidateResearchBundle(b) =
                (IF in.strict = "unmarked" THEN {"completeness"} ELSE {})
                \cup (IF in.reference = "unavailable" /\ ((in.held # "research" /\ ~delivered) \/ in.rival)
                      THEN {"admissibility"} ELSE {})

\* What a bundle says of the reference and of modeled openings is there without any
\* execution; a row is of the copy whose track it is, research's own reference before
\* that of the entered one; and a bundle is refused exactly for an entered structure that
\* nothing was valued of and a fill whose path is empty.  Nothing is asserted of whether a
\* fill whose prices are no credit, or a delayed track that opened before the immediate
\* fill, may refuse it: the code refuses both, and its comments say it should neither
\* (buildResearchBundle, validateResearchBundle).
ExportsAreFaithful == [][algorithm' = "bundle" => SoundExport(input')]_taken

(***************************************************************************)
(* Entries at fixed delays of a selection just entered.                    *)
(***************************************************************************)
BundleSpec == algorithm = "bundle" /\ input \in BundleInputs /\ [][FALSE]_<<algorithm, input>>

\* An attempt that opened in its window before the thesis resolved is in the table of
\* entries at fixed delays (duration-dte/entry-delay.ts, compactDelayedAttempt).
DelayedEvidenceIsExported ==
    LET store == StoreOf(input)
        b == BuildResearchBundle(store)
    IN \A s \in store.selected : \A mode \in Modes : \A a \in s.delayed[mode].attempts :
           (/\ input.vpoc = None /\ s.reference.entry # None /\ a.entry # None
            /\ IsInsideFixedEntryDelayWindow(s.reference.entry + a.start, a.entry))
              => \E d \in b.delays : d.id = s.id /\ d.scenario = mode /\ d.actual = a.entry
=============================================================================
