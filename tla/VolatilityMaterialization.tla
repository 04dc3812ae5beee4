----------------------- MODULE VolatilityMaterialization -----------------------
(***************************************************************************)
(* The volatility states of an export: the reference rows it backfills     *)
(* behind each event until every tenor has enough of them, sharing one     *)
(* cache, the tapes of the selected instruments, the states built of both, *)
(* and the offline precomputation of the same rows day by day.             *)
(*                                                                         *)
(* A tape is a sequence in time order; a manifest is a set of contracts    *)
(* [name, strike, type, expiry, created].  An environment `env` has the    *)
(* tape, the manifest, the targets whose retrieval fails, and the bounds   *)
(* batch, most and minimum (168, 43,920 and 720 in the code).              *)
(***************************************************************************)
EXTENDS VolatilitySurface

Hour == 60

\* The index at a moment, of the latest print of the hour and of a tie the first.
CausalIndex(tape, target) ==
    LET recent == {i \in DOMAIN tape : tape[i].index # None /\ target - tape[i].at \in 0..MarketIvMaxAge}
    IN IF recent = {} THEN None ELSE tape[FirstBy(recent, LAMBDA i : <<-tape[i].at, i>>)].index

\* A leg as last printed in the hour with a volatility.
LegSnapshot(tape, name, target) ==
    LET hits == {i \in DOMAIN tape : /\ tape[i].name = name /\ target - tape[i].at \in 0..MarketIvMaxAge
                                     /\ tape[i].iv # None
                                     /\ IF tape[i].iv = None THEN FALSE ELSE tape[i].iv > 0}
        hit == tape[FirstBy(hits, LAMBDA i : <<-tape[i].at, i>>)]
    IN IF hits = {} THEN None ELSE [at |-> hit.at, iv |-> hit.iv, observation |-> "observed"]

ContractsOf(tape, manifest) ==
    {p \in {tape[i] : i \in DOMAIN tape} : \E m \in manifest : m.name = p.name}

ReferenceRows(target, tape, manifest) ==
    LET underlying == CausalIndex(tape, target)
        listed == ListedExpiriesAt(manifest, target)
    IN IF underlying = None
       THEN BuildUnavailableReferenceSeriesRows(target, listed, "missing_index_price")
       ELSE BuildReferenceSeriesRows(ContractsOf(tape, manifest), target, underlying, listed, {})

(***************************************************************************)
(* The backfill.  A run is a maximal set of targets an hour apart; it is   *)
(* retrieved at once, with the hour before its first, and evaluated whole. *)
(***************************************************************************)
ContiguousHourlyRuns(targets) ==
    LET starts == {t \in targets : t - Hour \notin targets}
        Run(s) == {t \in targets : t >= s /\ \A u \in starts : u > s => t < u}
    IN InOrder({Run(s) : s \in starts}, LAMBDA a, b : Min(a) < Min(b))

TapeBetween(tape, from, to) == SelectSeq(tape, LAMBDA p : p.at \in from..to)
RunTape(tape, run) == TapeBetween(tape, Min(run) - MarketIvMaxAge, Max(run))

ValidCount(cached, tenor, floor, entry) ==
    Cardinality({r \in cached : /\ r.at \in floor..(entry - 1) /\ r.tenor = tenor
                                /\ r.passes /\ r.passed /\ r.iv # None})
Enough(s, entry, env) == \A t \in Tenors : ValidCount(s.cached, t, s.floor, entry) >= env.minimum

\* One run: a failed one leaves nothing, and is not asked for again in this export.
BackfillRun(s, run, env) ==
    LET fresh == UNION {ReferenceRows(t, RunTape(env.tape, run), env.manifest) : t \in run}
        old == {r \in s.cached : ~\E f \in fresh : f.at = r.at /\ f.tenor = r.tenor}
    IN [s EXCEPT !.attempted = @ \cup run,
                 !.cached = IF run \cap env.failing # {} THEN @ ELSE old \cup fresh]

\* The hours a chunk looks at, and of them those neither complete nor attempted.
ChunkTargets(cursor, chunk, boundary) == {t \in {cursor - k * Hour : k \in 0..chunk} : t >= boundary}
MissingTargets(s, targets) ==
    {t \in targets : ~IsReferenceTimestampComplete(s.cached, t) /\ t \notin s.attempted}

RECURSIVE BackfillEvent(_, _, _)
BackfillEvent(s, entry, env) ==
    LET boundary == Min({m.created : m \in env.manifest})
        chunk == Lesser(Lesser(env.batch, env.most + 1) - 1, env.most - s.scanned)
        targets == ChunkTargets(s.cursor, chunk, boundary)
        floored == [s EXCEPT !.floor = Min({@} \cup targets)]
        runs == ContiguousHourlyRuns(MissingTargets(s, targets))
        done == FoldLeft(LAMBDA acc, run : IF acc.stopped THEN acc
                                           ELSE LET next == BackfillRun(acc.s, run, env)
                                                IN [s |-> next, stopped |-> Enough(next, entry, env)],
                         [s |-> floored, stopped |-> FALSE], runs).s
        moved == [done EXCEPT !.cursor = @ - (chunk + 1) * Hour, !.scanned = @ + chunk + 1]
    IN CASE s.scanned > env.most \/ s.cursor < boundary \/ Enough(s, entry, env) -> s
         [] OTHER -> IF chunk = 0 THEN moved ELSE BackfillEvent(moved, entry, env)

\* The events of an export, in order, over one cache and one set of attempts.
Backfill(cached, entries, env) ==
    FoldLeft(LAMBDA s, entry : BackfillEvent([s EXCEPT !.cursor = entry, !.scanned = 0, !.floor = entry],
                                             entry, env),
             [cached |-> cached, attempted |-> {}, cursor |-> 0, scanned |-> 0, floor |-> 0], entries).cached

(***************************************************************************)
(* What is asked of the tapes: for each structure [id, short, long, entry, *)
(* expiry, path, outcomes] its moments after entry and before expiry.       *)
(***************************************************************************)
EntryHorizons == ("4h" :> 4) @@ ("12h" :> 12) @@ ("1d" :> 24) @@ ("3d" :> 72)
ExportedOutcomes == {"vpoc", "invalidation", "credit_capture_50", "credit_capture_70",
                     "fixed_3d", "fixed_5d", "fixed_7d", "settlement"}

SelectedTargets(s) ==
    LET Alive(t) == t > s.entry /\ t < s.expiry
        fixed == {[id |-> h, at |-> s.entry + EntryHorizons[h] * Hour] : h \in DOMAIN EntryHorizons}
        named == {o \in s.outcomes : o.id \in ExportedOutcomes}
    IN [endpoints |-> {e \in fixed \cup named : Alive(e.at)}, path |-> {t \in s.path : Alive(t)}]

\* One window per instrument, for every structure of every event it is a leg of.
MomentsOf(s) == {s.entry} \cup {e.at : e \in SelectedTargets(s).endpoints} \cup SelectedTargets(s).path
WindowsFromEntry(structures) ==
    LET Asked(n) == UNION {MomentsOf(s) : s \in {u \in structures : n \in {u.short, u.long}}}
    IN [n \in {s.short : s \in structures} \cup {s.long : s \in structures} |->
           [from |-> Min(Asked(n)), to |-> Max(Asked(n))]]
InstrumentWindows(structures) ==
    LET Asked(n) == UNION {MomentsOf(s) : s \in {u \in structures : n \in {u.short, u.long}}}
    IN [n \in {s.short : s \in structures} \cup {s.long : s \in structures} |->
           [from |-> Min(Asked(n)) - MarketIvMaxAge, to |-> Max(Asked(n))]]

ExactTape(structures, name, env) ==
    LET w == InstrumentWindows(structures)[name]
    IN IF ~\E m \in env.manifest : m.name = name THEN <<>>
       ELSE SelectSeq(env.tape, LAMBDA p : p.name = name /\ p.at \in w.from..w.to)

\* The broad index of the hour before an entry, the latest.
BroadState(dvol, entry) ==
    LET known == {i \in DOMAIN dvol : dvol[i].at <= entry /\ entry - dvol[i].at <= Hour}
    IN IF known = {} THEN None ELSE dvol[FirstBy(known, LAMBDA i : <<-dvol[i].at, i>>)]

History(cached) == {r \in cached : r.passes /\ r.iv # None}

MaterializeEvent(entry, cached, bars, dvol, horizons, env) ==
    [state |-> BuildEventVolatilityState({r \in cached : r.at = entry},
                                         RealizedVolatilityProfile(bars, entry, horizons),
                                         History(cached), entry, env.minimum),
     broad |-> BroadState(dvol, entry)]

\* The strikes the structure's reference calls at the money by: every strike of the
\* expiry's contracts, those listed only after the entry too.
ReferenceStrikes(manifest, expiry, entry) == {m.strike : m \in {c \in manifest : c.expiry = expiry}}

MaterializeStructure(s, structures, env) ==
    LET cross == TapeBetween(env.tape, s.entry - MarketIvMaxAge, s.entry)
        underlying == CausalIndex(cross, s.entry)
        short == ExactTape(structures, s.short, env)
        long == ExactTape(structures, s.long, env)
        row == IF underlying = None \/ ~\E m \in env.manifest : m.expiry = s.expiry THEN None
               ELSE BuildExpiryReferenceRow(ContractsOf(cross, env.manifest), s.entry, underlying, s.expiry,
                                            ReferenceStrikes(env.manifest, s.expiry, s.entry),
                                            {s.short, s.long})
        Legs(at) == [short |-> LegSnapshot(short, s.short, at), long |-> LegSnapshot(long, s.long, at)]
        wanted == SelectedTargets(s)
    IN [state |-> BuildStructureVolatilityState(Legs(s.entry).short, Legs(s.entry).long, row, s.entry),
        post |-> [e \in wanted.endpoints |-> Legs(e.at)],
        path |-> [t \in wanted.path |-> Legs(t)]]

(***************************************************************************)
(* The offline precomputation: each print enters and leaves the window of  *)
(* the moving target once, days one at a time with the hour before kept.   *)
(***************************************************************************)
StreamingWindow(tape, target) == SelectSeq(tape, LAMBDA p : target - p.at \in 0..MarketIvMaxAge)
StreamingRows(targets, tape, manifest) ==
    LET Of(t) == LET window == StreamingWindow(tape, t)
                     priced == {i \in DOMAIN window : window[i].index # None}
                     listed == ListedExpiriesAt(manifest, t)
                 IN IF priced = {} THEN BuildUnavailableReferenceSeriesRows(t, listed, "missing_index_price")
                    ELSE BuildReferenceSeriesRows(ContractsOf(window, manifest), t, window[Max(priced)].index,
                                                  listed, {})
    IN UNION {Of(t) : t \in targets}

DayOf(t) == t \div Day
PrecomputeDays(targets, cached, tape, manifest) ==
    LET missing == {t \in targets : ~IsReferenceTimestampComplete(cached, t)}
        days == {DayOf(t) : t \in missing}
        Shard(d) == SelectSeq(tape, LAMBDA p : DayOf(p.at) = d)
        Next(acc, d) ==
            LET buffered == acc.carry \o Shard(d)
            IN [rows |-> acc.rows \cup StreamingRows({t \in missing : DayOf(t) = d}, buffered, manifest),
                carry |-> SelectSeq(buffered, LAMBDA p : p.at \in ((d + 1) * Day - MarketIvMaxAge)..((d + 1) * Day - 1))]
    IN IF missing = {} THEN {}
       ELSE FoldLeft(Next, [rows |-> {}, carry |-> <<>>],
                     [k \in 1..(Max(days) - Min(days) + 2) |-> Min(days) - 2 + k]).rows

(***************************************************************************)
(* The live coverage measurement: a leg is its latest print, with or       *)
(* without a volatility, and nothing when that print has none.             *)
(***************************************************************************)
CoverageLeg(tape, name, entry) ==
    LET prints == {i \in DOMAIN tape : tape[i].name = name /\ tape[i].at <= entry}
        best == tape[FirstBy(prints, LAMBDA i : <<-tape[i].at, i>>)]
    IN IF prints = {} THEN None
       ELSE IF best.iv = None THEN None
       ELSE IF best.iv <= 0 THEN None ELSE [at |-> best.at, iv |-> best.iv, observation |-> "observed"]

CoverageUnderlying(tape, entryPrice) ==
    LET priced == {i \in DOMAIN tape : tape[i].index # None}
    IN IF priced = {} THEN entryPrice ELSE tape[FirstBy(priced, LAMBDA i : <<-tape[i].at, i>>)].index

MeasureVolatilityCoverage(entry, entryPrice, structures, bars, horizons, env) ==
    LET tape == TapeBetween(env.tape, entry - MarketIvMaxAge, entry)
        underlying == CoverageUnderlying(tape, entryPrice)
        listed == ListedExpiriesAt(env.manifest, entry)
        prints == ContractsOf(tape, env.manifest)
        rows == IF underlying = None THEN {} ELSE BuildReferenceSeriesRows(prints, entry, underlying, listed, {})
        Row(s) == IF underlying = None \/ ~\E e \in listed : e.expiry = s.expiry THEN None
                  ELSE BuildExpiryReferenceRow(prints, entry, underlying, s.expiry, StrikesOf(listed, s.expiry),
                                               {s.short, s.long})
    IN [event |-> BuildEventVolatilityState(rows, RealizedVolatilityProfile(bars, entry, horizons), {}, entry, 1),
        structures |-> [s \in structures |->
            BuildStructureVolatilityState(CoverageLeg(tape, s.short, entry), CoverageLeg(tape, s.long, entry),
                                          Row(s), entry)]]
=============================================================================
