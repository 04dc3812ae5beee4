----------------------------- MODULE MCResearch -----------------------------
(***************************************************************************)
(* The research algorithms over bounded inputs.  A state is an algorithm   *)
(* and one of its inputs; the properties compare the algorithm's answers   *)
(* on that input with its answers on what was known at a moment, on a      *)
(* reordered input, or with a reference definition.                        *)
(***************************************************************************)
EXTENDS MCReference, MCReports, TradeValuation, EvidenceCache, EvidenceRetrieval, Integers, Sequences, FiniteSets, FiniteSetsExt, SequencesExt, TLC

resvars == <<algorithm, input, cache, disk, described, run, kept, runs, crashes>>

(***************************************************************************)
(* Tapes: subsets of a few prints of each leg, ids out of time order.      *)
(***************************************************************************)
MCPrint(n, i, t, d, a, p) == [name |-> n, id |-> i, seq |-> 0, at |-> t, dir |-> d,
                              amount |-> a, price |-> p, index |-> 2000, iv |-> 1]

SoldTape == {MCPrint("S", 3, 1, "sell", 1, 9), MCPrint("S", 1, 2, "sell", 2, 8),
             MCPrint("S", 2, 3, "buy", 2, 9), MCPrint("S", 4, 4, "sell", 1, 7)}
BoughtTape == {MCPrint("B", 2, 1, "buy", 1, 3), MCPrint("B", 1, 3, "buy", 1, 2),
               MCPrint("B", 3, 4, "buy", 2, 2), MCPrint("B", 4, 4, "sell", 2, 3)}

MCSeries(n, prints) == [name |-> n, prints |-> prints]
MCTape(in) == [sold |-> MCSeries("S", in.sold), bought |-> MCSeries("B", in.bought)]
Until(in, t) == [in EXCEPT !.sold = {p \in @ : p.at <= t}, !.bought = {p \in @ : p.at <= t}]

ExecutionInputs == [sold : SUBSET SoldTape, bought : SUBSET BoughtTape,
                    mode : {"maker", "taker"}, intent : {"open", "close"}, order : {1, 2}]

Executed(in) == ExecuteHistoricalSpread(MCTape(in), in.intent, in.mode, in.order, 2, 2, 1, 5)
\* An order of a candle that closes then, or of a print that arrives then.
OrderClock(in) == ExecutionClock([precision |-> IF in.mode = "maker" THEN "candle" ELSE "print", at |-> 0,
                                  closes |-> in.order, source |-> in.order], 0, 3)
Exited(in, at) == SimulateTakerExit(MCTape(in), OrderClock(in), at, 2, 5, 2)
AtOrder(in) == {p \in in.sold \cup in.bought : p.at = in.order}
Simulated(in) == SimulateTakerSpread(MCTape(in), [ordered |-> in.order, ends |-> in.order + 2], 2, 5, 1)

SoundFills(in) ==
    LET Sound(e, cut, from, sync) ==
            e.completed # None =>
                /\ e.sold.filled = 2 /\ e.bought.filled = 2
                /\ e.sold.at >= from /\ e.bought.at >= from
                /\ Abs(e.sold.at - e.bought.at) <= sync
                /\ e = cut
        e == Executed(in)
        x == Exited(in, 2)
        behind == AssessMakerOpportunity(MCTape(in).sold, "sell", OrderClock(in), 2, 8, 1).filled
        ahead == TapeFill(MCTape(in).sold, "sell", "buy", OrderClock(in), 2, 0, FALSE).filled
    IN /\ Sound(e, Executed(Until(in, e.completed)), in.order, 1)
       /\ Sound(x, Exited(Until(in, x.completed), 2), 3, 2)
       /\ in.mode = "taker" /\ in.intent = "open" /\ AtOrder(in) = {} => Simulated(in) = e
       /\ Simulated(in).completed # None => Simulated(in).sold.at > in.order /\ Simulated(in).bought.at > in.order
       /\ behind <= ahead

(***************************************************************************)
(* Delayed entries over the same tapes, in two windows.                    *)
(***************************************************************************)
DelayedInputs == [sold : SUBSET SoldTape, bought : SUBSET BoughtTape, mode : {"maker", "taker"},
                  vpoc : {None, 2, 3}, exit : {None, 3}, expiry : {4, 6}]
MCPolicy == [windows |-> <<[from |-> 0, to |-> 2], [from |-> 2, to |-> 5]>>,
             sync |-> 2, credit |-> TRUE, fee |-> 1, step |-> 1]
Delayed(in) == DelayedTrack(MCTape(in), [at |-> 0, vpoc |-> in.vpoc, exit |-> in.exit],
                            in.mode, 2, MCPolicy, in.expiry)

SoundDelay(in) ==
    LET d == Delayed(in)
    IN d.status \in Completed =>
           /\ 0 < d.entry /\ d.entry < in.expiry
           /\ in.vpoc # None => d.entry < in.vpoc
           /\ in.exit # None => d.entry < in.exit
           /\ d = Delayed(Until(in, d.entry))

(***************************************************************************)
(* Imports: up to three rows, the first of one file and the rest of        *)
(* another.  Two rows differ under one id, two lack every identity.        *)
(***************************************************************************)
Row(n, i, s, t) == [name |-> n, id |-> i, seq |-> s, at |-> t, dir |-> "buy", amount |-> 1, price |-> 1]
Rows == {None, Row("S", 1, 0, 1), Row("S", 1, 0, 2), Row("B", 1, 0, 1), Row("S", 0, 1, 2),
         Row("S", 0, 0, 1)}
ImportInputs == UNION {[1..n -> Rows] : n \in 1..3}
Tapes(inv) == [n \in DOMAIN inv |->
                  [row \in Rows |-> Cardinality({k \in DOMAIN inv[n].trades : inv[n].trades[k] = row})]]

\* Every parsed row is kept, a repeat or malformed; and what is imported depends
\* neither on the order of the files nor on importing one twice, save for rows
\* without identity (parseContractTextWithDiagnostics, buildInventory).
SoundImports(in) ==
    LET parsed == ParseContractText(in)
        f == [name |-> "f", trades |-> SubSeq(in, 1, 1)]
        g == [name |-> "g", trades |-> SubSeq(in, 2, Len(in))]
        fg == BuildInventory(<<f, g>>)
        gf == BuildInventory(<<g, f>>)
        fgf == BuildInventory(<<f, g, f>>)
    IN /\ parsed.refused \/ Len(parsed.trades) + parsed.duplicates + parsed.malformed = Len(in)
       /\ (fg = None) = (gf = None) /\ (fg = None) = parsed.refused
       /\ fg # None => Tapes(fg) = Tapes(gf)
       /\ fg # None /\ in[1] # Row("S", 0, 0, 1) =>
             Tapes(fg) = Tapes(fgf) /\ \A n \in DOMAIN fg : fg[n].files = fgf[n].files

(***************************************************************************)
(* The spreads of an event whose extreme is any of two thousand dollars',  *)
(* and the contracts an entry at minute 1000 finds for them: three         *)
(* expiries, the first within a day, strikes missing from the second.      *)
(***************************************************************************)
Chain == [type : {"P", "C"}, expiry : {2000, 2440, 4000}, strike : {0, 20, 40, 60}, first : {500}]
DesiredInputs == [extreme : 1..59, direction : {"long", "short"}, kind : {"credit", "debit"}, width : {20, 40},
                  missing : SUBSET {0, 20, 40}, late : {None, 20}]

Desires(in) == GenerateDesiredSpreads(in, {1, 2}, {in.width}, in.kind)
Researched(in) == GenerateShortStrikeResearchSpreads(in, {1, 2}, {in.width}, in.kind)
Mirrored(in) == [in EXCEPT !.extreme = 60 - @, !.direction = IF @ = "long" THEN "short" ELSE "long"]
Mirror(spreads) == {[s EXCEPT !.anchor = 60 - @, !.sold = 60 - @, !.bought = 60 - @,
                              !.type = IF @ = "P" THEN "C" ELSE "P"] : s \in spreads}
ListedContracts(in) ==
    {IF c.strike = in.late THEN [c EXCEPT !.first = 1001] ELSE c :
        c \in {d \in Chain : d.expiry = 2440 => d.strike \notin in.missing}}

\* A rising and a falling event ask for each other's spreads; what is sold of a credit is
\* nearer the money than what is bought and no nearer than the extreme; the research cohort
\* keeps every unbuffered spread and always has one a buffer away; and what is retrieved
\* is of the first expiry far enough out, whatever is listed beyond it, with legs in the
\* order asked for, unless they are one contract (generateDesiredSpreads,
\* generateShortStrikeResearchSpreads, retrieveSpread).
SoundDesires(in) ==
    LET Safe(strike) == IF in.direction = "long" THEN in.extreme - strike ELSE strike - in.extreme
        contracts == ListedContracts(in)
    IN /\ Desires(Mirrored(in)) = Mirror(Desires(in)) /\ Researched(Mirrored(in)) = Mirror(Researched(in))
       /\ \A s \in Desires(in) \cup Researched(in) :
             /\ Safe(s.anchor) >= 0 /\ Abs(s.sold - s.bought) = in.width
             /\ s.kind = "credit" => Safe(s.bought) > Safe(s.sold)
       /\ {s \in Desires(in) : ~s.buffered} \subseteq Researched(in)
       /\ \E s \in Researched(in) : Safe(s.anchor) >= Buffer
       /\ \A s \in Researched(in) :
             LET r == RetrieveSpread(s, 1000, contracts, 1440)
             IN /\ r.sold.expiry = (IF s.dte = 1 THEN 2440 ELSE 4000) /\ r.bought.expiry = r.sold.expiry
                /\ r = RetrieveSpread(s, 1000, {c \in contracts : c.expiry <= r.sold.expiry}, 1440)
                /\ r.sold = r.bought \/ (r.sold.strike < r.bought.strike) = (s.sold < s.bought)
                /\ r.status = "ready" => r.sold.first <= 1000 /\ r.bought.first <= 1000

(***************************************************************************)
(* Two listed expiries of one request, entry at minute 1000.               *)
(***************************************************************************)
At(n, i, t, d, x) == [MCPrint(n, i, t, d, 1, 9) EXCEPT !.index = x]
NearTape == {At("S", 1, 980, "sell", 2000), At("S", 2, 900, "buy", 2000), At("S", 3, 1010, "sell", 2000)}
FarTape == {At("B", 1, 960, "buy", 2000), At("B", 2, 1005, "buy", 2040)}
SelectionInputs == [near : SUBSET NearTape, far : SUBSET FarTape, other : SUBSET {990, 1010},
                    created : {None, 900, 1001}, mode : {"maker", "taker"},
                    selection : {"liquidity-aware", "closest-dte", "all-eligible"},
                    research : BOOLEAN, unavailable : BOOLEAN]

Manifests(in) ==
    <<[expiry |-> 5000, distance |-> 1, sold |-> "S", bought |-> "B", soldCreated |-> in.created,
       boughtCreated |-> 800, sensible |-> TRUE, unavailable |-> in.unavailable],
      [expiry |-> 6000, distance |-> 1, sold |-> "T", bought |-> "C", soldCreated |-> 800,
       boughtCreated |-> 800, sensible |-> TRUE, unavailable |-> FALSE]>>
Inventory(in) ==
    [n \in {"S", "B", "T", "C"} |->
        MCSeries(n, CASE n = "S" -> in.near [] n = "B" -> in.far
                      [] n = "T" -> {At("T", 1, t, "sell", 2000) : t \in in.other}
                      [] OTHER -> {At("C", 1, t, "buy", 2000) : t \in in.other})]
Ranked(in, manifests, inv) == BuildExpiryCandidates(manifests, 1000, inv, in.mode, in.selection,
                                                    in.research, 1440)

SoundSelection(in) ==
    LET inv == Inventory(in)
        rows == Ranked(in, Manifests(in), inv)
        swapped == Ranked(in, Reverse(Manifests(in)), inv)
        Key(row) == RankKey(row.row, in.research, in.selection)
        before == [n \in DOMAIN inv |-> [inv[n] EXCEPT !.prints = {p \in @ : p.at <= 1000}]]
    IN /\ ~in.research => rows = Ranked(in, Manifests(in), before)
       /\ {rows[k].manifest : k \in DOMAIN rows} = {1, 2} /\ Len(rows) = 2
       /\ \A k \in DOMAIN rows :
             rows[k].selected =>
                /\ rows[k].row.retrieval = "ready"
                /\ \A leg \in {"sold", "bought"} :
                      rows[k].row.listing[leg] \in
                          {"listed"} \cup IF in.research THEN {"listing-plausible"} ELSE {}
                /\ ~in.research => rows[k].row.quality # "red"
       /\ rows[1].status = "recommended" => swapped[1].status = "recommended"
                                            /\ Key(rows[1]) = Key(swapped[1])
       /\ rows[1].selected = (rows[1].status = "recommended")

\* The spreads an event asks for are sound (above); every manifest has one row; what is
\* run was loaded, is not known to be listed later, and in the conservative mode is
\* listed, is not red, and is what it would be had no print come after the entry; the
\* best row does not depend on the order of the answers (buildExpiryCandidates).
SelectionIsSound ==
    [][/\ algorithm' = "desired" => SoundDesires(input')
       /\ algorithm' = "selection" => SoundSelection(input')]_taken

(***************************************************************************)
(* A spread entered at 0 that expires at 1200 on eight two-hour candles.   *)
(* Its entry evidence lies within fifteen minutes of the entry.            *)
(***************************************************************************)
Mark(n, i, t, d, p, v) == [MCPrint(n, i, t, d, 1, p) EXCEPT !.iv = v]
SoldMarks == {Mark("S", 3, 200, "buy", 4, 1), Mark("S", 4, 470, "buy", 3, 2), Mark("S", 5, 900, "buy", 2, 1)}
BoughtMarks == {Mark("B", 3, 210, "sell", 2, 1), Mark("B", 4, 400, "sell", 1, 1), Mark("B", 5, 950, "sell", 1, None)}
ExitInputs == [sold : SUBSET SoldMarks, bought : SUBSET BoughtMarks, touch : {None, 1, 4, 7},
               broken : {None, 4, 8}, delivery : {None, 1900}, kind : {"credit", "debit"}]

MCSpread(in) ==
    [sold |-> [name |-> "S", type |-> "P", strike |-> 1900, expiry |-> 1200,
               prints |-> in.sold \cup {Mark("S", 1, -10, "sell", 9, 3), Mark("S", 2, 12, "sell", 9, 3)}],
     bought |-> [name |-> "B", type |-> "P", strike |-> 1800, expiry |-> 1200,
                 prints |-> in.bought \cup {Mark("B", 1, -5, "buy", 3, 1), Mark("B", 2, 10, "buy", 3, 1)}],
     type |-> "P", kind |-> in.kind, expiry |-> 1200, delivery |-> in.delivery, listed |-> TRUE]
MCEvent == [at |-> 0, price |-> 2000, direction |-> "long", vpoc |-> 2100, invalidation |-> 1950]
MCCandles(in) == {[opens |-> 120 * (k - 1), closes |-> 120 * k, low |-> 1960,
                   high |-> IF k = in.touch THEN 2100 ELSE 2050,
                   price |-> IF k = in.broken THEN 1200 ELSE 2000] : k \in 1..8}
Exits(in, candles) ==
    EvaluateExits(BuildValuationPath(MCSpread(in), MCEvent, candles, "taker", 1, "separate-legs", {}),
                  MCSpread(in), MCEvent, candles, 160)

\* The same spread as executed at 12, marked along its life.
ExecutedPath(in, candles) ==
    BuildExecutedValuationPath(MCSpread(in), candles,
        [soldAt |-> 12, boughtAt |-> 10, cash |-> 5, amount |-> 1, route |-> "separate-legs"], {})

SoundExits(in) ==
    LET candles == MCCandles(in)
        path == ExecutedPath(in, candles)
        Known(point) == ExecutedPath(Until(in, point.at), {c \in candles : c.closes <= point.at})
    IN /\ \A k \in DOMAIN path : path[k].at >= 12 /\ Known(path[k])[k] = path[k]
       /\ \A e \in Exits(in, candles) :
              e.status = "hit" =>
                 /\ e.at >= e.trigger
                 /\ e \in Exits(Until(in, e.at), {c \in candles : c.closes <= e.at})

\* An execution has both legs in full and close together, none of it before its
\* order or its exit's trigger, a delayed one strictly after the signal, before
\* expiry and before the thesis resolved either way; an exit is valued no earlier than
\* its trigger; and each is what it would be had the tape and the candles ended with it
\* (executeHistoricalSpread, simulateTakerExit, analyzeDelayedExecution,
\* delayedExecutionSnapshot, buildValuationPath, evaluateExits).
ExecutionsAreCausal ==
    [][/\ algorithm' = "execution" => SoundFills(input')
       /\ algorithm' = "delayed" => SoundDelay(input')
       /\ algorithm' = "exits" => SoundExits(input')]_taken

(***************************************************************************)
(* Windows of a tape with two or three prints in a millisecond, pages of   *)
(* two; hours of funding, chunk by chunk.                                   *)
(***************************************************************************)
BusyTape == {MCPrint("S", 1, 0, "buy", 1, 9), MCPrint("S", 2, 1, "buy", 1, 9),
             MCPrint("S", 3, 1, "buy", 1, 9), MCPrint("X", 4, 1, "buy", 1, 9),
             MCPrint("S", 5, 2, "buy", 1, 9), MCPrint("S", 6, 3, "buy", 1, 9)}
RetrievalInputs == [tape : SUBSET BusyTape, says : BOOLEAN, hours : SUBSET (0..3),
                    answers : {<<"lost", "throttled", "ok">>, [k \in 1..7 |-> IF k = 7 THEN "ok" ELSE "lost"]}]
Rest(S, rows) == S \ {rows[k] : k \in DOMAIN rows}

\* What a capped retrieval returns is every trade of its window once, save those of
\* a millisecond it reports or refuses, or, for the first trades after an order,
\* of a millisecond it returned trades of; coverage misses what is missing
\* (#pagedTrades, completeTrades, tradesAtOrAfter, fundingHistory).
SoundRetrieval(in) ==
    LET paged == OptionPrints(in.answers, in.tape, {"S"}, 0, 3, 2)
        whole == CompleteTrades(in.tape, 0, 3, 2, in.says)
        first == TradesAtOrAfter(in.tape, 0, 3, 5, 2, 3)
        funding == FundingHistory(in.hours, 0, 3, 1)
        listed == {p \in in.tape : p.name = "S"}
        \* An hour whose bar has no price is missing.
        Hourly(from, to) == ReferenceSeries({[at |-> h, price |-> h] : h \in in.hours}, from, to)
    IN /\ (paged = None) = (Len(in.answers) > 6)
       /\ paged # None => /\ {p.at : p \in Rest(listed, paged.rows)} \subseteq paged.incomplete
                          /\ IsInjective(paged.rows)
       /\ whole # None => whole = InTapeOrder(in.tape)
       /\ (whole = None) = \E t \in 0..3 : Cardinality(InWindow(in.tape, t, t))
                                            >= IF in.says THEN 3 ELSE 2
       /\ \A p \in Rest(in.tape, first) : \A k \in DOMAIN first :
             first[k].at > p.at => \E l \in DOMAIN first : first[l].at = p.at
       /\ funding.points = in.hours /\ funding.missing = (1..3) \ in.hours
       /\ Hourly(0, 3).missing = Hourly(0, 1).missing \cup Hourly(2, 3).missing
       /\ Hourly(0, 3).missing = (0..3) \ (in.hours \ {0})

\* Both ways a tape is had, from files and from the exchange, neither lose a print nor
\* make one (backtester.ts, deribit-history-api.ts).
RetrievalsAreComplete ==
    [][/\ algorithm' = "import" => SoundImports(input')
       /\ algorithm' = "retrieval" => SoundRetrieval(input')]_taken

(***************************************************************************)
(* Runs of one or two snapshots over two months, with or without more      *)
(* evidence than the time before.                                          *)
(***************************************************************************)
MCTargets == 0..2
MCMonthOf == [t \in MCTargets |-> t \div 2]
MCSnapshots == [target : {1, 2}, evidence : {{"a"}, {"a", "b"}}] \cup [target : {0}, evidence : {{"a"}}]
MCBatches == {S \in SUBSET MCSnapshots : /\ Cardinality(S) \in 1..2
                                       /\ \A s, t \in S : s.target = t.target => s = t}

IdleCache == cache = "dvol" /\ disk = <<>> /\ described = Absent /\ run = NoRun /\ kept = {}
             /\ runs = MaxCacheRuns /\ crashes = MaxCrashes

Algorithms == {"execution", "delayed", "import", "desired", "selection", "exits", "retrieval", "surface", 
               "holdout", "materialize", "reference", "baseline", "margin", "bundle", "duration", "survival", "policy", "strike"}

\* One of an algorithm's inputs, from a start at which nothing is evaluated.
Take(name, inputs) == /\ algorithm = "start" /\ input = name
                      /\ algorithm' = name /\ input' \in inputs
                      /\ UNCHANGED cachevars

MCInit == \/ algorithm = "start" /\ input \in Algorithms /\ IdleCache
          \/ algorithm = "cache" /\ input = None /\ CacheInit

MCNext == \/ Take("execution", ExecutionInputs)
          \/ Take("delayed", DelayedInputs)
          \/ Take("import", ImportInputs)
          \/ Take("desired", DesiredInputs)
          \/ Take("selection", SelectionInputs)
          \/ Take("exits", ExitInputs)
          \/ Take("retrieval", RetrievalInputs)
          \/ Take("surface", SurfaceInputs)
          \/ Take("holdout", HoldoutInputs)
          \/ Take("materialize", MaterializeInputs)
          \/ Take("reference", ReferenceInputs)
          \/ Take("baseline", BaselineInputs)
          \/ Take("margin", MarginInputs)
          \/ Take("bundle", BundleInputs)
          \/ Take("duration", DurationInputs)
          \/ Take("survival", SurvivalInputs)
          \/ Take("policy", PolicyInputs)
          \/ Take("strike", StrikeInputs)
          \/ algorithm = "cache" /\ CacheNext /\ UNCHANGED <<algorithm, input>>

MCSpec == MCInit /\ [][MCNext]_resvars
=============================================================================
