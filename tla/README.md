# A verification of the BTC options backtester

TLA+ models of btc-options-backtester, TLC configurations that check them on small instances, and TLAPS
proofs of what holds for instances of every size. The application is a React page
(`app/options-backtester.tsx`) over a local server (the Vite plugins of `scripts/*-service.ts` and
`scripts/*-api.ts`) that keeps its state in JSON files and retrieves market data from Deribit.
`PROJECT.json` maps every definition to the source lines it stands for and lists the runs, the mutants
that show each property can fail, the findings, the hazards and the theorems.

## 1. The system

| Component | State | Operations | What makes it correct |
|---|---|---|---|
| Selection store service (`scripts/research-selection-service.ts`, `app/lib/research-selections.ts`, `research-refresh.ts`) | one JSON file per dataset, temporary files beside it | GET, PUT store, PUT event, DELETE event, POST recompute; read-check-write handlers that yield at every await | never half a document; nothing invalid persisted; a malformed file survives; what a client changes is a document it was shown; answers tell the truth |
| Offline migration (`scripts/run-research-recompute.ts`) | the same file, from another process | read, recompute, compare structures, save | it persists the structures it read and no others |
| Recompute engine (`scripts/research-recompute-engine.ts`) | the structures it was primed with, memoized market resolves | prime, evaluate | one failing structure fails the whole refresh |
| Browser workspace (`app/options-backtester.tsx`, `app/lib/trade-datasets.ts`) | dataset on screen, its edited events, dirty flags, the last selection store received, loaded contracts, analysis results | load, edit, add, rename, delete, save dataset, save research, import, load contracts, run | the two stores that own an event agree; late answers do not land under another dataset or event |
| Trade dataset service (`scripts/trade-dataset-service.ts`) | one JSON file per dataset | list, read, save, import | ids unique, identity of the file kept |
| Deribit instrument index (`scripts/deribit-history-api.ts` 152-219, 280-282) | manifest, phase, running synchronization, a cache file shared by several instances | status, index, wait | one synchronization at a time; "ready" means there is a manifest; a refresh gets over a failure; loads end |
| Deribit retrieval (same file 221-341, `scripts/deribit-api-client.ts`) | trade and delivery-price caches, the range each worker is at, its attempts | a pool of workers over a resolve's instruments: boundary requests, pages, prices; throttling and retries | a range is whole as of one moment; every leg is retrieved or failed; a candidate is available exactly when all its legs are; every resolve ends |
| Perpetual history (`scripts/deribit-perpetual-history.ts`) | none modelled | pages of trades by timestamp, chunks of funding | nothing skipped at a page boundary |
| Evidence caches (`scripts/cross-section-cache.ts`, `volatility-reference-cache.ts`) | monthly JSONL shards and manifests | windows halved at the page cap; runs that read a shard, add to it and write it in place | what a finished run kept is there for the next, whatever crashes after it |
| Backtester core (`app/lib/backtester.ts`) | none | import and merge of trade rows, desired spreads, ranking of expiries, executions, valuation path, exits | nothing looks past its moment; order of files does not matter |
| Execution models (`delayed-execution.ts`, `modeled-execution.ts`, ...) | none | sides, order clocks, delayed entry windows | an entry is filled by prints of its window and before its thesis resolved |
| Research valuation and outcomes (`research-valuation.ts`, `research-outcomes.ts`, ...) | none | theoretical, maker and taker entries, marks, outcomes | a value at T rests on prints until T; both legs on one moment |
| Margin, economics and accounting (`margin.ts`, `research-margin.ts`, `maximum-economic-loss.ts`, `accounting.ts`) | none | payoff, structural loss, margin along a path, settlement ledger, adverse path | no settlement loses more than the stated maximum |
| Event timing and futures baseline (`event-timing.ts`, `futures-baseline.ts`) | none | which outcome of a thesis came first, from when it is known; the perpetual position of equal risk | decided by what was known, filled after it was decided |
| Volatility library (`app/lib/volatility/`) | none | admission of evidence, cross-sections, slices, references, percentiles, realized volatility, states, coverage, holdouts | no print of after the target, none that is withheld |
| Volatility and calibration pipelines, measurement scripts (`scripts/*volatility*.ts`, `measure-*.ts`) | the evidence caches | backfill of reference rows, states of events, precomputation, prior anchors, coverage and holdout measurements | the same rows whether filled offline, lazily or by another event |
| Research bundle (`app/lib/research-bundle.ts`, `research-tracks.ts`) | none | tracks, reconciliation, tables, validation | a track that is unavailable leaves the others alone; what is written keeps what it was given |
| Research analytics (`app/lib/research-analytics-model.ts`) | none | cohorts, observations, tracks, denominators, summaries | tracks are not pooled |
| Report normalizers (`underlying-resolution/`, `duration-dte/`, `exit-policy/`, `short-strike/`, `strike-challenge.ts`) | none | resolution times and survival, structures by days to expiry, entry delays, exit policies, challenges and placements of a short strike | one structure one bucket; chronology before price; like compared with like |
| Spread-width and futures reports; views; host shell | none of their own | grouping, rendering, configuration | |

**How they interact.** The page calls the server with `fetch` and goes on from the answer, whatever has
been clicked meanwhile; it keeps the selection store it was last sent and names its version in `If-Match`.
Within the server, handlers of one process interleave at every `await`; the migration is a process of its
own. The recompute route makes a `DeribitHistoryService` of its own, which shares the cache file with the
one behind `/__deribit/history`.

**What is hard.** Checks made before an await and relied on after it (version checks, `manifestChecked`,
React closures); writes that fail or lose their answer after taking effect; a process that dies between the
steps of a file write; temporary names made of a pid and a millisecond; answers overtaking one another across
a switch of datasets or events; phases of the index that outlive their cause; ranges read in several requests
off a growing tape; multi-file saves. And in the research code, where nothing is concurrent: which of two
clocks a comparison uses (a print's time, a candle's open, its close, the moment a decision is known), evidence
that was already there when something earlier was computed, ties, empty sets, and rows that pass through five
modules under changing names. `PROJECT.json` lists each under "hazards", at its line.

## 2. Modules

| Module | Models | Composition |
|---|---|---|
| `SelectionData` | the store as data: validation, the edits, the engine's answers | |
| `EventStore` | the abstract specification: one document, replaced only by whole, valid, freshly versioned edits of a document somebody could read | extends `SelectionData` |
| `SelectionStore` | every handler of the service and the migration, atomicWrite step by step, crashes, failing file operations | extends `SelectionData`, refines `EventStore` (`Contract`) |
| `SelectionStoreInvariants` | the inductive invariant | extends `SelectionStore` |
| `SelectionStoreProofs` | its types, its safety, the edits and the refinement | proofs |
| `Workspace` | one tab with the dataset files and the selection stores; the server in one step per request | relies on `EventStore` |
| `WorkspaceProofs` | its types, whose research is where, and that a careful user's stores agree | proofs |
| `ContractLoad` | one tab: contract loads, runs, ticks and saves of research across switches of events | its loads answer as `DeribitRetrieval` does |
| `ContractLoadProofs` | whose structures a save files and which it drops; the types of the tab beside the retrieval | proofs |
| `DeribitRetrieval` | several resolves of one process over a growing tape | |
| `DeribitRetrievalProofs` | its ranges and its accounting | proofs |
| `DeribitIndex` | index services sharing a cache file, the tabs and recomputes that use them | |
| `DeribitIndexProofs` | its invariants, and why a load fails | proofs |
| `TapeExecution` | fills, order clocks, spread executions, delayed windows | |
| `EntrySelection` | imports, desired spreads, evidence windows, ranking of expiries | extends `TapeExecution` |
| `TradeValuation` | fees, ledgers, path of marks, exits | extends `EntrySelection` |
| `EvidenceRetrieval` | complete windows from capped pages: pagination, halving, deduplication | extends `TapeExecution` |
| `EvidenceCache` | the shards and manifests, written by runs that may crash | |
| `MarketEvidence` | admission, reference series, percentiles, realized volatility, states | extends `TapeExecution` |
| `VolatilitySurface` | forwards, cross-sections, geometry, slices and the estimators that need no fit | extends `MarketEvidence` |
| `HoldoutScoring` | withholding, scoring, paired and leave-one-event-out summaries | extends `VolatilitySurface` |
| `VolatilityMaterialization` | backfill, states of an export, offline precomputation, coverage | extends `VolatilitySurface` |
| `ResearchValuation` | theoretical, maker and taker entries, marks and outcomes of a spread | extends `TradeValuation`, `VolatilitySurface` |
| `EventBaseline` | event timing and the perpetual baseline | extends `MarketEvidence` |
| `ResearchTracks` | the seven tracks of a structure | extends `EventBaseline` |
| `ResearchMargin` | losses, margin, settlement, adverse path | extends `ResearchValuation` |
| `ResearchBundle` | the tables of a bundle and the rules that refuse one | extends `ResearchTracks`, `ResearchMargin` |
| `ResearchAnalytics` | the model of an imported bundle | extends `ResearchBundle` |
| `UnderlyingResolution` | time to resolution, survival, percentiles | extends `ResearchAnalytics` |
| `DurationDte`, `DurationReport` | structures by days to expiry and the report over them | extend `UnderlyingResolution` |
| `ExitPolicies` | which outcome ends a position, and what it then earns | extends `DurationReport` |
| `StrikePlacement` | the challenge of a short strike, its thesis exit, and the matched comparison of technical and buffered placements | extends `DurationReport` |
| `EntryProofs` | the spreads wanted, the legs resolved for them, what an entry is judged on, and what an order fills, at once or delayed | proofs, of `EntrySelection`, `TapeExecution` |
| `OutcomeProofs` | losses, settlement, adverse paths, exits, challenges and placements, the baseline | proofs, of `ResearchMargin`, `ExitPolicies`, `StrikePlacement` and what they extend |
| `MCSelectionStore`, `MCWorkspace`, `MCDeribitIndex`, `MCContracts` | values for the constants; `MCContracts` puts the retrieval and the tab side by side | extend the above |
| `MCVolatility`, `MCReference`, `MCOutcomes`, `MCBundle`, `MCReports`, `MCResearch` | inputs of the research algorithms and what their answers must satisfy; each extends the one before | extend the above |

### SelectionStore and the code

A request in `Req` runs one handler once. `pc` is where it is: `Call` takes an idle request up to its first write
(`Upsert`, `Delete`, `Save`, `Prime`, `Migrate` are the five entry points), `Recompute` and `RunEngine` are the second
half of the recompute, `SaveMigrated` the comparison of structures by the migration and its call of `save()`, and
`Open`, `Fill`, `Rename`, `Fail`, `Unlink` are `atomicWrite`: `writeFile` with flag `wx` in two steps, `rename`, and
the catch block that unlinks. `target` is the request whose file is linked at the canonical name (or the `Original`);
a file is readable once it is in `filled`. `base` is the store a handler read, `draft` the one it will write, `match`
the version its client named. `landed` is a history variable: files that were ever canonical; from it `Published` is
every store a client may hold, so requests come with views of any age.

Stretches of code between two awaits that no other request can observe are one action: a read, the checks on
it and the stamp of the draft (nothing is written between them); the temporary name and the opening of the
file; all engine calls of one refresh (they work on a detached copy). Versions are the timestamps the code
writes; the stamp of a refreshed store is taken when the code takes it, before the engine runs.
`ReadClock` is `Date.now()`: with `Coarse` two readings can be equal, without it they differ.

Abstracted: an event's snapshot is the identity of its structures, the research derived from them, and the
event id its controlled-research rows carry; of the validation the two rules that relate parts of an event
(an admissible analytical track; research rows carry the event's id). The refresh of one structure is a refresh
of its event. The migration of legacy schemas on read and the dry run and audit file of the script are left
out: none of them writes the canonical file.

### Workspace and the code

`calls` are the tab's fetches: a handler runs up to its fetch (`Rename`, `Delete`, `SaveResearch`,
`SaveDataset`, `Load`), the server answers (`Serve...`, `Fail`), `Lose` drops a request or an answer that was
already on its way, and the handler goes on (`ReceiveStore`, `RollBack`, `ReceiveFailure`, `ReceiveSaved`,
`ReceiveDataset`, which sends the second half of a load). `view` is the React state `selectionStore`;
`RollBack` renames whatever has the new id by then, as the `setEvents` of the catch block does. The server
serves a request in one step: `Implementation` (below) shows that its handlers behave like single commits.
A record of a store is the set of trades its structures were selected for and the ids its controlled-research
rows name, so that `NoForeignResearch` and `StoresAgree` can say whose research is saved under which id.
`Patient`, `Discards`, `Lossy`, `Failing` and `Controlled` say what a run's user and server do. Left out:
imports, edits of an event's other fields; contract loads and backtests, which are `ContractLoad`; several tabs
at once (`SelectionStore` has several clients). At the start only one dataset has research (the assumptions on
`Initial` and `Researched`), so no two stores ever carry one stamp by chance.

### ContractLoad and the code

`Load` is `loadContracts`, whose answer (`LoadAnswers`, `LoadFails`, then `LoadEnds` in the `finally`) is installed
under whatever event is selected by then; `Switch` selects another event; `Edit` changes what the contracts were asked
for and takes contracts and results off the page, `Configure` stands for the settings that are part of the key and
take nothing off it (`options-backtester.tsx:973-988`); `Run`, `RunLands`, `RunFails` are a backtest; `Toggle` ticks a
result; `Save`, `SaveAnswers`, `SaveRefused` are the save of research. What a save does to the saved structures is
`planCandidatePersistence`, split into the questions it asks: is the draft's key the current one (`KeyCurrent`), is
the load the current one and complete (`Authoritative`), which saved structures are recomputed (`Refresh`), which
additions are refused (`BlockedAdd`) and which are left as they are (`KeepUnchanged`). Two history variables say what
the page does not keep: what the user has `unticked`, and whether a refused save ever `putBack` an older draft. Under
which settings a result was valued the page does not keep either, and no property asks (section 5, "The stores").

### DeribitRetrieval and the code

A tape is the numbers 1..n of an instrument's trades, so "what the tape held at a moment" is a number. `Trade` lets
the exchange trade on, `Start` sends a resolve, `Take` gives an idle worker the next instrument, `Boundary` answers
one of the two requests for the first and the last trade, `Page` one of the pages between them, `Prices` the delivery
prices at the end, `Throttle` is an answer that is tried again, `Refuse` one that is not, `PoolEnds` the end of the
pool. Pages may come short or contradict one another, which the code notices (`Covered`, `conflict`). Left out: how
the instruments of a resolve are chosen, and its diagnostics.

### The research algorithms and the code

They are pure functions, so they are operators, and `MCResearch` makes a behaviour of them: a state is an algorithm
and one of its inputs, chosen by `Take` from a start, and a property is about every input taken, `[][algorithm' = "a"
=> SoundX(input')]_taken` (in three of the runs that expect a violation, an invariant). A `SoundX` compares the algorithm's
answer with its answer on the evidence that existed at the moment it is about (causality), on the same evidence in
another order or with an event, a track or a file added (independence), or with a reference definition (a count, a
sum, a quantified statement of which row wins). Beside them `EvidenceCache` is a machine of its own: runs begin,
retrieve, write the files of a month one after the other, and crash between any two writes.

What the data is reduced to:

- *Prices.* Integers in units of 1/Scale of a coin, so a volume-weighted price is exact; a research price is
  rounded down. Black's formula is replaced by intrinsic value plus a time value that grows with the variance:
  it keeps which inputs a price depends on and in which direction, and what happens at and after expiry.
- *Volatility.* ln(K/F) is kept as 2K - 2F, a total variance as the squared volatility; the fits of SVI and SSVI are
  not modelled, only the guards that decide whether a fit is tried and the estimators beside them.
- *Causality.* Exit causality is guarded twice in the code (the evidence handed over, and a filter on it), and
  both are modelled, so a mutant has to break both or the one that decides. The normalization of an entry and the
  estimate of a research position deliberately look past the entry, and are left out of the comparison; candles are
  equal up to the one still open (section 5, "Volatility").
- *Caches.* A file torn by a crash is dropped with its month, as the code does when a line does not parse.
- *Baseline and margin.* The settlement price near zero is 0; the share out of the money is in thousandths, rounded
  down; the bisection of the break-even is not modelled.
- *Bundle.* Metadata and manifest of a run, identities of structural configurations, currencies, the leg
  volatility rule (681-684), the volatility tables (777-909), the evidence table and the migration of old schemas
  are left out.
- *Analytics and reports.* One event per dataset; tiers, qualities, model versions, uncertainties and the
  conversion to dollars are dropped, so native and dollar loss are one field; `penalty_sensitivity`, which no engine
  produces, is no track; the memo of the analytical context and delayed snapshots from before there were modes are
  left out. Days are kept in minutes; ranges and labels of a horizon, confidence bands of the survival curve, the quality
  filter and the operational holding period of the duration report, the fan-out of unprojected exit policies, the
  peak and margin-path bases of capital and the fees of exits are left out.

### DeribitIndex and the code

`loadCache` marks the cache as checked and then awaits the file (`Arrive`, `Read`); whoever comes in between
goes on without it. `Continue` is what `status`, `startIndex` and `waitUntilReady` do afterwards in one go;
`Listed`, `Written` and `SyncFails` are `syncManifest`, whose end (`SyncEnds`) clears the promise and wakes
the handlers that await it. The cache file is written in place, so it is "torn" while a service writes,
"mixed" while two do, and either whole or torn after that. A tab asks for the index (`Begin`), polls while it
is not ready (`Indexed`, `Poll`; a status that cannot be had counts as no answer, as in
`refreshSourceStatus`), and resolves (`Resolved`); a recompute makes a service, starts and waits. `Crash`
restarts the server: all services and handlers are gone and tabs see a broken connection. Of the manifest the
model knows whether there is one; the last microtask turns between the end of `syncManifest` and its
`finally` are one step, since no I/O callback can come between them.

## 3. Runs

| Run | Instance | Shows |
|---|---|---|
| `store_concurrent` | 2 requests of any kind, 2 events, 2 structures, 2 researches, crashes | safety of the handlers, every answer true, edits are of what was read and of what the client was shown, refinement of `EventStore` |
| `recompute_race` | 2 requests | **violated**: a recompute overwrites an edit made while it worked |
| `workspace_careful` | 2 datasets, 3 trades, 3 ids, 1 fetch at a time, versions to 4 | the stores agree, the tab's view is current |
| `workspace_hasty` | 2 datasets, 2 trades, 2 ids, 2 fetches, versions to 2 | no research under another dataset |
| `refused_rename` | 1 fetch, nothing fails | **violated**: events with controlled-research rows cannot be renamed |
| `deribit_index` | 2 tabs, 1 recompute, 1 restart, 1 poll | ready means a manifest, one synchronization, refreshes recover, loads end |
| `contracts` | 2 resolves, 3 instruments, 2 workers; one tab, 2 events, 1 candidate, 6 acts, 2 saves | ranges are whole as of one moment, legs are accounted for, every resolve ends; a save files a structure under its own event and drops only what the user dropped |
| `research` | the inputs of 17 groups of algorithms; 3 cache runs, 1 crash | see the table below |
| `ladder_lookahead` | the ladder of one leg | **violated**: strikes listed after the entry choose its reference |
| `entry_delay` | one store, its export | **violated**: a delayed entry that was found never reaches the table of entry delays |
| `immediate_marks` | one bundle, its analytics | **violated**: the exported marks of an immediate execution are in no table of its track |
| `ambiguous_bucket` | one event, its report | **violated**: an ambiguous event is counted as one that reached the VPOC |

What the properties of `research` say:

| Property | In words |
|---|---|
| `ExecutionsAreCausal` | an execution has both legs in full and close together, after its order and, delayed, before its thesis resolved; it is what it would be had the tape ended with it, and so are the exits on a valuation path |
| `SelectionIsSound` | mirrored events ask for mirrored spreads; the expiry that is run was loaded and, in the conservative mode, is the same with every print after the entry removed, in any order of the answers |
| `RetrievalsAreComplete` | what files or capped pages give is every trade of the window once, save of milliseconds they report or refuse |
| `EvidenceOutlivesRuns` | what a completed run cached stays until a run is given the same target or crashes writing that month (an invariant of the cache machine) |
| `SurfacesAreTheirEvidence` | a surface, and a holdout scored on one, is what was observed by its moment, and nothing fitted depends on a withheld volatility |
| `StatesAreTheirEvidence` | rows of the reference history and the states made of them are what their evidence says, filled for an event or precomputed by days |
| `ResearchValuesAreCausal` | theoretical entries, executions, marks and outcomes are what was known at their moment; both legs of an entry were observed within an hour |
| `BaselinesAreCausal` | outcomes are ordered by when they are known; the perpetual fills after its decision; funding of a holding is that of its parts |
| `LossesAreBounded` | the structural loss bounds every settlement and is attained; its two readings agree; margin days add up |
| `ExportsAreFaithful` | the reference is exported without any execution; each row is of the copy whose track it is; a bundle is refused exactly for the named reasons, unless it holds a fill without credit or a delayed row earlier than a slow fill, of which nothing is said (section 5) |
| `ReportsAreTheirTracks` | a track is available exactly where the bundle describes it so and has its snapshot; an unavailable one contributes nothing; the engines' tracks show the same whatever was filled at once, the reference and modeled ones whatever was executed at all; an immediate track has exactly the outcomes of its scenario; no outcome that was not reached has a price |
| `DurationsAreConsistent` | execution has no part in what a structure lived to see; a later expiry changes nothing that ended before; the survival curve depends on no order and lies between its two extremes |
| `ExitsAreChronological` | the outcome decided first ends a position, priced or not; nothing later has a part in it; the strike comparison finds that exit too, pairs exactly what was asked for at one width, and is the same for a mirrored market |

**Bounds.** Two requests are enough for every read-check-write race, since a handler reads at most twice and
writes once. Two events tell the event a request names from the others; two structures and two researches tell
"kept" from "rebuilt". Requests are used once, so behaviours end: the store runs do not check for deadlock (nor
do the others, whose users may stop: `Fresh` trades run out, versions are bounded by `MaxClock`, loads are made
once). Symmetry is used on requests (`Req`, `Call`) in runs without liveness. `workspace_careful` needs a second
dataset to leave and come back, a second id to rename to and a third for the added event; `MaxClock` 4 allows
three commits, a rename, a save and a delete. In `workspace_hasty` one commit is possible after the start:
foreign research needs only one wrong one; what longer behaviours could add is covered by the proof.
`MaxPolls` stands for 2400; one poll already tells an answered one from the last. `MaxCrashes` 1: a second
restart meets the state of the first. `Again` is FALSE: a second load of the same tab begins like that of the
second tab, at a later state.

`contracts` has one instrument that still trades and is shared by both resolves, one that expired with a trade
and one without any; two workers, so one may fail while another goes on; pages of one trade, so that two
trades need two (`MaxTrades`, `PageSize`); two attempts per request, the first that is repeated and the last.
The two machines touch only in the answer of a load, which the tab takes in every form the other gives it, so a
behaviour explores one of them (`focus`). `MaxActs` 6 allows load, run, tick, save, switch and one more, `MaxSaves` 2 a
save in flight while another is answered. The inputs of `research` are named where they are defined, with the
case each is there for: tapes of up to four prints a leg with ties and out-of-order ids, up to three import rows,
paths of a few candles around a target; a short strike at each of two distances from the extreme, with listed strikes
missing and without, two sets of widths and dips at each of two candles before, at and after the resolution;
`MaxCacheRuns` 3 lets a crash fall between a run that kept something and one that relies on it.

**Fairness.** The store and the workspace claim no liveness: clients may stop, and a rename or a save that is
never answered is answered by nobody. `LoadEnds` assumes weak fairness of handlers, synchronizations and tabs:
the event loop runs every continuation, file operations and upstream requests end in an answer or an error
(`deribit-api-client.ts` makes at most five attempts with bounded delays, but sets no time limit of its own
on a fetch: that it ends is the assumption), and a tab that is open goes on. Beginning a load is not fair.
`EveryResolveEnds` assumes the same of a resolve's continuations, one weak fairness condition for each resolve
that has begun; that the attempts of one request are bounded is in the model. Trades are not fair: the tape may
stand still or grow to its bound.

## 4. Proofs

Assumptions: those the modules state on their constants, and `~Coarse` (distinct clock readings) where
temporary names or versions matter: it is needed, since with it dropped three writers of one millisecond
share a temporary name and a half-written file becomes canonical. `MalformedIsKept` needs no clock.

- `TypeCorrect`: types, for any numbers of requests, events, crashes.
- The invariant `InFlightConsistent` is inductive together with `TypeOK`. No property is inductive alone: `NeverTorn`
  needs that a rename moves the request's own, complete file (`LandedWhole`), which needs that no two requests hold
  one temporary name (`NamesDiffer`), which needs the clock. That a commit carries a fresh version, which the
  refinement asks for, needs that drafts in flight carry stamps of their own (`StampsDiffer`, from `~Coarse`: two
  writes of one millisecond do share a version); `PersistedIsValid` needs that drafts past the check are valid
  (`DraftsValid`); `MalformedKept` that nobody got past a malformed read (`MalformedStops`). `DraftsEdit` (a draft is
  an edit of a published store) and `Expected` (the version named is that of the store read) carry the action
  properties and the refinement. `SelectionStoreProofs` first sorts the steps into those that only prepare one
  request's draft and those of `atomicWrite`, so each part of the invariant is proved over two cases.
- `FileNeverTorn`, `FailureIsUntouched`, `SuccessIsPersisted`, `PersistedStoresValid`, `MalformedIsKept`: safety.
- `EditsOnlyWhatItRead` and `EditsOnlyWhatItsClientSaw`: the action properties. The second says that whatever a request
  naming a version puts in the file is an edit of a document served under that version, however requests, migrations
  and crashes interleave. That nothing was committed in between is not so (`recompute_race`).
- `Implementation`: `Spec => ImplementsEventStore`. Every step either publishes one document, a `Commit` of
  `EventStore`, or leaves what readers get alone.
- `IndexTypes`, `ManifestWhenReady`, `OneSynchronizationAtATime` (in `DeribitIndexProofs`): the invariants of
  the index, for any numbers of tabs, recomputes, polls and restarts, and with loads begun again (`Again`).
  `IndexInv` adds what they rest on: a synchronization that writes has set its manifest (`WritingHasManifest`),
  which a new service could have forgotten but for `JobsWait` (a recompute does not begin again while what it
  started still runs), and the promise is there exactly while its one synchronization runs
  (`PromiseWhileRunning`, `AtMostOne`), whatever a late read of the cache does to the phase meanwhile.
- `ResearchStaysHome`, `WorkspaceTypeCorrect` (in `WorkspaceProofs`): `NoForeignResearch` for any datasets, ids,
  fetches in flight and behaviour of user and server. That no research is under a wrong dataset *on disk* follows from
  what tabs and fetches hold: `Known` says that a store anybody holds is wholly its dataset's, no newer than the clock,
  and carries the stamp of no other dataset's store unless it is empty; so a save that names the version on disk was made
  from that dataset (`Fits`), and the version check, which compares stamps only, is enough. `Own` says the same of
  events, on the page, in the files and in flight. The assumption that two stores never start with one stamp is
  where the argument would break.
- `CarefulStoresAgree`, `CarefulViewCurrent` (in `WorkspaceProofs`): `StoresAgree` and `ViewCurrent` under `Careful`,
  for any datasets, ids, renames and refusals. `Careful` says that the user waits for answers and discards no edit,
  that no call is lost and that no delete is refused; the `workspace_hasty` run shows what still holds for the others.
  The invariant `Orderly` says of the one call that can be in flight what the page and the disk are to it (the
  `Awaits` operators): a rename can be taken back until it is answered, the version a delete names is that on disk,
  what an answer to a write brings is what is on disk. `Tidy` adds that the files of the other datasets agree with their
  stores, that events not edited equal the file, and that ids are unique (`ImportAssumption`), so the event a save
  keeps research for is the one that has the id.
- `LoadsFailForAReason` (in `DeribitIndexProofs`): `FailsForAReason`. `Promised` says that a request which has begun,
  with nothing failed since, was told of a manifest or of a synchronization, and that its service still has the one or
  runs the other; `PhasesTrue` that a service says it synchronizes exactly while it does or has a manifest to offer.
- `RetrievalTypeCorrect`, `EveryLegAccounted`, `CachedAsOfOneMoment` (in `DeribitRetrievalProofs`): for any
  instruments, workers, page size and attempts. `Observed` says that what a worker knows of its window the tape held
  at some moment since it took the job, so complete pages between its bounds are the range as of that moment;
  `Accounted` that each job taken is with exactly one worker, retrieved, or failed, which needs that no instrument is
  listed twice.
- `SavedOnlyItsOwn`, `SavesDropOnlyTheUnticked` (in `ContractLoadProofs`): for any events, structures and numbers of
  acts and saves. `UntickedIsRemembered` says that whatever the draft lacks of what is saved the user has unticked,
  until a refused save puts a draft back.
- `ComposedIsTab`, `ContractTypesCorrect` (in `ContractLoadProofs`): the retrieval and the tab side by side, as the run
  checks them, are for the tab nothing but its own specification, since each step of the composition is a step
  of one and leaves the other alone; so the two theorems above hold of the composition too, and `ContractTypes` is the
  conjunction of both halves' types. `LegsAccounted` brings `AnswersAccountForEveryLeg` along.
- `CachedEvidenceStays` (in `EvidenceCacheProofs`): `EvidenceOutlivesRuns` for any targets, months, evidence, batches and
  numbers of runs and crashes. `Prepared` says that what a run is about to write of a month holds both what it was given
  and what is kept of that month; `Progress` that of the months it is through with, everything it was given is there;
  `Fresh` that nothing kept for a run under way is of a target it was given, so its merge never has two answers.

The research algorithms are functions, so their theorems are about every input rather than every behaviour. They assume
`NoneAssumption` (no value is no number and no string), `NoneIsNoAnswer` (nor one of the kinds and grounds of
`ExitPolicies`), `MarginAssumption` (the two dates of the margin rules are times), and what each states of its input:
integer prices and times, finite sets of prints, contracts, outcomes and structures, one bar to a moment.

- `SelectionOwesNothingToLaterPrints` (in `EntryProofs`): outside research estimates, `BuildExpiryCandidates` answers with
  the tapes cut at the entry as it does with the whole ones. Cutting twice is cutting once, and the liquidity windows
  end at the entry; the ranking then sees equal rows. `ViableMeansEvidence` says what a viable row can rely on.
- `SpreadsKeepTheirDistance`, `ResearchKeepsProduction`, `DirectionsMirror` (in `EntryProofs`): the spreads wanted for an
  event stay on the safe side of its extreme; the research on short strikes only adds buffered ones to production's;
  and reflecting event and strikes about a whole thousand turns the spreads of one direction into those of the other:
  rounding up and rounding down are each other's mirror image, also on a thousand, where both stand still.
- `RetrievedLegsKeepTheirOrder`, `LaterListingsChangeNothing` (in `EntryProofs`): nearest strikes cannot change places,
  since of two targets in order the nearer strikes are in that order; the earliest expiry in reach is taken whatever
  is listed after it.
- `FillIsOfItsWindow`, `FillOwesNothingToLaterPrints` (in `EntryProofs`): a tape is a finite set of prints with whole
  times, identities, amounts and prices, put in the order of time and identity and consumed print by print. Both are folds
  of a community module, so the proof first shows, by induction on subsets of the tape, that the fold takes the last print
  last (`TapeOrderGrows`) and eats one print more (`ConsumeGrows`). Prints may share a time, but no two share time and
  identity. Then whatever was eaten when the amount was covered is a beginning of the order, and prints after it only
  lengthen the rest.
- `HistoricalSpreadFillsTogether`, `HistoricalSpreadOwesNothingToLaterPrints`, `TakerSpreadFillsAfterItsOrder`,
  `TakerSpreadOwesNothingToLaterPrints`, `TakerExitFollowsItsTrigger` (in `EntryProofs`): a spread completes with the
  later of two such fills, so both facts carry over to it; the historical execution counts a print at the moment of
  its order, the simulated ones only later prints.
- `DelayedEntryPrecedesResolution`, `DelayedTrackOwesNothingToLaterPrints` (in `EntryProofs`): a ladder of at least
  one window is tried in order. A run of prints that covers the amount by t starts and ends where it did on the
  shorter tape (`CoveringRuns`), the earliest synchronized pair is among those, and a window that had not completed on
  the prints by t cannot have completed on fewer, so the first completed window is the same one. These are what
  `ExecutionsAreCausal` checks of examples, for opportunities, spreads and delayed tracks alike.
- `StructuralLossIsTheWorst`, `SettlementRulesPayAlike`, `AdversePathOnlyDeepens` (in `OutcomeProofs`): the payoff of a
  credit vertical is monotone between its plateaus, so the worst of four samples is the worst of all settlements, and is
  reported at the long strike; a delivery is charged once under either rule.
- `FirstDecisionEndsThePosition`, `PricesDoNotChooseTheExit`, `MoreOutcomesEndNoLater` (in `OutcomeProofs`): outcomes are
  ordered by decision and then by the policy's priority, a total order on those of one structure, so the first is
  determined by kinds and moments alone, whatever they earn, and watching more of them never ends a position later.
- `BreachIsATouch`, `FurtherStrikeIsChallengedLater`, `PlacementsArePartitioned` (in `OutcomeProofs`): the touches of a
  further strike are among those of a nearer one, and breaches among touches; each group of placements gives one pair
  and lists what is left of it once.
- `FillIsTheFirstInTime`, `LaterBarsLeaveTheBaseline` (in `OutcomeProofs`): the first bar from the decision on is the
  first on any tape that agrees until then, so a closed baseline is not revised by later bars. The candle interval
  must be recorded: where it is inferred, it is the smallest gap of the whole tape, and a later bar can make it
  smaller. The funding of the baseline is left out of the theorem, since it is a fold.

Only model-checked:

- what expects a violation, and liveness (`LoadEnds`, `EveryResolveEnds`), which rests on fairness;
- the properties of the research runs. They speak of the answers of folds, sorts and recursive definitions on small
  sets of inputs, and what those compute for every input needs induction over data, which is out of the prover's
  reach in general. The tape's order and its consumption are the exception (above): their folds are defined set by set,
  and an induction over subsets, itself proved here from the library's well-founded order of finite subsets, is enough.
  Otherwise the theorems of `EntryProofs` and `OutcomeProofs` are about the parts of these algorithms that choose, bound
  or compare; `EvidenceOutlivesRuns` is proved;
- pagination, halving and the backfill of states, whose definitions are recursive operators.

## 5. Findings

Violated by a run:

1. `recompute_race`: the version is compared before the engine runs (line 24) and never again, though
   `tests/research-recompute-driver.unit.test.ts:236` says "a concurrent edit is refused rather than
   overwritten".
2. `refused_rename`: `renameResearchSelectionEvent` leaves `researchStructures` with the old id, so the server
   refuses the store. (`PersistedIsValid` shows that at least nothing invalid gets to the disk.)
3. `ladder_lookahead`: `materialize-volatility-states.ts:57` hands on the strikes of every contract of the expiry,
   whenever it was listed, though `docs/VOLATILITY_RESEARCH_FOUNDATION_2026-08-25.md:211` asks for a "contract listed
   at T".
4. `entry_delay`: `research-bundle.ts:446` reads `attempt.window.startMs`, which `compactDelayedAttempt` has flattened;
   the table of entry delays says "unavailable" of every attempt.
5. `immediate_marks`: the export names the rows of strict executions `strict_*` (`research-bundle.ts:288,291`), the
   analytics compare with `immediate_*` (`research-analytics-model.ts:808`), so every exported mark is dropped and an
   immediate track has no path and no native P&L, though `tests/analytics-integration-audit.unit.test.ts:520` asserts
   "the valuation row survives projection".
6. `ambiguous_bucket`: `duration-dte/normalize.ts:447` compares a touch's minute with a breaking candle's close.

Met while modelling; the models do what the code does. Where a property would have to call one of these right or wrong,
it says nothing of the case, and its comment says so:

- *The stores.* `run-research-recompute.ts:83-91` compares structures with what it read, not with what is there when
  it saves without a version (111), so an edit made through the server while the script works is overwritten, against
  its comment that "nothing reaches disk unless the structural set is provably unchanged" (107-109). `EventStore`
  permits that commit: it is of a document somebody could read. Two writes of one millisecond share a version, and a
  client of the first passes the check against the second; no document of the repository says otherwise, so `~Coarse`
  is an assumption here and no property claims it. A rename whose answer is lost is rolled back by the page although
  it was persisted. Three writers of one millisecond share a temporary name (`docs/RESEARCH_SNAPSHOT_REFRESH.md:20`
  promises otherwise). An impatient user can separate the stores (a second rename before the first answer works on the
  closure's store), the answer to a dataset save discards edits made meanwhile, and an unforced load fails of an old
  synchronization error although a manifest is there. A run that outlives its contracts puts its results under what is
  selected by then, and a refused save puts an older draft back. Settings that clear nothing
  (`options-backtester.tsx:973-988`), and a run that lands after a change and a change back, leave results on the page
  that were valued under other settings than the key says; `planCandidatePersistence`
  (`research-selections.ts:253-256,275`) compares keys only and saves them as fresh, where
  `tests/research-selections.unit.test.ts:64` asks that a "stale generation key blocks additions".
- *Volatility.* What a holdout fits to includes a forward and log-moneyness to which withheld prints contributed
  (`cross-section.ts:210` against `holdout.ts:8-9,69`); `fetch-prior-anchors.ts:51-61` admits prints of exactly 60
  minutes, against its comment at 49-50 and `surface-models.ts:138-139`. `resolveUnderlyingIndex` takes the close of a
  candle that is still open. An event's percentiles depend on which other events' backfills have filled the shared cache.
- *Valuation.* The smile of a research valuation leaves out the leg's own prints but its forward is that of all prints
  (`research-valuation.ts:164,255` against `surface-models.ts:175`). `scaleResearchPath` (286) scales the raw estimate
  where there is one and keeps the model's closing value beside the estimate's fees. The trigger of a capture outcome
  uses closings that complete after the point. `retrieveSpread` (`backtester.ts:830-865`) can resolve both legs to one
  contract and call it ready.
- *The bundle.* A scenario forced unavailable by reconciliation is still described as available with
  snapshots, and validation (607) then blocks the whole export; so does an evaluated strict scenario with an empty path
  (749-753), a delayed row earlier than the strict fill (520-521, against the comment at 515-518), and "terminal delayed
  path" as an outcome. The rule at 594-595 can never fire. A forced-unavailable candidate row (273) keeps the dollar
  fields of the entry that was rejected, against the comment at 122-125. A research-only structure's modeled track is
  described as available without its snapshot (242). A point's leg volatility is unavailable wherever a raw
  estimate exists (325-329). Compaction of a delayed attempt is not idempotent.
- *From bundle to analytics.* Beside the marks above, outcomes (`research-analytics-model.ts:810-812`) are not
  filtered by track, though "Tracks are never pooled" (1022). No bundle that is exported shows it: the only outcome of
  a delayed row is "terminal delayed path", which the export's contract (`research-outcomes.ts:34`) does not know and
  refuses, so the outcomes there are those of the strict scenario, as `ReportsAreTheirTracks` checks. Delayed points
  name their P&L `estimatedPnlBtc` (`delayed-execution.ts:23`), which `projectAnalyticsTrack` (448) does not read.
  Availability rows lack the columns that tell a failed retrieval from a missing contract (394); margin rows lack the
  columns read at 503-509 and 753-757.
- *Reports.* `captureObservation` (`normalize.ts:309-310`) compares days from the structure's entry with days from the
  event's. An invalidation before the structure's entry has no bucket of its own. The reference P&L is read from an
  outcome whatever its status, and without a reference snapshot the facts of a structure differ between its rows.

## 6. Plan

Done: the stores with their contract, the workspace, index, retrieval and contract loads with their proofs, and
the research code from the tape to the exit policies and the placement of the short strike. What is left, in this order:

1. Imports of files in `Workspace`, and a second writer of the dataset files, with the file operations of
   `trade-dataset-service.ts` (those of `SelectionStore` without versions).
2. The spread-width and futures-comparison reports, after the example of `StrikePlacement`.
3. The execution calibration, and the volatility and evidence tables of the bundle with their validation.
4. The repricing of a structure under the SVI and SSVI fits, with the fit as an external choice among admissible
   parameters.

## 7. Not modelled

- Floating-point functions: Black's formula and its inversion, greeks, the SVI and SSVI fits, the calibrated
  execution estimators. Their results are choices or integers that keep order and dependence (section 2).
- Spread-width and futures reports: groupings and medians over tables that are modelled.
- Views, charts, formatting; the deployed worker, the analysis worker's message shim and the configuration of the host.
- Files that nothing depends on: audits, dry runs, the ZIP of a bundle, the local archive of contracts.
- The migration of legacy schemas, on read and on export, and the comparison filters of the analytics.

`PROJECT.json` says for each component what is modelled of it and what is not.
