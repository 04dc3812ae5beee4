---------------------------- MODULE ContractLoad ----------------------------
(***************************************************************************)
(* One tab of the backtester from contracts to saved research              *)
(* (app/options-backtester.tsx, app/lib/research-selections.ts,            *)
(* app/lib/research-state.ts): contracts are loaded for the selected event *)
(* and the current settings, a run values the candidates built from them,  *)
(* the user ticks candidates and saves them.  Loads, runs and saves are    *)
(* answered while the user goes on switching events and editing settings.  *)
(* What the answers of a load hold is DeribitRetrieval's subject; here a   *)
(* load is usable (complete and not empty) or not, or fails.               *)
(***************************************************************************)
EXTENDS Naturals, FiniteSets, TLC

CONSTANTS Event,      \* the events of the dataset
          Candidate,  \* the structures the settings ask for
          None,
          MaxActs,    \* bound: what the user does
          MaxSaves    \* bound: saves

ASSUME LoadAssumption ==
    /\ None \notin Event /\ None \notin Candidate
    /\ MaxActs \in Nat /\ MaxSaves \in Nat

\* A contract generation key: the event and the settings (two are enough to be
\* stale).  A candidate's id is derived from the event selected when it is built;
\* that other widths, expiry or payoff settings make other candidates is left out.
Key == Event \X {0, 1}
Ids(e) == {e} \X Candidate
Id == Event \X Candidate

VARIABLES event,      \* selectedEvent
          settings,   \* all else the key is made of: entry time, horizons and
                      \* tolerances, widths, amount, pricing and execution modes
          inventory,  \* are contracts on the page?
          load,       \* contractLoad
          loading,    \* the load in flight and its stage
          results,    \* analysisResults
          generation, \* completedGeneration
          run,        \* the backtest in flight
          draft, explicit,  \* draftSelection, explicitDeselections
          store,      \* the saved research: structures and the snapshot's ids
          version,    \* updatedAtUtc
          puts,       \* saves in flight
          acts,       \* how much the user has done
          unticked,   \* history: ids unticked since they were last ticked
          putBack     \* history: a refused save put an older draft back

tab == <<event, settings, inventory, load, loading, results, generation, run>>
research == <<draft, explicit, store, version, puts>>
lvars == <<tab, research, acts, unticked, putBack>>

CurrentKey == <<event, settings>>
NoLoad == [usable |-> FALSE, key |-> None, material |-> FALSE]
Idle == [at |-> "no", key |-> None]
NoEntry(e) == [event |-> e, ids |-> {}]

LoadTypes ==
    /\ event \in Event /\ settings \in {0, 1}
    /\ inventory \in BOOLEAN
    /\ load \in [usable : BOOLEAN, key : Key \union {None}, material : BOOLEAN]
    /\ loading \in [at : {"production", "controlled"}, key : Key] \union {Idle}
    /\ results \in [event : Event, valid : SUBSET Candidate] \union {None}
    /\ generation \in [event : Event, ids : SUBSET Id] \union {None}
    /\ run \in Event \union {None}
    /\ draft.event \in Event /\ draft.ids \subseteq Id
    /\ explicit.event \in Event /\ explicit.ids \subseteq Id
    /\ \A e \in Event : /\ store[e].kept \subseteq Id
                        /\ store[e].snapshot \in (SUBSET Id) \union {{None}}
    /\ version \in 0..MaxSaves /\ acts \in 0..MaxActs

\* An event has no record yet, or one saved by an earlier session.
NoRecord == [kept |-> {}, snapshot |-> {None}]
Earlier(e) == {NoRecord} \union {[kept |-> s, snapshot |-> Ids(e)] : s \in SUBSET Ids(e)}

LoadInit ==
    /\ event \in Event /\ settings = 0
    /\ inventory = FALSE /\ load = NoLoad /\ loading = Idle
    /\ results = None /\ generation = None /\ run = None
    /\ store \in [Event -> UNION {Earlier(e) : e \in Event}]
    /\ \A e \in Event : store[e] \in Earlier(e)
    /\ draft = [event |-> event, ids |-> store[event].kept]
    /\ explicit = NoEntry(event)
    /\ version = 0 /\ puts = {} /\ acts = 0
    /\ unticked = {} /\ putBack = FALSE

\* The user does something.
Act == acts < MaxActs /\ acts' = acts + 1

-----------------------------------------------------------------------------
\* loadRequiredContracts, until its first answer; the button is disabled while
\* one runs.  The last completed generation stays.
Load ==
    /\ Act /\ loading = Idle
    /\ loading' = [at |-> "production", key |-> CurrentKey]
    /\ inventory' = FALSE /\ load' = NoLoad /\ results' = None
    /\ UNCHANGED <<event, settings, generation, run, research, unticked, putBack>>

\* The production answer is installed whatever event is selected by now, under
\* the key of the event it was asked for; then the controlled set is asked for.
LoadAnswers(usable) ==
    /\ loading.at = "production"
    /\ inventory' = TRUE
    /\ load' = [usable |-> usable, key |-> loading.key, material |-> FALSE]
    /\ loading' = [loading EXCEPT !.at = "controlled"]
    /\ UNCHANGED <<event, settings, results, generation, run, research, acts, unticked,
                   putBack>>

LoadFails ==
    /\ loading.at = "production"
    /\ load' = [load EXCEPT !.usable = FALSE]
    /\ loading' = Idle
    /\ UNCHANGED <<event, settings, inventory, results, generation, run, research, acts,
                   unticked, putBack>>

\* The controlled answer, or its failure, leaves the production set alone.
LoadEnds ==
    /\ loading.at = "controlled"
    /\ loading' = Idle
    /\ UNCHANGED <<event, settings, inventory, load, results, generation, run, research, acts,
                   unticked, putBack>>

\* Mutant of Switch: the new event's draft starts empty.
SwitchEmptiesDraft(e) ==
    /\ Act /\ e # event
    /\ event' = e
    /\ draft' = NoEntry(e) /\ explicit' = NoEntry(e)
    /\ inventory' = FALSE /\ load' = NoLoad /\ results' = None /\ generation' = None
    /\ UNCHANGED <<settings, loading, run, store, version, puts, unticked, putBack>>

\* switchEvent and clearEventAnalysis: the draft becomes what is saved.
Switch(e) ==
    /\ Act /\ e # event
    /\ event' = e
    /\ draft' = [event |-> e, ids |-> store[e].kept]
    /\ explicit' = NoEntry(e)
    /\ inventory' = FALSE /\ load' = NoLoad /\ results' = None /\ generation' = None
    /\ UNCHANGED <<settings, loading, run, store, version, puts, unticked, putBack>>

\* patchEvent, changeHorizons and updateTolerance: the contracts and results
\* go, what is known of the load and the completed generation stay.  Not every
\* field of an event is in the key.
Edit(s) ==
    /\ Act
    /\ settings' = s
    /\ inventory' = FALSE /\ results' = None
    /\ UNCHANGED <<event, load, loading, generation, run, research, unticked, putBack>>

\* Widths, expiry mode, payoff engine, pricing assumption, packaging, amount,
\* pricing output and execution scenario are set and nothing goes: contracts and
\* results of the settings before stay on the page.
Configure ==
    /\ Act
    /\ settings' = 1 - settings
    /\ UNCHANGED <<event, inventory, load, loading, results, generation, run, research,
                   unticked, putBack>>

\* runBacktest: the candidates are those of the contracts on the page, with ids
\* of the event selected now.  Without contracts the denominator is empty.
Run ==
    /\ Act /\ run = None
    /\ IF inventory
       THEN /\ run' = event
            /\ UNCHANGED <<results, generation>>
       ELSE /\ results' = None /\ generation' = NoEntry(event)
            /\ UNCHANGED run
    /\ UNCHANGED <<event, settings, inventory, load, loading, research, unticked, putBack>>

\* The candles and the baseline came: the results are installed whatever is
\* selected and loaded by now.
RunLands(valid) ==
    /\ run # None
    /\ results' = [event |-> run, valid |-> valid]
    /\ generation' = [event |-> run, ids |-> Ids(run)]
    /\ load' = [load EXCEPT !.material = valid # {}]
    /\ run' = None
    /\ UNCHANGED <<event, settings, inventory, loading, research, acts, unticked, putBack>>

RunFails ==
    /\ run # None
    /\ run' = None
    /\ UNCHANGED <<event, settings, inventory, load, loading, results, generation, research,
                   acts, unticked, putBack>>

-----------------------------------------------------------------------------
Saved == store[event].kept
Draft == IF draft.event = event THEN draft.ids ELSE Saved
Explicit == IF explicit.event = event THEN explicit.ids ELSE {}
Shown == IF results = None THEN {} ELSE Ids(results.event)
Valid == IF results = None THEN {} ELSE {results.event} \X results.valid

\* toggleResearchSelection of a result, or of a saved structure it lacks.
Toggle(i) ==
    /\ Act
    /\ i \in Shown \union Saved
    /\ LET ticked == i \notin Draft
       IN  /\ draft' = [event |-> event,
                        ids |-> IF ticked THEN Draft \union {i} ELSE Draft \ {i}]
           /\ explicit' = [event |-> event,
                           ids |-> IF ~ticked /\ i \in Saved THEN Explicit \union {i}
                                                             ELSE Explicit \ {i}]
           /\ unticked' = IF ticked THEN unticked \ {i} ELSE unticked \union {i}
    /\ UNCHANGED <<tab, store, version, puts, putBack>>

\* planCandidatePersistence: absence from the draft is evidence only after a
\* complete, usable load of the current key that a run has materialized; what
\* is added must be valid now.
KeyCurrent == load.key = CurrentKey
Authoritative == load.usable /\ load.material /\ KeyCurrent
Refresh == IF KeyCurrent THEN Draft \intersect Saved \intersect Valid ELSE {}
BlockedAdd == {i \in Draft \ Saved : ~(KeyCurrent /\ i \in Valid)}
KeepUnchanged ==
    ((Draft \intersect Saved) \ Refresh) \union
    (IF Authoritative THEN {} ELSE (Saved \ Draft) \ Explicit)

\* The record a save sends: the structures retained, refreshed and added; the
\* completed generation if it is this event's.
OwnGeneration == generation # None /\ generation.event = event
NewRecord ==
    [kept |-> KeepUnchanged \union Refresh \union (Draft \ Saved),
     snapshot |-> IF OwnGeneration
                  THEN generation.ids \union (KeepUnchanged \intersect store[event].snapshot)
                  ELSE store[event].snapshot]

\* Something was ticked or unticked, can be refreshed, or a generation of this
\* event is there (the code asks for one not saved yet).
Save ==
    /\ Act /\ version + Cardinality(puts) < MaxSaves
    /\ BlockedAdd = {}
    /\ NewRecord.snapshot # {None}
    /\ Draft # Saved \/ Refresh # {} \/ OwnGeneration
    /\ puts' = puts \union {[event |-> event, base |-> version, record |-> NewRecord,
                             draft |-> Draft]}
    /\ UNCHANGED <<tab, draft, explicit, store, version, unticked, putBack>>

\* Mutant of Admissible: the ids are not checked.
AdmissibleUnchecked(p) == p.record.snapshot # {None}

\* The server's validation: a saved structure is a row of the snapshot, and a
\* row's id is one of its event.
Admissible(p) ==
    /\ p.record.kept \subseteq p.record.snapshot
    /\ p.record.snapshot \subseteq Ids(p.event)

\* A save that finds the version it was based on is stored, and its answer
\* replaces the draft by what was stored.
SaveAnswers(p) ==
    /\ p \in puts /\ p.base = version /\ Admissible(p)
    /\ store' = [store EXCEPT ![p.event] = p.record]
    /\ version' = version + 1
    /\ puts' = puts \ {p}
    /\ draft' = [event |-> p.event, ids |-> p.record.kept]
    /\ explicit' = NoEntry(p.event)
    /\ UNCHANGED <<tab, acts, unticked, putBack>>

\* Any other save is refused, or the server fails: the draft it was made from
\* is put back.
SaveRefused(p) ==
    /\ p \in puts
    /\ puts' = puts \ {p}
    /\ draft' = [event |-> p.event, ids |-> p.draft]
    /\ putBack' = (putBack \/ draft # draft')
    /\ UNCHANGED <<tab, explicit, store, version, acts, unticked>>

LoadNext ==
    \/ Load \/ LoadFails \/ LoadEnds \/ Configure \/ Run \/ RunFails \/ Save
    \/ \E usable \in BOOLEAN : LoadAnswers(usable)
    \/ \E e \in Event : Switch(e)
    \/ \E s \in {0, 1} : Edit(s)
    \/ \E valid \in SUBSET Candidate : RunLands(valid)
    \/ \E i \in Id : Toggle(i)
    \/ \E p \in puts : SaveAnswers(p) \/ SaveRefused(p)

LoadSpec == LoadInit /\ [][LoadNext]_lvars

-----------------------------------------------------------------------------
\* A save drops a structure only if the user has unticked it and not ticked it
\* again: no reload, switch, failed load or partial run makes a save drop it,
\* unless a refused save had put an older draft back on a page with a complete
\* load of the current contracts.
RemovedOnlyByTheUser ==
    [][\A p \in puts' \ puts :
         \/ Saved \ p.record.kept \subseteq unticked
         \/ putBack /\ load.usable /\ load.key = CurrentKey]_lvars

\* What is saved under an event is that event's own, and is a row of the
\* denominator saved with it, also when a run that was started for another
\* event lands on the page of this one.
SavedUnderItsEvent ==
    \A e \in Event : store[e].snapshot # {None} =>
      store[e].kept \subseteq Ids(e) \intersect store[e].snapshot
=============================================================================
