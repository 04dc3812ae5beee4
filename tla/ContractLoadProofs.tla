------------------------- MODULE ContractLoadProofs -------------------------
(* Theorems about ContractLoad, for any sets of events and candidates and any *)
(* number of acts and saves, and about its composition with DeribitRetrieval. *)
EXTENDS MCContracts, DeribitRetrievalProofs

-----------------------------------------------------------------------------
(* The inductive invariants. *)

(* What is saved, and who is saving it, are of the dataset's events.          *)
EventsKnown ==
    /\ event \in Event
    /\ DOMAIN store = Event
    /\ \A p \in puts : p.event \in Event

StoreInv == EventsKnown /\ SavedUnderItsEvent

(* What the user has explicitly deselected is unticked, and so is whatever    *)
(* the draft lacks of what is saved, until a refused save puts a draft back.  *)
UntickedIsRemembered ==
    /\ explicit.ids \subseteq unticked
    /\ ~putBack => store[draft.event].kept \ draft.ids \subseteq unticked

DraftInv == EventsKnown /\ UntickedIsRemembered

(* A save in flight is counted against the bound on saves, and what it would  *)
(* store is typed like what is stored.                                        *)
RecordTyped(kept, snapshot) ==
    /\ kept \subseteq Id
    /\ snapshot \in (SUBSET Id) \union {{None}}

TypesInv ==
    /\ EventsKnown /\ LoadTypes
    /\ IsFiniteSet(puts) /\ version + Cardinality(puts) <= MaxSaves
    /\ \A p \in puts : p.draft \subseteq Id /\ RecordTyped(p.record.kept, p.record.snapshot)

-----------------------------------------------------------------------------
(* Steps. *)

(* Every save in flight is of a known event.                                  *)
LEMMA EventsStayKnown == EventsKnown /\ [LoadNext]_lvars => EventsKnown'
<1> SUFFICES ASSUME EventsKnown, [LoadNext]_lvars PROVE EventsKnown'
  OBVIOUS
<1> USE DEF EventsKnown
<1>1. CASE UNCHANGED lvars
  BY <1>1 DEF lvars, tab, research
<1>2. CASE Load \/ LoadFails \/ LoadEnds \/ Configure \/ Run \/ RunFails
  BY <1>2 DEF Load, LoadFails, LoadEnds, Configure, Run, RunFails, research
<1>3. CASE Save
  BY <1>3 DEF Save, tab
<1>4. CASE \E usable \in BOOLEAN : LoadAnswers(usable)
  BY <1>4 DEF LoadAnswers, research
<1>5. CASE \E e \in Event : Switch(e)
  BY <1>5 DEF Switch
<1>6. CASE \E valid \in SUBSET Candidate : RunLands(valid)
  BY <1>6 DEF RunLands, research
<1>7. CASE \E i \in Id : Toggle(i)
  BY <1>7 DEF Toggle, tab
<1>8. CASE \E p \in puts : SaveAnswers(p) \/ SaveRefused(p)
  BY <1>8 DEF SaveAnswers, SaveRefused, tab
<1>9. CASE \E s \in {0, 1} : Edit(s)
  BY <1>9 DEF Edit, research
<1> QED
  BY <1>1, <1>2, <1>3, <1>4, <1>5, <1>6, <1>7, <1>8, <1>9 DEF LoadNext

(* No save is in flight at first.                                           *)
LEMMA EventsKnownAtFirst == LoadInit => EventsKnown
BY DEF LoadInit, EventsKnown

(* Only an answered save changes the store, and it was admitted.              *)
LEMMA StoreStep == StoreInv /\ [LoadNext]_lvars => StoreInv'
<1> SUFFICES ASSUME StoreInv, [LoadNext]_lvars PROVE StoreInv'
  OBVIOUS
<1>1. EventsKnown'
  BY EventsStayKnown DEF StoreInv
<1>2. CASE UNCHANGED store
  BY <1>1, <1>2 DEF StoreInv, SavedUnderItsEvent
<1>3. CASE \E p \in puts : SaveAnswers(p)
  <2>1. PICK p \in puts : SaveAnswers(p)
    BY <1>3
  <2>2. /\ store' = [store EXCEPT ![p.event] = p.record]
        /\ p.record.kept \subseteq Ids(p.event) \intersect p.record.snapshot
    BY <2>1 DEF SaveAnswers, Admissible
  <2>3. \A e \in Event : store'[e] = IF e = p.event THEN p.record ELSE store[e]
    BY <2>2 DEF StoreInv, EventsKnown
  <2> QED
    BY <1>1, <2>2, <2>3 DEF StoreInv, SavedUnderItsEvent
<1>4. UNCHANGED store \/ \E p \in puts : SaveAnswers(p)
  BY DEF LoadNext, lvars, tab, research, Load, LoadFails, LoadEnds, Edit, Configure, Run, RunFails, Save,
         LoadAnswers, Switch, RunLands, Toggle, SaveRefused
<1> QED
  BY <1>2, <1>3, <1>4

(* A save answered makes the draft what is saved; one refused puts a draft    *)
(* back; ticking and unticking are remembered.                                *)
LEMMA DraftStep == DraftInv /\ [LoadNext]_lvars => DraftInv'
<1> SUFFICES ASSUME DraftInv, [LoadNext]_lvars PROVE DraftInv'
  OBVIOUS
<1>0. EventsKnown'
  BY EventsStayKnown DEF DraftInv
<1> SUFFICES UntickedIsRemembered'
  BY <1>0 DEF DraftInv
<1> USE DEF DraftInv, UntickedIsRemembered
<1>1. CASE UNCHANGED <<draft, explicit, store, unticked, putBack>>
  BY <1>1
<1>2. CASE \E e \in Event : Switch(e)
  BY <1>2 DEF Switch, NoEntry
<1>3. CASE \E i \in Id : Toggle(i)
  <2>1. PICK i \in Id : Toggle(i)
    BY <1>3
  <2>2. explicit'.ids \subseteq unticked'
    BY <2>1 DEF Toggle, Explicit
  <2>3. ~putBack' => store[draft'.event].kept \ draft'.ids \subseteq unticked'
    BY <2>1 DEF Toggle, Draft, Saved
  <2> QED
    BY <2>1, <2>2, <2>3 DEF Toggle
<1>4. CASE \E p \in puts : SaveAnswers(p)
  <2>1. PICK p \in puts : SaveAnswers(p)
    BY <1>4
  <2>2. p.event \in Event /\ store'[p.event] = p.record
    BY <2>1 DEF SaveAnswers, EventsKnown
  <2> QED
    BY <2>1, <2>2 DEF SaveAnswers, NoEntry
<1>5. CASE \E p \in puts : SaveRefused(p)
  BY <1>5 DEF SaveRefused
<1>6. \/ UNCHANGED <<draft, explicit, store, unticked, putBack>>
      \/ \E e \in Event : Switch(e)
      \/ \E i \in Id : Toggle(i)
      \/ \E p \in puts : SaveAnswers(p) \/ SaveRefused(p)
  BY DEF LoadNext, lvars, tab, research, Load, LoadFails, LoadEnds, Edit, Configure, Run, RunFails, Save,
         LoadAnswers, RunLands
<1> QED
  BY <1>1, <1>2, <1>3, <1>4, <1>5, <1>6

(* A save is made by Save alone. *)
LEMMA OnlySavePuts ==
    ASSUME [LoadNext]_lvars, NEW p \in puts' \ puts
    PROVE  /\ Save
           /\ p.record = NewRecord
BY DEF LoadNext, lvars, tab, research, Load, LoadFails, LoadEnds, Edit, Configure, Run, RunFails, Save,
       LoadAnswers, Switch, RunLands, Toggle, SaveAnswers, SaveRefused

-----------------------------------------------------------------------------
(* The properties. *)

(* What is saved under an event is its own and in its denominator.            *)
THEOREM SavedOnlyItsOwn == LoadSpec => []SavedUnderItsEvent
<1>1. LoadInit => StoreInv
  <2> SUFFICES ASSUME LoadInit, NEW e \in Event, store[e].snapshot # {None}
               PROVE  store[e].kept \subseteq Ids(e) \intersect store[e].snapshot
    BY EventsKnownAtFirst DEF StoreInv, SavedUnderItsEvent
  <2>1. store[e] \in Earlier(e) /\ store[e] # NoRecord
    BY DEF LoadInit, NoRecord
  <2>2. PICK s \in SUBSET Ids(e) : store[e] = [kept |-> s, snapshot |-> Ids(e)]
    BY <2>1 DEF Earlier
  <2> QED
    BY <2>2
<1>2. StoreInv => SavedUnderItsEvent
  BY DEF StoreInv
<1> QED
  BY <1>1, <1>2, StoreStep, PTL DEF LoadSpec

(* What a save drops the user has unticked.                                   *)
THEOREM SavesDropOnlyTheUnticked == LoadSpec => RemovedOnlyByTheUser
<1> DEFINE Dropped(p) == \/ Saved \ p.record.kept \subseteq unticked
                         \/ putBack /\ load.usable /\ load.key = CurrentKey
<1>1. LoadInit => DraftInv
  BY EventsKnownAtFirst DEF LoadInit, DraftInv, UntickedIsRemembered, NoEntry
<1>2. DraftInv /\ [LoadNext]_lvars => \A p \in puts' \ puts : Dropped(p)
  <2> SUFFICES ASSUME DraftInv, [LoadNext]_lvars, NEW p \in puts' \ puts,
                      NEW i \in Saved \ p.record.kept, i \notin unticked
               PROVE  putBack /\ load.usable /\ load.key = CurrentKey
    OBVIOUS
  <2>1. p.record.kept = KeepUnchanged \union Refresh \union (Draft \ Saved)
    BY OnlySavePuts DEF NewRecord
  <2>2. i \in Saved /\ i \notin Draft
    BY <2>1 DEF KeepUnchanged
  <2>3. Authoritative
    BY <2>1, <2>2 DEF KeepUnchanged, Explicit, DraftInv, UntickedIsRemembered
  <2>4. putBack
    BY <2>2 DEF Draft, Saved, DraftInv, UntickedIsRemembered
  <2> QED
    BY <2>3, <2>4 DEF Authoritative, KeyCurrent
<1>3. DraftInv /\ [LoadNext]_lvars => [\A p \in puts' \ puts : Dropped(p)]_lvars
  BY <1>2
<1> QED
  BY <1>1, <1>3, DraftStep, PTL DEF LoadSpec, RemovedOnlyByTheUser
-----------------------------------------------------------------------------
(* Types of the tab, and the composition.                                     *)

(* What the user sees ticked, saved or shown are ids.                         *)
LEMMA IdTypes ==
    ASSUME TypesInv
    PROVE  /\ Saved \subseteq Id /\ Draft \subseteq Id /\ Explicit \subseteq Id /\ Valid \subseteq Id
           /\ \A e \in Event : Ids(e) \subseteq Id
           /\ CurrentKey \in Key
           /\ \A e \in Event : RecordTyped(store[e].kept, store[e].snapshot)
<1>1. Valid \subseteq Id
  BY DEF TypesInv, LoadTypes, Valid, Id
<1>2. \A e \in Event : Ids(e) \subseteq Id
  BY DEF Ids, Id
<1>3. \A e \in Event : RecordTyped(store[e].kept, store[e].snapshot)
  BY DEF TypesInv, LoadTypes, RecordTyped
<1>4. CurrentKey \in Key
  BY DEF TypesInv, LoadTypes, Key, CurrentKey
<1>5. Saved \subseteq Id
  BY <1>3 DEF TypesInv, EventsKnown, RecordTyped, Saved
<1>6. Draft \subseteq Id /\ Explicit \subseteq Id
  BY <1>5 DEF TypesInv, LoadTypes, Draft, Explicit
<1> QED
  BY <1>1, <1>2, <1>3, <1>4, <1>5, <1>6

(* What a save sends is typed like what is stored.                            *)
LEMMA NewRecordTyped ==
    ASSUME TypesInv
    PROVE  RecordTyped(NewRecord.kept, NewRecord.snapshot)
<1>1. KeepUnchanged \subseteq Id /\ Refresh \subseteq Id /\ Draft \subseteq Id
  BY IdTypes DEF KeepUnchanged, Refresh
<1>2. NewRecord.kept \subseteq Id
  BY <1>1 DEF NewRecord
<1>3. NewRecord.snapshot \in (SUBSET Id) \union {{None}}
  BY <1>1, IdTypes DEF NewRecord, OwnGeneration, RecordTyped, TypesInv, LoadTypes, EventsKnown
<1> QED
  BY <1>2, <1>3 DEF RecordTyped

(* The types hold at first, of a store left by an earlier session too.        *)
LEMMA TypedAtFirst == LoadInit => TypesInv
<1> SUFFICES ASSUME LoadInit PROVE TypesInv
  OBVIOUS
<1>1. ASSUME NEW e \in Event PROVE RecordTyped(store[e].kept, store[e].snapshot)
  <2>1. CASE store[e] = NoRecord
    BY <2>1 DEF NoRecord, RecordTyped
  <2>2. CASE store[e] # NoRecord
    <3>1. PICK s \in SUBSET Ids(e) : store[e] = [kept |-> s, snapshot |-> Ids(e)]
      BY <2>2 DEF LoadInit, Earlier, NoRecord
    <3>2. s \subseteq Id /\ Ids(e) \subseteq Id
      BY DEF Ids, Id
    <3> QED
      BY <3>1, <3>2 DEF RecordTyped
  <2> QED
    BY <2>1, <2>2
<1>2. IsFiniteSet(puts) /\ Cardinality(puts) = 0
  BY FS_EmptySet DEF LoadInit
<1>3. store[event].kept \subseteq Id
  BY <1>1 DEF LoadInit, RecordTyped
<1>4. LoadTypes
  <2>1. /\ event \in Event /\ settings \in {0, 1} /\ inventory \in BOOLEAN
        /\ load \in [usable : BOOLEAN, key : Key \union {None}, material : BOOLEAN]
        /\ loading \in [at : {"production", "controlled"}, key : Key] \union {Idle}
    BY DEF LoadInit, NoLoad
  <2>2. /\ results \in [event : Event, valid : SUBSET Candidate] \union {None}
        /\ generation \in [event : Event, ids : SUBSET Id] \union {None}
        /\ run \in Event \union {None}
    BY DEF LoadInit
  <2>3. /\ draft.event \in Event /\ draft.ids \subseteq Id
        /\ explicit.event \in Event /\ explicit.ids \subseteq Id
    BY <1>3, <2>1 DEF LoadInit, NoEntry
  <2>4. version \in 0..MaxSaves /\ acts \in 0..MaxActs
    BY LoadAssumption DEF LoadInit
  <2> QED
    BY <1>1, <2>1, <2>2, <2>3, <2>4 DEF LoadTypes, RecordTyped
<1>5. EventsKnown
  BY EventsKnownAtFirst
<1> QED
  BY <1>2, <1>4, <1>5, LoadAssumption DEF TypesInv, LoadInit

(* Steps of the tab before a save leave the saves in flight alone.            *)
LEMMA TabStepTyped ==
    ASSUME TypesInv, NEW usable \in BOOLEAN, NEW e \in Event, NEW s \in {0, 1},
           NEW valid \in SUBSET Candidate,
           Load \/ LoadAnswers(usable) \/ LoadFails \/ LoadEnds \/ Switch(e) \/ Edit(s)
             \/ Configure \/ Run \/ RunLands(valid) \/ RunFails
    PROVE  LoadTypes' /\ UNCHANGED <<puts, version>>
<1> USE DEF TypesInv, LoadTypes
<1>0. CurrentKey \in Key /\ acts \in 0..MaxActs /\ MaxActs \in Nat
  BY IdTypes, LoadAssumption
<1>a. Act => acts' \in 0..MaxActs
  BY <1>0 DEF Act
<1>1. CASE Load
  BY <1>0, <1>a, <1>1 DEF Load, NoLoad, research
<1>2. CASE LoadAnswers(usable)
  BY <1>2 DEF LoadAnswers, Idle, research
<1>3. CASE LoadFails
  BY <1>3 DEF LoadFails, research
<1>4. CASE LoadEnds
  BY <1>4 DEF LoadEnds, research
<1>5. CASE Switch(e)
  <2>1. store[e].kept \subseteq Id
    BY IdTypes DEF RecordTyped
  <2> QED
    BY <1>a, <1>5, <2>1 DEF Switch, NoEntry, NoLoad
<1>6. CASE Edit(s)
  BY <1>a, <1>6 DEF Edit, research
<1>b. CASE Configure
  <2>1. settings' \in {0, 1}
    BY <1>b DEF Configure
  <2> QED
    BY <1>a, <1>b, <2>1 DEF Configure, research
<1>7. CASE Run
  BY <1>a, <1>7 DEF Run, NoEntry, research
<1>8. CASE RunLands(valid)
  BY <1>8, IdTypes DEF RunLands, research
<1>9. CASE RunFails
  BY <1>9 DEF RunFails, research
<1> QED
  BY <1>1, <1>2, <1>3, <1>4, <1>5, <1>6, <1>b, <1>7, <1>8, <1>9

(* Ticking, saving and the answers of saves keep them too.                    *)
LEMMA ResearchStepTyped ==
    ASSUME TypesInv, (\E i \in Id : Toggle(i)) \/ Save \/ \E p \in puts : SaveAnswers(p) \/ SaveRefused(p)
    PROVE  TypesInv'
<1>0. acts \in 0..MaxActs /\ MaxActs \in Nat /\ version \in 0..MaxSaves /\ MaxSaves \in Nat
      /\ Cardinality(puts) \in Nat /\ IsFiniteSet(puts)
  BY LoadAssumption, FS_CardinalityType DEF TypesInv, LoadTypes
<1>a. Act => acts' \in 0..MaxActs
  BY <1>0 DEF Act
<1>e. EventsKnown'
  <2>1. LoadNext
    BY DEF LoadNext
  <2> QED
    BY <2>1, EventsStayKnown DEF TypesInv
<1>1. ASSUME NEW i \in Id, Toggle(i) PROVE TypesInv'
  <2>1. draft'.event \in Event /\ draft'.ids \subseteq Id /\ explicit'.event \in Event /\ explicit'.ids \subseteq Id
    BY <1>1, IdTypes DEF Toggle, TypesInv, LoadTypes
  <2> QED
    BY <1>1, <1>a, <1>e, <2>1 DEF Toggle, TypesInv, LoadTypes, tab
<1>2. CASE Save
  <2> DEFINE put == [event |-> event, base |-> version, record |-> NewRecord,
                     draft |-> Draft]
  <2>1. puts' = puts \union {put} /\ version + Cardinality(puts) < MaxSaves /\ version' = version
    BY <1>2 DEF Save
  <2>2. /\ IsFiniteSet(puts')
        /\ Cardinality(puts') = IF put \in puts THEN Cardinality(puts) ELSE Cardinality(puts) + 1
    <3> HIDE DEF put
    <3> QED
      BY <1>0, <2>1, FS_AddElement
  <2>3. put.draft \subseteq Id /\ RecordTyped(put.record.kept, put.record.snapshot)
    BY <1>2, IdTypes, NewRecordTyped DEF Save
  <2>4. LoadTypes'
    BY <1>2, <1>a DEF Save, TypesInv, LoadTypes, tab
  <2>5. \A p \in puts' : p.draft \subseteq Id /\ RecordTyped(p.record.kept, p.record.snapshot)
    BY <2>1, <2>3 DEF TypesInv
  <2>6. version' + Cardinality(puts') <= MaxSaves
    BY <1>0, <2>1, <2>2
  <2>7. \A p \in puts' : p.draft \subseteq Id /\ RecordTyped(p.record.kept, p.record.snapshot)'
    BY <2>5 DEF RecordTyped
  <2> QED
    BY <1>e, <2>2, <2>4, <2>6, <2>7 DEF TypesInv
<1>3. ASSUME NEW p \in puts, SaveAnswers(p) \/ SaveRefused(p) PROVE TypesInv'
  <2>1. puts' = puts \ {p}
    BY <1>3 DEF SaveAnswers, SaveRefused
  <2>2. Cardinality(puts') = Cardinality(puts) - 1 /\ IsFiniteSet(puts')
    BY <1>0, <2>1, FS_RemoveElement
  <2>3. p.event \in Event /\ p.draft \subseteq Id /\ RecordTyped(p.record.kept, p.record.snapshot)
    BY DEF TypesInv, EventsKnown
  <2>4. version' \in {version, version + 1} /\ version' + Cardinality(puts') <= MaxSaves
    BY <1>0, <1>3, <2>2 DEF SaveAnswers, SaveRefused, TypesInv
  <2>5. Cardinality(puts') \in Nat
    BY <2>2, FS_CardinalityType
  <2>6. version' \in 0..MaxSaves
    BY <1>0, <2>4, <2>5
  <2>7. \A e \in Event : RecordTyped(store'[e].kept, store'[e].snapshot)
    BY <1>3, <2>3, IdTypes DEF SaveAnswers, SaveRefused, TypesInv, EventsKnown
  <2>8. draft'.event \in Event /\ draft'.ids \subseteq Id /\ explicit'.event \in Event /\ explicit'.ids \subseteq Id
    BY <1>3, <2>3 DEF SaveAnswers, SaveRefused, NoEntry, TypesInv, LoadTypes, RecordTyped
  <2>9. LoadTypes'
    BY <1>3, <2>6, <2>7, <2>8 DEF SaveAnswers, SaveRefused, TypesInv, LoadTypes, RecordTyped, tab
  <2> QED
    BY <1>e, <2>1, <2>2, <2>4, <2>9 DEF TypesInv, RecordTyped
<1> QED
  BY <1>1, <1>2, <1>3

LEMMA TypesStep == TypesInv /\ [LoadNext]_lvars => TypesInv'
<1> SUFFICES ASSUME TypesInv, [LoadNext]_lvars PROVE TypesInv'
  OBVIOUS
<1>0. EventsKnown'
  BY EventsStayKnown DEF TypesInv
<1>1. CASE UNCHANGED lvars
  BY <1>0, <1>1 DEF TypesInv, LoadTypes, RecordTyped, lvars, tab, research
<1>2. ASSUME NEW usable \in BOOLEAN, NEW e \in Event, NEW s \in {0, 1},
           NEW valid \in SUBSET Candidate,
             Load \/ LoadAnswers(usable) \/ LoadFails \/ LoadEnds \/ Switch(e) \/ Edit(s)
               \/ Configure \/ Run \/ RunLands(valid) \/ RunFails
      PROVE  TypesInv'
  BY <1>0, <1>2, TabStepTyped DEF TypesInv, RecordTyped
<1>3. CASE (\E i \in Id : Toggle(i)) \/ Save \/ \E p \in puts : SaveAnswers(p) \/ SaveRefused(p)
  BY <1>3, ResearchStepTyped
<1>4. event \in Event /\ {} \in SUBSET Candidate /\ TRUE \in BOOLEAN /\ 0 \in {0, 1}
  BY DEF TypesInv, EventsKnown
<1> QED
  BY <1>1, <1>2, <1>3, <1>4 DEF LoadNext

(* The composition steps one machine or the other.                            *)
LEMMA ComposedStep == [MCNext]_mcvars => [RetrievalNext]_rvars /\ [LoadNext]_lvars
BY DEF MCNext, mcvars, Retrieving, UsingTheTab

(* A tab composed with its retrievals is still a tab: whatever holds of it    *)
(* alone, the two theorems above among it, holds of it there.                 *)
THEOREM ComposedIsTab == MCSpec => LoadSpec
<1>1. MCInit => LoadInit
  BY DEF MCInit
<1> QED
  BY <1>1, ComposedStep, PTL DEF MCSpec, LoadSpec

(* Every variable of the retrieval and of the tab keeps its type, when they   *)
(* take turns; and what a call answers accounts for every leg.                *)
THEOREM ContractTypesCorrect == MCSpec => [](ContractTypes /\ AnswersAccountForEveryLeg)
<1>1. MCInit => RetrievalInv /\ TypesInv
  BY StartsRight, TypedAtFirst DEF MCInit
<1>2. RetrievalInv /\ TypesInv /\ [MCNext]_mcvars => RetrievalInv' /\ TypesInv'
  BY ComposedStep, RetrievalStep, TypesStep
<1>3. RetrievalInv /\ TypesInv => ContractTypes /\ AnswersAccountForEveryLeg
  BY LegsAccounted DEF ContractTypes, RetrievalInv, TypesInv
<1> QED
  BY <1>1, <1>2, <1>3, PTL DEF MCSpec
=============================================================================
