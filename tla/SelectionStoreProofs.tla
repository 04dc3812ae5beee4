------------------------ MODULE SelectionStoreProofs ------------------------
(* Theorems about SelectionStore, for any sets of events, snapshots and       *)
(* requests: its variables keep their types, SelectionStoreInvariants are     *)
(* inductive and the safety properties follow from them, and it implements    *)
(* EventStore, with what its clients may rely on when they wait for their     *)
(* answers.                                                                   *)
EXTENDS SelectionStoreInvariants, TLAPS

-----------------------------------------------------------------------------
(* Type correctness. *)

(* What the pure operators return. *)
LEMMA EmptyStoreType == EmptyStore \in Store
BY DEF EmptyStore, Store, Events, EpochVersion

LEMMA EditTypes ==
    ASSUME NEW events \in Events, NEW e \in Event, NEW f \in Event,
           NEW snap \in Snapshot
    PROVE  /\ WithEvent(events, e, snap) \in Events
           /\ WithoutEvent(events, e) \in Events
           /\ Renamed(events, e, f) \in Events
BY DEF Events, WithEvent, WithoutEvent, Renamed

LEMMA RefreshedType ==
    ASSUME NEW events \in Events, NEW primed0 \in Events, NEW sc \in SUBSET Event,
           NEW out \in EngineOutputs(events, primed0, sc)
    PROVE  /\ Refreshed(events, out, sc) \in Events
           /\ SameStructure(events, Refreshed(events, out, sc))
<1>1. out \in [Event -> Research \cup {Unresolved}]
  BY DEF EngineOutputs
<1>2. ASSUME NEW e \in InScope(events, sc)
      PROVE  /\ [events[e] EXCEPT !.research = out[e]] \in Snapshot
             /\ [events[e] EXCEPT !.research = out[e]] # NoEvent
             /\ [events[e] EXCEPT !.research = out[e]].structure = events[e].structure
  <2>1. events[e] \in Snapshot /\ e \in Event
    BY DEF InScope, Saved, Events
  <2>2. out[e] \in Research \cup {Unresolved}
    BY <1>1, <2>1
  <2> QED
    BY <2>1, <2>2, DataAssumption DEF Snapshot
<1>3. Refreshed(events, out, sc) \in Events
  BY <1>2 DEF Refreshed, Events
<1>4. SameStructure(events, Refreshed(events, out, sc))
  BY <1>2 DEF SameStructure, Refreshed, Saved, InScope
<1> QED
  BY <1>3, <1>4

(* What a reader gets is a store, or malformed. *)
LEMMA FileType == TypeOK => File \in Store \cup {Malformed}
BY EmptyStoreType DEF TypeOK, File, Contents

LEMMA PublishedType == TypeOK => Published \subseteq Store
BY EmptyStoreType DEF TypeOK, Published

(* Reading the clock keeps it a number and never turns it back. *)
LEMMA ClockType ==
    ASSUME now \in Nat, ReadClock
    PROVE  now' \in Nat /\ now' >= now /\ (~Coarse => now' = now + 1)
BY DEF ReadClock

(* The handlers are well typed under the ranges Call gives their arguments.   *)
LEMMA SubmitType ==
    ASSUME TypeOK, NEW r \in Req, NEW events \in Events, File # Malformed,
           Submit(r, events), UNCHANGED <<crashes, disk, name>>,
           kind' \in [Req -> Kind], match' \in [Req -> Nat \cup {NoMatch}]
    PROVE  TypeOK'
<1>1. File \in Store
  BY FileType
<1>2. now' \in Nat
  BY ClockType DEF TypeOK, Submit
<1>3. [version |-> now, events |-> events] \in Store
  BY DEF TypeOK, Store
<1>4. pc' \in [Req -> {"idle"} \cup InFlight \cup Settled]
  BY DEF TypeOK, Submit, Goto, InFlight, Settled, Refused
<1>5. base' \in [Req -> Store] /\ draft' \in [Req -> Store]
  BY <1>1, <1>3 DEF TypeOK, Submit
<1> QED
  BY <1>2, <1>4, <1>5 DEF TypeOK, Submit, disk

LEMMA AnswerType ==
    ASSUME TypeOK, NEW r \in Req, NEW label \in Settled,
           Answer(r, label), UNCHANGED <<crashes, disk, name>>,
           kind' \in [Req -> Kind], match' \in [Req -> Nat \cup {NoMatch}]
    PROVE  TypeOK'
<1>1. pc' \in [Req -> {"idle"} \cup InFlight \cup Settled]
  BY DEF TypeOK, Answer, Goto
<1> QED
  BY <1>1 DEF TypeOK, Answer, disk

LEMMA StartsType ==
    ASSUME TypeOK, NEW r \in Req, NEW k \in Kind, Starts(r, k)
    PROVE  kind' \in [Req -> Kind]
BY DEF TypeOK, Starts

LEMMA IfMatchType == TypeOK => IfMatch \subseteq Nat \cup {NoMatch}
BY PublishedType DEF IfMatch, Store

LEMMA ExpectsType ==
    ASSUME TypeOK, NEW r \in Req, NEW m \in IfMatch, Expects(r, m)
    PROVE  match' \in [Req -> Nat \cup {NoMatch}]
BY IfMatchType DEF TypeOK, Expects

LEMMA CallType ==
    ASSUME TypeOK, NEW r \in Req, Call(r)
    PROVE  TypeOK'
<1> USE DEF Settled, Refused
<1>1. ASSUME NEW e \in Event, NEW snap \in Uploads, NEW m \in IfMatch,
             Upsert(r, e, snap, m)
      PROVE  TypeOK'
  <2>1. kind' \in [Req -> Kind] /\ match' \in [Req -> Nat \cup {NoMatch}]
    BY <1>1, StartsType, ExpectsType DEF Upsert, Kind
  <2>2. ASSUME NEW label \in Settled, Answer(r, label)
        PROVE  TypeOK'
    BY <1>1, <2>1, <2>2, AnswerType DEF Upsert
  <2>3. CASE File # Malformed /\ Submit(r, WithEvent(File.events, e, snap))
    <3>1. WithEvent(File.events, e, snap) \in Events
      BY <2>3, FileType, EditTypes, StoreAssumption DEF Store
    <3> QED
      BY <1>1, <2>1, <2>3, <3>1, SubmitType DEF Upsert
  <2> QED
    BY <1>1, <2>2, <2>3 DEF Upsert
<1>2. ASSUME NEW e \in Event, NEW m \in IfMatch, Delete(r, e, m)
      PROVE  TypeOK'
  <2>1. kind' \in [Req -> Kind] /\ match' \in [Req -> Nat \cup {NoMatch}]
    BY <1>2, StartsType, ExpectsType DEF Delete, Kind
  <2>2. ASSUME NEW label \in Settled, Answer(r, label)
        PROVE  TypeOK'
    BY <1>2, <2>1, <2>2, AnswerType DEF Delete
  <2>3. CASE File # Malformed /\ Submit(r, WithoutEvent(File.events, e))
    <3>1. WithoutEvent(File.events, e) \in Events
      BY <2>3, FileType DEF Store, Events, WithoutEvent
    <3> QED
      BY <1>2, <2>1, <2>3, <3>1, SubmitType DEF Delete
  <2> QED
    BY <1>2, <2>2, <2>3 DEF Delete
<1>3. ASSUME NEW view \in Published, NEW from \in Event, NEW to \in Event,
             Save(r, view, from, to)
      PROVE  TypeOK'
  <2>1. kind' \in [Req -> Kind] /\ match' \in [Req -> Nat \cup {NoMatch}]
    BY <1>3, StartsType DEF Save, Kind, TypeOK
  <2>2. ASSUME NEW label \in Settled, Answer(r, label)
        PROVE  TypeOK'
    BY <1>3, <2>1, <2>2, AnswerType DEF Save
  <2>3. CASE File # Malformed /\ Submit(r, Renamed(view.events, from, to))
    <3>1. Renamed(view.events, from, to) \in Events
      BY PublishedType DEF Store, Events, Renamed
    <3> QED
      BY <1>3, <2>1, <2>3, <3>1, SubmitType DEF Save
  <2> QED
    BY <1>3, <2>2, <2>3 DEF Save
<1>4. ASSUME NEW sc \in {{e} : e \in Event} \cup {Event}, Prime(r, sc)
      PROVE  TypeOK'
  <2>1. kind' \in [Req -> Kind] /\ match' \in [Req -> Nat \cup {NoMatch}]
    BY <1>4, StartsType DEF Prime, Kind, TypeOK
  <2>2. ASSUME NEW label \in Settled, Answer(r, label)
        PROVE  TypeOK'
    BY <1>4, <2>1, <2>2, AnswerType DEF Prime
  <2>3. CASE /\ File # Malformed
             /\ scope' = [scope EXCEPT ![r] = sc]
             /\ primed' = [primed EXCEPT ![r] = File.events]
             /\ Goto(r, "prime")
             /\ UNCHANGED <<now, base, draft>>
    <3>1. File.events \in Events /\ sc \in SUBSET Event
      BY <2>3, FileType DEF Store
    <3>2. pc' \in [Req -> {"idle"} \cup InFlight \cup Settled]
      BY <2>3 DEF TypeOK, Goto, InFlight
    <3> QED
      BY <1>4, <2>1, <2>3, <3>1, <3>2 DEF TypeOK, Prime, disk
  <2> QED
    BY <1>4, <2>2, <2>3 DEF Prime
<1>5. ASSUME NEW m \in IfMatch, Recompute(r, m)
      PROVE  TypeOK'
  <2>1. kind' \in [Req -> Kind] /\ match' \in [Req -> Nat \cup {NoMatch}]
    BY <1>5, ExpectsType DEF Recompute, TypeOK
  <2>2. ASSUME NEW label \in Settled, Answer(r, label)
        PROVE  TypeOK'
    BY <1>5, <2>1, <2>2, AnswerType DEF Recompute
  <2>3. CASE /\ File # Malformed
             /\ base' = [base EXCEPT ![r] = File]
             /\ draft' = [draft EXCEPT ![r] = [File EXCEPT !.version = now]]
             /\ Goto(r, "engine")
             /\ ReadClock
             /\ UNCHANGED <<scope, primed>>
    <3>1. File \in Store /\ [File EXCEPT !.version = now] \in Store
      BY <2>3, FileType DEF Store, TypeOK
    <3>2. pc' \in [Req -> {"idle"} \cup InFlight \cup Settled]
      BY <2>3 DEF TypeOK, Goto, InFlight
    <3>3. now' \in Nat
      BY <2>3, ClockType DEF TypeOK
    <3> QED
      BY <1>5, <2>1, <2>3, <3>1, <3>2, <3>3 DEF TypeOK, Recompute, disk
  <2> QED
    BY <1>5, <2>2, <2>3 DEF Recompute
<1>6. ASSUME Migrate(r)
      PROVE  TypeOK'
  <2>1. kind' \in [Req -> Kind] /\ match' \in [Req -> Nat \cup {NoMatch}]
    BY <1>6, StartsType DEF Migrate, Kind, TypeOK
  <2>2. ASSUME NEW label \in Settled, Answer(r, label)
        PROVE  TypeOK'
    BY <1>6, <2>1, <2>2, AnswerType DEF Migrate
  <2>3. CASE /\ File # Malformed
             /\ scope' = [scope EXCEPT ![r] = Event]
             /\ primed' = [primed EXCEPT ![r] = File.events]
             /\ base' = [base EXCEPT ![r] = File]
             /\ draft' = [draft EXCEPT ![r] = [File EXCEPT !.version = now]]
             /\ Goto(r, "engine")
             /\ ReadClock
    <3>1. /\ File \in Store /\ [File EXCEPT !.version = now] \in Store
          /\ File.events \in Events
      BY <2>3, FileType DEF Store, TypeOK
    <3>2. pc' \in [Req -> {"idle"} \cup InFlight \cup Settled]
      BY <2>3 DEF TypeOK, Goto, InFlight
    <3>3. now' \in Nat
      BY <2>3, ClockType DEF TypeOK
    <3> QED
      BY <1>6, <2>1, <2>3, <3>1, <3>2, <3>3 DEF TypeOK, Migrate, disk
  <2> QED
    BY <1>6, <2>2, <2>3 DEF Migrate
<1> QED
  BY <1>1, <1>2, <1>3, <1>4, <1>5, <1>6 DEF Call

LEMMA TempNameType ==
    ASSUME TypeOK, NEW r \in Req
    PROVE  TempName(r) \in Process \X Nat \X Nat
BY DEF TypeOK, TempName, ProcessOf, Process

LEMMA WorkType ==
    ASSUME TypeOK, NEW r \in Req, Work(r)
    PROVE  TypeOK'
<1> DEFINE Labels == {"idle"} \cup InFlight \cup Settled
<1>0. ASSUME NEW label \in Labels, Goto(r, label)
      PROVE  pc' \in [Req -> Labels]
  BY <1>0 DEF TypeOK, Goto
<1>1. CASE RunEngine(r)
  <2>1. CASE Answer(r, "error")
    BY <1>1, <2>1, AnswerType DEF RunEngine, Settled, Refused, local, TypeOK
  <2>2. ASSUME NEW out \in EngineOutputs(base[r].events, primed[r], scope[r]),
               draft' = [draft EXCEPT ![r].events =
                            Refreshed(base[r].events, out, scope[r])],
               \E label \in {"invalid", "saveread", "open"} : Goto(r, label),
               UNCHANGED <<now, scope, primed, base>>
        PROVE  TypeOK'
    <3>1. /\ base[r].events \in Events
          /\ primed[r] \in Events
          /\ scope[r] \in SUBSET Event
      BY DEF TypeOK, Store
    <3>2. draft' \in [Req -> Store]
      BY <2>2, <3>1, RefreshedType DEF TypeOK, Store
    <3>3. pc' \in [Req -> Labels]
      BY <1>0, <2>2 DEF InFlight, Settled, Refused
    <3> QED
      BY <1>1, <2>2, <3>2, <3>3 DEF RunEngine, TypeOK, disk
  <2> QED
    BY <1>1, <2>1, <2>2 DEF RunEngine
<1>2. CASE SaveMigrated(r)
  <2>1. ASSUME NEW label \in {"error", "malformed"}, Answer(r, label)
        PROVE  TypeOK'
    BY <1>2, <2>1, AnswerType DEF SaveMigrated, Settled, Refused, TypeOK
  <2>2. CASE \A label \in {"error", "malformed"} : ~Answer(r, label)
    <3>1. /\ draft' = [draft EXCEPT ![r].version = now]
          /\ Goto(r, "open") /\ ReadClock
          /\ UNCHANGED <<scope, primed, base>>
      BY <1>2, <2>2 DEF SaveMigrated
    <3>2. draft' \in [Req -> Store]
      BY <3>1 DEF TypeOK, Store
    <3>3. pc' \in [Req -> Labels]
      BY <1>0, <3>1 DEF InFlight
    <3>4. now' \in Nat
      BY <3>1, ClockType DEF TypeOK
    <3> QED
      BY <1>2, <3>1, <3>2, <3>3, <3>4 DEF SaveMigrated, TypeOK, disk
  <2> QED
    BY <2>1, <2>2
<1>3. CASE Open(r) \/ Fail(r)
  <2>1. now' \in Nat
    BY <1>3, ClockType DEF Open, Fail, TypeOK
  <2>2. name' \in [Req -> Process \X Nat \X Nat]
    BY <1>3, TempNameType DEF Open, Fail, TypeOK
  <2>3. pc' \in [Req -> Labels]
    BY <1>0, <1>3 DEF Open, Fail, InFlight
  <2>4. tmp' \subseteq Req
    BY <1>3 DEF Open, Fail, TypeOK, disk
  <2> QED
    BY <1>3, <2>1, <2>2, <2>3, <2>4 DEF Open, Fail, TypeOK, disk
<1>4. CASE Fill(r)
  <2>1. pc' \in [Req -> Labels]
    BY <1>0, <1>4 DEF Fill, InFlight
  <2> QED
    BY <1>4, <2>1 DEF Fill, TypeOK, local
<1>5. CASE Rename(r)
  <2>1. pc' \in [Req -> Labels]
    BY <1>0, <1>5 DEF Rename, InFlight, Settled
  <2>2. target' \in Req \cup {Original, NoFile} /\ landed' \subseteq Req \cup {Original}
        /\ tmp' \subseteq Req
    BY <1>5 DEF Rename, TypeOK, At
  <2> QED
    BY <1>5, <2>1, <2>2 DEF Rename, TypeOK, local
<1>6. CASE Unlink(r)
  <2>1. pc' \in [Req -> Labels]
    BY <1>0, <1>6 DEF Unlink, Settled, Refused
  <2> QED
    BY <1>6, <2>1 DEF Unlink, TypeOK, local
<1> QED
  BY <1>1, <1>2, <1>3, <1>4, <1>5, <1>6 DEF Work

LEMMA CrashType ==
    ASSUME TypeOK, NEW p \in Process, Crash(p)
    PROVE  TypeOK'
<1>1. crashes' \in [Process -> Nat]
  BY DEF Crash, TypeOK
<1>2. pc' \in [Req -> {"idle"} \cup InFlight \cup Settled]
  BY DEF Crash, TypeOK, Settled
<1> QED
  BY <1>1, <1>2 DEF Crash, TypeOK, disk, local

LEMMA InitType == Init => TypeOK
<1> SUFFICES ASSUME Init PROVE TypeOK
  OBVIOUS
<1>1. seed \in Store \cup {Malformed}
  BY StoreAssumption DEF Init, Store
<1>2. EmptyStore.events \in Events
  BY EmptyStoreType DEF Store
<1> QED
  BY <1>1, <1>2, EmptyStoreType DEF Init, TypeOK, Process, Kind

(* Every variable keeps its type, whatever the requests, their order, the     *)
(* clock, failures and crashes.                                               *)
THEOREM TypeCorrect == Spec => []TypeOK
<1>1. TypeOK /\ [Next]_vars => TypeOK'
  <2> SUFFICES ASSUME TypeOK, [Next]_vars PROVE TypeOK'
    OBVIOUS
  <2>1. ASSUME NEW r \in Req, Call(r) PROVE TypeOK'
    BY <2>1, CallType
  <2>2. ASSUME NEW r \in Req, Work(r) PROVE TypeOK'
    BY <2>2, WorkType
  <2>3. ASSUME NEW p \in Process, Crash(p) PROVE TypeOK'
    BY <2>3, CrashType
  <2>4. CASE UNCHANGED vars
    BY <2>4 DEF vars, disk, local, TypeOK
  <2> QED
    BY <2>1, <2>2, <2>3, <2>4 DEF Next
<1> QED
  BY <1>1, InitType, PTL DEF Spec

-----------------------------------------------------------------------------
(* The steps before a request writes, seen from the disk. *)

Preparing == {"idle", "prime", "engine", "saveread"}

(* Only request r moves, and it does not touch the disk or its temporary name.*)
Prepares(r) ==
    /\ UNCHANGED <<crashes, disk, name>>
    /\ pc[r] \in Preparing
    /\ pc'[r] \in {"prime", "engine", "saveread", "open", "noop"} \cup Refused
    /\ pc' = [pc EXCEPT ![r] = pc'[r]]
    /\ \A q \in Req \ {r} : /\ draft'[q] = draft[q]
                            /\ base'[q] = base[q]
                            /\ kind'[q] = kind[q]
                            /\ match'[q] = match[q]
    /\ \/ /\ draft'[r].version = now
          /\ ReadClock
       \/ /\ draft'[r].version = draft[r].version
          /\ now' = now
          /\ pc'[r] \in Drafting => pc[r] \in Drafting
    /\ pc'[r] \in Validated => Valid(draft'[r].events) \/ pc[r] = "saveread"
    /\ pc[r] = "saveread" => draft'[r].events = draft[r].events

LEMMA AnswerPrepares ==
    ASSUME TypeOK, NEW r \in Req, NEW label \in Refused \cup {"noop"},
           Answer(r, label), pc[r] \in Preparing,
           UNCHANGED <<crashes, disk, name>>,
           \A q \in Req \ {r} : kind'[q] = kind[q] /\ match'[q] = match[q]
    PROVE  Prepares(r)
<1>1. pc' = [pc EXCEPT ![r] = label]
  BY DEF Answer, Goto
<1>2. pc'[r] = label /\ pc' = [pc EXCEPT ![r] = pc'[r]]
  BY <1>1 DEF TypeOK
<1>3. pc'[r] \notin Drafting
  BY <1>2 DEF Drafting, Refused
<1> QED
  BY <1>2, <1>3 DEF Prepares, Answer, Validated

LEMMA SubmitPrepares ==
    ASSUME TypeOK, NEW r \in Req, NEW events \in Events,
           Submit(r, events), pc[r] = "idle",
           UNCHANGED <<crashes, disk, name>>,
           \A q \in Req \ {r} : kind'[q] = kind[q] /\ match'[q] = match[q]
    PROVE  Prepares(r)
<1>1. /\ pc'[r] = IF Valid(events) THEN "open" ELSE "invalid"
      /\ pc' = [pc EXCEPT ![r] = pc'[r]]
  BY DEF Submit, Goto, TypeOK
<1>2. draft'[r] = [version |-> now, events |-> events]
  BY DEF Submit, TypeOK
<1>3. \A q \in Req \ {r} : draft'[q] = draft[q] /\ base'[q] = base[q]
  BY DEF Submit, TypeOK
<1> QED
  BY <1>1, <1>2, <1>3
  DEF Prepares, Submit, Validated, Drafting, Refused, Preparing

LEMMA CallPrepares ==
    ASSUME TypeOK, NEW r \in Req, Call(r)
    PROVE  Prepares(r)
<1> USE DEF Refused
<1>k. ASSUME NEW k \in Kind, Starts(r, k)
      PROVE  pc[r] = "idle" /\ \A q \in Req \ {r} : kind'[q] = kind[q]
  BY <1>k DEF Starts, TypeOK
<1>m. ASSUME NEW m \in IfMatch, Expects(r, m)
      PROVE  \A q \in Req \ {r} : match'[q] = match[q]
  BY <1>m DEF Expects, TypeOK
<1>1. ASSUME NEW e \in Event, NEW snap \in Uploads, NEW m \in IfMatch,
             Upsert(r, e, snap, m)
      PROVE  Prepares(r)
  <2>1. /\ pc[r] = "idle"
        /\ \A q \in Req \ {r} : kind'[q] = kind[q] /\ match'[q] = match[q]
        /\ UNCHANGED <<crashes, disk, name>>
    BY <1>1, <1>k, <1>m DEF Upsert, Kind
  <2>2. ASSUME NEW label \in {"malformed", "conflict"}, Answer(r, label)
        PROVE  Prepares(r)
    BY <2>1, <2>2, AnswerPrepares DEF Preparing
  <2>3. CASE File # Malformed /\ Submit(r, WithEvent(File.events, e, snap))
    <3>1. WithEvent(File.events, e, snap) \in Events
      BY <2>3, FileType, EditTypes, StoreAssumption DEF Store
    <3> QED
      BY <2>1, <2>3, <3>1, SubmitPrepares
  <2> QED
    BY <1>1, <2>2, <2>3 DEF Upsert
<1>2. ASSUME NEW e \in Event, NEW m \in IfMatch, Delete(r, e, m)
      PROVE  Prepares(r)
  <2>1. /\ pc[r] = "idle"
        /\ \A q \in Req \ {r} : kind'[q] = kind[q] /\ match'[q] = match[q]
        /\ UNCHANGED <<crashes, disk, name>>
    BY <1>2, <1>k, <1>m DEF Delete, Kind
  <2>2. ASSUME NEW label \in {"malformed", "conflict", "noop"}, Answer(r, label)
        PROVE  Prepares(r)
    BY <2>1, <2>2, AnswerPrepares DEF Preparing
  <2>3. CASE File # Malformed /\ Submit(r, WithoutEvent(File.events, e))
    <3>1. WithoutEvent(File.events, e) \in Events
      BY <2>3, FileType DEF Store, Events, WithoutEvent
    <3> QED
      BY <2>1, <2>3, <3>1, SubmitPrepares
  <2> QED
    BY <1>2, <2>2, <2>3 DEF Delete
<1>3. ASSUME NEW view \in Published, NEW from \in Event, NEW to \in Event,
             Save(r, view, from, to)
      PROVE  Prepares(r)
  <2>1. /\ pc[r] = "idle"
        /\ \A q \in Req \ {r} : kind'[q] = kind[q] /\ match'[q] = match[q]
        /\ UNCHANGED <<crashes, disk, name>>
    BY <1>3, <1>k DEF Save, Kind
  <2>2. ASSUME NEW label \in {"malformed", "invalid"}, Answer(r, label)
        PROVE  Prepares(r)
    BY <2>1, <2>2, AnswerPrepares DEF Preparing
  <2>3. CASE File # Malformed /\ Submit(r, Renamed(view.events, from, to))
    <3>1. Renamed(view.events, from, to) \in Events
      BY PublishedType DEF Store, Events, Renamed
    <3> QED
      BY <2>1, <2>3, <3>1, SubmitPrepares
  <2> QED
    BY <1>3, <2>2, <2>3 DEF Save
<1>4. ASSUME NEW sc \in {{e} : e \in Event} \cup {Event}, Prime(r, sc)
      PROVE  Prepares(r)
  <2>1. /\ pc[r] = "idle"
        /\ \A q \in Req \ {r} : kind'[q] = kind[q] /\ match'[q] = match[q]
        /\ UNCHANGED <<crashes, disk, name>>
    BY <1>4, <1>k DEF Prime, Kind
  <2>2. CASE Answer(r, "malformed")
    BY <2>1, <2>2, AnswerPrepares DEF Preparing
  <2>3. CASE Goto(r, "prime") /\ UNCHANGED <<now, base, draft>>
    <3>1. pc'[r] = "prime" /\ pc' = [pc EXCEPT ![r] = pc'[r]]
      BY <2>3 DEF Goto, TypeOK
    <3> QED
      BY <2>1, <2>3, <3>1 DEF Prepares, Preparing, Drafting, Validated
  <2> QED
    BY <1>4, <2>2, <2>3 DEF Prime
<1>5. ASSUME NEW m \in IfMatch, Recompute(r, m)
      PROVE  Prepares(r)
  <2>1. /\ pc[r] = "prime"
        /\ \A q \in Req \ {r} : kind'[q] = kind[q] /\ match'[q] = match[q]
        /\ UNCHANGED <<crashes, disk, name>>
    BY <1>5, <1>m DEF Recompute
  <2>2. ASSUME NEW label \in {"malformed", "conflict"}, Answer(r, label)
        PROVE  Prepares(r)
    BY <2>1, <2>2, AnswerPrepares DEF Preparing
  <2>3. CASE /\ File # Malformed
             /\ base' = [base EXCEPT ![r] = File]
             /\ draft' = [draft EXCEPT ![r] = [File EXCEPT !.version = now]]
             /\ Goto(r, "engine")
             /\ ReadClock
    <3>1. pc'[r] = "engine" /\ pc' = [pc EXCEPT ![r] = pc'[r]]
      BY <2>3 DEF Goto, TypeOK
    <3>2. draft'[r].version = now
      BY <2>3, FileType DEF TypeOK, Store
    <3>3. \A q \in Req \ {r} : draft'[q] = draft[q] /\ base'[q] = base[q]
      BY <2>3 DEF TypeOK
    <3> QED
      BY <2>1, <2>3, <3>1, <3>2, <3>3 DEF Prepares, Preparing, Drafting, Validated
  <2> QED
    BY <1>5, <2>2, <2>3 DEF Recompute
<1>6. ASSUME Migrate(r)
      PROVE  Prepares(r)
  <2>1. /\ pc[r] = "idle"
        /\ \A q \in Req \ {r} : kind'[q] = kind[q] /\ match'[q] = match[q]
        /\ UNCHANGED <<crashes, disk, name>>
    BY <1>6, <1>k DEF Migrate, Kind
  <2>2. CASE Answer(r, "error")
    BY <2>1, <2>2, AnswerPrepares DEF Preparing
  <2>3. CASE /\ File # Malformed
             /\ base' = [base EXCEPT ![r] = File]
             /\ draft' = [draft EXCEPT ![r] = [File EXCEPT !.version = now]]
             /\ Goto(r, "engine")
             /\ ReadClock
    <3>1. pc'[r] = "engine" /\ pc' = [pc EXCEPT ![r] = pc'[r]]
      BY <2>3 DEF Goto, TypeOK
    <3>2. draft'[r].version = now
      BY <2>3, FileType DEF TypeOK, Store
    <3>3. \A q \in Req \ {r} : draft'[q] = draft[q] /\ base'[q] = base[q]
      BY <2>3 DEF TypeOK
    <3> QED
      BY <2>1, <2>3, <3>1, <3>2, <3>3 DEF Prepares, Preparing, Drafting, Validated
  <2> QED
    BY <1>6, <2>2, <2>3 DEF Migrate
<1> QED
  BY <1>1, <1>2, <1>3, <1>4, <1>5, <1>6 DEF Call

LEMMA RunEnginePrepares ==
    ASSUME TypeOK, NEW r \in Req, RunEngine(r)
    PROVE  Prepares(r)
<1>1. /\ pc[r] = "engine"
      /\ UNCHANGED <<crashes, disk, kind, match, name>>
  BY DEF RunEngine
<1>2. CASE Answer(r, "error")
  BY <1>1, <1>2, AnswerPrepares DEF Preparing, Refused
<1>3. ASSUME NEW new \in Events,
             draft' = [draft EXCEPT ![r].events = new],
             NEW label \in {"invalid", "saveread", "open"}, Goto(r, label),
             label # "invalid" => Valid(new),
             UNCHANGED <<now, base>>
      PROVE  Prepares(r)
  <2>1. pc'[r] = label /\ pc' = [pc EXCEPT ![r] = pc'[r]]
    BY <1>3 DEF Goto, TypeOK
  <2>2. draft'[r].events = new /\ draft'[r].version = draft[r].version
    BY <1>3 DEF TypeOK, Store
  <2>3. \A q \in Req \ {r} : draft'[q] = draft[q] /\ base'[q] = base[q]
    BY <1>3 DEF TypeOK
  <2> QED
    BY <1>1, <1>3, <2>1, <2>2, <2>3
    DEF Prepares, Preparing, Drafting, Validated, Refused
<1>4. CASE ~Answer(r, "error")
  <2>1. PICK out \in EngineOutputs(base[r].events, primed[r], scope[r]) :
           LET new == Refreshed(base[r].events, out, scope[r]) IN
           /\ draft' = [draft EXCEPT ![r].events = new]
           /\ Goto(r, IF ~Valid(new) THEN "invalid"
                      ELSE IF kind[r] = "migrate" THEN "saveread" ELSE "open")
    BY <1>4 DEF RunEngine
  <2>2. Refreshed(base[r].events, out, scope[r]) \in Events
    BY RefreshedType DEF TypeOK, Store
  <2>3. UNCHANGED <<now, base>>
    BY <1>4 DEF RunEngine
  <2> QED
    BY <1>3, <2>1, <2>2, <2>3
<1> QED
  BY <1>2, <1>4

LEMMA SaveMigratedPrepares ==
    ASSUME TypeOK, NEW r \in Req, SaveMigrated(r)
    PROVE  Prepares(r)
<1>1. pc[r] = "saveread" /\ UNCHANGED <<crashes, disk, kind, match, name>>
  BY DEF SaveMigrated
<1>2. ASSUME NEW label \in {"error", "malformed"}, Answer(r, label)
      PROVE  Prepares(r)
  BY <1>1, <1>2, AnswerPrepares DEF Preparing, Refused
<1>3. CASE /\ draft' = [draft EXCEPT ![r].version = now]
           /\ Goto(r, "open") /\ ReadClock /\ base' = base
  <2>1. pc'[r] = "open" /\ pc' = [pc EXCEPT ![r] = pc'[r]]
    BY <1>3 DEF Goto, TypeOK
  <2>2. draft'[r].events = draft[r].events /\ draft'[r].version = now
    BY <1>3 DEF TypeOK, Store
  <2>3. \A q \in Req \ {r} : draft'[q] = draft[q] /\ base'[q] = base[q]
    BY <1>3 DEF TypeOK
  <2> QED
    BY <1>1, <1>3, <2>1, <2>2, <2>3
    DEF Prepares, Preparing, Drafting, Validated, Refused
<1> QED
  BY <1>2, <1>3 DEF SaveMigrated

(* The other steps: a request writes, or a process dies. *)
WriteStep ==
    \/ \E r \in Req : Open(r) \/ Fill(r) \/ Rename(r) \/ Fail(r) \/ Unlink(r)
    \/ \E p \in Process : Crash(p)

LEMMA StepCases ==
    ASSUME TypeOK, Next
    PROVE  (\E r \in Req : Prepares(r)) \/ WriteStep
BY CallPrepares, RunEnginePrepares, SaveMigratedPrepares DEF Next, Work, WriteStep

-----------------------------------------------------------------------------
(* A malformed file is kept. *)

LEMMA MalformedStopsInductive ==
    ASSUME TypeOK, MalformedStops, [Next]_vars
    PROVE  MalformedStops'
<1> SUFFICES ASSUME Original \in landed', seed' = Malformed
             PROVE  /\ target' = Original
                    /\ \A r \in Req : pc'[r] \notin InFlight \cup {"saved"}
  BY DEF MalformedStops
<1>1. CASE \E r \in Req : Call(r)
  <2>1. PICK r \in Req : Call(r)
    BY <1>1
  <2>2. /\ disk' = disk
        /\ pc[r] \in Preparing
        /\ pc' = [pc EXCEPT ![r] = pc'[r]]
    BY <2>1, CallPrepares DEF Prepares
  <2>3. seed = Malformed /\ Original \in landed /\ target = Original
        /\ \A q \in Req : pc[q] \notin InFlight \cup {"saved"}
    BY <2>2 DEF disk, MalformedStops
  <2>4. File = Malformed
    BY <2>3, StoreAssumption DEF File, Contents
  <2>5. pc'[r] \in Refused
    <3>1. ASSUME NEW label \in Refused, Answer(r, label)
          PROVE  pc'[r] \in Refused
      BY <3>1 DEF Answer, Goto, TypeOK
    <3>2. pc[r] # "prime"
      BY <2>3 DEF InFlight
    <3> QED
      BY <2>1, <2>4, <3>1, <3>2
      DEF Call, Upsert, Delete, Save, Prime, Recompute, Migrate, Refused
  <2>6. \A q \in Req \ {r} : pc'[q] = pc[q]
    BY <2>2 DEF TypeOK
  <2> QED
    BY <2>2, <2>3, <2>5, <2>6 DEF disk, Refused, InFlight
<1>2. ASSUME NEW r \in Req, Work(r)
      PROVE  FALSE
  <2>1. Original \in landed /\ seed = Malformed
    BY <1>2, StoreAssumption
    DEF Work, RunEngine, SaveMigrated, Open, Fill, Rename, Fail, Unlink, disk, At, TypeOK
  <2>2. pc[r] \in InFlight
    BY <1>2 DEF Work, RunEngine, SaveMigrated, Open, Fill, Rename, Fail, Unlink, InFlight
  <2> QED
    BY <2>1, <2>2 DEF MalformedStops
<1>3. ASSUME NEW p \in Process, Crash(p)
      PROVE  FALSE
  BY <1>3 DEF Crash, MalformedStops, disk
<1>4. CASE UNCHANGED vars
  BY <1>4 DEF vars, disk, MalformedStops
<1> QED
  BY <1>1, <1>2, <1>3, <1>4 DEF Next

LEMMA MalformedStopsInit == Init => MalformedStops
BY StoreAssumption DEF Init, MalformedStops, InFlight

(* MalformedKept: no handler, in any order and after any crash, ever replaces *)
(* a canonical file that does not parse or validate.                          *)
THEOREM MalformedIsKept == Spec => []MalformedKept
<1>1. MalformedStops => MalformedKept
  BY DEF MalformedStops, MalformedKept
<1> QED
  BY <1>1, MalformedStopsInit, MalformedStopsInductive, TypeCorrect, PTL DEF Spec

-----------------------------------------------------------------------------
(* The disk: temporary names never meet, and files land whole. *)

LEMMA NamesDifferInductive ==
    ASSUME ~Coarse, TypeOK, NamesDiffer, Next
    PROVE  NamesDiffer'
<1>1. ASSUME NEW r \in Req, Prepares(r)
      PROVE  NamesDiffer'
  <2>1. name' = name /\ now' \in Nat /\ now' >= now
    BY <1>1, ClockType DEF Prepares, TypeOK
  <2>2. \A q \in Req : pc'[q] \in Named => pc[q] \in Named
    BY <1>1 DEF Prepares, Named, Refused, TypeOK
  <2>3. \A q \in Req : name[q][3] \in Nat
    BY DEF TypeOK
  <2> QED
    BY <2>1, <2>2, <2>3 DEF NamesDiffer, TypeOK
<1>2. ASSUME NEW r \in Req, name' = [name EXCEPT ![r] = TempName(r)],
             now' = now + 1, \A q \in Req \ {r} : pc'[q] = pc[q]
      PROVE  NamesDiffer'
  <2>1. name'[r][3] = now /\ \A q \in Req \ {r} : name'[q] = name[q]
    BY <1>2 DEF TypeOK, TempName
  <2>2. \A q \in Req : name[q][3] \in Nat
    BY DEF TypeOK
  <2> QED
    BY <1>2, <2>1, <2>2 DEF NamesDiffer, TypeOK
<1>3. ASSUME UNCHANGED <<name, now>>,
             \A q \in Req : pc'[q] \in Named => pc[q] \in Named
      PROVE  NamesDiffer'
  BY <1>3 DEF NamesDiffer
<1>4. ASSUME NEW r \in Req, NEW label, Goto(r, label)
      PROVE  \A q \in Req \ {r} : pc'[q] = pc[q]
  BY <1>4 DEF Goto, TypeOK
<1>5. ASSUME NEW r \in Req, Open(r)
      PROVE  NamesDiffer'
  BY <1>2, <1>4, <1>5, ClockType DEF Open, TypeOK
<1>6. ASSUME NEW r \in Req, Fail(r)
      PROVE  NamesDiffer'
  <2>1. CASE pc[r] = "open"
    BY <1>2, <1>4, <1>6, <2>1, ClockType DEF Fail, TypeOK
  <2>2. CASE pc[r] # "open"
    BY <1>3, <1>4, <1>6, <2>2 DEF Fail, Named
  <2> QED
    BY <2>1, <2>2
<1>7. ASSUME NEW r \in Req, Fill(r) \/ Rename(r) \/ Unlink(r)
      PROVE  NamesDiffer'
  <2>1. pc[r] \in Named /\ UNCHANGED <<name, now>>
    BY <1>7 DEF Fill, Rename, Unlink, Named, local
  <2>2. \A q \in Req \ {r} : pc'[q] = pc[q]
    BY <1>4, <1>7 DEF Fill, Rename, Unlink
  <2> QED
    BY <1>3, <2>1, <2>2
<1>8. ASSUME NEW p \in Process, Crash(p)
      PROVE  NamesDiffer'
  BY <1>3, <1>8 DEF Crash, Named, local, TypeOK
<1> QED
  BY <1>1, <1>5, <1>6, <1>7, <1>8, StepCases DEF WriteStep

LEMMA LandedWholeInductive ==
    ASSUME TypeOK, NamesDiffer, LandedWhole, Next
    PROVE  LandedWhole'
<1>1. ASSUME UNCHANGED <<target, landed, filled>>,
             \A q \in Req : (pc'[q] = "rename" => pc[q] = "rename")
                            /\ (pc'[q] = "saved" <=> pc[q] = "saved")
      PROVE  LandedWhole'
  BY <1>1 DEF LandedWhole
<1>2. ASSUME NEW r \in Req, NEW label, Goto(r, label)
      PROVE  pc'[r] = label /\ \A q \in Req \ {r} : pc'[q] = pc[q]
  BY <1>2 DEF Goto, TypeOK
<1>3. ASSUME NEW r \in Req, Prepares(r)
      PROVE  LandedWhole'
  BY <1>1, <1>3 DEF Prepares, Preparing, Refused, disk, TypeOK
<1>4. ASSUME NEW r \in Req, Open(r) \/ Fail(r) \/ Unlink(r)
      PROVE  LandedWhole'
  <2>1. UNCHANGED <<target, landed, filled>> /\ pc[r] \in {"open", "fill", "rename", "unlink"}
    BY <1>4 DEF Open, Fail, Unlink, disk
  <2>2. pc'[r] \in {"fill", "unlink", "error"} /\ \A q \in Req \ {r} : pc'[q] = pc[q]
    BY <1>2, <1>4 DEF Open, Fail, Unlink
  <2> QED
    BY <1>1, <2>1, <2>2
<1>5. ASSUME NEW r \in Req, Fill(r)
      PROVE  LandedWhole'
  <2>1. pc'[r] = "rename" /\ \A q \in Req \ {r} : pc'[q] = pc[q]
    BY <1>2, <1>5 DEF Fill
  <2> QED
    BY <1>5, <2>1 DEF Fill, LandedWhole
<1>6. ASSUME NEW r \in Req, Rename(r)
      PROVE  LandedWhole'
  <2>1. CASE At(name[r]) = {}
    <3>1. pc[r] = "rename" /\ pc'[r] = "unlink" /\ \A q \in Req \ {r} : pc'[q] = pc[q]
      BY <1>2, <1>6, <2>1 DEF Rename
    <3> QED
      BY <1>1, <1>6, <2>1, <3>1 DEF Rename
  <2>2. CASE At(name[r]) # {}
    <3>1. At(name[r]) \subseteq {r}
      BY <1>6 DEF At, NamesDiffer, Rename, Named, TypeOK
    <3>2. target' = r /\ landed' = landed \cup {r} /\ filled' = filled
      BY <1>6, <2>2, <3>1 DEF Rename
    <3>3. pc[r] = "rename" /\ pc'[r] = "saved" /\ \A q \in Req \ {r} : pc'[q] = pc[q]
      BY <1>2, <1>6, <2>2 DEF Rename
    <3> QED
      BY <3>2, <3>3, StoreAssumption DEF LandedWhole
  <2> QED
    BY <2>1, <2>2
<1>7. ASSUME NEW p \in Process, Crash(p)
      PROVE  LandedWhole'
  BY <1>1, <1>7 DEF Crash, disk, InFlight, TypeOK
<1> QED
  BY <1>3, <1>4, <1>5, <1>6, <1>7, StepCases DEF WriteStep

LEMMA DiskInvInit == Init => DiskInv
<1> SUFFICES ASSUME Init PROVE DiskInv
  OBVIOUS
<1>1. NamesDiffer
  BY DEF Init, NamesDiffer, Named
<1>2. LandedWhole
  BY StoreAssumption DEF Init, LandedWhole
<1> QED
  BY <1>1, <1>2 DEF DiskInv

THEOREM DiskInvCorrect == ASSUME ~Coarse PROVE Spec => []DiskInv
<1>1. TypeOK /\ DiskInv /\ [Next]_vars => DiskInv'
  <2>1. TypeOK /\ DiskInv /\ Next => DiskInv'
    BY NamesDifferInductive, LandedWholeInductive DEF DiskInv
  <2>2. DiskInv /\ UNCHANGED vars => DiskInv'
    BY DEF vars, disk, local, DiskInv, NamesDiffer, LandedWhole
  <2> QED
    BY <2>1, <2>2
<1> QED
  BY <1>1, DiskInvInit, TypeCorrect, PTL DEF Spec

(* NeverTorn: no reader of the canonical file ever gets a half-written        *)
(* document, provided the clock tells the writers apart.                      *)
THEOREM FileNeverTorn == ASSUME ~Coarse PROVE Spec => []NeverTorn
<1>1. TypeOK /\ DiskInv => NeverTorn
  BY DEF TypeOK, DiskInv, LandedWhole, NeverTorn, Readable
<1> QED
  BY <1>1, DiskInvCorrect, TypeCorrect, PTL

(* A request answered with an error never put its document in the canonical   *)
(* file, whatever writers and crashes come between.                           *)
THEOREM FailureIsUntouched ==
    ASSUME ~Coarse PROVE Spec => []FailureMeansUntouched
<1>1. TypeOK /\ DiskInv => FailureMeansUntouched
  BY DEF DiskInv, LandedWhole, FailureMeansUntouched, Refused
<1> QED
  BY <1>1, DiskInvCorrect, TypeCorrect, PTL

(* A request answered with success did: its document was the canonical one.   *)
THEOREM SuccessIsPersisted ==
    ASSUME ~Coarse PROVE Spec => []SuccessMeansPersisted
<1>1. TypeOK /\ DiskInv => SuccessMeansPersisted
  BY DEF DiskInv, LandedWhole, SuccessMeansPersisted, Refused
<1> QED
  BY <1>1, DiskInvCorrect, TypeCorrect, PTL

-----------------------------------------------------------------------------
(* Versions and validity of what is on its way to the disk. *)

(* Every step but a request's preparation leaves all drafts alone, and moves  *)
(* requests only along the write.                                             *)
LEMMA WriteKeepsDrafts ==
    ASSUME TypeOK, WriteStep
    PROVE  /\ UNCHANGED <<seed, draft, base, kind, match>>
           /\ now' \in Nat /\ now' >= now
           /\ \A q \in Req :
                 /\ pc'[q] \in Drafting \cup {"saved"} => pc[q] \in Drafting \cup {"saved"}
                 /\ pc'[q] \in Validated \cup {"saved"} => pc[q] \in Validated \cup {"saved"}
                 /\ pc'[q] \in Drafting => pc[q] \in Drafting
                 /\ pc'[q] \in {"idle", "prime"} => pc[q] \in {"idle", "prime"}
                 /\ pc'[q] \in InFlight => pc[q] \in InFlight
<1> USE DEF Drafting, Validated, InFlight
<1>1. ASSUME NEW r \in Req, NEW label, Goto(r, label)
      PROVE  pc'[r] = label /\ \A q \in Req \ {r} : pc'[q] = pc[q]
  BY <1>1 DEF Goto, TypeOK
<1>2. ASSUME NEW r \in Req, Open(r) \/ Fail(r)
      PROVE  /\ UNCHANGED <<seed, draft, base, kind, match>>
             /\ now' \in Nat /\ now' >= now
             /\ pc[r] \in {"open", "fill", "rename"} /\ pc'[r] \in {"fill", "unlink"}
             /\ pc'[r] = "fill" => pc[r] = "open"
             /\ \A q \in Req \ {r} : pc'[q] = pc[q]
  BY <1>1, <1>2, ClockType DEF Open, Fail, disk, TypeOK
<1>3. ASSUME NEW r \in Req, Fill(r) \/ Rename(r) \/ Unlink(r)
      PROVE  /\ UNCHANGED <<seed, draft, base, kind, match>>
             /\ now' = now
             /\ pc[r] \in {"fill", "rename", "unlink"}
             /\ pc'[r] \in {"rename", "saved", "unlink", "error"}
             /\ pc[r] = "unlink" => pc'[r] = "error"
             /\ \A q \in Req \ {r} : pc'[q] = pc[q]
  BY <1>1, <1>3 DEF Fill, Rename, Unlink, local
<1>4. ASSUME NEW p \in Process, Crash(p)
      PROVE  /\ UNCHANGED <<seed, draft, base, kind, match, now>>
             /\ \A q \in Req : pc'[q] \in {"lost", pc[q]}
  BY <1>4 DEF Crash, disk, local, TypeOK
<1>5. CASE \E r \in Req : Open(r) \/ Fail(r)
  BY <1>2, <1>5
<1>6. CASE \E r \in Req : Fill(r) \/ Rename(r) \/ Unlink(r)
  BY <1>3, <1>6 DEF TypeOK
<1>7. CASE \E p \in Process : Crash(p)
  BY <1>4, <1>7 DEF TypeOK
<1> QED
  BY <1>5, <1>6, <1>7 DEF WriteStep

LEMMA StampsDifferInductive ==
    ASSUME ~Coarse, TypeOK, NamesDiffer, StampsDiffer, Next
    PROVE  StampsDiffer'
<1>0. now \in Nat /\ now >= 2 /\ \A q \in Req : draft[q].version \in Nat
  BY DEF TypeOK, Store, NamesDiffer
<1>1. ASSUME NEW r \in Req, Prepares(r)
      PROVE  StampsDiffer'
  <2>1. /\ seed' = seed
        /\ \A q \in Req \ {r} : draft'[q] = draft[q] /\ pc'[q] = pc[q]
        /\ pc'[r] # "saved"
    BY <1>1 DEF Prepares, disk, Refused, TypeOK
  <2>2. CASE draft'[r].version = now /\ ReadClock
    <3>1. now' = now + 1
      BY <2>2, ClockType, <1>0
    <3> QED
      BY <1>0, <2>1, <2>2, <3>1 DEF StampsDiffer
  <2>3. CASE /\ draft'[r].version = draft[r].version
             /\ now' = now
             /\ pc'[r] \in Drafting => pc[r] \in Drafting
    <3>1. \A q \in Req : draft'[q].version = draft[q].version
      BY <2>1, <2>3
    <3>2. \A q \in Req : pc'[q] \in Drafting \cup {"saved"} => pc[q] \in Drafting \cup {"saved"}
      BY <2>1, <2>3
    <3> QED
      BY <2>1, <2>3, <3>1, <3>2 DEF StampsDiffer
  <2> QED
    BY <1>1, <2>2, <2>3 DEF Prepares
<1>2. CASE WriteStep
  BY <1>0, <1>2, WriteKeepsDrafts DEF StampsDiffer
<1> QED
  BY <1>1, <1>2, StepCases

LEMMA DraftsValidInductive ==
    ASSUME TypeOK, DraftsValid, Next
    PROVE  DraftsValid'
<1>1. ASSUME NEW r \in Req, Prepares(r)
      PROVE  DraftsValid'
  <2>1. /\ seed' = seed
        /\ \A q \in Req \ {r} : draft'[q] = draft[q] /\ pc'[q] = pc[q]
        /\ pc'[r] # "saved"
    BY <1>1 DEF Prepares, disk, Refused, TypeOK
  <2>2. pc'[r] \in Validated => Valid(draft'[r].events)
    BY <1>1 DEF Prepares, DraftsValid, Validated, Drafting
  <2> QED
    BY <2>1, <2>2 DEF DraftsValid
<1>2. CASE WriteStep
  BY <1>2, WriteKeepsDrafts DEF DraftsValid
<1> QED
  BY <1>1, <1>2, StepCases

LEMMA DraftsInit == Init => StampsDiffer /\ DraftsValid
<1> SUFFICES ASSUME Init PROVE StampsDiffer /\ DraftsValid
  OBVIOUS
<1>1. seed # Malformed => seed.version = 1 /\ Valid(seed.events)
  BY StoreAssumption DEF Init
<1>2. \A r \in Req : pc[r] = "idle" /\ draft[r].version = 0
  BY DEF Init, EmptyStore, EpochVersion
<1> QED
  BY <1>1, <1>2 DEF Init, StampsDiffer, DraftsValid, Drafting, Validated

THEOREM DraftsCorrect ==
    ASSUME ~Coarse PROVE Spec => [](DiskInv /\ StampsDiffer /\ DraftsValid)
<1>1. TypeOK /\ DiskInv /\ StampsDiffer /\ DraftsValid /\ [Next]_vars
         => StampsDiffer' /\ DraftsValid'
  <2>1. TypeOK /\ DiskInv /\ StampsDiffer /\ DraftsValid /\ Next
           => StampsDiffer' /\ DraftsValid'
    BY StampsDifferInductive, DraftsValidInductive DEF DiskInv
  <2>2. StampsDiffer /\ DraftsValid /\ UNCHANGED vars => StampsDiffer' /\ DraftsValid'
    BY DEF vars, disk, local, StampsDiffer, DraftsValid
  <2> QED
    BY <2>1, <2>2
<1> QED
  BY <1>1, DraftsInit, DiskInvCorrect, TypeCorrect, PTL DEF Spec

(* PersistedIsValid: every document that is ever readable validates.          *)
THEOREM PersistedStoresValid == ASSUME ~Coarse PROVE Spec => []PersistedIsValid
<1>1. TypeOK /\ DiskInv /\ DraftsValid => PersistedIsValid
  <2> SUFFICES ASSUME TypeOK, DiskInv, DraftsValid, NEW d \in Published
               PROVE  Valid(d.events)
    BY DEF PersistedIsValid
  <2>1. Valid(EmptyStore.events)
    BY DEF Valid, Saved, EmptyStore
  <2>2. \A f \in (landed \ {Original}) \cap filled : f \in Req /\ pc[f] = "saved"
    BY DEF TypeOK, DiskInv, LandedWhole
  <2> QED
    BY <2>1, <2>2 DEF Published, DraftsValid
<1> QED
  BY <1>1, DraftsCorrect, TypeCorrect, PTL

-----------------------------------------------------------------------------
(* Reads: the canonical document changes only where a rename succeeds. *)

LEMMA ReaderSeesPublished ==
    ASSUME TypeOK, DiskInv, File # Malformed
    PROVE  File \in Published
<1>1. CASE target = NoFile
  BY <1>1 DEF File, Published, DiskInv, LandedWhole
<1>2. CASE target = Original
  BY <1>2, StoreAssumption DEF File, Contents, Published, DiskInv, LandedWhole
<1>3. CASE target \in Req
  BY <1>3, StoreAssumption DEF File, Contents, Published, DiskInv, LandedWhole
<1> QED
  BY <1>1, <1>2, <1>3 DEF TypeOK

(* The step that publishes the draft of r. *)
Publishes(r) ==
    /\ Commits(r)
    /\ pc' = [pc EXCEPT ![r] = "saved"]
    /\ UNCHANGED <<draft, base, kind, match>>
    /\ File' = draft[r]
    /\ Published' = Published \cup {draft[r]}

LEMMA UntouchedFile ==
    ASSUME TypeOK, DiskInv, UNCHANGED <<seed, target, landed>>,
           NEW r \in Req, pc[r] # "saved",
           \A q \in Req \ {r} : draft'[q] = draft[q] /\ (q \in filled' <=> q \in filled)
    PROVE  UNCHANGED <<File, Published>>
<1>1. r \notin landed /\ r # Original /\ r # NoFile /\ target # r
  BY StoreAssumption DEF DiskInv, LandedWhole
<1>2. File' = File
  BY <1>1, StoreAssumption DEF File, Contents, TypeOK
<1>3. (landed \ {Original}) \cap filled' = (landed \ {Original}) \cap filled
  BY <1>1 DEF TypeOK
<1>4. \A f \in (landed \ {Original}) \cap filled : draft'[f] = draft[f]
  BY <1>1 DEF TypeOK
<1>5. Published' = Published
  BY <1>3, <1>4 DEF Published
<1> QED
  BY <1>2, <1>5

LEMMA ReaderSteps ==
    ASSUME TypeOK, DiskInv, Next
    PROVE  \/ /\ UNCHANGED <<File, Published>>
              /\ \A r \in Req : ~Commits(r)
           \/ \E r \in Req : Publishes(r)
<1>1. ASSUME NEW r \in Req, NEW label, Goto(r, label)
      PROVE  pc'[r] = label /\ \A q \in Req \ {r} : pc'[q] = pc[q]
  BY <1>1 DEF Goto, TypeOK
<1>2. ASSUME NEW r \in Req, Prepares(r)
      PROVE  UNCHANGED <<File, Published>> /\ \A q \in Req : ~Commits(q)
  <2>1. UNCHANGED <<File, Published>>
    BY <1>2, UntouchedFile DEF Prepares, disk, Preparing
  <2>2. \A q \in Req : ~Commits(q)
    BY <1>2 DEF Prepares, Commits, Refused, TypeOK
  <2> QED
    BY <2>1, <2>2
<1>3. ASSUME NEW r \in Req, Open(r) \/ Fail(r) \/ Unlink(r) \/ Fill(r)
      PROVE  UNCHANGED <<File, Published>> /\ \A q \in Req : ~Commits(q)
  <2>1. /\ UNCHANGED <<seed, target, landed, draft>>
        /\ pc[r] # "saved"
        /\ \A q \in Req \ {r} : q \in filled' <=> q \in filled
    BY <1>3 DEF Open, Fail, Unlink, Fill, disk, local
  <2>2. UNCHANGED <<File, Published>>
    BY <2>1, UntouchedFile
  <2>3. pc'[r] # "saved" /\ \A q \in Req \ {r} : pc'[q] = pc[q]
    BY <1>1, <1>3 DEF Open, Fail, Unlink, Fill
  <2> QED
    BY <2>2, <2>3 DEF Commits
<1>4. ASSUME NEW r \in Req, Rename(r)
      PROVE  \/ UNCHANGED <<File, Published>> /\ \A q \in Req : ~Commits(q)
             \/ Publishes(r)
  <2>1. CASE At(name[r]) = {}
    <3>1. pc'[r] = "unlink" /\ \A q \in Req \ {r} : pc'[q] = pc[q]
      BY <1>1, <1>4, <2>1 DEF Rename
    <3>2. UNCHANGED <<File, Published>>
      BY <1>4, <2>1, UntouchedFile DEF Rename, local
    <3> QED
      BY <3>1, <3>2 DEF Commits
  <2>2. CASE At(name[r]) # {}
    <3>1. At(name[r]) \subseteq {r}
      BY <1>4 DEF At, DiskInv, NamesDiffer, Rename, Named, TypeOK
    <3>2. /\ target' = r /\ landed' = landed \cup {r}
          /\ UNCHANGED <<seed, filled, draft, base, kind, match>>
          /\ pc' = [pc EXCEPT ![r] = "saved"]
          /\ pc[r] = "rename"
      BY <1>4, <2>2, <3>1 DEF Rename, Goto, local
    <3>3. r \in filled /\ r # Original /\ r # NoFile
      BY <3>2, StoreAssumption DEF DiskInv, LandedWhole
    <3>4. File' = draft[r]
      BY <3>2, <3>3 DEF File, Contents
    <3>5. Published' = Published \cup {draft[r]}
      BY <3>2, <3>3 DEF Published
    <3>6. pc'[r] = "saved"
      BY <3>2 DEF TypeOK
    <3> QED
      BY <3>2, <3>4, <3>5, <3>6 DEF Publishes, Commits
  <2> QED
    BY <2>1, <2>2
<1>5. ASSUME NEW p \in Process, Crash(p)
      PROVE  UNCHANGED <<File, Published>> /\ \A q \in Req : ~Commits(q)
  <2>1. UNCHANGED <<File, Published>>
    BY <1>5 DEF Crash, disk, local, File, Contents, Published
  <2>2. \A q \in Req : pc'[q] \in {"lost", pc[q]}
    BY <1>5 DEF Crash, TypeOK
  <2> QED
    BY <2>1, <2>2 DEF Commits
<1> QED
  BY <1>2, <1>3, <1>4, <1>5, StepCases DEF WriteStep

-----------------------------------------------------------------------------
(* Writes: what a request drafts is an edit of a store it read. *)

(* The part of DraftsEdit and Expected that concerns r, in the next state,    *)
(* where Published is still the one of this state.                            *)
DraftsWell(r) ==
    /\ pc'[r] \in {"prime", "engine", "saveread"} => kind'[r] \in Refresh
    /\ pc'[r] \in {"idle", "prime"} => match'[r] = NoMatch
    /\ pc'[r] \in Drafting =>
          /\ base'[r] \in Published
          /\ kind'[r] \in Refresh => SameStructure(base'[r].events, draft'[r].events)
          /\ kind'[r] # "save" => Contract!Edit(base'[r].events, draft'[r].events)
          /\ kind'[r] = "save" =>
                \E view \in Published : Contract!Rename(view.events, draft'[r].events)
          /\ match'[r] # NoMatch =>
                kind'[r] # "save" /\ match'[r] = base'[r].version

LEMMA AnswerDraftsWell ==
    ASSUME TypeOK, NEW r \in Req, NEW label \in Refused \cup {"noop"}, Answer(r, label)
    PROVE  DraftsWell(r)
BY DEF Answer, Goto, TypeOK, DraftsWell, Refused, Drafting

LEMMA SubmitDraftsWell ==
    ASSUME TypeOK, DiskInv, File # Malformed,
           NEW r \in Req, NEW events, Submit(r, events),
           kind'[r] \in {"upsert", "delete", "save"},
           kind'[r] # "save" => Contract!Edit(File.events, events),
           kind'[r] = "save" =>
              \E view \in Published : Contract!Rename(view.events, events),
           match'[r] # NoMatch => kind'[r] # "save" /\ match'[r] = File.version
    PROVE  DraftsWell(r)
<1>1. base'[r] = File /\ File \in Published
  BY ReaderSeesPublished DEF Submit, TypeOK
<1>2. draft'[r].events = events
  BY DEF Submit, TypeOK
<1>3. pc'[r] \in {"open", "invalid"}
  BY DEF Submit, Goto, TypeOK
<1> QED
  BY <1>1, <1>2, <1>3 DEF DraftsWell, Refresh, Drafting

LEMMA CallDraftsWell ==
    ASSUME TypeOK, DiskInv, DraftsEdit, Expected, NEW r \in Req, Call(r)
    PROVE  DraftsWell(r)
<1> USE DEF Refused
<1>a. ASSUME NEW label \in Refused \cup {"noop"}, Answer(r, label)
      PROVE  DraftsWell(r)
  BY <1>a, AnswerDraftsWell
<1>k. ASSUME NEW k \in Kind, Starts(r, k)
      PROVE  kind'[r] = k /\ match[r] = NoMatch
  BY <1>k DEF Starts, TypeOK, Expected
<1>m. ASSUME NEW m \in IfMatch, Expects(r, m)
      PROVE  match'[r] = m
  BY <1>m DEF Expects, TypeOK
<1>1. ASSUME NEW e \in Event, NEW snap \in Uploads, NEW m \in IfMatch,
             Upsert(r, e, snap, m)
      PROVE  DraftsWell(r)
  <2>1. kind'[r] = "upsert" /\ match'[r] = m
    BY <1>1, <1>k, <1>m DEF Upsert, Kind
  <2>2. CASE File # Malformed /\ ~Stale(m) /\ Submit(r, WithEvent(File.events, e, snap))
    <3>1. Contract!Edit(File.events, WithEvent(File.events, e, snap))
      BY StoreAssumption DEF Contract!Edit, Contract!WithEvent, WithEvent,
         Contract!Snapshot, Snapshot
    <3> QED
      BY <2>1, <2>2, <3>1, SubmitDraftsWell DEF Stale
  <2> QED
    BY <1>1, <1>a, <2>2 DEF Upsert
<1>2. ASSUME NEW e \in Event, NEW m \in IfMatch, Delete(r, e, m)
      PROVE  DraftsWell(r)
  <2>1. kind'[r] = "delete" /\ match'[r] = m
    BY <1>2, <1>k, <1>m DEF Delete, Kind
  <2>2. CASE /\ File # Malformed /\ ~Stale(m) /\ e \in Saved(File.events)
             /\ Submit(r, WithoutEvent(File.events, e))
    <3>1. Contract!Edit(File.events, WithoutEvent(File.events, e))
      BY <2>2 DEF Contract!Edit, Contract!WithoutEvent, WithoutEvent,
         Contract!Saved, Saved
    <3> QED
      BY <2>1, <2>2, <3>1, SubmitDraftsWell DEF Stale
  <2> QED
    BY <1>2, <1>a, <2>2 DEF Delete
<1>3. ASSUME NEW view \in Published, NEW from \in Event, NEW to \in Event,
             Save(r, view, from, to)
      PROVE  DraftsWell(r)
  <2>1. kind'[r] = "save" /\ match'[r] = NoMatch
    BY <1>3, <1>k DEF Save, Kind
  <2>2. CASE File # Malformed /\ Submit(r, Renamed(view.events, from, to))
    <3>1. Contract!Rename(view.events, Renamed(view.events, from, to))
      BY <1>3 DEF Save, Contract!Rename, Contract!Renamed, Renamed,
         Contract!Saved, Saved
    <3> QED
      BY <2>1, <2>2, <3>1, SubmitDraftsWell
  <2> QED
    BY <1>3, <1>a, <2>2 DEF Save
<1>4. ASSUME NEW sc \in {{e} : e \in Event} \cup {Event}, Prime(r, sc)
      PROVE  DraftsWell(r)
  <2>1. kind'[r] = "recompute" /\ match'[r] = NoMatch
    BY <1>4, <1>k DEF Prime, Kind
  <2>2. CASE Goto(r, "prime")
    BY <2>1, <2>2 DEF Goto, TypeOK, DraftsWell, Drafting, Refresh
  <2> QED
    BY <1>4, <1>a, <2>2 DEF Prime
<1>r. SameStructure(File.events, File.events)
  BY DEF SameStructure
<1>5. ASSUME NEW m \in IfMatch, Recompute(r, m)
      PROVE  DraftsWell(r)
  <2>1. kind'[r] = kind[r] /\ kind[r] \in Refresh /\ match'[r] = m
    BY <1>5, <1>m DEF Recompute, DraftsEdit
  <2>2. CASE /\ File # Malformed /\ ~Stale(m)
             /\ base' = [base EXCEPT ![r] = File]
             /\ draft' = [draft EXCEPT ![r] = [File EXCEPT !.version = now]]
             /\ Goto(r, "engine")
    <3>1. /\ base'[r] = File /\ draft'[r].events = File.events
          /\ pc'[r] = "engine" /\ File \in Published
      BY <2>2, FileType, ReaderSeesPublished DEF Goto, TypeOK, Store
    <3>2. Contract!Edit(File.events, File.events)
      BY DEF Contract!Edit, Contract!SameStructure
    <3> QED
      BY <1>r, <2>1, <2>2, <3>1, <3>2 DEF DraftsWell, Stale, Refresh
  <2> QED
    BY <1>5, <1>a, <2>2 DEF Recompute
<1>6. ASSUME Migrate(r)
      PROVE  DraftsWell(r)
  <2>1. kind'[r] = "migrate" /\ match'[r] = NoMatch
    BY <1>6, <1>k DEF Migrate, Kind
  <2>2. CASE /\ File # Malformed
             /\ base' = [base EXCEPT ![r] = File]
             /\ draft' = [draft EXCEPT ![r] = [File EXCEPT !.version = now]]
             /\ Goto(r, "engine")
    <3>1. /\ base'[r] = File /\ draft'[r].events = File.events
          /\ pc'[r] = "engine" /\ File \in Published
      BY <2>2, FileType, ReaderSeesPublished DEF Goto, TypeOK, Store
    <3>2. Contract!Edit(File.events, File.events)
      BY DEF Contract!Edit, Contract!SameStructure
    <3> QED
      BY <1>r, <2>1, <3>1, <3>2 DEF DraftsWell, Refresh
  <2> QED
    BY <1>6, <1>a, <2>2 DEF Migrate
<1> QED
  BY <1>1, <1>2, <1>3, <1>4, <1>5, <1>6 DEF Call

LEMMA RefreshDraftsWell ==
    ASSUME TypeOK, DraftsEdit, Expected, NEW r \in Req,
           RunEngine(r) \/ SaveMigrated(r)
    PROVE  DraftsWell(r)
<1>1. pc[r] \in {"engine", "saveread"} /\ UNCHANGED <<kind, match>> /\ base' = base
  BY DEF RunEngine, SaveMigrated, Answer
<1>2. kind[r] \in Refresh /\ pc[r] \in Drafting
  BY <1>1 DEF DraftsEdit, Drafting
<1>3. CASE \E label \in Refused : Answer(r, label)
  BY <1>1, <1>2, <1>3, AnswerDraftsWell
<1>4. CASE ~ \E label \in Refused : Answer(r, label)
  <2>1. SameStructure(base[r].events, draft'[r].events)
    <3>1. CASE RunEngine(r)
      <4>1. PICK out \in EngineOutputs(base[r].events, primed[r], scope[r]) :
               draft' = [draft EXCEPT ![r].events =
                            Refreshed(base[r].events, out, scope[r])]
        BY <1>4, <3>1 DEF RunEngine, Refused
      <4>2. draft'[r].events = Refreshed(base[r].events, out, scope[r])
        BY <4>1 DEF TypeOK, Store
      <4>3. /\ base[r].events \in Events /\ primed[r] \in Events
            /\ scope[r] \in SUBSET Event
        BY DEF TypeOK, Store
      <4>4. SameStructure(base[r].events, Refreshed(base[r].events, out, scope[r]))
        BY <4>3, RefreshedType
      <4> QED
        BY <4>2, <4>4
    <3>2. CASE SaveMigrated(r)
      <4>1. draft' = [draft EXCEPT ![r].version = now]
        BY <1>4, <3>2 DEF SaveMigrated, Refused
      <4>2. draft'[r].events = draft[r].events
        BY <4>1 DEF TypeOK, Store
      <4> QED
        BY <1>2, <4>2 DEF DraftsEdit
    <3> QED
      BY <3>1, <3>2
  <2>2. Contract!Edit(base[r].events, draft'[r].events)
    BY <2>1 DEF Contract!Edit, Contract!SameStructure, SameStructure,
       Contract!Saved, Saved
  <2>3. /\ base[r] \in Published
        /\ match[r] # NoMatch => kind[r] # "save" /\ match[r] = base[r].version
    BY <1>2 DEF DraftsEdit, Expected
  <2>4. pc'[r] \in {"invalid", "saveread", "open"}
    BY <1>4 DEF RunEngine, SaveMigrated, Goto, TypeOK, Refused
  <2> QED
    BY <1>1, <1>2, <2>1, <2>2, <2>3, <2>4 DEF DraftsWell, Refresh
<1> QED
  BY <1>1, <1>2, <1>3, <1>4

LEMMA DraftsEditInductive ==
    ASSUME TypeOK, DiskInv, DraftsEdit, Expected, Next
    PROVE  DraftsEdit' /\ Expected'
<1>1. Published \subseteq Published'
  BY ReaderSteps DEF Publishes
<1>2. ASSUME NEW r \in Req, DraftsWell(r),
             \A q \in Req \ {r} : /\ pc'[q] = pc[q] /\ draft'[q] = draft[q]
                                  /\ base'[q] = base[q] /\ kind'[q] = kind[q]
                                  /\ match'[q] = match[q]
      PROVE  DraftsEdit' /\ Expected'
  <2>1. ASSUME NEW q \in Req
        PROVE  DraftsWell(q)
    BY <1>2, <2>1 DEF DraftsWell, DraftsEdit, Expected
  <2> QED
    BY <1>1, <2>1 DEF DraftsWell, DraftsEdit, Expected
<1>3. ASSUME NEW r \in Req, Call(r)
      PROVE  DraftsEdit' /\ Expected'
  BY <1>2, <1>3, CallDraftsWell, CallPrepares DEF Prepares, TypeOK
<1>4. ASSUME NEW r \in Req, RunEngine(r) \/ SaveMigrated(r)
      PROVE  DraftsEdit' /\ Expected'
  <2>1. Prepares(r)
    BY <1>4, RunEnginePrepares, SaveMigratedPrepares
  <2> QED
    BY <1>2, <1>4, <2>1, RefreshDraftsWell DEF Prepares, TypeOK
<1>5. CASE WriteStep
  <2>1. /\ UNCHANGED <<draft, base, kind, match>>
        /\ \A q \in Req : /\ pc'[q] \in Drafting => pc[q] \in Drafting
                          /\ pc'[q] \in {"idle", "prime"} => pc[q] \in {"idle", "prime"}
    BY <1>5, WriteKeepsDrafts
  <2>2. \A q \in Req : pc'[q] \in {"prime", "engine", "saveread"} => pc'[q] = pc[q]
    <3>1. ASSUME NEW r \in Req, NEW label, Goto(r, label)
          PROVE  pc'[r] = label /\ \A q \in Req \ {r} : pc'[q] = pc[q]
      BY <3>1 DEF Goto, TypeOK
    <3>2. ASSUME NEW r \in Req, Open(r) \/ Fill(r) \/ Rename(r) \/ Fail(r) \/ Unlink(r)
          PROVE  /\ pc'[r] \in {"fill", "rename", "saved", "unlink", "error"}
                 /\ \A q \in Req \ {r} : pc'[q] = pc[q]
      BY <3>1, <3>2 DEF Open, Fill, Rename, Fail, Unlink
    <3>3. ASSUME NEW p \in Process, Crash(p)
          PROVE  \A q \in Req : pc'[q] \in {"lost", pc[q]}
      BY <3>3 DEF Crash, TypeOK
    <3> QED
      BY <1>5, <3>2, <3>3 DEF WriteStep
  <2> QED
    BY <1>1, <2>1, <2>2 DEF DraftsEdit, Expected
<1> QED
  BY <1>3, <1>4, <1>5 DEF Next, Work, WriteStep

LEMMA DraftsEditInit == Init => DraftsEdit /\ Expected
BY DEF Init, DraftsEdit, Expected, Drafting

THEOREM RequestsCorrect ==
    ASSUME ~Coarse
    PROVE  Spec => [](/\ DiskInv /\ StampsDiffer /\ DraftsValid
                      /\ MalformedStops /\ DraftsEdit /\ Expected)
<1>1. TypeOK /\ DiskInv /\ DraftsEdit /\ Expected /\ [Next]_vars
         => DraftsEdit' /\ Expected'
  <2>1. DraftsEdit /\ Expected /\ UNCHANGED vars => DraftsEdit' /\ Expected'
    BY DEF vars, disk, local, DraftsEdit, Expected, Published
  <2> QED
    BY <2>1, DraftsEditInductive
<1> QED
  BY <1>1, DraftsEditInit, DraftsCorrect, MalformedStopsInit, MalformedStopsInductive,
     TypeCorrect, PTL DEF Spec

LEMMA EditsAreLocal ==
    ASSUME NEW old \in Events, NEW new, Contract!Edit(old, new)
    PROVE  EditOf(old, new)
BY DEF EditOf, Contract!Edit, Contract!WithEvent, Contract!WithoutEvent,
   Contract!Saved, Contract!SameStructure, SameStructure, Saved, Events

(* EditsWhatItRead: a commit to the store its handler read changes one event, *)
(* or derived research only; no other event is lost on the way.               *)
THEOREM EditsOnlyWhatItRead == ASSUME ~Coarse PROVE Spec => EditsWhatItRead
<1> DEFINE Kept(r) == (Commits(r) /\ kind[r] # "save" /\ base[r] = File) =>
                         EditOf(File.events, File'.events)
<1>1. TypeOK /\ DiskInv /\ DraftsEdit /\ [Next]_vars => \A r \in Req : Kept(r)
  <2> SUFFICES ASSUME TypeOK, DiskInv, DraftsEdit, [Next]_vars,
                      NEW r \in Req, Commits(r), kind[r] # "save", base[r] = File
               PROVE  EditOf(File.events, File'.events)
    OBVIOUS
  <2>1. Next
    BY DEF Commits, vars
  <2>2. Publishes(r)
    BY <2>1, ReaderSteps DEF Publishes, Commits, TypeOK
  <2>3. Contract!Edit(File.events, File'.events)
    BY <2>2 DEF Publishes, Commits, DraftsEdit, Drafting
  <2>4. File.events \in Events
    BY DEF TypeOK, Store
  <2> QED
    BY <2>3, <2>4, EditsAreLocal
<1> QED
  BY <1>1, RequestsCorrect, TypeCorrect, PTL DEF Spec, EditsWhatItRead

-----------------------------------------------------------------------------
(* Everything in SelectionStoreInvariants holds.                              *)
THEOREM InFlightIsConsistent == ASSUME ~Coarse PROVE Spec => []InFlightConsistent
<1>1. DiskInv /\ StampsDiffer /\ DraftsValid /\ MalformedStops /\ DraftsEdit
         /\ Expected => InFlightConsistent
  BY DEF InFlightConsistent
<1> QED
  BY <1>1, RequestsCorrect, PTL

(* EditsWhatItsClientSaw: what a request that names a version puts in the     *)
(* file is an edit of a document that was served under that version, whatever *)
(* other requests, the migration and crashes do in the meantime.              *)
THEOREM EditsOnlyWhatItsClientSaw == ASSUME ~Coarse PROVE Spec => EditsWhatItsClientSaw
<1> DEFINE Seen(r) == (Commits(r) /\ match[r] # NoMatch) =>
             \E d \in Published : /\ d.version = match[r]
                                   /\ EditOf(d.events, File'.events)
<1>1. TypeOK /\ InFlightConsistent /\ [Next]_vars => \A r \in Req : Seen(r)
  <2> SUFFICES ASSUME TypeOK, InFlightConsistent, [Next]_vars,
                      NEW r \in Req, Commits(r), match[r] # NoMatch
               PROVE  \E d \in Published : /\ d.version = match[r]
                                            /\ EditOf(d.events, File'.events)
    OBVIOUS
  <2>1. Next
    BY DEF Commits, vars
  <2>2. Publishes(r)
    BY <2>1, ReaderSteps DEF InFlightConsistent, Publishes, Commits, TypeOK
  <2>3. pc[r] \in Drafting
    BY DEF Commits, Drafting
  <2>4. base[r] \in Published /\ base[r].version = match[r] /\ kind[r] # "save"
    BY <2>3 DEF InFlightConsistent, DraftsEdit, Expected
  <2>5. Contract!Edit(base[r].events, File'.events)
    BY <2>2, <2>3, <2>4 DEF Publishes, InFlightConsistent, DraftsEdit
  <2>6. EditOf(base[r].events, File'.events)
    BY <2>4, <2>5, EditsAreLocal DEF TypeOK, Store
  <2> QED
    BY <2>4, <2>6
<1> QED
  BY <1>1, InFlightIsConsistent, TypeCorrect, PTL DEF Spec, EditsWhatItsClientSaw

-----------------------------------------------------------------------------
(* Refinement. *)

LEMMA SameData ==
    /\ Contract!Store = Store
    /\ \A events : Contract!Valid(events) <=> Valid(events)
BY DEF Contract!Store, Store, Contract!Events, Events, Contract!Snapshot, Snapshot,
   Contract!Valid, Valid, Contract!Saved, Saved

LEMMA InitImplements == Init => Contract!Init
<1> SUFFICES ASSUME Init PROVE Contract!Init
  OBVIOUS
<1>1. CASE target = NoFile
  <2>1. File = EmptyStore /\ Published = {EmptyStore} /\ EmptyStore # Malformed
    BY <1>1, EmptyStoreType, StoreAssumption DEF Init, File, Published
  <2>2. Valid(EmptyStore.events)
    BY DEF Valid, Saved, EmptyStore
  <2> QED
    BY <2>1, <2>2, EmptyStoreType, SameData DEF Contract!Init
<1>2. CASE target = Original
  <2>1. File = seed /\ Published = {seed} \ {Malformed}
    BY <1>2, StoreAssumption DEF Init, File, Contents, Published
  <2>2. seed # Malformed => seed \in Store /\ Valid(seed.events)
    BY StoreAssumption DEF Init, Store
  <2> QED
    BY <2>1, <2>2, SameData DEF Contract!Init
<1> QED
  BY <1>1, <1>2 DEF Init

LEMMA PublishImplements ==
    ASSUME TypeOK, InFlightConsistent, NEW r \in Req, Publishes(r)
    PROVE  Contract!Commit
<1>1. pc[r] = "rename" /\ pc'[r] = "saved" /\ draft' = draft
  BY DEF Publishes, Commits
<1>2. File # Malformed
  <2>1. ~ (Original \in landed /\ seed = Malformed)
    BY <1>1 DEF InFlightConsistent, MalformedStops, InFlight
  <2>2. CASE target = NoFile
    BY <2>2, EmptyStoreType, StoreAssumption DEF File
  <2>3. CASE target = Original
    BY <2>1, <2>3, StoreAssumption
    DEF File, Contents, InFlightConsistent, DiskInv, LandedWhole
  <2>4. CASE target \in Req
    BY <2>4, StoreAssumption
    DEF File, Contents, TypeOK, InFlightConsistent, DiskInv, LandedWhole
  <2> QED
    BY <2>2, <2>3, <2>4 DEF TypeOK
<1>3. File' = draft[r] /\ draft[r] \in Store /\ Valid(draft[r].events)
  BY <1>1 DEF Publishes, TypeOK, InFlightConsistent, DraftsValid, Validated, Drafting
<1>4. ASSUME NEW d \in Published
      PROVE  d.version # draft[r].version
  <2>1. draft[r].version # 0 /\ draft[r].version # 1
    BY <1>1 DEF InFlightConsistent, StampsDiffer, Drafting
  <2>2. CASE Original \in landed /\ d = seed /\ seed # Malformed
    BY <2>1, <2>2 DEF InFlightConsistent, StampsDiffer
  <2>3. CASE d = EmptyStore
    BY <2>1, <2>3 DEF EmptyStore, EpochVersion
  <2>4. ASSUME NEW f \in (landed \ {Original}) \cap filled, d = draft[f]
        PROVE  d.version # draft[r].version
    <3>1. f \in Req /\ f # r
      BY <1>1, <2>4 DEF InFlightConsistent, DiskInv, LandedWhole, TypeOK
    <3> QED
      BY <2>1, <2>4, <3>1 DEF InFlightConsistent, StampsDiffer
  <2> QED
    BY <2>2, <2>3, <2>4 DEF Published
<1>5. \E b \in Published : \/ Contract!Edit(b.events, File'.events)
                           \/ Contract!Rename(b.events, File'.events)
  <2>1. pc[r] \in Drafting
    BY <1>1 DEF Drafting
  <2>2. CASE kind[r] = "save"
    BY <1>3, <2>1, <2>2 DEF InFlightConsistent, DraftsEdit
  <2>3. CASE kind[r] # "save"
    BY <1>3, <2>1, <2>3 DEF InFlightConsistent, DraftsEdit
  <2> QED
    BY <2>2, <2>3
<1>6. Published' = Published \cup {File'}
  BY <1>3 DEF Publishes
<1> QED
  BY <1>2, <1>3, <1>4, <1>5, <1>6, SameData DEF Contract!Commit

(* ImplementsEventStore: seen through its canonical file, the protocol of     *)
(* handlers, temporary files, renames, failures and crashes is the event      *)
(* store: whole, valid, freshly versioned documents, each an edit of one that *)
(* was readable.                                                              *)
THEOREM Implementation == ASSUME ~Coarse PROVE Spec => ImplementsEventStore
<1> DEFINE Abstract == <<File, Published>>
<1>1. TypeOK /\ InFlightConsistent /\ [Next]_vars
         => Contract!Commit \/ UNCHANGED Abstract
  <2> SUFFICES ASSUME TypeOK, InFlightConsistent, [Next]_vars
               PROVE  Contract!Commit \/ UNCHANGED Abstract
    OBVIOUS
  <2>1. CASE UNCHANGED vars
    BY <2>1 DEF vars, disk, local, File, Contents, Published
  <2>2. CASE Next
    BY <2>2, ReaderSteps, PublishImplements DEF InFlightConsistent
  <2> QED
    BY <2>1, <2>2
<1> QED
  BY <1>1, InitImplements, InFlightIsConsistent, TypeCorrect, PTL
  DEF Spec, ImplementsEventStore, Contract!Spec
=============================================================================
