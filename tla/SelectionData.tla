--------------------------- MODULE SelectionData ---------------------------
(* The research-selection store as data: what app/lib/research-selections.ts  *)
(* and app/lib/research-refresh.ts compute without touching the disk.         *)
(*                                                                            *)
(* One dataset owns one store.  A store maps each saved event to a snapshot;  *)
(* a snapshot keeps the structural identity of its selected structures (which *)
(* a refresh must never move), the research derived from them (which a        *)
(* refresh rebuilds), and the event id its controlled research-only rows      *)
(* carry.  Everything else in the JSON is abstracted away.                    *)
EXTENDS Naturals

CONSTANTS
    Event,        \* canonical event ids of one dataset
    Selection,    \* structural identities of an event's selected structures
    Research,     \* derived research an engine run can produce
    Unresolved,   \* the engine's "contracts could not be re-resolved" result
    NoEvent       \* the event is not in the store, or no controlled rows

Snapshot == [structure : Selection,
             research : Research \cup {Unresolved},
             controlledFor : Event \cup {NoEvent}]

ASSUME DataAssumption ==
    /\ Unresolved \notin Research
    /\ NoEvent \notin Event \cup Snapshot

Events == [Event -> Snapshot \cup {NoEvent}]

Store == [version : Nat, events : Events]

Saved(events) == {e \in Event : events[e] # NoEvent}

(* EMPTY_STORE_VERSION: the version of a store that has no file yet. *)
EpochVersion == 0

EmptyStore == [version |-> EpochVersion, events |-> [e \in Event |-> NoEvent]]

(* validateResearchSelectionStore, for the two rules that relate one part of  *)
(* an event to another: its structures keep an admissible analytical track,   *)
(* and its research-only rows carry its own id.                               *)
Valid(events) ==
    \A e \in Saved(events) :
        /\ events[e].research # Unresolved
        /\ events[e].controlledFor \in {e, NoEvent}

(* Fault: the upsert does not carry the other events over. *)
WithOnlyEvent(events, e, snap) == [d \in Event |-> IF d = e THEN snap ELSE NoEvent]

(* What upsertEvent and deleteEvent do to the event list. *)
WithEvent(events, e, snap) == [events EXCEPT ![e] = snap]
WithoutEvent(events, e) == [events EXCEPT ![e] = NoEvent]

(* renameResearchSelectionEvent: the snapshot moves to the new id with its    *)
(* selected structures re-pointed; its research-only rows keep the old id.    *)
Renamed(events, from, to) ==
    [events EXCEPT ![from] = NoEvent, ![to] = events[from]]

(* recomputeSelectedResearch rebuilds the research of the events in scope,    *)
(* with an engine that was primed with an earlier read of the store.  The     *)
(* engine throws on an event it was not primed with and answers Unresolved    *)
(* for structures it did not resolve contracts for.                           *)
InScope(events, scope) == Saved(events) \cap scope

EngineThrows(events, primed, scope) ==
    \E e \in InScope(events, scope) : primed[e] = NoEvent

EngineOutputs(events, primed, scope) ==
    {out \in [Event -> Research \cup {Unresolved}] :
        \A e \in InScope(events, scope) :
            primed[e].structure # events[e].structure => out[e] = Unresolved}

Refreshed(events, out, scope) ==
    [e \in Event |-> IF e \in InScope(events, scope)
                     THEN [events[e] EXCEPT !.research = out[e]]
                     ELSE events[e]]

(* structuralIdentityOf and structuralDifferences: what no refresh may move.  *)
SameStructure(old, new) ==
    /\ Saved(old) = Saved(new)
    /\ \A e \in Saved(old) : old[e].structure = new[e].structure
=============================================================================
