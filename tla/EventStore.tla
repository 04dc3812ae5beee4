----------------------------- MODULE EventStore -----------------------------
(* What the selection store promises its clients: one document that changes   *)
(* only by whole, valid, freshly versioned documents, each an edit of a       *)
(* document some client or handler could read.  There are no files, temporary *)
(* names, crashes or half-done requests here.  The document edited need not   *)
(* be the current one: an edit made meanwhile can be lost.                    *)
EXTENDS SelectionData

CONSTANT Malformed

VARIABLES
    store,        \* the document a reader gets
    published     \* every document that was ever readable (history)

Init ==
    /\ \/ store \in Store /\ Valid(store.events)
       \/ store = Malformed
    /\ published = {store} \ {Malformed}

(* One event saved, one event deleted, or derived research rebuilt. *)
Edit(old, new) ==
    \/ \E e \in Event, snap \in Snapshot : new = WithEvent(old, e, snap)
    \/ \E e \in Saved(old) : new = WithoutEvent(old, e)
    \/ SameStructure(old, new)

(* A whole-store PUT: a document the client holds, with one event renamed. *)
Rename(old, new) == \E from \in Saved(old), to \in Event : new = Renamed(old, from, to)

Commit ==
    /\ store # Malformed
    /\ store' \in Store
    /\ Valid(store'.events)
    /\ \A d \in published : d.version # store'.version
    /\ \E b \in published :
          Edit(b.events, store'.events) \/ Rename(b.events, store'.events)
    /\ published' = published \cup {store'}

Spec == Init /\ [][Commit]_<<store, published>>
=============================================================================
