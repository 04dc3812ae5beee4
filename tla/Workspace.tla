----------------------------- MODULE Workspace -----------------------------
(* One browser tab of the application (app/options-backtester.tsx) and the    *)
(* two stores that own an event: the trade dataset, which the user edits and  *)
(* saves as a whole, and the selection store, which holds the research saved  *)
(* for the dataset's events under their ids.                                  *)
(*                                                                            *)
(* A handler of the tab runs up to its fetch, and again from the answer; the  *)
(* server serves a request in one step, as EventStore allows it to: what its  *)
(* handlers do in between is the subject of SelectionStore.  An answer can be *)
(* lost after the server has done its work.                                   *)
EXTENDS Naturals, FiniteSets

CONSTANTS
    Dataset, Id, Trade,
    Home,         \* the dataset each trade belongs to
    Fresh,        \* the id addEvent makes up for a trade
    Initial,      \* the events each dataset file starts with
    Researched,   \* the trades whose research is saved from the start
    Call,         \* fetches the tab may have in flight
    None,
    MaxClock,     \* bound on the selection stores' versions
    Patient,      \* does the user wait for each answer?
    Discards,     \* does the user leave unsaved edits behind?
    Lossy,        \* operations whose request or answer can be lost
    Failing,      \* operations the server may refuse for reasons of its own
    Controlled    \* are there controlled-research structures?

Event == [id : Id, trade : Trade]

(* What is saved under an event id: the trades whose structures were selected *)
(* for it, and the event ids its controlled-research structures name.         *)
Record == [trades : SUBSET Trade, names : SUBSET Id]

(* A selection store.  The tab holds the last one it was sent.                *)
View == [of : Dataset, version : 0..MaxClock, saved : [Id -> Record \cup {None}]]

Write == {"rename", "delete", "research", "save"}
Op == Write \cup {"load", "view"}

Quiet == [op |-> None, phase |-> None, dataset |-> None, id |-> None,
          old |-> None, match |-> None, doc |-> None]

ASSUME WorkspaceAssumption ==
    /\ Home \in [Trade -> Dataset]
    /\ Fresh \in [Trade -> Id]
    /\ Initial \in [Dataset -> SUBSET Event]
    /\ \A d \in Dataset : \A ev \in Initial[d] : Home[ev.trade] = d
    /\ Researched \subseteq Trade
    /\ \A t, u \in Researched : Home[t] = Home[u]   \* no two stores have one stamp
    /\ MaxClock \in Nat \ {0}
    /\ Failing \subseteq Write /\ Lossy \subseteq Op
    /\ {Patient, Discards, Controlled} \subseteq BOOLEAN

(* A dataset file was validated when it was imported or saved. *)
ASSUME ImportAssumption ==
    \A d \in Dataset : \A v, w \in Initial[d] : v.id = w.id => v = w

ASSUME NoneAssumption == None \notin Op \cup {"sent", "ok", "failed"} /\ None \notin View

VARIABLES
    clock,        \* Date.now(), as far as selection stores are stamped with it
    files,        \* the dataset files
    stores,       \* the selection store files
    spare,        \* trades that addEvent has not made up yet
    shown,        \* the dataset on screen
    events,       \* its events, as edited
    dirty,        \* datasetDirty
    view,         \* selectionStore, None while there is none
    calls         \* the tab's fetches

tab == <<shown, events, dirty, view>>
vars == <<clock, files, stores, spare, tab, calls>>

Ids(evs) == {ev.id : ev \in evs}

(* validateTradeDataset: ids are unique. *)
ValidDataset(evs) == \A v, w \in evs : v.id = w.id => v = w

(* validateResearchSelectionStore: the structures saved under an id name it.  *)
(* (Selected structures are renamed with their record; ids within a store are *)
(* unique because it is a function of them.)                                  *)
ValidStore(saved) == \A i \in Id : saved[i] = None \/ saved[i].names \subseteq {i}

(* renameResearchSelectionEvent: the record moves to the new id.  Its selected*)
(* structures are renamed, its controlled-research structures are not.        *)
RenamedSaved(saved, old, new) ==
    [saved EXCEPT ![old] = None, ![new] = saved[old]]

Idle == \A c \in Call : calls[c] = Quiet

(* The record of an event whose trades are among ts, nothing researched.      *)
RecordOf(i, ts) == IF ts = {} THEN None ELSE [trades |-> ts, names |-> {}]

Init ==
    /\ clock = 1
    /\ files = Initial
    /\ stores = [d \in Dataset |->
          LET trades(i) == {ev.trade : ev \in {x \in Initial[d] : x.id = i}} \cap Researched
              saved == [i \in Id |-> RecordOf(i, trades(i))] IN
          [of |-> d, saved |-> saved,
           version |-> IF \A i \in Id : saved[i] = None THEN 0 ELSE 1]]
    /\ spare = {t \in Trade : \A d \in Dataset : \A ev \in Initial[d] : ev.trade # t}
    /\ shown \in Dataset
    /\ events = files[shown]
    /\ dirty = FALSE
    /\ view = stores[shown]
    /\ calls = [c \in Call |-> Quiet]

-----------------------------------------------------------------------------
(* The tab up to its fetch. *)

Fetch(c, call) ==
    /\ calls[c] = Quiet
    /\ calls' = [calls EXCEPT ![c] = [x \in DOMAIN Quiet |->
                    IF x \in DOMAIN call THEN call[x]
                    ELSE IF x = "phase" THEN "sent" ELSE None]]

Acts == Patient => Idle

(* renameSelectedEvent: the dataset side at once; a PUT of the whole store,   *)
(* made from the store the tab holds, if anything is saved under the old id.  *)
Rename(c, ev, new) ==
    /\ Acts
    /\ ev \in events /\ new \notin Ids(events)
    /\ events' = {IF x.id = ev.id THEN [x EXCEPT !.id = new] ELSE x : x \in events}
    /\ dirty' = TRUE
    /\ IF view # None /\ view.saved[ev.id] # None
       THEN Fetch(c, [op |-> "rename", dataset |-> shown, id |-> new, old |-> ev.id,
                      doc |-> view])
       ELSE calls' = calls
    /\ UNCHANGED <<clock, files, stores, spare, shown, view>>

(* deleteSelectedEvent. *)
Delete(c, ev) ==
    /\ Acts
    /\ ev \in events
    /\ events' = {x \in events : x.id # ev.id}
    /\ dirty' = TRUE
    /\ IF view # None
       THEN Fetch(c, [op |-> "delete", dataset |-> shown, id |-> ev.id,
                      match |-> view.version])
       ELSE calls' = calls
    /\ UNCHANGED <<clock, files, stores, spare, shown, view>>

(* addEvent. *)
Add(t) ==
    /\ Acts
    /\ t \in spare /\ Home[t] = shown
    /\ Fresh[t] \notin Ids(events)
    /\ spare' = spare \ {t}
    /\ events' = events \cup {[id |-> Fresh[t], trade |-> t]}
    /\ dirty' = TRUE
    /\ UNCHANGED <<clock, files, stores, shown, view, calls>>

(* saveResearchSelections: the structures that were saved under the id and are*)
(* kept, and those the analysis of the selected event adds.  The controlled-  *)
(* research structures are those of a complete generation, or the saved ones. *)
SaveResearch(c, ev) ==
    /\ Acts
    /\ ev \in events /\ view # None
    /\ LET saved == view.saved[ev.id]
           before == IF saved = None THEN [trades |-> {}, names |-> {}] ELSE saved IN
       \E kept \in SUBSET before.trades, new \in SUBSET {ev.trade},
          names \in IF Controlled THEN {before.names, {}, {ev.id}} ELSE {before.names} :
          /\ [trades |-> kept \cup new, names |-> names] # before
          /\ Fetch(c, [op |-> "research", dataset |-> shown, id |-> ev.id,
                       match |-> view.version,
                       doc |-> [trades |-> kept \cup new, names |-> names]])
    /\ UNCHANGED <<clock, files, stores, spare, tab>>

(* saveDataset. *)
SaveDataset(c) ==
    /\ Acts
    /\ ValidDataset(events)
    /\ Fetch(c, [op |-> "save", dataset |-> shown, doc |-> events])
    /\ UNCHANGED <<clock, files, stores, spare, tab>>

(* loadDataset; unsaved edits are left behind only after a confirmation. *)
Load(c, d) ==
    /\ Acts
    /\ dirty => Discards
    /\ Fetch(c, [op |-> "load", dataset |-> d])
    /\ UNCHANGED <<clock, files, stores, spare, tab>>

-----------------------------------------------------------------------------
(* The server. *)

Answers(c, phase, doc) ==
    calls' = [calls EXCEPT ![c].phase = phase, ![c].doc = doc]

Commits(c, d, saved) ==
    /\ clock < MaxClock
    /\ clock' = clock + 1
    /\ stores' = [stores EXCEPT ![d].version = clock + 1, ![d].saved = saved]
    /\ Answers(c, "ok", stores'[d])

Refuses(c) ==
    /\ Answers(c, "failed", None)
    /\ UNCHANGED <<clock, stores>>

(* Fault: a store is accepted under the name of another dataset. *)
ServeRenameAnyDataset(c) ==
    LET call == calls[c]
        renamed == RenamedSaved(call.doc.saved, call.old, call.id) IN
    /\ call.op = "rename" /\ call.phase = "sent"
    /\ IF call.doc.saved[call.id] # None \/ ~ValidStore(renamed)
       THEN Refuses(c)
       ELSE Commits(c, call.dataset, renamed)
    /\ UNCHANGED <<files, spare, tab>>

(* Fault: a store is written as it was sent. *)
ServeRenameUnvalidated(c) ==
    LET call == calls[c] IN
    /\ call.op = "rename" /\ call.phase = "sent"
    /\ IF call.doc.of # call.dataset
       THEN Refuses(c)
       ELSE Commits(c, call.dataset, RenamedSaved(call.doc.saved, call.old, call.id))
    /\ UNCHANGED <<files, spare, tab>>

(* PUT /__local/research-selections/:id, whole store: the ids unique, every   *)
(* structure under the id it names, the identity that of the dataset; no      *)
(* version.                                                                   *)
ServeRename(c) ==
    LET call == calls[c]
        renamed == RenamedSaved(call.doc.saved, call.old, call.id) IN
    /\ call.op = "rename" /\ call.phase = "sent"
    /\ IF \/ call.doc.of # call.dataset
          \/ call.doc.saved[call.id] # None \/ ~ValidStore(renamed)
       THEN Refuses(c)
       ELSE Commits(c, call.dataset, renamed)
    /\ UNCHANGED <<files, spare, tab>>

(* DELETE of one event: an absent one succeeds before versions are compared. *)
ServeDelete(c) ==
    LET call == calls[c]
        s == stores[call.dataset] IN
    /\ call.op = "delete" /\ call.phase = "sent"
    /\ IF s.saved[call.id] = None
       THEN Answers(c, "ok", s) /\ UNCHANGED <<clock, stores>>
       ELSE IF call.match # s.version
       THEN Refuses(c)
       ELSE Commits(c, call.dataset, [s.saved EXCEPT ![call.id] = None])
    /\ UNCHANGED <<files, spare, tab>>

(* PUT of one event. *)
ServeResearch(c) ==
    LET call == calls[c]
        s == stores[call.dataset]
        saved == [s.saved EXCEPT ![call.id] = call.doc] IN
    /\ call.op = "research" /\ call.phase = "sent"
    /\ IF call.match # s.version \/ ~ValidStore(saved)
       THEN Refuses(c)
       ELSE Commits(c, call.dataset, saved)
    /\ UNCHANGED <<files, spare, tab>>

(* PUT /__local/trade-datasets/:id. *)
ServeDataset(c) ==
    /\ calls[c].op = "save" /\ calls[c].phase = "sent"
    /\ IF ValidDataset(calls[c].doc)
       THEN /\ files' = [files EXCEPT ![calls[c].dataset] = calls[c].doc]
            /\ Answers(c, "ok", calls[c].doc)
       ELSE files' = files /\ Answers(c, "failed", None)
    /\ UNCHANGED <<clock, stores, spare, tab>>

(* The two GETs. *)
ServeLoad(c) ==
    /\ calls[c].phase = "sent"
    /\ \/ calls[c].op = "load" /\ Answers(c, "ok", files[calls[c].dataset])
       \/ calls[c].op = "view" /\ Answers(c, "ok", stores[calls[c].dataset])
    /\ UNCHANGED <<clock, files, stores, spare, tab>>

(* A write is refused for a reason of the server's own: validation, disk. *)
Fail(c) ==
    /\ calls[c].op \in Failing /\ calls[c].phase = "sent"
    /\ Refuses(c)
    /\ UNCHANGED <<files, spare, tab>>

(* The request does not arrive, or its answer does not. *)
Lose(c) ==
    /\ calls[c].op \in Lossy
    /\ calls[c].phase \in {"sent", "ok"}
    /\ Answers(c, "failed", None)
    /\ UNCHANGED <<clock, files, stores, spare, tab>>

-----------------------------------------------------------------------------
(* The tab from the answer on. *)

Done(c) == calls' = [calls EXCEPT ![c] = Quiet]

(* Fault: the answer to a delete is not kept. *)
ReceiveStoreIgnored(c) ==
    /\ calls[c].op \in {"rename", "delete", "research", "view"}
    /\ calls[c].phase = "ok"
    /\ view' = IF calls[c].op = "delete" THEN view ELSE calls[c].doc
    /\ Done(c)
    /\ UNCHANGED <<clock, files, stores, spare, shown, events, dirty>>

(* A selection store was sent, by a write or as the second half of a load:    *)
(* setSelectionStore, whatever dataset is on screen by now.                   *)
ReceiveStore(c) ==
    /\ calls[c].op \in {"rename", "delete", "research", "view"}
    /\ calls[c].phase = "ok"
    /\ view' = calls[c].doc
    /\ Done(c)
    /\ UNCHANGED <<clock, files, stores, spare, shown, events, dirty>>

(* Fault: a failed rename leaves the new id in place. *)
RollBackNothing(c) ==
    /\ calls[c].op = "rename" /\ calls[c].phase = "failed"
    /\ Done(c)
    /\ UNCHANGED <<clock, files, stores, spare, tab>>

(* The catch of a rename gives the id back, to whatever now has the new one.  *)
RollBack(c) ==
    /\ calls[c].op = "rename" /\ calls[c].phase = "failed"
    /\ events' = {IF x.id = calls[c].id THEN [x EXCEPT !.id = calls[c].old] ELSE x : x \in events}
    /\ Done(c)
    /\ UNCHANGED <<clock, files, stores, spare, shown, dirty, view>>

(* Other failures only leave a message; a selection store that could not be   *)
(* loaded is none.                                                            *)
ReceiveFailure(c) ==
    /\ calls[c].op # "rename" /\ calls[c].phase = "failed"
    /\ view' = IF calls[c].op = "view" THEN None ELSE view
    /\ Done(c)
    /\ UNCHANGED <<clock, files, stores, spare, shown, events, dirty>>

(* The answer to a dataset save replaces what is being edited. *)
ReceiveSaved(c) ==
    /\ calls[c].op = "save" /\ calls[c].phase = "ok"
    /\ shown' = calls[c].dataset
    /\ events' = calls[c].doc
    /\ dirty' = FALSE
    /\ Done(c)
    /\ UNCHANGED <<clock, files, stores, spare, view>>

(* A dataset was sent: it goes on screen, and its selections are asked for.   *)
ReceiveDataset(c) ==
    /\ calls[c].op = "load" /\ calls[c].phase = "ok"
    /\ shown' = calls[c].dataset
    /\ events' = calls[c].doc
    /\ dirty' = FALSE
    /\ calls' = [calls EXCEPT ![c] = [Quiet EXCEPT !.op = "view", !.phase = "sent",
                                                  !.dataset = calls[c].dataset]]
    /\ UNCHANGED <<clock, files, stores, spare, view>>

-----------------------------------------------------------------------------
User(c) ==
    \/ \E ev \in events :
          (\E new \in Id : Rename(c, ev, new)) \/ Delete(c, ev) \/ SaveResearch(c, ev)
    \/ SaveDataset(c)
    \/ \E d \in Dataset : Load(c, d)

Server(c) ==
    \/ ServeRename(c) \/ ServeDelete(c) \/ ServeResearch(c)
    \/ ServeDataset(c) \/ ServeLoad(c)
    \/ Fail(c)

Receive(c) ==
    \/ ReceiveStore(c) \/ RollBack(c) \/ ReceiveFailure(c)
    \/ ReceiveSaved(c) \/ ReceiveDataset(c)

Next ==
    \/ \E c \in Call : User(c) \/ Server(c) \/ Lose(c) \/ Receive(c)
    \/ \E t \in Trade : Add(t)

Spec == Init /\ [][Next]_vars

-----------------------------------------------------------------------------
(* Properties. *)

(* Every variable holds what the code puts in it; in particular no selection  *)
(* store file names a dataset other than its own, and none is ever written    *)
(* with a structure under an id it does not name.                             *)
TypeOK ==
    /\ clock \in 1..MaxClock
    /\ \A d \in Dataset :
          /\ files[d] \subseteq Event
          /\ stores[d] \in View /\ stores[d].of = d /\ ValidStore(stores[d].saved)
    /\ spare \subseteq Trade
    /\ shown \in Dataset
    /\ events \subseteq Event
    /\ dirty \in BOOLEAN
    /\ view = None \/ view \in View
    /\ \A c \in Call :
          /\ calls[c].op \in Op \cup {None}
          /\ calls[c].phase \in {None, "sent", "ok", "failed"}
          /\ calls[c].dataset \in Dataset \cup {None}
          /\ {calls[c].id, calls[c].old} \subseteq Id \cup {None}
          /\ calls[c].match \in 0..MaxClock \cup {None}

(* Research saved for an event of one dataset never gets into the selection   *)
(* store of another, although loads and saves that overtake one another can   *)
(* put one dataset on screen next to the selections of another: the identity  *)
(* check of the whole-store PUT and the versions keep them apart.             *)
NoForeignResearch ==
    \A d \in Dataset, i \in Id :
        stores[d].saved[i] # None => \A t \in stores[d].saved[i].trades : Home[t] = d

(* For a user who waits for answers and does not leave unsaved edits behind,  *)
(* and while the server can be reached, what is saved under an id is research *)
(* for the event that has the id: "rather than leaving the two stores         *)
(* disagreeing", renameSelectedEvent.                                         *)
StoresAgree ==
    Idle => \A d \in Dataset, i \in Id :
        stores[d].saved[i] # None =>
            \E ev \in (IF d = shown THEN events ELSE files[d]) :
                ev.id = i /\ stores[d].saved[i].trades \subseteq {ev.trade}

(* Between two of this user's actions the tab holds the store that is on disk,*)
(* so its next save is never refused as outdated.                             *)
ViewCurrent == (Idle /\ view # None) => view = stores[shown]

(* "propagating the change through every reference that embeds it": the store *)
(* renameResearchSelectionEvent makes of a store the server sent is one the   *)
(* server accepts, so a rename is not refused while nothing fails.            *)
RenameIsAccepted == \A c \in Call : calls[c].op = "rename" => calls[c].phase # "failed"
=============================================================================
