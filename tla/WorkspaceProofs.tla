-------------------------- MODULE WorkspaceProofs --------------------------
(* Theorems about Workspace, for any sets of datasets, trades, ids and        *)
(* fetches, and any user and server.                                          *)
EXTENDS Workspace, TLAPS

-----------------------------------------------------------------------------
(* The inductive invariant: what anybody holds of a dataset's events, or of a *)
(* selection store, says truly whose it is.  Where it speaks of the clock and *)
(* the stores on disk these are parameters, "now" and "disk".                 *)

Store == [of : Dataset, version : Nat, saved : [Id -> Record \cup {None}]]

(* Events of one dataset, and a record or a store of research for it.         *)
Own(evs, d) == evs \subseteq Event /\ \A ev \in evs : Home[ev.trade] = d
OwnRecord(record, d) == record # None => \A t \in record.trades : Home[t] = d
OwnSaved(saved, d) == /\ saved \in [Id -> Record \cup {None}]
                      /\ \A i \in Id : OwnRecord(saved[i], d)
OwnStore(v) == v \in Store /\ OwnSaved(v.saved, v.of)

(* A store that was sent is of the past, and the stamp it carries is that of  *)
(* no other dataset's store, unless nothing is saved in it.                   *)
Empty(v) == \A i \in Id : v.saved[i] = None
Known(v, now, disk) ==
    /\ OwnStore(v) /\ v.version <= now
    /\ \A d \in Dataset : v.version = disk[d].version => v.of = d \/ Empty(v)

(* A research save that names the version on disk was made from that dataset. *)
Fits(call, now, disk) ==
    /\ call.doc \in Record /\ call.match \in Nat /\ call.match <= now
    /\ call.match = disk[call.dataset].version => OwnRecord(call.doc, call.dataset)

Carries(call, now, disk) ==
    /\ DOMAIN call = DOMAIN Quiet
    /\ call.phase \in {"sent", "ok"} /\ call.op \in Op => call.dataset \in Dataset
    /\ call.phase \in {"sent", "ok", "failed"} /\ call.op = "rename" =>
         call.id \in Id /\ call.old \in Id
    /\ call.phase = "sent" =>
         /\ call.op = "rename" => Known(call.doc, now, disk)
         /\ call.op = "delete" => call.id \in Id
         /\ call.op = "research" => call.id \in Id /\ Fits(call, now, disk)
         /\ call.op = "save" => Own(call.doc, call.dataset)
    /\ call.phase = "ok" =>
         /\ call.op \in {"rename", "delete", "research", "view"} => Known(call.doc, now, disk)
         /\ call.op \in {"save", "load"} => Own(call.doc, call.dataset)

OnDisk ==
    /\ clock \in Nat
    /\ DOMAIN files = Dataset /\ DOMAIN stores = Dataset
    /\ \A d \in Dataset : /\ Own(files[d], d)
                          /\ Known(stores[d], clock, stores) /\ stores[d].of = d

OnPage ==
    /\ shown \in Dataset /\ Own(events, shown)
    /\ view # None => Known(view, clock, stores)

InFlight == DOMAIN calls = Call /\ \A c \in Call : Carries(calls[c], clock, stores)

OwnEverywhere == OnDisk /\ OnPage /\ InFlight

-----------------------------------------------------------------------------
(* A commit gives a store the next stamp: whatever was known before it stays  *)
(* true, and what was known of an older version is no longer on disk.         *)
Committed(now, disk, later) ==
    /\ now \in Nat /\ \A d \in Dataset : disk[d].version \in Nat
    /\ \A d \in Dataset : later[d] = disk[d] \/ later[d].version = now + 1

(* So what was known is known a tick later.                                   *)
LEMMA KnownLater ==
    ASSUME NEW v, NEW now, NEW disk, NEW later,
           Known(v, now, disk), Committed(now, disk, later)
    PROVE  Known(v, now + 1, later)
<1>1. v.version \in Nat /\ v.version <= now /\ now \in Nat
  BY DEF Known, OwnStore, Store, Committed
<1>2. v.version <= now + 1 /\ v.version # now + 1
  BY <1>1
<1> QED
  BY <1>2 DEF Known, Committed

(* So a fetch keeps carrying what it carried.                                 *)
LEMMA CarriesLater ==
    ASSUME NEW call, NEW now, NEW disk, NEW later,
           Carries(call, now, disk), Committed(now, disk, later)
    PROVE  Carries(call, now + 1, later)
<1>1. Known(call.doc, now, disk) => Known(call.doc, now + 1, later)
  BY KnownLater
<1>2. ASSUME Fits(call, now, disk), call.dataset \in Dataset PROVE Fits(call, now + 1, later)
  <2>1. call.match \in Nat /\ call.match <= now /\ now \in Nat
    BY <1>2 DEF Fits, Committed
  <2>2. call.match <= now + 1 /\ call.match # now + 1
    BY <2>1
  <2> QED
    BY <1>2, <2>2 DEF Fits, Committed
<1>3. call.phase = "sent" /\ call.op = "research" => call.dataset \in Dataset
  BY DEF Carries, Op, Write
<1> QED
  BY <1>1, <1>2, <1>3 DEF Carries


-----------------------------------------------------------------------------
(* The tab's fetches.                                                         *)

(* A fetch that is answered has a phase and a document more, and no other has.*)
LEMMA Answered ==
    ASSUME InFlight, NEW c \in Call, NEW phase, NEW doc, Answers(c, phase, doc)
    PROVE  /\ DOMAIN calls' = Call
           /\ \A e \in Call \ {c} : calls'[e] = calls[e]
           /\ DOMAIN calls'[c] = DOMAIN Quiet
           /\ calls'[c].op = calls[c].op /\ calls'[c].dataset = calls[c].dataset
           /\ calls'[c].id = calls[c].id /\ calls'[c].old = calls[c].old
           /\ calls'[c].match = calls[c].match
           /\ calls'[c].phase = phase /\ calls'[c].doc = doc
<1>1. DOMAIN calls = Call /\ DOMAIN calls[c] = {"op", "phase", "dataset", "id", "old", "match", "doc"}
  BY DEF InFlight, Carries, Quiet
<1>2. calls'[c] = [calls[c] EXCEPT !.phase = phase, !.doc = doc]
  BY <1>1 DEF Answers
<1>3. DOMAIN calls' = Call /\ \A e \in Call \ {c} : calls'[e] = calls[e]
  BY <1>1 DEF Answers
<1> QED
  BY <1>1, <1>2, <1>3 DEF Quiet

(* A rename names two ids as long as it lasts.                                *)
LEMMA RenameIds ==
    ASSUME OwnEverywhere, NEW c \in Call, calls[c].phase \in {"sent", "ok", "failed"},
           calls[c].op = "rename"
    PROVE  calls[c].id \in Id /\ calls[c].old \in Id
BY DEF OwnEverywhere, InFlight, Carries

(* A handler that fetches uses a free fetch, and says what it says.           *)
LEMMA Fetched ==
    ASSUME InFlight, NEW c \in Call, NEW call, Fetch(c, call), "phase" \notin DOMAIN call
    PROVE  /\ DOMAIN calls' = Call
           /\ \A e \in Call \ {c} : calls'[e] = calls[e]
           /\ DOMAIN calls'[c] = DOMAIN Quiet /\ calls'[c].phase = "sent"
           /\ \A x \in DOMAIN Quiet \intersect DOMAIN call : calls'[c][x] = call[x]
           /\ \A x \in DOMAIN Quiet \ (DOMAIN call \cup {"phase"}) : calls'[c][x] = None
<1>1. calls' = [calls EXCEPT ![c] = [x \in DOMAIN Quiet |->
                    IF x \in DOMAIN call THEN call[x] ELSE IF x = "phase" THEN "sent" ELSE None]]
  BY DEF Fetch
<1>2. calls'[c] = [x \in DOMAIN Quiet |->
                    IF x \in DOMAIN call THEN call[x] ELSE IF x = "phase" THEN "sent" ELSE None]
  BY <1>1 DEF InFlight
<1>3. "phase" \in DOMAIN Quiet
  BY DEF Quiet
<1> QED
  BY <1>1, <1>2, <1>3 DEF InFlight

(* A step of one fetch that leaves the clock and the stores alone.            *)
LEMMA OneCallKeeps ==
    ASSUME OwnEverywhere, NEW c \in Call, UNCHANGED <<clock, stores>>,
           DOMAIN calls' = Call, \A e \in Call \ {c} : calls'[e] = calls[e],
           Carries(calls'[c], clock, stores)
    PROVE  InFlight'
<1> SUFFICES ASSUME NEW e \in Call PROVE Carries(calls'[e], clock, stores)
  BY DEF InFlight
<1>1. CASE e = c
  BY <1>1
<1>2. CASE e # c
  <2>1. calls'[e] = calls[e]
    BY <1>2
  <2> QED
    BY <2>1 DEF OwnEverywhere, InFlight
<1> QED
  BY <1>1, <1>2

(* A finished fetch carries nothing.                                          *)
LEMMA QuietCarries == \A now, disk : Carries(Quiet, now, disk)
<1> SUFFICES ASSUME NEW now, NEW disk PROVE Carries(Quiet, now, disk)
  OBVIOUS
<1>1. Quiet.op = None /\ Quiet.phase = None
  BY DEF Quiet
<1>2. Quiet.phase = Quiet.op
  BY <1>1
<1>3. Quiet.phase \in {"sent", "ok"} => Quiet.op \notin Op
  BY <1>2 DEF Op, Write
<1> QED
  BY <1>2, <1>3 DEF Carries, Op, Write

(* So a fetch that is done keeps the invariant.                               *)
LEMMA DoneKeeps ==
    ASSUME OwnEverywhere, NEW c \in Call, Done(c), UNCHANGED <<clock, stores>>
    PROVE  InFlight'
<1>1. /\ DOMAIN calls' = Call /\ calls'[c] = Quiet
      /\ \A e \in Call \ {c} : calls'[e] = calls[e]
  BY DEF Done, OwnEverywhere, InFlight
<1> QED
  BY <1>1, QuietCarries, OneCallKeeps

(* The disk, as long as nothing is written to it.                             *)
LEMMA StillOnDisk == OnDisk /\ UNCHANGED <<clock, stores, files>> => OnDisk'
  BY DEF OnDisk
(* The same of the page.                                                      *)
LEMMA StillOnPage == OnPage /\ UNCHANGED <<clock, stores, tab>> => OnPage'
  BY DEF OnPage, tab


-----------------------------------------------------------------------------
(* The server. *)

(* What a commit writes is the dataset's own, and everybody else's knowledge  *)
(* of the stores remains true.                                                *)
LEMMA CommitKeeps ==
    ASSUME OwnEverywhere, NEW c \in Call, NEW d \in Dataset, NEW saved,
           calls[c].op \in {"rename", "delete", "research"}, calls[c].dataset = d,
           OwnSaved(saved, d), Commits(c, d, saved), UNCHANGED <<files, tab>>,
           calls[c].phase = "sent"
    PROVE  OwnEverywhere'
<1> DEFINE new == [of |-> d, version |-> clock + 1, saved |-> saved]
<1>1. /\ clock \in Nat /\ DOMAIN stores = Dataset
      /\ \A e \in Dataset : /\ Known(stores[e], clock, stores) /\ stores[e].of = e
                            /\ stores[e] \in Store /\ stores[e].version \in Nat
  BY DEF OwnEverywhere, OnDisk, Known, OwnStore, Store
<1>2. clock' = clock + 1 /\ Answers(c, "ok", stores'[d])
      /\ stores' = [stores EXCEPT ![d].version = clock + 1, ![d].saved = saved]
  BY DEF Commits
<1>3. /\ DOMAIN stores' = Dataset /\ stores'[d] = new
      /\ \A e \in Dataset \ {d} : stores'[e] = stores[e]
  <2>1. stores[d] \in Store /\ clock + 1 \in Nat /\ saved \in [Id -> Record \cup {None}]
    BY <1>1 DEF OwnSaved
  <2>2. stores'[d] \in Store
    BY <1>1, <1>2, <2>1 DEF Store
  <2>3. stores'[d].of = d /\ stores'[d].version = clock + 1 /\ stores'[d].saved = saved
    BY <1>1, <1>2, <2>1 DEF Store
  <2>4. stores'[d] = new
    BY <2>2, <2>3 DEF Store
  <2> QED
    BY <1>1, <1>2, <2>4
<1>4. Committed(clock, stores, stores')
  BY <1>1, <1>3 DEF Committed
<1>5. new \in Store /\ OwnStore(new)
  BY <1>1 DEF Store, OwnStore, OwnSaved
<1>6. Known(new, clock + 1, stores')
  <2>1. ASSUME NEW e \in Dataset, new.version = stores'[e].version PROVE new.of = e
    <3>1. CASE e # d
      <4>1. stores'[e].version <= clock /\ stores'[e].version \in Nat
        BY <1>1, <1>3, <3>1 DEF Known
      <4> QED
        BY <1>1, <2>1, <4>1
    <3> QED
      BY <3>1
  <2> QED
    BY <1>1, <1>5, <2>1 DEF Known
<1>7. OnDisk'
  <2>1. ASSUME NEW e \in Dataset
        PROVE  Known(stores'[e], clock + 1, stores') /\ stores'[e].of = e
    BY <1>1, <1>3, <1>4, <1>6, KnownLater
  <2>2. files' = files /\ \A e \in Dataset : Own(files[e], e)
    BY DEF OwnEverywhere, OnDisk
  <2>3. clock' \in Nat /\ DOMAIN files' = Dataset /\ DOMAIN stores' = Dataset
    BY <1>1, <1>2, <1>3, <2>2 DEF OwnEverywhere, OnDisk
  <2>4. \A e \in Dataset : Own(files'[e], e) /\ Known(stores'[e], clock', stores')
                           /\ stores'[e].of = e
    BY <1>2, <2>1, <2>2
  <2> QED
    BY <2>3, <2>4 DEF OnDisk
<1>8. OnPage'
  <2>1. view # None => Known(view, clock + 1, stores')
    BY <1>4, KnownLater DEF OwnEverywhere, OnPage
  <2> QED
    BY <1>2, <2>1 DEF OwnEverywhere, OnPage, tab
<1>9. InFlight'
  <2>1. /\ DOMAIN calls' = Call /\ \A e \in Call \ {c} : calls'[e] = calls[e]
        /\ DOMAIN calls'[c] = DOMAIN Quiet
        /\ calls'[c].op = calls[c].op /\ calls'[c].dataset = d
        /\ calls'[c].id = calls[c].id /\ calls'[c].old = calls[c].old
        /\ calls'[c].phase = "ok" /\ calls'[c].doc = new
    BY <1>2, <1>3, Answered DEF OwnEverywhere
  <2>2. Carries(calls'[c], clock + 1, stores')
    BY <1>6, <2>1, RenameIds DEF Carries
  <2>3. ASSUME NEW e \in Call, e # c PROVE Carries(calls'[e], clock + 1, stores')
    <3>1. calls'[e] = calls[e] /\ Carries(calls[e], clock, stores)
      BY <2>1, <2>3 DEF OwnEverywhere, InFlight
    <3> QED
      BY <1>4, <3>1, CarriesLater
  <2> QED
    BY <1>2, <2>1, <2>2, <2>3 DEF InFlight
<1> QED
  BY <1>7, <1>8, <1>9 DEF OwnEverywhere

(* An answer that commits nothing.                                            *)
LEMMA AnswerKeeps ==
    ASSUME OwnEverywhere, NEW c \in Call, NEW phase \in {"ok", "failed"}, NEW doc,
           Answers(c, phase, doc), UNCHANGED <<clock, stores>>,
           calls[c].phase \in {"sent", "ok"},
           phase = "ok" =>
             /\ calls[c].op \in {"rename", "delete", "research", "view"} => Known(doc, clock, stores)
             /\ calls[c].op \in {"save", "load"} => Own(doc, calls[c].dataset)
    PROVE  InFlight'
<1>1. /\ DOMAIN calls' = Call /\ \A e \in Call \ {c} : calls'[e] = calls[e]
      /\ DOMAIN calls'[c] = DOMAIN Quiet
      /\ calls'[c].op = calls[c].op /\ calls'[c].dataset = calls[c].dataset
      /\ calls'[c].id = calls[c].id /\ calls'[c].old = calls[c].old
      /\ calls'[c].phase = phase /\ calls'[c].doc = doc
  BY Answered DEF OwnEverywhere
<1>2. calls[c].op \in Op => calls[c].dataset \in Dataset
  BY DEF OwnEverywhere, InFlight, Carries
<1>3. Carries(calls'[c], clock, stores)
  BY <1>1, <1>2, RenameIds DEF Carries
<1> QED
  BY <1>1, <1>3, OneCallKeeps

(* A refusal, and a request or an answer that is lost.                        *)
LEMMA RefusalKeeps ==
    ASSUME OwnEverywhere, NEW c \in Call, Refuses(c), calls[c].phase \in {"sent", "ok"},
           UNCHANGED <<files, tab>>
    PROVE  OwnEverywhere'
<1>1. InFlight'
  BY AnswerKeeps DEF Refuses
<1> QED
  BY <1>1, StillOnDisk, StillOnPage DEF OwnEverywhere, Refuses

(* What the tab sent: the operation of a call decides what it carries.        *)
LEMMA SentCarries ==
    ASSUME OwnEverywhere, NEW c \in Call, calls[c].phase = "sent", calls[c].op \in Op
    PROVE  /\ calls[c].dataset \in Dataset
           /\ calls[c].op = "rename" => /\ calls[c].id \in Id /\ calls[c].old \in Id
                                        /\ Known(calls[c].doc, clock, stores)
           /\ calls[c].op = "delete" => calls[c].id \in Id
           /\ calls[c].op = "research" => calls[c].id \in Id /\ Fits(calls[c], clock, stores)
           /\ calls[c].op = "save" => Own(calls[c].doc, calls[c].dataset)
BY DEF OwnEverywhere, InFlight, Carries

(* A record that moves to another id is still of the same dataset.            *)
LEMMA RenamedIsOwn ==
    ASSUME NEW saved, NEW d, OwnSaved(saved, d), NEW old \in Id, NEW new \in Id
    PROVE  OwnSaved(RenamedSaved(saved, old, new), d)
<1>1. saved \in [Id -> Record \cup {None}] /\ \A i \in Id : OwnRecord(saved[i], d)
  BY DEF OwnSaved
<1>2. RenamedSaved(saved, old, new) \in [Id -> Record \cup {None}]
  BY <1>1 DEF RenamedSaved
<1>3. \A i \in Id : \/ RenamedSaved(saved, old, new)[i] = None
                   \/ \E j \in Id : RenamedSaved(saved, old, new)[i] = saved[j]
  BY <1>1 DEF RenamedSaved
<1> QED
  BY <1>1, <1>2, <1>3 DEF OwnSaved, OwnRecord

(* The store of the rename is that of the dataset it is sent to, or refused.  *)
LEMMA ServeRenameKeeps ==
    ASSUME OwnEverywhere, NEW c \in Call, ServeRename(c)
    PROVE  OwnEverywhere'
<1> DEFINE call == calls[c]
           renamed == RenamedSaved(call.doc.saved, call.old, call.id)
<1>1. calls[c].op = "rename" /\ calls[c].phase = "sent" /\ UNCHANGED <<files, tab>>
  BY DEF ServeRename
<1>2. CASE Refuses(c)
  BY <1>1, <1>2, RefusalKeeps
<1>3. CASE call.doc.of = call.dataset /\ Commits(c, call.dataset, renamed)
  <2>1. /\ calls[c].dataset \in Dataset /\ calls[c].id \in Id /\ calls[c].old \in Id
        /\ OwnSaved(calls[c].doc.saved, calls[c].dataset)
    BY <1>1, <1>3, SentCarries DEF Op, Write, Known, OwnStore
  <2>2. OwnSaved(renamed, calls[c].dataset)
    BY <2>1, RenamedIsOwn
  <2> QED
    BY <1>1, <1>3, <2>1, <2>2, CommitKeeps
<1> QED
  BY <1>1, <1>2, <1>3 DEF ServeRename

(* What is on disk.                                                           *)
LEMMA OwnDisk ==
    ASSUME OwnEverywhere, NEW d \in Dataset
    PROVE  /\ Own(files[d], d) /\ Known(stores[d], clock, stores)
           /\ OwnSaved(stores[d].saved, d) /\ stores[d].version \in Nat
BY DEF OwnEverywhere, OnDisk, Known, OwnStore, Store

(* A delete takes research away, or answers with the store it found.          *)
LEMMA ServeDeleteKeeps ==
    ASSUME OwnEverywhere, NEW c \in Call, ServeDelete(c)
    PROVE  OwnEverywhere'
<1> DEFINE s == stores[calls[c].dataset]
           saved == [s.saved EXCEPT ![calls[c].id] = None]
<1>1. calls[c].op = "delete" /\ calls[c].phase = "sent" /\ UNCHANGED <<files, tab>>
  BY DEF ServeDelete
<1>2. calls[c].dataset \in Dataset /\ calls[c].id \in Id
  BY <1>1, SentCarries DEF Op, Write
<1>3. CASE Answers(c, "ok", s) /\ UNCHANGED <<clock, stores>>
  <2>1. InFlight'
    BY <1>1, <1>2, <1>3, OwnDisk, AnswerKeeps
  <2> QED
    BY <1>1, <1>3, <2>1, StillOnDisk, StillOnPage DEF OwnEverywhere
<1>4. CASE Refuses(c)
  BY <1>1, <1>4, RefusalKeeps
<1>5. CASE Commits(c, calls[c].dataset, saved)
  <2>1. OwnSaved(saved, calls[c].dataset)
    BY <1>2, OwnDisk DEF OwnSaved, OwnRecord
  <2> QED
    BY <1>1, <1>2, <1>5, <2>1, CommitKeeps
<1> QED
  BY <1>1, <1>3, <1>4, <1>5 DEF ServeDelete

(* A record is accepted only under the version it was made from.              *)
LEMMA ServeResearchKeeps ==
    ASSUME OwnEverywhere, NEW c \in Call, ServeResearch(c)
    PROVE  OwnEverywhere'
<1> DEFINE s == stores[calls[c].dataset]
           saved == [s.saved EXCEPT ![calls[c].id] = calls[c].doc]
<1>1. calls[c].op = "research" /\ calls[c].phase = "sent" /\ UNCHANGED <<files, tab>>
  BY DEF ServeResearch
<1>2. /\ calls[c].dataset \in Dataset /\ calls[c].id \in Id
      /\ Fits(calls[c], clock, stores)
  BY <1>1, SentCarries DEF Op, Write
<1>3. CASE Refuses(c)
  BY <1>1, <1>3, RefusalKeeps
<1>4. CASE calls[c].match = s.version /\ Commits(c, calls[c].dataset, saved)
  <2>1. calls[c].doc \in Record /\ OwnRecord(calls[c].doc, calls[c].dataset)
    BY <1>2, <1>4 DEF Fits
  <2>2. OwnSaved(saved, calls[c].dataset)
    BY <1>2, <2>1, OwnDisk DEF OwnSaved
  <2> QED
    BY <1>1, <1>2, <1>4, <2>2, CommitKeeps
<1> QED
  BY <1>1, <1>3, <1>4 DEF ServeResearch


(* A dataset is written under the name it was edited under.                   *)
LEMMA ServeDatasetKeeps ==
    ASSUME OwnEverywhere, NEW c \in Call, ServeDataset(c)
    PROVE  OwnEverywhere'
<1>1. /\ calls[c].op = "save" /\ calls[c].phase = "sent"
      /\ UNCHANGED <<clock, stores, spare, tab>>
  BY DEF ServeDataset
<1>2. calls[c].dataset \in Dataset /\ Own(calls[c].doc, calls[c].dataset)
  BY <1>1, SentCarries DEF Op, Write
<1>3. OnDisk'
  <2>1. /\ DOMAIN files' = Dataset
        /\ \A d \in Dataset : \/ files'[d] = files[d]
                              \/ d = calls[c].dataset /\ files'[d] = calls[c].doc
    BY DEF ServeDataset, OwnEverywhere, OnDisk
  <2>2. \A d \in Dataset : Own(files'[d], d)
    BY <1>2, <2>1, OwnDisk
  <2> QED
    BY <1>1, <2>1, <2>2 DEF OwnEverywhere, OnDisk
<1>4. OnPage'
  BY <1>1, StillOnPage DEF OwnEverywhere
<1>5. CASE Answers(c, "ok", calls[c].doc)
  BY <1>1, <1>2, <1>3, <1>4, <1>5, AnswerKeeps DEF OwnEverywhere
<1>6. CASE Answers(c, "failed", None)
  BY <1>1, <1>3, <1>4, <1>6, AnswerKeeps DEF OwnEverywhere
<1> QED
  BY <1>5, <1>6 DEF ServeDataset

(* What is read is the dataset's own.                                         *)
LEMMA ServeLoadKeeps ==
    ASSUME OwnEverywhere, NEW c \in Call, ServeLoad(c)
    PROVE  OwnEverywhere'
<1>1. calls[c].phase = "sent" /\ UNCHANGED <<clock, files, stores, spare, tab>>
  BY DEF ServeLoad
<1>2. CASE calls[c].op = "load" /\ Answers(c, "ok", files[calls[c].dataset])
  <2>1. calls[c].dataset \in Dataset
    BY <1>1, <1>2, SentCarries DEF Op, Write
  <2>2. InFlight'
    BY <1>1, <1>2, <2>1, OwnDisk, AnswerKeeps
  <2> QED
    BY <1>1, <2>2, StillOnDisk, StillOnPage DEF OwnEverywhere
<1>3. CASE calls[c].op = "view" /\ Answers(c, "ok", stores[calls[c].dataset])
  <2>1. calls[c].dataset \in Dataset
    BY <1>1, <1>3, SentCarries DEF Op, Write
  <2>2. InFlight'
    BY <1>1, <1>3, <2>1, OwnDisk, AnswerKeeps
  <2> QED
    BY <1>1, <2>2, StillOnDisk, StillOnPage DEF OwnEverywhere
<1> QED
  BY <1>2, <1>3 DEF ServeLoad

(* Every step of the server.                                                  *)
LEMMA ServerKeeps ==
    ASSUME OwnEverywhere, NEW c \in Call, Server(c) \/ Lose(c)
    PROVE  OwnEverywhere'
<1>1. CASE Fail(c)
  BY <1>1, RefusalKeeps DEF Fail, tab
<1>2. CASE Lose(c)
  <2>1. InFlight'
    BY <1>2, AnswerKeeps DEF Lose
  <2> QED
    BY <1>2, <2>1, StillOnDisk, StillOnPage DEF OwnEverywhere, Lose
<1> QED
  BY <1>1, <1>2, ServeRenameKeeps, ServeDeleteKeeps, ServeResearchKeeps, ServeDatasetKeeps,
     ServeLoadKeeps DEF Server

-----------------------------------------------------------------------------
(* The tab up to its fetch. *)

(* A fetch that is sent from a page carries what the page has.                *)
LEMMA SendKeeps ==
    ASSUME OwnEverywhere, NEW c \in Call, NEW call, Fetch(c, call),
           UNCHANGED <<clock, stores>>,
           DOMAIN call \subseteq DOMAIN Quiet \ {"phase"}, "op" \in DOMAIN call,
           "dataset" \in DOMAIN call, call.dataset \in Dataset,
           call.op = "rename" => /\ {"id", "old", "doc"} \subseteq DOMAIN call
                                 /\ call.id \in Id /\ call.old \in Id
                                 /\ Known(call.doc, clock, stores),
           call.op = "delete" => "id" \in DOMAIN call /\ call.id \in Id,
           call.op = "research" => /\ {"id", "match", "doc"} \subseteq DOMAIN call
                                   /\ call.id \in Id /\ Fits(call, clock, stores),
           call.op = "save" => "doc" \in DOMAIN call /\ Own(call.doc, call.dataset)
    PROVE  InFlight'
<1>1. /\ DOMAIN calls' = Call /\ \A e \in Call \ {c} : calls'[e] = calls[e]
      /\ DOMAIN calls'[c] = DOMAIN Quiet /\ calls'[c].phase = "sent"
      /\ \A x \in DOMAIN Quiet \intersect DOMAIN call : calls'[c][x] = call[x]
  BY Fetched DEF OwnEverywhere
<1>2. DOMAIN Quiet = {"op", "phase", "dataset", "id", "old", "match", "doc"}
  BY DEF Quiet
<1>3. calls'[c].op = call.op /\ calls'[c].dataset = call.dataset
  BY <1>1, <1>2
<1>4. call.op = "rename" => /\ calls'[c].id = call.id /\ calls'[c].old = call.old
                            /\ calls'[c].doc = call.doc
  BY <1>1, <1>2
<1>5. call.op = "delete" => calls'[c].id = call.id
  BY <1>1, <1>2
<1>6. call.op = "research" => /\ calls'[c].id = call.id /\ calls'[c].match = call.match
                              /\ calls'[c].doc = call.doc
  BY <1>1, <1>2
<1>7. call.op = "save" => calls'[c].doc = call.doc
  BY <1>1, <1>2
<1>8. call.op = "research" => Fits(calls'[c], clock, stores)
  BY <1>3, <1>6 DEF Fits
<1>9. Carries(calls'[c], clock, stores)
  BY <1>1, <1>3, <1>4, <1>5, <1>6, <1>7, <1>8 DEF Carries
<1> QED
  BY <1>1, <1>9, OneCallKeeps

(* The events on the page.                                                    *)
LEMMA EventFacts ==
    ASSUME OwnEverywhere, NEW ev \in events
    PROVE  ev.id \in Id /\ ev.trade \in Trade /\ Home[ev.trade] = shown /\ shown \in Dataset
BY DEF OwnEverywhere, OnPage, Own, Event

(* Another id, and the same trade.                                            *)
LEMMA OwnRenamed ==
    ASSUME OwnEverywhere, NEW evs, NEW old, NEW new \in Id,
           evs = {IF x.id = old THEN [x EXCEPT !.id = new] ELSE x : x \in events}
    PROVE  Own(evs, shown)
<1> SUFFICES ASSUME NEW y \in evs PROVE y \in Event /\ Home[y.trade] = shown
  BY DEF Own
<1>1. PICK x \in events : y = IF x.id = old THEN [x EXCEPT !.id = new] ELSE x
  OBVIOUS
<1>2. x \in Event /\ Home[x.trade] = shown
  BY DEF OwnEverywhere, OnPage, Own
<1> QED
  BY <1>1, <1>2 DEF Event

(* A rename sends the store the tab holds.                                    *)
LEMMA RenameKeeps ==
    ASSUME OwnEverywhere, NEW c \in Call, NEW ev \in events, NEW new \in Id, Rename(c, ev, new)
    PROVE  OwnEverywhere'
<1>1. OnDisk'
  BY StillOnDisk DEF OwnEverywhere, Rename
<1>2. OnPage'
  <2>1. Own(events', shown)
    BY OwnRenamed DEF Rename
  <2> QED
    BY <2>1 DEF OwnEverywhere, OnPage, Rename
<1>3. CASE view # None /\ Fetch(c, [op |-> "rename", dataset |-> shown, id |-> new, old |-> ev.id,
                                    doc |-> view])
  <2>1. Known(view, clock, stores) /\ ev.id \in Id /\ shown \in Dataset
    BY <1>3, EventFacts DEF OwnEverywhere, OnPage
  <2>2. InFlight'
    BY <1>3, <2>1, SendKeeps DEF Rename, Quiet
  <2> QED
    BY <1>1, <1>2, <2>2 DEF OwnEverywhere
<1>4. CASE calls' = calls
  BY <1>1, <1>2, <1>4 DEF OwnEverywhere, InFlight, Rename
<1> QED
  BY <1>3, <1>4 DEF Rename

(* A delete sends an id.                                                      *)
LEMMA DeleteKeeps ==
    ASSUME OwnEverywhere, NEW c \in Call, NEW ev \in events, Delete(c, ev)
    PROVE  OwnEverywhere'
<1>1. OnDisk'
  BY StillOnDisk DEF OwnEverywhere, Delete
<1>2. OnPage'
  BY DEF OwnEverywhere, OnPage, Own, Delete
<1>3. CASE Fetch(c, [op |-> "delete", dataset |-> shown, id |-> ev.id, match |-> view.version])
  <2>1. InFlight'
    BY <1>3, EventFacts, SendKeeps DEF Delete, Quiet
  <2> QED
    BY <1>1, <1>2, <2>1 DEF OwnEverywhere
<1>4. CASE calls' = calls
  BY <1>1, <1>2, <1>4 DEF OwnEverywhere, InFlight, Delete
<1> QED
  BY <1>3, <1>4 DEF Delete

(* An added event is one of the dataset on the page.                          *)
LEMMA AddKeeps ==
    ASSUME OwnEverywhere, NEW t \in Trade, Add(t)
    PROVE  OwnEverywhere'
<1>1. [id |-> Fresh[t], trade |-> t] \in Event /\ Home[t] = shown
  BY WorkspaceAssumption DEF Event, Add
<1>2. OnPage'
  BY <1>1 DEF OwnEverywhere, OnPage, Own, Add
<1>3. OnDisk' /\ InFlight'
  BY StillOnDisk DEF OwnEverywhere, InFlight, Add
<1> QED
  BY <1>2, <1>3 DEF OwnEverywhere

(* What a research save adds is of the event's own trade; what it keeps is of *)
(* the store whose version it names.                                          *)
LEMMA SaveResearchKeeps ==
    ASSUME OwnEverywhere, NEW c \in Call, NEW ev \in events, SaveResearch(c, ev)
    PROVE  OwnEverywhere'
<1> DEFINE saved == view.saved[ev.id]
           before == IF saved = None THEN [trades |-> {}, names |-> {}] ELSE saved
<1>1. /\ view # None /\ Known(view, clock, stores) /\ ev.id \in Id /\ ev.trade \in Trade
      /\ Home[ev.trade] = shown /\ shown \in Dataset
  BY EventFacts DEF OwnEverywhere, OnPage, SaveResearch
<1>2. /\ saved = None \/ saved \in Record
      /\ view.version \in Nat /\ view.version <= clock
      /\ OwnRecord(saved, view.of)
  BY <1>1 DEF Known, OwnStore, OwnSaved, Store
<1>3. before \in Record
  BY <1>2 DEF Record
<1>4. PICK kept \in SUBSET before.trades, new \in SUBSET {ev.trade},
           names \in {before.names, {}, {ev.id}} :
             Fetch(c, [op |-> "research", dataset |-> shown, id |-> ev.id,
                       match |-> view.version,
                       doc |-> [trades |-> kept \cup new, names |-> names]])
  BY DEF SaveResearch
<1> DEFINE record == [trades |-> kept \cup new, names |-> names]
           call == [op |-> "research", dataset |-> shown, id |-> ev.id,
                    match |-> view.version, doc |-> record]
<1>5. record \in Record
  BY <1>1, <1>3 DEF Record
<1>6. ASSUME view.version = stores[shown].version PROVE OwnRecord(record, shown)
  <2>1. view.of = shown \/ Empty(view)
    BY <1>1, <1>6 DEF Known
  <2>2. saved = None \/ view.of = shown
    BY <1>1, <2>1 DEF Empty
  <2>3. \A t \in before.trades : Home[t] = shown
    BY <1>2, <2>2 DEF OwnRecord
  <2> QED
    BY <1>1, <2>3 DEF OwnRecord
<1>7. Fits(call, clock, stores)
  BY <1>2, <1>5, <1>6 DEF Fits
<1>8. InFlight'
  BY <1>1, <1>4, <1>7, SendKeeps DEF SaveResearch, Quiet
<1> QED
  BY <1>8, StillOnDisk, StillOnPage DEF OwnEverywhere, SaveResearch

(* A dataset is sent under its own name.                                      *)
LEMMA SaveDatasetKeeps ==
    ASSUME OwnEverywhere, NEW c \in Call, SaveDataset(c)
    PROVE  OwnEverywhere'
<1>1. shown \in Dataset /\ Own(events, shown)
  BY DEF OwnEverywhere, OnPage
<1>2. InFlight'
  BY <1>1, SendKeeps DEF SaveDataset, Quiet
<1> QED
  BY <1>2, StillOnDisk, StillOnPage DEF OwnEverywhere, SaveDataset

(* A load sends the name of a dataset.                                        *)
LEMMA LoadKeeps ==
    ASSUME OwnEverywhere, NEW c \in Call, NEW d \in Dataset, Load(c, d)
    PROVE  OwnEverywhere'
<1>1. InFlight'
  BY SendKeeps DEF Load, Quiet
<1> QED
  BY <1>1, StillOnDisk, StillOnPage DEF OwnEverywhere, Load


(* Every step of the user.                                                    *)
LEMMA UserKeeps ==
    ASSUME OwnEverywhere, (\E c \in Call : User(c)) \/ (\E t \in Trade : Add(t))
    PROVE  OwnEverywhere'
BY RenameKeeps, DeleteKeeps, AddKeeps, SaveResearchKeeps, SaveDatasetKeeps, LoadKeeps DEF User

-----------------------------------------------------------------------------
(* The tab from the answer on. *)

(* What an answer carries.                                                    *)
LEMMA AnswerCarries ==
    ASSUME OwnEverywhere, NEW c \in Call, calls[c].phase = "ok", calls[c].op \in Op
    PROVE  /\ calls[c].dataset \in Dataset
           /\ calls[c].op \in {"rename", "delete", "research", "view"} =>
                Known(calls[c].doc, clock, stores)
           /\ calls[c].op \in {"save", "load"} => Own(calls[c].doc, calls[c].dataset)
BY DEF OwnEverywhere, InFlight, Carries

(* A store that was sent is known.                                            *)
LEMMA ReceiveStoreKeeps ==
    ASSUME OwnEverywhere, NEW c \in Call, ReceiveStore(c)
    PROVE  OwnEverywhere'
<1>1. Known(calls[c].doc, clock, stores)
  BY AnswerCarries DEF ReceiveStore, Op, Write
<1>2. OnPage'
  BY <1>1 DEF OwnEverywhere, OnPage, ReceiveStore
<1> QED
  BY <1>2, StillOnDisk, DoneKeeps DEF OwnEverywhere, ReceiveStore

(* The id that a failed rename gives back was an id.                          *)
LEMMA RollBackKeeps ==
    ASSUME OwnEverywhere, NEW c \in Call, RollBack(c)
    PROVE  OwnEverywhere'
<1>1. calls[c].old \in Id
  BY RenameIds DEF RollBack
<1>2. Own(events', shown)
  BY <1>1, OwnRenamed DEF RollBack
<1>3. OnPage'
  BY <1>2 DEF OwnEverywhere, OnPage, RollBack
<1> QED
  BY <1>3, StillOnDisk, DoneKeeps DEF OwnEverywhere, RollBack

(* A failure brings nothing new.                                              *)
LEMMA ReceiveFailureKeeps ==
    ASSUME OwnEverywhere, NEW c \in Call, ReceiveFailure(c)
    PROVE  OwnEverywhere'
<1>1. OnPage'
  BY DEF OwnEverywhere, OnPage, ReceiveFailure
<1> QED
  BY <1>1, StillOnDisk, DoneKeeps DEF OwnEverywhere, ReceiveFailure

(* The page shows the events it is told are saved.                            *)
LEMMA ReceiveSavedKeeps ==
    ASSUME OwnEverywhere, NEW c \in Call, ReceiveSaved(c)
    PROVE  OwnEverywhere'
<1>1. calls[c].dataset \in Dataset /\ Own(calls[c].doc, calls[c].dataset)
  BY AnswerCarries DEF ReceiveSaved, Op, Write
<1>2. OnPage'
  BY <1>1 DEF OwnEverywhere, OnPage, ReceiveSaved
<1> QED
  BY <1>2, StillOnDisk, DoneKeeps DEF OwnEverywhere, ReceiveSaved

(* The page shows the dataset it was sent, and asks for its research.         *)
LEMMA ReceiveDatasetKeeps ==
    ASSUME OwnEverywhere, NEW c \in Call, ReceiveDataset(c)
    PROVE  OwnEverywhere'
<1>1. calls[c].dataset \in Dataset /\ Own(calls[c].doc, calls[c].dataset)
  BY AnswerCarries DEF ReceiveDataset, Op, Write
<1>2. OnPage'
  BY <1>1 DEF OwnEverywhere, OnPage, ReceiveDataset
<1> DEFINE next == [Quiet EXCEPT !.op = "view", !.phase = "sent", !.dataset = calls[c].dataset]
<1>3. calls' = [calls EXCEPT ![c] = next]
  BY DEF ReceiveDataset
<1>4. DOMAIN next = DOMAIN Quiet /\ next.op = "view" /\ next.dataset = calls[c].dataset
  BY DEF Quiet
<1>5. next.phase = "sent"
  BY DEF Quiet
<1>6. Carries(next, clock, stores)
  BY <1>1, <1>4, <1>5 DEF Carries
<1>7. DOMAIN calls' = Call /\ calls'[c] = next /\ \A e \in Call \ {c} : calls'[e] = calls[e]
  BY <1>3 DEF OwnEverywhere, InFlight
<1>8. InFlight'
  BY <1>6, <1>7, OneCallKeeps DEF ReceiveDataset
<1> QED
  BY <1>2, <1>8, StillOnDisk DEF OwnEverywhere, ReceiveDataset

-----------------------------------------------------------------------------
(* The invariant. *)

(* At first only one dataset's store has a stamp other than that of nothing.  *)
LEMMA StartsOwn == Init => OwnEverywhere
<1> SUFFICES ASSUME Init PROVE OwnEverywhere
  OBVIOUS
<1> DEFINE trades(d, i) == {ev.trade : ev \in {x \in Initial[d] : x.id = i}} \cap Researched
           saved(d) == [i \in Id |-> RecordOf(i, trades(d, i))]
           version(d) == IF \A i \in Id : saved(d)[i] = None THEN 0 ELSE 1
<1>1. /\ \A d \in Dataset : Own(Initial[d], d)
      /\ DOMAIN Initial = Dataset /\ files = Initial /\ clock = 1
  BY WorkspaceAssumption DEF Own, Init
<1>2. stores = [d \in Dataset |-> [of |-> d, saved |-> saved(d), version |-> version(d)]]
  BY DEF Init
<1>3. ASSUME NEW d \in Dataset
      PROVE  /\ OwnSaved(saved(d), d) /\ version(d) \in 0..1
             /\ version(d) = 1 => \E t \in Researched : Home[t] = d
             /\ version(d) = 0 => \A i \in Id : saved(d)[i] = None
  <2>1. \A i \in Id : /\ trades(d, i) \subseteq Researched
                      /\ \A t \in trades(d, i) : t \in Trade /\ Home[t] = d
    BY <1>1, WorkspaceAssumption DEF Own, Event
  <2>2. ASSUME NEW i \in Id
        PROVE  /\ saved(d)[i] \in Record \cup {None} /\ OwnRecord(saved(d)[i], d)
               /\ saved(d)[i] # None => \E t \in Researched : Home[t] = d
    <3>1. saved(d)[i] = IF trades(d, i) = {} THEN None ELSE [trades |-> trades(d, i), names |-> {}]
      BY DEF RecordOf
    <3>2. trades(d, i) \subseteq Trade
      BY <2>1
    <3>3. trades(d, i) # {} => \E t \in Researched : Home[t] = d
      BY <2>1
    <3>4. [trades |-> trades(d, i), names |-> {}] \in Record
      BY <3>2 DEF Record
    <3>5. CASE trades(d, i) = {}
      BY <3>1, <3>5 DEF OwnRecord
    <3>6. CASE trades(d, i) # {}
      <4>1. saved(d)[i] = [trades |-> trades(d, i), names |-> {}]
        BY <3>1, <3>6
      <4>2. saved(d)[i].trades = trades(d, i)
        BY <4>1
      <4>3. OwnRecord(saved(d)[i], d)
        BY <2>1, <4>2 DEF OwnRecord
      <4>4. saved(d)[i] \in Record
        BY <3>4, <4>1
      <4> QED
        BY <3>3, <3>6, <4>3, <4>4
    <3> QED
      BY <3>5, <3>6
  <2>3. OwnSaved(saved(d), d)
    BY <2>2 DEF OwnSaved
  <2> QED
    BY <2>2, <2>3
<1> HIDE DEF saved, version
<1>4. ASSUME NEW d \in Dataset
      PROVE  Known(stores[d], clock, stores) /\ stores[d].of = d
  <2>1. stores[d] = [of |-> d, saved |-> saved(d), version |-> version(d)]
    BY <1>2
  <2>2. stores[d].of = d /\ stores[d].saved = saved(d) /\ stores[d].version = version(d)
    BY <2>1
  <2>3. stores[d] \in Store
    BY <1>3, <2>1 DEF Store, OwnSaved
  <2>4. OwnStore(stores[d]) /\ stores[d].version <= clock
    BY <1>1, <1>3, <2>2, <2>3 DEF OwnStore
  <2>5. ASSUME NEW e \in Dataset, stores[d].version = stores[e].version
        PROVE  d = e \/ Empty(stores[d])
    <3>1. version(d) = version(e)
      BY <1>2, <2>2, <2>5
    <3>2. CASE version(d) = 1
      <4>1. PICK t \in Researched : Home[t] = d
        BY <1>3, <3>2
      <4>2. PICK u \in Researched : Home[u] = e
        BY <1>3, <3>1, <3>2
      <4>3. Home[t] = Home[u]
        BY WorkspaceAssumption
      <4> QED
        BY <4>1, <4>2, <4>3
    <3>3. CASE version(d) = 0
      BY <1>3, <2>2, <3>3 DEF Empty
    <3> QED
      BY <1>3, <3>2, <3>3
  <2> QED
    BY <2>2, <2>4, <2>5 DEF Known
<1>5. OnDisk
  BY <1>1, <1>2, <1>4 DEF OnDisk
<1>6. OnPage
  BY <1>1, <1>4 DEF Init, OnPage
<1>7. InFlight
  BY QuietCarries DEF Init, InFlight
<1> QED
  BY <1>5, <1>6, <1>7 DEF OwnEverywhere

(* And as long as nothing happens.                                            *)
LEMMA StutterKeeps == OwnEverywhere /\ UNCHANGED vars => OwnEverywhere'
BY StillOnDisk, StillOnPage DEF OwnEverywhere, InFlight, vars

(* Every step preserves the invariant.                                        *)
LEMMA OwnStep == OwnEverywhere /\ [Next]_vars => OwnEverywhere'
BY UserKeeps, ServerKeeps, ReceiveStoreKeeps, RollBackKeeps, ReceiveFailureKeeps,
   ReceiveSavedKeeps, ReceiveDatasetKeeps, StutterKeeps DEF Next, Receive

-----------------------------------------------------------------------------
(* The types that the invariant does not give. *)

CallTypes(call) ==
    /\ call.op \in Op \cup {None}
    /\ call.phase \in {None, "sent", "ok", "failed"}
    /\ call.dataset \in Dataset \cup {None}
    /\ {call.id, call.old} \subseteq Id \cup {None}
    /\ call.match \in 0..MaxClock \cup {None}

StoreTypes == /\ clock \in 1..MaxClock
              /\ \A d \in Dataset : ValidStore(stores[d].saved)
OtherTypes == spare \subseteq Trade /\ dirty \in BOOLEAN
FetchTypes == \A c \in Call : CallTypes(calls[c])

Types == StoreTypes /\ OtherTypes /\ FetchTypes

(* One fetch changes.                                                         *)
LEMMA OneCallTypes ==
    ASSUME FetchTypes, NEW c \in Call, \A e \in Call \ {c} : calls'[e] = calls[e],
           CallTypes(calls'[c])
    PROVE  FetchTypes'
<1> SUFFICES ASSUME NEW e \in Call PROVE CallTypes(calls'[e])
  BY DEF FetchTypes
<1>1. CASE e = c
  BY <1>1
<1>2. CASE e # c
  <2>1. calls'[e] = calls[e]
    BY <1>2
  <2> QED
    BY <2>1 DEF FetchTypes
<1> QED
  BY <1>1, <1>2

(* An answer.                                                                 *)
LEMMA AnswerTypes ==
    ASSUME OwnEverywhere, FetchTypes, NEW c \in Call, NEW phase \in {"ok", "failed"}, NEW doc,
           Answers(c, phase, doc)
    PROVE  FetchTypes'
<1>1. /\ \A e \in Call \ {c} : calls'[e] = calls[e]
      /\ calls'[c].op = calls[c].op /\ calls'[c].dataset = calls[c].dataset
      /\ calls'[c].id = calls[c].id /\ calls'[c].old = calls[c].old
      /\ calls'[c].match = calls[c].match /\ calls'[c].phase = phase
  BY Answered DEF OwnEverywhere
<1>2. CallTypes(calls'[c])
  BY <1>1 DEF FetchTypes, CallTypes
<1> QED
  BY <1>1, <1>2, OneCallTypes

(* A request.                                                                 *)
LEMMA SendTypes ==
    ASSUME OwnEverywhere, FetchTypes, NEW c \in Call, NEW call, Fetch(c, call),
           DOMAIN call \subseteq DOMAIN Quiet \ {"phase"},
           {"op", "dataset"} \subseteq DOMAIN call, call.op \in Op, call.dataset \in Dataset,
           "id" \in DOMAIN call => call.id \in Id,
           "old" \in DOMAIN call => call.old \in Id,
           "match" \in DOMAIN call => call.match \in 0..MaxClock
    PROVE  FetchTypes'
<1>1. /\ \A e \in Call \ {c} : calls'[e] = calls[e] /\ calls'[c].phase = "sent"
      /\ \A x \in DOMAIN Quiet \intersect DOMAIN call : calls'[c][x] = call[x]
      /\ \A x \in DOMAIN Quiet \ (DOMAIN call \cup {"phase"}) : calls'[c][x] = None
      /\ calls'[c].phase = "sent"
  BY Fetched DEF OwnEverywhere
<1>2. DOMAIN Quiet = {"op", "phase", "dataset", "id", "old", "match", "doc"}
  BY DEF Quiet
<1>3. calls'[c].op = call.op /\ calls'[c].dataset = call.dataset
  BY <1>1, <1>2
<1>4. (calls'[c].id = call.id /\ "id" \in DOMAIN call) \/ calls'[c].id = None
  BY <1>1, <1>2
<1>5. (calls'[c].old = call.old /\ "old" \in DOMAIN call) \/ calls'[c].old = None
  BY <1>1, <1>2
<1>6. (calls'[c].match = call.match /\ "match" \in DOMAIN call) \/ calls'[c].match = None
  BY <1>1, <1>2
<1>7. CallTypes(calls'[c])
  BY <1>1, <1>3, <1>4, <1>5, <1>6 DEF CallTypes
<1> QED
  BY <1>1, <1>7, OneCallTypes

(* A fetch that is done, and the second half of a load.                       *)
LEMMA DoneTypes ==
    ASSUME OwnEverywhere, FetchTypes, NEW c \in Call, Done(c)
    PROVE  FetchTypes'
<1>1. calls'[c] = Quiet /\ \A e \in Call \ {c} : calls'[e] = calls[e]
  BY DEF Done, OwnEverywhere, InFlight
<1>2. CallTypes(Quiet)
  BY DEF CallTypes, Quiet
<1> QED
  BY <1>1, <1>2, OneCallTypes

(* The version of the store the tab holds.                                    *)
LEMMA ViewVersion ==
    ASSUME OwnEverywhere, StoreTypes, view # None
    PROVE  view.version \in 0..MaxClock
<1>1. view.version \in Nat /\ view.version <= clock /\ clock <= MaxClock /\ clock \in Nat
  BY DEF OwnEverywhere, OnPage, Known, OwnStore, Store, StoreTypes
<1> QED
  BY <1>1, WorkspaceAssumption

(* A commit is one tick later, and of a store that was checked.               *)
LEMMA CommitTypes ==
    ASSUME OwnEverywhere, Types, NEW c \in Call, NEW d \in Dataset, NEW saved,
           OwnSaved(saved, d), ValidStore(saved), Commits(c, d, saved)
    PROVE  StoreTypes' /\ FetchTypes'
<1>1. clock \in 1..MaxClock /\ clock' = clock + 1 /\ clock < MaxClock
  BY DEF Commits, Types, StoreTypes
<1>2. clock' \in 1..MaxClock
  BY <1>1, WorkspaceAssumption
<1>3. DOMAIN stores = Dataset /\ stores[d] \in Store /\ saved \in [Id -> Record \cup {None}]
  BY DEF OwnEverywhere, OnDisk, Known, OwnStore, OwnSaved
<1>4. /\ \A e \in Dataset \ {d} : stores'[e] = stores[e]
      /\ stores'[d].saved = saved
  BY <1>3 DEF Commits, Store
<1>5. \A e \in Dataset : ValidStore(stores'[e].saved)
  BY <1>4 DEF Types, StoreTypes
<1> QED
  BY <1>2, <1>5, AnswerTypes DEF Commits, Types, StoreTypes

(* Every step of the server.                                                  *)
LEMMA ServerTypes ==
    ASSUME OwnEverywhere, Types, NEW c \in Call, Server(c) \/ Lose(c)
    PROVE  Types'
<1>1. OtherTypes'
  BY DEF Types, OtherTypes, Server, Lose, ServeRename, ServeDelete, ServeResearch, ServeDataset,
         ServeLoad, Fail, tab
<1>2. CASE UNCHANGED <<clock, stores>> /\ \E phase \in {"ok", "failed"} : \E doc : Answers(c, phase, doc)
  BY <1>1, <1>2, AnswerTypes DEF Types, StoreTypes
<1>3. CASE ServeRename(c) /\ ~Refuses(c)
  <2> DEFINE call == calls[c]
             renamed == RenamedSaved(call.doc.saved, call.old, call.id)
  <2>1. /\ calls[c].op = "rename" /\ calls[c].phase = "sent" /\ call.doc.of = call.dataset
        /\ ValidStore(renamed) /\ Commits(c, call.dataset, renamed)
    BY <1>3 DEF ServeRename
  <2>2. /\ calls[c].dataset \in Dataset /\ calls[c].id \in Id /\ calls[c].old \in Id
        /\ OwnSaved(calls[c].doc.saved, calls[c].dataset)
    BY <2>1, SentCarries DEF Op, Write, Known, OwnStore
  <2>3. OwnSaved(renamed, calls[c].dataset)
    BY <2>2, RenamedIsOwn
  <2> QED
    BY <1>1, <2>1, <2>2, <2>3, CommitTypes DEF Types
<1>4. CASE ServeDelete(c) /\ Commits(c, calls[c].dataset,
                  [stores[calls[c].dataset].saved EXCEPT ![calls[c].id] = None])
  <2> DEFINE saved == [stores[calls[c].dataset].saved EXCEPT ![calls[c].id] = None]
  <2>1. calls[c].dataset \in Dataset /\ calls[c].id \in Id
    BY <1>4, SentCarries DEF Op, Write, ServeDelete
  <2>2. OwnSaved(saved, calls[c].dataset)
    BY <2>1, OwnDisk DEF OwnSaved, OwnRecord
  <2>3. ValidStore(saved)
    BY <2>1, OwnDisk DEF ValidStore, OwnSaved, Types, StoreTypes
  <2> QED
    BY <1>1, <1>4, <2>1, <2>2, <2>3, CommitTypes DEF Types
<1>5. CASE ServeResearch(c) /\ ~Refuses(c)
  <2> DEFINE s == stores[calls[c].dataset]
             saved == [s.saved EXCEPT ![calls[c].id] = calls[c].doc]
  <2>1. /\ calls[c].op = "research" /\ calls[c].phase = "sent" /\ calls[c].match = s.version
        /\ ValidStore(saved) /\ Commits(c, calls[c].dataset, saved)
    BY <1>5 DEF ServeResearch
  <2>2. /\ calls[c].dataset \in Dataset /\ calls[c].id \in Id /\ Fits(calls[c], clock, stores)
    BY <2>1, SentCarries DEF Op, Write
  <2>3. OwnSaved(saved, calls[c].dataset)
    BY <2>1, <2>2, OwnDisk DEF OwnSaved, Fits
  <2> QED
    BY <1>1, <2>1, <2>2, <2>3, CommitTypes DEF Types
<1> QED
  BY <1>2, <1>3, <1>4, <1>5 DEF Server, Lose, ServeRename, ServeDelete, ServeResearch,
     ServeDataset, ServeLoad, Fail, Refuses

(* Every step of the user.                                                    *)
LEMMA UserTypes ==
    ASSUME OwnEverywhere, Types, (\E c \in Call : User(c)) \/ (\E t \in Trade : Add(t))
    PROVE  Types'
<1>1. StoreTypes'
  BY DEF Types, StoreTypes, User, Rename, Delete, SaveResearch, SaveDataset, Load, Add
<1>2. OtherTypes'
  BY DEF Types, OtherTypes, User, Rename, Delete, SaveResearch, SaveDataset, Load, Add, tab
<1>3. shown \in Dataset /\ FetchTypes /\ StoreTypes
  BY DEF OwnEverywhere, OnPage, Types
<1>4. ASSUME NEW c \in Call, NEW ev \in events, NEW new \in Id, Rename(c, ev, new) PROVE FetchTypes'
  <2>1. ev.id \in Id
    BY EventFacts
  <2>2. CASE Fetch(c, [op |-> "rename", dataset |-> shown, id |-> new, old |-> ev.id, doc |-> view])
    BY <1>3, <2>1, <2>2, SendTypes DEF Quiet, Op, Write
  <2>3. CASE calls' = calls
    BY <1>3, <2>3 DEF FetchTypes
  <2> QED
    BY <1>4, <2>2, <2>3 DEF Rename
<1>5. ASSUME NEW c \in Call, NEW ev \in events, Delete(c, ev) PROVE FetchTypes'
  <2>1. ev.id \in Id
    BY EventFacts
  <2>2. CASE view # None /\ Fetch(c, [op |-> "delete", dataset |-> shown, id |-> ev.id,
                                      match |-> view.version])
    <3>1. view.version \in 0..MaxClock
      BY <1>3, <2>2, ViewVersion
    <3> QED
      BY <1>3, <2>1, <2>2, <3>1, SendTypes DEF Quiet, Op, Write
  <2>3. CASE calls' = calls
    BY <1>3, <2>3 DEF FetchTypes
  <2> QED
    BY <1>5, <2>2, <2>3 DEF Delete
<1>6. ASSUME NEW c \in Call, NEW ev \in events, SaveResearch(c, ev) PROVE FetchTypes'
  <2>1. ev.id \in Id /\ view.version \in 0..MaxClock
    BY <1>3, <1>6, EventFacts, ViewVersion DEF SaveResearch
  <2>2. PICK record : Fetch(c, [op |-> "research", dataset |-> shown, id |-> ev.id,
                                match |-> view.version, doc |-> record])
    BY <1>6 DEF SaveResearch
  <2> QED
    BY <1>3, <2>1, <2>2, SendTypes DEF Quiet, Op, Write
<1>7. ASSUME NEW c \in Call, SaveDataset(c) PROVE FetchTypes'
  BY <1>3, <1>7, SendTypes DEF SaveDataset, Quiet, Op, Write
<1>8. ASSUME NEW c \in Call, NEW d \in Dataset, Load(c, d) PROVE FetchTypes'
  BY <1>3, <1>8, SendTypes DEF Load, Quiet, Op, Write
<1>9. ASSUME NEW t \in Trade, Add(t) PROVE FetchTypes'
  BY <1>3, <1>9 DEF FetchTypes, Add
<1> QED
  BY <1>1, <1>2, <1>4, <1>5, <1>6, <1>7, <1>8, <1>9 DEF Types, User

(* Every answer received.                                                     *)
LEMMA ReceiveTypes ==
    ASSUME OwnEverywhere, Types, NEW c \in Call, Receive(c)
    PROVE  Types'
<1>1. StoreTypes'
  BY DEF Types, StoreTypes, Receive, ReceiveStore, RollBack, ReceiveFailure, ReceiveSaved,
         ReceiveDataset
<1>2. OtherTypes'
  BY DEF Types, OtherTypes, Receive, ReceiveStore, RollBack, ReceiveFailure, ReceiveSaved,
         ReceiveDataset
<1>3. CASE Done(c)
  BY <1>1, <1>2, <1>3, DoneTypes DEF Types
<1>4. CASE ReceiveDataset(c)
  <2> DEFINE next == [Quiet EXCEPT !.op = "view", !.phase = "sent", !.dataset = calls[c].dataset]
  <2>1. calls[c].dataset \in Dataset
    BY <1>4, AnswerCarries DEF ReceiveDataset, Op, Write
  <2>2. calls'[c] = next /\ \A e \in Call \ {c} : calls'[e] = calls[e]
    BY <1>4 DEF ReceiveDataset, OwnEverywhere, InFlight
  <2>3. next.op = "view" /\ next.phase = "sent" /\ next.dataset = calls[c].dataset
    BY DEF Quiet
  <2>4. next.id = None /\ next.old = None /\ next.match = None
    BY DEF Quiet
  <2>5. CallTypes(next)
    BY <2>1, <2>3, <2>4 DEF CallTypes, Op
  <2> QED
    BY <1>1, <1>2, <2>2, <2>5, OneCallTypes DEF Types
<1> QED
  BY <1>3, <1>4 DEF Receive, ReceiveStore, RollBack, ReceiveFailure, ReceiveSaved

(* The types hold at first.                                                   *)
LEMMA StartsTyped == Init => Types
<1> SUFFICES ASSUME Init PROVE Types
  OBVIOUS
<1>1. StoreTypes
  <2>1. ASSUME NEW d \in Dataset, NEW i \in Id, stores[d].saved[i] # None
        PROVE  stores[d].saved[i].names = {}
    BY <2>1 DEF Init, RecordOf
  <2>2. \A d \in Dataset : ValidStore(stores[d].saved)
    BY <2>1 DEF ValidStore
  <2>3. clock \in 1..MaxClock
    BY WorkspaceAssumption DEF Init
  <2> QED
    BY <2>2, <2>3 DEF StoreTypes
<1>2. OtherTypes
  BY DEF OtherTypes, Init
<1>3. FetchTypes
  BY DEF FetchTypes, CallTypes, Init, Quiet
<1> QED
  BY <1>1, <1>2, <1>3 DEF Types

(* And after every step.                                                      *)
LEMMA TypesStep == OwnEverywhere /\ Types /\ [Next]_vars => Types'
<1>1. OwnEverywhere /\ Types /\ UNCHANGED vars => Types'
  BY DEF Types, StoreTypes, OtherTypes, FetchTypes, vars, tab
<1> QED
  BY <1>1, ServerTypes, UserTypes, ReceiveTypes DEF Next

-----------------------------------------------------------------------------
(* The careful user. *)

(* A user who waits for each answer and leaves no unsaved edit behind, a      *)
(* server that can be reached and refuses no delete of what is there.         *)
Careful == Patient /\ ~Discards /\ Lossy = {} /\ "delete" \notin Failing

(* What is saved under an id is research for the event that has the id.       *)
Agrees(saved, evs) ==
    \A i \in Id : saved[i] # None =>
        \E ev \in evs : ev.id = i /\ saved[i].trades \subseteq {ev.trade}
(* An event, and a page's events, with one id given for another.              *)
Other(x, old, new) == IF x.id = old THEN [x EXCEPT !.id = new] ELSE x
Renamed(evs, old, new) == {Other(x, old, new) : x \in evs}

(* Between two actions: the tab holds the store on disk, and it is of the     *)
(* events on the page.                                                        *)
OnDiskAgrees == Agrees(stores[shown].saved, events)
Settled == view = stores[shown] /\ OnDiskAgrees

(* Of the other datasets the files tell the events; of the one on the page    *)
(* they do as long as nothing is edited.                                      *)
Tidy ==
    /\ ValidDataset(events) /\ \A d \in Dataset : ValidDataset(files[d])
    /\ \A d \in Dataset \ {shown} : Agrees(stores[d].saved, files[d])
    /\ dirty \/ events = files[shown]

(* The one call in flight, and what the page and the disk are to it.  Until it *)
(* is answered, a rename can be taken back and the stores agree again.        *)
AwaitsRename(call) ==
    /\ call.phase \in {"sent", "failed"} =>
         /\ view = stores[shown] /\ dirty /\ call.old \notin Ids(events)
         /\ Agrees(stores[shown].saved, Renamed(events, call.id, call.old))
    /\ call.phase = "sent" => call.doc = view
(* A delete's version is that on disk, so it is not refused; without the record *)
(* the store agrees with the page.                                            *)
AwaitsDelete(call) ==
    /\ call.phase # "failed"
    /\ call.phase = "sent" =>
         /\ call.match = stores[shown].version
         /\ Agrees([stores[shown].saved EXCEPT ![call.id] = None], events)
(* With the record saved, or not, the store agrees with the page.             *)
AwaitsResearch(call) ==
    /\ call.phase \in {"sent", "failed"} => Settled
    /\ call.phase = "sent" => Agrees([stores[shown].saved EXCEPT ![call.id] = call.doc], events)
(* A dataset that is saved is the one on the page.                            *)
AwaitsSave(call) ==
    /\ Settled
    /\ call.phase \in {"sent", "ok"} => call.doc = events
    /\ call.phase = "ok" => events = files[shown]
(* Nothing is edited while a dataset loads.                                   *)
AwaitsLoad(call) ==
    /\ Settled /\ ~dirty /\ call.phase # "failed"
    /\ call.phase = "ok" => call.doc = files[call.dataset]
(* The page shows a dataset whose store is still to come.                     *)
AwaitsView(call) == OnDiskAgrees /\ call.phase # "failed"

(* An answer to a write, or to the second half of a load, is the store on disk. *)
Awaits(call) ==
    /\ call.op \in Op /\ call.phase \in {"sent", "ok", "failed"}
    /\ call.op # "load" => call.dataset = shown
    /\ call.op \in {"rename", "delete", "research", "view"} /\ call.phase = "ok" =>
         call.doc = stores[shown] /\ OnDiskAgrees
    /\ call.op = "rename" => AwaitsRename(call)
    /\ call.op = "delete" => AwaitsDelete(call)
    /\ call.op = "research" => AwaitsResearch(call)
    /\ call.op = "save" => AwaitsSave(call)
    /\ call.op = "load" => AwaitsLoad(call)
    /\ call.op = "view" => AwaitsView(call)

(* Nothing in flight, or one call.                                            *)
AtMostOne ==
    \/ Idle /\ Settled
    \/ \E c \in Call : Awaits(calls[c]) /\ \A e \in Call \ {c} : calls[e] = Quiet

(* The invariant of a careful user.                                           *)
Orderly == Tidy /\ AtMostOne

-----------------------------------------------------------------------------
(* Another id on a page's events. *)

(* It is an event of the same trade.                                          *)
LEMMA OtherEvent ==
    \A x \in Event, old, new \in Id :
        /\ Other(x, old, new) \in Event /\ Other(x, old, new).trade = x.trade
        /\ Other(x, old, new).id = IF x.id = old THEN new ELSE x.id
BY DEF Event, Other

(* So every event is among the renamed ones under its new id,                 *)
LEMMA RenamedHas ==
    ASSUME NEW evs, evs \subseteq Event, NEW old \in Id, NEW new \in Id, NEW x \in evs
    PROVE  \E y \in Renamed(evs, old, new) :
              y.trade = x.trade /\ y.id = IF x.id = old THEN new ELSE x.id
<1>1. Other(x, old, new) \in Renamed(evs, old, new)
  BY DEF Renamed
<1> QED
  BY <1>1, OtherEvent

(* and every renamed one was an event.                                        *)
LEMMA RenamedFrom ==
    ASSUME NEW evs, evs \subseteq Event, NEW old \in Id, NEW new \in Id,
           NEW y \in Renamed(evs, old, new)
    PROVE  \E x \in evs : /\ y = Other(x, old, new)
                          /\ y.trade = x.trade /\ y.id = IF x.id = old THEN new ELSE x.id
<1>1. PICK x \in evs : y = Other(x, old, new)
  BY DEF Renamed
<1> QED
  BY <1>1, OtherEvent

(* Nothing has the old id any more.                                           *)
LEMMA RenamedIsGone ==
    ASSUME NEW evs, evs \subseteq Event, NEW old \in Id, NEW new \in Id, new # old
    PROVE  old \notin Ids(Renamed(evs, old, new))
BY RenamedFrom DEF Ids

(* The events before are had back, if nothing had the new id.                 *)
LEMMA RenamedBack ==
    ASSUME NEW evs, evs \subseteq Event, NEW old \in Id, NEW new \in Id, new \notin Ids(evs)
    PROVE  Renamed(Renamed(evs, old, new), new, old) = evs
<1>1. ASSUME NEW x \in evs PROVE Other(Other(x, old, new), new, old) = x
  <2>1. x \in Event /\ x.id # new
    BY DEF Ids
  <2> QED
    BY <2>1 DEF Event, Other
<1>2. Renamed(Renamed(evs, old, new), new, old) = {Other(Other(x, old, new), new, old) : x \in evs}
  BY DEF Renamed
<1> QED
  BY <1>1, <1>2

(* Ids stay unique, if nothing had the new id.                                *)
LEMMA RenamedIsValid ==
    ASSUME NEW evs, evs \subseteq Event, NEW old \in Id, NEW new \in Id, new \notin Ids(evs),
           ValidDataset(evs)
    PROVE  ValidDataset(Renamed(evs, old, new))
<1> SUFFICES ASSUME NEW v \in Renamed(evs, old, new), NEW w \in Renamed(evs, old, new), v.id = w.id
             PROVE  v = w
  BY DEF ValidDataset
<1>1. PICK x \in evs : /\ v = Other(x, old, new)
                       /\ v.id = IF x.id = old THEN new ELSE x.id
  BY RenamedFrom
<1>2. PICK y \in evs : /\ w = Other(y, old, new)
                       /\ w.id = IF y.id = old THEN new ELSE y.id
  BY RenamedFrom
<1>3. x.id # new /\ y.id # new
  BY DEF Ids
<1>4. x.id = y.id
  BY <1>1, <1>2, <1>3
<1>5. x = y
  BY <1>4 DEF ValidDataset
<1> QED
  BY <1>1, <1>2, <1>5

-----------------------------------------------------------------------------
(* What is saved, and what it is saved for. *)

(* A rename of what has no research needs no store.                           *)
LEMMA AgreesUnsaved ==
    ASSUME NEW evs, evs \subseteq Event, NEW old \in Id, NEW new \in Id, NEW saved,
           saved[old] = None, Agrees(saved, evs)
    PROVE  Agrees(saved, Renamed(evs, old, new))
<1> SUFFICES ASSUME NEW i \in Id, saved[i] # None
             PROVE  \E y \in Renamed(evs, old, new) : y.id = i /\ saved[i].trades \subseteq {y.trade}
  BY DEF Agrees
<1>1. PICK x \in evs : x.id = i /\ saved[i].trades \subseteq {x.trade}
  BY DEF Agrees
<1>2. x.id # old
  BY <1>1
<1> QED
  BY <1>1, <1>2, RenamedHas

(* The renamed store agrees with the renamed events.                          *)
LEMMA AgreesRenamed ==
    ASSUME NEW evs, evs \subseteq Event, NEW old \in Id, NEW new \in Id,
           NEW saved \in [Id -> Record \cup {None}], old \notin Ids(evs),
           Agrees(saved, Renamed(evs, new, old))
    PROVE  Agrees(RenamedSaved(saved, old, new), evs)
<1> DEFINE now == RenamedSaved(saved, old, new)
<1> SUFFICES ASSUME NEW i \in Id, now[i] # None
             PROVE  \E x \in evs : x.id = i /\ now[i].trades \subseteq {x.trade}
  BY DEF Agrees
<1> DEFINE j == IF i = new THEN old ELSE i
<1>1. now[i] = saved[j] /\ j \in Id /\ (i # new => i # old)
  BY DEF RenamedSaved
<1>2. PICK y \in Renamed(evs, new, old) : y.id = j /\ saved[j].trades \subseteq {y.trade}
  BY <1>1 DEF Agrees
<1>3. PICK x \in evs : y.trade = x.trade /\ y.id = IF x.id = new THEN old ELSE x.id
  BY RenamedFrom
<1>4. x.id # old
  BY DEF Ids
<1>5. x.id = i
  BY <1>1, <1>2, <1>3, <1>4
<1> QED
  BY <1>1, <1>2, <1>3, <1>5

(* The store without a record, with the events without the event.             *)
LEMMA AgreesDeleted ==
    ASSUME NEW evs, NEW id \in Id, NEW saved \in [Id -> Record \cup {None}], Agrees(saved, evs)
    PROVE  Agrees([saved EXCEPT ![id] = None], {x \in evs : x.id # id})
BY DEF Agrees

(* And with a record of the event's own trade.                                *)
LEMMA AgreesSaved ==
    ASSUME NEW evs, NEW id \in Id, NEW saved \in [Id -> Record \cup {None}], NEW ev \in evs,
           Agrees(saved, evs), ev.id = id, NEW record, record.trades \subseteq {ev.trade}
    PROVE  Agrees([saved EXCEPT ![id] = record], evs)
BY DEF Agrees

-----------------------------------------------------------------------------
(* One call at a time. *)

(* What is known of the page and the disk; a store is never None.             *)
LEMMA Facts ==
    ASSUME OwnEverywhere, Types
    PROVE  /\ events \subseteq Event /\ shown \in Dataset /\ DOMAIN calls = Call
           /\ DOMAIN stores = Dataset
           /\ \A d \in Dataset : /\ stores[d].saved \in [Id -> Record \cup {None}]
                                 /\ stores[d] \in Store /\ stores[d] # None
<1>1. ASSUME NEW d \in Dataset PROVE stores[d] \in View
  <2>1. stores[d] \in Store /\ stores[d].version <= clock /\ clock \in 1..MaxClock
    BY OwnDisk DEF Known, OwnStore, Types, StoreTypes
  <2>2. stores[d].version \in 0..MaxClock
    BY <2>1, WorkspaceAssumption DEF Store
  <2> QED
    BY <2>1, <2>2 DEF Store, View
<1>2. \A d \in Dataset : stores[d] # None
  BY <1>1, NoneAssumption
<1> QED
  BY <1>2, OwnDisk DEF OwnEverywhere, OnPage, OnDisk, InFlight, Own, OwnSaved, Known, OwnStore

(* A fetch that is free has no phase.                                         *)
LEMMA QuietAwaitsNothing == Quiet.phase \notin {"sent", "ok", "failed"} /\ Quiet.op \notin Op
BY NoneAssumption DEF Quiet

(* So nothing in flight is nothing outstanding.                               *)
LEMMA WhenIdle == Orderly /\ Idle => Settled
BY QuietAwaitsNothing DEF Orderly, AtMostOne, Idle, Awaits

(* A call in flight is the only one.                                          *)
LEMMA TheCall ==
    ASSUME Orderly, NEW c \in Call, calls[c].phase \in {"sent", "ok", "failed"}
    PROVE  Awaits(calls[c]) /\ \A e \in Call \ {c} : calls[e] = Quiet
<1>1. calls[c] # Quiet
  BY QuietAwaitsNothing
<1>2. PICK e \in Call : Awaits(calls[e]) /\ \A f \in Call \ {e} : calls[f] = Quiet
  BY <1>1 DEF Orderly, AtMostOne, Idle
<1>3. e = c
  BY <1>1, <1>2
<1> QED
  BY <1>2, <1>3

(* A request is the only one, if nothing was in flight.                       *)
LEMMA SentOrderly ==
    ASSUME OwnEverywhere, Idle, NEW c \in Call, NEW call, Fetch(c, call), "phase" \notin DOMAIN call,
           Tidy', Awaits(calls[c])'
    PROVE  Orderly'
BY Fetched DEF OwnEverywhere, Idle, Orderly, AtMostOne

(* An answer is to the only one.                                              *)
LEMMA AnsweredOrderly ==
    ASSUME OwnEverywhere, Orderly, NEW c \in Call, NEW phase, NEW doc, Answers(c, phase, doc),
           calls[c].phase \in {"sent", "ok", "failed"}, Tidy', Awaits(calls[c])'
    PROVE  Orderly'
BY Answered, TheCall DEF OwnEverywhere, Orderly, AtMostOne

(* After it nothing is in flight.                                             *)
LEMMA DoneOrderly ==
    ASSUME OwnEverywhere, Orderly, NEW c \in Call, Done(c),
           calls[c].phase \in {"sent", "ok", "failed"}, Tidy', Settled'
    PROVE  Orderly'
<1>1. Idle'
  BY TheCall DEF Done, OwnEverywhere, InFlight, Idle
<1> QED
  BY <1>1 DEF Orderly, AtMostOne

-----------------------------------------------------------------------------
(* The user. *)

(* A rename can be taken back.                                                *)
LEMMA RenameOrderly ==
    ASSUME Careful, OwnEverywhere, Types, Orderly, NEW c \in Call, NEW ev \in events, NEW new \in Id,
           Rename(c, ev, new)
    PROVE  Orderly'
<1> DEFINE call == [op |-> "rename", dataset |-> shown, id |-> new, old |-> ev.id, doc |-> view]
<1>1. /\ Idle /\ Settled /\ view = stores[shown] /\ view # None /\ Tidy /\ ev.id \in Id
      /\ events \subseteq Event /\ shown \in Dataset
      /\ new \notin Ids(events) /\ events' = Renamed(events, ev.id, new) /\ dirty' = TRUE
      /\ UNCHANGED <<clock, files, stores, spare, shown, view>>
  BY WhenIdle, Facts, EventFacts DEF Rename, Acts, Careful, Settled, Orderly, Renamed, Other
<1>2. Tidy'
  BY <1>1, RenamedIsValid DEF Tidy
<1>3. CASE view.saved[ev.id] # None /\ Fetch(c, call)
  <2>1. /\ calls'[c].op = "rename" /\ calls'[c].phase = "sent" /\ calls'[c].dataset = shown
        /\ calls'[c].id = new /\ calls'[c].old = ev.id /\ calls'[c].doc = view
    BY <1>3, Fetched DEF OwnEverywhere, Quiet
  <2>2. ev.id \notin Ids(events')
    <3>1. new # ev.id
      BY <1>1 DEF Ids
    <3> QED
      BY <1>1, <3>1, RenamedIsGone
  <2>3. Agrees(stores[shown].saved, Renamed(events', new, ev.id))
    BY <1>1, RenamedBack DEF Settled, OnDiskAgrees
  <2>4. Awaits(calls[c])'
    BY <1>1, <2>1, <2>2, <2>3 DEF Awaits, AwaitsRename, Op, Write
  <2> QED
    BY <1>1, <1>2, <1>3, <2>4, SentOrderly
<1>4. CASE view.saved[ev.id] = None /\ calls' = calls
  <2>1. Settled'
    BY <1>1, <1>4, AgreesUnsaved DEF Settled, OnDiskAgrees
  <2> QED
    BY <1>1, <1>2, <1>4, <2>1 DEF Orderly, AtMostOne, Idle
<1> QED
  BY <1>1, <1>3, <1>4 DEF Rename

(* A delete takes event and record.                                           *)
LEMMA DeleteOrderly ==
    ASSUME Careful, OwnEverywhere, Types, Orderly, NEW c \in Call, NEW ev \in events, Delete(c, ev)
    PROVE  Orderly'
<1> DEFINE call == [op |-> "delete", dataset |-> shown, id |-> ev.id, match |-> view.version]
<1>1. /\ Idle /\ Settled /\ view = stores[shown] /\ view # None /\ Tidy /\ ev.id \in Id
      /\ shown \in Dataset /\ stores[shown].saved \in [Id -> Record \cup {None}]
      /\ events' = {x \in events : x.id # ev.id} /\ dirty' = TRUE
      /\ UNCHANGED <<clock, files, stores, spare, shown, view>>
  BY WhenIdle, Facts, EventFacts DEF Delete, Acts, Careful, Settled, Orderly
<1>2. Tidy'
  BY <1>1 DEF Tidy, ValidDataset
<1>3. Fetch(c, call)
  BY <1>1 DEF Delete
<1>4. /\ calls'[c].op = "delete" /\ calls'[c].phase = "sent" /\ calls'[c].dataset = shown
      /\ calls'[c].id = ev.id /\ calls'[c].match = view.version
  BY <1>3, Fetched DEF OwnEverywhere, Quiet
<1>5. Agrees([stores[shown].saved EXCEPT ![ev.id] = None], events')
  BY <1>1, AgreesDeleted DEF Settled, OnDiskAgrees
<1>6. Awaits(calls[c])'
  BY <1>1, <1>4, <1>5 DEF Awaits, AwaitsDelete, Op, Write
<1> QED
  BY <1>1, <1>2, <1>3, <1>6, SentOrderly

(* An added event has no research, and takes nobody's id.                     *)
LEMMA AddOrderly ==
    ASSUME Careful, OwnEverywhere, Types, Orderly, NEW t \in Trade, Add(t)
    PROVE  Orderly'
<1>1. /\ Idle /\ Settled /\ Tidy /\ dirty' = TRUE /\ Fresh[t] \notin Ids(events)
      /\ events' = events \cup {[id |-> Fresh[t], trade |-> t]}
      /\ UNCHANGED <<clock, files, stores, shown, view, calls>>
  BY WhenIdle DEF Add, Acts, Careful, Orderly
<1>2. Tidy'
  BY <1>1 DEF Tidy, ValidDataset, Ids
<1>3. Settled' /\ Idle'
  BY <1>1 DEF Settled, OnDiskAgrees, Agrees, Idle
<1> QED
  BY <1>2, <1>3 DEF Orderly, AtMostOne

(* What is kept of the saved research is of the event that has the id, which is *)
(* the only one with it.                                                      *)
LEMMA SaveResearchOrderly ==
    ASSUME Careful, OwnEverywhere, Types, Orderly, NEW c \in Call, NEW ev \in events, SaveResearch(c, ev)
    PROVE  Orderly'
<1>1. /\ Idle /\ Settled /\ view = stores[shown] /\ Tidy /\ ev.id \in Id
      /\ shown \in Dataset /\ stores[shown].saved \in [Id -> Record \cup {None}]
      /\ UNCHANGED <<clock, files, stores, spare, shown, events, dirty, view>>
  BY WhenIdle, Facts, EventFacts DEF SaveResearch, Acts, Careful, Settled, Orderly, tab
<1>2. Tidy'
  BY <1>1 DEF Tidy
<1> DEFINE saved == view.saved[ev.id]
           before == IF saved = None THEN [trades |-> {}, names |-> {}] ELSE saved
<1>3. PICK record :
          /\ record.trades \subseteq before.trades \cup {ev.trade}
          /\ Fetch(c, [op |-> "research", dataset |-> shown, id |-> ev.id, match |-> view.version,
                       doc |-> record])
  <2>1. PICK kept \in SUBSET before.trades, added \in SUBSET {ev.trade},
             names \in {before.names, {}, {ev.id}} :
               Fetch(c, [op |-> "research", dataset |-> shown, id |-> ev.id, match |-> view.version,
                         doc |-> [trades |-> kept \cup added, names |-> names]])
    BY DEF SaveResearch
  <2>2. [trades |-> kept \cup added, names |-> names].trades \subseteq before.trades \cup {ev.trade}
    OBVIOUS
  <2> QED
    BY <2>1, <2>2
<1> HIDE DEF before, saved
<1>4. /\ calls'[c].op = "research" /\ calls'[c].phase = "sent" /\ calls'[c].dataset = shown
      /\ calls'[c].id = ev.id /\ calls'[c].doc = record
  BY <1>3, Fetched DEF OwnEverywhere, Quiet
<1>5. before.trades \subseteq {ev.trade}
  <2>1. CASE saved = None
    BY <2>1 DEF before
  <2>2. CASE saved # None
    <3>1. PICK x \in events : x.id = ev.id /\ saved.trades \subseteq {x.trade}
      BY <1>1, <2>2 DEF saved, Settled, OnDiskAgrees, Agrees
    <3>2. x = ev
      BY <1>1, <3>1 DEF Tidy, ValidDataset
    <3> QED
      BY <2>2, <3>1, <3>2 DEF before
  <2> QED
    BY <2>1, <2>2
<1>6. record.trades \subseteq {ev.trade}
  BY <1>3, <1>5
<1>7. Agrees([stores[shown].saved EXCEPT ![ev.id] = record], events)
  BY <1>1, <1>6, AgreesSaved DEF Settled, OnDiskAgrees
<1>8. Settled'
  BY <1>1 DEF Settled, OnDiskAgrees
<1>9. Awaits(calls[c])'
  BY <1>1, <1>4, <1>7, <1>8 DEF Awaits, AwaitsResearch, Op, Write
<1> QED
  BY <1>1, <1>2, <1>3, <1>9, SentOrderly

(* What is sent to be saved is on the page.                                   *)
LEMMA SaveDatasetOrderly ==
    ASSUME Careful, OwnEverywhere, Types, Orderly, NEW c \in Call, SaveDataset(c)
    PROVE  Orderly'
<1>1. /\ Idle /\ Settled /\ Tidy /\ Fetch(c, [op |-> "save", dataset |-> shown, doc |-> events])
      /\ UNCHANGED <<clock, files, stores, spare, shown, events, dirty, view>>
  BY WhenIdle DEF SaveDataset, Acts, Careful, Orderly, tab
<1>2. Tidy' /\ Settled'
  BY <1>1 DEF Tidy, Settled, OnDiskAgrees
<1>3. /\ calls'[c].op = "save" /\ calls'[c].phase = "sent" /\ calls'[c].dataset = shown
      /\ calls'[c].doc = events
  BY <1>1, Fetched DEF OwnEverywhere, Quiet
<1>4. Awaits(calls[c])'
  BY <1>1, <1>2, <1>3 DEF Awaits, AwaitsSave, Op, Write
<1> QED
  BY <1>1, <1>2, <1>4, SentOrderly

(* A load begins with nothing edited.                                         *)
LEMMA LoadOrderly ==
    ASSUME Careful, OwnEverywhere, Types, Orderly, NEW c \in Call, NEW d \in Dataset, Load(c, d)
    PROVE  Orderly'
<1>1. /\ Idle /\ Settled /\ Tidy /\ ~dirty /\ Fetch(c, [op |-> "load", dataset |-> d])
      /\ UNCHANGED <<clock, files, stores, spare, shown, events, dirty, view>>
  BY WhenIdle DEF Load, Acts, Careful, Orderly, tab
<1>2. Tidy' /\ Settled'
  BY <1>1 DEF Tidy, Settled, OnDiskAgrees
<1>3. calls'[c].op = "load" /\ calls'[c].phase = "sent"
  BY <1>1, Fetched DEF OwnEverywhere, Quiet
<1>4. Awaits(calls[c])'
  BY <1>1, <1>2, <1>3 DEF Awaits, AwaitsLoad, Op, Write
<1> QED
  BY <1>1, <1>2, <1>4, SentOrderly

-----------------------------------------------------------------------------
(* The server. *)

(* A commit answers with the store on disk.                                   *)
LEMMA CommitOrderly ==
    ASSUME OwnEverywhere, Types, Orderly, NEW c \in Call, NEW saved,
           calls[c].op \in {"rename", "delete", "research"}, calls[c].phase = "sent",
           Agrees(saved, events), Commits(c, calls[c].dataset, saved), UNCHANGED <<files, tab>>
    PROVE  Orderly'
<1>1. /\ Awaits(calls[c]) /\ calls[c].dataset = shown /\ shown \in Dataset
      /\ DOMAIN stores = Dataset /\ stores[shown] \in Store
  BY TheCall, Facts DEF Awaits
<1>2. /\ Answers(c, "ok", stores'[shown]) /\ UNCHANGED <<files, shown, events, dirty, view>>
      /\ stores' = [stores EXCEPT ![shown].version = clock + 1, ![shown].saved = saved]
  BY <1>1 DEF Commits, tab
<1>3. /\ stores'[shown].saved = saved
      /\ \A d \in Dataset \ {shown} : stores'[d] = stores[d]
  BY <1>1, <1>2 DEF Store
<1>4. Tidy'
  BY <1>2, <1>3 DEF Orderly, Tidy
<1>5. /\ calls'[c].op = calls[c].op /\ calls'[c].dataset = shown
      /\ calls'[c].phase = "ok" /\ calls'[c].doc = stores'[shown]
  BY <1>1, <1>2, Answered DEF OwnEverywhere
<1>6. OnDiskAgrees'
  BY <1>2, <1>3 DEF OnDiskAgrees
<1>7. Awaits(calls[c])'
  BY <1>2, <1>5, <1>6 DEF Awaits, AwaitsRename, AwaitsDelete, AwaitsResearch, Op, Write
<1> QED
  BY <1>2, <1>4, <1>7, AnsweredOrderly

(* As long as neither the page nor the disk changes.                          *)
LEMMA StillTidy ==
    ASSUME Tidy, UNCHANGED <<files, stores, shown, events, dirty>>
    PROVE  Tidy'
BY DEF Tidy

(* A rename is accepted as a whole, or refused.                               *)
LEMMA ServeRenameOrderly ==
    ASSUME OwnEverywhere, Types, Orderly, NEW c \in Call, ServeRename(c)
    PROVE  Orderly'
<1> DEFINE call == calls[c]
           renamed == RenamedSaved(call.doc.saved, call.old, call.id)
<1>1. /\ calls[c].op = "rename" /\ calls[c].phase = "sent" /\ UNCHANGED <<files, spare, tab>>
  BY DEF ServeRename
<1>2. /\ Awaits(calls[c]) /\ AwaitsRename(calls[c]) /\ calls[c].dataset = shown
      /\ calls[c].id \in Id /\ calls[c].old \in Id
  BY <1>1, TheCall, RenameIds DEF Awaits
<1>3. CASE Refuses(c)
  <2>1. /\ calls'[c].op = "rename" /\ calls'[c].phase = "failed" /\ calls'[c].dataset = shown
        /\ calls'[c].id = calls[c].id /\ calls'[c].old = calls[c].old
        /\ UNCHANGED <<stores, shown, events, dirty, view>>
    BY <1>1, <1>2, <1>3, Answered DEF OwnEverywhere, Refuses, tab
  <2>2. Awaits(calls[c])'
    BY <1>1, <1>2, <2>1 DEF Awaits, AwaitsRename, Op, Write
  <2> QED
    BY <1>1, <1>3, <2>2, AnsweredOrderly, StillTidy DEF Refuses, tab, Orderly
<1>4. CASE Commits(c, calls[c].dataset, renamed)
  <2>1. /\ call.doc = stores[shown] /\ call.old \notin Ids(events)
        /\ Agrees(stores[shown].saved, Renamed(events, call.id, call.old))
    BY <1>1, <1>2 DEF AwaitsRename
  <2>2. Agrees(RenamedSaved(stores[shown].saved, call.old, call.id), events)
    BY <1>2, <2>1, AgreesRenamed, Facts
  <2>3. Agrees(renamed, events)
    BY <2>1, <2>2
  <2> HIDE DEF renamed
  <2> QED
    BY <1>1, <1>4, <2>3, CommitOrderly
<1> QED
  BY <1>3, <1>4 DEF ServeRename

(* A delete is never refused, since its version is that on disk.              *)
LEMMA ServeDeleteOrderly ==
    ASSUME OwnEverywhere, Types, Orderly, NEW c \in Call, ServeDelete(c)
    PROVE  Orderly'
<1> DEFINE saved == [stores[calls[c].dataset].saved EXCEPT ![calls[c].id] = None]
<1>1. calls[c].op = "delete" /\ calls[c].phase = "sent" /\ UNCHANGED <<files, spare, tab>>
  BY DEF ServeDelete
<1>2. /\ Awaits(calls[c]) /\ calls[c].dataset = shown /\ calls[c].match = stores[shown].version
      /\ Agrees(saved, events) /\ calls[c].id \in Id
  BY <1>1, TheCall, SentCarries DEF Awaits, AwaitsDelete, Op
<1>3. CASE Answers(c, "ok", stores[shown]) /\ UNCHANGED <<clock, stores>>
           /\ stores[shown].saved[calls[c].id] = None
  <2>1. stores[shown].saved = saved
    BY <1>2, <1>3, Facts
  <2>2. OnDiskAgrees'
    BY <1>1, <1>2, <1>3, <2>1 DEF OnDiskAgrees, tab
  <2>3. /\ calls'[c].op = "delete" /\ calls'[c].phase = "ok" /\ calls'[c].dataset = shown
        /\ calls'[c].doc = stores[shown] /\ UNCHANGED <<stores, shown, events>>
    BY <1>1, <1>2, <1>3, Answered DEF OwnEverywhere, tab
  <2>4. Awaits(calls[c])'
    BY <2>2, <2>3 DEF Awaits, AwaitsDelete, Op, Write
  <2> QED
    BY <1>1, <1>3, <2>4, AnsweredOrderly, StillTidy DEF tab, Orderly
<1>4. CASE Commits(c, calls[c].dataset, saved)
  BY <1>1, <1>2, <1>4, CommitOrderly
<1> QED
  BY <1>2, <1>3, <1>4 DEF ServeDelete

(* A research save, or its refusal.                                           *)
LEMMA ServeResearchOrderly ==
    ASSUME OwnEverywhere, Types, Orderly, NEW c \in Call,
           ServeResearch(c) \/ (Refuses(c) /\ calls[c].op = "research" /\ calls[c].phase = "sent"
                                /\ UNCHANGED <<files, tab>>)
    PROVE  Orderly'
<1> DEFINE saved == [stores[calls[c].dataset].saved EXCEPT ![calls[c].id] = calls[c].doc]
<1>1. calls[c].op = "research" /\ calls[c].phase = "sent" /\ UNCHANGED <<files, tab>>
  BY DEF ServeResearch
<1>2. /\ Awaits(calls[c]) /\ calls[c].dataset = shown /\ Agrees(saved, events) /\ Settled
  BY <1>1, TheCall DEF Awaits, AwaitsResearch
<1>3. CASE Refuses(c)
  <2>1. /\ calls'[c].op = "research" /\ calls'[c].phase = "failed" /\ calls'[c].dataset = shown
        /\ UNCHANGED <<stores, shown, events, view>>
    BY <1>1, <1>2, <1>3, Answered DEF OwnEverywhere, Refuses, tab
  <2>2. Settled'
    BY <1>2, <2>1 DEF Settled, OnDiskAgrees
  <2>3. Awaits(calls[c])'
    BY <2>1, <2>2 DEF Awaits, AwaitsResearch, Op, Write
  <2> QED
    BY <1>1, <1>3, <2>3, AnsweredOrderly, StillTidy DEF Refuses, tab, Orderly
<1>4. CASE Commits(c, calls[c].dataset, saved)
  BY <1>1, <1>2, <1>4, CommitOrderly
<1> QED
  BY <1>3, <1>4 DEF ServeResearch

(* A dataset save, or its refusal.                                            *)
LEMMA ServeSaveOrderly ==
    ASSUME OwnEverywhere, Types, Orderly, NEW c \in Call,
           ServeDataset(c) \/ (Refuses(c) /\ calls[c].op = "save" /\ calls[c].phase = "sent"
                               /\ UNCHANGED <<files, tab>>)
    PROVE  Orderly'
<1>1. /\ calls[c].op = "save" /\ calls[c].phase = "sent"
      /\ UNCHANGED <<clock, stores, shown, events, dirty, view>>
  BY DEF ServeDataset, Refuses, tab
<1>2. /\ Awaits(calls[c]) /\ calls[c].dataset = shown /\ calls[c].doc = events /\ Settled
      /\ shown \in Dataset /\ DOMAIN files = Dataset
  BY <1>1, TheCall, Facts DEF Awaits, AwaitsSave, OwnEverywhere, OnDisk
<1>3. Settled'
  BY <1>1, <1>2 DEF Settled, OnDiskAgrees
<1>4. CASE Answers(c, "failed", None) /\ UNCHANGED files
  <2>1. calls'[c].op = "save" /\ calls'[c].phase = "failed" /\ calls'[c].dataset = shown
    BY <1>1, <1>2, <1>4, Answered DEF OwnEverywhere
  <2>2. Awaits(calls[c])'
    BY <1>1, <1>3, <2>1 DEF Awaits, AwaitsSave, Op, Write
  <2> QED
    BY <1>1, <1>4, <2>2, AnsweredOrderly, StillTidy DEF Orderly
<1>5. CASE /\ ValidDataset(calls[c].doc) /\ Answers(c, "ok", calls[c].doc)
           /\ files' = [files EXCEPT ![calls[c].dataset] = calls[c].doc]
  <2>1. files'[shown] = events /\ \A d \in Dataset \ {shown} : files'[d] = files[d]
    BY <1>2, <1>5
  <2>2. Tidy'
    BY <1>1, <1>2, <1>5, <2>1 DEF Orderly, Tidy
  <2>3. /\ calls'[c].op = "save" /\ calls'[c].phase = "ok" /\ calls'[c].dataset = shown
        /\ calls'[c].doc = events
    BY <1>1, <1>2, <1>5, Answered DEF OwnEverywhere
  <2>4. Awaits(calls[c])'
    BY <1>1, <1>3, <2>1, <2>3 DEF Awaits, AwaitsSave, Op, Write
  <2> QED
    BY <1>1, <1>5, <2>2, <2>4, AnsweredOrderly
<1> QED
  BY <1>4, <1>5 DEF ServeDataset, Refuses

(* The two reads.                                                             *)
LEMMA ServeLoadOrderly ==
    ASSUME OwnEverywhere, Types, Orderly, NEW c \in Call, ServeLoad(c)
    PROVE  Orderly'
<1>1. /\ calls[c].phase = "sent" /\ UNCHANGED <<clock, files, stores, shown, events, dirty, view>>
  BY DEF ServeLoad, tab
<1>2. Awaits(calls[c]) /\ Tidy'
  BY <1>1, TheCall, StillTidy DEF Orderly
<1>3. CASE calls[c].op = "load" /\ Answers(c, "ok", files[calls[c].dataset])
  <2>1. /\ calls'[c].op = "load" /\ calls'[c].phase = "ok" /\ calls'[c].dataset = calls[c].dataset
        /\ calls'[c].doc = files[calls[c].dataset]
    BY <1>3, Answered DEF OwnEverywhere
  <2>2. Settled /\ ~dirty
    BY <1>2, <1>3 DEF Awaits, AwaitsLoad
  <2>3. Settled'
    BY <1>1, <2>2 DEF Settled, OnDiskAgrees
  <2>4. Awaits(calls[c])'
    BY <1>1, <2>1, <2>2, <2>3 DEF Awaits, AwaitsLoad, Op, Write
  <2> QED
    BY <1>1, <1>2, <1>3, <2>4, AnsweredOrderly
<1>4. CASE calls[c].op = "view" /\ Answers(c, "ok", stores[calls[c].dataset])
  <2>1. calls[c].dataset = shown /\ OnDiskAgrees
    BY <1>2, <1>4 DEF Awaits, AwaitsView
  <2>2. /\ calls'[c].op = "view" /\ calls'[c].phase = "ok" /\ calls'[c].dataset = shown
        /\ calls'[c].doc = stores[shown]
    BY <1>4, <2>1, Answered DEF OwnEverywhere
  <2>3. OnDiskAgrees'
    BY <1>1, <2>1 DEF OnDiskAgrees
  <2>4. Awaits(calls[c])'
    BY <1>1, <2>2, <2>3 DEF Awaits, AwaitsView, Op, Write
  <2> QED
    BY <1>1, <1>2, <1>4, <2>4, AnsweredOrderly
<1> QED
  BY <1>3, <1>4 DEF ServeLoad

(* A rename that the server refuses for reasons of its own.                   *)
LEMMA RenameFailsOrderly ==
    ASSUME OwnEverywhere, Types, Orderly, NEW c \in Call, Refuses(c), calls[c].op = "rename",
           calls[c].phase = "sent", UNCHANGED <<files, tab>>
    PROVE  Orderly'
<1>1. Awaits(calls[c]) /\ AwaitsRename(calls[c]) /\ calls[c].dataset = shown
  BY TheCall DEF Awaits
<1>2. /\ calls'[c].op = "rename" /\ calls'[c].phase = "failed" /\ calls'[c].dataset = shown
      /\ calls'[c].id = calls[c].id /\ calls'[c].old = calls[c].old
      /\ UNCHANGED <<stores, shown, events, dirty, view>>
  BY <1>1, Answered DEF OwnEverywhere, Refuses, tab
<1>3. Awaits(calls[c])'
  BY <1>1, <1>2 DEF Awaits, AwaitsRename, Op, Write
<1> QED
  BY <1>3, AnsweredOrderly, StillTidy DEF Refuses, tab, Orderly

(* Every step of the server.                                                  *)
LEMMA ServerOrderly ==
    ASSUME Careful, OwnEverywhere, Types, Orderly, NEW c \in Call, Server(c) \/ Lose(c)
    PROVE  Orderly'
<1>1. ~Lose(c)
  BY DEF Lose, Careful
<1>2. CASE Fail(c)
  <2>1. /\ Refuses(c) /\ calls[c].op \in {"rename", "research", "save"} /\ calls[c].phase = "sent"
        /\ UNCHANGED <<files, tab>>
    BY <1>2, WorkspaceAssumption DEF Fail, Careful, Write, WorkspaceAssumption
  <2> QED
    BY <2>1, RenameFailsOrderly, ServeResearchOrderly, ServeSaveOrderly
<1> QED
  BY <1>1, <1>2, ServeRenameOrderly, ServeDeleteOrderly, ServeResearchOrderly, ServeSaveOrderly,
     ServeLoadOrderly DEF Server

-----------------------------------------------------------------------------
(* The answers. *)

(* The tab holds the store on disk again.                                     *)
LEMMA ReceiveStoreOrderly ==
    ASSUME OwnEverywhere, Types, Orderly, NEW c \in Call, ReceiveStore(c)
    PROVE  Orderly'
<1>1. /\ Awaits(calls[c]) /\ calls[c].doc = stores[shown] /\ OnDiskAgrees
  BY TheCall DEF ReceiveStore, Awaits
<1>2. Settled'
  BY <1>1 DEF ReceiveStore, Settled, OnDiskAgrees
<1> QED
  BY <1>2, StillTidy, DoneOrderly DEF ReceiveStore, Orderly

(* A failed rename gives the id back to the event that had it.                *)
LEMMA RollBackOrderly ==
    ASSUME OwnEverywhere, Types, Orderly, NEW c \in Call, RollBack(c)
    PROVE  Orderly'
<1>1. /\ calls[c].op = "rename" /\ calls[c].phase = "failed" /\ Done(c)
      /\ events' = Renamed(events, calls[c].id, calls[c].old)
      /\ UNCHANGED <<clock, files, stores, spare, shown, dirty, view>>
  BY DEF RollBack, Renamed, Other
<1>2. /\ view = stores[shown] /\ calls[c].old \notin Ids(events)
      /\ Agrees(stores[shown].saved, events')
      /\ calls[c].id \in Id /\ calls[c].old \in Id /\ dirty
  BY <1>1, TheCall, RenameIds DEF Awaits, AwaitsRename
<1>3. Tidy'
  BY <1>1, <1>2, Facts, RenamedIsValid DEF Orderly, Tidy
<1>4. Settled'
  BY <1>1, <1>2 DEF Settled, OnDiskAgrees
<1> QED
  BY <1>1, <1>3, <1>4, DoneOrderly

(* What else may fail changed nothing.                                        *)
LEMMA ReceiveFailureOrderly ==
    ASSUME OwnEverywhere, Types, Orderly, NEW c \in Call, ReceiveFailure(c)
    PROVE  Orderly'
<1>1. /\ Awaits(calls[c]) /\ calls[c].phase = "failed" /\ calls[c].op # "rename" /\ Done(c)
      /\ UNCHANGED <<clock, files, stores, spare, shown, events, dirty>>
  BY TheCall DEF ReceiveFailure
<1>2. calls[c].op \in {"research", "save"} /\ Settled
  BY <1>1 DEF Awaits, AwaitsDelete, AwaitsLoad, AwaitsView, AwaitsResearch, AwaitsSave, Op, Write
<1>3. Settled'
  BY <1>1, <1>2 DEF ReceiveFailure, Settled, OnDiskAgrees
<1> QED
  BY <1>1, <1>3, StillTidy, DoneOrderly DEF Orderly

(* The events that were saved are those on the page.                          *)
LEMMA ReceiveSavedOrderly ==
    ASSUME OwnEverywhere, Types, Orderly, NEW c \in Call, ReceiveSaved(c)
    PROVE  Orderly'
<1>1. /\ calls[c].dataset = shown /\ calls[c].doc = events /\ events = files[shown] /\ Settled
  BY TheCall DEF ReceiveSaved, Awaits, AwaitsSave
<1>2. /\ UNCHANGED <<files, stores, shown, events, view>> /\ dirty' = FALSE /\ Done(c)
      /\ calls[c].phase = "ok"
  BY <1>1 DEF ReceiveSaved
<1>3. Tidy' /\ Settled'
  BY <1>1, <1>2 DEF Orderly, Tidy, Settled, OnDiskAgrees
<1> QED
  BY <1>2, <1>3, DoneOrderly

(* The dataset left was not edited, so its file tells its events.             *)
LEMMA ReceiveDatasetOrderly ==
    ASSUME OwnEverywhere, Types, Orderly, NEW c \in Call, ReceiveDataset(c)
    PROVE  Orderly'
<1>1. /\ calls[c].op = "load" /\ calls[c].phase = "ok" /\ calls[c].dataset \in Dataset
      /\ shown' = calls[c].dataset /\ events' = calls[c].doc /\ dirty' = FALSE
      /\ UNCHANGED <<files, stores, view>>
  BY AnswerCarries DEF ReceiveDataset, Op
<1>2. Settled /\ ~dirty /\ calls[c].doc = files[calls[c].dataset] /\ Tidy
  BY <1>1, TheCall DEF Awaits, AwaitsLoad, Orderly
<1>3. \A d \in Dataset : Agrees(stores[d].saved, files[d])
  BY <1>2 DEF Tidy, Settled, OnDiskAgrees
<1>4. Tidy'
  BY <1>1, <1>2, <1>3 DEF Tidy
<1>5. OnDiskAgrees'
  BY <1>1, <1>2, <1>3 DEF OnDiskAgrees
<1> DEFINE next == [Quiet EXCEPT !.op = "view", !.phase = "sent", !.dataset = calls[c].dataset]
<1>6. calls'[c] = next /\ \A e \in Call \ {c} : calls'[e] = calls[e]
  BY DEF ReceiveDataset, OwnEverywhere, InFlight
<1>7. next.op = "view" /\ next.phase = "sent" /\ next.dataset = calls[c].dataset
  BY DEF Quiet
<1> HIDE DEF next
<1>8. Awaits(calls[c])'
  BY <1>1, <1>5, <1>6, <1>7 DEF Awaits, AwaitsView, Op
<1> QED
  BY <1>1, <1>4, <1>6, <1>8, TheCall DEF Orderly, AtMostOne

(* At first research is of the events that have the ids.                      *)
LEMMA StartsOrderly == Init => Orderly
<1> SUFFICES ASSUME Init PROVE Orderly
  OBVIOUS
<1> DEFINE trades(d, i) == {ev.trade : ev \in {x \in Initial[d] : x.id = i}} \cap Researched
<1>1. /\ files = Initial /\ shown \in Dataset /\ events = Initial[shown]
      /\ view = stores[shown] /\ Idle
      /\ \A d \in Dataset, i \in Id : stores[d].saved[i] = RecordOf(i, trades(d, i))
  BY DEF Init, Idle
<1>2. ASSUME NEW d \in Dataset PROVE Agrees(stores[d].saved, files[d])
  <2> SUFFICES ASSUME NEW i \in Id, stores[d].saved[i] # None
               PROVE  \E ev \in files[d] : ev.id = i /\ stores[d].saved[i].trades \subseteq {ev.trade}
    BY DEF Agrees
  <2>1. trades(d, i) # {} /\ stores[d].saved[i].trades = trades(d, i)
    <3>1. stores[d].saved[i] = RecordOf(i, trades(d, i)) /\ RecordOf(i, trades(d, i)) # None
      BY <1>1
    <3> HIDE DEF trades
    <3> QED
      BY <3>1 DEF RecordOf
  <2>2. PICK ev \in Initial[d] : ev.id = i
    BY <2>1
  <2>3. \A x \in Initial[d] : x.id = i => x = ev
    BY <2>2, ImportAssumption
  <2>4. trades(d, i) \subseteq {ev.trade}
    BY <2>3
  <2> QED
    BY <1>1, <2>1, <2>2, <2>4
<1>3. \A d \in Dataset : ValidDataset(files[d])
  BY <1>1, ImportAssumption DEF ValidDataset
<1> QED
  BY <1>1, <1>2, <1>3 DEF Orderly, Tidy, AtMostOne, Settled, OnDiskAgrees

(* Every step of a careful user, of the server and of the answers.            *)
LEMMA OrderlyStep ==
    ASSUME Careful, OwnEverywhere, Types, Orderly, [Next]_vars
    PROVE  Orderly'
<1>1. CASE UNCHANGED vars
  <2>1. Tidy' /\ UNCHANGED calls
    BY <1>1, StillTidy DEF vars, tab, Orderly
  <2> QED
    BY <1>1, <2>1 DEF vars, tab, Orderly, AtMostOne, Idle, Settled, OnDiskAgrees, Awaits,
       AwaitsRename, AwaitsDelete, AwaitsResearch, AwaitsSave, AwaitsLoad, AwaitsView
<1> QED
  BY <1>1, RenameOrderly, DeleteOrderly, AddOrderly, SaveResearchOrderly, SaveDatasetOrderly,
     LoadOrderly, ServerOrderly, ReceiveStoreOrderly, RollBackOrderly, ReceiveFailureOrderly,
     ReceiveSavedOrderly, ReceiveDatasetOrderly DEF Next, User, Receive

(* With nothing in flight, the stores agree.                                  *)
LEMMA OrderlyAgrees == Orderly => StoresAgree /\ ViewCurrent
<1> SUFFICES ASSUME Orderly, Idle PROVE StoresAgree /\ ViewCurrent
  BY DEF StoresAgree, ViewCurrent
<1>1. Settled /\ Tidy
  BY WhenIdle DEF Orderly
<1>2. ViewCurrent
  BY <1>1 DEF ViewCurrent, Settled
<1>3. StoresAgree
  BY <1>1 DEF StoresAgree, Settled, OnDiskAgrees, Tidy, Agrees
<1> QED
  BY <1>2, <1>3

(* So the invariant holds of a careful user.                                  *)
LEMMA CarefulOrderly == ASSUME Careful PROVE Spec => []Orderly
<1>1. OwnEverywhere /\ Types /\ Orderly /\ [Next]_vars => Orderly'
  BY OrderlyStep
<1> QED
  BY StartsOwn, OwnStep, StartsTyped, TypesStep, StartsOrderly, <1>1, PTL DEF Spec

-----------------------------------------------------------------------------
(* The theorems. *)

(* No research gets into the store of a dataset it is not for.                *)
THEOREM ResearchStaysHome == Spec => []NoForeignResearch
<1>1. OwnEverywhere => NoForeignResearch
  BY OwnDisk DEF NoForeignResearch, OwnSaved, OwnRecord
<1> QED
  BY StartsOwn, OwnStep, <1>1, PTL DEF Spec

(* Every variable keeps its type; a store file names its own dataset, and no  *)
(* structure is under an id it does not name.                                 *)
THEOREM WorkspaceTypeCorrect == Spec => []TypeOK
<1>1. OwnEverywhere /\ Types => TypeOK
  <2> SUFFICES ASSUME OwnEverywhere, Types PROVE TypeOK
    OBVIOUS
  <2>1. ASSUME NEW v, Known(v, clock, stores) PROVE v \in View
    <3>1. v \in Store /\ v.version <= clock /\ clock \in 1..MaxClock
      BY <2>1 DEF Known, OwnStore, Types, StoreTypes
    <3>2. v.version \in 0..MaxClock
      BY <3>1, WorkspaceAssumption DEF Store
    <3> QED
      BY <3>1, <3>2 DEF Store, View
  <2>2. \A d \in Dataset : /\ files[d] \subseteq Event
                           /\ stores[d] \in View /\ stores[d].of = d /\ ValidStore(stores[d].saved)
    BY <2>1 DEF OwnEverywhere, OnDisk, Own, Types, StoreTypes
  <2>3. shown \in Dataset /\ events \subseteq Event /\ (view = None \/ view \in View)
    BY <2>1 DEF OwnEverywhere, OnPage, Own
  <2> QED
    BY <2>2, <2>3 DEF TypeOK, Types, StoreTypes, OtherTypes, FetchTypes, CallTypes
<1> QED
  BY StartsOwn, OwnStep, StartsTyped, TypesStep, <1>1, PTL DEF Spec

(* "rather than leaving the two stores disagreeing": for a careful user, what *)
(* is saved under an id is research for the event that has it, whatever       *)
(* renames and saves the server refuses.                                      *)
THEOREM CarefulStoresAgree == ASSUME Careful PROVE Spec => []StoresAgree
BY CarefulOrderly, OrderlyAgrees, PTL

(* And the tab holds the store that is on disk between two actions.           *)
THEOREM CarefulViewCurrent == ASSUME Careful PROVE Spec => []ViewCurrent
BY CarefulOrderly, OrderlyAgrees, PTL
=============================================================================
