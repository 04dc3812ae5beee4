--------------------------- MODULE SelectionStore ---------------------------
(* The selection store of one dataset as scripts/research-selection-service.ts*)
(* keeps it: one canonical JSON file, written through a temporary file and a  *)
(* rename, by handlers that interleave at every await.  The offline migration *)
(* (scripts/run-research-recompute.ts) writes the same file from a process of *)
(* its own.                                                                   *)
(*                                                                            *)
(* Each request in Req runs one handler from its first read to its answer.    *)
(* Actions are the stretches between two awaits whose effect another request  *)
(* or process can see.  Clients hold any store that was ever readable, so a   *)
(* request may name, or be built from, a version that is long gone.           *)
EXTENDS SelectionData

CONSTANTS
    Req,          \* requests, each used once
    Original,     \* the file that was on disk when the service started
    NoFile,       \* no canonical file
    Malformed,    \* a canonical file that does not parse or validate
    NoMatch,      \* a request without an If-Match expectation
    Seeds,        \* stores a first canonical file may hold
    Uploads,      \* snapshots the application uploads for an event
    Coarse        \* may two readings of the clock return the same millisecond?

ASSUME StoreAssumption ==
    /\ NoMatch \notin Nat
    /\ NoFile \notin Req /\ Original \notin Req /\ NoFile # Original
    /\ Malformed \notin Store
    /\ Seeds \subseteq [version : {1}, events : {ev \in Events : Valid(ev)}]
    /\ Uploads \subseteq Snapshot
    /\ Coarse \in BOOLEAN

VARIABLES
    now,          \* Date.now()
    crashes,      \* process restarts so far, by process: part of the pid
    seed,         \* what the Original file holds
    target,       \* whose file is linked at the canonical name
    landed,       \* the files that were ever linked there (history)
    pc,           \* where each request is
    kind,         \* which handler it runs
    match,        \* the version its client expects, or NoMatch
    scope,        \* the events a refresh covers
    primed,       \* the events its recompute engine was primed with
    base,         \* the store its handler read
    draft,        \* the store it will write
    name,         \* the name of its temporary file
    tmp,          \* requests whose file is linked at its temporary name
    filled        \* requests whose file is completely written

disk == <<seed, target, landed, tmp, filled>>
local == <<kind, match, scope, primed, base, draft, name>>
vars == <<now, crashes, disk, pc, local>>

Process == {"server", "script"}
Kind == {"upsert", "delete", "save", "recompute", "migrate"}
Refresh == {"recompute", "migrate"}

InFlight == {"prime", "engine", "saveread", "open", "fill", "rename", "unlink"}
Refused == {"invalid", "conflict", "malformed", "error"}
Settled == {"saved", "noop", "lost"} \cup Refused

ProcessOf(k) == IF k = "migrate" THEN "script" ELSE "server"

-----------------------------------------------------------------------------
(* What a reader of the canonical name gets. *)

Readable(f) == f = Original \/ f \in filled

Contents(f) == IF f = Original THEN seed
               ELSE IF f \in filled THEN draft[f] ELSE Malformed

(* Fault: a malformed file is an empty store, too. *)
FileLenient ==
    IF target = NoFile \/ Contents(target) = Malformed
    THEN EmptyStore ELSE Contents(target)

(* read(): a missing file is an empty store, a malformed one an error. *)
File == IF target = NoFile THEN EmptyStore ELSE Contents(target)

(* Every store a client can be holding. *)
Published ==
    (IF Original \in landed THEN {seed} \ {Malformed} ELSE {EmptyStore})
        \cup {draft[f] : f \in (landed \ {Original}) \cap filled}

IfMatch == {NoMatch} \cup {d.version : d \in Published}

(* Fault: the expectation is accepted but never compared. *)
StaleNever(m) == FALSE

Stale(m) == m # NoMatch /\ m # File.version

Expects(r, m) == match' = [match EXCEPT ![r] = m]

(* A reading of the clock.  A coarse clock need not have moved by the next. *)
ReadClock == now' \in IF Coarse THEN {now, now + 1} ELSE {now + 1}

-----------------------------------------------------------------------------
Init ==
    /\ now = 2
    /\ crashes = [p \in Process |-> 0]
    /\ seed \in Seeds \cup {Malformed}
    /\ target \in {Original, NoFile}
    /\ landed = {target} \ {NoFile}
    /\ pc = [r \in Req |-> "idle"]
    /\ kind = [r \in Req |-> "upsert"]
    /\ match = [r \in Req |-> NoMatch]
    /\ scope = [r \in Req |-> {}]
    /\ primed = [r \in Req |-> EmptyStore.events]
    /\ base = [r \in Req |-> EmptyStore]
    /\ draft = [r \in Req |-> EmptyStore]
    /\ name = [r \in Req |-> <<"server", 0, 0>>]
    /\ tmp = {}
    /\ filled = {}

Goto(r, label) == pc' = [pc EXCEPT ![r] = label]

(* Where a request starts: whatever else is in flight. *)
Starts(r, k) ==
    /\ pc[r] = "idle"
    /\ kind' = [kind EXCEPT ![r] = k]

(* The answer of a handler that ends before it writes. *)
Answer(r, label) ==
    /\ Goto(r, label)
    /\ UNCHANGED <<now, scope, primed, base, draft>>

(* Fault: the draft keeps the version of the store it was made from. *)
SubmitUnstamped(r, events) ==
    /\ base' = [base EXCEPT ![r] = File]
    /\ draft' = [draft EXCEPT ![r] = [version |-> File.version, events |-> events]]
    /\ Goto(r, IF Valid(events) THEN "open" ELSE "invalid")
    /\ ReadClock
    /\ UNCHANGED <<scope, primed>>

(* Fault: the draft is written whether or not it validates. *)
SubmitUnchecked(r, events) ==
    /\ base' = [base EXCEPT ![r] = File]
    /\ draft' = [draft EXCEPT ![r] = [version |-> now, events |-> events]]
    /\ Goto(r, "open")
    /\ ReadClock
    /\ UNCHANGED <<scope, primed>>

(* The end of a handler's synchronous part after its read: the draft is       *)
(* stamped with the clock and validated; an invalid one answers an error.     *)
Submit(r, events) ==
    /\ base' = [base EXCEPT ![r] = File]
    /\ draft' = [draft EXCEPT ![r] = [version |-> now, events |-> events]]
    /\ Goto(r, IF Valid(events) THEN "open" ELSE "invalid")
    /\ ReadClock
    /\ UNCHANGED <<scope, primed>>

(* PUT /:id/events/:eventId *)
Upsert(r, e, snap, m) ==
    /\ Starts(r, "upsert")
    /\ Expects(r, m)
    /\ \/ File = Malformed /\ Answer(r, "malformed")
       \/ File # Malformed /\ Stale(m) /\ Answer(r, "conflict")
       \/ /\ File # Malformed /\ ~Stale(m)
          /\ Submit(r, WithEvent(File.events, e, snap))
    /\ UNCHANGED <<crashes, disk, name>>

(* DELETE /:id/events/:eventId: an absent event succeeds before the version   *)
(* is compared.                                                               *)
Delete(r, e, m) ==
    /\ Starts(r, "delete")
    /\ Expects(r, m)
    /\ \/ File = Malformed /\ Answer(r, "malformed")
       \/ /\ File # Malformed /\ e \notin Saved(File.events)
          /\ Answer(r, "noop")
       \/ /\ File # Malformed /\ e \in Saved(File.events) /\ Stale(m)
          /\ Answer(r, "conflict")
       \/ /\ File # Malformed /\ e \in Saved(File.events) /\ ~Stale(m)
          /\ Submit(r, WithoutEvent(File.events, e))
    /\ UNCHANGED <<crashes, disk, name>>

(* PUT /:id: the application sends the store it holds with one event renamed. *)
(* The payload is validated (event ids are unique) before the file is read,   *)
(* and the file is read only to refuse a malformed one: no version is compared.*)
Save(r, view, from, to) ==
    LET events == Renamed(view.events, from, to)
        accepted == to \notin Saved(view.events) /\ Valid(events) IN
    /\ Starts(r, "save")
    /\ from \in Saved(view.events) /\ from # to
    /\ \/ ~accepted /\ Answer(r, "invalid")
       \/ accepted /\ File = Malformed /\ Answer(r, "malformed")
       \/ accepted /\ File # Malformed /\ Submit(r, events)
    /\ UNCHANGED <<crashes, disk, match, name>>

(* POST /:id/recompute: the route reads the store once to prime the engine... *)
Prime(r, sc) ==
    /\ Starts(r, "recompute")
    /\ \/ File = Malformed /\ Answer(r, "malformed")
       \/ /\ File # Malformed
          /\ scope' = [scope EXCEPT ![r] = sc]
          /\ primed' = [primed EXCEPT ![r] = File.events]
          /\ Goto(r, "prime")
          /\ UNCHANGED <<now, base, draft>>
    /\ UNCHANGED <<crashes, disk, match, name>>

(* ...and again, once the history index is ready, as the store to refresh.    *)
(* The stamp of the new store is taken here, before the engine runs.          *)
Recompute(r, m) ==
    /\ pc[r] = "prime"
    /\ Expects(r, m)
    /\ \/ File = Malformed /\ Answer(r, "malformed")
       \/ File # Malformed /\ Stale(m) /\ Answer(r, "conflict")
       \/ /\ File # Malformed /\ ~Stale(m)
          /\ base' = [base EXCEPT ![r] = File]
          /\ draft' = [draft EXCEPT ![r] = [File EXCEPT !.version = now]]
          /\ Goto(r, "engine")
          /\ ReadClock
          /\ UNCHANGED <<scope, primed>>
    /\ UNCHANGED <<crashes, disk, kind, name>>

(* The offline migration reads the file and primes the engine with it. *)
Migrate(r) ==
    /\ Starts(r, "migrate")
    /\ \/ (target = NoFile \/ File = Malformed) /\ Answer(r, "error")
       \/ /\ target # NoFile /\ File # Malformed
          /\ scope' = [scope EXCEPT ![r] = Event]
          /\ primed' = [primed EXCEPT ![r] = File.events]
          /\ base' = [base EXCEPT ![r] = File]
          /\ draft' = [draft EXCEPT ![r] = [File EXCEPT !.version = now]]
          /\ Goto(r, "engine")
          /\ ReadClock
    /\ UNCHANGED <<crashes, disk, match, name>>

(* recomputeSelectedResearch: all engine calls work on a detached copy of the *)
(* store that was read.  One failing call, a scope other than the whole store *)
(* that matches nothing, or an invalid result, and nothing is written.        *)
RunEngine(r) ==
    /\ pc[r] = "engine"
    /\ LET events == base[r].events IN
       \/ Answer(r, "error")
       \/ /\ ~EngineThrows(events, primed[r], scope[r])
          /\ scope[r] = Event \/ InScope(events, scope[r]) # {}
          /\ \E out \in EngineOutputs(events, primed[r], scope[r]) :
                LET new == Refreshed(events, out, scope[r]) IN
                /\ draft' = [draft EXCEPT ![r].events = new]
                /\ Goto(r, IF ~Valid(new) THEN "invalid"
                           ELSE IF kind[r] = "migrate" THEN "saveread"
                           ELSE "open")
          /\ UNCHANGED <<now, scope, primed, base>>
    /\ UNCHANGED <<crashes, disk, kind, match, name>>

(* The migration compares the structural identities of what it read with      *)
(* those of its result and exits without writing when they differ (Refreshed  *)
(* moves none, so the script's check is a second line of defence).  Else it   *)
(* hands the result to save(), which reads the file again only to refuse a    *)
(* malformed one, compares no version, and stamps the store anew.             *)
SaveMigrated(r) ==
    LET preserved == SameStructure(base[r].events, draft[r].events) IN
    /\ pc[r] = "saveread"
    /\ \/ ~preserved /\ Answer(r, "error")
       \/ preserved /\ File = Malformed /\ Answer(r, "malformed")
       \/ /\ preserved /\ File # Malformed
          /\ draft' = [draft EXCEPT ![r].version = now]
          /\ Goto(r, "open")
          /\ ReadClock
          /\ UNCHANGED <<scope, primed, base>>
    /\ UNCHANGED <<crashes, disk, kind, match, name>>

-----------------------------------------------------------------------------
(* atomicWrite, step by step.                                                 *)

(* Fault: the name leaves the process out. *)
TempNameShort(r) == <<crashes[ProcessOf(kind[r])], now>>

TempName(r) == <<ProcessOf(kind[r]), crashes[ProcessOf(kind[r])], now>>

At(n) == {q \in tmp : name[q] = n}

(* Fault: the canonical file itself is opened for writing. *)
OpenInPlace(r) ==
    /\ pc[r] = "open"
    /\ name' = [name EXCEPT ![r] = TempName(r)]
    /\ ReadClock
    /\ target' = r
    /\ landed' = landed \cup {r}
    /\ tmp' = tmp \cup {r}
    /\ Goto(r, "fill")
    /\ UNCHANGED <<crashes, seed, filled, kind, match, scope, primed, base, draft>>

(* writeFile(temp, ..., {flag: "wx"}): creates the file, or EEXIST. *)
Open(r) ==
    /\ pc[r] = "open"
    /\ name' = [name EXCEPT ![r] = TempName(r)]
    /\ ReadClock
    /\ IF At(TempName(r)) = {}
       THEN tmp' = tmp \cup {r} /\ Goto(r, "fill")
       ELSE tmp' = tmp /\ Goto(r, "unlink")
    /\ UNCHANGED <<crashes, seed, target, landed, filled,
                   kind, match, scope, primed, base, draft>>

(* Fault: the handler answers without waiting for the rename. *)
FillAndAnswer(r) ==
    /\ pc[r] = "fill"
    /\ filled' = filled \cup {r}
    /\ Goto(r, "saved")
    /\ UNCHANGED <<now, crashes, seed, target, landed, tmp, local>>

Fill(r) ==
    /\ pc[r] = "fill"
    /\ filled' = filled \cup {r}
    /\ Goto(r, "rename")
    /\ UNCHANGED <<now, crashes, seed, target, landed, tmp, local>>

(* Fault: the handler can still fail after the rename. *)
RenameThenSync(r) ==
    /\ pc[r] = "rename"
    /\ IF At(name[r]) = {}
       THEN Goto(r, "unlink") /\ UNCHANGED <<target, landed, tmp>>
       ELSE \E f \in At(name[r]), label \in {"saved", "unlink"} :
               /\ target' = f
               /\ landed' = landed \cup {f}
               /\ tmp' = tmp \ {f}
               /\ Goto(r, label)
    /\ UNCHANGED <<now, crashes, seed, filled, local>>

(* rename(temp, target) moves whatever is linked at the temporary name. *)
Rename(r) ==
    /\ pc[r] = "rename"
    /\ IF At(name[r]) = {}
       THEN Goto(r, "unlink") /\ UNCHANGED <<target, landed, tmp>>
       ELSE \E f \in At(name[r]) :
               /\ target' = f
               /\ landed' = landed \cup {f}
               /\ tmp' = tmp \ {f}
               /\ Goto(r, "saved")
    /\ UNCHANGED <<now, crashes, seed, filled, local>>

(* mkdir, open, write or rename fails (disk full, permissions). *)
Fail(r) ==
    /\ pc[r] \in {"open", "fill", "rename"}
    /\ name' = IF pc[r] = "open" THEN [name EXCEPT ![r] = TempName(r)] ELSE name
    /\ IF pc[r] = "open" THEN ReadClock ELSE now' = now
    /\ Goto(r, "unlink")
    /\ UNCHANGED <<crashes, disk, kind, match, scope, primed, base, draft>>

(* The catch block unlinks the temporary name, whoever created it. *)
Unlink(r) ==
    /\ pc[r] = "unlink"
    /\ tmp' = tmp \ At(name[r])
    /\ Goto(r, "error")
    /\ UNCHANGED <<now, crashes, seed, target, landed, filled, local>>

(* A process dies; what it had in flight gets no answer, its files stay. *)
Crash(p) ==
    LET dying == {r \in Req : pc[r] \in InFlight /\ ProcessOf(kind[r]) = p} IN
    /\ dying # {}
    /\ crashes' = [crashes EXCEPT ![p] = @ + 1]
    /\ pc' = [r \in Req |-> IF r \in dying THEN "lost" ELSE pc[r]]
    /\ UNCHANGED <<now, disk, local>>

-----------------------------------------------------------------------------
Call(r) ==
    \/ \E e \in Event, snap \in Uploads, m \in IfMatch : Upsert(r, e, snap, m)
    \/ \E e \in Event, m \in IfMatch : Delete(r, e, m)
    \/ \E view \in Published, from, to \in Event : Save(r, view, from, to)
    \/ \E sc \in {{e} : e \in Event} \cup {Event} : Prime(r, sc)
    \/ \E m \in IfMatch : Recompute(r, m)
    \/ Migrate(r)

Work(r) ==
    RunEngine(r) \/ SaveMigrated(r) \/ Open(r) \/ Fill(r) \/ Rename(r)
        \/ Fail(r) \/ Unlink(r)

Next == (\E r \in Req : Call(r) \/ Work(r)) \/ (\E p \in Process : Crash(p))

Spec == Init /\ [][Next]_vars
-----------------------------------------------------------------------------
(* Properties. *)

TypeOK ==
    /\ now \in Nat
    /\ crashes \in [Process -> Nat]
    /\ seed \in Store \cup {Malformed}
    /\ target \in Req \cup {Original, NoFile}
    /\ landed \subseteq Req \cup {Original}
    /\ pc \in [Req -> {"idle"} \cup InFlight \cup Settled]
    /\ kind \in [Req -> Kind]
    /\ match \in [Req -> Nat \cup {NoMatch}]
    /\ scope \in [Req -> SUBSET Event]
    /\ primed \in [Req -> Events]
    /\ base \in [Req -> Store]
    /\ draft \in [Req -> Store]
    /\ name \in [Req -> Process \X Nat \X Nat]
    /\ tmp \subseteq Req
    /\ filled \subseteq Req

(* A reader of the canonical file never gets a half-written document, at any  *)
(* point of any handler and after any crash (atomicWrite's temporary file and *)
(* rename).                                                                   *)
NeverTorn == target # NoFile => Readable(target)

(* A canonical file that does not parse or validate is never overwritten:     *)
(* every writer reads it first ("it was not modified", read()).               *)
MalformedKept == (Original \in landed /\ seed = Malformed) => target = Original

(* What is persisted passed validation, whichever handler wrote it: in        *)
(* particular no refresh persists a structure the engine could not resolve,   *)
(* and no rename persists research rows that carry the old event id.          *)
PersistedIsValid == \A d \in Published : Valid(d.events)

(* A request answered with an error left nothing behind that anybody will     *)
(* ever read ("Save failed; no changes were persisted", the application).     *)
FailureMeansUntouched == \A r \in Req : pc[r] \in Refused => r \notin landed

(* A request answered with success was the canonical document at some point.  *)
SuccessMeansPersisted == \A r \in Req : pc[r] = "saved" => r \in landed

Commits(r) == pc[r] = "rename" /\ pc'[r] = "saved"

(* One event, or derived research only. *)
EditOf(old, new) ==
    \/ \E e \in Event : \A d \in Event \ {e} : old[d] = new[d]
    \/ SameStructure(old, new)

(* A commit of an edit to the store its handler read changes one event, or    *)
(* only derived research; other events survive unless they were saved while   *)
(* the request was in flight.                                                 *)
EditsWhatItRead ==
    [][\A r \in Req :
          (Commits(r) /\ kind[r] # "save" /\ base[r] = File) =>
             EditOf(File.events, File'.events)]_vars

(* What a request that names a version puts in the file is an edit of a       *)
(* document that was served under that version: nothing its client has not    *)
(* seen rides along, whoever else writes meanwhile (If-Match, "changed on     *)
(* disk; reload before saving").  An edit that reaches the file while the     *)
(* request is in flight is overwritten all the same: that the file still      *)
(* carries the version is ConcurrentEditRefused.                              *)
EditsWhatItsClientSaw ==
    [][\A r \in Req : (Commits(r) /\ match[r] # NoMatch) =>
          \E d \in Published : /\ d.version = match[r]
                                /\ EditOf(d.events, File'.events)]_vars

(* The recompute route refuses to overwrite an edit made while it worked.     *)
ConcurrentEditRefused ==
    [][\A r \in Req : (Commits(r) /\ kind[r] = "recompute" /\ match[r] # NoMatch) =>
          match[r] = File.version]_vars

(* The whole protocol of handlers, temporary files and crashes implements the *)
(* event store.                                                               *)
Contract == INSTANCE EventStore WITH store <- File, published <- Published

ImplementsEventStore == Contract!Spec
=============================================================================
