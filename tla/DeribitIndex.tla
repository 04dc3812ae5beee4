---------------------------- MODULE DeribitIndex ----------------------------
(* The index of Deribit's option instruments (scripts/deribit-history-api.ts) *)
(* and the tabs that load contracts through it (app/options-backtester.tsx).  *)
(*                                                                            *)
(* The server keeps one DeribitHistoryService; every recompute makes another, *)
(* and all of them share one cache file, written in place.  Each request runs *)
(* one handler at a time, whose steps are the stretches between its awaits.   *)
(* Of a manifest the model knows whether there is one.                        *)
EXTENDS Naturals, FiniteSets

CONSTANTS
    Tab,          \* browser tabs
    Job,          \* recomputes, each with a service of its own
    Server,       \* the service the tabs share
    MaxPolls,     \* waitForIndex: 2400 attempts
    Again,        \* does a tab or a recompute begin again?
    MaxCrashes    \* bound on restarts of the server process

ASSUME IndexAssumption ==
    /\ Server \notin Job /\ Tab \cap Job = {}
    /\ MaxPolls \in Nat \ {0} /\ MaxCrashes \in Nat /\ Again \in BOOLEAN

Req == Tab \cup Job
Service == {Server} \cup Job
ServiceOf(r) == IF r \in Tab THEN Server ELSE r

VARIABLES
    cache,        \* the cache file
    checked,      \* manifestChecked
    manifest,     \* is there a manifest?
    phase,        \* phase
    synchronizing,\* is the promise of a synchronization there?
    stage,        \* the synchronization a request has started
    at,           \* where its handler is
    op,           \* which handler it is
    answer,       \* what it answered
    doing,        \* where a tab's load is, or a job
    force,        \* was it asked to refresh the manifest?
    polls,        \* how often it asked for the status
    disturbed,    \* has anything failed since it began? (history)
    crashes

service == <<checked, manifest, phase, synchronizing>>
client == <<doing, force, polls>>
vars == <<cache, service, stage, at, op, answer, client, disturbed, crashes>>

Phase == {"idle", "synchronizing", "ready", "error"}
Ended == {"done", "failed", "expired"}

Init ==
    /\ cache \in {"none", "whole", "torn"}
    /\ checked = [s \in Service |-> FALSE]
    /\ manifest = [s \in Service |-> FALSE]
    /\ phase = [s \in Service |-> "idle"]
    /\ synchronizing = [s \in Service |-> FALSE]
    /\ stage = [r \in Req |-> "off"]
    /\ at = [r \in Req |-> "quiet"]
    /\ op = [r \in Req |-> "status"]
    /\ answer = [r \in Req |-> "none"]
    /\ doing = [r \in Req |-> "idle"]
    /\ force = [r \in Req |-> FALSE]
    /\ polls = [r \in Req |-> 0]
    /\ disturbed = [r \in Req |-> FALSE]
    /\ crashes = 0

-----------------------------------------------------------------------------
(* The service. *)

(* A handler's answer; a tab that is only being opened just shows it. *)
Answers(r, a) ==
    IF doing[r] = "idle"
    THEN at' = [at EXCEPT ![r] = "quiet"] /\ UNCHANGED answer
    ELSE /\ at' = [at EXCEPT ![r] = "answered"]
         /\ answer' = [answer EXCEPT ![r] = a]

Outcome(p) == IF p = "ready" THEN "ok" ELSE "error"

(* Fault: a refresh is not asked for twice. *)
SynchronizesUnforced(r, m) == ~synchronizing[ServiceOf(r)] /\ ~m

(* Fault: whether a synchronization is running is not looked at. *)
SynchronizesAgain(r, m) == ~m \/ force[r]

(* startIndex, after its loadCache: does it start a synchronization? *)
Synchronizes(r, m) == ~synchronizing[ServiceOf(r)] /\ (~m \/ force[r])

(* Everything a handler does after loadCache has left it with manifest m and  *)
(* phase p: status answers, startIndex may start a synchronization, and       *)
(* resolve and the recompute go on to waitUntilReady.                         *)
Continue(r, m, p) ==
    LET s == ServiceOf(r)
        starts == op[r] \in {"index", "recompute"} /\ Synchronizes(r, m)
        waits == op[r] \in {"resolve", "recompute"} /\ (starts \/ synchronizing[s]) IN
    /\ manifest' = [manifest EXCEPT ![s] = m]
    /\ phase' = [phase EXCEPT ![s] = IF starts THEN "synchronizing" ELSE p]
    /\ synchronizing' = [synchronizing EXCEPT ![s] = @ \/ starts]
    /\ stage' = IF starts THEN [stage EXCEPT ![r] = "listing"] ELSE stage
    /\ IF waits
       THEN at' = [at EXCEPT ![r] = "waiting"] /\ UNCHANGED answer
       ELSE Answers(r, IF op[r] \in {"status", "index"} THEN phase'[s] ELSE Outcome(p))

(* loadCache marks the cache as checked, then awaits the file; a handler that *)
(* comes while the file is being read goes on without it.                     *)
Arrive(r) ==
    LET s == ServiceOf(r) IN
    /\ at[r] = "arrived"
    /\ IF checked[s]
       THEN Continue(r, manifest[s], phase[s]) /\ UNCHANGED checked
       ELSE /\ checked' = [checked EXCEPT ![s] = TRUE]
            /\ at' = [at EXCEPT ![r] = "reading"]
            /\ UNCHANGED <<manifest, phase, synchronizing, stage, answer>>
    /\ UNCHANGED <<cache, op, client, disturbed, crashes>>

(* Fault: a file that is there is taken to be ready. *)
ReadTorn(r) ==
    LET s == ServiceOf(r) IN
    /\ at[r] = "reading"
    /\ IF cache # "none"
       THEN Continue(r, cache = "whole" \/ manifest[s], "ready")
       ELSE Continue(r, manifest[s], phase[s])
    /\ UNCHANGED <<cache, checked, op, client, disturbed, crashes>>

(* The file has been read, whatever happened to the service meanwhile: a whole*)
(* one is the manifest now, any other one is ignored.                         *)
Read(r) ==
    LET s == ServiceOf(r) IN
    /\ at[r] = "reading"
    /\ IF cache = "whole"
       THEN Continue(r, TRUE, "ready")
       ELSE Continue(r, manifest[s], phase[s])
    /\ UNCHANGED <<cache, checked, op, client, disturbed, crashes>>

-----------------------------------------------------------------------------
(* A synchronization. *)

Writers == {r \in Req : stage[r] = "writing"}

(* Both listings were answered: the manifest is set, then the file is opened  *)
(* in place.                                                                  *)
Listed(r) ==
    /\ stage[r] = "listing"
    /\ manifest' = [manifest EXCEPT ![ServiceOf(r)] = TRUE]
    /\ stage' = [stage EXCEPT ![r] = "writing"]
    /\ cache' = IF Writers = {} THEN "torn" ELSE "mixed"
    /\ UNCHANGED <<checked, phase, synchronizing, at, op, answer, client,
                   disturbed, crashes>>

(* Fault: nobody is told of the end. *)
SyncEndsUnnoticed(r, p) ==
    /\ phase' = [phase EXCEPT ![ServiceOf(r)] = p]
    /\ synchronizing' = [synchronizing EXCEPT ![ServiceOf(r)] = FALSE]
    /\ stage' = [stage EXCEPT ![r] = "off"]
    /\ UNCHANGED <<at, answer>>

(* The end of a synchronization: its promise is gone, whoever waited for it   *)
(* sees the phase it has left.                                                *)
SyncEnds(r, p) ==
    LET s == ServiceOf(r)
        woken(q) == at[q] = "waiting" /\ ServiceOf(q) = s IN
    /\ phase' = [phase EXCEPT ![s] = p]
    /\ synchronizing' = [synchronizing EXCEPT ![s] = FALSE]
    /\ stage' = [stage EXCEPT ![r] = "off"]
    /\ at' = [q \in Req |-> IF woken(q) THEN "answered" ELSE at[q]]
    /\ answer' = [q \in Req |-> IF woken(q) THEN Outcome(p) ELSE answer[q]]

(* The file is written.  Two writes at once can leave a mixture. *)
Written(r) ==
    /\ stage[r] = "writing"
    /\ SyncEnds(r, "ready")
    /\ cache' \in IF cache = "torn" THEN {"whole"}
                  ELSE IF Writers # {r} THEN {cache} ELSE {"whole", "torn"}
    /\ UNCHANGED <<checked, manifest, op, client, disturbed, crashes>>

(* A listing was refused or unreachable, or the file could not be written.    *)
SyncFails(r) ==
    /\ stage[r] \in {"listing", "writing"}
    /\ SyncEnds(r, "error")
    /\ disturbed' = [q \in Req |-> TRUE]
    /\ UNCHANGED <<cache, checked, manifest, op, client, crashes>>

(* The server process dies and is started again; the connections break.       *)
Crash ==
    /\ crashes < MaxCrashes
    /\ crashes' = crashes + 1
    /\ checked' = [s \in Service |-> FALSE]
    /\ manifest' = [s \in Service |-> FALSE]
    /\ phase' = [s \in Service |-> "idle"]
    /\ synchronizing' = [s \in Service |-> FALSE]
    /\ stage' = [r \in Req |-> "off"]
    /\ cache' = IF cache = "mixed" THEN "torn" ELSE cache
    /\ LET broken(r) == at[r] \in {"arrived", "reading", "waiting"} IN
       /\ at' = [r \in Req |-> IF ~broken(r) THEN at[r]
                               ELSE IF doing[r] = "idle" THEN "quiet" ELSE "answered"]
       /\ answer' = [r \in Req |-> IF broken(r) /\ doing[r] # "idle"
                                   THEN "unreachable" ELSE answer[r]]
    /\ disturbed' = [r \in Req |-> TRUE]
    /\ UNCHANGED <<op, client>>

-----------------------------------------------------------------------------
(* The clients. *)

Sends(r, what) ==
    /\ op' = [op EXCEPT ![r] = what]
    /\ at' = [at EXCEPT ![r] = "arrived"]
    /\ answer' = [answer EXCEPT ![r] = "none"]

Goes(r, where) == doing' = [doing EXCEPT ![r] = where]

(* A tab is opened: refreshSourceStatus; its answer is only shown. *)
Visit(t) ==
    /\ doing[t] = "idle" /\ at[t] = "quiet"
    /\ Sends(t, "status")
    /\ UNCHANGED <<cache, service, stage, client, disturbed, crashes>>

Ends(r, where) ==
    /\ Goes(r, where)
    /\ at' = [at EXCEPT ![r] = "quiet"]
    /\ op' = [op EXCEPT ![r] = "status"]
    /\ answer' = [answer EXCEPT ![r] = "none"]

(* loadRequiredContracts asks for the index; a recompute makes its service.   *)
Begin(r, f) ==
    /\ doing[r] \in {"idle"} \cup (IF Again THEN Ended ELSE {})
    /\ at[r] = "quiet"
    /\ force' = [force EXCEPT ![r] = f]
    /\ disturbed' = [disturbed EXCEPT ![r] = FALSE]
    /\ IF r \in Tab
       THEN /\ Goes(r, "index") /\ Sends(r, "index")
            /\ UNCHANGED service
       ELSE /\ ~f
            /\ Goes(r, "recompute") /\ Sends(r, "recompute")
            /\ checked' = [checked EXCEPT ![r] = FALSE]
            /\ manifest' = [manifest EXCEPT ![r] = FALSE]
            /\ phase' = [phase EXCEPT ![r] = "idle"]
            /\ UNCHANGED synchronizing
    /\ UNCHANGED <<cache, stage, polls, crashes>>

(* Fault: the number of attempts is not bounded. *)
PollForever(t) ==
    /\ doing[t] = "poll" /\ at[t] = "answered"
    /\ \/ answer[t] = "ready" /\ Goes(t, "resolve") /\ Sends(t, "resolve")
       \/ answer[t] = "error" /\ Ends(t, "failed")
       \/ /\ answer[t] \notin {"ready", "error"}
          /\ Sends(t, "status")
          /\ UNCHANGED doing
    /\ UNCHANGED <<cache, service, stage, force, polls, disturbed, crashes>>

(* waitForIndex: the status once more unless it is ready or an error.  A      *)
(* status that could not be had is none of these.                             *)
Poll(t) ==
    /\ doing[t] = "poll" /\ at[t] = "answered"
    /\ \/ answer[t] = "ready" /\ Goes(t, "resolve") /\ Sends(t, "resolve")
          /\ polls' = [polls EXCEPT ![t] = 0]
       \/ answer[t] = "error" /\ Ends(t, "failed")
          /\ polls' = [polls EXCEPT ![t] = 0]
       \/ /\ answer[t] \notin {"ready", "error"} /\ polls[t] = MaxPolls
          /\ Ends(t, "expired")
          /\ polls' = [polls EXCEPT ![t] = 0]
       \/ /\ answer[t] \notin {"ready", "error"} /\ polls[t] < MaxPolls
          /\ polls' = [polls EXCEPT ![t] = @ + 1]
          /\ Sends(t, "status")
          /\ UNCHANGED doing
    /\ UNCHANGED <<cache, service, stage, force, disturbed, crashes>>

(* The answer to POST /index: wait unless it is ready. *)
Indexed(t) ==
    /\ doing[t] = "index" /\ at[t] = "answered"
    /\ \/ answer[t] = "unreachable" /\ Ends(t, "failed") /\ UNCHANGED polls
       \/ answer[t] = "ready" /\ Goes(t, "resolve") /\ Sends(t, "resolve")
          /\ UNCHANGED polls
       \/ /\ answer[t] \notin {"unreachable", "ready"}
          /\ polls' = [polls EXCEPT ![t] = 1]
          /\ Goes(t, "poll") /\ Sends(t, "status")
    /\ UNCHANGED <<cache, service, stage, force, disturbed, crashes>>

(* The answer to POST /resolve, and the end of a recompute's waitUntilReady.  *)
Resolved(r) ==
    /\ doing[r] \in {"resolve", "recompute"} /\ at[r] = "answered"
    /\ Ends(r, IF answer[r] = "ok" THEN "done" ELSE "failed")
    /\ UNCHANGED <<cache, service, stage, force, polls, disturbed, crashes>>

-----------------------------------------------------------------------------
Handle(r) == Arrive(r) \/ Read(r)
Synchronize(r) == Listed(r) \/ Written(r) \/ SyncFails(r)
Advance(r) == (r \in Tab /\ (Indexed(r) \/ Poll(r))) \/ Resolved(r)

Next ==
    \/ \E r \in Req : Handle(r) \/ Synchronize(r) \/ Advance(r)
    \/ \E r \in Req, f \in BOOLEAN : Begin(r, f)
    \/ \E t \in Tab : Visit(t)
    \/ Crash

(* Handlers run, listings and file operations are answered or refused, and    *)
(* tabs go on with what they were answered.                                   *)
Fairness ==
    \A r \in Req : WF_vars(Handle(r)) /\ WF_vars(Synchronize(r)) /\ WF_vars(Advance(r))

Spec == Init /\ [][Next]_vars /\ Fairness

-----------------------------------------------------------------------------
(* Properties. *)

(* Types, and: a handler waits only while a synchronization of its service    *)
(* runs, so waitUntilReady cannot be forgotten.                               *)
TypeOK ==
    /\ cache \in {"none", "whole", "torn", "mixed"}
    /\ checked \in [Service -> BOOLEAN]
    /\ manifest \in [Service -> BOOLEAN]
    /\ phase \in [Service -> Phase]
    /\ synchronizing \in [Service -> BOOLEAN]
    /\ stage \in [Req -> {"off", "listing", "writing"}]
    /\ at \in [Req -> {"quiet", "arrived", "reading", "waiting", "answered"}]
    /\ op \in [Req -> {"status", "index", "resolve", "recompute"}]
    /\ answer \in [Req -> Phase \cup {"none", "ok", "unreachable"}]
    /\ doing \in [Req -> {"idle", "index", "poll", "resolve", "recompute"} \cup Ended]
    /\ force \in [Req -> BOOLEAN]
    /\ polls \in [Req -> 0..MaxPolls]
    /\ disturbed \in [Req -> BOOLEAN]
    /\ crashes \in 0..MaxCrashes
    /\ \A r \in Req : at[r] = "waiting" => synchronizing[ServiceOf(r)]

(* resolve reads the manifest without a check once the phase is "ready": the  *)
(* phase never says so without one, whichever of a late read of the cache, a  *)
(* failed or a finished synchronization came last.                            *)
ReadyMeansManifest == \A s \in Service : phase[s] = "ready" => manifest[s]

(* A service never runs two synchronizations at once, although every handler  *)
(* awaits the cache between its arrival and its check.                        *)
OneSynchronization ==
    \A s \in Service :
        /\ Cardinality({r \in Req : ServiceOf(r) = s /\ stage[r] # "off"}) <= 1
        /\ synchronizing[s] <=> \E r \in Req : ServiceOf(r) = s /\ stage[r] # "off"

(* Refresh API manifest works after any failure: a load that was asked to     *)
(* refresh, and a recompute, fail only if something failed since they began.  *)
(* (A load that was not asked to refresh can fail of an older failure.)       *)
FailsForAReason ==
    \A r \in Req :
        (doing[r] = "failed" /\ (force[r] \/ r \in Job)) => disturbed[r]

(* Every load ends, also when the server is restarted under it and has        *)
(* forgotten that a synchronization was asked for.                            *)
LoadEnds == \A r \in Req : doing[r] \notin ({"idle"} \cup Ended) ~> doing[r] \in Ended
=============================================================================
