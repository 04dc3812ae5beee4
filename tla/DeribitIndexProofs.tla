------------------------- MODULE DeribitIndexProofs -------------------------
(* Theorems about DeribitIndex, for any sets of tabs and recomputes.          *)
EXTENDS DeribitIndex, FiniteSetTheorems, TLAPS

-----------------------------------------------------------------------------
(* The inductive invariant. *)

(* A service has at most one synchronization, and its promise is there exactly*)
(* while that one runs.                                                       *)
AtMostOne ==
    \A q, r \in Req :
        stage[q] # "off" /\ stage[r] # "off" /\ ServiceOf(q) = ServiceOf(r) => q = r

PromiseWhileRunning ==
    \A s \in Service :
        synchronizing[s] <=> \E r \in Req : ServiceOf(r) = s /\ stage[r] # "off"

(* What ends with the phase "ready" has set the manifest before, and no new   *)
(* service has forgotten it since: a recompute waits for what it has started, *)
(* so it never begins while it still synchronizes.                            *)
WritingHasManifest == \A r \in Req : stage[r] = "writing" => manifest[ServiceOf(r)]

JobsWait ==
    \A j \in Job :
        /\ op[j] \in {"status", "recompute"}
        /\ doing[j] \notin {"index", "poll", "resolve"}
        /\ stage[j] # "off" => at[j] = "waiting"

Synchronized == AtMostOne /\ PromiseWhileRunning /\ WritingHasManifest /\ JobsWait

IndexInv == TypeOK /\ ReadyMeansManifest /\ Synchronized

-----------------------------------------------------------------------------
(* Lemmas. *)

(* A request's service; a recompute has its own. *)
LEMMA ServiceType ==
    /\ \A r \in Req : ServiceOf(r) \in Service
    /\ \A j \in Job, r \in Req : ServiceOf(j) = j /\ (ServiceOf(r) = j => r = j)
    /\ Job \subseteq Req /\ Tab \subseteq Req
BY IndexAssumption DEF ServiceOf, Service, Req

(* The invariant's two readings of "one synchronization" are the property.    *)
LEMMA OneSynchronizationFollows == AtMostOne /\ PromiseWhileRunning => OneSynchronization
<1> SUFFICES ASSUME AtMostOne, PromiseWhileRunning, NEW s \in Service
             PROVE  Cardinality({r \in Req : ServiceOf(r) = s /\ stage[r] # "off"}) <= 1
  BY DEF OneSynchronization, PromiseWhileRunning
<1> DEFINE Running == {r \in Req : ServiceOf(r) = s /\ stage[r] # "off"}
<1>1. CASE Running = {}
  BY <1>1, FS_EmptySet
<1>2. ASSUME NEW q \in Running PROVE Cardinality(Running) <= 1
  <2>1. Running = {q}
    BY DEF AtMostOne
  <2> QED
    BY <2>1, FS_Singleton
<1> QED
  BY <1>1, <1>2

(* Handlers that go on after loadCache with a manifest m and a phase p that   *)
(* are no worse than the service's own keep the invariant.                    *)
LEMMA ContinueKeeps ==
    ASSUME IndexInv, NEW r \in Req, NEW m \in BOOLEAN, NEW p \in Phase,
           at[r] \in {"arrived", "reading"},
           manifest[ServiceOf(r)] => m, p = "ready" => m,
           checked' \in [Service -> BOOLEAN],
           Continue(r, m, p), UNCHANGED <<cache, op, client, disturbed, crashes>>
    PROVE  IndexInv'
<1> DEFINE s == ServiceOf(r)
           starts == op[r] \in {"index", "recompute"} /\ Synchronizes(r, m)
<1>1. s \in Service /\ starts \in BOOLEAN
  BY ServiceType
<1>2. /\ manifest' = [manifest EXCEPT ![s] = m]
      /\ phase' = [phase EXCEPT ![s] = IF starts THEN "synchronizing" ELSE p]
      /\ synchronizing' = [synchronizing EXCEPT ![s] = @ \/ starts]
      /\ stage' = IF starts THEN [stage EXCEPT ![r] = "listing"] ELSE stage
  BY DEF Continue
<1>3. starts => ~synchronizing[s]
  BY DEF Synchronizes
<1>4. \/ /\ at' = [at EXCEPT ![r] = "waiting"] /\ UNCHANGED answer
         /\ starts \/ synchronizing[s]
      \/ /\ \E a \in Phase \cup {"ok", "error"} : Answers(r, a)
         /\ ~(op[r] = "recompute" /\ starts)
  <2>1. Outcome(p) \in {"ok", "error"}
    BY DEF Outcome
  <2>2. phase'[s] \in Phase
    BY <1>1, <1>2 DEF IndexInv, TypeOK, Phase
  <2> QED
    BY <2>1, <2>2 DEF Continue
<1>5. TypeOK'
  <2>1. /\ manifest' \in [Service -> BOOLEAN] /\ phase' \in [Service -> Phase]
        /\ synchronizing' \in [Service -> BOOLEAN]
        /\ stage' \in [Req -> {"off", "listing", "writing"}]
    BY <1>1, <1>2 DEF IndexInv, TypeOK, Phase
  <2>2. /\ at' \in [Req -> {"quiet", "arrived", "reading", "waiting", "answered"}]
        /\ answer' \in [Req -> Phase \cup {"none", "ok", "unreachable"}]
    BY <1>4 DEF IndexInv, TypeOK, Phase, Answers
  <2>3. \A q \in Req : at'[q] = "waiting" => synchronizing'[ServiceOf(q)]
    BY <1>1, <1>2, <1>4, ServiceType DEF IndexInv, TypeOK, Answers
  <2> QED
    BY <2>1, <2>2, <2>3 DEF IndexInv, TypeOK, client
<1>6. ReadyMeansManifest'
  BY <1>1, <1>2 DEF IndexInv, TypeOK, ReadyMeansManifest
<1>7. AtMostOne' /\ PromiseWhileRunning'
  <2>1. CASE ~starts
    <3>1. UNCHANGED <<stage, synchronizing>>
      BY <2>1, <1>1, <1>2 DEF IndexInv, TypeOK
    <3> QED
      BY <3>1 DEF IndexInv, Synchronized, AtMostOne, PromiseWhileRunning
  <2>2. CASE starts
    <3>1. /\ synchronizing' = [synchronizing EXCEPT ![s] = TRUE]
          /\ stage' = [stage EXCEPT ![r] = "listing"]
      BY <2>2, <1>1, <1>2 DEF IndexInv, TypeOK
    <3>2. \A q \in Req : ServiceOf(q) = s => stage[q] = "off"
      BY <2>2, <1>1, <1>3 DEF IndexInv, Synchronized, PromiseWhileRunning
    <3>3. AtMostOne'
      BY <3>1, <3>2 DEF IndexInv, TypeOK, Synchronized, AtMostOne
    <3>4. PromiseWhileRunning'
      BY <3>1, <3>2, <1>1 DEF IndexInv, TypeOK, Synchronized, PromiseWhileRunning
    <3> QED
      BY <3>3, <3>4
  <2> QED
    BY <2>1, <2>2
<1>8. WritingHasManifest'
  BY <1>1, <1>2, ServiceType DEF IndexInv, TypeOK, Synchronized, WritingHasManifest
<1>9. JobsWait'
  <2> SUFFICES ASSUME NEW j \in Job, stage'[j] # "off" PROVE at'[j] = "waiting"
    BY DEF IndexInv, Synchronized, JobsWait, client
  <2>1. CASE j = r
    BY <2>1, <1>2, <1>4, ServiceType DEF IndexInv, TypeOK, Synchronized, JobsWait
  <2>2. CASE j # r
    BY <2>2, <1>2, <1>4, ServiceType
    DEF IndexInv, TypeOK, Synchronized, JobsWait, Answers
  <2> QED
    BY <2>1, <2>2
<1> QED
  BY <1>5, <1>6, <1>7, <1>8, <1>9 DEF IndexInv, Synchronized

(* The end of a synchronization keeps the invariant, if its phase is "ready"  *)
(* only after the file was being written.                                     *)
LEMMA SyncEndsKeeps ==
    ASSUME IndexInv, NEW r \in Req, NEW p \in {"ready", "error"},
           stage[r] # "off", p = "ready" => stage[r] = "writing",
           SyncEnds(r, p), UNCHANGED <<checked, manifest, op, client, crashes>>,
           cache' \in {"none", "whole", "torn", "mixed"},
           disturbed' \in [Req -> BOOLEAN]
    PROVE  IndexInv'
<1> DEFINE s == ServiceOf(r)
           woken(q) == at[q] = "waiting" /\ ServiceOf(q) = s
<1>1. s \in Service /\ Outcome(p) \in {"ok", "error"}
  BY ServiceType DEF Outcome
<1>2. /\ phase' = [phase EXCEPT ![s] = p]
      /\ synchronizing' = [synchronizing EXCEPT ![s] = FALSE]
      /\ stage' = [stage EXCEPT ![r] = "off"]
      /\ at' = [q \in Req |-> IF woken(q) THEN "answered" ELSE at[q]]
      /\ answer' = [q \in Req |-> IF woken(q) THEN Outcome(p) ELSE answer[q]]
  BY DEF SyncEnds
<1>3. TypeOK'
  <2>1. /\ phase' \in [Service -> Phase] /\ synchronizing' \in [Service -> BOOLEAN]
        /\ stage' \in [Req -> {"off", "listing", "writing"}]
    BY <1>2 DEF IndexInv, TypeOK, Phase
  <2>2. /\ at' \in [Req -> {"quiet", "arrived", "reading", "waiting", "answered"}]
        /\ answer' \in [Req -> Phase \cup {"none", "ok", "unreachable"}]
    BY <1>1, <1>2 DEF IndexInv, TypeOK, Phase
  <2>3. \A q \in Req : at'[q] = "waiting" => synchronizing'[ServiceOf(q)]
    BY <1>2, ServiceType DEF IndexInv, TypeOK
  <2> QED
    BY <2>1, <2>2, <2>3 DEF IndexInv, TypeOK, client
<1>4. ReadyMeansManifest'
  BY <1>1, <1>2 DEF IndexInv, TypeOK, ReadyMeansManifest, Synchronized, WritingHasManifest
<1>5. AtMostOne' /\ WritingHasManifest'
  BY <1>2 DEF IndexInv, TypeOK, Synchronized, AtMostOne, WritingHasManifest
<1>6. PromiseWhileRunning'
  <2> SUFFICES ASSUME NEW u \in Service
               PROVE  synchronizing'[u]
                        <=> \E q \in Req : ServiceOf(q) = u /\ stage'[q] # "off"
    BY DEF PromiseWhileRunning
  <2>1. CASE u = s
    <3>1. ~synchronizing'[u]
      BY <2>1, <1>1, <1>2 DEF IndexInv, TypeOK
    <3>2. ASSUME NEW q \in Req, ServiceOf(q) = u PROVE stage'[q] = "off"
      BY <2>1, <3>2, <1>2 DEF IndexInv, TypeOK, Synchronized, AtMostOne
    <3> QED
      BY <3>1, <3>2
  <2>2. CASE u # s
    <3>1. synchronizing'[u] = synchronizing[u]
      BY <2>2, <1>2 DEF IndexInv, TypeOK
    <3>2. ASSUME NEW q \in Req, ServiceOf(q) = u PROVE stage'[q] = stage[q]
      BY <2>2, <3>2, <1>2 DEF IndexInv, TypeOK
    <3> QED
      BY <3>1, <3>2 DEF IndexInv, Synchronized, PromiseWhileRunning
  <2> QED
    BY <2>1, <2>2
<1>7. JobsWait'
  <2> SUFFICES ASSUME NEW j \in Job, stage'[j] # "off" PROVE at'[j] = "waiting"
    BY DEF IndexInv, Synchronized, JobsWait, client
  <2>1. j # r /\ stage[j] # "off" /\ j \in Req
    BY <1>2, ServiceType DEF IndexInv, TypeOK
  <2>2. ServiceOf(j) # s
    BY <2>1 DEF IndexInv, Synchronized, AtMostOne
  <2> QED
    BY <2>1, <2>2, <1>2 DEF IndexInv, Synchronized, JobsWait
<1> QED
  BY <1>3, <1>4, <1>5, <1>6, <1>7 DEF IndexInv, Synchronized

(* The steps of a client that leave the services and the synchronizations     *)
(* alone: only its own handler, and what it is doing, change.                 *)
LEMMA ClientKeeps ==
    ASSUME IndexInv, NEW r \in Req,
           UNCHANGED <<cache, service, stage, disturbed, crashes>>,
           at[r] # "waiting",
           NEW where \in {"quiet", "arrived"}, at' = [at EXCEPT ![r] = where],
           NEW what \in {"status", "index", "resolve", "recompute"},
           op' = [op EXCEPT ![r] = what], answer' = [answer EXCEPT ![r] = "none"],
           NEW d \in {"idle", "index", "poll", "resolve", "recompute"} \cup Ended,
           doing' = [doing EXCEPT ![r] = d],
           r \in Job => /\ what \in {"status", "recompute"}
                        /\ d \notin {"index", "poll", "resolve"},
           polls' \in [Req -> 0..MaxPolls], force' \in [Req -> BOOLEAN]
    PROVE  IndexInv'
<1>1. TypeOK'
  BY DEF IndexInv, TypeOK, service
<1>2. JobsWait'
  <2> SUFFICES ASSUME NEW j \in Job
               PROVE  /\ op'[j] \in {"status", "recompute"}
                      /\ doing'[j] \notin {"index", "poll", "resolve"}
                      /\ stage'[j] # "off" => at'[j] = "waiting"
    BY DEF JobsWait
  <2>1. j \in Req /\ stage'[j] = stage[j]
    BY ServiceType
  <2>2. CASE j = r
    BY <2>1, <2>2 DEF IndexInv, TypeOK, Synchronized, JobsWait
  <2>3. CASE j # r
    BY <2>1, <2>3 DEF IndexInv, TypeOK, Synchronized, JobsWait
  <2> QED
    BY <2>2, <2>3
<1>3. ReadyMeansManifest' /\ AtMostOne' /\ PromiseWhileRunning' /\ WritingHasManifest'
  BY DEF IndexInv, Synchronized, ReadyMeansManifest, AtMostOne, PromiseWhileRunning,
         WritingHasManifest, service
<1> QED
  BY <1>1, <1>2, <1>3 DEF IndexInv, Synchronized

-----------------------------------------------------------------------------
(* Every step. *)

(* At the start nothing runs and nothing is known. *)
LEMMA IndexInit == Init => IndexInv
<1> SUFFICES ASSUME Init PROVE IndexInv
  OBVIOUS
<1>1. TypeOK
  BY IndexAssumption DEF Init, TypeOK, Phase
<1>2. ReadyMeansManifest /\ AtMostOne /\ PromiseWhileRunning /\ WritingHasManifest
  BY ServiceType
  DEF Init, ReadyMeansManifest, AtMostOne, PromiseWhileRunning, WritingHasManifest
<1>3. JobsWait
  BY ServiceType DEF Init, JobsWait
<1> QED
  BY <1>1, <1>2, <1>3 DEF IndexInv, Synchronized

(* The handlers. *)
LEMMA HandleKeeps == ASSUME IndexInv, NEW r \in Req, Handle(r) PROVE IndexInv'
<1> DEFINE s == ServiceOf(r)
<1>0. s \in Service /\ manifest[s] \in BOOLEAN /\ phase[s] \in Phase
  BY ServiceType DEF IndexInv, TypeOK
<1>1. CASE Arrive(r) /\ checked[s]
  <2>1. /\ Continue(r, manifest[s], phase[s]) /\ at[r] = "arrived"
        /\ UNCHANGED <<checked, cache, op, client, disturbed, crashes>>
    BY <1>1 DEF Arrive
  <2>2. phase[s] = "ready" => manifest[s]
    BY <1>0 DEF IndexInv, ReadyMeansManifest
  <2>3. checked' \in [Service -> BOOLEAN]
    BY <2>1 DEF IndexInv, TypeOK
  <2> QED
    BY <1>0, <2>1, <2>2, <2>3, ContinueKeeps
<1>2. CASE Arrive(r) /\ ~checked[s]
  <2>1. /\ at[r] = "arrived" /\ at' = [at EXCEPT ![r] = "reading"]
        /\ checked' = [checked EXCEPT ![s] = TRUE]
        /\ UNCHANGED <<manifest, phase, synchronizing, stage, answer>>
        /\ UNCHANGED <<cache, op, client, disturbed, crashes>>
    BY <1>2 DEF Arrive
  <2>2. TypeOK'
    BY <2>1, <1>0 DEF IndexInv, TypeOK, client
  <2>3. JobsWait'
    BY <2>1, ServiceType DEF IndexInv, TypeOK, Synchronized, JobsWait, client
  <2> QED
    BY <2>1, <2>2, <2>3
    DEF IndexInv, Synchronized, ReadyMeansManifest, AtMostOne, PromiseWhileRunning,
        WritingHasManifest
<1>3. CASE Read(r)
  <2>1. /\ at[r] = "reading" /\ UNCHANGED <<checked, cache, op, client, disturbed, crashes>>
        /\ Continue(r, TRUE, "ready") \/ Continue(r, manifest[s], phase[s])
    BY <1>3 DEF Read
  <2>2. phase[s] = "ready" => manifest[s]
    BY <1>0 DEF IndexInv, ReadyMeansManifest
  <2>3. checked' \in [Service -> BOOLEAN] /\ "ready" \in Phase
    BY <2>1 DEF IndexInv, TypeOK, Phase
  <2>4. CASE Continue(r, TRUE, "ready")
    BY <1>0, <2>1, <2>3, <2>4, ContinueKeeps
  <2>5. CASE Continue(r, manifest[s], phase[s])
    BY <1>0, <2>1, <2>2, <2>3, <2>5, ContinueKeeps
  <2> QED
    BY <2>1, <2>4, <2>5
<1> QED
  BY <1>1, <1>2, <1>3 DEF Handle

(* The synchronizations. *)
LEMMA SynchronizeKeeps == ASSUME IndexInv, NEW r \in Req, Synchronize(r) PROVE IndexInv'
<1>1. CASE Listed(r)
  <2>1. /\ stage[r] = "listing" /\ stage' = [stage EXCEPT ![r] = "writing"]
        /\ manifest' = [manifest EXCEPT ![ServiceOf(r)] = TRUE]
        /\ cache' \in {"torn", "mixed"}
        /\ UNCHANGED <<checked, phase, synchronizing, at, op, answer, client,
                       disturbed, crashes>>
    BY <1>1 DEF Listed
  <2>2. TypeOK'
    BY <2>1, ServiceType DEF IndexInv, TypeOK, client
  <2>3. ReadyMeansManifest' /\ WritingHasManifest'
    BY <2>1, ServiceType
    DEF IndexInv, TypeOK, ReadyMeansManifest, Synchronized, WritingHasManifest
  <2>4. \A q \in Req : stage'[q] # "off" <=> stage[q] # "off"
    BY <2>1 DEF IndexInv, TypeOK
  <2>5. AtMostOne' /\ PromiseWhileRunning'
    BY <2>1, <2>4 DEF IndexInv, Synchronized, AtMostOne, PromiseWhileRunning
  <2>6. JobsWait'
    BY <2>1, <2>4, ServiceType DEF IndexInv, Synchronized, JobsWait, client
  <2> QED
    BY <2>2, <2>3, <2>5, <2>6 DEF IndexInv, Synchronized
<1>2. CASE Written(r)
  <2>1. cache' \in {"none", "whole", "torn", "mixed"}
    BY <1>2 DEF Written, IndexInv, TypeOK
  <2>2. /\ stage[r] = "writing" /\ SyncEnds(r, "ready")
        /\ UNCHANGED <<checked, manifest, op, client, crashes, disturbed>>
    BY <1>2 DEF Written
  <2>3. disturbed' \in [Req -> BOOLEAN]
    BY <2>2 DEF IndexInv, TypeOK
  <2> QED
    BY <2>1, <2>2, <2>3, SyncEndsKeeps
<1>3. CASE SyncFails(r)
  <2>1. /\ stage[r] # "off" /\ SyncEnds(r, "error")
        /\ UNCHANGED <<cache, checked, manifest, op, client, crashes>>
        /\ disturbed' \in [Req -> BOOLEAN]
    BY <1>3 DEF SyncFails
  <2>2. cache' \in {"none", "whole", "torn", "mixed"}
    BY <2>1 DEF IndexInv, TypeOK
  <2> QED
    BY <2>1, <2>2, SyncEndsKeeps
<1> QED
  BY <1>1, <1>2, <1>3 DEF Synchronize

(* What is asked, and what becomes of the answers. *)
LEMMA AdvanceKeeps == ASSUME IndexInv, NEW r \in Req, Advance(r) PROVE IndexInv'
<1>0. polls \in [Req -> 0..MaxPolls] /\ force \in [Req -> BOOLEAN] /\ (r \in Tab => r \notin Job)
  BY IndexAssumption DEF IndexInv, TypeOK
<1>1. CASE r \in Tab /\ Indexed(r)
  <2>1. /\ at[r] = "answered"
        /\ UNCHANGED <<cache, service, stage, disturbed, crashes>> /\ UNCHANGED force
        /\ polls' = polls \/ polls' = [polls EXCEPT ![r] = 1]
    BY <1>1 DEF Indexed
  <2>2. polls' \in [Req -> 0..MaxPolls]
    BY <1>0, <2>1, IndexAssumption
  <2>3. CASE Ends(r, "failed")
    BY <1>0, <1>1, <2>1, <2>2, <2>3, ClientKeeps DEF Ends, Goes, Ended
  <2>4. CASE Goes(r, "resolve") /\ Sends(r, "resolve")
    BY <1>0, <1>1, <2>1, <2>2, <2>4, ClientKeeps DEF Sends, Goes
  <2>5. CASE Goes(r, "poll") /\ Sends(r, "status")
    BY <1>0, <1>1, <2>1, <2>2, <2>5, ClientKeeps DEF Sends, Goes
  <2> QED
    BY <1>1, <2>3, <2>4, <2>5 DEF Indexed
<1>2. CASE r \in Tab /\ Poll(r)
  <2>1. /\ at[r] = "answered" /\ doing[r] = "poll"
        /\ UNCHANGED <<cache, service, stage, disturbed, crashes>> /\ UNCHANGED force
        /\ \/ polls' = [polls EXCEPT ![r] = 0]
           \/ polls' = [polls EXCEPT ![r] = @ + 1] /\ polls[r] < MaxPolls
    BY <1>2 DEF Poll
  <2>2. polls' \in [Req -> 0..MaxPolls]
    BY <1>0, <2>1, IndexAssumption
  <2>3. CASE Ends(r, "failed")
    BY <1>0, <1>2, <2>1, <2>2, <2>3, ClientKeeps DEF Ends, Goes, Ended
  <2>4. CASE Ends(r, "expired")
    BY <1>0, <1>2, <2>1, <2>2, <2>4, ClientKeeps DEF Ends, Goes, Ended
  <2>5. CASE Goes(r, "resolve") /\ Sends(r, "resolve")
    BY <1>0, <1>2, <2>1, <2>2, <2>5, ClientKeeps DEF Sends, Goes
  <2>6. CASE Sends(r, "status") /\ UNCHANGED doing
    <3>1. doing' = [doing EXCEPT ![r] = "poll"]
      BY <2>1, <2>6 DEF IndexInv, TypeOK
    <3> QED
      BY <1>0, <1>2, <2>1, <2>2, <2>6, <3>1, ClientKeeps DEF Sends
  <2> QED
    BY <1>2, <2>3, <2>4, <2>5, <2>6 DEF Poll
<1>3. CASE Resolved(r)
  <2>1. /\ at[r] = "answered"
        /\ UNCHANGED <<cache, service, stage, disturbed, crashes>>
        /\ UNCHANGED <<force, polls>>
        /\ \E d \in Ended : Ends(r, d)
    BY <1>3 DEF Resolved, Ended
  <2>2. PICK d \in Ended : Ends(r, d)
    BY <2>1
  <2> QED
    BY <1>0, <2>1, <2>2, ClientKeeps DEF Ends, Goes, Ended
<1> QED
  BY <1>1, <1>2, <1>3 DEF Advance

(* A load or a recompute begins; a recompute makes a service of its own, which*)
(* no synchronization runs for.                                               *)
LEMMA BeginKeeps ==
    ASSUME IndexInv, NEW r \in Req, NEW f \in BOOLEAN, Begin(r, f) PROVE IndexInv'
<1>1. /\ at[r] = "quiet" /\ at' = [at EXCEPT ![r] = "arrived"]
      /\ answer' = [answer EXCEPT ![r] = "none"]
      /\ force' = [force EXCEPT ![r] = f] /\ disturbed' = [disturbed EXCEPT ![r] = FALSE]
      /\ UNCHANGED <<cache, stage, synchronizing, polls, crashes>>
  BY DEF Begin, Sends, service
<1>2. \/ /\ r \in Tab /\ r \notin Job /\ UNCHANGED service
         /\ op' = [op EXCEPT ![r] = "index"] /\ doing' = [doing EXCEPT ![r] = "index"]
      \/ /\ r \in Job
         /\ op' = [op EXCEPT ![r] = "recompute"]
         /\ doing' = [doing EXCEPT ![r] = "recompute"]
         /\ checked' = [checked EXCEPT ![r] = FALSE]
         /\ manifest' = [manifest EXCEPT ![r] = FALSE]
         /\ phase' = [phase EXCEPT ![r] = "idle"]
  BY IndexAssumption DEF Begin, Sends, Goes, Req
<1>3. TypeOK'
  <2>1. /\ checked' \in [Service -> BOOLEAN] /\ manifest' \in [Service -> BOOLEAN]
        /\ phase' \in [Service -> Phase]
    <3>1. CASE UNCHANGED <<checked, manifest, phase>>
      BY <3>1 DEF IndexInv, TypeOK
    <3>2. CASE /\ checked' = [checked EXCEPT ![r] = FALSE]
               /\ manifest' = [manifest EXCEPT ![r] = FALSE]
               /\ phase' = [phase EXCEPT ![r] = "idle"]
      <4>1. "idle" \in Phase
        BY DEF Phase
      <4> QED
        BY <3>2, <4>1 DEF IndexInv, TypeOK
    <3> QED
      BY <1>2, <3>1, <3>2 DEF service
  <2>2. /\ op' \in [Req -> {"status", "index", "resolve", "recompute"}]
        /\ doing' \in [Req -> {"idle", "index", "poll", "resolve", "recompute"} \cup Ended]
    BY <1>2 DEF IndexInv, TypeOK
  <2>3. /\ at' \in [Req -> {"quiet", "arrived", "reading", "waiting", "answered"}]
        /\ answer' \in [Req -> Phase \cup {"none", "ok", "unreachable"}]
        /\ force' \in [Req -> BOOLEAN] /\ disturbed' \in [Req -> BOOLEAN]
        /\ \A q \in Req : at'[q] = "waiting" => synchronizing'[ServiceOf(q)]
    BY <1>1 DEF IndexInv, TypeOK
  <2> QED
    BY <1>1, <2>1, <2>2, <2>3 DEF IndexInv, TypeOK
<1>4. AtMostOne' /\ PromiseWhileRunning'
  BY <1>1 DEF IndexInv, Synchronized, AtMostOne, PromiseWhileRunning
<1>5. JobsWait'
  <2> SUFFICES ASSUME NEW j \in Job
               PROVE  /\ op'[j] \in {"status", "recompute"}
                      /\ doing'[j] \notin {"index", "poll", "resolve"}
                      /\ stage'[j] # "off" => at'[j] = "waiting"
    BY DEF JobsWait
  <2>1. j \in Req
    BY ServiceType
  <2>2. CASE j = r
    BY <2>1, <2>2, <1>1, <1>2 DEF IndexInv, TypeOK, Synchronized, JobsWait
  <2>3. CASE j # r
    BY <2>1, <2>3, <1>1, <1>2 DEF IndexInv, TypeOK, Synchronized, JobsWait
  <2> QED
    BY <2>2, <2>3
<1>6. ReadyMeansManifest' /\ WritingHasManifest'
  <2>1. CASE r \in Tab /\ UNCHANGED service
    BY <1>1, <2>1
    DEF IndexInv, Synchronized, ReadyMeansManifest, WritingHasManifest, service
  <2>2. CASE /\ r \in Job /\ manifest' = [manifest EXCEPT ![r] = FALSE]
             /\ phase' = [phase EXCEPT ![r] = "idle"]
    <3>1. ReadyMeansManifest'
      BY <2>2 DEF IndexInv, TypeOK, ReadyMeansManifest
    <3>2. stage[r] = "off"
      BY <1>1, <2>2 DEF IndexInv, Synchronized, JobsWait
    <3>3. ASSUME NEW q \in Req, stage'[q] = "writing" PROVE manifest'[ServiceOf(q)]
      <4>1. q # r /\ stage[q] = "writing"
        BY <1>1, <3>2, <3>3
      <4>2. ServiceOf(q) # r /\ ServiceOf(q) \in Service
        BY <4>1, <2>2, ServiceType
      <4> QED
        BY <4>1, <4>2, <2>2 DEF IndexInv, TypeOK, Synchronized, WritingHasManifest
    <3> QED
      BY <3>1, <3>3 DEF WritingHasManifest
  <2> QED
    BY <1>2, <2>1, <2>2
<1> QED
  BY <1>3, <1>4, <1>5, <1>6 DEF IndexInv, Synchronized

(* A tab is opened. *)
LEMMA VisitKeeps == ASSUME IndexInv, NEW t \in Tab, Visit(t) PROVE IndexInv'
<1>1. /\ at[t] = "quiet" /\ doing[t] = "idle" /\ t \in Req /\ Sends(t, "status")
      /\ UNCHANGED <<cache, service, stage, disturbed, crashes>> /\ UNCHANGED client
  BY ServiceType DEF Visit
<1>2. doing' = [doing EXCEPT ![t] = "idle"]
  BY <1>1 DEF IndexInv, TypeOK, client
<1>3. polls' \in [Req -> 0..MaxPolls] /\ force' \in [Req -> BOOLEAN]
  BY <1>1 DEF IndexInv, TypeOK, client
<1> QED
  BY <1>1, <1>2, <1>3, ClientKeeps DEF Sends

(* A restart forgets every synchronization together with those who wait.      *)
LEMMA CrashKeeps == ASSUME IndexInv, Crash PROVE IndexInv'
<1>1. /\ manifest' = [s \in Service |-> FALSE] /\ phase' = [s \in Service |-> "idle"]
      /\ checked' = [s \in Service |-> FALSE]
      /\ synchronizing' = [s \in Service |-> FALSE]
      /\ stage' = [r \in Req |-> "off"] /\ disturbed' = [r \in Req |-> TRUE]
      /\ cache' = (IF cache = "mixed" THEN "torn" ELSE cache)
      /\ crashes < MaxCrashes /\ crashes' = crashes + 1
      /\ UNCHANGED <<op, client>>
  BY DEF Crash
<1>2. /\ at' \in [Req -> {"quiet", "arrived", "reading", "waiting", "answered"}]
      /\ answer' \in [Req -> Phase \cup {"none", "ok", "unreachable"}]
      /\ \A r \in Req : at'[r] # "waiting"
  BY DEF Crash, IndexInv, TypeOK
<1>3. crashes' \in 0..MaxCrashes
  BY <1>1, IndexAssumption DEF IndexInv, TypeOK
<1>4. TypeOK'
  BY <1>1, <1>2, <1>3 DEF IndexInv, TypeOK, Phase, client
<1>5. ReadyMeansManifest' /\ AtMostOne' /\ PromiseWhileRunning' /\ WritingHasManifest'
  BY <1>1 DEF ReadyMeansManifest, AtMostOne, PromiseWhileRunning, WritingHasManifest
<1>6. JobsWait'
  BY <1>1, ServiceType DEF IndexInv, Synchronized, JobsWait, client
<1> QED
  BY <1>4, <1>5, <1>6 DEF IndexInv, Synchronized

(* Every step of the system. *)
LEMMA IndexStep == IndexInv /\ [Next]_vars => IndexInv'
<1> SUFFICES ASSUME IndexInv, [Next]_vars PROVE IndexInv'
  OBVIOUS
<1>1. ASSUME NEW r \in Req, Handle(r) \/ Synchronize(r) \/ Advance(r) PROVE IndexInv'
  BY <1>1, HandleKeeps, SynchronizeKeeps, AdvanceKeeps
<1>2. ASSUME NEW r \in Req, NEW f \in BOOLEAN, Begin(r, f) PROVE IndexInv'
  BY <1>2, BeginKeeps
<1>3. ASSUME NEW t \in Tab, Visit(t) PROVE IndexInv'
  BY <1>3, VisitKeeps
<1>4. CASE Crash
  BY <1>4, CrashKeeps
<1>5. CASE UNCHANGED vars
  BY <1>5
  DEF vars, service, client, IndexInv, TypeOK, ReadyMeansManifest, Synchronized,
      AtMostOne, PromiseWhileRunning, WritingHasManifest, JobsWait
<1> QED
  BY <1>1, <1>2, <1>3, <1>4, <1>5 DEF Next

-----------------------------------------------------------------------------
(* The theorems. *)

(* The invariant behind them holds in every reachable state. *)
THEOREM IndexInvariant == Spec => []IndexInv
BY IndexInit, IndexStep, PTL DEF Spec

(* Every variable keeps its type, and a handler waits only for a              *)
(* synchronization that is running.                                           *)
THEOREM IndexTypes == Spec => []TypeOK
<1>1. IndexInv => TypeOK
  BY DEF IndexInv
<1> QED
  BY <1>1, IndexInvariant, PTL

(* resolve never reads a manifest that is not there. *)
THEOREM ManifestWhenReady == Spec => []ReadyMeansManifest
<1>1. IndexInv => ReadyMeansManifest
  BY DEF IndexInv
<1> QED
  BY <1>1, IndexInvariant, PTL

(* No service ever runs two synchronizations, or forgets one that runs. *)
THEOREM OneSynchronizationAtATime == Spec => []OneSynchronization
<1>1. IndexInv => OneSynchronization
  BY OneSynchronizationFollows DEF IndexInv, Synchronized
<1> QED
  BY <1>1, IndexInvariant, PTL

-----------------------------------------------------------------------------
(* Why a load fails. *)

(* The handler a client asks for follows from where it is.                    *)
OpOf(d) == CASE d = "index" -> "index" [] d = "resolve" -> "resolve"
             [] d = "recompute" -> "recompute" [] OTHER -> "status"
(* So what waits for a synchronization is a resolve or a recompute.           *)
OpsMatch ==
    \A r \in Req : /\ op[r] = OpOf(doing[r])
                   /\ at[r] = "waiting" => doing[r] \in {"resolve", "recompute"}

Sound == {"synchronizing", "ready"}
(* A service says it synchronizes only while it does, and while it does it    *)
(* never says it is idle or has failed.                                       *)
PhasesTrue ==
    \A s \in Service : /\ phase[s] = "synchronizing" => synchronizing[s]
                       /\ synchronizing[s] => phase[s] \in Sound

(* A load that asked for a refresh, or a recompute, that nothing has failed   *)
(* since it began.                                                            *)
Concerned(r) == ~disturbed[r] /\ (force[r] \/ r \in Job)
(* A tab's load that was told what became of its request for the index.       *)
Asked(r) == doing[r] = "index" /\ at[r] = "answered"
(* It has been told of a manifest or a synchronization, the service has the   *)
(* one or runs the other ever since, and so it is told of no error. A         *)
(* recompute has a new service, without a manifest until it has read the      *)
(* cache.                                                                     *)
Promised(r) ==
    /\ Asked(r) \/ (doing[r] = "poll" /\ at[r] = "answered") => answer[r] \in Sound
    /\ Asked(r) \/ doing[r] \in {"poll", "resolve"} => phase[ServiceOf(r)] \in Sound
    /\ doing[r] \in {"resolve", "recompute"} /\ at[r] = "answered" => answer[r] = "ok"
    /\ r \in Job /\ doing[r] = "recompute" /\ at[r] \in {"arrived", "reading"} => ~manifest[r]
    /\ doing[r] # "failed"
Promises == \A r \in Req : Concerned(r) => Promised(r)

Reasons == OpsMatch /\ PhasesTrue /\ Promises

(* What one request does breaks no promise to another, as long as its service *)
(* does not go back on its phase.                                             *)
LEMMA OthersPromised ==
    ASSUME NEW q \in Req, Promised(q), at'[q] = at[q], answer'[q] = answer[q], doing'[q] = doing[q],
           phase[ServiceOf(q)] \in Sound => phase'[ServiceOf(q)] \in Sound,
           q \in Job => manifest'[q] = manifest[q]
    PROVE  Promised(q)'
BY DEF Promised, Asked

(* As long as nothing happens.                                                *)
LEMMA StillPromised ==
    ASSUME Promises, UNCHANGED <<manifest, phase, at, answer, doing, force, disturbed>>
    PROVE  Promises'
BY DEF Promises, Concerned, Promised, Asked

(* At first nothing is promised.                                              *)
LEMMA ReasonsInit == Init => Reasons
BY DEF Init, Reasons, OpsMatch, OpOf, PhasesTrue, Promises, Promised, Asked

(* A handler that goes on after loadCache: a load that asked to refresh finds *)
(* a synchronization or starts one; a resolve finds a manifest or waits.      *)
LEMMA ContinueReasons ==
    ASSUME IndexInv, Reasons, NEW r \in Req, NEW m \in BOOLEAN, NEW p \in Phase,
           at[r] \in {"arrived", "reading"},
           (m = manifest[ServiceOf(r)] /\ p = phase[ServiceOf(r)]) \/ (m = TRUE /\ p = "ready"),
           Continue(r, m, p), UNCHANGED <<op, client, disturbed>>
    PROVE  Reasons'
<1> DEFINE s == ServiceOf(r)
           starts == op[r] \in {"index", "recompute"} /\ Synchronizes(r, m)
           waits == op[r] \in {"resolve", "recompute"} /\ (starts \/ synchronizing[s])
<1>1. /\ s \in Service /\ starts \in BOOLEAN
      /\ manifest \in [Service -> BOOLEAN] /\ phase \in [Service -> Phase]
      /\ synchronizing \in [Service -> BOOLEAN] /\ DOMAIN at = Req /\ DOMAIN answer = Req
      /\ DOMAIN doing = Req
  BY ServiceType DEF IndexInv, TypeOK
<1>2. /\ manifest' = [manifest EXCEPT ![s] = m]
      /\ phase'[s] = IF starts THEN "synchronizing" ELSE p
      /\ \A u \in Service \ {s} : phase'[u] = phase[u]
      /\ synchronizing'[s] = (synchronizing[s] \/ starts)
      /\ \A u \in Service \ {s} : synchronizing'[u] = synchronizing[u]
  BY <1>1 DEF Continue
<1>3. /\ waits => at' = [at EXCEPT ![r] = "waiting"] /\ UNCHANGED answer
      /\ ~waits => Answers(r, IF op[r] \in {"status", "index"} THEN phase'[s] ELSE Outcome(p))
  BY DEF Continue
<1>4. \A q \in Req \ {r} : at'[q] = at[q] /\ answer'[q] = answer[q]
  BY <1>1, <1>3 DEF Answers
<1>5. /\ op[r] = OpOf(doing[r]) /\ OpsMatch
      /\ phase[s] = "synchronizing" => synchronizing[s]
      /\ synchronizing[s] => phase[s] \in Sound
      /\ p \in Sound \/ p = phase[s]
  BY <1>1 DEF Reasons, OpsMatch, PhasesTrue, Sound
<1>6. waits => doing[r] \in {"resolve", "recompute"}
  BY <1>5 DEF OpOf
<1>7. OpsMatch'
  BY <1>1, <1>3, <1>4, <1>5, <1>6 DEF OpsMatch, Answers, client
<1>8. PhasesTrue'
  <2> SUFFICES ASSUME NEW u \in Service
               PROVE  /\ phase'[u] = "synchronizing" => synchronizing'[u]
                      /\ synchronizing'[u] => phase'[u] \in Sound
    BY DEF PhasesTrue
  <2>1. CASE u = s
    BY <2>1, <1>2, <1>5 DEF Sound
  <2>2. CASE u # s
    BY <2>2, <1>2 DEF Reasons, PhasesTrue
  <2> QED
    BY <2>1, <2>2
<1>9. ASSUME NEW q \in Req, Concerned(q)' PROVE Promised(q)'
  <2>1. Concerned(q) /\ Promised(q) /\ doing' = doing
    BY <1>9 DEF Reasons, Promises, Concerned, client
  <2>2. CASE q # r
    <3>1. phase[ServiceOf(q)] \in Sound => phase'[ServiceOf(q)] \in Sound
      BY <1>2, <1>5, ServiceType DEF Sound
    <3>2. q \in Job => manifest'[q] = manifest[q]
      BY <2>2, <1>1, <1>2, ServiceType DEF Service
    <3> QED
      BY <2>1, <2>2, <3>1, <3>2, <1>4, OthersPromised
  <2>3. CASE q = r /\ waits
    <3>1. at'[r] = "waiting" /\ phase'[s] \in Sound /\ doing[r] \in {"resolve", "recompute"}
      BY <2>3, <1>1, <1>2, <1>3, <1>5, <1>6 DEF Sound
    <3> QED
      BY <2>1, <2>3, <3>1 DEF Promised, Asked
  <2>4. CASE q = r /\ ~waits
    <3> DEFINE a == IF op[r] \in {"status", "index"} THEN phase'[s] ELSE Outcome(p)
    <3>1. Answers(r, a)
      BY <2>4, <1>3
    <3> HIDE DEF a
    <3>2. CASE doing[r] = "idle"
      BY <2>1, <2>4, <3>2 DEF Promised, Asked
    <3>3. CASE doing[r] # "idle"
      <4>1. at'[r] = "answered" /\ answer'[r] = a
        BY <3>1, <3>3, <1>1 DEF Answers
      <4>2. CASE doing[r] = "index"
        <5>1. op[r] = "index" /\ r \notin Job /\ force[r]
          BY <4>2, <1>5, <2>1, <2>4 DEF OpOf, IndexInv, Synchronized, JobsWait, Concerned
        <5>2. starts \/ synchronizing[s]
          BY <5>1 DEF Synchronizes
        <5>3. phase'[s] \in Sound
          BY <5>2, <1>2, <1>5 DEF Sound
        <5> QED
          BY <2>1, <2>4, <4>1, <4>2, <5>1, <5>3 DEF a, Promised, Asked
      <4>3. CASE doing[r] = "poll"
        <5>1. op[r] = "status" /\ phase[s] \in Sound
          BY <4>3, <1>5, <2>1, <2>4 DEF OpOf, Promised
        <5>2. phase'[s] \in Sound
          BY <5>1, <1>2, <1>5 DEF Sound
        <5> QED
          BY <2>1, <2>4, <4>1, <4>3, <5>1, <5>2 DEF a, Promised, Asked
      <4>4. CASE doing[r] = "resolve"
        <5>1. op[r] = "resolve" /\ phase[s] \in Sound
          BY <4>4, <1>5, <2>1, <2>4 DEF OpOf, Promised
        <5>2. p = "ready" /\ phase'[s] = p
          BY <2>4, <5>1, <1>2, <1>5 DEF Sound
        <5> QED
          BY <2>1, <2>4, <4>1, <4>4, <5>1, <5>2 DEF a, Promised, Asked, Outcome, Sound
      <4>5. CASE doing[r] = "recompute"
        <5>1. op[r] = "recompute" /\ ~starts /\ ~synchronizing[s]
          BY <2>4, <4>5, <1>5 DEF OpOf
        <5>2. m /\ ~force[r]
          BY <5>1, <1>1 DEF Synchronizes, IndexInv, TypeOK
        <5>3. r \in Job /\ ~manifest[s]
          BY <2>1, <2>4, <4>5, <5>2, ServiceType DEF Concerned, Promised
        <5>4. p = "ready"
          BY <5>2, <5>3
        <5> QED
          BY <2>1, <2>4, <4>1, <4>5, <5>1, <5>4 DEF a, Promised, Asked, Outcome
      <4> QED
        BY <2>1, <2>4, <4>2, <4>3, <4>4, <4>5 DEF Promised, Asked
    <3> QED
      BY <3>2, <3>3
  <2> QED
    BY <2>2, <2>3, <2>4
<1> QED
  BY <1>7, <1>8, <1>9 DEF Reasons, Promises

(* The handlers.                                                              *)
LEMMA HandleReasons == ASSUME IndexInv, Reasons, NEW r \in Req, Handle(r) PROVE Reasons'
<1> DEFINE s == ServiceOf(r)
<1>0. s \in Service /\ manifest[s] \in BOOLEAN /\ phase[s] \in Phase /\ "ready" \in Phase
  BY ServiceType DEF IndexInv, TypeOK, Phase
<1>1. CASE Arrive(r) /\ checked[s]
  <2>1. /\ at[r] = "arrived" /\ Continue(r, manifest[s], phase[s])
        /\ UNCHANGED <<op, client, disturbed>>
    BY <1>1 DEF Arrive
  <2> QED
    BY <1>0, <2>1, ContinueReasons
<1>2. CASE Arrive(r) /\ ~checked[s]
  <2>1. /\ at[r] = "arrived" /\ at' = [at EXCEPT ![r] = "reading"]
        /\ UNCHANGED <<manifest, phase, synchronizing, answer, op, client, disturbed>>
    BY <1>2 DEF Arrive
  <2>2. OpsMatch' /\ PhasesTrue'
    BY <2>1 DEF Reasons, OpsMatch, PhasesTrue, client, IndexInv, TypeOK
  <2>3. Promises'
    BY <2>1 DEF Reasons, Promises, Concerned, Promised, Asked, client, IndexInv, TypeOK
  <2> QED
    BY <2>2, <2>3 DEF Reasons
<1>3. CASE Read(r)
  <2>1. /\ at[r] = "reading" /\ UNCHANGED <<op, client, disturbed>>
        /\ Continue(r, TRUE, "ready") \/ Continue(r, manifest[s], phase[s])
    BY <1>3 DEF Read
  <2>2. CASE Continue(r, TRUE, "ready")
    BY <1>0, <2>1, <2>2, ContinueReasons
  <2>3. CASE Continue(r, manifest[s], phase[s])
    BY <1>0, <2>1, <2>3, ContinueReasons
  <2> QED
    BY <2>1, <2>2, <2>3
<1> QED
  BY <1>1, <1>2, <1>3 DEF Handle

(* A synchronization that ends well keeps its promise; one that fails is a    *)
(* reason.                                                                    *)
LEMMA SynchronizeReasons ==
    ASSUME IndexInv, Reasons, NEW r \in Req, Synchronize(r)
    PROVE  Reasons'
<1> DEFINE s == ServiceOf(r)
<1>1. CASE Listed(r)
  <2>1. /\ stage[r] # "off" /\ manifest' = [manifest EXCEPT ![s] = TRUE]
        /\ UNCHANGED <<phase, synchronizing, at, op, answer, client, disturbed>>
    BY <1>1 DEF Listed
  <2>2. OpsMatch' /\ PhasesTrue'
    BY <2>1 DEF Reasons, OpsMatch, PhasesTrue, client
  <2>3. ASSUME NEW q \in Req, Concerned(q)' PROVE Promised(q)'
    <3>1. Promised(q) /\ UNCHANGED <<phase, at, answer, doing>>
      BY <2>1, <2>3 DEF Reasons, Promises, Concerned, client
    <3>2. q \in Job /\ q # r => manifest'[q] = manifest[q]
      BY <2>1, ServiceType DEF IndexInv, TypeOK, Service
    <3>3. q \in Job /\ q = r => at[q] = "waiting"
      BY <2>1 DEF IndexInv, Synchronized, JobsWait
    <3> QED
      BY <3>1, <3>2, <3>3 DEF Promised, Asked
  <2> QED
    BY <2>2, <2>3 DEF Reasons, Promises
<1>2. ASSUME NEW p \in {"ready", "error"}, SyncEnds(r, p), UNCHANGED <<op, client>>
      PROVE  OpsMatch' /\ PhasesTrue'
  <2>1. /\ phase' = [phase EXCEPT ![s] = p] /\ synchronizing' = [synchronizing EXCEPT ![s] = FALSE]
        /\ \A q \in Req : at'[q] = "waiting" => at[q] = "waiting"
    BY <1>2 DEF SyncEnds
  <2> QED
    BY <1>2, <2>1 DEF Reasons, OpsMatch, PhasesTrue, client, IndexInv, TypeOK, Sound
<1>3. CASE Written(r)
  <2>1. /\ SyncEnds(r, "ready") /\ UNCHANGED <<manifest, op, client, disturbed>>
    BY <1>3 DEF Written
  <2>2. ASSUME NEW q \in Req, Concerned(q)' PROVE Promised(q)'
    <3>1. Promised(q) /\ UNCHANGED <<manifest, doing>>
      BY <2>1, <2>2 DEF Reasons, Promises, Concerned, client
    <3>2. phase' = [phase EXCEPT ![s] = "ready"] /\ "ready" \in Sound
      BY <2>1 DEF SyncEnds, Sound
    <3>3. phase[ServiceOf(q)] \in Sound => phase'[ServiceOf(q)] \in Sound
      BY <3>2 DEF IndexInv, TypeOK
    <3>4. CASE at'[q] = at[q] /\ answer'[q] = answer[q]
      BY <3>1, <3>3, <3>4, OthersPromised
    <3>5. CASE at[q] = "waiting" /\ at'[q] = "answered" /\ answer'[q] = "ok"
      <4>1. doing[q] \in {"resolve", "recompute"}
        BY <3>5 DEF Reasons, OpsMatch
      <4> QED
        BY <3>1, <3>3, <3>5, <4>1 DEF Promised, Asked
    <3> QED
      BY <2>1, <3>4, <3>5 DEF SyncEnds, Outcome
  <2> QED
    BY <1>2, <2>1, <2>2 DEF Reasons, Promises
<1>4. CASE SyncFails(r)
  <2>1. SyncEnds(r, "error") /\ UNCHANGED <<op, client>> /\ \A q \in Req : disturbed'[q]
    BY <1>4 DEF SyncFails
  <2> QED
    BY <1>2, <2>1 DEF Reasons, Promises, Concerned
<1> QED
  BY <1>1, <1>3, <1>4 DEF Synchronize

(* The steps of a client that leave the services alone.                       *)
LEMMA ClientReasons ==
    ASSUME IndexInv, Reasons, NEW r \in Req, UNCHANGED <<service, force, disturbed>>,
           NEW where \in {"quiet", "arrived"}, at' = [at EXCEPT ![r] = where],
           NEW d, op' = [op EXCEPT ![r] = OpOf(d)], doing' = [doing EXCEPT ![r] = d],
           answer' = [answer EXCEPT ![r] = "none"],
           d # "recompute",
           Concerned(r) /\ d \in {"poll", "resolve"} => phase[ServiceOf(r)] \in Sound,
           Concerned(r) => d # "failed"
    PROVE  Reasons'
<1>1. OpsMatch' /\ PhasesTrue'
  BY DEF Reasons, OpsMatch, PhasesTrue, service, IndexInv, TypeOK
<1>2. ASSUME NEW q \in Req, Concerned(q)' PROVE Promised(q)'
  <2>1. Concerned(q) /\ Promised(q) /\ UNCHANGED <<manifest, phase>>
    BY <1>2 DEF Reasons, Promises, Concerned, service
  <2>2. CASE q # r
    <3>1. at'[q] = at[q] /\ answer'[q] = answer[q] /\ doing'[q] = doing[q]
      BY <2>2 DEF IndexInv, TypeOK
    <3> QED
      BY <2>1, <3>1, OthersPromised
  <2>3. CASE q = r
    <3>1. at'[r] = where /\ doing'[r] = d
      BY DEF IndexInv, TypeOK
    <3> QED
      BY <2>1, <2>3, <3>1 DEF Promised, Asked
  <2> QED
    BY <2>2, <2>3
<1> QED
  BY <1>1, <1>2 DEF Reasons, Promises

(* The answers: an error is none a promise was made about.                    *)
LEMMA AdvanceReasons == ASSUME IndexInv, Reasons, NEW r \in Req, Advance(r) PROVE Reasons'
<1>0. /\ Concerned(r) => Promised(r) /\ at[r] = "answered"
      /\ UNCHANGED <<service, force, disturbed>>
  BY DEF Reasons, Promises, Advance, Indexed, Poll, Resolved
<1>1. CASE Indexed(r)
  <2>1. Concerned(r) => answer[r] \in Sound /\ phase[ServiceOf(r)] \in Sound
    BY <1>0, <1>1 DEF Indexed, Promised, Asked
  <2>2. CASE answer[r] = "unreachable" /\ Ends(r, "failed")
    BY <1>0, <2>1, <2>2, ClientReasons DEF Ends, Goes, OpOf, Sound
  <2>3. CASE Goes(r, "resolve") /\ Sends(r, "resolve")
    BY <1>0, <2>1, <2>3, ClientReasons DEF Sends, Goes, OpOf
  <2>4. CASE Goes(r, "poll") /\ Sends(r, "status")
    BY <1>0, <2>1, <2>4, ClientReasons DEF Sends, Goes, OpOf
  <2> QED
    BY <1>1, <2>2, <2>3, <2>4 DEF Indexed
<1>2. CASE Poll(r)
  <2>1. doing[r] = "poll" /\ (Concerned(r) => answer[r] \in Sound /\ phase[ServiceOf(r)] \in Sound)
    BY <1>0, <1>2 DEF Poll, Promised
  <2>2. CASE answer[r] = "error" /\ Ends(r, "failed")
    BY <1>0, <2>1, <2>2, ClientReasons DEF Ends, Goes, OpOf, Sound
  <2>3. CASE Ends(r, "expired")
    BY <1>0, <2>1, <2>3, ClientReasons DEF Ends, Goes, OpOf
  <2>4. CASE Goes(r, "resolve") /\ Sends(r, "resolve")
    BY <1>0, <2>1, <2>4, ClientReasons DEF Sends, Goes, OpOf
  <2>5. CASE Sends(r, "status") /\ UNCHANGED doing
    <3>1. doing' = [doing EXCEPT ![r] = "poll"]
      BY <2>1, <2>5 DEF IndexInv, TypeOK
    <3> QED
      BY <1>0, <2>1, <2>5, <3>1, ClientReasons DEF Sends, OpOf
  <2> QED
    BY <1>2, <2>2, <2>3, <2>4, <2>5 DEF Poll
<1>3. CASE Resolved(r)
  <2>1. Concerned(r) => answer[r] = "ok"
    BY <1>0, <1>3 DEF Resolved, Promised
  <2>2. CASE answer[r] = "ok" /\ Ends(r, "done")
    BY <1>0, <2>2, ClientReasons DEF Ends, Goes, OpOf
  <2>3. CASE answer[r] # "ok" /\ Ends(r, "failed")
    BY <1>0, <2>1, <2>3, ClientReasons DEF Ends, Goes, OpOf
  <2> QED
    BY <1>3, <2>2, <2>3 DEF Resolved
<1> QED
  BY <1>1, <1>2, <1>3 DEF Advance

(* A load or a recompute begins with nothing promised.                        *)
LEMMA BeginReasons ==
    ASSUME IndexInv, Reasons, NEW r \in Req, NEW f \in BOOLEAN, Begin(r, f) PROVE Reasons'
<1>1. /\ at[r] = "quiet" /\ at' = [at EXCEPT ![r] = "arrived"]
      /\ answer' = [answer EXCEPT ![r] = "none"] /\ synchronizing' = synchronizing
      /\ force' = [force EXCEPT ![r] = f] /\ disturbed' = [disturbed EXCEPT ![r] = FALSE]
      /\ DOMAIN at = Req /\ DOMAIN answer = Req /\ DOMAIN doing = Req /\ DOMAIN op = Req
      /\ DOMAIN manifest = Service /\ DOMAIN phase = Service
      /\ DOMAIN force = Req /\ DOMAIN disturbed = Req
  BY DEF Begin, Sends, service, IndexInv, TypeOK
<1>2. \/ /\ r \in Tab /\ r \notin Job /\ UNCHANGED <<manifest, phase>>
         /\ op' = [op EXCEPT ![r] = "index"] /\ doing' = [doing EXCEPT ![r] = "index"]
      \/ /\ r \in Job
         /\ op' = [op EXCEPT ![r] = "recompute"]
         /\ doing' = [doing EXCEPT ![r] = "recompute"]
         /\ manifest' = [manifest EXCEPT ![r] = FALSE]
         /\ phase' = [phase EXCEPT ![r] = "idle"]
  BY IndexAssumption DEF Begin, Sends, Goes, Req, service
<1>3. OpsMatch'
  BY <1>1, <1>2 DEF Reasons, OpsMatch, OpOf
<1>4. PhasesTrue'
  <2>1. r \in Job => stage[r] = "off" /\ r \in Service /\ ServiceOf(r) = r
    BY <1>1, ServiceType DEF IndexInv, Synchronized, JobsWait
  <2>2. r \in Job => ~synchronizing[r]
    BY <2>1, ServiceType DEF IndexInv, Synchronized, PromiseWhileRunning
  <2> QED
    BY <1>1, <1>2, <2>2 DEF Reasons, PhasesTrue
<1>5. ASSUME NEW q \in Req, Concerned(q)' PROVE Promised(q)'
  <2>1. CASE q # r
    <3>1. /\ at'[q] = at[q] /\ answer'[q] = answer[q] /\ doing'[q] = doing[q]
          /\ Concerned(q) /\ Promised(q)
      BY <1>1, <1>2, <1>5, <2>1 DEF Concerned, Reasons, Promises
    <3>2. /\ phase'[ServiceOf(q)] = phase[ServiceOf(q)]
          /\ q \in Job => manifest'[q] = manifest[q]
      BY <1>1, <1>2, <2>1, ServiceType DEF Service
    <3> QED
      BY <3>1, <3>2, OthersPromised
  <2>2. CASE q = r
    <3>1. /\ at'[r] = "arrived" /\ doing'[r] \in {"index", "recompute"}
          /\ r \in Job => manifest'[r] = FALSE
      BY <1>1, <1>2, ServiceType DEF Service
    <3> QED
      BY <2>2, <3>1 DEF Promised, Asked
  <2> QED
    BY <2>1, <2>2
<1> QED
  BY <1>3, <1>4, <1>5 DEF Reasons, Promises

(* Every step of the system.                                                  *)
LEMMA ReasonsStep == IndexInv /\ Reasons /\ [Next]_vars => Reasons'
<1> SUFFICES ASSUME IndexInv, Reasons, [Next]_vars PROVE Reasons'
  OBVIOUS
<1>1. ASSUME NEW t \in Tab, Visit(t) PROVE Reasons'
  <2>1. /\ doing[t] = "idle" /\ t \in Req /\ Sends(t, "status")
        /\ UNCHANGED <<service, force, disturbed, doing>>
    BY <1>1, ServiceType DEF Visit, client
  <2>2. doing' = [doing EXCEPT ![t] = "idle"]
    BY <2>1 DEF IndexInv, TypeOK
  <2> QED
    BY <2>1, <2>2, ClientReasons DEF Sends, OpOf
<1>2. CASE Crash
  <2>1. /\ \A r \in Req : disturbed'[r] /\ at'[r] # "waiting"
        /\ \A s \in Service : phase'[s] = "idle" /\ ~synchronizing'[s]
        /\ UNCHANGED <<op, doing>>
    BY <1>2 DEF Crash, client, IndexInv, TypeOK
  <2> QED
    BY <2>1 DEF Reasons, OpsMatch, PhasesTrue, Promises, Concerned
<1>3. CASE UNCHANGED vars
  BY <1>3, StillPromised DEF vars, service, client, Reasons, OpsMatch, PhasesTrue
<1> QED
  BY <1>1, <1>2, <1>3, HandleReasons, SynchronizeReasons, AdvanceReasons, BeginReasons DEF Next

(* Refresh works after any failure: a load that asked for one, and a recompute,*)
(* fail only if something failed since they began.                            *)
THEOREM LoadsFailForAReason == Spec => []FailsForAReason
<1>1. Reasons => FailsForAReason
  BY DEF Reasons, Promises, Concerned, Promised, FailsForAReason
<1> QED
  BY ReasonsInit, ReasonsStep, IndexInvariant, <1>1, PTL DEF Spec
=============================================================================
