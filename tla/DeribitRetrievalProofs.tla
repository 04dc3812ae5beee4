----------------------- MODULE DeribitRetrievalProofs -----------------------
(* Theorems about DeribitRetrieval, for any calls, jobs, pools, pages and     *)
(* attempts.                                                                  *)
EXTENDS DeribitRetrieval, FiniteSetTheorems, TLAPS

-----------------------------------------------------------------------------
(* The inductive invariant. *)

Shapes == /\ DOMAIN cursor = Resolve /\ DOMAIN worker = Resolve
          /\ DOMAIN files = Resolve /\ DOMAIN failures = Resolve

(* What a worker knows of its window the tape held at some moment since it    *)
(* took the job.                                                              *)
Observed(me) ==
    me.at # "free" =>
      /\ me.began <= tape[me.name]
      /\ me.first # Unknown => me.first = 1 \/ (me.first = 0 /\ me.began = 0)
      /\ me.last # Unknown => me.began <= me.last /\ me.last <= tape[me.name]
      /\ me.at = "asking" => me.got = {}
      /\ me.at = "paging" => /\ me.first = 1 /\ me.last \in 1..MaxTrades
                             /\ me.got \subseteq 1..me.last

Observing == \A r \in Resolve : \A w \in Pool(r) : Observed(worker[r][w])

(* A job taken is with exactly one worker, or retrieved, or has failed.       *)
Taken(r) == {Jobs[r][i] : i \in 1..cursor[r]}
Busy(r, w) == worker[r][w].at # "free"
Settled(r) == DOMAIN files[r] \union failures[r]

Accounted(r) ==
    /\ Settled(r) \subseteq Taken(r)
    /\ DOMAIN files[r] \intersect failures[r] = {}
    /\ \A n \in Taken(r) \ Settled(r) : \E w \in Pool(r) : Busy(r, w) /\ worker[r][w].name = n
    /\ \A w \in Pool(r) : Busy(r, w) => worker[r][w].name \in Taken(r) \ Settled(r)
    /\ \A v, w \in Pool(r) :
         Busy(r, v) /\ Busy(r, w) /\ worker[r][v].name = worker[r][w].name => v = w

Staged(r) ==
    /\ stage[r] = "idle" => cursor[r] = 0
    /\ stage[r] \in {"prices", "answered"} => /\ cursor[r] = Len(Jobs[r])
                                              /\ \A w \in Pool(r) : ~Busy(r, w)

RetrievalInv == /\ Shapes /\ RetrievalTypes /\ Observing
                /\ \A r \in Resolve : Accounted(r) /\ Staged(r)

-----------------------------------------------------------------------------
(* Lemmas about the constants and the operators. *)

(* The smaller of two numbers.                                              *)
LEMMA MinOfTwo == \A x, y \in Int : Min({x, y}) = IF x <= y THEN x ELSE y
<1> SUFFICES ASSUME NEW x \in Int, NEW y \in Int PROVE Min({x, y}) = IF x <= y THEN x ELSE y
  OBVIOUS
<1> DEFINE m == IF x <= y THEN x ELSE y
<1>1. m \in {x, y} /\ \A z \in {x, y} : m <= z
  OBVIOUS
<1>2. \A k \in {x, y} : (\A z \in {x, y} : k <= z) => k = m
  OBVIOUS
<1> QED
  BY <1>1, <1>2 DEF Min

(* The jobs of a resolve are distinct names, in a sequence.                 *)
LEMMA JobsType ==
    ASSUME NEW r \in Resolve
    PROVE  /\ Len(Jobs[r]) \in Nat /\ DOMAIN Jobs[r] = 1..Len(Jobs[r])
           /\ \A i \in 1..Len(Jobs[r]) : Jobs[r][i] \in Name
           /\ Range(Jobs[r]) = {Jobs[r][i] : i \in 1..Len(Jobs[r])}
           /\ \A i, j \in 1..Len(Jobs[r]) : Jobs[r][i] = Jobs[r][j] => i = j
<1>1. Jobs[r] \in Seq(Name)
  BY RetrievalAssumption
<1>2. DOMAIN Jobs[r] = 1..Len(Jobs[r]) /\ Len(Jobs[r]) \in Nat
  BY <1>1
<1>3. \A i \in 1..Len(Jobs[r]) : Jobs[r][i] \in Name
  BY <1>1
<1>4. Range(Jobs[r]) = {Jobs[r][i] : i \in 1..Len(Jobs[r])}
  BY <1>2 DEF Range
<1> QED
  BY <1>2, <1>3, <1>4, RetrievalAssumption

(* The pool has a worker for every job up to its size.                        *)
LEMMA PoolType ==
    ASSUME NEW r \in Resolve
    PROVE  /\ Cardinality(Pool(r)) \in 0..Len(Jobs[r])
           /\ Pool(r) = 1..Cardinality(Pool(r))
<1> DEFINE k == Min({Concurrency, Len(Jobs[r])})
<1>1. k \in Nat /\ k <= Len(Jobs[r])
  <2>1. Len(Jobs[r]) \in Nat /\ Concurrency \in Nat
    BY JobsType, RetrievalAssumption
  <2>2. k = IF Concurrency <= Len(Jobs[r]) THEN Concurrency ELSE Len(Jobs[r])
    BY <2>1, MinOfTwo
  <2> HIDE DEF k
  <2> QED
    BY <2>1, <2>2
<1>2. Cardinality(1..k) = k
  BY <1>1, FS_Interval
<1> QED
  BY <1>1, <1>2 DEF Pool

(* A free worker and one that has just taken a job are worker states.       *)
LEMMA FreeType ==
    ASSUME NEW n \in Name, tape[n] \in 0..MaxTrades
    PROVE  /\ Free \in WorkerState /\ Free.at = "free"
           /\ Asking(n) \in WorkerState /\ Observed(Asking(n))
           /\ Asking(n).at = "asking" /\ Asking(n).name = n
<1> DEFINE someone == CHOOSE m \in Name : TRUE
           none == [q \in {"first", "last", "page"} |-> 0]
<1>1. someone \in Name
  OBVIOUS
<1>2. none \in [{"first", "last", "page"} -> 0..(MaxAttempts - 1)]
  BY RetrievalAssumption
<1>3. Free = [at |-> "free", name |-> someone, began |-> 0, first |-> Unknown, last |-> Unknown,
              from |-> 1, got |-> {}, tries |-> none]
  BY DEF Free
<1>4. Unknown \in 0..Unknown /\ 1 \in 1..(MaxTrades + PageSize + 1) /\ 0 \in 0..MaxTrades
  BY RetrievalAssumption DEF Unknown
<1> HIDE DEF someone, none
<1>5. Free \in WorkerState
  BY <1>1, <1>2, <1>3, <1>4 DEF WorkerState
<1>6. Asking(n) \in WorkerState /\ Asking(n).at = "asking" /\ Asking(n).name = n
  BY <1>5 DEF WorkerState, Asking
<1>7. /\ Asking(n).began = tape[n] /\ Asking(n).got = {}
      /\ Asking(n).first = Unknown /\ Asking(n).last = Unknown
  BY <1>3, <1>5 DEF WorkerState, Asking
<1>8. Observed(Asking(n))
  BY <1>6, <1>7 DEF Observed
<1> QED
  BY <1>3, <1>5, <1>6, <1>8

(* Attempts counted are attempts. *)
LEMMA TriesType ==
    ASSUME NEW me \in WorkerState, NEW q \in {"first", "last", "page"}, NEW k \in 0..(MaxAttempts - 1)
    PROVE  [me.tries EXCEPT ![q] = k] \in [{"first", "last", "page"} -> 0..(MaxAttempts - 1)]
BY DEF WorkerState

-----------------------------------------------------------------------------
(* What a step of a worker comes to: a job taken, more known of its window,   *)
(* its range kept, or its failure recorded.                                   *)
Advances(r, w, me) ==
    /\ Busy(r, w) /\ me.at # "free" /\ me.name = worker[r][w].name
    /\ worker' = [worker EXCEPT ![r][w] = me]
    /\ UNCHANGED <<tape, cache, cursor, files, failures, stage>>
Keeps(r, w, rows) ==
    /\ Busy(r, w) /\ \E k \in worker[r][w].began..tape[worker[r][w].name] : rows = 1..k
    /\ Keep(r, w, rows)
    /\ UNCHANGED <<tape, cursor, stage>>
Fails(r, w) == Busy(r, w) /\ Fail(r, w) /\ UNCHANGED <<tape, cursor, stage>>

WorkerStep(r, w) ==
    \/ Take(r, w)
    \/ \E me \in WorkerState : Observed(me) /\ Advances(r, w, me)
    \/ \E rows \in SUBSET (1..MaxTrades) : Keeps(r, w, rows)
    \/ Fails(r, w)

(* An answered boundary request keeps a worker's knowledge that of the tape. *)
LEMMA BoundarySteps ==
    ASSUME RetrievalInv, NEW r \in Resolve, NEW w \in Pool(r), NEW q \in {"first", "last"},
           Boundary(r, w, q)
    PROVE  WorkerStep(r, w)
<1> DEFINE me == worker[r][w]
           seen == IF tape[me.name] = 0 THEN 0 ELSE IF q = "first" THEN 1 ELSE tape[me.name]
           now == IF q = "first" THEN [me EXCEPT !.first = seen, !.tries[q] = 0]
                                 ELSE [me EXCEPT !.last = seen, !.tries[q] = 0]
           paging == [now EXCEPT !.at = "paging", !.from = now.first]
<1>1. me \in WorkerState /\ Observed(me) /\ tape[me.name] \in 0..MaxTrades
  <2>1. me \in WorkerState /\ tape \in [Name -> 0..MaxTrades] /\ Observed(me)
    BY DEF RetrievalInv, RetrievalTypes, Observing
  <2> QED
    BY <2>1 DEF WorkerState
<1>2. me.at = "asking" /\ (IF q = "first" THEN me.first ELSE me.last) = Unknown
  BY DEF Boundary
<1>3. /\ IF Unknown \in {now.first, now.last}
         THEN worker' = [worker EXCEPT ![r][w] = now] /\ UNCHANGED <<files, cache, failures>>
         ELSE IF 0 \in {now.first, now.last} THEN Keep(r, w, {})
         ELSE /\ worker' = [worker EXCEPT ![r][w] = paging]
              /\ UNCHANGED <<files, cache, failures>>
      /\ UNCHANGED <<tape, cursor, stage>>
  BY DEF Boundary
<1>4. /\ seen \in 0..MaxTrades /\ seen # Unknown /\ seen \in 0..Unknown
      /\ q = "first" => seen = 1 \/ (seen = 0 /\ tape[me.name] = 0)
      /\ q = "last" => seen = tape[me.name]
  <2>1. seen \in 0..MaxTrades
    BY <1>1, RetrievalAssumption
  <2> QED
    BY <1>1, <2>1, RetrievalAssumption DEF Unknown
<1>5. Busy(r, w) /\ worker[r][w] = me
  BY <1>2 DEF Busy
<1> HIDE DEF me, seen
<1>6. /\ now \in WorkerState /\ now.at = "asking" /\ now.name = me.name
      /\ now.began = me.began /\ now.got = me.got
      /\ now.first = IF q = "first" THEN seen ELSE me.first
      /\ now.last = IF q = "first" THEN me.last ELSE seen
  <2> DEFINE t == [me.tries EXCEPT ![q] = 0]
  <2>1. t \in [{"first", "last", "page"} -> 0..(MaxAttempts - 1)]
    <3>1. 0 \in 0..(MaxAttempts - 1)
      BY RetrievalAssumption
    <3> QED
      BY <1>1, <3>1, TriesType
  <2>2. now = IF q = "first" THEN [me EXCEPT !.first = seen, !.tries = t]
                             ELSE [me EXCEPT !.last = seen, !.tries = t]
    BY <1>1 DEF WorkerState
  <2> HIDE DEF t, now
  <2> QED
    BY <1>1, <1>2, <1>4, <2>1, <2>2 DEF WorkerState
<1> HIDE DEF now
<1>7. me.began \in 0..MaxTrades /\ me.began <= tape[me.name] /\ me.got = {}
  BY <1>1, <1>2 DEF WorkerState, Observed
<1>8. Observed(now)
  BY <1>1, <1>2, <1>4, <1>6, <1>7 DEF Observed
<1>9. CASE Unknown \in {now.first, now.last}
  BY <1>3, <1>5, <1>6, <1>8, <1>9 DEF WorkerStep, Advances
<1>10. CASE Unknown \notin {now.first, now.last} /\ 0 \in {now.first, now.last}
  <2>1. me.began = 0
    BY <1>6, <1>7, <1>8, <1>10 DEF Observed
  <2>2. \E k \in me.began..tape[me.name] : {} = 1..k
    BY <1>1, <2>1
  <2> QED
    BY <1>3, <1>5, <1>10, <2>2 DEF WorkerStep, Keeps
<1>11. CASE Unknown \notin {now.first, now.last} /\ 0 \notin {now.first, now.last}
  <2>1. now.first = 1 /\ now.last \in 1..MaxTrades
    <3>1. now.last \in 0..Unknown /\ now.last # 0 /\ now.last # Unknown
      BY <1>6, <1>11 DEF WorkerState
    <3>2. now.first = 1
      BY <1>6, <1>8, <1>11 DEF Observed
    <3> QED
      BY <3>1, <3>2, RetrievalAssumption DEF Unknown
  <2>2. /\ paging \in WorkerState /\ paging.at = "paging" /\ paging.name = me.name
        /\ paging.began = now.began /\ paging.first = 1 /\ paging.last = now.last
        /\ paging.got = {}
    <3>1. paging = [now EXCEPT !.at = "paging", !.from = 1]
      BY <2>1
    <3>2. 1 \in 1..(MaxTrades + PageSize + 1)
      BY RetrievalAssumption
    <3> HIDE DEF paging
    <3> QED
      BY <1>6, <1>7, <2>1, <3>1, <3>2 DEF WorkerState
  <2> HIDE DEF paging
  <2>3. Observed(paging)
    BY <1>6, <1>8, <2>1, <2>2 DEF Observed
  <2> QED
    BY <1>3, <1>5, <1>11, <2>2, <2>3 DEF WorkerStep, Advances
<1> QED
  BY <1>9, <1>10, <1>11

(* A page keeps within the window; a range kept has every number of it.       *)
LEMMA PageSteps ==
    ASSUME RetrievalInv, NEW r \in Resolve, NEW w \in Pool(r), NEW conflict \in BOOLEAN,
           NEW rows \in SUBSET PageOf(worker[r][w]), Page(r, w, rows, conflict)
    PROVE  WorkerStep(r, w)
<1> DEFINE me == worker[r][w]
           pageEnd == Min({me.from + PageSize - 1, me.last})
           got == me.got \union rows
           next == [me EXCEPT !.got = got, !.from = pageEnd + 1, !.tries["page"] = 0]
<1>1. me \in WorkerState /\ Observed(me) /\ tape[me.name] \in 0..MaxTrades
  <2>1. me \in WorkerState /\ tape \in [Name -> 0..MaxTrades] /\ Observed(me)
    BY DEF RetrievalInv, RetrievalTypes, Observing
  <2> QED
    BY <2>1 DEF WorkerState
<1>2. me.at = "paging"
  BY DEF Page
<1>3. /\ IF conflict THEN Fail(r, w)
         ELSE IF pageEnd < me.last
         THEN worker' = [worker EXCEPT ![r][w] = next] /\ UNCHANGED <<files, cache, failures>>
         ELSE IF Covered(me, got) THEN Keep(r, w, got)
         ELSE Fail(r, w)
      /\ UNCHANGED <<tape, cursor, stage>>
  BY DEF Page
<1>4. Busy(r, w) /\ worker[r][w] = me
  BY <1>2 DEF Busy
<1>5. rows \subseteq me.from..pageEnd
  BY <1>2 DEF PageOf
<1> HIDE DEF me
<1>6. /\ me.first = 1 /\ me.last \in 1..MaxTrades /\ me.last <= tape[me.name]
      /\ me.began \in 0..me.last /\ me.got \subseteq 1..me.last
      /\ me.from \in Nat \ {0}
  <2>1. /\ me.first = 1 /\ me.last \in 1..MaxTrades /\ me.got \subseteq 1..me.last
        /\ me.last # Unknown => me.began <= me.last /\ me.last <= tape[me.name]
    BY <1>1, <1>2 DEF Observed
  <2>2. me.last # Unknown
    BY <2>1, RetrievalAssumption DEF Unknown
  <2>3. me.began \in 0..MaxTrades /\ me.from \in Nat \ {0}
    BY <1>1, RetrievalAssumption DEF WorkerState
  <2> QED
    BY <2>1, <2>2, <2>3, RetrievalAssumption
<1>7. pageEnd \in 1..me.last
  <2> DEFINE other == me.from + PageSize - 1
  <2>1. other \in Nat \ {0} /\ me.last \in Nat \ {0}
    BY <1>6, RetrievalAssumption
  <2>2. pageEnd = IF other <= me.last THEN other ELSE me.last
    BY <2>1, MinOfTwo
  <2> HIDE DEF pageEnd, other
  <2> QED
    BY <2>1, <2>2
<1> HIDE DEF pageEnd
<1>8. got \subseteq 1..me.last
  <2>1. \A x \in me.from..pageEnd : x \in 1..me.last
    BY <1>6, <1>7
  <2> QED
    BY <1>5, <1>6, <2>1
<1> HIDE DEF got
<1>9. CASE ~conflict /\ pageEnd < me.last
  <2> DEFINE t == [me.tries EXCEPT !["page"] = 0]
  <2>1. t \in [{"first", "last", "page"} -> 0..(MaxAttempts - 1)]
    <3>1. 0 \in 0..(MaxAttempts - 1)
      BY RetrievalAssumption
    <3> QED
      BY <1>1, <3>1, TriesType
  <2>2. next = [me EXCEPT !.got = got, !.from = pageEnd + 1, !.tries = t]
    BY <1>1 DEF WorkerState
  <2>3. got \in SUBSET (1..MaxTrades) /\ pageEnd + 1 \in 1..(MaxTrades + PageSize + 1)
    BY <1>6, <1>7, <1>8, <1>9, RetrievalAssumption
  <2> HIDE DEF t, next
  <2>4. /\ next \in WorkerState /\ next.at = "paging" /\ next.name = me.name
        /\ next.began = me.began /\ next.first = me.first /\ next.last = me.last
        /\ next.got = got
    BY <1>1, <1>2, <2>1, <2>2, <2>3 DEF WorkerState
  <2>5. Observed(next)
    BY <1>1, <1>6, <1>8, <2>4, RetrievalAssumption DEF Observed
  <2> QED
    BY <1>3, <1>4, <1>9, <2>4, <2>5 DEF WorkerStep, Advances
<1>10. CASE ~conflict /\ ~(pageEnd < me.last) /\ Covered(me, got)
  <2>1. got = 1..me.last
    BY <1>6, <1>8, <1>10 DEF Covered
  <2>2. me.last \in me.began..tape[me.name] /\ got \in SUBSET (1..MaxTrades)
    BY <1>1, <1>6, <2>1, RetrievalAssumption
  <2> QED
    BY <1>3, <1>4, <1>10, <2>1, <2>2 DEF WorkerStep, Keeps
<1>11. CASE conflict \/ (~(pageEnd < me.last) /\ ~Covered(me, got))
  BY <1>3, <1>4, <1>11 DEF WorkerStep, Fails
<1> QED
  BY <1>9, <1>10, <1>11

(* A request answered, tried again or refused.                                *)
LEMMA RequestSteps ==
    ASSUME RetrievalInv, NEW r \in Resolve, NEW w \in Pool(r), Request(r, w)
    PROVE  WorkerStep(r, w)
<1> DEFINE me == worker[r][w]
<1>1. CASE Take(r, w)
  BY <1>1 DEF WorkerStep
<1>2. CASE \E q \in {"first", "last"} : Boundary(r, w, q)
  BY <1>2, BoundarySteps
<1>3. CASE \E rows \in SUBSET PageOf(worker[r][w]), conflict \in BOOLEAN : Page(r, w, rows, conflict)
  BY <1>3, PageSteps
<1>4. ASSUME InFlight(me) # {} PROVE Busy(r, w)
  BY <1>4 DEF InFlight, Busy
<1>5. ASSUME NEW q \in {"first", "last", "page"}, Throttle(r, w, q) PROVE WorkerStep(r, w)
  <2>1. Busy(r, w)
    BY <1>4, <1>5 DEF Throttle
  <2>2. CASE me.tries[q] + 1 < MaxAttempts
    <3> DEFINE t == [me.tries EXCEPT ![q] = @ + 1]
               again == [me EXCEPT !.tries = t]
    <3>1. me \in WorkerState /\ Observed(me)
      BY DEF RetrievalInv, RetrievalTypes, Observing
    <3>2. t \in [{"first", "last", "page"} -> 0..(MaxAttempts - 1)]
      <4>1. me.tries[q] + 1 \in 0..(MaxAttempts - 1)
        <5>1. me.tries[q] \in 0..(MaxAttempts - 1)
          BY <3>1 DEF WorkerState
        <5> HIDE DEF me
        <5> QED
          BY <2>2, <5>1, RetrievalAssumption
      <4> QED
        BY <3>1, <4>1, TriesType
    <3>3. worker' = [worker EXCEPT ![r][w] = again]
      <4>1. worker' = [worker EXCEPT ![r][w].tries[q] = @ + 1]
        BY <1>5, <2>2 DEF Throttle
      <4>2. again = [me EXCEPT !.tries[q] = @ + 1]
        BY <3>1 DEF WorkerState
      <4> QED
        BY <4>1, <4>2
    <3>4. UNCHANGED <<tape, cache, cursor, files, failures, stage>>
      BY <1>5, <2>2 DEF Throttle
    <3> HIDE DEF me, t
    <3>5. again \in WorkerState /\ again.at = me.at /\ again.name = me.name /\ Observed(again)
      BY <3>1, <3>2 DEF WorkerState, Observed
    <3> HIDE DEF again
    <3> QED
      BY <2>1, <3>3, <3>4, <3>5 DEF WorkerStep, Advances, Busy, me
  <2>3. CASE ~(me.tries[q] + 1 < MaxAttempts)
    BY <1>5, <2>1, <2>3 DEF Throttle, WorkerStep, Fails
  <2> QED
    BY <2>2, <2>3
<1>6. CASE Refuse(r, w)
  BY <1>4, <1>6 DEF Refuse, WorkerStep, Fails
<1> QED
  BY <1>1, <1>2, <1>3, <1>5, <1>6 DEF Request

-----------------------------------------------------------------------------
(* Each of these steps preserves the invariant. *)

(* What the cases below use of the invariant, about one worker.             *)
LEMMA InvFacts ==
    ASSUME RetrievalInv, NEW r \in Resolve, NEW w \in Pool(r)
    PROVE  /\ tape \in [Name -> 0..MaxTrades]
           /\ worker[r] \in [Pool(r) -> WorkerState]
           /\ worker[r][w] \in WorkerState /\ worker[r][w].name \in Name
           /\ cursor[r] \in 0..Len(Jobs[r]) /\ Taken(r) \subseteq Range(Jobs[r])
<1>1. /\ tape \in [Name -> 0..MaxTrades] /\ worker[r] \in [Pool(r) -> WorkerState]
      /\ cursor[r] \in 0..Len(Jobs[r])
  BY DEF RetrievalInv, RetrievalTypes
<1>2. worker[r][w] \in WorkerState
  BY <1>1
<1>3. worker[r][w].name \in Name
  BY <1>2 DEF WorkerState
<1>4. Taken(r) \subseteq Range(Jobs[r])
  <2>1. \A i \in 1..cursor[r] : i \in 1..Len(Jobs[r])
    BY <1>1, JobsType
  <2>2. Range(Jobs[r]) = {Jobs[r][i] : i \in 1..Len(Jobs[r])}
    BY JobsType
  <2> QED
    BY <2>1, <2>2 DEF Taken
<1> QED
  BY <1>1, <1>2, <1>3, <1>4

(* One worker changes. *)
LEMMA OneWorker ==
    ASSUME RetrievalInv, NEW r \in Resolve, NEW w \in Pool(r), NEW me \in WorkerState,
           worker' = [worker EXCEPT ![r][w] = me]
    PROVE  /\ DOMAIN worker' = Resolve
           /\ \A q \in Resolve : worker'[q] \in [Pool(q) -> WorkerState]
           /\ \A q \in Resolve : \A v \in Pool(q) :
                worker'[q][v] = IF q = r /\ v = w THEN me ELSE worker[q][v]
<1>1. DOMAIN worker = Resolve /\ \A q \in Resolve : worker[q] \in [Pool(q) -> WorkerState]
  BY DEF RetrievalInv, Shapes, RetrievalTypes
<1>2. worker' = [worker EXCEPT ![r] = [worker[r] EXCEPT ![w] = me]]
  BY <1>1
<1>3. [worker[r] EXCEPT ![w] = me] \in [Pool(r) -> WorkerState]
  BY <1>1
<1>4. \A q \in Resolve : worker'[q] = IF q = r THEN [worker[r] EXCEPT ![w] = me] ELSE worker[q]
  BY <1>1, <1>2
<1>5. \A v \in Pool(r) : [worker[r] EXCEPT ![w] = me][v] = IF v = w THEN me ELSE worker[r][v]
  BY <1>1
<1> QED
  BY <1>1, <1>2, <1>3, <1>4, <1>5

(* A worker that goes on with its job keeps the invariant.                  *)
LEMMA AdvanceKeeps ==
    ASSUME RetrievalInv, NEW r \in Resolve, NEW w \in Pool(r), NEW me \in WorkerState,
           Observed(me), Advances(r, w, me)
    PROVE  RetrievalInv'
<1>1. /\ DOMAIN worker' = Resolve
      /\ \A q \in Resolve : worker'[q] \in [Pool(q) -> WorkerState]
      /\ \A q \in Resolve : \A v \in Pool(q) :
           worker'[q][v] = IF q = r /\ v = w THEN me ELSE worker[q][v]
  BY OneWorker DEF Advances
<1>2. Shapes' /\ RetrievalTypes'
  BY <1>1 DEF RetrievalInv, Shapes, RetrievalTypes, Advances
<1>3. Observing'
  BY <1>1 DEF RetrievalInv, Observing, Observed, Advances
<1>4. ASSUME NEW q \in Resolve PROVE Accounted(q)' /\ Staged(q)'
  <2>1. /\ Taken(q)' = Taken(q) /\ Settled(q)' = Settled(q) /\ stage' = stage /\ cursor' = cursor
        /\ files' = files /\ failures' = failures
    BY DEF Advances, Taken, Settled
  <2>2. \A v \in Pool(q) :
           /\ Busy(q, v)' <=> Busy(q, v)
           /\ Busy(q, v) => worker'[q][v].name = worker[q][v].name
    BY <1>1 DEF Advances, Busy
  <2>3. Accounted(q) /\ Staged(q)
    BY DEF RetrievalInv
  <2>4. Accounted(q)'
    BY <2>1, <2>2, <2>3 DEF Accounted
  <2> QED
    BY <2>1, <2>2, <2>3, <2>4 DEF Staged
<1> QED
  BY <1>2, <1>3, <1>4 DEF RetrievalInv

(* A worker that is free again, and what its job has become.                  *)
LEMMA EndKeeps ==
    ASSUME RetrievalInv, NEW r \in Resolve, NEW w \in Pool(r), Busy(r, w), Ends(r, w),
           UNCHANGED <<tape, cursor, stage>>,
           cache' \in [Name -> [kept : BOOLEAN, rows : SUBSET (1..MaxTrades)]],
           DOMAIN files' = Resolve, DOMAIN failures' = Resolve,
           \A q \in Resolve \ {r} : files'[q] = files[q] /\ failures'[q] = failures[q],
           \A n \in DOMAIN files'[r] : files'[r][n] \subseteq 1..MaxTrades,
           \/ /\ DOMAIN files'[r] = DOMAIN files[r] \union {worker[r][w].name}
              /\ failures'[r] = failures[r]
           \/ /\ DOMAIN files'[r] = DOMAIN files[r]
              /\ failures'[r] = failures[r] \union {worker[r][w].name}
    PROVE  RetrievalInv'
<1> DEFINE name == worker[r][w].name
<1>1. Free \in WorkerState /\ Free.at = "free"
  BY InvFacts, FreeType
<1>2. /\ DOMAIN worker' = Resolve
      /\ \A q \in Resolve : worker'[q] \in [Pool(q) -> WorkerState]
      /\ \A q \in Resolve : \A v \in Pool(q) :
           worker'[q][v] = IF q = r /\ v = w THEN Free ELSE worker[q][v]
  BY <1>1, OneWorker DEF Ends
<1>3. name \in Taken(r) \ Settled(r) /\ Taken(r) \subseteq Range(Jobs[r])
  BY InvFacts DEF RetrievalInv, Accounted
<1>4. Shapes' /\ RetrievalTypes'
  <2>1. \A q \in Resolve :
           /\ DOMAIN files'[q] \subseteq Range(Jobs[q])
           /\ \A n \in DOMAIN files'[q] : files'[q][n] \subseteq 1..MaxTrades
           /\ failures'[q] \subseteq Range(Jobs[q])
    BY <1>3 DEF RetrievalInv, RetrievalTypes
  <2> QED
    BY <1>2, <2>1 DEF RetrievalInv, Shapes, RetrievalTypes
<1>5. Observing'
  BY <1>1, <1>2 DEF RetrievalInv, Observing, Observed
<1>6. ASSUME NEW q \in Resolve, q # r PROVE Accounted(q)' /\ Staged(q)'
  <2>1. \A v \in Pool(q) : worker'[q][v] = worker[q][v]
    BY <1>2, <1>6
  <2>2. Accounted(q) /\ Staged(q) /\ files'[q] = files[q] /\ failures'[q] = failures[q]
    BY <1>6 DEF RetrievalInv
  <2> QED
    BY <2>1, <2>2 DEF Accounted, Staged, Taken, Settled, Busy
<1>7. Accounted(r)' /\ Staged(r)'
  <2>1. \A v \in Pool(r) :
           /\ Busy(r, v)' <=> Busy(r, v) /\ v # w
           /\ v # w => worker'[r][v] = worker[r][v]
    BY <1>1, <1>2 DEF Busy
  <2>2. Taken(r)' = Taken(r) /\ Settled(r)' = Settled(r) \union {name}
    BY DEF Taken, Settled
  <2>3. Accounted(r) /\ Staged(r)
    BY DEF RetrievalInv
  <2>4. DOMAIN files'[r] \intersect failures'[r] = {}
    BY <1>3, <2>3 DEF Accounted, Settled
  <2>5. \A n \in (Taken(r) \ Settled(r)) \ {name} :
           \E v \in Pool(r) : Busy(r, v)' /\ worker'[r][v].name = n
    BY <2>1, <2>3 DEF Accounted
  <2>6. \A v \in Pool(r) : Busy(r, v)' => worker'[r][v].name \in (Taken(r) \ Settled(r)) \ {name}
    BY <2>1, <2>3 DEF Accounted
  <2>7. \A u, v \in Pool(r) :
           Busy(r, u)' /\ Busy(r, v)' /\ worker'[r][u].name = worker'[r][v].name => u = v
    BY <2>1, <2>3 DEF Accounted
  <2>8. Accounted(r)'
    BY <1>3, <2>2, <2>3, <2>4, <2>5, <2>6, <2>7 DEF Accounted
  <2> QED
    BY <2>1, <2>3, <2>8 DEF Staged
<1> QED
  BY <1>4, <1>5, <1>6, <1>7 DEF RetrievalInv

(* A range kept, or a failure, is that of the worker's job.                   *)
LEMMA KeepKeeps ==
    ASSUME RetrievalInv, NEW r \in Resolve, NEW w \in Pool(r),
           NEW rows \in SUBSET (1..MaxTrades), Keeps(r, w, rows)
    PROVE  RetrievalInv'
<1> DEFINE name == worker[r][w].name
<1>1. /\ files' = [files EXCEPT ![r] = Pushed(files[r], name, rows)]
      /\ cache' = [cache EXCEPT ![name] = Cached(rows)]
      /\ Ends(r, w) /\ Busy(r, w) /\ UNCHANGED <<failures, tape, cursor, stage>>
  BY DEF Keeps, Keep
<1>2. name \in Name
  BY InvFacts
<1>3. cache' \in [Name -> [kept : BOOLEAN, rows : SUBSET (1..MaxTrades)]]
  BY <1>1, <1>2 DEF RetrievalInv, RetrievalTypes, Cached
<1>4. /\ DOMAIN files' = Resolve /\ DOMAIN failures' = Resolve
      /\ \A q \in Resolve \ {r} : files'[q] = files[q] /\ failures'[q] = failures[q]
      /\ files'[r] = Pushed(files[r], name, rows) /\ failures'[r] = failures[r]
  BY <1>1 DEF RetrievalInv, Shapes
<1> HIDE DEF name
<1>5. DOMAIN files'[r] = DOMAIN files[r] \union {name}
  BY <1>4 DEF Pushed
<1>6. \A n \in DOMAIN files'[r] : files'[r][n] = IF n = name THEN rows ELSE files[r][n]
  BY <1>4, <1>5 DEF Pushed
<1>7. \A n \in DOMAIN files'[r] : files'[r][n] \subseteq 1..MaxTrades
  BY <1>5, <1>6 DEF RetrievalInv, RetrievalTypes
<1> QED
  BY <1>1, <1>3, <1>4, <1>5, <1>7, EndKeeps DEF name

(* A job recorded as failed keeps the invariant.                            *)
LEMMA FailKeeps ==
    ASSUME RetrievalInv, NEW r \in Resolve, NEW w \in Pool(r), Fails(r, w)
    PROVE  RetrievalInv'
<1> DEFINE name == worker[r][w].name
<1>1. /\ failures' = [failures EXCEPT ![r] = failures[r] \union {name}]
      /\ Ends(r, w) /\ Busy(r, w) /\ UNCHANGED <<files, cache, tape, cursor, stage>>
  BY DEF Fails, Fail
<1>2. /\ DOMAIN files' = Resolve /\ DOMAIN failures' = Resolve
      /\ \A q \in Resolve \ {r} : files'[q] = files[q] /\ failures'[q] = failures[q]
      /\ files'[r] = files[r] /\ failures'[r] = failures[r] \union {name}
  BY <1>1 DEF RetrievalInv, Shapes
<1>3. /\ cache' \in [Name -> [kept : BOOLEAN, rows : SUBSET (1..MaxTrades)]]
      /\ \A n \in DOMAIN files'[r] : files'[r][n] \subseteq 1..MaxTrades
  BY <1>1 DEF RetrievalInv, RetrievalTypes
<1> QED
  BY <1>1, <1>2, <1>3, EndKeeps

(* The next job is one nobody has had. *)
LEMMA TakeKeeps ==
    ASSUME RetrievalInv, NEW r \in Resolve, NEW w \in Pool(r), Take(r, w)
    PROVE  RetrievalInv'
<1> DEFINE name == Jobs[r][cursor[r] + 1]
<1>1. /\ stage[r] = "pool" /\ ~Busy(r, w) /\ cursor[r] < Len(Jobs[r])
      /\ cursor' = [cursor EXCEPT ![r] = cursor[r] + 1]
      /\ UNCHANGED <<tape, cache, failures, stage>>
  BY DEF Take, Busy
<1>2. IF cache[name].kept
      THEN files' = [files EXCEPT ![r] = Pushed(files[r], name, cache[name].rows)] /\ UNCHANGED worker
      ELSE worker' = [worker EXCEPT ![r][w] = Asking(name)] /\ UNCHANGED files
  BY DEF Take
<1>3. /\ cursor[r] + 1 \in 1..Len(Jobs[r]) /\ cursor[r] \in Nat
      /\ \A q \in Resolve : cursor'[q] = IF q = r THEN cursor[r] + 1 ELSE cursor[q]
  BY <1>1, InvFacts, JobsType DEF RetrievalInv, Shapes
<1>4. name \in Name /\ name \in Range(Jobs[r])
  <2>1. Range(Jobs[r]) = {Jobs[r][i] : i \in 1..Len(Jobs[r])}
    BY JobsType
  <2> QED
    BY <1>3, <2>1, JobsType
<1>5. name \notin Taken(r) /\ Taken(r)' = Taken(r) \union {name}
  <2>1. \A i \in 1..cursor[r] : i \in 1..Len(Jobs[r]) /\ i # cursor[r] + 1
    BY <1>3, JobsType
  <2>2. name \notin Taken(r)
    BY <1>3, <2>1, JobsType DEF Taken
  <2>3. 1..(cursor[r] + 1) = (1..cursor[r]) \union {cursor[r] + 1}
    BY <1>3
  <2> QED
    BY <1>3, <2>2, <2>3 DEF Taken
<1>6. cursor'[r] \in 0..Len(Jobs[r]) /\ DOMAIN cursor' = Resolve
  BY <1>1, <1>3, JobsType DEF RetrievalInv, Shapes
<1>7. Accounted(r) /\ Staged(r) /\ name \notin Settled(r)
  BY <1>5 DEF RetrievalInv, Accounted
<1> HIDE DEF name
<1>8. CASE cache[name].kept
  <2>1. /\ DOMAIN files' = Resolve /\ worker' = worker
        /\ \A q \in Resolve \ {r} : files'[q] = files[q]
        /\ files'[r] = Pushed(files[r], name, cache[name].rows)
    BY <1>2, <1>8 DEF RetrievalInv, Shapes
  <2>2. DOMAIN files'[r] = DOMAIN files[r] \union {name}
    BY <2>1 DEF Pushed
  <2>3. \A n \in DOMAIN files'[r] : files'[r][n] = IF n = name THEN cache[name].rows ELSE files[r][n]
    BY <2>1, <2>2 DEF Pushed
  <2>4. Shapes' /\ RetrievalTypes'
    <3>1. cache[name].rows \subseteq 1..MaxTrades
      BY <1>4 DEF RetrievalInv, RetrievalTypes
    <3>2. \A q \in Resolve :
            /\ DOMAIN files'[q] \subseteq Range(Jobs[q])
            /\ \A n \in DOMAIN files'[q] : files'[q][n] \subseteq 1..MaxTrades
            /\ cursor'[q] \in 0..Len(Jobs[q])
      BY <1>3, <1>4, <1>6, <2>1, <2>2, <2>3, <3>1 DEF RetrievalInv, RetrievalTypes
    <3> QED
      BY <1>1, <1>6, <2>1, <3>2 DEF RetrievalInv, Shapes, RetrievalTypes
  <2>5. Observing'
    BY <1>1, <2>1 DEF RetrievalInv, Observing, Observed
  <2>6. ASSUME NEW q \in Resolve, q # r PROVE Accounted(q)' /\ Staged(q)'
    BY <1>1, <1>3, <2>1, <2>6 DEF RetrievalInv, Accounted, Staged, Taken, Settled, Busy
  <2>7. Accounted(r)' /\ Staged(r)'
    <3>1. /\ Settled(r)' = Settled(r) \union {name}
          /\ \A v \in Pool(r) : Busy(r, v)' = Busy(r, v) /\ worker'[r][v] = worker[r][v]
          /\ failures'[r] = failures[r]
      BY <1>1, <2>1, <2>2 DEF Settled, Busy
    <3>2. DOMAIN files'[r] \intersect failures'[r] = {}
      BY <1>7, <2>2, <3>1 DEF Accounted, Settled
    <3>3. Accounted(r)'
      BY <1>5, <1>7, <2>1, <3>1, <3>2 DEF Accounted, Busy
    <3> QED
      BY <1>1, <3>3 DEF Staged
  <2> QED
    BY <2>4, <2>5, <2>6, <2>7 DEF RetrievalInv
<1>9. CASE ~cache[name].kept
  <2>1. /\ Asking(name) \in WorkerState /\ Observed(Asking(name))
        /\ Asking(name).at = "asking" /\ Asking(name).name = name
    BY <1>4, InvFacts, FreeType
  <2>2. worker' = [worker EXCEPT ![r][w] = Asking(name)] /\ files' = files
    BY <1>2, <1>9
  <2>3. /\ DOMAIN worker' = Resolve
        /\ \A q \in Resolve : worker'[q] \in [Pool(q) -> WorkerState]
        /\ \A q \in Resolve : \A v \in Pool(q) :
             worker'[q][v] = IF q = r /\ v = w THEN Asking(name) ELSE worker[q][v]
    BY <2>1, <2>2, OneWorker
  <2>4. Shapes' /\ RetrievalTypes'
    <3>1. \A q \in Resolve : cursor'[q] \in 0..Len(Jobs[q])
      BY <1>3, <1>6 DEF RetrievalInv, RetrievalTypes
    <3> QED
      BY <1>1, <1>6, <2>2, <2>3, <3>1 DEF RetrievalInv, Shapes, RetrievalTypes
  <2>5. Observing'
    BY <1>1, <2>1, <2>3 DEF RetrievalInv, Observing, Observed
  <2>6. ASSUME NEW q \in Resolve, q # r PROVE Accounted(q)' /\ Staged(q)'
    <3>1. \A v \in Pool(q) : worker'[q][v] = worker[q][v]
      BY <2>3, <2>6
    <3> QED
      BY <1>1, <1>3, <2>2, <2>6, <3>1 DEF RetrievalInv, Accounted, Staged, Taken, Settled, Busy
  <2>7. Accounted(r)' /\ Staged(r)'
    <3>1. \A v \in Pool(r) :
            /\ Busy(r, v)' <=> (Busy(r, v) \/ v = w)
            /\ worker'[r][v].name = IF v = w THEN name ELSE worker[r][v].name
      BY <2>1, <2>3 DEF Busy
    <3>2. Settled(r)' = Settled(r) /\ files'[r] = files[r] /\ failures'[r] = failures[r]
      BY <1>1, <2>2 DEF Settled
    <3>3. \A n \in (Taken(r) \union {name}) \ Settled(r) :
             \E v \in Pool(r) : Busy(r, v)' /\ worker'[r][v].name = n
      BY <1>1, <1>7, <3>1 DEF Accounted
    <3>4. \A v \in Pool(r) : Busy(r, v)' => worker'[r][v].name \in (Taken(r) \union {name}) \ Settled(r)
      BY <1>7, <3>1 DEF Accounted
    <3>5. \A u, v \in Pool(r) :
             Busy(r, u)' /\ Busy(r, v)' /\ worker'[r][u].name = worker'[r][v].name => u = v
      BY <1>1, <1>5, <1>7, <3>1 DEF Accounted
    <3>6. Accounted(r)'
      BY <1>5, <1>7, <3>2, <3>3, <3>4, <3>5 DEF Accounted
    <3> QED
      BY <1>1, <3>6 DEF Staged
  <2> QED
    BY <2>4, <2>5, <2>6, <2>7 DEF RetrievalInv
<1> QED
  BY <1>8, <1>9

(* The workers that start have a job each. *)
LEMMA StartKeeps ==
    ASSUME RetrievalInv, NEW r \in Resolve, Start(r)
    PROVE  RetrievalInv'
<1> DEFINE k == Cardinality(Pool(r))
           Kept(w) == cache[Jobs[r][w]].kept
           job(w) == IF Kept(w) THEN Free ELSE Asking(Jobs[r][w])
           names == {Jobs[r][w] : w \in {v \in Pool(r) : Kept(v)}}
<1>1. /\ stage[r] = "idle" /\ stage' = [stage EXCEPT ![r] = "pool"]
      /\ cursor' = [cursor EXCEPT ![r] = k]
      /\ worker' = [worker EXCEPT ![r] = [w \in Pool(r) |-> job(w)]]
      /\ files' = [files EXCEPT ![r] = [n \in names |-> cache[n].rows]]
      /\ UNCHANGED <<tape, cache, failures>>
  BY DEF Start
<1>2. k \in 0..Len(Jobs[r]) /\ Pool(r) = 1..k /\ Len(Jobs[r]) \in Nat
  BY PoolType, JobsType
<1>3. \A w \in Pool(r) : w \in 1..Len(Jobs[r]) /\ Jobs[r][w] \in Name
  BY <1>2, JobsType
<1>4. \A v, w \in Pool(r) : Jobs[r][v] = Jobs[r][w] => v = w
  BY <1>3, JobsType
<1>5. \A w \in Pool(r) : Jobs[r][w] \in Range(Jobs[r])
  <2>1. Range(Jobs[r]) = {Jobs[r][i] : i \in 1..Len(Jobs[r])}
    BY JobsType
  <2> QED
    BY <1>3, <2>1
<1> HIDE DEF k
<1>6. \A w \in Pool(r) :
         /\ job(w) \in WorkerState /\ Observed(job(w))
         /\ job(w).at # "free" <=> ~Kept(w)
         /\ job(w).at # "free" => job(w).name = Jobs[r][w]
  <2> SUFFICES ASSUME NEW w \in Pool(r)
               PROVE  /\ job(w) \in WorkerState /\ Observed(job(w))
                      /\ job(w).at # "free" <=> ~Kept(w)
                      /\ job(w).at # "free" => job(w).name = Jobs[r][w]
    OBVIOUS
  <2>1. Jobs[r][w] \in Name /\ tape[Jobs[r][w]] \in 0..MaxTrades
    BY <1>3 DEF RetrievalInv, RetrievalTypes
  <2>2. /\ Free \in WorkerState /\ Free.at = "free"
        /\ Asking(Jobs[r][w]) \in WorkerState /\ Observed(Asking(Jobs[r][w]))
        /\ Asking(Jobs[r][w]).at = "asking" /\ Asking(Jobs[r][w]).name = Jobs[r][w]
    BY <2>1, FreeType
  <2> QED
    BY <2>2 DEF Observed
<1> HIDE DEF job
<1>7. /\ DOMAIN cursor' = Resolve /\ DOMAIN worker' = Resolve /\ DOMAIN files' = Resolve
      /\ \A q \in Resolve \ {r} : /\ cursor'[q] = cursor[q] /\ worker'[q] = worker[q]
                                  /\ files'[q] = files[q] /\ stage'[q] = stage[q]
      /\ cursor'[r] = k /\ worker'[r] = [w \in Pool(r) |-> job(w)]
      /\ files'[r] = [n \in names |-> cache[n].rows] /\ stage'[r] = "pool"
      /\ stage' \in [Resolve -> Stage]
  BY <1>1 DEF RetrievalInv, RetrievalTypes, Shapes, Stage
<1>8. worker'[r] \in [Pool(r) -> WorkerState] /\ \A w \in Pool(r) : worker'[r][w] = job(w)
  BY <1>6, <1>7
<1>9. /\ DOMAIN files'[r] = names /\ names \subseteq Range(Jobs[r])
      /\ \A n \in names : n \in Name /\ files'[r][n] \subseteq 1..MaxTrades
  <2>1. \A n \in names : n \in Name /\ n \in Range(Jobs[r])
    BY <1>3, <1>5
  <2>2. \A n \in names : files'[r][n] = cache[n].rows
    BY <1>7
  <2>3. \A n \in Name : cache[n].rows \subseteq 1..MaxTrades
    BY DEF RetrievalInv, RetrievalTypes
  <2> QED
    BY <1>7, <2>1, <2>2, <2>3
<1>10. Shapes' /\ RetrievalTypes'
  BY <1>1, <1>2, <1>7, <1>8, <1>9 DEF RetrievalInv, Shapes, RetrievalTypes
<1>11. Observing'
  <2>1. \A q \in Resolve : \A w \in Pool(q) : Observed(worker'[q][w])
    BY <1>6, <1>7, <1>8 DEF RetrievalInv, Observing
  <2> QED
    BY <1>1, <2>1 DEF Observing, Observed
<1>12. ASSUME NEW q \in Resolve, q # r PROVE Accounted(q)' /\ Staged(q)'
  BY <1>1, <1>7, <1>12 DEF RetrievalInv, Accounted, Staged, Taken, Settled, Busy
<1>13. Accounted(r)' /\ Staged(r)'
  <2>1. Taken(r) = {} /\ failures[r] = {}
    BY <1>1 DEF RetrievalInv, Staged, Accounted, Taken, Settled
  <2>2. Taken(r)' = {Jobs[r][w] : w \in Pool(r)}
    BY <1>2, <1>7 DEF Taken
  <2>3. Settled(r)' = names /\ failures'[r] = {}
    BY <1>1, <1>9, <2>1 DEF Settled
  <2>4. \A w \in Pool(r) :
           /\ Busy(r, w)' <=> ~Kept(w)
           /\ Busy(r, w)' => worker'[r][w].name = Jobs[r][w]
    BY <1>6, <1>8 DEF Busy
  <2>5. \A n \in Taken(r)' \ names : \E w \in Pool(r) : Busy(r, w)' /\ worker'[r][w].name = n
    BY <2>2, <2>4
  <2>6. \A w \in Pool(r) : Busy(r, w)' => worker'[r][w].name \in Taken(r)' \ names
    BY <1>4, <2>2, <2>4
  <2>7. \A v, w \in Pool(r) :
           Busy(r, v)' /\ Busy(r, w)' /\ worker'[r][v].name = worker'[r][w].name => v = w
    BY <1>4, <2>4
  <2>8. Accounted(r)'
    BY <1>9, <2>2, <2>3, <2>5, <2>6, <2>7 DEF Accounted
  <2> QED
    BY <1>7, <2>8 DEF Staged
<1> QED
  BY <1>10, <1>11, <1>12, <1>13 DEF RetrievalInv

(* A trade more, and nothing a worker has seen is gone. *)
LEMMA TradeKeeps ==
    ASSUME RetrievalInv, NEW n \in Name, Trade(n)
    PROVE  RetrievalInv'
<1>1. /\ tape[n] < MaxTrades /\ tape' = [tape EXCEPT ![n] = tape[n] + 1]
      /\ UNCHANGED <<cache, cursor, worker, files, failures, stage>>
  BY DEF Trade
<1>2. tape \in [Name -> 0..MaxTrades]
  BY DEF RetrievalInv, RetrievalTypes
<1>3. /\ tape' \in [Name -> 0..MaxTrades]
      /\ \A m \in Name : tape[m] \in Nat /\ tape'[m] \in Nat /\ tape[m] <= tape'[m]
  BY <1>1, <1>2, RetrievalAssumption
<1>4. Shapes' /\ RetrievalTypes'
  BY <1>1, <1>3 DEF RetrievalInv, Shapes, RetrievalTypes
<1>5. Observing'
  <2> SUFFICES ASSUME NEW r \in Resolve, NEW w \in Pool(r) PROVE Observed(worker[r][w])'
    BY <1>1 DEF Observing
  <2> DEFINE me == worker[r][w]
  <2>1. /\ me \in WorkerState /\ me.name \in Name /\ me.began \in 0..MaxTrades
        /\ me.last \in 0..Unknown /\ Observed(me)
    BY InvFacts DEF WorkerState, RetrievalInv, Observing
  <2>2. worker'[r][w] = me
    BY <1>1
  <2>3. tape[me.name] \in Nat /\ tape'[me.name] \in Nat /\ tape[me.name] <= tape'[me.name]
    BY <1>3, <2>1
  <2> HIDE DEF me
  <2>4. me.began \in Nat /\ me.last \in Nat
    BY <2>1, RetrievalAssumption DEF Unknown
  <2> QED
    BY <2>1, <2>2, <2>3, <2>4 DEF Observed
<1>6. ASSUME NEW q \in Resolve PROVE Accounted(q)' /\ Staged(q)'
  BY <1>1 DEF RetrievalInv, Accounted, Staged, Taken, Settled, Busy
<1> QED
  BY <1>4, <1>5, <1>6 DEF RetrievalInv

(* The stages after the pool. *)
LEMMA StageKeeps ==
    ASSUME RetrievalInv, NEW r \in Resolve, PoolEnds(r) \/ Prices(r)
    PROVE  RetrievalInv'
<1>1. /\ UNCHANGED <<tape, cache, cursor, worker, files, failures>>
      /\ \E x \in {"prices", "answered"} : stage' = [stage EXCEPT ![r] = x]
      /\ cursor[r] = Len(Jobs[r]) /\ \A w \in Pool(r) : ~Busy(r, w)
  BY DEF PoolEnds, Prices, RetrievalInv, Staged, Busy
<1>2. /\ stage' \in [Resolve -> Stage]
      /\ \A q \in Resolve : IF q = r THEN stage'[q] \in {"prices", "answered"} ELSE stage'[q] = stage[q]
  BY <1>1 DEF RetrievalInv, RetrievalTypes, Stage
<1>3. Shapes' /\ RetrievalTypes'
  BY <1>1, <1>2 DEF RetrievalInv, Shapes, RetrievalTypes
<1>4. Observing'
  BY <1>1 DEF RetrievalInv, Observing, Observed
<1>5. ASSUME NEW q \in Resolve PROVE Accounted(q)' /\ Staged(q)'
  BY <1>1, <1>2 DEF RetrievalInv, Accounted, Staged, Taken, Settled, Busy
<1> QED
  BY <1>3, <1>4, <1>5 DEF RetrievalInv

(* The invariant holds before any resolve has begun.                        *)
LEMMA StartsRight == RetrievalInit => RetrievalInv
<1> SUFFICES ASSUME RetrievalInit PROVE RetrievalInv
  OBVIOUS
<1>1. ASSUME NEW r \in Resolve, NEW w \in Pool(r) PROVE Free \in WorkerState /\ Free.at = "free"
  <2>1. Jobs[r][w] \in Name /\ tape[Jobs[r][w]] \in 0..MaxTrades
    <3>1. w \in 1..Len(Jobs[r])
      BY <1>1, PoolType, JobsType
    <3> QED
      BY <1>1, <3>1, JobsType, RetrievalAssumption DEF RetrievalInit
  <2> QED
    BY <2>1, FreeType
<1>2. Shapes /\ RetrievalTypes
  BY <1>1, JobsType, RetrievalAssumption
     DEF RetrievalInit, Shapes, RetrievalTypes, NotCached, Stage
<1>3. Observing
  BY <1>1 DEF RetrievalInit, Observing, Observed
<1>4. ASSUME NEW r \in Resolve PROVE Accounted(r) /\ Staged(r)
  BY <1>1 DEF RetrievalInit, Accounted, Staged, Taken, Settled, Busy
<1> QED
  BY <1>2, <1>3, <1>4 DEF RetrievalInv

(* And as long as nothing happens.                                          *)
LEMMA StutterKeeps == RetrievalInv /\ UNCHANGED rvars => RetrievalInv'
<1> SUFFICES ASSUME RetrievalInv, UNCHANGED rvars PROVE RetrievalInv'
  OBVIOUS
<1>1. Shapes' /\ RetrievalTypes'
  BY DEF RetrievalInv, Shapes, RetrievalTypes, rvars
<1>2. Observing'
  BY DEF RetrievalInv, Observing, Observed, rvars
<1>3. ASSUME NEW r \in Resolve PROVE Accounted(r)' /\ Staged(r)'
  BY DEF RetrievalInv, Accounted, Staged, Taken, Settled, Busy, rvars
<1> QED
  BY <1>1, <1>2, <1>3 DEF RetrievalInv

(* Every step preserves the invariant.                                      *)
LEMMA RetrievalStep == RetrievalInv /\ [RetrievalNext]_rvars => RetrievalInv'
<1> SUFFICES ASSUME RetrievalInv, [RetrievalNext]_rvars PROVE RetrievalInv'
  OBVIOUS
<1>1. CASE UNCHANGED rvars
  BY <1>1, StutterKeeps
<1>2. CASE \E n \in Name : Trade(n)
  BY <1>2, TradeKeeps
<1>3. ASSUME NEW r \in Resolve, Resolving(r) PROVE RetrievalInv'
  <2>1. CASE Start(r)
    BY <2>1, StartKeeps
  <2>2. ASSUME NEW w \in Pool(r), Request(r, w) PROVE RetrievalInv'
    <3>1. WorkerStep(r, w)
      BY <2>2, RequestSteps
    <3> QED
      BY <3>1, TakeKeeps, AdvanceKeeps, KeepKeeps, FailKeeps DEF WorkerStep
  <2>3. CASE PoolEnds(r) \/ Prices(r)
    BY <2>3, StageKeeps
  <2> QED
    BY <1>3, <2>1, <2>2, <2>3 DEF Resolving
<1> QED
  BY <1>1, <1>2, <1>3 DEF RetrievalNext

-----------------------------------------------------------------------------
(* The properties. *)

(* Types, and that no worker counts more attempts than it has.                *)
THEOREM RetrievalTypeCorrect == RetrievalSpec => []RetrievalTypes
<1>1. RetrievalInv => RetrievalTypes
  BY DEF RetrievalInv
<1> QED
  BY <1>1, StartsRight, RetrievalStep, PTL DEF RetrievalSpec

(* When a call answers, each of its jobs is with one outcome.                 *)
LEMMA LegsAccounted == RetrievalInv => AnswersAccountForEveryLeg
<1> SUFFICES ASSUME RetrievalInv, NEW r \in Resolve, stage[r] \in {"prices", "answered"}
             PROVE  /\ DOMAIN files[r] \union failures[r] = Range(Jobs[r])
                    /\ DOMAIN files[r] \intersect failures[r] = {}
                    /\ \A c \in Candidates[r] \ Unavailable(r) : c \subseteq DOMAIN files[r]
                    /\ Complete(r) => Unavailable(r) = {}
  BY DEF AnswersAccountForEveryLeg
<1>1. /\ Accounted(r) /\ cursor[r] = Len(Jobs[r]) /\ \A w \in Pool(r) : ~Busy(r, w)
  BY DEF RetrievalInv, Staged
<1>2. Range(Jobs[r]) = {Jobs[r][i] : i \in 1..Len(Jobs[r])}
  BY JobsType
<1>3. Taken(r) = Range(Jobs[r])
  BY <1>1, <1>2 DEF Taken
<1>4. Settled(r) = Range(Jobs[r])
  BY <1>1, <1>3 DEF Accounted
<1>5. \A c \in Candidates[r] : c \subseteq Range(Jobs[r])
  BY RetrievalAssumption
<1> QED
  BY <1>1, <1>4, <1>5 DEF Accounted, Settled, Unavailable, Complete

(* When a call answers, each of its jobs is retrieved or failed, and a        *)
(* candidate is available exactly when all of its legs are retrieved.         *)
THEOREM EveryLegAccounted == RetrievalSpec => []AnswersAccountForEveryLeg
BY LegsAccounted, StartsRight, RetrievalStep, PTL DEF RetrievalSpec

(* A range is cached as the tape stood at one moment of its retrieval.        *)
THEOREM CachedAsOfOneMoment == RetrievalSpec => RangesAsOfOneMoment
<1> DEFINE Whole(n) == \E r \in Resolve : \E w \in Pool(r) :
                          /\ worker[r][w].name = n
                          /\ \E k \in worker[r][w].began..tape[n] : cache'[n].rows = 1..k
<1>1. RetrievalInv /\ [RetrievalNext]_rvars => \A n \in Name : cache'[n] # cache[n] => Whole(n)
  <2> SUFFICES ASSUME RetrievalInv, [RetrievalNext]_rvars, NEW n \in Name, cache'[n] # cache[n]
               PROVE  Whole(n)
    OBVIOUS
  <2>1. PICK r \in Resolve : \E w \in Pool(r) : Request(r, w)
    BY DEF RetrievalNext, Resolving, Trade, Start, PoolEnds, Prices, rvars
  <2>2. PICK w \in Pool(r) : WorkerStep(r, w)
    BY <2>1, RequestSteps
  <2>3. PICK rows \in SUBSET (1..MaxTrades) : Keeps(r, w, rows)
    BY <2>2 DEF WorkerStep, Take, Advances, Fails, Fail
  <2>4. cache' = [cache EXCEPT ![worker[r][w].name] = Cached(rows)]
    BY <2>3 DEF Keeps, Keep
  <2>5. n = worker[r][w].name /\ cache'[n].rows = rows
    BY <2>4 DEF RetrievalInv, RetrievalTypes, Cached
  <2> QED
    BY <2>3, <2>5 DEF Keeps
<1>2. RetrievalInv /\ [RetrievalNext]_rvars
        => [\A n \in Name : cache'[n] # cache[n] => Whole(n)]_rvars
  BY <1>1
<1> QED
  BY <1>2, StartsRight, RetrievalStep, PTL DEF RetrievalSpec, RangesAsOfOneMoment
=============================================================================
