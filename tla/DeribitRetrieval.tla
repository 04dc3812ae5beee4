-------------------------- MODULE DeribitRetrieval --------------------------
(***************************************************************************)
(* Retrieving the trades of the contracts a resolve has selected           *)
(* (scripts/deribit-history-api.ts, scripts/deribit-api-client.ts): a pool *)
(* of workers takes the instruments in order; each asks for the first and  *)
(* the last trade of the window at once, then for the pages of sequence    *)
(* numbers between them, on a tape that keeps growing until the contract   *)
(* expires.  Requests are throttled, refused and answered with rows        *)
(* missing or contradicting one another; complete ranges are cached for    *)
(* the life of the process.  The instruments a resolve has selected are    *)
(* the constant Jobs.                                                      *)
(***************************************************************************)
EXTENDS Naturals, Sequences, FiniteSets, FiniteSetsExt, SequencesExt

CONSTANTS Resolve,      \* the calls of resolve
          Concurrency,  \* the workers of one pool, at most
          Trading,      \* the contracts that have not expired
          Printed,      \* Printed[n]: trades in n's window at the start
          Name,         \* instrument names
          Jobs,         \* Jobs[r]: the instruments r selects, in order
          Candidates,   \* Candidates[r]: the sets of legs of r's candidates
          MaxTrades,    \* bound: trades one window ever holds
          PageSize,     \* MAX_COUNT
          MaxAttempts   \* attempts one request is given (5)

ASSUME RetrievalAssumption ==
    /\ Jobs \in [Resolve -> Seq(Name)]
    /\ \A r \in Resolve : \A i, j \in 1..Len(Jobs[r]) : Jobs[r][i] = Jobs[r][j] => i = j
    /\ \A r \in Resolve : Candidates[r] \subseteq SUBSET Range(Jobs[r])
    /\ Trading \subseteq Name /\ Concurrency \in Nat \ {0}
    /\ MaxTrades \in Nat /\ Printed \in [Name -> 0..MaxTrades]
    /\ PageSize \in Nat \ {0} /\ MaxAttempts \in Nat \ {0}

VARIABLES tape,       \* tape[n]: trades 1..tape[n] are printed in n's window
          cache,      \* tradeCache: the sequence numbers kept, or NotCached
          cursor,     \* cursor[r]: how many jobs r's workers have taken
          worker,     \* worker[r][w]: what the worker is doing
          files,      \* files[r]: the ranges retrieved, by name
          failures,   \* failures[r]: the failed names
          stage       \* where each call of resolve is

rvars == <<tape, cache, cursor, worker, files, failures, stage>>

NotCached == [kept |-> FALSE, rows |-> {}]
Cached(rows) == [kept |-> TRUE, rows |-> rows]

\* The workers of r's pool: no more than it has jobs.
Pool(r) == 1..Min({Concurrency, Len(Jobs[r])})

Stage == {"idle", "pool", "prices", "answered"}

\* A bound of the window that is not known yet.
Unknown == MaxTrades + 1

\* What a worker between two jobs holds, and one that takes name.
Free == [at |-> "free", name |-> CHOOSE n \in Name : TRUE, began |-> 0,
         first |-> Unknown, last |-> Unknown, from |-> 1, got |-> {},
         tries |-> [q \in {"first", "last", "page"} |-> 0]]
Asking(name) == [Free EXCEPT !.at = "asking", !.name = name, !.began = tape[name]]

WorkerState ==
    [at : {"free", "asking", "paging"}, name : Name, began : 0..MaxTrades,
     first : 0..Unknown, last : 0..Unknown, from : 1..(MaxTrades + PageSize + 1),
     got : SUBSET (1..MaxTrades),
     tries : [{"first", "last", "page"} -> 0..(MaxAttempts - 1)]]

RetrievalTypes ==
    /\ tape \in [Name -> 0..MaxTrades]
    /\ cache \in [Name -> [kept : BOOLEAN, rows : SUBSET (1..MaxTrades)]]
    /\ \A r \in Resolve : cursor[r] \in 0..Len(Jobs[r])
    /\ \A r \in Resolve : worker[r] \in [Pool(r) -> WorkerState]
    /\ \A r \in Resolve :
         /\ DOMAIN files[r] \subseteq Range(Jobs[r])
         /\ \A n \in DOMAIN files[r] : files[r][n] \subseteq 1..MaxTrades
         /\ failures[r] \subseteq Range(Jobs[r])
    /\ stage \in [Resolve -> Stage]

RetrievalInit ==
    /\ tape = Printed
    /\ cache = [n \in Name |-> NotCached]
    /\ cursor = [r \in Resolve |-> 0]
    /\ worker = [r \in Resolve |-> [w \in Pool(r) |-> Free]]
    /\ files = [r \in Resolve |-> <<>>]
    /\ failures = [r \in Resolve |-> {}]
    /\ stage = [r \in Resolve |-> "idle"]

-----------------------------------------------------------------------------
\* The exchange prints one more trade of a contract that has not expired.
Trade(n) ==
    /\ n \in Trading /\ tape[n] < MaxTrades
    /\ tape' = [tape EXCEPT ![n] = @ + 1]
    /\ UNCHANGED <<cache, cursor, worker, files, failures, stage>>

-----------------------------------------------------------------------------
\* The instruments are selected and the workers start, each with a job of its
\* own; one whose range is cached is done with it at once.
Start(r) ==
    /\ stage[r] = "idle"
    /\ stage' = [stage EXCEPT ![r] = "pool"]
    /\ cursor' = [cursor EXCEPT ![r] = Cardinality(Pool(r))]
    /\ worker' = [worker EXCEPT ![r] = [w \in Pool(r) |->
                    IF cache[Jobs[r][w]].kept THEN Free ELSE Asking(Jobs[r][w])]]
    /\ files' = [files EXCEPT ![r] =
                    [n \in {Jobs[r][w] : w \in {v \in Pool(r) : cache[Jobs[r][v]].kept}} |->
                       cache[n].rows]]
    /\ UNCHANGED <<tape, cache, failures>>

\* The range of one more instrument among those retrieved.
Pushed(ranges, name, rows) ==
    [n \in DOMAIN ranges \union {name} |-> IF n = name THEN rows ELSE ranges[n]]

\* A worker is done with its job: it keeps the range, or records the failure;
\* the others go on.
Ends(r, w) == worker' = [worker EXCEPT ![r][w] = Free]
Keep(r, w, rows) ==
    /\ files' = [files EXCEPT ![r] = Pushed(@, worker[r][w].name, rows)]
    /\ cache' = [cache EXCEPT ![worker[r][w].name] = Cached(rows)]
    /\ Ends(r, w)
    /\ UNCHANGED failures
Fail(r, w) ==
    /\ failures' = [failures EXCEPT ![r] = @ \union {worker[r][w].name}]
    /\ Ends(r, w)
    /\ UNCHANGED <<files, cache>>

\* A free worker takes the next job: a cached range is the answer at once.
Take(r, w) ==
    /\ stage[r] = "pool" /\ worker[r][w].at = "free" /\ cursor[r] < Len(Jobs[r])
    /\ cursor' = [cursor EXCEPT ![r] = @ + 1]
    /\ LET name == Jobs[r][cursor[r] + 1]
       IN  IF cache[name].kept
           THEN /\ files' = [files EXCEPT ![r] = Pushed(@, name, cache[name].rows)]
                /\ UNCHANGED worker
           ELSE /\ worker' = [worker EXCEPT ![r][w] = Asking(name)]
                /\ UNCHANGED files
    /\ UNCHANGED <<tape, cache, failures, stage>>

\* The first and the last trade of the window, two requests side by side.  A
\* window without trades is cached as empty.
Boundary(r, w, q) ==
    LET me == worker[r][w]
        seen == IF tape[me.name] = 0 THEN 0 ELSE IF q = "first" THEN 1 ELSE tape[me.name]
        now == IF q = "first" THEN [me EXCEPT !.first = seen, !.tries[q] = 0]
                             ELSE [me EXCEPT !.last = seen, !.tries[q] = 0]
    IN  /\ me.at = "asking" /\ (IF q = "first" THEN me.first ELSE me.last) = Unknown
        /\ IF Unknown \in {now.first, now.last}
           THEN worker' = [worker EXCEPT ![r][w] = now] /\ UNCHANGED <<files, cache, failures>>
           ELSE IF 0 \in {now.first, now.last} THEN Keep(r, w, {})
           ELSE /\ worker' = [worker EXCEPT ![r][w] = [now EXCEPT !.at = "paging", !.from = now.first]]
                /\ UNCHANGED <<files, cache, failures>>
        /\ UNCHANGED <<tape, cursor, stage>>

\* Mutant of Covered: the range is not checked for missing numbers.
CoveredUnchecked(me, got) == got # {}

\* Every number between the first and the last trade was received.
Covered(me, got) == me.first..me.last \subseteq got

\* The page a worker has asked for.
PageOf(me) == IF me.at = "paging" THEN me.from..Min({me.from + PageSize - 1, me.last}) ELSE {}

\* A page of sequence numbers arrives: with every row, or short of some, or
\* contradicting a row received before.  After the last page a range with a
\* number missing is refused.
Page(r, w, rows, conflict) ==
    LET me == worker[r][w]
        pageEnd == Min({me.from + PageSize - 1, me.last})
        got == me.got \union rows
    IN  /\ me.at = "paging"
        /\ rows \subseteq PageOf(me)
        /\ conflict => rows # {}
        /\ IF conflict THEN Fail(r, w)
           ELSE IF pageEnd < me.last
           THEN /\ worker' = [worker EXCEPT ![r][w] =
                       [me EXCEPT !.got = got, !.from = pageEnd + 1, !.tries["page"] = 0]]
                /\ UNCHANGED <<files, cache, failures>>
           ELSE IF Covered(me, got) THEN Keep(r, w, got)
           ELSE Fail(r, w)
        /\ UNCHANGED <<tape, cursor, stage>>

\* The requests a worker has in flight.
InFlight(me) ==
    CASE me.at = "asking" -> {q \in {"first", "last"} :
                                (IF q = "first" THEN me.first ELSE me.last) = Unknown}
      [] me.at = "paging" -> {"page"}
      [] OTHER -> {}

\* Mutants of Throttle: one attempt too many; the attempts are not counted.
ThrottleOnceMore(r, w, q) ==
    /\ q \in InFlight(worker[r][w])
    /\ IF worker[r][w].tries[q] < MaxAttempts
       THEN /\ worker' = [worker EXCEPT ![r][w].tries[q] = @ + 1]
            /\ UNCHANGED <<files, cache, failures>>
       ELSE Fail(r, w)
    /\ UNCHANGED <<tape, cursor, stage>>
ThrottleForever(r, w, q) ==
    /\ q \in InFlight(worker[r][w])
    /\ worker' = [worker EXCEPT ![r][w].tries[q] = (@ + 1) % MaxAttempts]
    /\ UNCHANGED <<tape, cache, cursor, files, failures, stage>>

\* A request is answered 408, 429 or 5xx: it is tried again, and the last
\* attempt fails "after retries".
Throttle(r, w, q) ==
    LET me == worker[r][w]
    IN  /\ q \in InFlight(me)
        /\ IF me.tries[q] + 1 < MaxAttempts
           THEN /\ worker' = [worker EXCEPT ![r][w].tries[q] = @ + 1]
                /\ UNCHANGED <<files, cache, failures>>
           ELSE Fail(r, w)
        /\ UNCHANGED <<tape, cursor, stage>>

\* Any other refusal, an error payload or a broken connection: no second try.
Refuse(r, w) ==
    /\ InFlight(worker[r][w]) # {}
    /\ Fail(r, w)
    /\ UNCHANGED <<tape, cursor, stage>>

\* Mutant of PoolEnds: the pool gives up at the first failure.
PoolEndsEarly(r) ==
    /\ stage[r] = "pool" /\ failures[r] # {}
    /\ stage' = [stage EXCEPT ![r] = "prices"]
    /\ UNCHANGED <<tape, cache, cursor, worker, files, failures>>

\* Every worker has found the jobs taken and has ended.
PoolEnds(r) ==
    /\ stage[r] = "pool" /\ cursor[r] = Len(Jobs[r])
    /\ \A w \in Pool(r) : worker[r][w].at = "free"
    /\ stage' = [stage EXCEPT ![r] = "prices"]
    /\ UNCHANGED <<tape, cache, cursor, worker, files, failures>>

\* The delivery prices come or do not come: the answer is given either way.
Prices(r) ==
    /\ stage[r] = "prices"
    /\ stage' = [stage EXCEPT ![r] = "answered"]
    /\ UNCHANGED <<tape, cache, cursor, worker, files, failures>>

Request(r, w) ==
    \/ Take(r, w)
    \/ \E q \in {"first", "last"} : Boundary(r, w, q)
    \/ \E rows \in SUBSET PageOf(worker[r][w]), conflict \in BOOLEAN : Page(r, w, rows, conflict)
    \/ \E q \in {"first", "last", "page"} : Throttle(r, w, q)
    \/ Refuse(r, w)

Resolving(r) ==
    \/ Start(r)
    \/ \E w \in Pool(r) : Request(r, w)
    \/ PoolEnds(r)
    \/ Prices(r)

RetrievalNext == (\E n \in Name : Trade(n)) \/ (\E r \in Resolve : Resolving(r))

\* The event loop runs every call on: something in it is answered, or fails, in
\* the end.  Which of its requests, and with what answer, is not said.
RetrievalFairness == \A r \in Resolve : WF_rvars(Resolving(r))

RetrievalSpec == RetrievalInit /\ [][RetrievalNext]_rvars /\ RetrievalFairness

-----------------------------------------------------------------------------
\* The answer: complete, and a candidate is unavailable when a leg failed.
Complete(r) == failures[r] = {}
Unavailable(r) == {c \in Candidates[r] : c \intersect failures[r] # {}}

\* A range is cached only as the tape stood at some moment between the
\* worker's taking the job and its last page: nothing is missing before, in
\* the middle of, or after it, whatever rows the answers left out and however
\* many trades were printed between two of the requests.
RangesAsOfOneMoment ==
    [][\A n \in Name : cache'[n] # cache[n] =>
         \E r \in Resolve : \E w \in Pool(r) :
           /\ worker[r][w].name = n
           /\ \E k \in worker[r][w].began..tape[n] : cache'[n].rows = 1..k]_rvars

\* When a resolve answers, every selected instrument is either among the files
\* or among the failures, and a candidate is available exactly when the ranges
\* of all its legs are there: no worker's failure loses another's job.
AnswersAccountForEveryLeg ==
    \A r \in Resolve : stage[r] \in {"prices", "answered"} =>
      /\ DOMAIN files[r] \union failures[r] = Range(Jobs[r])
      /\ DOMAIN files[r] \intersect failures[r] = {}
      /\ \A c \in Candidates[r] \ Unavailable(r) : c \subseteq DOMAIN files[r]
      /\ Complete(r) => Unavailable(r) = {}

\* Every resolve ends, however often its requests are throttled or refused.
ResolvesEnd == <>(\A r \in Resolve : stage[r] = "answered")
=============================================================================
