---------------------------- MODULE TapeExecution ----------------------------
(***************************************************************************)
(* What the recorded tape can support: order clocks, one-leg fills, spread *)
(* executions with a synchronization bound, maker opportunities, and the   *)
(* ladder of delayed entry windows.                                        *)
(*                                                                         *)
(* A print is [name, id, at, dir, amount, price]; a contract's series is   *)
(* [name, prints] or None when its history is unavailable.  Prices and     *)
(* amounts are small integers, so a VWAP is the pair (notional, amount)    *)
(* and a slipped price is carried as notional times 10,000 +- bps.         *)
(***************************************************************************)
EXTENDS Integers, Sequences, FiniteSets, FiniteSetsExt, SequencesExt, TLC

CONSTANT None    \* what a field has that has nothing
ASSUME NoneAssumption == None \notin Int \cup STRING

Abs(n) == IF n < 0 THEN -n ELSE n
Larger(m, n) == IF m > n THEN m ELSE n
Lesser(m, n) == IF m < n THEN m ELSE n

\* The members of a finite set in a strict total order.
InOrder(S, Before(_, _)) ==
    MapThenFoldSet(LAMBDA x, sorted : Append(sorted, x), <<>>, LAMBDA x : x,
                   LAMBDA R : CHOOSE x \in R : \A y \in R \ {x} : Before(y, x), S)

(***************************************************************************)
(* When a signal can be acted on.  Evidence that is only a candle is known *)
(* at the candle's close; other evidence at the later of signal and source.*)
(***************************************************************************)
ExecutionClock(signal, latency, wait) ==
    LET decided == IF signal.precision = "candle" /\ signal.closes # None
                   THEN signal.closes ELSE Larger(signal.at, signal.source)
        ordered == decided + Larger(0, latency)
    IN [decided |-> decided, ordered |-> ordered, ends |-> ordered + Larger(0, wait)]

\* The side of the tape that supports an action: a taker is the aggressor, a
\* maker is filled by the other side's aggressor.
Opposite(side) == IF side = "buy" THEN "sell" ELSE "buy"
TapeDirectionFor(action, mode) == IF mode = "taker" THEN action ELSE Opposite(action)

\* Prints in the order they fill: by time, then by trade id.
FillsBefore(p, q) == p.at < q.at \/ (p.at = q.at /\ p.id < q.id)
InTapeOrder(prints) == InOrder(prints, FillsBefore)

Compatible(series, dir, from, to, atOrder) ==
    {p \in series.prints :
        /\ p.name = series.name /\ p.dir = dir
        /\ IF atOrder THEN p.at >= from ELSE p.at > from
        /\ p.at <= to
        /\ p.amount > 0 /\ p.price >= 0}

\* Consume prints in order until the amount is covered.
Eat(acc, p) ==
    LET used == Lesser(acc.remaining, p.amount)
    IN IF acc.remaining <= 0 THEN acc
       ELSE [remaining |-> acc.remaining - used, notional |-> acc.notional + p.price * used,
             at |-> p.at, ids |-> Append(acc.ids, p.id)]
Consume(prints, amount) ==
    FoldLeft(Eat, [remaining |-> amount, notional |-> 0, at |-> None, ids |-> <<>>], prints)

Slipped(action, notional, bps) ==
    notional * (IF action = "buy" THEN 10000 + bps ELSE 10000 - bps)

TapeFill(series, action, dir, clock, amount, bps, atOrder) ==
    IF series = None THEN [status |-> "missing-contract", filled |-> 0] ELSE
    LET rows == InTapeOrder(Compatible(series, dir, clock.ordered, clock.ends, atOrder))
        used == Consume(rows, amount)
    IN IF used.remaining > 0
       THEN [status |-> IF rows = <<>> THEN "no-fill" ELSE "insufficient-amount",
             filled |-> amount - used.remaining]
       ELSE [status |-> "filled", filled |-> amount, at |-> used.at, ids |-> used.ids,
             vwap |-> used.notional, price |-> Slipped(action, used.notional, bps)]

(***************************************************************************)
(* A spread executes when both legs fill and do so close enough together;  *)
(* a maker's execution is an opportunity and never a fill.                 *)
(***************************************************************************)
Paired(sold, bought, sync, done) ==
    LET complete == sold.status = "filled" /\ bought.status = "filled"
        together == complete /\ Abs(sold.at - bought.at) <= sync
    IN [status |-> IF together THEN done ELSE "no-trade",
        reason |-> IF complete THEN IF together THEN "filled" ELSE "leg-synchronization-exceeded"
                   ELSE IF sold.status = "filled" THEN "long-leg-rejected"
                   ELSE IF bought.status = "filled" THEN "short-leg-rejected"
                   ELSE "both-legs-rejected",
        sold |-> sold, bought |-> bought,
        completed |-> IF together THEN Larger(sold.at, bought.at) ELSE None]

\* Both intents and both modes, from an order at a given time; prints at the
\* order's own millisecond count.
ExecuteHistoricalSpread(spread, intent, mode, order, window, amount, sync, bps) ==
    LET clock == [ordered |-> order, ends |-> order + window]
        soldAction == IF intent = "open" THEN "sell" ELSE "buy"
        Leg(series, action) == TapeFill(series, action, TapeDirectionFor(action, mode),
                                        clock, amount, bps, TRUE)
    IN Paired(Leg(spread.sold, soldAction), Leg(spread.bought, Opposite(soldAction)), sync,
              IF mode = "maker" THEN "opportunity-only" ELSE "filled")

\* The conservative proxy: only prints strictly after the order.
SimulateTakerSpread(spread, clock, amount, bps, sync) ==
    Paired(TapeFill(spread.sold, "sell", "sell", clock, amount, bps, FALSE),
           TapeFill(spread.bought, "buy", "buy", clock, amount, bps, FALSE), sync, "filled")

\* The closing side refuses a decision older than its trigger's evidence.
SimulateTakerExit(spread, clock, triggerAt, amount, bps, sync) ==
    IF triggerAt > clock.decided THEN [status |-> "refused", completed |-> None]
    ELSE Paired(TapeFill(spread.sold, "buy", "buy", clock, amount, bps, FALSE),
                TapeFill(spread.bought, "sell", "sell", clock, amount, bps, FALSE),
                sync, "filled")

\* Opposing volume at the limit, behind an assumed queue; never a fill.
AssessMakerOpportunity(series, action, clock, amount, limit, queue) ==
    LET rows == {p \in (IF series = None THEN {} ELSE series.prints) :
                    /\ p.at > clock.ordered /\ p.at <= clock.ends
                    /\ p.dir = Opposite(action)
                    /\ IF action = "buy" THEN p.price <= limit ELSE p.price >= limit}
        volume == MapThenSumSet(LAMBDA p : p.amount, rows)
    IN [status |-> "opportunity-only",
        filled |-> Lesser(amount, Larger(0, volume - Larger(0, queue)))]

(***************************************************************************)
(* Delayed entries: in each window of the ladder the earliest synchronized *)
(* pair of covered legs, judged against when the thesis resolved.          *)
(***************************************************************************)
\* Every way a leg can be covered by consecutive prints of the window.
RunFrom(rows, k, amount) == Consume(SubSeq(rows, k, Len(rows)), amount)
CoveringRuns(rows, amount) ==
    {[from |-> k, run |-> RunFrom(rows, k, amount)] :
        k \in {j \in DOMAIN rows : RunFrom(rows, j, amount).remaining <= 0}}
LegCandidates(series, action, mode, amount, from, to) ==
    LET rows == InTapeOrder(Compatible(series, TapeDirectionFor(action, mode), from, to, FALSE))
    IN [rows |-> rows, runs |-> CoveringRuns(rows, amount)]

ThesisByVpocOnly(event, entry, expiry) ==
    IF entry >= expiry THEN "expired-before-entry"
    ELSE IF event.vpoc # None /\ event.vpoc <= entry THEN "vpoc-occurred-before-entry"
    ELSE "entered-before-vpoc"

PreEntryResolution(event, entry, expiry) ==
    LET points == {x \in {<<"vpoc", event.vpoc>>, <<"invalidation", event.exit>>} : x[2] # None}
        first == CHOOSE x \in points :
                    \A y \in points : x[2] < y[2] \/ (x[2] = y[2] /\ (x[1] = "vpoc" \/ x = y))
    IN IF entry >= expiry THEN "expired-before-entry"
       ELSE IF points = {} THEN "entered-before-vpoc"
       ELSE IF first[2] = entry THEN "ambiguous-same-timestamp"
       ELSE IF first[2] < entry
            THEN IF first[1] = "vpoc" THEN "vpoc-occurred-before-entry"
                 ELSE "invalidation-occurred-before-entry"
       ELSE IF first[1] = "vpoc" THEN "entered-before-vpoc" ELSE "entered-before-invalidation"

Missed == {"vpoc-occurred-before-entry", "invalidation-occurred-before-entry",
           "ambiguous-same-timestamp", "expired-before-entry"}

\* The pairs of covered legs that complete close enough together, and the
\* earliest of them; of equals, the one that starts first on the tape.
SynchronizedPairs(s, l, sync) == {x \in s \X l : Abs(x[1].run.at - x[2].run.at) <= sync}
Done(x) == Larger(x[1].run.at, x[2].run.at)
NotAfter(x, y) == \/ Done(x) < Done(y)
                  \/ Done(x) = Done(y) /\ x[1].from < y[1].from
                  \/ Done(x) = Done(y) /\ x[1].from = y[1].from /\ x[2].from <= y[2].from
EarliestPair(pairs) == CHOOSE x \in pairs : \A y \in pairs : NotAfter(x, y)

\* What becomes of a pair that completed.  Fees enter as the amount they take
\* from the credit.
Judged(pair, event, mode, policy, expiry) ==
    LET gross == pair[1].run.notional - pair[2].run.notional
        resolution == PreEntryResolution(event, Done(pair), expiry)
        rejected == gross <= 0 \/ (policy.credit /\ gross - policy.fee <= 0)
    IN [status |-> IF resolution \in Missed THEN "missed-entry"
                   ELSE IF rejected THEN "observed-but-policy-rejected"
                   ELSE IF mode = "maker" THEN "delayed observed opportunity"
                   ELSE "delayed taker execution proxy",
        reason |-> IF gross <= 0 THEN "debit-at-delayed-entry"
                   ELSE IF gross - policy.fee <= 0 THEN "nonpositive-net-credit"
                   ELSE None,
        entry |-> Done(pair), resolution |-> resolution]

\* One window of one mode.
DelayedAttempt(spread, event, mode, amount, window, policy, expiry) ==
    LET from == event.at + window.from
        to == Lesser(event.at + window.to, expiry)
        s == LegCandidates(spread.sold, "sell", mode, amount, from, to)
        l == LegCandidates(spread.bought, "buy", mode, amount, from, to)
        pairs == SynchronizedPairs(s.runs, l.runs, policy.sync)
        Unavailable(reason) == [status |-> "unavailable", reason |-> reason, entry |-> None,
                                resolution |-> None]
    IN IF spread.sold = None \/ spread.bought = None THEN Unavailable("missing-exact-contract")
       ELSE IF amount % policy.step # 0 THEN Unavailable("invalid-size-metadata")
       ELSE IF from >= expiry THEN Unavailable("expired-before-entry")
       ELSE IF pairs = {}
            THEN Unavailable(
                   IF expiry <= event.at + window.to THEN "expired-before-entry"
                   ELSE IF s.rows = <<>> THEN "no-compatible-short-evidence"
                   ELSE IF l.rows = <<>> THEN "no-compatible-long-evidence"
                   ELSE IF s.runs = {} THEN "insufficient-short-amount"
                   ELSE IF l.runs = {} THEN "insufficient-long-amount"
                   ELSE "synchronization-failure")
       ELSE Judged(EarliestPair(pairs), event, mode, policy, expiry)

\* The persisted track is the first window whose attempt completed.
Completed == {"delayed observed opportunity", "delayed taker execution proxy"}
DelayedTrack(spread, event, mode, amount, policy, expiry) ==
    LET attempts == [w \in DOMAIN policy.windows |->
                        DelayedAttempt(spread, event, mode, amount, policy.windows[w],
                                       policy, expiry)]
        done == {w \in DOMAIN attempts : attempts[w].status \in Completed}
        ended == {w \in DOMAIN attempts : attempts[w].status \in
                     {"missed-entry", "observed-but-policy-rejected"}}
    IN IF done # {} THEN attempts[Min(done)]
       ELSE [attempts[IF ended # {} THEN Min(ended) ELSE Len(attempts)]
                EXCEPT !.status = "unavailable"]
=============================================================================
