----------------------------- MODULE MCOutcomes -----------------------------
(***************************************************************************)
(* What is derived from an event and its structures once they are valued:  *)
(* the perpetual baseline, over a few hours of candles and bars, and what  *)
(* a vertical can lose and ties up.                                        *)
(***************************************************************************)
EXTENDS MCReference, EventBaseline, ResearchMargin

(***************************************************************************)
(* An event of minute 60, on five hourly candles, a few bars of the        *)
(* perpetual, one of them three days later, and some funded hours.         *)
(***************************************************************************)
BaselineInputs ==
    [points : SUBSET {50, 60, 120, 180, 4380}, interval : {None, 60}, funded : {None, {120}, {120, 180}},
     breach : {None, 1, 2, 3}, vpoc : {None, 70, 125, 185}, trade : {<<"long", 0>>, <<"short", 5>>}]

BaselineEvent(in) ==
    [at |-> 60, direction |-> in.trade[1], target |-> 100, vpoc |-> in.vpoc,
     invalidation |-> IF in.trade[1] = "long" THEN 80 ELSE 120, latency |-> in.trade[2], losses |-> {30, 40}]
BaselineCandles(in) ==
    {[opens |-> 60 * k, closes |-> 60 * k + 59, low |-> IF k = in.breach THEN 79 ELSE 90,
      high |-> IF k = in.breach THEN 121 ELSE 110] : k \in 0..4}
Market(in) ==
    [points |-> {[at |-> t, open |-> IF t = 180 THEN None ELSE 100 + t \div 60, close |-> 101] : t \in in.points},
     interval |-> in.interval, fee |-> 1, trades |-> {[at |-> 61, dir |-> "buy"], [at |-> 66, dir |-> "sell"]},
     funding |-> IF in.funded = None THEN None ELSE {[at |-> t, rate |-> t \div 60] : t \in in.funded}]

SoundBaseline(in) ==
    LET event == BaselineEvent(in)
        candles == BaselineCandles(in)
        market == Market(in)
        timing == ResolveEventTiming(event, candles)
        Built(policy) == BuildEventFuturesBaseline(event, candles, market, policy)
        KnownBy(t, policy) ==
            BuildEventFuturesBaseline(
                [event EXCEPT !.vpoc = IF timing.vpoc = None THEN None
                                       ELSE IF timing.vpoc > t THEN None ELSE @],
                {c \in candles : c.closes <= t},
                [market EXCEPT !.points = {p \in @ : p.at <= t},
                               !.funding = IF @ = None THEN None ELSE {f \in @ : f.at <= t},
                               !.trades = {x \in @ : x.at <= t}], policy)
        Result(b) == <<b.entry, b.exit, b.gross, b.fees, b.funding, b.after, b.path, b.quantity>>
        Within(p, decision) == decision <= p.at /\ (in.interval = 60 => p.at < decision + 60)
        Sign == IF event.direction = "long" THEN 1 ELSE -1
    IN /\ timing.sequence = "vpoc_first" /\ timing.breach # None => timing.vpoc <= timing.breach
       /\ timing.sequence = "invalidation_first" /\ timing.vpoc # None => timing.breach < timing.vpoc
       /\ timing.sequence = "ambiguous" => Abs(timing.vpoc - timing.breach) <= timing.unit
       /\ \A policy \in FuturesPolicies :
             LET b == Built(policy)
             IN b.status = "available" =>
                   /\ Within(b.entry, event.at + event.latency)
                   /\ b.exit # None =>
                         /\ Within(b.exit, b.ends[policy].decision) /\ b.exit.at >= b.entry.at
                         /\ in.interval # None => Result(b) = Result(KnownBy(b.exit.at, policy))
                   /\ b.funding.status = "available" =>
                         \A p \in {x \in market.points : b.entry.at <= x.at /\ x.at <= b.exit.at} :
                            LET first == Funding(market, Sign, b.entry, p)
                                rest == Funding(market, Sign, p, b.exit)
                            IN /\ {first.status, rest.status} = {"available"}
                               /\ first.paid + rest.paid = b.funding.paid

\* What each outcome is known by orders the sequence; a fill is a bar of its decision
\* or the interval after it; a result is what was known at its exit; funding of a
\* holding is that of its parts (resolveEventTiming, buildEventFuturesBaseline).
BaselinesAreCausal == [][algorithm' = "baseline" => SoundBaseline(input')]_taken

(***************************************************************************)
(* A vertical of either kind that expires at 4, marked at some of 0..3.    *)
(***************************************************************************)
MarginInputs ==
    {in \in
       [kind : {<<"C", 90, 100>>, <<"P", 100, 90>>, <<"C", 100, 90>>}, sold : {4, 7}, index : {80, 95, 110}, amount : {1, 2},
        marked : SUBSET (0..3), unmarked : {None, 2}, verified : {0, 1}, stated : {0, 1, 2}] :
            in.stated = 0 \/ in.marked = 0..3}
Vertical(in) == [type |-> in.kind[1], short |-> in.kind[2], long |-> in.kind[3], expires |-> 4, amount |-> in.amount,
                 sold |-> in.sold, bought |-> 3, index |-> in.index, fees |-> 1]
MarginMarks(in) == {[at |-> t + in.verified, index |-> in.index - 6 * t, sold |-> IF t = in.unmarked THEN None ELSE 1 + ((3 * t) % 5),
                     bought |-> None] : t \in in.marked}
MarginOf(in, from, to) == ReconstructStandardVerticalMargin(Vertical(in), MarginMarks(in), from, to)
AdversePoints(in) == {[at |-> t, usd |-> IF t = in.unmarked THEN None ELSE in.index - 95 - t, native |-> 1] : t \in in.marked}

SoundLoss(in) ==
    LET v == Vertical(in)
        loss == CanonicalStructuralLoss(v)
        settled == {5 * k : k \in 0..90}
        row == [status |-> "available", usd |-> loss.usd, at |-> loss.at, fees |-> loss.fees, bounded |-> loss.bounded]
        read == ReadCanonicalStructuralLoss(IF in.stated = 0 THEN None ELSE row,
                                            IF in.stated = 2 THEN [row EXCEPT !.usd = @ + 1] ELSE row, v)
        Leg(side, strike, at, expires) ==
            BuildOptionSettlementLedger([side |-> side, type |-> v.type, strike |-> strike, delivery |-> at,
                                         amount |-> v.amount, expires |-> expires])
        Paid(at, expires) == Leg("short", v.short, at, expires).pnl + Leg("long", v.long, at, expires).pnl
        Adverse(to) == EvaluateReferenceAdversePath(AdversePoints(in), 0, to)
    IN /\ loss.status = "available" =>
             /\ \A i \in settled : StructuralValue(v, i) >= StructuralValue(v, loss.at)
             /\ StructuralValue(v, loss.at) < 0 => loss.usd = -StructuralValue(v, loss.at)
             /\ \A i \in settled : StructuralValue(v, i) = NetEntry(v) * v.index + Scale * Paid(i, 9)
             /\ read.status = "available" => read.usd = loss.usd
             /\ (read.status = "available") = (in.stated # 2)
       /\ loss.status = "unavailable" <=> v.type = "C" /\ v.short > v.long
       /\ \A i \in settled \ {0} : Paid(i, 9) = Paid(i, OptionToFutureFrom - 1)
       /\ \A mid \in 1..3 :
             LET whole == MarginOf(in, 0, 9)
                 first == MarginOf(in, 0, mid)
                 rest == MarginOf(in, mid, 9)
             IN whole.status = "available" /\ mid \in {m.at : m \in MarginMarks(in)} =>
                   /\ whole.days = first.days + rest.days
                   /\ whole.peakInitial.value = Larger(first.peakInitial.value, rest.peakInitial.value)
                   /\ first.opening = whole.opening
       /\ \A t, u \in 0..3 :
             LET early == Adverse(t)
                 late == Adverse(u)
             IN t <= u /\ early.status = "available" =>
                   /\ late.status = "available" /\ late.worst <= early.worst
                   /\ early.before # None => late.before = early.before

\* The structural loss bounds every settlement and is attained; the two tables that
\* state it are one number or none; margin days of a holding are those of its parts and
\* no part peaks higher; both settlement rules pay a leg the same; and the worst before a
\* profit is settled by it (canonicalStructuralLoss, readCanonicalStructuralLoss,
\* reconstructStandardVerticalMargin, buildOptionSettlementLedger, evaluateReferenceAdversePath).
LossesAreBounded == [][algorithm' = "margin" => SoundLoss(input')]_taken
=============================================================================
