---------------------------- MODULE StrikePlacement ----------------------------
(***************************************************************************)
(* Where the short strike is placed: what the underlying did to it while   *)
(* the structure was open, and the technical placement compared with the   *)
(* buffered one.                                                           *)
(*                                                                         *)
(* A study is [data, event] as DurationReport's; its event adds [extreme,  *)
(* stop, low, high], what its range and its invalidation were, and each    *)
(* candle of its path [at, low, high, close], `at` its opening.  A         *)
(* candidate row adds [short, long, width, structure, type, method, dte]   *)
(* and a row of availability [role, resolved].  Shares of a price or of a  *)
(* credit are thousandths.                                                 *)
(***************************************************************************)
EXTENDS DurationReport

(***************************************************************************)
(* The challenge.  A candle counts that opened in the window; a strike is  *)
(* touched by its extreme and breached by its close.  What fell into one   *)
(* candle has no order, and with the exit in it there is no answer at all. *)
(***************************************************************************)
CandleOf(time) == HourLength * (time \div HourLength)

Touches(c, strike, direction) == IF direction = "long" THEN c.low <= strike ELSE c.high >= strike
ClosesBeyond(c, strike, direction) == IF direction = "long" THEN c.close < strike ELSE c.close > strike

NoChallenge(reason) ==
    [touched |-> None, breached |-> None, firstTouch |-> None, firstBreach |-> None, invalidated |-> None,
     breachFirst |-> None, ambiguousOrder |-> FALSE, ambiguousExit |-> FALSE, unbreached |-> None, candles |-> 0,
     reason |-> reason]

ChallengeOf(path, strike, direction, entry, ends, invalidation, exit) ==
    LET lived == {c \in path : entry <= c.at /\ c.at <= ends}
        touch == FirstOf({c.at : c \in {x \in lived : Touches(x, strike, direction)}})
        breach == FirstOf({c.at : c \in {x \in lived : ClosesBeyond(x, strike, direction)}})
        invalidated == invalidation # None /\ (invalidation # None => entry <= invalidation /\ invalidation <= ends)
        together == breach # None /\ invalidated /\ (invalidated => CandleOf(invalidation) = breach)
    IN IF strike = None \/ direction = None THEN NoChallenge("no_short_strike_or_direction")
       ELSE IF entry = None \/ ends = None THEN NoChallenge("no_observation_window")
       ELSE IF path = {} THEN NoChallenge("no_underlying_path")
       ELSE IF lived = {} THEN NoChallenge("no_candle_in_window")
       ELSE IF exit # None /\ (exit # None => CandleOf(exit) \in {touch, breach})
       THEN [NoChallenge("ambiguous_with_exit") EXCEPT !.invalidated = invalidated, !.ambiguousExit = TRUE]
       ELSE [touched |-> touch # None, breached |-> breach # None, firstTouch |-> touch, firstBreach |-> breach,
             invalidated |-> invalidated,
             breachFirst |-> IF breach = None \/ ~invalidated \/ together THEN None ELSE breach < invalidation,
             ambiguousOrder |-> together, ambiguousExit |-> FALSE, unbreached |-> invalidated /\ breach = None,
             candles |-> Cardinality(lived), reason |-> None]

(***************************************************************************)
(* The thesis exit: the first of target and invalidation in the life of    *)
(* the structure, else settlement; nothing when the two cannot be ordered. *)
(* An outcome of the tables that was not reached silences the event's own  *)
(* time, and one that is ambiguous ends the window and has no result.      *)
(***************************************************************************)
ThesisOutcome(outcomes, r, kind) ==
    LET own == {o \in outcomes : o.id = r.id /\ o.scenario = r.scenario /\ o.kind = kind}
    IN IF own = {} THEN None ELSE CHOOSE o \in own : (\E x \in own : OfStrictRow(x)) => OfStrictRow(o)
OutcomeTime(o) ==
    IF o = None THEN None ELSE IF "decided" \in DOMAIN o THEN o.decided ELSE IF o.at = None THEN None ELSE o.due
OutcomePnl(o) == IF o = None THEN None ELSE IF o.status = "priced" THEN o.pnl ELSE None

ThesisEndpoint(o, ofEvent) ==
    LET missed == o # None /\ (o # None => o.trigger \notin {None, "reached"})
        ambiguous == missed /\ (missed => o.trigger = "ambiguous")
    IN [at |-> IF missed /\ ~ambiguous THEN None ELSE IF ambiguous THEN OutcomeTime(o) ELSE Given(OutcomeTime(o), ofEvent),
        ambiguous |-> ambiguous]
WithinLife(at, r) == at # None /\ r.entry # None /\ (at # None /\ r.entry # None => Lifetime(at, r.entry, r.expiry))

ThesisExit(vpoc, invalidation, r) ==
    LET reached == WithinLife(vpoc.at, r)
        broken == WithinLife(invalidation.at, r)
        ambiguous == vpoc.ambiguous \/ invalidation.ambiguous \/ (reached /\ broken /\ vpoc.at = invalidation.at)
        first == IF reached /\ (broken => vpoc.at < invalidation.at) THEN "vpoc"
                 ELSE IF broken /\ (reached => invalidation.at < vpoc.at) THEN "invalidation"
                 ELSE IF ~reached /\ ~broken THEN "settlement" ELSE "unresolved"
        ofFirst == CASE first = "vpoc" -> vpoc.at [] first = "invalidation" -> invalidation.at [] OTHER -> None
    IN [resolution |-> IF ambiguous THEN "ambiguous_resolution_order" ELSE first, broken |-> broken,
        at |-> IF ofFirst # None THEN ofFirst ELSE IF ambiguous THEN FirstOf({vpoc.at, invalidation.at}) ELSE None]

\* The worst there was, from the reference's own marks or from an execution's.
PlacementAdverse(d, r, boundary) ==
    IF r.track = "reference"
    THEN EvaluateReferenceAdversePath({[at |-> v.at, usd |-> v.pnl, native |-> v.pnl] :
                                           v \in {x \in d.valuations : x.id = r.id /\ x.track = "reference"}},
                                      r.entry, boundary)
    ELSE ObservedAdverse(d, r, r.entry, boundary)

(***************************************************************************)
(* A structure.  Every distance is positive away from the money, whichever *)
(* way the event faces.                                                    *)
(***************************************************************************)
StrikeMethodOf(raw) == CASE raw = "buffered" -> "buffered" [] raw \in {"anchor", "technical"} -> "technical" [] OTHER -> None
OutOfTheMoney(direction, strike, reference) ==
    IF None \in {direction, strike, reference} THEN None
    ELSE IF direction = "long" THEN reference - strike ELSE strike - reference
PerMille(x, whole) == IF x = None \/ whole = None THEN None ELSE IF whole <= 0 THEN None ELSE (1000 * x) \div whole
InDollars(x, y) == IF x = None \/ y = None THEN None ELSE x * y

StrikeGeometry(r, event) ==
    LET spot == Given(r.index, event.price)
        From(reference) == OutOfTheMoney(event.direction, r.short, reference)
        width == Difference(event.high, event.low)
    IN [spot |-> spot, fromSpot |-> From(spot), fromExtreme |-> From(event.extreme), fromStop |-> From(event.stop),
        ofSpot |-> PerMille(From(spot), spot), ofRange |-> PerMille(From(spot), width)]

NormalizeShortStrikeStructure(d, event, r) ==
    LET Of(kind) == ThesisOutcome(d.outcomes, r, kind)
        exit == ThesisExit(ThesisEndpoint(Of("vpoc"), d.event.vpoc), ThesisEndpoint(Of("invalidation"), d.event.breach), r)
        boundary == Given(exit.at, r.expiry)
        settled == OutcomeTime(Of("settlement"))
        geometry == StrikeGeometry(r, event)
        Credit(part) == IF r.status = "evaluated" THEN InDollars(FieldOf(r.native, part), geometry.spot) ELSE None
        pnl == [vpoc |-> OutcomePnl(Of("vpoc")),
                invalidation |-> IF exit.broken THEN OutcomePnl(Of("invalidation")) ELSE None,
                settlement |-> IF settled = None \/ WithinLife(settled, r) THEN OutcomePnl(Of("settlement")) ELSE None]
    IN [event |-> event.id, id |-> r.id, scenario |-> r.scenario, status |-> r.status,
        track |-> IF r.track = "reference" THEN r.track ELSE r.scenario, method |-> StrikeMethodOf(r.method), direction |-> event.direction,
        short |-> r.short, long |-> r.long, width |-> r.width, expiry |-> r.expiry, dte |-> r.dte,
        key |-> <<event.id, r.expiry, r.dte, r.width, r.structure, r.type>>, geometry |-> geometry,
        challenge |-> ChallengeOf(event.path, r.short, event.direction, r.entry, boundary, d.event.breach, exit.at),
        gross |-> Credit("gross"), net |-> Credit("net"), pnl |-> pnl, resolution |-> exit.resolution, exit |-> exit.at,
        realized |-> IF exit.resolution \in DOMAIN pnl THEN pnl[exit.resolution] ELSE None,
        adverse |-> PlacementAdverse(d, r, boundary)]
NormalizeShortStrikeStructures(study) ==
    {NormalizeShortStrikeStructure(study.data, study.event, r) : r \in study.data.candidates}

(***************************************************************************)
(* Matched pairs: one technical and one buffered structure of a key, the   *)
(* second exactly one strike step out with both legs.  What is in no pair  *)
(* is listed with the reason.                                              *)
(***************************************************************************)
OfMethod(rows, method) == {s \in rows : s.method = method}
BufferEligible(s) == /\ s.geometry.fromExtreme # None
                     /\ s.geometry.fromExtreme # None => s.geometry.fromExtreme \in 0..(Buffer - 1)
OneStepOut(t, b) == /\ OutOfTheMoney(t.direction, b.short, t.short) = Thousand
                    /\ OutOfTheMoney(t.direction, b.long, t.long) = Thousand

PairOf(t, b) ==
    LET comparable == t.status = "evaluated" /\ b.status = "evaluated"
        Gain(x, y) == IF comparable THEN Difference(x, y) ELSE None
        sacrificed == Gain(t.gross, b.gross)
    IN [event |-> t.event, technical |-> t, buffered |-> b, comparable |-> comparable,
        further |-> Difference(b.geometry.fromSpot, t.geometry.fromSpot),
        grossSacrificed |-> sacrificed, netSacrificed |-> Gain(t.net, b.net),
        relativeSacrifice |-> PerMille(sacrificed, IF t.gross = None THEN None ELSE Abs(t.gross)),
        adverseReduction |-> Gain(b.adverse.worst, t.adverse.worst),
        maeReduction |-> Gain(b.adverse.before, t.adverse.before),
        realizedDelta |-> Difference(b.realized, t.realized)]

MatchPlacements(structures) ==
    LET groups == {{x \in structures : x.key = s.key} : s \in structures}
        twofold == {g \in groups : Cardinality(OfMethod(g, "technical")) = 1 /\ Cardinality(OfMethod(g, "buffered")) = 1}
        Member(g, method) == CHOOSE s \in g : s.method = method
        Matches(g) ==
            LET t == Member(g, "technical")
            IN (t.geometry.fromExtreme = None \/ BufferEligible(t)) /\ OneStepOut(t, Member(g, "buffered"))
        Reason(g) ==
            IF g \in twofold
            THEN IF Member(g, "technical").geometry.fromExtreme = None \/ BufferEligible(Member(g, "technical"))
                 THEN "not_one_step_out" ELSE "not_buffer_eligible"
            ELSE IF OfMethod(g, "technical") = {} THEN "no_technical"
            ELSE IF OfMethod(g, "buffered") = {} THEN "no_buffered" ELSE "ambiguous_pairing"
        Left(g) == IF g \in twofold THEN {Member(g, "technical"), Member(g, "buffered")} ELSE g
    IN [pairs |-> {PairOf(Member(g, "technical"), Member(g, "buffered")) : g \in {x \in twofold : Matches(x)}},
        unpaired |-> UNION {{[structure |-> s, reason |-> Reason(g)] : s \in Left(g)} :
                               g \in {x \in groups : x \in twofold => ~Matches(x)}}]

(***************************************************************************)
(* The tables.  A width is no further observation of one short strike, and *)
(* an event weighs the same however many pairs it has.                     *)
(***************************************************************************)
Side(p, method) == IF method = "technical" THEN p.technical ELSE p.buffered
GeometryRow(pairs, method) ==
    LET Median(Of(_)) == MedianOver(pairs, LAMBDA p : Of(Side(p, method).geometry))
    IN [n |-> Cardinality(pairs), spot |-> Median(LAMBDA g : g.fromSpot), extreme |-> Median(LAMBDA g : g.fromExtreme),
        stop |-> Median(LAMBDA g : g.fromStop),
        ofSpot |-> Median(LAMBDA g : g.ofSpot), ofRange |-> Median(LAMBDA g : g.ofRange)]

WidestPer(S, Key(_), WidthOf(_)) ==
    {CHOOSE x \in S : Key(x) = k /\ \A y \in S : Key(y) = k => WidthOf(y) <= WidthOf(x) : k \in {Key(x) : x \in S}}
Observable(s) == s.challenge.reason = None
ChallengeRow(pairs, method) ==
    LET rows == WidestPer({Side(p, method) : p \in pairs}, LAMBDA s : <<s.event, s.expiry, s.short>>, LAMBDA s : s.width)
        observable == {s \in rows : Observable(s)}
        touched == {s \in observable : s.challenge.touched}
        breached == {s \in observable : s.challenge.breached}
    IN [observable |-> Cardinality(observable), events |-> Cardinality({s.event : s \in observable}),
        breachFirst |-> Cardinality({s \in observable : s.challenge.breachFirst = TRUE}),
        unbreached |-> Cardinality({s \in observable : s.challenge.unbreached}),
        ambiguous |-> Cardinality({s \in observable : s.challenge.ambiguousOrder}),
        withExit |-> Cardinality({s \in rows : s.challenge.ambiguousExit}),
        touched |-> Share(observable, touched), breached |-> Share(observable, breached)]

ConditionalBuckets == {"breached", "touched_not_breached", "never_touched"}
ChallengeBucketOf(s) ==
    IF ~Observable(s) THEN None
    ELSE IF s.challenge.breached THEN "breached" ELSE IF s.challenge.touched THEN "touched_not_breached" ELSE "never_touched"
ConditionalRow(pairs, bucket) ==
    LET within == {p \in pairs : ChallengeBucketOf(p.technical) = bucket}
        Both(Of(_)) == {p \in within : Of(p.technical) # None /\ Of(p.buffered) # None}
        priced == Both(LAMBDA s : s.realized)
        marked == Both(LAMBDA s : s.adverse.worst)
    IN [n |-> Cardinality(within), events |-> Cardinality({p.event : p \in within}), priced |-> Cardinality(priced),
        marked |-> Cardinality(marked),
        pnl |-> [m \in {"technical", "buffered"} |-> MedianOver(priced, LAMBDA p : Side(p, m).realized)],
        worst |-> [m \in {"technical", "buffered"} |-> MedianOver(marked, LAMBDA p : Side(p, m).adverse.worst)],
        pnlDelta |-> MedianOver(priced, LAMBDA p : p.realizedDelta),
        worstDelta |-> MedianOver(marked, LAMBDA p : Difference(p.buffered.adverse.worst, p.technical.adverse.worst)),
        becomes |-> [b \in ConditionalBuckets |-> Cardinality({p \in within : ChallengeBucketOf(p.buffered) = b})]]

EventMedian(pairs, Of(_)) ==
    LET perEvent == {[event |-> e, value |-> MedianOver({p \in pairs : p.event = e}, Of)] : e \in {p.event : p \in pairs}}
        known == KnownOf(perEvent, LAMBDA x : x.value)
    IN [value |-> MedianOver(known, LAMBDA x : x.value), events |-> Cardinality(known)]
EventWeighted(pairs) ==
    [grossSacrificed |-> EventMedian(pairs, LAMBDA p : p.grossSacrificed),
     netSacrificed |-> EventMedian(pairs, LAMBDA p : p.netSacrificed),
     relativeSacrifice |-> EventMedian(pairs, LAMBDA p : p.relativeSacrifice),
     adverseReduction |-> EventMedian(pairs, LAMBDA p : p.adverseReduction),
     maeReduction |-> EventMedian(pairs, LAMBDA p : p.maeReduction),
     realizedDelta |-> EventMedian(pairs, LAMBDA p : p.realizedDelta)]

\* Buffered less technical, of the pairs of which both can be observed.
EventWeightedBreachDifference(pairs) ==
    LET both == {p \in pairs : Observable(p.technical) /\ Observable(p.buffered)}
        unique == WidestPer(both, LAMBDA p : <<p.event, p.technical.expiry, p.technical.short, p.buffered.short>>,
                            LAMBDA p : p.technical.width)
        Breached(S, method) == Cardinality({p \in S : Side(p, method).challenge.breached})
        perEvent == {LET own == {p \in unique : p.event = e}
                     IN [event |-> e, value |-> PerMille(Breached(own, "buffered") - Breached(own, "technical"), Cardinality(own))] :
                        e \in {p.event : p \in unique}}
    IN [value |-> MedianOver(perEvent, LAMBDA x : x.value), events |-> Cardinality(perEvent), n |-> Cardinality(unique)]

\* The rows of the generation that asked for a placement, when there are any.
PlacementProvenance(studies) ==
    LET rows == UNION {{[event |-> s.event.id, row |-> a] :
                           a \in {x \in s.data.availability : FieldOf(x, "role") \in ControlledResearchRoles}} : s \in studies}
        buffered == {x \in rows : x.row.role = "short_strike_buffered"}
    IN [known |-> rows # {}, technical |-> Cardinality(rows \ buffered), requested |-> Cardinality(buffered),
        resolved |-> Cardinality({x \in buffered : x.row.resolved})]

ShortStrikeSummary(studies, structures, matched) ==
    LET asked == PlacementProvenance(studies)
        pairs == matched.pairs
        technical == OfMethod(structures, "technical")
        comparable == {p \in pairs : p.comparable}
        eligible == IF asked.known THEN asked.requested
                    ELSE Cardinality({s \in technical : BufferEligible(s) \/ \E p \in pairs : p.technical.id = s.id})
        Of(method) == Cardinality({u \in matched.unpaired : u.structure.method = method})
        Median(Value(_)) == MedianOver(comparable, Value)
        observable == {p \in pairs : Observable(p.technical) /\ Observable(p.buffered)}
        marked == {p \in pairs : p.technical.adverse.worst # None /\ p.buffered.adverse.worst # None}
    IN [pairs |-> Cardinality(pairs), events |-> Cardinality({p.event : p \in pairs}),
        coverage |-> <<Cardinality(pairs), eligible>>, eligible |-> eligible,
        technical |-> IF asked.known THEN asked.technical ELSE Cardinality(technical),
        resolved |-> IF asked.known THEN asked.resolved ELSE Cardinality(pairs),
        buffered |-> Cardinality(OfMethod(structures, "buffered")), economic |-> Cardinality(comparable),
        observable |-> Cardinality(observable), observableEvents |-> Cardinality({p.event : p \in observable}),
        marked |-> Cardinality(marked), markedEvents |-> Cardinality({p.event : p \in marked}),
        unmatched |-> [m \in {"technical", "buffered"} |-> Of(m)],
        grossSacrificed |-> Median(LAMBDA p : p.grossSacrificed), netSacrificed |-> Median(LAMBDA p : p.netSacrificed),
        relativeSacrifice |-> Median(LAMBDA p : p.relativeSacrifice),
        adverseReduction |-> Median(LAMBDA p : p.adverseReduction), maeReduction |-> Median(LAMBDA p : p.maeReduction),
        further |-> MedianOver(pairs, LAMBDA p : p.further), breachDifference |-> EventWeightedBreachDifference(pairs),
        eventWeighted |-> EventWeighted(comparable)]

(***************************************************************************)
(* The report: of the controlled cohort under the reference, or of the     *)
(* selected one as an execution scenario left it.                          *)
(***************************************************************************)
PlacementScope(study, scenario) ==
    [study EXCEPT !.data = IF scenario = "reference" THEN DatasetForAnalyticsTrack(@, "reference", "controlled-research")
                           ELSE DatasetForAnalyticsCohort(@, "selected")]
BuildShortStrikeReport(studies, scenario) ==
    LET scoped == {PlacementScope(s, scenario) : s \in studies}
        structures == {s \in UNION {NormalizeShortStrikeStructures(x) : x \in scoped} : s.track = scenario}
        matched == MatchPlacements(structures)
    IN matched @@
       [structures |-> structures, summary |-> ShortStrikeSummary(scoped, structures, matched),
        geometry |-> [m \in {"technical", "buffered"} |-> GeometryRow(matched.pairs, m)],
        challenge |-> [m \in {"technical", "buffered"} |-> ChallengeRow(matched.pairs, m)],
        conditional |-> [b \in ConditionalBuckets |-> ConditionalRow(matched.pairs, b)]]
=============================================================================
