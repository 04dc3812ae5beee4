---------------------------- MODULE MCReference ----------------------------
(***************************************************************************)
(* The research valuation of one put spread, entered at minute 1000 and    *)
(* expiring at 2000: any of a few prints of its legs, with or without the  *)
(* ladder that a smile needs.                                              *)
(***************************************************************************)
EXTENDS MCVolatility, ResearchValuation, ResearchTracks

Expires == 2000
LegPrint(n, i, t, k, d, p, v) ==
    [Option(n, i, t, k, "P", Expires, v, 100) EXCEPT !.price = p] @@ [seq |-> 0, dir |-> d, amount |-> 1]

SoldPrints == {LegPrint(3, 31, 400, 110, "buy", 9, 3), LegPrint(3, 32, 950, 110, "sell", 9, 3),
               LegPrint(3, 33, 1010, 110, "sell", 9, 4), LegPrint(3, 34, 1015, 110, "buy", 8, 2),
               LegPrint(3, 35, 1150, 110, "buy", 6, 2)}
BoughtPrints == {LegPrint(2, 20, 430, 90, "buy", 4, 1), LegPrint(2, 21, 940, 90, "sell", 4, 2), LegPrint(2, 22, 1012, 90, "buy", 4, 2),
                 LegPrint(2, 23, 1060, 90, "sell", 3, 1), LegPrint(2, 24, 1160, 90, "sell", 3, None)}
Ladder == {LegPrint(1, 11, 970, 70, "buy", 2, 1), LegPrint(4, 41, 975, 80, "buy", 3, 2),
           LegPrint(5, 51, 980, 100, "buy", 6, 2), LegPrint(6, 61, 985, 120, "buy", 9, 3),
           LegPrint(7, 71, 990, 130, "buy", 9, 3), LegPrint(6, 62, 1020, 120, "buy", 9, 5),
           LegPrint(1, 12, 1100, 70, "buy", 2, 1), LegPrint(4, 42, 1100, 80, "buy", 3, 1),
           LegPrint(5, 52, 1100, 100, "buy", 6, 2), LegPrint(6, 63, 1100, 120, "buy", 9, 2),
           LegPrint(7, 72, 1100, 130, "buy", 9, 3)}
Thin == {LegPrint(5, 53, 960, 100, "buy", 6, 2), LegPrint(5, 54, 1080, 100, "buy", 6, 2),
         LegPrint(5, 55, 1790, 100, "buy", 6, 2)}
UpToThree(prints) == {S \in SUBSET prints : Cardinality(S) <= 3}
ReferenceInputs == [sold : UpToThree(SoldPrints), bought : UpToThree(BoughtPrints), ladder : {{}, Thin, Ladder},
                    broken : {1300}, delivery : {95}]

\* Everything as it was known at a minute.
UpTo(in, t) == [in EXCEPT !.sold = {p \in @ : p.at <= t}, !.bought = {p \in @ : p.at <= t},
                          !.ladder = {p \in @ : p.at <= t}]
ReferenceSpread(in) ==
    [sold |-> [name |-> 3, type |-> "P", strike |-> 110, expiry |-> Expires, prints |-> in.sold],
     bought |-> [name |-> 2, type |-> "P", strike |-> 90, expiry |-> Expires, prints |-> in.bought],
     ready |-> TRUE, expiry |-> Expires, delivery |-> in.delivery, official |-> TRUE,
     section |-> IF in.ladder = {} THEN <<>> ELSE TapeOf(in.sold \cup in.bought \cup in.ladder)]
Request(in) == [spread |-> ReferenceSpread(in), at |-> 1000, index |-> 100, amount |-> 1, bps |-> 0,
                route |-> "separate-legs", order |-> 1000, window |-> None, sync |-> LegGap]
Layers(in) == EvaluateResearchEntryLayers(Request(in))
HourCandles(in) == {[opens |-> t, closes |-> t + 100, price |-> IF t + 100 = in.broken THEN 60 ELSE 100] :
                        t \in {900 + 100 * k : k \in 0..10}}
Times == {1000, 1120, 1400, 1800, Expires}
Path(in, entry) ==
    BuildEstimatedPath(ReferenceSpread(in), Times, HourCandles(in), entry, "taker", 0, "separate-legs")
Outcomes(in, entry, path) ==
    BuildResearchOutcomes([direction |-> "long", vpoc |-> 1120, invalidation |-> 80], ReferenceSpread(in),
                          1000, entry, path, HourCandles(in), 120)

SoundValues(in) ==
    LET layers == Layers(in)
        model == layers.model.estimate
        Together(e) == /\ e.sold.model.at <= 1000 /\ e.bought.model.at <= 1000
                       /\ Abs(e.sold.model.at - e.bought.model.at) <= LegGap
        OneSided(m) == [in EXCEPT
                           !.sold = {p \in @ : p.dir = TapeDirectionFor("sell", m)},
                           !.bought = {p \in @ : p.dir = TapeDirectionFor("buy", m)}]
        Fill(e) == IF e.status = "priced" THEN <<e.per, e.fees, e.completed>> ELSE e.status
        Marked(point) == <<point.at, point.model, point.pnl>>
        Point(given, at) == EstimatedPoint(ReferenceSpread(given), HourCandles(given), model, "taker", 0,
                                        "separate-legs", at)
        Reached(o) == <<o.label, o.due, o.at, o.pnl>>
        Dated(outcomes, at) == {Reached(o) : o \in {x \in outcomes : x.at = at /\ x.status = "estimated"}}
        \* The short leg's volatility as an exported row shows it.
        ShownIv(point) ==
            LET leg == Primary2(point).sold
            IN LegVolatility([anchor |-> IF leg.model = None THEN None ELSE leg.model.variance,
                              source |-> leg.source], None, point.source)
        PathIsCausal ==
            LET path == Path(in, model)
                outcomes == Outcomes(in, model, path)
            IN \A k \in DOMAIN path :
                   LET point == path[k]
                   IN /\ Marked(point) = Marked(Point(UpTo(in, point.at), point.at))
                      /\ point.raw # None =>
                             point.raw = Point(UpTo(in, point.raw.completed), point.at).raw
                      /\ point.status = "priced" /\ ShownIv(point).observation = "observed" =>
                             \E p \in in.sold : /\ p.at = Primary2(point).sold.model.at /\ p.at <= point.at
                                                   /\ FromPrint(p) = Primary2(point).sold.model
                      /\ \A o \in Dated(outcomes, point.at) : o[2] <= o[3]
                      /\ Dated(outcomes, point.at)
                            = Dated(Outcomes(in, model, SubSeq(path, 1, k)), point.at)
        Twice(e) == ScaleResearchEstimate(e, 2, "separate-legs")
        ScalesWithAmount ==
            LET path == Path(in, model)
                scaled == ScaleResearchPath(path, model, 2, "separate-legs")
                Doubled(k) == EstimatedPoint(ReferenceSpread(in), HourCandles(in), Twice(model), "taker", 0,
                                             "separate-legs", path[k].at)
            IN \A k \in {2, Len(path)} :
                  path[k].raw = None /\ Doubled(k).raw = None => scaled[k].pnl = Doubled(k).pnl
        source == ReferenceValuationSourceOf(layers.model)
    IN /\ layers.model = EstimateModelSpread(Request(UpTo(in, 1000)))
       /\ model.status = "priced" => Together(model) /\ PathIsCausal /\ ScalesWithAmount
       /\ model.status = "priced" => source # "unavailable"
       /\ source = "same_expiry_linear_interpolation" =>
              layers.model = EstimateModelSpread(Request([in EXCEPT
                  !.sold = {p \in @ : p.at >= 1000 - MarketIvMaxAge}, !.bought = {p \in @ : p.at >= 1000 - MarketIvMaxAge}]))
       /\ \A m \in {"maker", "taker"} :
             /\ Fill(layers[m]) = Fill(ExecutionLayer(Request(OneSided(m)), m))
             /\ layers[m].status = "priced" =>
                    layers[m] = ExecutionLayer(Request(UpTo(in, layers[m].completed)), m)

\* A theoretical entry is what was known at it, and its two legs were observed within an
\* hour of each other; called interpolated, it owes nothing to prints over an hour old; an
\* execution is what was known when it completed and owes nothing to the other side of the
\* tape; a mark along the path is what was known at its point, and its volatility is shown
\* as observed only if it is that of a print of the leg; an outcome, no earlier than its
\* trigger, owes nothing to a later point; and, where nothing was traded, a path scaled to
\* another amount is the path of an entry of that amount (estimateModelSpread,
\* referenceValuationSourceOf, estimateResearchSpread, modelMark, legVolatility,
\* buildResearchOutcomes, scaleResearchPath).
ResearchValuesAreCausal == [][algorithm' = "reference" => SoundValues(input')]_taken
=============================================================================
