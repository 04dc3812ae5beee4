--------------------------- MODULE EntrySelection ---------------------------
(***************************************************************************)
(* From imported rows to the spreads a backtest runs: parsing and merging  *)
(* of trade rows, the desired spreads of an event, the evidence windows    *)
(* around an entry and the ranking of the listed expiries.                 *)
(*                                                                         *)
(* Time is in minutes, strikes and extremes in units of 50 USD.  A print   *)
(* is TapeExecution's with the index it was made at; a manifest is the     *)
(* answer of a resolve for one request and expiry.                         *)
(***************************************************************************)
EXTENDS TapeExecution

(***************************************************************************)
(* Rows and inventories.  A row that lacks a required field is None.  A    *)
(* row is identified by its trade id, or its sequence number, within its   *)
(* instrument, 0 standing for a missing one; a repeat that agrees is       *)
(* skipped, one that differs refuses the whole input, a row without        *)
(* identity is always kept.                                                *)
(***************************************************************************)
Identity(row) == IF row.id # 0 THEN <<"trade_id", row.id>>
                 ELSE IF row.seq # 0 THEN <<"trade_seq", row.seq>> ELSE None

Same(p, row) == Identity(row) # None /\ p.name = row.name /\ Identity(p) = Identity(row)

Admit(acc, row) ==
    IF acc.refused THEN acc
    ELSE IF row = None THEN [acc EXCEPT !.malformed = @ + 1]
    ELSE LET seen == SelectSeq(acc.trades, LAMBDA p : Same(p, row))
         IN IF seen = <<>> THEN [acc EXCEPT !.trades = Append(@, row)]
            ELSE IF seen[1] = row THEN [acc EXCEPT !.duplicates = @ + 1]
            ELSE [acc EXCEPT !.refused = TRUE]

ParseContractText(rows) ==
    FoldLeft(Admit, [trades |-> <<>>, duplicates |-> 0, malformed |-> 0, refused |-> FALSE], rows)

\* Files are merged by the same rule, grouped by instrument and each group
\* brought into tape order; a series names the files it kept a row of.
BuildInventory(files) ==
    LET RowsOf(n) == SelectSeq(FlattenSeq([f \in 1..n |-> files[f].trades]), LAMBDA row : row # None)
        merged == ParseContractText(RowsOf(Len(files)))
        names == {merged.trades[k].name : k \in DOMAIN merged.trades}
        Of(n, trades) == SelectSeq(trades, LAMBDA row : row.name = n)
        Kept(n, f) == Len(Of(n, ParseContractText(RowsOf(f)).trades))
        Before(p, q) == p.at < q.at \/ (p.at = q.at /\ (p.id < q.id \/ (p.id = q.id /\ p.seq < q.seq)))
    IN IF merged.refused THEN None
       ELSE [n \in names |->
                LET tape == SortSeq(Of(n, merged.trades), Before)
                IN [trades |-> tape, first |-> tape[1].at, last |-> tape[Len(tape)].at,
                    files |-> {files[f].name : f \in {g \in DOMAIN files : Kept(n, g) > Kept(n, g - 1)}}]]

(***************************************************************************)
(* The spreads an event asks for: the extreme rounded away from the move   *)
(* anchors the short strike, a near extreme also one step further away.    *)
(***************************************************************************)
Thousand == 20    \* 1,000 USD in units of 50
Near == 2         \* less than 100 USD from the rounded strike
Buffer == 10      \* 500 USD, the research cohort's buffer

Anchor(event) == IF event.direction = "long" THEN (event.extreme \div Thousand) * Thousand
                 ELSE ((event.extreme + Thousand - 1) \div Thousand) * Thousand
Away(event, n) == IF event.direction = "long" THEN -n ELSE n

DesiredSpread(event, anchor, dte, width, kind) ==
    LET bullish == event.direction = "long"
        credit == kind = "credit"
        far == anchor + Away(event, IF credit THEN width ELSE -width)
    IN [dte |-> dte, width |-> width, anchor |-> anchor, kind |-> kind,
        sold |-> IF credit THEN anchor ELSE far, bought |-> IF credit THEN far ELSE anchor,
        type |-> IF bullish = credit THEN "P" ELSE "C", buffered |-> anchor # Anchor(event)]

GenerateDesiredSpreads(event, dtes, widths, kind) ==
    LET rounded == Anchor(event)
        anchors == {rounded} \cup IF Abs(event.extreme - rounded) < Near
                                  THEN {rounded + Away(event, Thousand)} ELSE {}
    IN IF event.extreme = None THEN {}
       ELSE {DesiredSpread(event, x[1], x[2], x[3], kind) : x \in anchors \X dtes \X widths}

\* The research cohort adds the buffered copies whenever the technical strike is
\* close to the extreme, and never the production universe's second anchor.
GenerateShortStrikeResearchSpreads(event, dtes, widths, kind) ==
    LET production == {s \in GenerateDesiredSpreads(event, dtes, widths, kind) : ~s.buffered}
        distance == Away(event, Anchor(event) - event.extreme)
        shift == Away(event, Thousand)
    IN IF event.extreme = None \/ distance >= Buffer THEN production
       ELSE production \cup {[s EXCEPT !.anchor = @ + shift, !.sold = @ + shift,
                                       !.bought = @ + shift, !.buffered = TRUE] : s \in production}

\* The interactive retrieval: first listed expiry far enough out, nearest
\* strikes, existence shown only by a first print at or before entry.
NearestStrike(chain, strike) ==
    CHOOSE c \in chain : \A d \in chain :
        \/ Abs(c.strike - strike) < Abs(d.strike - strike)
        \/ Abs(c.strike - strike) = Abs(d.strike - strike) /\ c.strike <= d.strike

RetrieveSpread(combo, entry, contracts, day) ==
    LET expiries == {c.expiry : c \in {d \in contracts :
                        /\ d.type = combo.type /\ d.expiry > entry
                        /\ d.expiry - entry >= combo.dte * day}}
        chain == {c \in contracts : c.type = combo.type /\ c.expiry = Min(expiries)}
        sold == NearestStrike(chain, combo.sold)
        bought == NearestStrike(chain, combo.bought)
    IN IF expiries = {} THEN [status |-> "missing", sold |-> None, bought |-> None]
       ELSE [status |-> IF sold.first <= entry /\ bought.first <= entry
                        THEN "ready" ELSE "partial",
             sold |-> sold, bought |-> bought]

(***************************************************************************)
(* The evidence of one leg in a window around a moment, and of the spread  *)
(* in the first window that has a nearest print for both legs.             *)
(***************************************************************************)
Windows == <<15, 30, 60, 120, 720>>

NearestTradeAnywhere(series, at) ==
    LET tape == InTapeOrder(series.prints)
        before == {k \in DOMAIN tape : tape[k].at < at}
        after == DOMAIN tape \ before
        choices == (IF before = {} THEN {} ELSE {Max(before)})
                   \cup (IF after = {} THEN {} ELSE {Min(after)})
    IN IF choices = {} THEN {}
       ELSE {tape[CHOOSE k \in choices : \A j \in choices :
                \/ Abs(tape[k].at - at) < Abs(tape[j].at - at)
                \/ Abs(tape[k].at - at) = Abs(tape[j].at - at) /\ k <= j]}

\* The window looks ahead of an entry and never ahead of a close.
NormalizeLeg(series, at, action, mode, window, purpose) ==
    LET all == {p \in series.prints :
                   /\ p.at >= at - window
                   /\ p.at <= (IF purpose = "close" THEN at ELSE at + window)}
        compatible == {p \in all : p.dir = TapeDirectionFor(action, mode)}
        observed == IF compatible # {} THEN compatible ELSE IF purpose = "entry" THEN all ELSE {}
        anywhere == IF observed = {} /\ window = 720 /\ purpose = "entry"
                    THEN NearestTradeAnywhere(series, at) ELSE {}
        selected == observed \cup anywhere
    IN [count |-> Cardinality(all), compatible |-> Cardinality(compatible),
        amount |-> MapThenSumSet(LAMBDA p : p.amount, selected),
        selected |-> selected,
        nearest |-> IF selected = {} THEN None
                    ELSE LET tape == InTapeOrder(selected)
                         IN tape[CHOOSE k \in DOMAIN tape : \A j \in DOMAIN tape :
                                    \/ Abs(tape[k].at - at) < Abs(tape[j].at - at)
                                    \/ Abs(tape[k].at - at) = Abs(tape[j].at - at) /\ k <= j],
        directionFallback |-> compatible = {} /\ all # {},
        modelFallback |-> anywhere # {},
        lookedAhead |-> \E p \in selected : p.at > at]

NormalizeSpread(sold, bought, listed, at, mode, windows, purpose) ==
    LET soldAction == IF purpose = "entry" THEN "sell" ELSE "buy"
        S(w) == NormalizeLeg(sold, at, soldAction, mode, windows[w], purpose)
        B(w) == NormalizeLeg(bought, at, Opposite(soldAction), mode, windows[w], purpose)
        both == {w \in DOMAIN windows : S(w).nearest # None /\ B(w).nearest # None}
        w == IF both = {} THEN Len(windows) ELSE Min(both)
        s == S(w)
        b == B(w)
        Gap(leg) == Abs(leg.nearest.at - at)
        apart == Abs(s.nearest.at - b.nearest.at)
        mismatch == 400 * Abs(s.nearest.index - b.nearest.index)
        total == s.nearest.index + b.nearest.index
        graded == IF both = {} THEN "red"
                  ELSE IF /\ Gap(s) <= 30 /\ Gap(b) <= 30 /\ apart <= 30
                          /\ mismatch <= total    \* half a percent
                          /\ ~s.directionFallback /\ ~b.directionFallback
                       THEN "green"
                  ELSE IF Gap(s) <= 120 /\ Gap(b) <= 120 /\ mismatch <= 3 * total
                       THEN "yellow" ELSE "red"
    IN [sold |-> s, bought |-> b, apart |-> IF both = {} THEN None ELSE apart,
        quality |-> IF listed THEN graded ELSE "red",
        lookedAhead |-> s.lookedAhead \/ b.lookedAhead]

(***************************************************************************)
(* One row per manifest of a request, ranked.                              *)
(***************************************************************************)
QualityRank == [green |-> 2, yellow |-> 1, red |-> 0]

HistoricalLiquidity(series, at, action, mode, back) ==
    LET rows == IF series = None THEN {}
                ELSE {p \in series.prints : p.at >= at - back /\ p.at <= at
                                            /\ p.dir = TapeDirectionFor(action, mode)}
    IN [trades |-> Cardinality(rows), amount |-> MapThenSumSet(LAMBDA p : p.amount, rows)]

CausalSeries(series, at) == [series EXCEPT !.prints = {p \in @ : p.at <= at}]

Listed(created, entry) == created # None /\ created <= entry
Refuted(created, entry) == created # None /\ created > entry

\* Listing metadata proves existence; the research estimate also takes a contract
\* whose evidence was found and whose metadata does not refute it.
EligibleOnEvidence(m, entry, evidence) ==
    \/ Listed(m.soldCreated, entry) /\ Listed(m.boughtCreated, entry)
    \/ evidence
ListingEligible(m, entry, evidence) ==
    \/ Listed(m.soldCreated, entry) /\ Listed(m.boughtCreated, entry)
    \/ evidence /\ ~Refuted(m.soldCreated, entry) /\ ~Refuted(m.boughtCreated, entry)

\* What judging looks at: the series of a leg, or None, and its tape as an entry
\* sees it, whole for the research estimate.
SeriesOf(n, inv) == IF n = None THEN None ELSE inv[n]
SeenAt(series, entry, research) == IF research THEN series ELSE CausalSeries(series, entry)

EntryEvidence(m, sold, bought, entry, mode, research) ==
    LET Assumed(created) == Listed(created, entry) \/ (research /\ created = None)
    IN NormalizeSpread(SeenAt(sold, entry, research), SeenAt(bought, entry, research),
                       Assumed(m.soldCreated) /\ Assumed(m.boughtCreated),
                       entry, mode, <<IF research THEN 720 ELSE 120>>, "entry")

\* The row of a manifest, from the evidence of its legs and their activity.
Verdict(m, entry, research, loaded, norm, sa, ba) ==
    LET both == loaded /\ norm.sold.nearest # None /\ norm.bought.nearest # None
        observed == both /\ norm.sold.amount > 0 /\ norm.bought.amount > 0
                    /\ ~norm.sold.modelFallback /\ ~norm.bought.modelFallback
        viable == /\ ~m.unavailable /\ loaded /\ m.sensible /\ observed
                  /\ ListingEligible(m, entry, research /\ both)
                  /\ (research \/ norm.quality # "red")
        Gap(leg) == IF both THEN Abs(leg.nearest.at - entry) ELSE 1000000
    IN [expiry |-> m.expiry, viable |-> viable,
        quality |-> IF viable THEN norm.quality ELSE "red",
        listing |-> [leg \in {"sold", "bought"} |->
            LET created == IF leg = "sold" THEN m.soldCreated ELSE m.boughtCreated
            IN IF Listed(created, entry) THEN "listed"
               ELSE IF Refuted(created, entry) THEN "not-listed"
               ELSE IF research /\ both THEN "listing-plausible" ELSE "listing-unknown"],
        retrieval |-> IF m.unavailable THEN "partial" ELSE IF loaded THEN "ready" ELSE "missing",
        distance |-> m.distance,
        evidence |-> IF both THEN Larger(Gap(norm.sold), Gap(norm.bought)) ELSE 1000000,
        apart |-> IF both THEN norm.apart ELSE 1000000,
        trades |-> sa.trades + ba.trades, amount |-> sa.amount + ba.amount]

\* Judging one expiry.  inv maps an instrument to its series, or to None.
Judge(m, entry, inv, mode, research, day) ==
    LET sold == SeriesOf(m.sold, inv)
        bought == SeriesOf(m.bought, inv)
    IN Verdict(m, entry, research, sold # None /\ bought # None,
               EntryEvidence(m, sold, bought, entry, mode, research),
               HistoricalLiquidity(sold, entry, "sell", mode, day),
               HistoricalLiquidity(bought, entry, "buy", mode, day))

RankKey(c, research, selection) ==
    IF research THEN <<-QualityRank[c.quality], c.evidence, c.apart, c.distance>>
    ELSE IF selection = "closest-dte"
         THEN <<c.distance, -QualityRank[c.quality], -c.trades, -c.amount>>
    ELSE <<-QualityRank[c.quality], c.distance, -c.trades, -c.amount>>

LexLess(k, l) == \E n \in DOMAIN k : k[n] < l[n] /\ \A i \in 1..(n - 1) : k[i] = l[i]

\* Rows in order, viable ones first; ties keep the order of the manifests.
RankRows(judged, research, selection) ==
    LET viable == {i \in DOMAIN judged : judged[i].viable}
        rejected == DOMAIN judged \ viable
        Key(i) == RankKey(judged[i], research, selection)
        ranked == InOrder(viable, LAMBDA i, j : LexLess(Append(Key(i), i), Append(Key(j), j)))
        others == InOrder(rejected, LAMBDA i, j :
                      LexLess(<<judged[i].distance, i>>, <<judged[j].distance, j>>))
        taken == CASE selection = "all-eligible" -> Len(ranked)
                   [] selection = "liquidity-aware" -> Lesser(2, Len(ranked))
                   [] OTHER -> Lesser(1, Len(ranked))
        Row(i, rank) == [manifest |-> i, row |-> judged[i],
                         selected |-> rank # None /\ rank <= taken,
                         status |-> IF rank = None THEN "rejected"
                                    ELSE IF rank = 1 THEN "recommended"
                                    ELSE IF rank <= taken /\ selection # "all-eligible"
                                         THEN "alternative" ELSE "candidate"]
    IN [k \in DOMAIN ranked |-> Row(ranked[k], k)] \o [k \in DOMAIN others |-> Row(others[k], None)]

BuildExpiryCandidates(manifests, entry, inv, mode, selection, research, day) ==
    RankRows([i \in DOMAIN manifests |-> Judge(manifests[i], entry, inv, mode, research, day)], research, selection)
=============================================================================
