-------------------------- MODULE EvidenceRetrieval --------------------------
(***************************************************************************)
(* Retrieval of the evidence of the volatility research: complete windows  *)
(* of the tape from capped pages.  A trade is [name, id, at]; the exchange *)
(* answers a window with its latest or its earliest trades, at most a page *)
(* of them.                                                                *)
(***************************************************************************)
EXTENDS TapeExecution

\* The answers of one request's attempts; any failure is tried again.
Get(answers, retries) == \E k \in 1..Lesser(retries, Len(answers)) : answers[k] = "ok"

InWindow(tape, from, to) == {p \in tape : from <= p.at /\ p.at <= to}
Earliest(prints, n) == LET tape == InTapeOrder(prints) IN SubSeq(tape, 1, Lesser(n, Len(tape)))
Latest(prints, n) == LET tape == InTapeOrder(prints)
                     IN Reverse(SubSeq(tape, Larger(1, Len(tape) - n + 1), Len(tape)))

\* A full page is halved until it is not full, or is one millisecond, which is
\* then reported as incomplete.  Prints of unlisted instruments are left out.
HalvedPast(page, from, to, limit) == Len(page) > limit /\ to > from
Halved(page, from, to, limit) == Len(page) >= limit /\ to > from

RECURSIVE PagedTrades(_, _, _, _, _)
PagedTrades(tape, manifest, from, to, limit) ==
    LET page == Latest(InWindow(tape, from, to), limit)
        middle == (from + to) \div 2
        older == PagedTrades(tape, manifest, from, middle, limit)
        newer == PagedTrades(tape, manifest, middle + 1, to, limit)
    IN IF Halved(page, from, to, limit)
       THEN [rows |-> older.rows \o newer.rows, incomplete |-> older.incomplete \cup newer.incomplete]
       ELSE [rows |-> SelectSeq(page, LAMBDA p : p.name \in manifest),
             incomplete |-> IF Len(page) >= limit THEN {from} ELSE {}]

OptionPrints(answers, tape, manifest, from, to, limit) ==
    IF Get(answers, 6) THEN PagedTrades(tape, manifest, from, to, limit) ELSE None

\* The reference series' retrieval: a page is saturated when the exchange says so,
\* or says nothing and the page is full; a saturated millisecond is an error, and
\* rows are made unique by instrument and trade.
RECURSIVE VisitTrades(_, _, _, _, _)
VisitTrades(tape, from, to, limit, says) ==
    LET window == InWindow(tape, from, to)
        page == Earliest(window, limit)
        saturated == IF says THEN Cardinality(window) > limit ELSE Len(page) >= limit
        middle == (from + to) \div 2
        older == VisitTrades(tape, from, middle, limit, says)
        newer == VisitTrades(tape, middle + 1, to, limit, says)
    IN IF ~saturated THEN page
       ELSE IF from >= to THEN None
       ELSE IF older = None \/ newer = None THEN None ELSE older \o newer

CompleteTrades(tape, from, to, limit, says) ==
    LET rows == VisitTrades(tape, from, to, limit, says)
        Key(p) == <<p.name, p.id>>
        LastOf(key) == rows[Max({k \in DOMAIN rows : Key(rows[k]) = key})]
    IN IF rows = None THEN None
       ELSE InTapeOrder({LastOf(key) : key \in {Key(rows[k]) : k \in DOMAIN rows}})

\* The first prints of the perpetual from an order on, page by page; the next page
\* starts after the last millisecond of the one before.
RECURSIVE TradesAtOrAfter(_, _, _, _, _, _)
TradesAtOrAfter(tape, from, to, wanted, limit, pages) ==
    LET window == InWindow(tape, from, to)
        page == Earliest(window, limit)
        more == page # <<>> /\ Cardinality(window) > limit
        rest == TradesAtOrAfter(tape, page[Len(page)].at + 1, to, wanted - Len(page), limit, pages - 1)
        rows == IF more THEN page \o rest ELSE page
    IN IF pages = 0 \/ wanted <= 0 \/ from > to THEN <<>>
       ELSE SubSeq(rows, 1, Lesser(wanted, Len(rows)))

\* Hourly bars and funding with what is missing of them reported, never filled in;
\* funding is asked for chunk by chunk, and its first hour is not expected.
Coverage(expected, present) ==
    [points |-> present, missing |-> expected \ present,
     status |-> IF present = {} THEN "unavailable"
                ELSE IF expected \subseteq present THEN "complete" ELSE "partial"]

ReferenceSeries(bars, from, to) ==
    Coverage(from..to, {b.at : b \in {x \in bars : from <= x.at /\ x.at <= to /\ x.price > 0}})

RECURSIVE FundingChunks(_, _, _, _)
FundingChunks(rates, from, to, chunk) ==
    LET ends == Lesser(from + chunk, to)
        rows == {r \in rates : from <= r /\ r <= ends}
    IN IF from > to THEN {}
       ELSE rows \cup IF ends >= to THEN {} ELSE FundingChunks(rates, from + chunk, to, chunk)

FundingHistory(rates, from, to, chunk) ==
    Coverage((from + 1)..to, FundingChunks(rates, from, to, chunk))
=============================================================================
