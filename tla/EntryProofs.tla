---------------------------- MODULE EntryProofs ----------------------------
(***************************************************************************)
(* Entry selection and execution for every tape, listing and event: what   *)
(* an entry is judged on was printed by then, the legs of a spread keep    *)
(* their order and their distance from the extreme, the two directions of  *)
(* the rounding are mirror images, and what an order fills, at once or     *)
(* delayed, owes nothing to a print after its completion.                  *)
(***************************************************************************)
EXTENDS EntrySelection, FiniteSetTheorems, WellFoundedInduction, TLAPS

(***************************************************************************)
(* Choosing the least of a finite set.                                     *)
(***************************************************************************)
(* A finite set has a first member in any order that is total and transitive
   on it: what the choices of the code, which scan a list for its best, rest
   on. *)
LEMMA LeastExists ==
    ASSUME NEW S, IsFiniteSet(S), S # {}, NEW R,
           \A x, y \in S : <<x, y>> \in R \/ <<y, x>> \in R,
           \A x, y, z \in S : <<x, y>> \in R /\ <<y, z>> \in R => <<x, z>> \in R
    PROVE  \E x \in S : \A y \in S : <<x, y>> \in R
<1> DEFINE Least(T) == \E x \in T : \A y \in T : <<x, y>> \in R
           Bad == {T \in SUBSET S : T # {} /\ ~Least(T)}
<1> SUFFICES Bad = {}
  BY Zenon
<1>1. SUFFICES ASSUME Bad # {} PROVE FALSE
  OBVIOUS
<1>2. IsWellFoundedOn(StrictSubsetOrdering(S), SUBSET S)
  BY FS_StrictSubsetOrderingWellFounded, FS_FiniteSubsetsOfFinite, Zenon
<1>3. PICK T \in Bad : \A U \in Bad : ~(<<U, T>> \in StrictSubsetOrdering(S))
  <2>1. Bad \subseteq SUBSET S
    OBVIOUS
  <2> HIDE DEF Bad
  <2> QED BY <1>1, <1>2, <2>1, WFMin, Zenon
<1>4. PICK e \in T : TRUE
  BY <1>3
<1>5. <<T \ {e}, T>> \in StrictSubsetOrdering(S)
  BY <1>3, <1>4 DEF StrictSubsetOrdering
<1>6. T \ {e} \notin Bad
  BY <1>3, <1>5
<1>7. CASE T \ {e} = {}
  <2>1. T = {e}
    BY <1>4, <1>7
  <2>2. <<e, e>> \in R
    BY <1>3, <1>4
  <2> QED BY <2>1, <2>2, <1>3
<1>8. CASE T \ {e} # {}
  <2>1. PICK m \in T \ {e} : \A y \in T \ {e} : <<m, y>> \in R
    BY <1>3, <1>6, <1>8
  <2>2. m \in S /\ e \in S /\ T \subseteq S
    BY <1>3, <1>4, <2>1
  <2>3. CASE <<m, e>> \in R
    <3>1. \A y \in T : <<m, y>> \in R
      BY <2>1, <2>3
    <3> QED BY <3>1, <2>1, <1>3
  <2>4. CASE <<e, m>> \in R
    <3>1. \A y \in T : <<e, y>> \in R
      BY <2>1, <2>2, <2>4, <1>3
    <3> QED BY <3>1, <1>4, <1>3
  <2> QED BY <2>2, <2>3, <2>4
<1> QED BY <1>7, <1>8

(* A finite set of integers has a least one. *)
LEMMA IntegerMin ==
    ASSUME NEW S \in SUBSET Int, IsFiniteSet(S), S # {}
    PROVE  \E x \in S : \A y \in S : x <= y
<1> DEFINE R == {p \in S \X S : p[1] <= p[2]}
<1>1. \E x \in S : \A y \in S : <<x, y>> \in R
  <2>1. \A x, y \in S : <<x, y>> \in R \/ <<y, x>> \in R
    OBVIOUS
  <2>2. \A x, y, z \in S : <<x, y>> \in R /\ <<y, z>> \in R => <<x, z>> \in R
    OBVIOUS
  <2> HIDE DEF R
  <2> QED BY <2>1, <2>2, LeastExists
<1> QED BY <1>1

(* And a greatest one. *)
LEMMA IntegerMax ==
    ASSUME NEW S \in SUBSET Int, IsFiniteSet(S), S # {}
    PROVE  \E x \in S : \A y \in S : y <= x
<1> DEFINE R == {p \in S \X S : p[2] <= p[1]}
<1>1. \E x \in S : \A y \in S : <<x, y>> \in R
  <2>1. \A x, y \in S : <<x, y>> \in R \/ <<y, x>> \in R
    OBVIOUS
  <2>2. \A x, y, z \in S : <<x, y>> \in R /\ <<y, z>> \in R => <<x, z>> \in R
    OBVIOUS
  <2> HIDE DEF R
  <2> QED BY <2>1, <2>2, LeastExists
<1> QED BY <1>1

(* What Min and Max choose. *)
LEMMA LeastIsMin ==
    ASSUME NEW S \in SUBSET Int, NEW x \in S, \A y \in S : x <= y
    PROVE  Min(S) = x
<1> DEFINE P(z) == \A y \in S : z <= y
<1>1. \A z \in S : P(z) <=> z = x
  <2> SUFFICES ASSUME NEW z \in S PROVE P(z) <=> z = x
    OBVIOUS
  <2>1. x \in Int /\ z \in Int
    OBVIOUS
  <2>2. P(x)
    <3> SUFFICES ASSUME NEW y \in S PROVE x <= y
      OBVIOUS
    <3>1. y \in Int /\ x <= y
      OBVIOUS
    <3> QED BY <2>1, <3>1
  <2>3. P(z) => z = x
    BY <2>1
  <2> QED BY <2>2, <2>3
<1>2. Min(S) = CHOOSE z \in S : P(z)
  BY DEF Min
<1> HIDE DEF P
<1>3. (CHOOSE z \in S : P(z)) \in S /\ P(CHOOSE z \in S : P(z))
  BY <1>1
<1> QED BY <1>1, <1>2, <1>3

LEMMA GreatestIsMax ==
    ASSUME NEW S \in SUBSET Int, NEW x \in S, \A y \in S : y <= x
    PROVE  Max(S) = x
<1> DEFINE P(z) == \A y \in S : z >= y
<1>1. \A z \in S : P(z) <=> z = x
  <2> SUFFICES ASSUME NEW z \in S PROVE P(z) <=> z = x
    OBVIOUS
  <2>1. x \in Int /\ z \in Int
    OBVIOUS
  <2>2. P(x)
    <3> SUFFICES ASSUME NEW y \in S PROVE x >= y
      OBVIOUS
    <3>1. y \in Int /\ y <= x
      OBVIOUS
    <3> QED BY <2>1, <3>1
  <2>3. P(z) => z = x
    BY <2>1
  <2> QED BY <2>2, <2>3
<1>2. Max(S) = CHOOSE z \in S : P(z)
  BY DEF Max
<1> HIDE DEF P
<1>3. (CHOOSE z \in S : P(z)) \in S /\ P(CHOOSE z \in S : P(z))
  BY <1>1
<1> QED BY <1>1, <1>2, <1>3

(***************************************************************************)
(* What an entry sees of the tapes.                                        *)
(***************************************************************************)
(* The series of a set of instruments over a set of prints, the inventories
   that hold one or none for each, a manifest of these instruments, and an
   inventory cut off at a moment. *)
Series(Names, Prints) == [name : Names, prints : SUBSET Prints]
IsInventory(inv, Names, Prints) == /\ None \notin Series(Names, Prints)
                                   /\ inv \in [Names -> Series(Names, Prints) \cup {None}]
OfInstruments(m, Names) == {m.sold, m.bought} \subseteq Names \cup {None}
CausalInventory(inv, at) == [n \in DOMAIN inv |-> IF inv[n] = None THEN None ELSE CausalSeries(inv[n], at)]

(* Cutting a series off gives a series, and cutting it again changes nothing. *)
LEMMA CausalIsSeries ==
    ASSUME NEW Names, NEW Prints, NEW s \in Series(Names, Prints), NEW at
    PROVE  /\ CausalSeries(s, at) \in Series(Names, Prints)
           /\ CausalSeries(CausalSeries(s, at), at) = CausalSeries(s, at)
BY DEF CausalSeries, Series

(* The activity counted before an entry is the same on the tape that ends
   there. *)
LEMMA LiquidityIsCausal ==
    ASSUME NEW Names, NEW Prints, NEW s \in Series(Names, Prints), NEW at, NEW action, NEW mode, NEW back,
           None \notin Series(Names, Prints)
    PROVE  HistoricalLiquidity(CausalSeries(s, at), at, action, mode, back)
             = HistoricalLiquidity(s, at, action, mode, back)
<1> DEFINE Rows(x) == {p \in x.prints : p.at >= at - back /\ p.at <= at
                                            /\ p.dir = TapeDirectionFor(action, mode)}
<1>1. Rows(CausalSeries(s, at)) = Rows(s)
  BY DEF CausalSeries, Series
<1>2. s # None /\ CausalSeries(s, at) # None
  BY CausalIsSeries
<1> QED BY <1>1, <1>2 DEF HistoricalLiquidity

(* A manifest one leg of which has no series is judged without looking at the
   evidence. *)
LEMMA UnloadedVerdict ==
    ASSUME NEW m, NEW entry, NEW research, NEW loaded, ~loaded, NEW norm, NEW other, NEW sa, NEW ba
    PROVE  Verdict(m, entry, research, loaded, norm, sa, ba) = Verdict(m, entry, research, loaded, other, sa, ba)
<1>1. loaded = FALSE
  OBVIOUS
<1>2. Verdict(m, entry, research, FALSE, norm, sa, ba) = Verdict(m, entry, research, FALSE, other, sa, ba)
  BY DEF Verdict
<1> QED BY Zenon, <1>1, <1>2

(* Outside the research estimate the row of a manifest is the one the tapes
   cut off at the entry give: the normalized evidence, the activity and the
   verdict owe nothing to a later print. *)
LEMMA JudgementIsCausal ==
    ASSUME NEW Names, NEW Prints, NEW inv, IsInventory(inv, Names, Prints),
           NEW m, OfInstruments(m, Names),
           NEW entry, NEW mode, NEW research, ~research, NEW day
    PROVE  Judge(m, entry, CausalInventory(inv, entry), mode, research, day) = Judge(m, entry, inv, mode, research, day)
<1> DEFINE Known == CausalInventory(inv, entry)
           Of(n) == SeriesOf(n, inv)
           Cut(n) == SeriesOf(n, Known)
<1>1. ASSUME NEW n \in {m.sold, m.bought}
      PROVE  /\ Cut(n) = IF Of(n) = None THEN None ELSE CausalSeries(Of(n), entry)
             /\ Of(n) # None => Of(n) \in Series(Names, Prints)
  BY <1>1 DEF CausalInventory, SeriesOf, IsInventory, OfInstruments
<1>2. ASSUME NEW n \in {m.sold, m.bought}
      PROVE  (Cut(n) # None) = (Of(n) # None)
  BY <1>1, <1>2, CausalIsSeries DEF IsInventory
<1>3. ASSUME NEW n \in {m.sold, m.bought}, NEW action
      PROVE  HistoricalLiquidity(Cut(n), entry, action, mode, day)
               = HistoricalLiquidity(Of(n), entry, action, mode, day)
  <2>1. CASE Of(n) = None
    BY <2>1, <1>1, <1>3
  <2>2. CASE Of(n) # None
    BY <2>2, <1>1, <1>3, LiquidityIsCausal DEF IsInventory
  <2> QED BY <2>1, <2>2
<1>4. ASSUME NEW n \in {m.sold, m.bought}, Of(n) # None
      PROVE  SeenAt(Cut(n), entry, research) = SeenAt(Of(n), entry, research)
  BY <1>1, <1>4, CausalIsSeries DEF SeenAt
<1> HIDE DEF Known, Of, Cut
<1> DEFINE loaded == Of(m.sold) # None /\ Of(m.bought) # None
           seen == EntryEvidence(m, Of(m.sold), Of(m.bought), entry, mode, research)
           known == EntryEvidence(m, Cut(m.sold), Cut(m.bought), entry, mode, research)
           sa == HistoricalLiquidity(Of(m.sold), entry, "sell", mode, day)
           ba == HistoricalLiquidity(Of(m.bought), entry, "buy", mode, day)
<1>5. Judge(m, entry, inv, mode, research, day) = Verdict(m, entry, research, loaded, seen, sa, ba)
  BY DEF Judge, Of
<1>6. Judge(m, entry, Known, mode, research, day) = Verdict(m, entry, research, loaded, known, sa, ba)
  <2>1. loaded = (Cut(m.sold) # None /\ Cut(m.bought) # None)
    BY <1>2
  <2>2. /\ sa = HistoricalLiquidity(Cut(m.sold), entry, "sell", mode, day)
        /\ ba = HistoricalLiquidity(Cut(m.bought), entry, "buy", mode, day)
    BY <1>3
  <2> HIDE DEF loaded, sa, ba
  <2> QED BY <2>1, <2>2 DEF Judge, Cut
<1>7. CASE loaded
  <2>1. seen = known
    BY <1>4, <1>7 DEF EntryEvidence
  <2> QED BY <2>1, <1>5, <1>6 DEF Known
<1>8. CASE ~loaded
  <2> HIDE DEF loaded, seen, known, sa, ba
  <2>1. Verdict(m, entry, research, loaded, known, sa, ba) = Verdict(m, entry, research, loaded, seen, sa, ba)
    BY <1>8, UnloadedVerdict
  <2> QED BY <2>1, <1>5, <1>6 DEF Known
<1> QED BY <1>7, <1>8

(* The whole selection: for every inventory, manifests, entry, rule and
   window, buildExpiryCandidates without the research estimate returns the
   rows, ranks and choices it returns when every print after the entry is
   taken away, so no later print can move what a backtest would have entered. *)
THEOREM SelectionOwesNothingToLaterPrints ==
    ASSUME NEW Names, NEW Prints, NEW inv, IsInventory(inv, Names, Prints),
           NEW manifests,
           \A i \in DOMAIN manifests : OfInstruments(manifests[i], Names),
           NEW entry, NEW mode, NEW selection, NEW research, ~research, NEW day
    PROVE  BuildExpiryCandidates(manifests, entry, inv, mode, selection, research, day)
             = BuildExpiryCandidates(manifests, entry, CausalInventory(inv, entry), mode, selection, research, day)
<1>1. \A m : OfInstruments(m, Names) =>
           Judge(m, entry, CausalInventory(inv, entry), mode, research, day) = Judge(m, entry, inv, mode, research, day)
  BY JudgementIsCausal
<1> QED BY <1>1 DEF BuildExpiryCandidates

(***************************************************************************)
(* The desired spreads.  Safe is how far beyond the extreme a strike is,   *)
(* on the side the move came from.                                         *)
(***************************************************************************)
(* The distance of a strike from the extreme, positive on the far side. *)
Safe(event, strike) == IF event.direction = "long" THEN event.extreme - strike ELSE strike - event.extreme

(* An event with an extreme, of either direction. *)
IsEvent(event) == event.extreme \in Int /\ event.direction \in {"long", "short"}

(* Rounding down to a thousand. *)
LEMMA RoundedDown == \A n \in Int : /\ n \div Thousand \in Int
                                    /\ n - Thousand < (n \div Thousand) * Thousand
                                    /\ (n \div Thousand) * Thousand <= n
BY DEF Thousand

(* The rounded strike is beyond the extreme, by less than a thousand. *)
LEMMA AnchorIsSafe ==
    ASSUME NEW event, IsEvent(event)
    PROVE  /\ Anchor(event) \in Int
           /\ Safe(event, Anchor(event)) \in 0..(Thousand - 1)
<1> DEFINE e == event.extreme
           up == e + Thousand - 1
<1>1. e \in Int /\ up \in Int /\ up = e + 19
  BY DEF IsEvent, Thousand
<1>2. /\ e \div Thousand \in Int
      /\ e - Thousand < (e \div Thousand) * Thousand
      /\ (e \div Thousand) * Thousand <= e
  BY <1>1, RoundedDown
<1>3. /\ up \div Thousand \in Int
      /\ up - Thousand < (up \div Thousand) * Thousand
      /\ (up \div Thousand) * Thousand <= up
  BY <1>1, RoundedDown
<1> DEFINE down == e \div Thousand
           above == up \div Thousand
<1>4. CASE event.direction = "long"
  <2>1. Anchor(event) = down * Thousand
    BY <1>4 DEF Anchor
  <2> HIDE DEF down
  <2> QED BY <2>1, <1>1, <1>2, <1>4 DEF Safe, Thousand, down
<1>5. CASE event.direction = "short"
  <2>1. Anchor(event) = above * Thousand
    BY <1>5 DEF Anchor
  <2> HIDE DEF above
  <2> QED BY <2>1, <1>1, <1>3, <1>5 DEF Safe, Thousand, above
<1> QED BY <1>4, <1>5 DEF IsEvent

(* The legs of a desired spread: a credit spread sells the anchor and buys
   the width further out, a debit spread buys it and sells the width nearer. *)
LEMMA SpreadOfAnchor ==
    ASSUME NEW event, IsEvent(event), NEW anchor \in Int, NEW dte, NEW width \in Nat, NEW kind \in {"credit", "debit"},
           NEW s, s = DesiredSpread(event, anchor, dte, width, kind)
    PROVE  /\ s.anchor = anchor /\ s.dte = dte /\ s.width = width /\ s.kind = kind
           /\ s.sold \in Int /\ s.bought \in Int
           /\ s.buffered = (anchor # Anchor(event))
           /\ kind = "credit" => s.sold = anchor /\ Safe(event, s.bought) = Safe(event, anchor) + width
           /\ kind = "debit" => s.bought = anchor /\ Safe(event, s.sold) = Safe(event, anchor) - width
BY DEF IsEvent, DesiredSpread, Safe, Away

(* The spreads of an event are those of its one or two anchors, and those of
   the rounded anchor are always among them. *)
LEMMA AnchorsOf ==
    ASSUME NEW event, IsEvent(event), NEW dtes, NEW widths \in SUBSET Nat, NEW kind \in {"credit", "debit"}
    PROVE  /\ \A s \in GenerateDesiredSpreads(event, dtes, widths, kind) :
                 \E anchor \in {Anchor(event), Anchor(event) + Away(event, Thousand)}, dte \in dtes, width \in widths :
                    s = DesiredSpread(event, anchor, dte, width, kind)
           /\ \A dte \in dtes, width \in widths :
                 DesiredSpread(event, Anchor(event), dte, width, kind)
                    \in GenerateDesiredSpreads(event, dtes, widths, kind)
<1>1. event.extreme # None
  BY NoneAssumption DEF IsEvent
<1> DEFINE anchors == {Anchor(event)} \cup IF Abs(event.extreme - Anchor(event)) < Near
                                            THEN {Anchor(event) + Away(event, Thousand)} ELSE {}
<1>2. GenerateDesiredSpreads(event, dtes, widths, kind)
        = {DesiredSpread(event, x[1], x[2], x[3], kind) : x \in anchors \X dtes \X widths}
  BY <1>1 DEF GenerateDesiredSpreads
<1>3. anchors \subseteq {Anchor(event), Anchor(event) + Away(event, Thousand)} /\ Anchor(event) \in anchors
  OBVIOUS
<1> HIDE DEF anchors
<1>4. ASSUME NEW s \in GenerateDesiredSpreads(event, dtes, widths, kind)
      PROVE  \E anchor \in anchors, dte \in dtes, width \in widths : s = DesiredSpread(event, anchor, dte, width, kind)
  BY <1>2, <1>4
<1>5. ASSUME NEW dte \in dtes, NEW width \in widths
      PROVE  DesiredSpread(event, Anchor(event), dte, width, kind) \in GenerateDesiredSpreads(event, dtes, widths, kind)
  <2>1. <<Anchor(event), dte, width>> \in anchors \X dtes \X widths
    BY <1>3
  <2> QED BY <2>1, <1>2
<1> QED BY <1>3, <1>4, <1>5

(* A spread of the research cohort is one of production's unbuffered, or its
   copy a thousand further out. *)
LEMMA BufferedCopy ==
    ASSUME NEW event, IsEvent(event), NEW dtes, NEW widths \in SUBSET Nat, NEW kind \in {"credit", "debit"},
           NEW s \in GenerateShortStrikeResearchSpreads(event, dtes, widths, kind)
    PROVE  \/ s \in GenerateDesiredSpreads(event, dtes, widths, kind) /\ ~s.buffered
           \/ \E t \in GenerateDesiredSpreads(event, dtes, widths, kind) :
                 /\ ~t.buffered
                 /\ s = [t EXCEPT !.anchor = @ + Away(event, Thousand), !.sold = @ + Away(event, Thousand),
                                  !.bought = @ + Away(event, Thousand), !.buffered = TRUE]
BY DEF GenerateShortStrikeResearchSpreads

(* A strike rule kept: on a thousand, beyond the extreme, the legs the width
   apart on the side of the kind. *)
KeepsDistance(event, widths, kind, s) ==
    /\ Safe(event, s.anchor) >= 0 /\ s.width \in widths
    /\ s.anchor % Thousand = 0
    /\ kind = "credit" => s.sold = s.anchor /\ Safe(event, s.bought) = Safe(event, s.sold) + s.width
    /\ kind = "debit" => s.bought = s.anchor /\ Safe(event, s.sold) = Safe(event, s.bought) - s.width

(* A step away from the extreme adds to the distance and stays on the
   thousands. *)
LEMMA AwayIsSafer ==
    ASSUME NEW event, IsEvent(event), NEW strike \in Int
    PROVE  /\ strike + Away(event, Thousand) \in Int
           /\ Safe(event, strike + Away(event, Thousand)) = Safe(event, strike) + Thousand
           /\ strike % Thousand = 0 => (strike + Away(event, Thousand)) % Thousand = 0
BY DEF IsEvent, Away, Safe, Thousand

(* The rounded strike is on a thousand. *)
LEMMA AnchorIsRound ==
    ASSUME NEW event, IsEvent(event)
    PROVE  Anchor(event) % Thousand = 0
<1> DEFINE up == event.extreme + Thousand - 1
<1>1. event.extreme \in Int /\ up \in Int
  BY DEF IsEvent, Thousand
<1>2. \A n \in Int : (n * Thousand) % Thousand = 0
  BY DEF Thousand
<1>3. event.extreme \div Thousand \in Int /\ up \div Thousand \in Int
  BY <1>1, RoundedDown
<1>4. ((event.extreme \div Thousand) * Thousand) % Thousand = 0 /\ ((up \div Thousand) * Thousand) % Thousand = 0
  BY <1>2, <1>3
<1> QED BY <1>4 DEF Anchor

(* Every spread generated for an event, by production or for the research
   cohort, has its short strike on a thousand at or beyond the extreme and
   its other leg a width away on the right side: no direction, kind or buffer
   puts a strike inside the move. *)
THEOREM SpreadsKeepTheirDistance ==
    ASSUME NEW event, IsEvent(event), NEW dtes, NEW widths \in SUBSET Nat, NEW kind \in {"credit", "debit"},
           NEW s \in GenerateDesiredSpreads(event, dtes, widths, kind)
                       \cup GenerateShortStrikeResearchSpreads(event, dtes, widths, kind)
    PROVE  KeepsDistance(event, widths, kind, s)
<1>1. ASSUME NEW t \in GenerateDesiredSpreads(event, dtes, widths, kind)
      PROVE  /\ KeepsDistance(event, widths, kind, t)
             /\ t.anchor \in Int /\ t.sold \in Int /\ t.bought \in Int
             /\ t.buffered = (t.anchor # Anchor(event))
  <2>1. PICK anchor \in {Anchor(event), Anchor(event) + Away(event, Thousand)}, dte \in dtes, width \in widths :
                    t = DesiredSpread(event, anchor, dte, width, kind)
    BY <1>1, AnchorsOf
  <2>2. anchor \in Int /\ Safe(event, anchor) >= 0 /\ anchor % Thousand = 0
    BY <2>1, AnchorIsSafe, AwayIsSafer, AnchorIsRound DEF Thousand
  <2> QED BY <2>1, <2>2, SpreadOfAnchor DEF KeepsDistance
<1>2. ASSUME NEW t \in GenerateDesiredSpreads(event, dtes, widths, kind),
             s = [t EXCEPT !.anchor = @ + Away(event, Thousand), !.sold = @ + Away(event, Thousand),
                           !.bought = @ + Away(event, Thousand), !.buffered = TRUE]
      PROVE  KeepsDistance(event, widths, kind, s)
  <2>1. PICK anchor \in Int, dte \in dtes, width \in widths : t = DesiredSpread(event, anchor, dte, width, kind)
    BY <1>2, AnchorsOf, AnchorIsSafe, AwayIsSafer
  <2>2. /\ s.anchor = t.anchor + Away(event, Thousand) /\ s.sold = t.sold + Away(event, Thousand)
        /\ s.bought = t.bought + Away(event, Thousand) /\ s.width = t.width
    BY <1>2, <2>1 DEF DesiredSpread
  <2>3. /\ Safe(event, s.anchor) = Safe(event, t.anchor) + Thousand
        /\ Safe(event, s.sold) = Safe(event, t.sold) + Thousand
        /\ Safe(event, s.bought) = Safe(event, t.bought) + Thousand
        /\ s.anchor % Thousand = 0
    BY <2>2, <1>1, AwayIsSafer DEF KeepsDistance
  <2>4. Safe(event, t.anchor) \in Int /\ Safe(event, t.sold) \in Int /\ Safe(event, t.bought) \in Int /\ t.width \in Int
    <3>1. \A strike \in Int : Safe(event, strike) \in Int
      BY DEF Safe, IsEvent
    <3>2. t.width \in widths
      BY <1>1 DEF KeepsDistance
    <3>3. \A w \in widths : w \in Int
      OBVIOUS
    <3>4. t.width \in Int
      BY <3>2, <3>3
    <3> QED BY <1>1, <3>1, <3>4
  <2> QED BY <2>2, <2>3, <2>4, <1>1 DEF KeepsDistance, Thousand
<1> QED BY <1>1, <1>2, BufferedCopy

(* The research cohort has exactly production's unbuffered spreads, always
   one at least the buffer from the extreme, and puts the copies it adds
   between a thousand and a thousand and a buffer away: production's own
   second anchor is never among what it inherits. *)
THEOREM ResearchKeepsProduction ==
    ASSUME NEW event, IsEvent(event), NEW dtes, dtes # {}, NEW widths \in SUBSET Nat, widths # {},
           NEW kind \in {"credit", "debit"}
    PROVE  LET production == GenerateDesiredSpreads(event, dtes, widths, kind)
               research == GenerateShortStrikeResearchSpreads(event, dtes, widths, kind)
           IN /\ {s \in production : ~s.buffered} \subseteq research
              /\ {s \in research : ~s.buffered} \subseteq production
              /\ \E s \in research : Safe(event, s.anchor) >= Buffer
              /\ \A s \in research : s.buffered => Safe(event, s.anchor) \in Thousand..(Thousand + Buffer - 1)
<1> DEFINE production == GenerateDesiredSpreads(event, dtes, widths, kind)
           research == GenerateShortStrikeResearchSpreads(event, dtes, widths, kind)
           distance == Away(event, Anchor(event) - event.extreme)
           shift == Away(event, Thousand)
           Shifted(s) == [s EXCEPT !.anchor = @ + shift, !.sold = @ + shift, !.bought = @ + shift, !.buffered = TRUE]
           unbuffered == {s \in production : ~s.buffered}
<1>1. event.extreme # None
  BY NoneAssumption DEF IsEvent
<1>2. research = IF distance >= Buffer THEN unbuffered ELSE unbuffered \cup {Shifted(s) : s \in unbuffered}
  BY <1>1 DEF GenerateShortStrikeResearchSpreads
<1>3. distance = Safe(event, Anchor(event)) /\ distance \in 0..(Thousand - 1)
  BY AnchorIsSafe DEF Away, Safe, IsEvent
<1>4. ASSUME NEW s \in production
      PROVE  /\ s.anchor \in Int
             /\ ~s.buffered => s.anchor = Anchor(event)
             /\ Shifted(s).anchor = s.anchor + shift /\ Shifted(s).buffered = TRUE
  <2>1. PICK anchor \in Int, dte \in dtes, width \in widths : s = DesiredSpread(event, anchor, dte, width, kind)
    BY <1>4, AnchorsOf, AnchorIsSafe, AwayIsSafer
  <2> QED BY <2>1, SpreadOfAnchor DEF DesiredSpread
<1>5. PICK dte \in dtes, width \in widths : TRUE
  OBVIOUS
<1>6. PICK s \in unbuffered : s.anchor = Anchor(event)
  <2> DEFINE d == DesiredSpread(event, Anchor(event), dte, width, kind)
  <2>1. d \in production
    BY <1>5, AnchorsOf
  <2>2. d.anchor = Anchor(event) /\ ~d.buffered
    BY <1>5, AnchorIsSafe DEF DesiredSpread
  <2> QED BY <2>1, <2>2
<1> HIDE DEF Shifted
<1>7. unbuffered \subseteq research /\ {x \in research : ~x.buffered} \subseteq production
  <2>1. \A x \in unbuffered : x \in production /\ Shifted(x).buffered
    BY <1>4
  <2> HIDE DEF unbuffered, production, distance, research
  <2> QED BY <2>1, <1>2
<1>8. \E x \in research : Safe(event, x.anchor) >= Buffer
  <2>1. CASE distance >= Buffer
    BY <2>1, <1>2, <1>3, <1>6
  <2>2. CASE ~(distance >= Buffer)
    <3>1. Shifted(s) \in research
      BY <2>2, <1>2, <1>6
    <3>2. Safe(event, Shifted(s).anchor) = distance + Thousand
      <4>1. Shifted(s).anchor = Anchor(event) + shift
        BY <1>4, <1>6
      <4> QED BY <4>1, <1>3, AnchorIsSafe, AwayIsSafer
    <3>3. Safe(event, Shifted(s).anchor) >= Buffer
      BY <3>2, <1>3 DEF Buffer, Thousand
    <3> HIDE DEF research
    <3> QED BY <3>1, <3>3
  <2> QED BY <2>1, <2>2
<1>9. ASSUME NEW x \in research, x.buffered
      PROVE  Safe(event, x.anchor) \in Thousand..(Thousand + Buffer - 1)
  <2>1. PICK t \in unbuffered : x = Shifted(t) /\ ~(distance >= Buffer)
    <3> HIDE DEF distance, research
    <3> QED BY <1>2, <1>9
  <2>2. x.anchor = Anchor(event) + shift
    BY <2>1, <1>4
  <2>3. Safe(event, x.anchor) = distance + Thousand
    BY <2>2, <1>3, AnchorIsSafe, AwayIsSafer
  <2> QED BY <2>1, <2>3, <1>3 DEF Buffer, Thousand
<1> QED BY <1>7, <1>8, <1>9

(* An event and a spread seen in a mirror that is a whole number of
   thousands. *)
Mirrored(event, c) == [event EXCEPT !.extreme = c - @, !.direction = IF @ = "long" THEN "short" ELSE "long"]
MirroredSpread(s, c) == [dte |-> s.dte, width |-> s.width, anchor |-> c - s.anchor, kind |-> s.kind,
                         sold |-> c - s.sold, bought |-> c - s.bought,
                         type |-> IF s.type = "P" THEN "C" ELSE "P", buffered |-> s.buffered]

(* The anchor of the mirrored event is the mirrored anchor: rounding up is
   the mirror of rounding down. *)
LEMMA MirroredEvent ==
    ASSUME NEW k \in Int, NEW c, c = k * Thousand, NEW event \in [extreme : Int, direction : {"long", "short"}]
    PROVE  /\ IsEvent(event) /\ IsEvent(Mirrored(event, c)) /\ c \in Int
           /\ Mirrored(event, c).extreme = c - event.extreme
           /\ Mirrored(event, c).direction = IF event.direction = "long" THEN "short" ELSE "long"
           /\ Anchor(Mirrored(event, c)) = c - Anchor(event)
           /\ \A n \in Int : Away(Mirrored(event, c), n) = -Away(event, n)
<1> DEFINE m == Mirrored(event, c)
           e == event.extreme
<1>1. /\ e \in Int /\ c \in Int /\ event.direction \in {"long", "short"}
      /\ m.extreme = c - e
      /\ m.direction = IF event.direction = "long" THEN "short" ELSE "long"
      /\ IsEvent(event) /\ IsEvent(m)
  BY DEF Mirrored, IsEvent, Thousand
<1>2. \A n \in Int : /\ n \div 20 \in Int
                     /\ (k * 20 - n + 19) \div 20 = k - (n \div 20)
                     /\ (k * 20 - n) \div 20 = k - ((n + 19) \div 20)
  OBVIOUS
<1>3. \A n \in Int : n + Thousand - 1 = n + 19 /\ c - n + Thousand - 1 = k * 20 - n + 19 /\ c - n = k * 20 - n
  BY DEF Thousand
<1>4. e + 19 \in Int /\ (e \div 20) \in Int /\ ((e + 19) \div 20) \in Int
  BY <1>1, <1>2
<1>5. CASE event.direction = "long"
  <2>1. Anchor(event) = (e \div 20) * 20
    BY <1>5 DEF Anchor, Thousand
  <2>2. Anchor(m) = ((k * 20 - e + 19) \div 20) * 20
    BY <1>1, <1>3, <1>5 DEF Anchor, Thousand
  <2>3. Anchor(m) = (k - (e \div 20)) * 20
    BY <2>2, <1>1, <1>2
  <2> DEFINE q == e \div 20
  <2> HIDE DEF q
  <2>4. (k - q) * 20 = k * 20 - q * 20
    BY <1>4 DEF q
  <2> QED BY <2>1, <2>3, <2>4, <1>1, <1>5 DEF Away, Thousand, q
<1>6. CASE event.direction = "short"
  <2>1. Anchor(event) = ((e + 19) \div 20) * 20
    BY <1>1, <1>3, <1>6 DEF Anchor, Thousand
  <2>2. Anchor(m) = ((k * 20 - e) \div 20) * 20
    BY <1>1, <1>3, <1>6 DEF Anchor, Thousand
  <2>3. Anchor(m) = (k - ((e + 19) \div 20)) * 20
    BY <2>2, <1>1, <1>2
  <2> DEFINE q == (e + 19) \div 20
  <2> HIDE DEF q
  <2>4. (k - q) * 20 = k * 20 - q * 20
    BY <1>4 DEF q
  <2> QED BY <2>1, <2>3, <2>4, <1>1, <1>6 DEF Away, Thousand, q
<1> QED BY <1>1, <1>5, <1>6

(* The spread of a mirrored anchor is the mirrored spread. *)
LEMMA MirroredDesire ==
    ASSUME NEW k \in Int, NEW c, c = k * Thousand, NEW event \in [extreme : Int, direction : {"long", "short"}],
           NEW anchor \in Int, NEW dte, NEW width \in Nat, NEW kind \in {"credit", "debit"}
    PROVE  DesiredSpread(Mirrored(event, c), c - anchor, dte, width, kind)
             = MirroredSpread(DesiredSpread(event, anchor, dte, width, kind), c)
<1> DEFINE m == Mirrored(event, c)
           s == DesiredSpread(event, anchor, dte, width, kind)
           t == DesiredSpread(m, c - anchor, dte, width, kind)
           far == anchor + Away(event, IF kind = "credit" THEN width ELSE -width)
           across == c - anchor + Away(m, IF kind = "credit" THEN width ELSE -width)
<1>1. /\ c \in Int /\ IsEvent(event) /\ Anchor(event) \in Int
      /\ Anchor(m) = c - Anchor(event)
      /\ m.direction = IF event.direction = "long" THEN "short" ELSE "long"
      /\ event.direction \in {"long", "short"}
  BY MirroredEvent, AnchorIsSafe
<1>2. far \in Int /\ across = c - far
  <2>1. Away(event, IF kind = "credit" THEN width ELSE -width) \in Int
    BY DEF Away
  <2>2. Away(m, IF kind = "credit" THEN width ELSE -width)
          = -Away(event, IF kind = "credit" THEN width ELSE -width)
    BY MirroredEvent
  <2> QED BY <2>1, <2>2, <1>1
<1> HIDE DEF m, far, across
<1>3. s = [dte |-> dte, width |-> width, anchor |-> anchor, kind |-> kind,
           sold |-> IF kind = "credit" THEN anchor ELSE far, bought |-> IF kind = "credit" THEN far ELSE anchor,
           type |-> IF (event.direction = "long") = (kind = "credit") THEN "P" ELSE "C", buffered |-> anchor # Anchor(event)]
  BY DEF DesiredSpread, far
<1>4. t = [dte |-> dte, width |-> width, anchor |-> c - anchor, kind |-> kind,
           sold |-> IF kind = "credit" THEN c - anchor ELSE across, bought |-> IF kind = "credit" THEN across ELSE c - anchor,
           type |-> IF (m.direction = "long") = (kind = "credit") THEN "P" ELSE "C", buffered |-> c - anchor # Anchor(m)]
  BY DEF DesiredSpread, across
<1>5. (c - anchor # Anchor(m)) = (anchor # Anchor(event))
  BY <1>1
<1>6. (IF (m.direction = "long") = (kind = "credit") THEN "P" ELSE "C")
        = (IF (IF (event.direction = "long") = (kind = "credit") THEN "P" ELSE "C") = "P" THEN "C" ELSE "P")
  BY <1>1
<1>7. t = MirroredSpread(s, c)
  <2> HIDE DEF s, t
  <2> DEFINE sold == IF kind = "credit" THEN anchor ELSE far
             bought == IF kind = "credit" THEN far ELSE anchor
             type == IF (event.direction = "long") = (kind = "credit") THEN "P" ELSE "C"
  <2>1. MirroredSpread(s, c)
          = [dte |-> dte, width |-> width, anchor |-> c - anchor, kind |-> kind, sold |-> c - sold, bought |-> c - bought,
             type |-> IF type = "P" THEN "C" ELSE "P", buffered |-> anchor # Anchor(event)]
    <3>1. /\ s.dte = dte /\ s.width = width /\ s.anchor = anchor /\ s.kind = kind /\ s.sold = sold
          /\ s.bought = bought /\ s.type = type /\ s.buffered = (anchor # Anchor(event))
      BY <1>3, Zenon
    <3> HIDE DEF sold, bought, type
    <3> QED BY <3>1, Zenon DEF MirroredSpread
  <2>2. /\ c - sold = IF kind = "credit" THEN c - anchor ELSE across
        /\ c - bought = IF kind = "credit" THEN across ELSE c - anchor
    BY <1>2
  <2> QED BY <2>1, <2>2, <1>4, <1>5, <1>6, Zenon
<1> QED BY <1>7 DEF m

(* The spreads of a short event are the mirrored spreads of the long one,
   calls for puts: the two branches of generateDesiredSpreads and of its
   rounding cannot drift apart. *)
THEOREM DirectionsMirror ==
    ASSUME NEW k \in Int, NEW c, c = k * Thousand, NEW event \in [extreme : Int, direction : {"long", "short"}],
           NEW dtes, NEW widths \in SUBSET Nat, NEW kind \in {"credit", "debit"}
    PROVE  GenerateDesiredSpreads(Mirrored(event, c), dtes, widths, kind)
             = {MirroredSpread(s, c) : s \in GenerateDesiredSpreads(event, dtes, widths, kind)}
<1> DEFINE m == Mirrored(event, c)
           Anchors(e) == {Anchor(e)} \cup IF Abs(e.extreme - Anchor(e)) < Near
                                           THEN {Anchor(e) + Away(e, Thousand)} ELSE {}
           Spread(e, x) == DesiredSpread(e, x[1], x[2], x[3], kind)
<1>1. /\ c \in Int /\ IsEvent(event) /\ IsEvent(m) /\ Anchor(event) \in Int /\ event.extreme \in Int
      /\ m.extreme = c - event.extreme /\ Anchor(m) = c - Anchor(event)
      /\ Away(event, Thousand) \in Int /\ Away(m, Thousand) = -Away(event, Thousand)
  BY MirroredEvent, AnchorIsSafe DEF IsEvent, Thousand, Away
<1>2. \A e \in {event, m} : GenerateDesiredSpreads(e, dtes, widths, kind)
                              = {Spread(e, x) : x \in Anchors(e) \X dtes \X widths}
  BY <1>1, NoneAssumption DEF GenerateDesiredSpreads, IsEvent
<1>3. Anchors(m) = {c - a : a \in Anchors(event)} /\ Anchors(event) \subseteq Int
  <2>1. m.extreme - Anchor(m) = -(event.extreme - Anchor(event))
    BY <1>1
  <2>2. Abs(m.extreme - Anchor(m)) = Abs(event.extreme - Anchor(event))
    BY <2>1, <1>1 DEF Abs
  <2>3. Anchor(m) + Away(m, Thousand) = c - (Anchor(event) + Away(event, Thousand))
    BY <1>1
  <2> HIDE DEF m
  <2> QED BY <2>2, <2>3, <1>1
<1> HIDE DEF m, Anchors
<1>4. ASSUME NEW a \in Anchors(event), NEW dte \in dtes, NEW width \in widths
      PROVE  Spread(m, <<c - a, dte, width>>) = MirroredSpread(Spread(event, <<a, dte, width>>), c)
  BY <1>3, <1>4, MirroredDesire DEF m
<1> HIDE DEF Spread
<1>5. {Spread(m, x) : x \in Anchors(m) \X dtes \X widths}
        = {MirroredSpread(s, c) : s \in {Spread(event, x) : x \in Anchors(event) \X dtes \X widths}}
  <2>1. ASSUME NEW x \in Anchors(m) \X dtes \X widths
        PROVE  \E y \in Anchors(event) \X dtes \X widths : Spread(m, x) = MirroredSpread(Spread(event, y), c)
    <3>1. PICK a \in Anchors(event), dte \in dtes, width \in widths : x = <<c - a, dte, width>>
      <4>1. x[1] \in Anchors(m) /\ x[2] \in dtes /\ x[3] \in widths /\ x = <<x[1], x[2], x[3]>>
        BY <2>1
      <4>2. PICK a \in Anchors(event) : x[1] = c - a
        BY <4>1, <1>3
      <4> QED BY <4>1, <4>2
    <3>2. <<a, dte, width>> \in Anchors(event) \X dtes \X widths
      OBVIOUS
    <3> QED BY <3>1, <3>2, <1>4
  <2>2. ASSUME NEW y \in Anchors(event) \X dtes \X widths
        PROVE  \E x \in Anchors(m) \X dtes \X widths : Spread(m, x) = MirroredSpread(Spread(event, y), c)
    <3>1. PICK a \in Anchors(event), dte \in dtes, width \in widths : y = <<a, dte, width>>
      <4>1. y[1] \in Anchors(event) /\ y[2] \in dtes /\ y[3] \in widths /\ y = <<y[1], y[2], y[3]>>
        BY <2>2
      <4> QED BY <4>1
    <3>2. <<c - a, dte, width>> \in Anchors(m) \X dtes \X widths
      BY <1>3
    <3> QED BY <3>1, <3>2, <1>4
  <2> QED BY <2>1, <2>2
<1> QED BY <1>2, <1>5 DEF m

(***************************************************************************)
(* The listed contracts a spread is retrieved from.                        *)
(***************************************************************************)
(* Of a chain that is not empty, the nearest strike is a listed one that no
   other is nearer than, the lower of two as near. *)
LEMMA NearestStrikeExists ==
    ASSUME NEW chain, IsFiniteSet(chain), chain # {}, \A c \in chain : c.strike \in Int, NEW strike \in Int
    PROVE  /\ NearestStrike(chain, strike) \in chain
           /\ \A d \in chain :
                 LET c == NearestStrike(chain, strike)
                 IN \/ Abs(c.strike - strike) < Abs(d.strike - strike)
                    \/ Abs(c.strike - strike) = Abs(d.strike - strike) /\ c.strike <= d.strike
<1> DEFINE Nearer(c, d) == \/ Abs(c.strike - strike) < Abs(d.strike - strike)
                           \/ Abs(c.strike - strike) = Abs(d.strike - strike) /\ c.strike <= d.strike
           R == {p \in chain \X chain : Nearer(p[1], p[2])}
<1>1. \A c \in chain : Abs(c.strike - strike) \in Int
  BY DEF Abs
<1>2. \A x, y \in chain : <<x, y>> \in R \/ <<y, x>> \in R
  BY <1>1
<1>3. \A x, y, z \in chain : <<x, y>> \in R /\ <<y, z>> \in R => <<x, z>> \in R
  BY <1>1
<1>4. \E x \in chain : \A y \in chain : <<x, y>> \in R
  <2> HIDE DEF R
  <2> QED BY <1>2, <1>3, LeastExists
<1>5. \E x \in chain : \A y \in chain : Nearer(x, y)
  BY <1>4
<1> QED BY <1>5 DEF NearestStrike

(* A higher wish never gives a lower listed strike. *)
LEMMA NearestStrikeIsMonotone ==
    ASSUME NEW chain, IsFiniteSet(chain), chain # {}, \A c \in chain : c.strike \in Int,
           NEW low \in Int, NEW high \in Int, low <= high
    PROVE  NearestStrike(chain, low).strike <= NearestStrike(chain, high).strike
<1> DEFINE a == NearestStrike(chain, low)
           b == NearestStrike(chain, high)
<1>1. a \in chain /\ b \in chain /\ a.strike \in Int /\ b.strike \in Int
  BY NearestStrikeExists
<1>2. \/ Abs(a.strike - low) < Abs(b.strike - low)
      \/ Abs(a.strike - low) = Abs(b.strike - low) /\ a.strike <= b.strike
  BY <1>1, NearestStrikeExists
<1>3. \/ Abs(b.strike - high) < Abs(a.strike - high)
      \/ Abs(b.strike - high) = Abs(a.strike - high) /\ b.strike <= a.strike
  BY <1>1, NearestStrikeExists
<1> HIDE DEF a, b
<1> QED BY <1>1, <1>2, <1>3 DEF Abs, a, b

(* The contracts a combination can take, a finite listing, the chain of an
   expiry and what is made of it, a combination. *)
Reachable(combo, entry, contracts, day) ==
    {c \in contracts : c.type = combo.type /\ c.expiry > entry /\ c.expiry - entry >= combo.dte * day}
IsListing(contracts) ==
    IsFiniteSet(contracts) /\ \A c \in contracts : c.expiry \in Int /\ c.strike \in Int
ChainOf(combo, expiry, contracts) == {c \in contracts : c.type = combo.type /\ c.expiry = expiry}
Retrieved(combo, entry, chain) ==
    LET sold == NearestStrike(chain, combo.sold)
        bought == NearestStrike(chain, combo.bought)
    IN [status |-> IF sold.first <= entry /\ bought.first <= entry THEN "ready" ELSE "partial",
        sold |-> sold, bought |-> bought]
IsCombo(combo) == combo.sold \in Int /\ combo.bought \in Int /\ combo.dte \in Int

(* What the retrieval returns comes from the chain of the first expiry that
   is far enough. *)
LEMMA FirstExpiry ==
    ASSUME NEW contracts, IsListing(contracts), NEW combo, IsCombo(combo), NEW entry \in Int, NEW day \in Int,
           Reachable(combo, entry, contracts, day) # {}
    PROVE  \E first \in Reachable(combo, entry, contracts, day) :
              /\ \A c \in Reachable(combo, entry, contracts, day) : first.expiry <= c.expiry
              /\ RetrieveSpread(combo, entry, contracts, day)
                    = Retrieved(combo, entry, ChainOf(combo, first.expiry, contracts))
              /\ first \in ChainOf(combo, first.expiry, contracts)
              /\ IsFiniteSet(ChainOf(combo, first.expiry, contracts))
              /\ \A c \in ChainOf(combo, first.expiry, contracts) : c.strike \in Int
<1> DEFINE far == Reachable(combo, entry, contracts, day)
           E == {c.expiry : c \in far}
<1>1. IsFiniteSet(far) /\ \A c \in far : c.expiry \in Int
  <2>1. far \in SUBSET contracts
    BY DEF Reachable
  <2> QED BY <2>1, FS_Subset DEF IsListing
<1>2. PICK first \in far : \A c \in far : first.expiry <= c.expiry
  <2> DEFINE R == {p \in far \X far : p[1].expiry <= p[2].expiry}
  <2>1. \A x, y \in far : <<x, y>> \in R \/ <<y, x>> \in R
    BY <1>1
  <2>2. \A x, y, z \in far : <<x, y>> \in R /\ <<y, z>> \in R => <<x, z>> \in R
    BY <1>1
  <2>3. \E x \in far : \A y \in far : <<x, y>> \in R
    <3> HIDE DEF R, far
    <3> QED BY <2>1, <2>2, <1>1, LeastExists DEF far
  <2> QED BY <2>3
<1>3. Min(E) = first.expiry
  <2>1. first.expiry \in E /\ (\A x \in E : x \in Int) /\ \A x \in E : first.expiry <= x
    BY <1>1, <1>2
  <2> HIDE DEF E
  <2> QED BY <2>1 DEF Min
<1> DEFINE chain == ChainOf(combo, first.expiry, contracts)
<1>5. first \in chain /\ IsFiniteSet(chain) /\ \A c \in chain : c.strike \in Int
  <2>1. chain \in SUBSET contracts
    BY DEF ChainOf
  <2>2. first \in chain
    BY <1>2 DEF Reachable, ChainOf
  <2> QED BY <2>1, <2>2, FS_Subset DEF IsListing
<1>6. RetrieveSpread(combo, entry, contracts, day) = Retrieved(combo, entry, chain)
  <2>1. E = {c.expiry : c \in {d \in contracts :
                        /\ d.type = combo.type /\ d.expiry > entry
                        /\ d.expiry - entry >= combo.dte * day}}
    BY DEF Reachable
  <2>2. E # {}
    OBVIOUS
  <2>3. chain = {c \in contracts : c.type = combo.type /\ c.expiry = Min(E)}
    BY <1>3 DEF ChainOf
  <2> HIDE DEF E, chain
  <2> QED BY <2>1, <2>2, <2>3 DEF RetrieveSpread, Retrieved
<1>7. \A c \in far : first.expiry <= c.expiry
  BY <1>2
<1> QED BY <1>5, <1>6, <1>7

(* A spread retrieved from a listing has both legs of the first expiry that
   is far enough out, of the type asked for, and in the order asked for:
   snapping each leg to its nearest listed strike never crosses them,
   whatever is listed. It is missing only when no expiry is far enough, and
   ready only when both legs were seen by the entry. *)
THEOREM RetrievedLegsKeepTheirOrder ==
    ASSUME NEW contracts, IsListing(contracts), NEW combo, IsCombo(combo), NEW entry \in Int, NEW day \in Int,
           NEW r, r = RetrieveSpread(combo, entry, contracts, day)
    PROVE  /\ (r.status = "missing") = (Reachable(combo, entry, contracts, day) = {})
           /\ r.status # "missing" =>
                 /\ {r.sold, r.bought} \subseteq Reachable(combo, entry, contracts, day)
                 /\ r.sold.expiry = r.bought.expiry
                 /\ \A c \in Reachable(combo, entry, contracts, day) : r.sold.expiry <= c.expiry
                 /\ combo.sold <= combo.bought => r.sold.strike <= r.bought.strike
                 /\ combo.bought <= combo.sold => r.bought.strike <= r.sold.strike
           /\ r.status = "ready" => r.sold.first <= entry /\ r.bought.first <= entry
<1> DEFINE far == Reachable(combo, entry, contracts, day)
<1>1. CASE far = {}
  <2>1. {c.expiry : c \in {d \in contracts : d.type = combo.type /\ d.expiry > entry
                                              /\ d.expiry - entry >= combo.dte * day}} = {}
    BY <1>1 DEF Reachable
  <2>2. r = [status |-> "missing", sold |-> None, bought |-> None]
    BY <2>1 DEF RetrieveSpread
  <2> QED BY <1>1, <2>2
<1>2. CASE far # {}
  <2>1. PICK first \in far :
           /\ \A c \in far : first.expiry <= c.expiry
           /\ r = Retrieved(combo, entry, ChainOf(combo, first.expiry, contracts))
           /\ first \in ChainOf(combo, first.expiry, contracts)
           /\ IsFiniteSet(ChainOf(combo, first.expiry, contracts))
           /\ \A c \in ChainOf(combo, first.expiry, contracts) : c.strike \in Int
    BY <1>2, FirstExpiry
  <2> DEFINE chain == ChainOf(combo, first.expiry, contracts)
  <2>2. /\ r.sold = NearestStrike(chain, combo.sold) /\ r.bought = NearestStrike(chain, combo.bought)
        /\ r.status = IF r.sold.first <= entry /\ r.bought.first <= entry THEN "ready" ELSE "partial"
        /\ first \in chain /\ IsFiniteSet(chain) /\ \A c \in chain : c.strike \in Int
    BY <2>1 DEF Retrieved
  <2>3. chain \subseteq far /\ \A c \in chain : c.expiry = first.expiry
    BY <2>1 DEF Reachable, ChainOf
  <2> HIDE DEF chain, far
  <2>4. r.sold \in chain /\ r.bought \in chain
    BY <2>2, NearestStrikeExists DEF IsCombo
  <2>5. /\ combo.sold <= combo.bought => r.sold.strike <= r.bought.strike
        /\ combo.bought <= combo.sold => r.bought.strike <= r.sold.strike
    BY <2>2, NearestStrikeIsMonotone DEF IsCombo
  <2> QED BY <1>2, <2>1, <2>2, <2>3, <2>4, <2>5 DEF far
<1> QED BY <1>1, <1>2

(* Contracts listed for later expiries, however many and at whatever strikes,
   do not change what is retrieved. *)
THEOREM LaterListingsChangeNothing ==
    ASSUME NEW contracts, IsListing(contracts), NEW combo, IsCombo(combo), NEW entry \in Int, NEW day \in Int,
           NEW more, IsListing(more), Reachable(combo, entry, contracts, day) # {},
           \A c \in more, d \in Reachable(combo, entry, contracts, day) : c.expiry > d.expiry
    PROVE  RetrieveSpread(combo, entry, contracts \cup more, day) = RetrieveSpread(combo, entry, contracts, day)
<1> DEFINE all == contracts \cup more
           far == Reachable(combo, entry, contracts, day)
           reachable == Reachable(combo, entry, all, day)
<1>1. IsListing(all)
  BY FS_Union DEF IsListing
<1>2. /\ far \subseteq reachable /\ far # {} /\ reachable # {} /\ \A c \in reachable : c \in far \/ c \in more
      /\ \A c \in reachable : c.expiry \in Int
      /\ \A c \in more, d \in far : c.expiry > d.expiry
  BY <1>1 DEF Reachable, IsListing
<1> HIDE DEF far, reachable, all
<1>3. PICK first \in far : /\ \A c \in far : first.expiry <= c.expiry
                           /\ RetrieveSpread(combo, entry, contracts, day)
                                 = Retrieved(combo, entry, ChainOf(combo, first.expiry, contracts))
  BY <1>2, FirstExpiry DEF far
<1>4. PICK next \in reachable : /\ \A c \in reachable : next.expiry <= c.expiry
                                /\ RetrieveSpread(combo, entry, all, day)
                                      = Retrieved(combo, entry, ChainOf(combo, next.expiry, all))
  BY <1>1, <1>2, FirstExpiry DEF reachable
<1>5. next.expiry = first.expiry
  <2>1. first \in reachable /\ first.expiry \in Int /\ next.expiry \in Int
    BY <1>2, <1>3, <1>4
  <2>2. next \in far
    BY <2>1, <1>2, <1>3, <1>4
  <2> QED BY <2>1, <2>2, <1>3, <1>4
<1>6. ChainOf(combo, first.expiry, all) = ChainOf(combo, first.expiry, contracts)
  <2>1. \A c \in more : c.expiry # first.expiry
    BY <1>2, <1>3 DEF IsListing
  <2> QED BY <2>1 DEF ChainOf, all
<1> QED BY <1>3, <1>4, <1>5, <1>6 DEF all

(***************************************************************************)
(* The row of an expiry.                                                   *)
(***************************************************************************)
(* A viable row has a series for both legs, and no leg of it is refuted or
   unknown; outside the research estimate both are listed and the evidence is
   not red. *)
THEOREM ViableMeansEvidence ==
    ASSUME NEW m, NEW entry, NEW inv, NEW mode, NEW research, research \in BOOLEAN, NEW day,
           NEW row, row = Judge(m, entry, inv, mode, research, day), row.viable
    PROVE  /\ row.retrieval = "ready" /\ SeriesOf(m.sold, inv) # None /\ SeriesOf(m.bought, inv) # None
           /\ \A leg \in {"sold", "bought"} : row.listing[leg] # "not-listed" /\ row.listing[leg] # "listing-unknown"
           /\ ~research => /\ row.quality # "red"
                           /\ \A leg \in {"sold", "bought"} : row.listing[leg] = "listed"
<1> DEFINE sold == SeriesOf(m.sold, inv)
           bought == SeriesOf(m.bought, inv)
           loaded == sold # None /\ bought # None
           norm == EntryEvidence(m, sold, bought, entry, mode, research)
           sa == HistoricalLiquidity(sold, entry, "sell", mode, day)
           ba == HistoricalLiquidity(bought, entry, "buy", mode, day)
<1>1. row = Verdict(m, entry, research, loaded, norm, sa, ba)
  BY DEF Judge
<1> HIDE DEF norm, sa, ba, sold, bought, loaded
<1> DEFINE both == loaded /\ norm.sold.nearest # None /\ norm.bought.nearest # None
<1>2. /\ loaded /\ ~m.unavailable /\ ListingEligible(m, entry, research /\ both) /\ both
      /\ research \/ norm.quality # "red"
      /\ row.quality = norm.quality /\ row.retrieval = "ready"
      /\ \A leg \in {"sold", "bought"} : row.listing[leg] =
            LET created == IF leg = "sold" THEN m.soldCreated ELSE m.boughtCreated
            IN IF Listed(created, entry) THEN "listed"
               ELSE IF Refuted(created, entry) THEN "not-listed"
               ELSE IF research /\ both THEN "listing-plausible" ELSE "listing-unknown"
  BY <1>1 DEF Verdict
<1>3. CASE research
  BY <1>2, <1>3 DEF ListingEligible, Listed, Refuted, loaded, sold, bought
<1>4. CASE ~research
  BY <1>2, <1>4 DEF ListingEligible, Listed, Refuted, loaded, sold, bought
<1> QED BY <1>3, <1>4

(***************************************************************************)
(* Induction over sets of data.                                            *)
(***************************************************************************)
(* Induction on the natural numbers, over a set of them. *)
LEMMA NumbersFromZero ==
    ASSUME NEW G \in SUBSET Nat, 0 \in G, \A n \in G : n + 1 \in G
    PROVE  G = Nat
<1> DEFINE Bad == Nat \ G
<1> SUFFICES ASSUME Bad # {} PROVE FALSE
  OBVIOUS
<1>1. PICK n \in Bad : \A m \in Bad : ~(<<m, n>> \in OpToRel(<, Nat))
  <2>1. Bad \subseteq Nat
    OBVIOUS
  <2> HIDE DEF Bad
  <2> QED BY <2>1, NatLessThanWellFounded, WFMin, Zenon
<1>2. \A m \in Nat : m < n => m \notin Bad
  BY <1>1 DEF OpToRel
<1>3. n \in Nat /\ n # 0 /\ n - 1 \in Nat
  OBVIOUS
<1>4. n - 1 \in G
  BY <1>2, <1>3
<1>5. n \in G
  <2>1. (n - 1) + 1 = n
    BY <1>3
  <2> QED BY <1>4, <2>1
<1> QED BY <1>5

(* Induction on the parts of a finite set: what holds of the empty part, and of a
   part once of that part less each of its members, holds of every part. *)
LEMMA SubsetsFromEmpty ==
    ASSUME NEW S, IsFiniteSet(S), NEW G \in SUBSET SUBSET S, {} \in G,
           \A s \in SUBSET S : s # {} /\ (\A x \in s : s \ {x} \in G) => s \in G
    PROVE  G = SUBSET S
<1> DEFINE Bad == (SUBSET S) \ G
<1> SUFFICES ASSUME Bad # {} PROVE FALSE
  OBVIOUS
<1> DEFINE O == StrictSubsetOrdering(S)
           P == SUBSET S
<1>2. IsWellFoundedOn(O, P)
  <2>1. IsWellFoundedOn(O, FiniteSubsetsOf(S))
    BY FS_StrictSubsetOrderingWellFounded
  <2>2. FiniteSubsetsOf(S) = P
    BY FS_FiniteSubsetsOfFinite
  <2> HIDE DEF O, P
  <2> QED BY <2>1, <2>2
<1>3. PICK T \in Bad : \A U \in Bad : ~(<<U, T>> \in O)
  <2>1. Bad \subseteq P /\ Bad # {}
    OBVIOUS
  <2> HIDE DEF Bad, O, P
  <2> QED BY <1>2, <2>1, WFMin
<1>4. \A x \in T : T \ {x} \in G
  <2> SUFFICES ASSUME NEW x \in T, T \ {x} \notin G PROVE FALSE
    OBVIOUS
  <2>1. T \ {x} \in Bad
    OBVIOUS
  <2>2. <<T \ {x}, T>> \in StrictSubsetOrdering(S)
    BY DEF StrictSubsetOrdering
  <2> QED BY <2>1, <2>2, <1>3
<1> QED BY <1>4, <1>3

\* What a fold over the members of S, picked one after the other, has for each part of S.
IsFold(g, S, base, pick, step) ==
    \A s \in SUBSET S : g[s] = IF s = {} THEN base ELSE step[<<pick[s], g[s \ {pick[s]}]>>]

(* A fold over a finite set that takes its members in an order that pick decides
   exists: by induction on the cardinality of the part that is folded. *)
LEMMA FoldExists ==
    ASSUME NEW S, IsFiniteSet(S), NEW A, NEW base \in A,
           NEW pick, \A s \in SUBSET S : s # {} => pick[s] \in s,
           NEW step \in [S \X A -> A]
    PROVE  \E g \in [SUBSET S -> A] : IsFold(g, S, base, pick, step)
<1> DEFINE Small(n) == {s \in SUBSET S : Cardinality(s) <= n}
           Solves(g, n) == /\ g \in [Small(n) -> A]
                           /\ \A s \in Small(n) :
                                 g[s] = IF s = {} THEN base ELSE step[<<pick[s], g[s \ {pick[s]}]>>]
           G == {n \in Nat : \E g : Solves(g, n)}
<1>1. \A s \in SUBSET S : IsFiniteSet(s) /\ Cardinality(s) \in Nat
  BY FS_Subset, FS_CardinalityType
<1>2. \A s \in SUBSET S : s # {} => Cardinality(s \ {pick[s]}) = Cardinality(s) - 1 /\ s \ {pick[s]} \in SUBSET S
  BY <1>1, FS_RemoveElement
<1>3. \A s \in SUBSET S : Cardinality(s) = 0 <=> s = {}
  BY <1>1, FS_EmptySet
<1>4. 0 \in G
  <2> DEFINE g == [s \in Small(0) |-> base]
  <2>1. \A s \in Small(0) : s = {}
    BY <1>1, <1>3
  <2>2. Solves(g, 0)
    BY <2>1
  <2> QED BY <2>2
<1>5. ASSUME NEW n \in G PROVE n + 1 \in G
  <2>1. n \in Nat
    OBVIOUS
  <2>2. PICK g : Solves(g, n)
    OBVIOUS
  <2> DEFINE h == [s \in Small(n + 1) |-> IF s = {} THEN base ELSE step[<<pick[s], g[s \ {pick[s]}]>>]]
  <2>3. \A s \in Small(n + 1) : s # {} => s \ {pick[s]} \in Small(n) /\ s \ {pick[s]} \in Small(n + 1) /\ pick[s] \in S
    BY <1>1, <1>2, <2>1
  <2>4. \A s \in Small(n) : s \in Small(n + 1)
    BY <1>1, <2>1
  <2> HIDE DEF Small
  <2>5. \A s \in Small(n) : h[s] = g[s]
    BY <2>2, <2>4
  <2>6. h \in [Small(n + 1) -> A]
    BY <2>2, <2>3
  <2>7. \A s \in Small(n + 1) : h[s] = IF s = {} THEN base ELSE step[<<pick[s], h[s \ {pick[s]}]>>]
    BY <2>3, <2>5
  <2> HIDE DEF h
  <2>8. Solves(h, n + 1)
    BY <2>6, <2>7
  <2> HIDE DEF Solves
  <2> QED BY <2>1, <2>8
<1> HIDE DEF G
<1>6. G = Nat
  <2>1. G \in SUBSET Nat
    BY DEF G
  <2> QED BY <1>4, <1>5, <2>1, NumbersFromZero
<1>7. Cardinality(S) \in G
  BY <1>1, <1>6
<1>8. PICK g : Solves(g, Cardinality(S))
  BY <1>7 DEF G
<1>9. Small(Cardinality(S)) = SUBSET S
  BY FS_Subset
<1> HIDE DEF Small
<1> QED BY <1>8, <1>9 DEF IsFold

(***************************************************************************)
(* The tape in the order it fills.                                         *)
(***************************************************************************)
\* A tape: finitely many prints, no two of one time and id.
IsPrint(p) == p.at \in Int /\ p.id \in Int /\ p.amount \in Int /\ p.price \in Int
IsTape(S) == /\ IsFiniteSet(S) /\ \A p \in S : IsPrint(p)
             /\ \A p, q \in S : p.at = q.at /\ p.id = q.id => p = q
LastPrint(S) == CHOOSE x \in S : \A y \in S \ {x} : FillsBefore(y, x)

(* A tape that is not empty has a last print. *)
LEMMA LastPrintIsLast ==
    ASSUME NEW S, IsTape(S), S # {}
    PROVE  LastPrint(S) \in S /\ \A y \in S \ {LastPrint(S)} : FillsBefore(y, LastPrint(S))
<1> DEFINE R == {w \in S \X S : w[1] = w[2] \/ FillsBefore(w[2], w[1])}
<1>1. \A x, y \in S : <<x, y>> \in R \/ <<y, x>> \in R
  BY DEF IsTape, IsPrint, FillsBefore
<1>2. \A x, y, z \in S : <<x, y>> \in R /\ <<y, z>> \in R => <<x, z>> \in R
  BY DEF IsTape, IsPrint, FillsBefore
<1>3. \A x, y \in S : <<x, y>> \in R /\ y # x => FillsBefore(y, x)
  OBVIOUS
<1> HIDE DEF R
<1>4. PICK x \in S : \A y \in S : <<x, y>> \in R
  BY <1>1, <1>2, LeastExists DEF IsTape
<1>5. \A y \in S \ {x} : FillsBefore(y, x)
  BY <1>3, <1>4
<1> QED BY <1>5 DEF LastPrint

(* Some prints of a tape are a tape. *)
LEMMA PartOfTape == ASSUME NEW S, IsTape(S), NEW T \in SUBSET S PROVE IsTape(T)
BY FS_Subset DEF IsTape

\* The fold of InOrder, as a function on the parts of the tape.
OrderOf(g, S) == \A s \in SUBSET S : g[s] = IF s = {} THEN <<>> ELSE Append(g[s \ {LastPrint(s)}], LastPrint(s))

(* InTapeOrder with its definitions and the library's fold expanded. *)
LEMMA TapeOrderIs ==
    ASSUME NEW S
    PROVE  InTapeOrder(S) = (CHOOSE f : f = [s \in SUBSET S |->
               IF s = {} THEN <<>> ELSE Append(f[s \ {LastPrint(s)}], LastPrint(s))])[S]
BY DEF InTapeOrder, InOrder, MapThenFoldSet, LastPrint

(* Two such folds agree on what they both fold. *)
LEMMA OrdersAgree ==
    ASSUME NEW S, IsTape(S), NEW T, NEW U, S \subseteq T, S \subseteq U, NEW g, OrderOf(g, T), NEW h, OrderOf(h, U)
    PROVE  g[S] = h[S]
<1> DEFINE G == {s \in SUBSET S : g[s] = h[s]}
<1>1. {} \in G
  BY DEF OrderOf
<1>2. ASSUME NEW s \in SUBSET S, s # {}, \A x \in s : s \ {x} \in G PROVE s \in G
  <2>1. LastPrint(s) \in s
    BY <1>2, PartOfTape, LastPrintIsLast
  <2>2. g[s \ {LastPrint(s)}] = h[s \ {LastPrint(s)}]
    BY <2>1, <1>2
  <2>3. g[s] = Append(g[s \ {LastPrint(s)}], LastPrint(s)) /\ h[s] = Append(h[s \ {LastPrint(s)}], LastPrint(s))
    BY <1>2 DEF OrderOf
  <2> QED BY <2>2, <2>3
<1>3. G = SUBSET S
  <2>1. G \in SUBSET SUBSET S
    OBVIOUS
  <2> HIDE DEF G
  <2> QED BY <1>1, <1>2, <2>1, SubsetsFromEmpty DEF IsTape
<1> QED BY <1>3

(* There is such a fold, and InTapeOrder is one. *)
LEMMA TapeHasOrder ==
    ASSUME NEW S, IsTape(S)
    PROVE  \E g \in [SUBSET S -> Seq(S)] : OrderOf(g, S) /\ InTapeOrder(S) = g[S]
<1> DEFINE pick == [s \in SUBSET S |-> LastPrint(s)]
           step == [w \in S \X Seq(S) |-> Append(w[2], w[1])]
           Body(f) == [s \in SUBSET S |-> IF s = {} THEN <<>> ELSE Append(f[s \ {LastPrint(s)}], LastPrint(s))]
<1>1. \A s \in SUBSET S : s # {} => pick[s] = LastPrint(s) /\ pick[s] \in s
  BY PartOfTape, LastPrintIsLast
<1>2. step \in [S \X Seq(S) -> Seq(S)]
  OBVIOUS
<1>3. \A x \in S, q \in Seq(S) : step[<<x, q>>] = Append(q, x)
  OBVIOUS
<1>4. <<>> \in Seq(S)
  OBVIOUS
<1> HIDE DEF pick, step
<1>5. PICK g \in [SUBSET S -> Seq(S)] : IsFold(g, S, <<>>, pick, step)
  <2>1. \A s \in SUBSET S : s # {} => pick[s] \in s
    BY <1>1
  <2> QED BY <1>2, <1>4, <2>1, FoldExists DEF IsTape
<1>6. OrderOf(g, S)
  <2> SUFFICES ASSUME NEW s \in SUBSET S, s # {} PROVE g[s] = Append(g[s \ {LastPrint(s)}], LastPrint(s))
    BY <1>5 DEF OrderOf, IsFold
  <2>1. LastPrint(s) \in S /\ g[s \ {LastPrint(s)}] \in Seq(S)
    BY <1>1
  <2> QED BY <2>1, <1>1, <1>3, <1>5 DEF IsFold
<1>7. g = Body(g)
  BY <1>6 DEF OrderOf
<1> DEFINE iter == CHOOSE f : f = Body(f)
<1>8. iter = Body(iter)
  BY <1>7, Zenon
<1>9. OrderOf(iter, S)
  BY <1>8 DEF OrderOf
<1>10. InTapeOrder(S) = iter[S]
  BY TapeOrderIs
<1> HIDE DEF iter, Body
<1>11. iter[S] = g[S]
  BY <1>6, <1>9, OrdersAgree
<1> QED BY <1>6, <1>10, <1>11

(* The tape in order is the tape before its last print, and then that. *)
LEMMA TapeOrderGrows ==
    ASSUME NEW S, IsTape(S)
    PROVE  /\ InTapeOrder({}) = <<>>
           /\ InTapeOrder(S) \in Seq(S)
           /\ S # {} => InTapeOrder(S) = Append(InTapeOrder(S \ {LastPrint(S)}), LastPrint(S))
<1>1. PICK g \in [SUBSET S -> Seq(S)] : OrderOf(g, S) /\ InTapeOrder(S) = g[S]
  BY TapeHasOrder
<1>2. ASSUME NEW T \in SUBSET S PROVE InTapeOrder(T) = g[T]
  <2>1. IsTape(T)
    BY PartOfTape
  <2>2. PICK h \in [SUBSET T -> Seq(T)] : OrderOf(h, T) /\ InTapeOrder(T) = h[T]
    BY <2>1, TapeHasOrder
  <2>3. h[T] = g[T]
    BY <2>1, <2>2, <1>1, OrdersAgree
  <2> QED BY <2>2, <2>3
<1>3. InTapeOrder({}) = g[{}] /\ InTapeOrder(S \ {LastPrint(S)}) = g[S \ {LastPrint(S)}]
  BY <1>2
<1>4. g[{}] = <<>> /\ (S # {} => g[S] = Append(g[S \ {LastPrint(S)}], LastPrint(S)))
  BY <1>1 DEF OrderOf
<1> QED BY <1>1, <1>3, <1>4

(***************************************************************************)
(* What is consumed of it.                                                 *)
(***************************************************************************)
FillTally == [remaining : Int, notional : Int, at : Int \cup {None}, ids : Seq(Int)]
Untouched(amount) == [remaining |-> amount, notional |-> 0, at |-> None, ids |-> <<>>]

(* Consuming a print keeps the tally's types. *)
LEMMA EatKeepsTally ==
    ASSUME NEW acc \in FillTally, NEW p, IsPrint(p)
    PROVE  Eat(acc, p) \in FillTally
<1> DEFINE used == Lesser(acc.remaining, p.amount)
<1>1. used \in Int
  BY DEF FillTally, IsPrint, Lesser
<1>2. acc.remaining - used \in Int /\ acc.notional + p.price * used \in Int /\ p.at \in Int
  BY <1>1 DEF FillTally, IsPrint
<1>3. Append(acc.ids, p.id) \in Seq(Int)
  BY DEF FillTally, IsPrint
<1> HIDE DEF used
<1>4. [remaining |-> acc.remaining - used, notional |-> acc.notional + p.price * used,
       at |-> p.at, ids |-> Append(acc.ids, p.id)] \in FillTally
  BY <1>2, <1>3 DEF FillTally
<1>5. Eat(acc, p) = IF acc.remaining <= 0 THEN acc
       ELSE [remaining |-> acc.remaining - used, notional |-> acc.notional + p.price * used,
             at |-> p.at, ids |-> Append(acc.ids, p.id)]
  BY DEF Eat, used
<1> QED BY <1>4, <1>5

TallyOf(g, q, n, amount) ==
    \A s \in SUBSET (1..n) : g[s] = IF s = {} THEN Untouched(amount) ELSE Eat(g[s \ {Max(s)}], q[Max(s)])

(* Consume with its definition and the library's folds expanded. *)
LEMMA ConsumeIs ==
    ASSUME NEW q, NEW amount
    PROVE  Consume(q, amount) = (CHOOSE f : f = [s \in SUBSET DOMAIN q |->
               IF s = {} THEN Untouched(amount) ELSE Eat(f[s \ {Max(s)}], q[Max(s)])])[DOMAIN q]
BY DEF Consume, FoldLeft, MapThenFoldSet, Untouched

(* The last of the first n numbers. *)
LEMMA LastIndex ==
    ASSUME NEW n \in Nat
    PROVE  /\ IsFiniteSet(1..n)
           /\ \A s \in SUBSET (1..n) : s # {} => Max(s) \in s
           /\ n > 0 => Max(1..n) = n /\ (1..n) \ {n} = 1..(n - 1)
<1>1. IsFiniteSet(1..n)
  BY FS_Interval
<1>2. ASSUME NEW s \in SUBSET (1..n), s # {} PROVE Max(s) \in s
  <2>1. IsFiniteSet(s) /\ s \in SUBSET Int
    <3>1. IsFiniteSet(s)
      BY <1>1, FS_Subset
    <3>2. s \in SUBSET Int
      OBVIOUS
    <3> QED BY <3>1, <3>2
  <2>2. PICK x \in s : \A y \in s : y <= x
    BY <2>1, <1>2, IntegerMax
  <2> QED BY <2>1, <2>2, GreatestIsMax
<1>3. ASSUME n > 0 PROVE Max(1..n) = n /\ (1..n) \ {n} = 1..(n - 1)
  <2>1. n \in 1..n /\ 1..n \in SUBSET Int /\ \A y \in 1..n : y <= n
    BY <1>3
  <2>2. Max(1..n) = n
    BY <2>1, GreatestIsMax
  <2> QED BY <2>2, <1>3
<1> QED BY <1>1, <1>2, <1>3

\* Rows q and r that begin with the same k rows.
BeginAlike(q, r, k) == \A i \in 1..k : q[i] = r[i]
\* Tallies g and h that have the same value after k rows.
TallyAlike(g, h, k) == g[1..k] = h[1..k]

(* Two tallies of rows that begin the same agree on that beginning. *)
LEMMA TalliesAgree ==
    ASSUME NEW m \in Nat, NEW n \in Nat, NEW k \in Nat, k <= m, k <= n, NEW q, NEW r, BeginAlike(q, r, k),
           NEW amount, NEW g, TallyOf(g, q, m, amount), NEW h, TallyOf(h, r, n, amount)
    PROVE  TallyAlike(g, h, k)
<1> DEFINE K == 1..k
           G == {s \in SUBSET K : g[s] = h[s]}
<1>0. K \subseteq 1..m /\ K \subseteq 1..n
  OBVIOUS
<1>1. {} \in G
  BY DEF TallyOf
<1>2. ASSUME NEW s \in SUBSET K, s # {}, \A x \in s : s \ {x} \in G PROVE s \in G
  <2>1. Max(s) \in s
    BY <1>2, LastIndex
  <2>2. g[s \ {Max(s)}] = h[s \ {Max(s)}] /\ q[Max(s)] = r[Max(s)]
    BY <2>1, <1>2 DEF BeginAlike
  <2>3. s \in SUBSET (1..m) /\ s \in SUBSET (1..n)
    BY <1>0
  <2>4. g[s] = Eat(g[s \ {Max(s)}], q[Max(s)]) /\ h[s] = Eat(h[s \ {Max(s)}], r[Max(s)])
    BY <1>2, <2>3 DEF TallyOf
  <2> QED BY <2>2, <2>4
<1>3. G = SUBSET K
  <2>1. G \in SUBSET SUBSET K /\ IsFiniteSet(K)
    BY LastIndex
  <2> HIDE DEF G, K
  <2> QED BY <1>1, <1>2, <2>1, SubsetsFromEmpty
<1> QED BY <1>3 DEF TallyAlike

(* There is such a tally, and Consume is one. *)
LEMMA TallyExists ==
    ASSUME NEW Prints, \A p \in Prints : IsPrint(p), NEW q \in Seq(Prints), NEW amount \in Int
    PROVE  \E g \in [SUBSET (1..Len(q)) -> FillTally] : TallyOf(g, q, Len(q), amount) /\ Consume(q, amount) = g[1..Len(q)]
<1> DEFINE n == Len(q)
           S == 1..n
           pick == [s \in SUBSET S |-> Max(s)]
           step == [w \in S \X FillTally |-> Eat(w[2], q[w[1]])]
           Body(f) == [s \in SUBSET S |-> IF s = {} THEN Untouched(amount) ELSE Eat(f[s \ {Max(s)}], q[Max(s)])]
<1>0. n \in Nat /\ DOMAIN q = S /\ \A i \in S : IsPrint(q[i])
  OBVIOUS
<1>1. IsFiniteSet(S) /\ \A s \in SUBSET S : s # {} => pick[s] = Max(s) /\ pick[s] \in s
  BY <1>0, LastIndex
<1>2. \A i \in S, acc \in FillTally : Eat(acc, q[i]) \in FillTally
  BY <1>0, EatKeepsTally
<1>3. step \in [S \X FillTally -> FillTally]
  BY <1>2
<1>4. \A i \in S, acc \in FillTally : step[<<i, acc>>] = Eat(acc, q[i])
  OBVIOUS
<1>5. Untouched(amount) \in FillTally
  BY DEF Untouched, FillTally
<1>6. DOMAIN q = S
  BY <1>0
<1> HIDE DEF pick, step, S
<1>7. PICK g \in [SUBSET S -> FillTally] : IsFold(g, S, Untouched(amount), pick, step)
  <2>1. \A s \in SUBSET S : s # {} => pick[s] \in s
    BY <1>1
  <2> QED BY <1>1, <1>3, <1>5, <2>1, FoldExists
<1>8. \A s \in SUBSET S : g[s] = IF s = {} THEN Untouched(amount) ELSE Eat(g[s \ {Max(s)}], q[Max(s)])
  <2> SUFFICES ASSUME NEW s \in SUBSET S, s # {} PROVE g[s] = Eat(g[s \ {Max(s)}], q[Max(s)])
    BY <1>7 DEF IsFold
  <2>1. Max(s) \in S /\ g[s \ {Max(s)}] \in FillTally
    BY <1>1
  <2> QED BY <2>1, <1>1, <1>4, <1>7 DEF IsFold
<1>9. TallyOf(g, q, n, amount)
  BY <1>8 DEF TallyOf, S
<1>10. g = Body(g)
  BY <1>8
<1> DEFINE iter == CHOOSE f : f = Body(f)
<1>11. iter = Body(iter)
  BY <1>10, Zenon
<1>12. TallyOf(iter, q, n, amount)
  <2>1. \A s \in SUBSET S : iter[s] = IF s = {} THEN Untouched(amount) ELSE Eat(iter[s \ {Max(s)}], q[Max(s)])
    BY <1>11
  <2> HIDE DEF iter
  <2> QED BY <2>1 DEF TallyOf, S
<1>13. Consume(q, amount) = iter[S]
  BY ConsumeIs, <1>6
<1> HIDE DEF iter, Body
<1>14. iter[S] = g[S]
  <2>1. BeginAlike(q, q, n)
    BY DEF BeginAlike
  <2>2. TallyAlike(iter, g, n)
    BY <1>9, <1>12, <1>0, <2>1, TalliesAgree
  <2> QED BY <2>2 DEF TallyAlike, S
<1> QED BY <1>9, <1>13, <1>14 DEF S

(* Consuming one more print. *)
LEMMA ConsumeGrows ==
    ASSUME NEW Prints, \A p \in Prints : IsPrint(p), NEW q \in Seq(Prints), NEW amount \in Int
    PROVE  /\ Consume(<<>>, amount) = Untouched(amount)
           /\ Consume(q, amount) \in FillTally
           /\ \A p \in Prints : Consume(Append(q, p), amount) = Eat(Consume(q, amount), p)
<1>1. Consume(<<>>, amount) = Untouched(amount)
  <2>1. PICK g \in [SUBSET (1..Len(<<>>)) -> FillTally] :
           TallyOf(g, <<>>, Len(<<>>), amount) /\ Consume(<<>>, amount) = g[1..Len(<<>>)]
    <3>1. <<>> \in Seq(Prints)
      OBVIOUS
    <3> QED BY <3>1, TallyExists
  <2>2. 1..Len(<<>>) = {}
    OBVIOUS
  <2> QED BY <2>1, <2>2 DEF TallyOf
<1>2. PICK h \in [SUBSET (1..Len(q)) -> FillTally] :
         TallyOf(h, q, Len(q), amount) /\ Consume(q, amount) = h[1..Len(q)]
  BY TallyExists
<1>3. Consume(q, amount) \in FillTally
  BY <1>2
<1>4. ASSUME NEW p \in Prints PROVE Consume(Append(q, p), amount) = Eat(Consume(q, amount), p)
  <2> DEFINE r == Append(q, p)
             n == Len(q)
  <2>1. /\ r \in Seq(Prints) /\ n \in Nat /\ Len(r) = n + 1
        /\ \A i \in 1..n : r[i] = q[i]
        /\ r[n + 1] = p
    OBVIOUS
  <2> HIDE DEF r
  <2>2. PICK g \in [SUBSET (1..Len(r)) -> FillTally] :
           TallyOf(g, r, Len(r), amount) /\ Consume(r, amount) = g[1..Len(r)]
    BY <2>1, TallyExists
  <2>3. Max(1..(n + 1)) = n + 1 /\ (1..(n + 1)) \ {n + 1} = 1..n
    <3>1. n + 1 \in Nat /\ n + 1 > 0 /\ (n + 1) - 1 = n
      BY <2>1
    <3> QED BY <3>1, LastIndex
  <2>4. g[1..(n + 1)] = Eat(g[1..n], p)
    <3>1. 1..(n + 1) # {} /\ 1..(n + 1) \in SUBSET (1..(n + 1))
      BY <2>1
    <3>2. TallyOf(g, r, n + 1, amount)
      BY <2>1, <2>2
    <3>3. g[1..(n + 1)] = Eat(g[(1..(n + 1)) \ {Max(1..(n + 1))}], r[Max(1..(n + 1))])
      BY <3>1, <3>2 DEF TallyOf
    <3> QED BY <3>3, <2>1, <2>3
  <2>5. g[1..n] = h[1..n]
    <3>1. TallyOf(g, r, n + 1, amount) /\ TallyOf(h, q, n, amount)
      BY <2>1, <2>2, <1>2
    <3>2. n \in Nat /\ n + 1 \in Nat /\ n <= n + 1 /\ n <= n
      BY <2>1
    <3>3. BeginAlike(r, q, n)
      BY <2>1 DEF BeginAlike
    <3> HIDE DEF n
    <3>4. TallyAlike(g, h, n)
      BY <3>1, <3>2, <3>3, TalliesAgree
    <3> QED BY <3>4 DEF TallyAlike
  <2> QED BY <2>1, <2>2, <2>4, <2>5, <1>2 DEF r
<1> QED BY <1>1, <1>3, <1>4

(***************************************************************************)
(* What a fill takes of the tape.                                          *)
(***************************************************************************)
\* Prints that can fill an order, at prices from low to high.
Supports(P, low, high) == \A p \in P : IsPrint(p) /\ p.amount > 0 /\ low <= p.price /\ p.price <= high
\* A tally of such prints: what it took is theirs, at their time and at their prices.
FairTally(acc, P, amount, low, high) ==
    /\ acc \in FillTally /\ 0 <= acc.remaining /\ acc.remaining <= amount
    /\ acc.remaining < amount => acc.at \in {p.at : p \in P}
    /\ low * (amount - acc.remaining) <= acc.notional
    /\ acc.notional <= high * (amount - acc.remaining)

(* A notional between two prices times an amount stays so when more is taken at a
   price between them. *)
LEMMA WeighedBetween ==
    ASSUME NEW low \in Int, NEW high \in Int, NEW price \in Int, low <= price, price <= high,
           NEW used \in Nat, NEW done \in Int, NEW notional \in Int,
           low * done <= notional, notional <= high * done
    PROVE  /\ low * (done + used) <= notional + price * used
           /\ notional + price * used <= high * (done + used)
<1>1. low * used <= price * used /\ price * used <= high * used
  <2>1. (price - low) * used >= 0 /\ (high - price) * used >= 0
    <3>1. price - low \in Nat /\ high - price \in Nat
      OBVIOUS
    <3>2. \A m, n \in Nat : m * n >= 0
      OBVIOUS
    <3> QED BY <3>1, <3>2
  <2>2. (price - low) * used = price * used - low * used /\ (high - price) * used = high * used - price * used
    OBVIOUS
  <2> QED BY <2>1, <2>2
<1>2. low * (done + used) = low * done + low * used /\ high * (done + used) = high * done + high * used
  OBVIOUS
<1>3. /\ low * done \in Int /\ low * used \in Int /\ price * used \in Int /\ high * done \in Int
      /\ high * used \in Int
  OBVIOUS
<1> QED BY <1>1, <1>2, <1>3

(* Taking another print keeps a tally fair. *)
LEMMA EatIsFair ==
    ASSUME NEW P, NEW amount \in Int, NEW low \in Int, NEW high \in Int, Supports(P, low, high),
           NEW acc, FairTally(acc, P, amount, low, high), NEW p \in P
    PROVE  FairTally(Eat(acc, p), P, amount, low, high)
<1>0. CASE acc.remaining <= 0
  BY <1>0 DEF Eat
<1>1. CASE acc.remaining > 0
  <2> DEFINE used == Lesser(acc.remaining, p.amount)
  <2>1. acc.remaining \in Int /\ acc.notional \in Int
    BY DEF FairTally, FillTally
  <2>2. IsPrint(p) /\ p.amount > 0 /\ low <= p.price /\ p.price <= high
    BY DEF Supports
  <2>3. used \in Nat /\ used > 0 /\ used <= acc.remaining
    BY <2>1, <2>2, <1>1 DEF Lesser, IsPrint
  <2>4. Eat(acc, p) \in FillTally
    BY <2>2, EatKeepsTally DEF FairTally
  <2>5. /\ Eat(acc, p).remaining = acc.remaining - used
        /\ Eat(acc, p).notional = acc.notional + p.price * used
        /\ Eat(acc, p).at = p.at
    <3>1. Eat(acc, p) = [remaining |-> acc.remaining - used, notional |-> acc.notional + p.price * used,
             at |-> p.at, ids |-> Append(acc.ids, p.id)]
      <4>1. ~(acc.remaining <= 0)
        BY <1>1, <2>1
      <4> QED BY <4>1 DEF Eat
    <3> HIDE DEF used
    <3> QED BY <3>1
  <2> HIDE DEF used
  <2> DEFINE done == amount - acc.remaining
  <2>6. done \in Int /\ low * done <= acc.notional /\ acc.notional <= high * done
    BY <2>1 DEF FairTally
  <2>7. p.price \in Int
    BY <2>2 DEF IsPrint
  <2>8. amount - Eat(acc, p).remaining = done + used
    BY <2>1, <2>3, <2>5
  <2> HIDE DEF done
  <2>9. /\ low * (done + used) <= acc.notional + p.price * used
        /\ acc.notional + p.price * used <= high * (done + used)
    BY <2>1, <2>2, <2>3, <2>6, <2>7, WeighedBetween
  <2>10. 0 <= Eat(acc, p).remaining /\ Eat(acc, p).remaining <= amount
    BY <2>1, <2>3, <2>5 DEF FairTally
  <2>11. Eat(acc, p).at \in {x.at : x \in P}
    BY <2>5
  <2> QED BY <2>4, <2>5, <2>8, <2>9, <2>10, <2>11 DEF FairTally
<1> QED BY <1>0, <1>1 DEF FairTally, FillTally

(* However the prints are ordered, what is consumed of them is theirs. *)
LEMMA ConsumeIsFair ==
    ASSUME NEW P, NEW amount \in Nat, NEW low \in Int, NEW high \in Int, Supports(P, low, high), NEW q \in Seq(P)
    PROVE  FairTally(Consume(q, amount), P, amount, low, high)
<1> DEFINE G == {n \in Nat : \A r \in Seq(P) : Len(r) = n => FairTally(Consume(r, amount), P, amount, low, high)}
<1>0. \A p \in P : IsPrint(p)
  BY DEF Supports
<1>1. 0 \in G
  <2> SUFFICES ASSUME NEW r \in Seq(P), Len(r) = 0 PROVE FairTally(Consume(r, amount), P, amount, low, high)
    OBVIOUS
  <2>1. r = <<>>
    OBVIOUS
  <2>2. Consume(<<>>, amount) = Untouched(amount)
    BY <1>0, ConsumeGrows
  <2>3. Untouched(amount) \in FillTally
    BY DEF Untouched, FillTally
  <2>4. low * (amount - amount) = 0 /\ high * (amount - amount) = 0
    OBVIOUS
  <2>5. Untouched(amount).remaining = amount /\ Untouched(amount).notional = 0
    BY DEF Untouched
  <2>6. FairTally(Untouched(amount), P, amount, low, high)
    BY <2>3, <2>4, <2>5 DEF FairTally
  <2> QED BY <2>1, <2>2, <2>6
<1>2. ASSUME NEW n \in G PROVE n + 1 \in G
  <2>0. n \in Nat /\ n + 1 \in Nat
    OBVIOUS
  <2> SUFFICES ASSUME NEW r \in Seq(P), Len(r) = n + 1 PROVE FairTally(Consume(r, amount), P, amount, low, high)
    BY <2>0
  <2> DEFINE f == SubSeq(r, 1, n)
  <2>1. f \in Seq(P) /\ Len(f) = n /\ r[n + 1] \in P /\ r = Append(f, r[n + 1])
    BY <2>0
  <2>2. FairTally(Consume(f, amount), P, amount, low, high)
    BY <2>1
  <2> HIDE DEF f
  <2>3. Consume(r, amount) = Eat(Consume(f, amount), r[n + 1])
    <3>1. amount \in Int
      OBVIOUS
    <3>2. Consume(Append(f, r[n + 1]), amount) = Eat(Consume(f, amount), r[n + 1])
      BY <1>0, <2>1, <3>1, ConsumeGrows
    <3> QED BY <3>2, <2>1
  <2> QED BY <2>1, <2>2, <2>3, EatIsFair
<1>3. G = Nat
  <2>1. G \in SUBSET Nat
    OBVIOUS
  <2> HIDE DEF G
  <2> QED BY <1>1, <1>2, <2>1, NumbersFromZero
<1>4. Len(q) \in G
  BY <1>3
<1> QED BY <1>4

(* An order that is covered by a time owes nothing to the prints after it. *)
UpTo(S, t) == {p \in S : p.at <= t}

(* An order that is covered by a time owes nothing to the prints after it: what it
   consumes of the tape is what it consumes of the tape cut off then. *)
LEMMA CoveredByThen ==
    ASSUME NEW S, IsTape(S), NEW amount \in Int, NEW t \in Int,
           Consume(InTapeOrder(S), amount).remaining <= 0, Consume(InTapeOrder(S), amount).at <= t
    PROVE  Consume(InTapeOrder(UpTo(S, t)), amount) = Consume(InTapeOrder(S), amount)
<1> DEFINE C(s) == Consume(InTapeOrder(s), amount)
           G == {s \in SUBSET S : C(s).remaining <= 0 /\ C(s).at <= t => C(UpTo(s, t)) = C(s)}
<1>1. {} \in G
  BY DEF UpTo
<1>2. ASSUME NEW s \in SUBSET S, s # {}, \A x \in s : s \ {x} \in G PROVE s \in G
  <2> SUFFICES ASSUME C(s).remaining <= 0, C(s).at <= t PROVE C(UpTo(s, t)) = C(s)
    OBVIOUS
  <2> DEFINE p == LastPrint(s)
             b == s \ {p}
  <2>1. IsTape(s) /\ p \in s /\ \A y \in b : FillsBefore(y, p)
    BY <1>2, PartOfTape, LastPrintIsLast
  <2>2. b \in G
    BY <2>1, <1>2
  <2>3. \A x \in s : IsPrint(x)
    BY <2>1 DEF IsTape
  <2>4. InTapeOrder(b) \in Seq(s) /\ InTapeOrder(s) = Append(InTapeOrder(b), p)
    <3>1. IsTape(b) /\ b \subseteq s
      BY <2>1, PartOfTape
    <3>2. InTapeOrder(b) \in Seq(b)
      BY <3>1, TapeOrderGrows
    <3>3. InTapeOrder(s) = Append(InTapeOrder(b), p)
      BY <2>1, <1>2, TapeOrderGrows
    <3> HIDE DEF b, p
    <3> QED BY <3>1, <3>2, <3>3
  <2>5. C(s) = Eat(C(b), p) /\ C(b) \in FillTally
    <3> HIDE DEF b, p
    <3> QED BY <2>1, <2>3, <2>4, ConsumeGrows
  <2>6. CASE p.at <= t
    <3>1. \A y \in b : y.at <= p.at
      BY <2>1, <2>3 DEF FillsBefore, IsPrint
    <3>2. \A y \in s : y.at <= t
      <4>1. p.at \in Int /\ \A y \in s : y.at \in Int /\ (y = p \/ y.at <= p.at)
        BY <3>1, <2>1, <2>3 DEF IsPrint
      <4> HIDE DEF p, b
      <4> QED BY <4>1, <2>6
    <3>3. UpTo(s, t) = s
      BY <3>2 DEF UpTo
    <3> QED BY <3>3
  <2>7. CASE ~(p.at <= t)
    <3>1. UpTo(s, t) = UpTo(b, t)
      BY <2>7 DEF UpTo
    <3>2. CASE C(b).remaining <= 0
      <4>1. C(s) = C(b)
        BY <2>5, <3>2 DEF Eat
      <4> HIDE DEF C, b, p
      <4> QED BY <4>1, <3>1, <2>2
    <3>3. CASE ~(C(b).remaining <= 0)
      <4>1. C(s).at = p.at
        BY <2>5, <3>3 DEF Eat
      <4> HIDE DEF C, b, p
      <4> QED BY <4>1, <2>7
    <3> QED BY <3>2, <3>3
  <2> QED BY <2>6, <2>7
<1>3. G = SUBSET S
  <2>1. G \in SUBSET SUBSET S
    OBVIOUS
  <2> HIDE DEF G
  <2> QED BY <1>1, <1>2, <2>1, SubsetsFromEmpty DEF IsTape
<1>4. S \in G
  BY <1>3
<1> QED BY <1>4

(***************************************************************************)
(* Fills.                                                                  *)
(***************************************************************************)
\* What was recorded by t of a series of prints.
RecordedBy(early, late, t) ==
    IF late = None THEN early = None
    ELSE /\ early # None /\ early.name = late.name
         /\ IsTape(late.prints) /\ early.prints = UpTo(late.prints, t)
IsHistory(series) == series = None \/ IsTape(series.prints)

(* The prices of a tape have a lowest and a highest. *)
LEMMA PricesHaveRange ==
    ASSUME NEW S, IsTape(S), \A p \in S : p.amount > 0
    PROVE  \E low, high \in Int : Supports(S, low, high)
<1>1. CASE S = {}
  BY <1>1 DEF Supports
<1>2. CASE S # {}
  <2> DEFINE Up == {w \in S \X S : w[1].price <= w[2].price}
             Down == {w \in S \X S : w[2].price <= w[1].price}
  <2>1. IsFiniteSet(S) /\ \A p \in S : p.price \in Int
    BY DEF IsTape, IsPrint
  <2>2. /\ \A x, y \in S : <<x, y>> \in Up \/ <<y, x>> \in Up
        /\ \A x, y, z \in S : <<x, y>> \in Up /\ <<y, z>> \in Up => <<x, z>> \in Up
    BY <2>1
  <2>3. /\ \A x, y \in S : <<x, y>> \in Down \/ <<y, x>> \in Down
        /\ \A x, y, z \in S : <<x, y>> \in Down /\ <<y, z>> \in Down => <<x, z>> \in Down
    BY <2>1
  <2>4. \A x, y \in S : (<<x, y>> \in Up => x.price <= y.price) /\ (<<x, y>> \in Down => y.price <= x.price)
    OBVIOUS
  <2> HIDE DEF Up, Down
  <2>5. PICK l \in S : \A y \in S : <<l, y>> \in Up
    BY <2>1, <2>2, <1>2, LeastExists
  <2>6. PICK h \in S : \A y \in S : <<h, y>> \in Down
    BY <2>1, <2>3, <1>2, LeastExists
  <2>7. \A p \in S : IsPrint(p) /\ p.amount > 0 /\ l.price <= p.price /\ p.price <= h.price
    BY <2>4, <2>5, <2>6 DEF IsTape
  <2> QED BY <2>1, <2>5, <2>6, <2>7 DEF Supports
<1> QED BY <1>1, <1>2

(* The prints that can fill an order are a tape with amounts. *)
LEMMA CompatiblesAreTape ==
    ASSUME NEW series, IsTape(series.prints), NEW dir, NEW from, NEW to, NEW atOrder
    PROVE  /\ IsTape(Compatible(series, dir, from, to, atOrder))
           /\ \A p \in Compatible(series, dir, from, to, atOrder) : p.amount > 0
<1>1. Compatible(series, dir, from, to, atOrder) \in SUBSET series.prints
  BY DEF Compatible
<1> QED BY <1>1, PartOfTape DEF Compatible

(* tapeFill: a fill takes the whole amount, at the time of a compatible print of its
   window, and its VWAP lies between the lowest and the highest of their prices;
   what is not filled never took more than the amount. *)
THEOREM FillIsOfItsWindow ==
    ASSUME NEW series, IsHistory(series), NEW action, NEW dir, NEW clock, NEW amount \in Nat \ {0},
           NEW bps, NEW atOrder
    PROVE  LET fill == TapeFill(series, action, dir, clock, amount, bps, atOrder)
               rows == Compatible(series, dir, clock.ordered, clock.ends, atOrder)
           IN /\ fill.filled \in 0..amount
              /\ fill.status = "filled" =>
                    /\ fill.filled = amount
                    /\ fill.at \in {p.at : p \in rows}
                    /\ \A low, high \in Int :
                          (\A p \in rows : low <= p.price /\ p.price <= high) =>
                              low * amount <= fill.vwap /\ fill.vwap <= high * amount
<1> DEFINE fill == TapeFill(series, action, dir, clock, amount, bps, atOrder)
           rows == Compatible(series, dir, clock.ordered, clock.ends, atOrder)
           q == InTapeOrder(rows)
           used == Consume(q, amount)
<1>1. CASE series = None
  <2>1. fill = [status |-> "missing-contract", filled |-> 0]
    BY <1>1 DEF TapeFill
  <2> QED BY <2>1
<1>2. CASE series # None
  <2>1. IsTape(rows) /\ \A p \in rows : p.amount > 0
    BY <1>2, CompatiblesAreTape DEF IsHistory
  <2>2. q \in Seq(rows)
    <3> HIDE DEF rows
    <3> QED BY <2>1, TapeOrderGrows
  <2>3. PICK low, high \in Int : Supports(rows, low, high)
    <3> HIDE DEF rows
    <3> QED BY <2>1, PricesHaveRange
  <2>4. amount \in Nat /\ amount \in Int /\ amount > 0
    OBVIOUS
  <2>5. ASSUME NEW l \in Int, NEW h \in Int, Supports(rows, l, h) PROVE FairTally(used, rows, amount, l, h)
    <3> HIDE DEF rows, q
    <3> QED BY <2>2, <2>4, <2>5, ConsumeIsFair
  <2>6. FairTally(used, rows, amount, low, high)
    BY <2>3, <2>5
  <2>7. used.remaining \in Int /\ 0 <= used.remaining /\ used.remaining <= amount
    BY <2>6 DEF FairTally, FillTally
  <2>8. /\ used.remaining > 0 => fill.filled = amount - used.remaining /\ fill.status \in {"no-fill", "insufficient-amount"}
        /\ ~(used.remaining > 0) => fill.filled = amount /\ fill.at = used.at /\ fill.vwap = used.notional
    BY <1>2 DEF TapeFill
  <2> HIDE DEF rows, q, used, fill
  <2>9. fill.filled \in 0..amount
    BY <2>4, <2>7, <2>8
  <2>10. ASSUME fill.status = "filled"
         PROVE  /\ fill.filled = amount
                /\ fill.at \in {p.at : p \in rows}
                /\ \A l, h \in Int :
                      (\A p \in rows : l <= p.price /\ p.price <= h) =>
                          l * amount <= fill.vwap /\ fill.vwap <= h * amount
    <3>1. used.remaining = 0 /\ fill.filled = amount /\ fill.at = used.at /\ fill.vwap = used.notional
      BY <2>7, <2>8, <2>10
    <3>2. used.at \in {p.at : p \in rows}
      BY <3>1, <2>4, <2>6 DEF FairTally
    <3>3. ASSUME NEW l \in Int, NEW h \in Int, \A p \in rows : l <= p.price /\ p.price <= h
          PROVE l * amount <= fill.vwap /\ fill.vwap <= h * amount
      <4>1. Supports(rows, l, h)
        BY <2>3, <3>3 DEF Supports
      <4>2. FairTally(used, rows, amount, l, h)
        BY <4>1, <2>5
      <4>3. amount - used.remaining = amount
        BY <3>1, <2>4
      <4> QED BY <3>1, <4>2, <4>3 DEF FairTally
    <3> QED BY <3>1, <3>2, <3>3
  <2> QED BY <2>9, <2>10 DEF fill, rows
<1> QED BY <1>1, <1>2

(* tapeFill is causal: a fill that completes by t is, with its VWAP, its price and
   the prints that support it, the fill on what was recorded by t. *)
THEOREM FillOwesNothingToLaterPrints ==
    ASSUME NEW early, NEW late, NEW t \in Int, RecordedBy(early, late, t),
           NEW action, NEW dir, NEW clock, NEW amount \in Nat \ {0}, NEW bps, NEW atOrder,
           TapeFill(late, action, dir, clock, amount, bps, atOrder).status = "filled",
           TapeFill(late, action, dir, clock, amount, bps, atOrder).at <= t
    PROVE  TapeFill(early, action, dir, clock, amount, bps, atOrder)
               = TapeFill(late, action, dir, clock, amount, bps, atOrder)
<1> DEFINE fill == TapeFill(late, action, dir, clock, amount, bps, atOrder)
           rows(s) == Compatible(s, dir, clock.ordered, clock.ends, atOrder)
           used(s) == Consume(InTapeOrder(rows(s)), amount)
<1>1. late # None
  BY DEF TapeFill
<1>2. early # None /\ early.name = late.name /\ IsTape(late.prints) /\ early.prints = UpTo(late.prints, t)
  BY <1>1 DEF RecordedBy
<1>3. IsTape(rows(late)) /\ \A p \in rows(late) : p.amount > 0
  BY <1>2, CompatiblesAreTape
<1>4. rows(early) = UpTo(rows(late), t)
  BY <1>2 DEF Compatible, UpTo
<1>5. /\ ~(used(late).remaining > 0)
      /\ fill = [status |-> "filled", filled |-> amount, at |-> used(late).at, ids |-> used(late).ids,
                 vwap |-> used(late).notional, price |-> Slipped(action, used(late).notional, bps)]
  BY <1>1 DEF TapeFill
<1>6. used(late) \in FillTally
  <2>0. amount \in Int
    OBVIOUS
  <2>1. InTapeOrder(rows(late)) \in Seq(rows(late))
    <3> HIDE DEF rows
    <3> QED BY <1>3, TapeOrderGrows
  <2>2. \A p \in rows(late) : IsPrint(p)
    BY <1>3 DEF IsTape
  <2> HIDE DEF rows
  <2> QED BY <2>0, <2>1, <2>2, ConsumeGrows
<1>7. used(late).remaining <= 0 /\ used(late).at <= t
  BY <1>5, <1>6 DEF FillTally
<1>8. used(early) = used(late)
  <2>1. amount \in Int
    OBVIOUS
  <2> HIDE DEF rows
  <2>2. Consume(InTapeOrder(UpTo(rows(late), t)), amount) = Consume(InTapeOrder(rows(late)), amount)
    BY <1>3, <1>7, <2>1, CoveredByThen
  <2> QED BY <2>2, <1>4
<1>9. TapeFill(early, action, dir, clock, amount, bps, atOrder)
         = [status |-> "filled", filled |-> amount, at |-> used(early).at, ids |-> used(early).ids,
            vwap |-> used(early).notional, price |-> Slipped(action, used(early).notional, bps)]
  BY <1>2, <1>5, <1>8 DEF TapeFill
<1> QED BY <1>5, <1>8, <1>9

(***************************************************************************)
(* Spreads.                                                                *)
(***************************************************************************)
\* A spread whose legs' histories are tapes, and what was recorded of it by t.
HasHistory(spread) == IsHistory(spread.sold) /\ IsHistory(spread.bought)
SpreadBy(early, late, t) == RecordedBy(early.sold, late.sold, t) /\ RecordedBy(early.bought, late.bought, t)
\* What is true of an execution that completed.
FillsTogether(e, amount, sync, from, to) ==
    /\ e.sold.filled = amount /\ e.bought.filled = amount
    /\ e.sold.at \in Int /\ e.bought.at \in Int
    /\ from <= e.sold.at /\ e.sold.at <= to /\ from <= e.bought.at /\ e.bought.at <= to
    /\ Abs(e.sold.at - e.bought.at) <= sync
    /\ e.completed = Larger(e.sold.at, e.bought.at)

(* A pair that completed has two filled legs close enough together. *)
LEMMA CompletedPairIsFilled ==
    ASSUME NEW sold, NEW bought, NEW sync, NEW done, Paired(sold, bought, sync, done).completed # None
    PROVE  /\ sold.status = "filled" /\ bought.status = "filled"
           /\ Abs(sold.at - bought.at) <= sync
           /\ Paired(sold, bought, sync, done).completed = Larger(sold.at, bought.at)
           /\ Paired(sold, bought, sync, done).sold = sold
           /\ Paired(sold, bought, sync, done).bought = bought
BY DEF Paired

\* A fill of the whole amount, at a time of the order's window.
InWindow(fill, clock, amount) ==
    fill.filled = amount /\ fill.at \in Int /\ clock.ordered <= fill.at /\ fill.at <= clock.ends

(* A filled leg is filled whole and in its window, after the order's own
   millisecond unless prints at the order count. *)
LEMMA FilledInWindow ==
    ASSUME NEW series, IsHistory(series), NEW action, NEW dir, NEW clock, clock.ordered \in Int,
           NEW amount \in Nat \ {0}, NEW bps, NEW atOrder,
           TapeFill(series, action, dir, clock, amount, bps, atOrder).status = "filled"
    PROVE  /\ InWindow(TapeFill(series, action, dir, clock, amount, bps, atOrder), clock, amount)
           /\ ~atOrder => clock.ordered < TapeFill(series, action, dir, clock, amount, bps, atOrder).at
<1> DEFINE fill == TapeFill(series, action, dir, clock, amount, bps, atOrder)
           rows == Compatible(series, dir, clock.ordered, clock.ends, atOrder)
<1>1. fill.filled = amount /\ fill.at \in {p.at : p \in rows}
  BY FillIsOfItsWindow
<1>2. series # None
  BY DEF TapeFill
<1>3. \A p \in series.prints : p.at \in Int
  BY <1>2 DEF IsHistory, IsTape, IsPrint
<1>4. \A p \in rows : /\ p.at \in Int /\ p.at <= clock.ends /\ clock.ordered <= p.at
                      /\ ~atOrder => clock.ordered < p.at
  BY <1>3 DEF Compatible
<1> HIDE DEF fill, rows
<1>5. /\ fill.at \in Int /\ fill.at <= clock.ends /\ clock.ordered <= fill.at
      /\ ~atOrder => clock.ordered < fill.at
  BY <1>1, <1>4
<1> QED BY <1>1, <1>5 DEF fill, InWindow

(* So is each leg of a pair that completed. *)
LEMMA CompletedPairFillsTogether ==
    ASSUME NEW s, IsHistory(s), NEW b, IsHistory(b), NEW actS, NEW dirS, NEW actB, NEW dirB,
           NEW clock, clock.ordered \in Int, NEW amount \in Nat \ {0}, NEW bps, NEW atOrder, NEW sync, NEW done,
           NEW sold, sold = TapeFill(s, actS, dirS, clock, amount, bps, atOrder),
           NEW bought, bought = TapeFill(b, actB, dirB, clock, amount, bps, atOrder),
           Paired(sold, bought, sync, done).completed # None
    PROVE  /\ FillsTogether(Paired(sold, bought, sync, done), amount, sync, clock.ordered, clock.ends)
           /\ ~atOrder => clock.ordered < sold.at /\ clock.ordered < bought.at
<1> DEFINE e == Paired(sold, bought, sync, done)
<1>1. /\ sold.status = "filled" /\ bought.status = "filled" /\ Abs(sold.at - bought.at) <= sync
      /\ e.completed = Larger(sold.at, bought.at) /\ e.sold = sold /\ e.bought = bought
  BY CompletedPairIsFilled
<1>2. InWindow(sold, clock, amount) /\ (~atOrder => clock.ordered < sold.at)
  BY <1>1, FilledInWindow
<1>3. InWindow(bought, clock, amount) /\ (~atOrder => clock.ordered < bought.at)
  BY <1>1, FilledInWindow
<1> HIDE DEF e
<1>4. FillsTogether(e, amount, sync, clock.ordered, clock.ends)
  BY <1>1, <1>2, <1>3 DEF FillsTogether, InWindow
<1> QED BY <1>2, <1>3, <1>4 DEF e

(* The legs of a pair that completed by t are those of what was recorded by t. *)
LEMMA CompletedPairOwesNothing ==
    ASSUME NEW s, NEW s2, NEW b, NEW b2, NEW t \in Int, RecordedBy(s2, s, t), RecordedBy(b2, b, t),
           IsHistory(s), IsHistory(b), NEW actS, NEW dirS, NEW actB, NEW dirB,
           NEW clock, clock.ordered \in Int, NEW amount \in Nat \ {0}, NEW bps, NEW atOrder, NEW sync, NEW done,
           NEW sold, sold = TapeFill(s, actS, dirS, clock, amount, bps, atOrder),
           NEW bought, bought = TapeFill(b, actB, dirB, clock, amount, bps, atOrder),
           Paired(sold, bought, sync, done).completed # None,
           Paired(sold, bought, sync, done).completed <= t
    PROVE  /\ TapeFill(s2, actS, dirS, clock, amount, bps, atOrder) = sold
           /\ TapeFill(b2, actB, dirB, clock, amount, bps, atOrder) = bought
<1> DEFINE e == Paired(sold, bought, sync, done)
<1>1. /\ sold.status = "filled" /\ bought.status = "filled"
      /\ e.completed = Larger(sold.at, bought.at)
  BY CompletedPairIsFilled
<1>2. sold.at \in Int
  <2>1. InWindow(sold, clock, amount)
    BY <1>1, FilledInWindow
  <2> QED BY <2>1 DEF InWindow
<1>3. bought.at \in Int
  <2>1. InWindow(bought, clock, amount)
    BY <1>1, FilledInWindow
  <2> QED BY <2>1 DEF InWindow
<1>4. sold.at <= t /\ bought.at <= t
  <2> HIDE DEF e
  <2>1. e.completed <= t
    BY DEF e
  <2> QED BY <1>1, <1>2, <1>3, <2>1 DEF Larger
<1>5. TapeFill(s2, actS, dirS, clock, amount, bps, atOrder) = sold
  BY <1>1, <1>4, FillOwesNothingToLaterPrints
<1>6. TapeFill(b2, actB, dirB, clock, amount, bps, atOrder) = bought
  BY <1>1, <1>4, FillOwesNothingToLaterPrints
<1> QED BY <1>5, <1>6

\* The pair of fills of a spread's legs.
FilledPair(spread, actS, dirS, actB, dirB, clock, amount, bps, atOrder, sync, done) ==
    Paired(TapeFill(spread.sold, actS, dirS, clock, amount, bps, atOrder),
           TapeFill(spread.bought, actB, dirB, clock, amount, bps, atOrder), sync, done)

\* A pair of fills of the late history's legs that completed by t is the pair of the early one's.
PairsAlike(early, late, t) ==
    \A actS, dirS, actB, dirB, clock, amount, bps, atOrder, sync, done :
        LET P(spread) == FilledPair(spread, actS, dirS, actB, dirB, clock, amount, bps, atOrder, sync, done)
        IN  clock.ordered \in Int /\ amount \in Nat \ {0} /\ P(late).completed # None /\ P(late).completed <= t
            => P(early) = P(late)

(* The pair that completed by t is the pair of what was recorded of its legs by t. *)
LEMMA PairOwesNothing ==
    ASSUME NEW early, NEW late, NEW t \in Int, SpreadBy(early, late, t), HasHistory(late)
    PROVE  PairsAlike(early, late, t)
<1>1. /\ RecordedBy(early.sold, late.sold, t) /\ RecordedBy(early.bought, late.bought, t)
      /\ IsHistory(late.sold) /\ IsHistory(late.bought)
  BY DEF SpreadBy, HasHistory
<1>2. ASSUME NEW actS, NEW dirS, NEW actB, NEW dirB, NEW clock, clock.ordered \in Int,
             NEW amount \in Nat \ {0}, NEW bps, NEW atOrder, NEW sync, NEW done,
             FilledPair(late, actS, dirS, actB, dirB, clock, amount, bps, atOrder, sync, done).completed # None,
             FilledPair(late, actS, dirS, actB, dirB, clock, amount, bps, atOrder, sync, done).completed <= t
      PROVE  FilledPair(early, actS, dirS, actB, dirB, clock, amount, bps, atOrder, sync, done)
                 = FilledPair(late, actS, dirS, actB, dirB, clock, amount, bps, atOrder, sync, done)
  <2>1. \A x, y : /\ x = TapeFill(late.sold, actS, dirS, clock, amount, bps, atOrder)
                  /\ y = TapeFill(late.bought, actB, dirB, clock, amount, bps, atOrder)
                  /\ Paired(x, y, sync, done).completed # None
                  /\ Paired(x, y, sync, done).completed <= t
                  => /\ TapeFill(early.sold, actS, dirS, clock, amount, bps, atOrder) = x
                     /\ TapeFill(early.bought, actB, dirB, clock, amount, bps, atOrder) = y
    BY <1>1, <1>2, CompletedPairOwesNothing
  <2> QED BY <2>1, <1>2 DEF FilledPair
<1> QED BY <1>2 DEF PairsAlike

(* executeHistoricalSpread, for both intents and both modes: a spread that executes
   has both legs filled whole, within the window from the order on and no further
   apart than the synchronization bound, and completes with the later of them. *)
THEOREM HistoricalSpreadFillsTogether ==
    ASSUME NEW spread, HasHistory(spread), NEW intent, NEW mode, NEW order \in Int, NEW window \in Int,
           NEW amount \in Nat \ {0}, NEW sync, NEW bps,
           ExecuteHistoricalSpread(spread, intent, mode, order, window, amount, sync, bps).completed # None
    PROVE  FillsTogether(ExecuteHistoricalSpread(spread, intent, mode, order, window, amount, sync, bps),
                         amount, sync, order, order + window)
<1> DEFINE clock == [ordered |-> order, ends |-> order + window]
           act == IF intent = "open" THEN "sell" ELSE "buy"
           actB == Opposite(act)
           dirS == TapeDirectionFor(act, mode)
           dirB == TapeDirectionFor(actB, mode)
           done == IF mode = "maker" THEN "opportunity-only" ELSE "filled"
<1> SUFFICES ASSUME NEW atOrder, atOrder = TRUE
             PROVE FillsTogether(ExecuteHistoricalSpread(spread, intent, mode, order, window, amount, sync, bps),
                         amount, sync, order, order + window)
  OBVIOUS
<1> DEFINE sold == TapeFill(spread.sold, act, dirS, clock, amount, bps, atOrder)
           bought == TapeFill(spread.bought, actB, dirB, clock, amount, bps, atOrder)
           e == Paired(sold, bought, sync, done)
<1>1. ExecuteHistoricalSpread(spread, intent, mode, order, window, amount, sync, bps) = e
  BY Zenon DEF ExecuteHistoricalSpread
<1>2. clock.ordered = order /\ clock.ends = order + window
  OBVIOUS
<1>3. e.completed # None
  BY <1>1
<1> HIDE DEF clock, act, actB, dirS, dirB, done
<1>4. FillsTogether(e, amount, sync, clock.ordered, clock.ends)
  <2>1. clock.ordered \in Int /\ IsHistory(spread.sold) /\ IsHistory(spread.bought)
    BY <1>2 DEF HasHistory
  <2>2. \A x, y : /\ x = TapeFill(spread.sold, act, dirS, clock, amount, bps, atOrder)
                 /\ y = TapeFill(spread.bought, actB, dirB, clock, amount, bps, atOrder)
                 /\ Paired(x, y, sync, done).completed # None
                 => FillsTogether(Paired(x, y, sync, done), amount, sync, clock.ordered, clock.ends)
    BY <2>1, CompletedPairFillsTogether
  <2> QED BY <2>2, <1>3
<1> QED BY <1>1, <1>2, <1>4

(* executeHistoricalSpread is causal: an execution that completes by t, opening or
   closing, is the execution on what was recorded of its legs by t. *)
THEOREM HistoricalSpreadOwesNothingToLaterPrints ==
    ASSUME NEW early, NEW late, NEW t \in Int, SpreadBy(early, late, t), HasHistory(late),
           NEW intent, NEW mode, NEW order \in Int, NEW window \in Int,
           NEW amount \in Nat \ {0}, NEW sync, NEW bps,
           ExecuteHistoricalSpread(late, intent, mode, order, window, amount, sync, bps).completed # None,
           ExecuteHistoricalSpread(late, intent, mode, order, window, amount, sync, bps).completed <= t
    PROVE  ExecuteHistoricalSpread(early, intent, mode, order, window, amount, sync, bps)
               = ExecuteHistoricalSpread(late, intent, mode, order, window, amount, sync, bps)
<1> DEFINE clock == [ordered |-> order, ends |-> order + window]
           act == IF intent = "open" THEN "sell" ELSE "buy"
           actB == Opposite(act)
           dirS == TapeDirectionFor(act, mode)
           dirB == TapeDirectionFor(actB, mode)
           done == IF mode = "maker" THEN "opportunity-only" ELSE "filled"
           E(spread) == ExecuteHistoricalSpread(spread, intent, mode, order, window, amount, sync, bps)
<1> SUFFICES ASSUME NEW atOrder, atOrder = TRUE PROVE E(early) = E(late)
  OBVIOUS
<1> DEFINE P(spread) == FilledPair(spread, act, dirS, actB, dirB, clock, amount, bps, atOrder, sync, done)
<1>1. \A spread : E(spread) = P(spread)
  BY Zenon DEF ExecuteHistoricalSpread, FilledPair
<1>2. clock.ordered \in Int
  OBVIOUS
<1>3. E(late).completed # None /\ E(late).completed <= t
  OBVIOUS
<1> HIDE DEF clock, act, actB, dirS, dirB, done, E
<1>4. P(late).completed # None /\ P(late).completed <= t
  BY <1>1, <1>3
<1>5. PairsAlike(early, late, t)
  BY PairOwesNothing
<1>6. P(early) = P(late)
  BY <1>2, <1>4, <1>5 DEF PairsAlike
<1> QED BY <1>1, <1>6 DEF E

(* simulateTakerSpread, the conservative proxy: each leg fills whole and strictly
   after the order, by the end of the window, and the two close enough together. *)
THEOREM TakerSpreadFillsAfterItsOrder ==
    ASSUME NEW spread, HasHistory(spread), NEW clock, clock.ordered \in Int, NEW amount \in Nat \ {0}, NEW bps, NEW sync,
           SimulateTakerSpread(spread, clock, amount, bps, sync).completed # None
    PROVE  LET e == SimulateTakerSpread(spread, clock, amount, bps, sync)
           IN /\ FillsTogether(e, amount, sync, clock.ordered, clock.ends)
              /\ clock.ordered < e.sold.at /\ clock.ordered < e.bought.at
<1> SUFFICES ASSUME NEW atOrder, ~atOrder, atOrder = FALSE
             PROVE LET e == SimulateTakerSpread(spread, clock, amount, bps, sync)
                   IN /\ FillsTogether(e, amount, sync, clock.ordered, clock.ends)
                      /\ clock.ordered < e.sold.at /\ clock.ordered < e.bought.at
  OBVIOUS
<1> DEFINE sold == TapeFill(spread.sold, "sell", "sell", clock, amount, bps, atOrder)
           bought == TapeFill(spread.bought, "buy", "buy", clock, amount, bps, atOrder)
           e == Paired(sold, bought, sync, "filled")
<1>1. SimulateTakerSpread(spread, clock, amount, bps, sync) = e
  BY Zenon DEF SimulateTakerSpread
<1>2. e.completed # None
  BY <1>1
<1>3. IsHistory(spread.sold) /\ IsHistory(spread.bought)
  BY DEF HasHistory
<1>4. /\ FillsTogether(e, amount, sync, clock.ordered, clock.ends)
      /\ clock.ordered < sold.at /\ clock.ordered < bought.at
  <2>1. \A x, y : /\ x = TapeFill(spread.sold, "sell", "sell", clock, amount, bps, atOrder)
                  /\ y = TapeFill(spread.bought, "buy", "buy", clock, amount, bps, atOrder)
                  /\ Paired(x, y, sync, "filled").completed # None
                  => /\ FillsTogether(Paired(x, y, sync, "filled"), amount, sync, clock.ordered, clock.ends)
                     /\ clock.ordered < x.at /\ clock.ordered < y.at
    BY <1>3, CompletedPairFillsTogether
  <2> QED BY <2>1, <1>2
<1>5. e.sold = sold /\ e.bought = bought
  BY <1>2, CompletedPairIsFilled
<1> HIDE DEF e
<1> QED BY <1>1, <1>4, <1>5

(* simulateTakerSpread is causal: a spread that completes by t is the one that what
   was recorded of its legs by t gives. *)
THEOREM TakerSpreadOwesNothingToLaterPrints ==
    ASSUME NEW early, NEW late, NEW t \in Int, SpreadBy(early, late, t), HasHistory(late),
           NEW clock, clock.ordered \in Int, NEW amount \in Nat \ {0}, NEW bps, NEW sync,
           SimulateTakerSpread(late, clock, amount, bps, sync).completed # None,
           SimulateTakerSpread(late, clock, amount, bps, sync).completed <= t
    PROVE  SimulateTakerSpread(early, clock, amount, bps, sync) = SimulateTakerSpread(late, clock, amount, bps, sync)
<1> DEFINE E(spread) == SimulateTakerSpread(spread, clock, amount, bps, sync)
<1> SUFFICES ASSUME NEW atOrder, atOrder = FALSE PROVE E(early) = E(late)
  OBVIOUS
<1> DEFINE P(spread) == FilledPair(spread, "sell", "sell", "buy", "buy", clock, amount, bps, atOrder, sync, "filled")
<1>1. \A spread : E(spread) = P(spread)
  BY Zenon DEF SimulateTakerSpread, FilledPair
<1>2. E(late).completed # None /\ E(late).completed <= t
  OBVIOUS
<1> HIDE DEF E
<1>3. P(late).completed # None /\ P(late).completed <= t
  BY <1>1, <1>2
<1>4. PairsAlike(early, late, t)
  BY PairOwesNothing
<1>5. P(early) = P(late)
  BY <1>3, <1>4 DEF PairsAlike
<1> QED BY <1>1, <1>5 DEF E

(* simulateTakerExit: a taker exit fills strictly after the evidence that triggered
   it, for every clock that executionClock makes, whatever the latency and the wait. *)
THEOREM TakerExitFollowsItsTrigger ==
    ASSUME NEW spread, HasHistory(spread), NEW signal, NEW latency \in Int, NEW wait \in Int,
           NEW clock, clock = ExecutionClock(signal, latency, wait), clock.decided \in Int,
           NEW trigger \in Int, NEW amount \in Nat \ {0}, NEW bps, NEW sync,
           SimulateTakerExit(spread, clock, trigger, amount, bps, sync).completed # None
    PROVE  LET e == SimulateTakerExit(spread, clock, trigger, amount, bps, sync)
           IN /\ FillsTogether(e, amount, sync, clock.ordered, clock.ends)
              /\ trigger < e.sold.at /\ trigger < e.bought.at
<1> SUFFICES ASSUME NEW atOrder, ~atOrder, atOrder = FALSE
             PROVE LET e == SimulateTakerExit(spread, clock, trigger, amount, bps, sync)
                   IN /\ FillsTogether(e, amount, sync, clock.ordered, clock.ends)
                      /\ trigger < e.sold.at /\ trigger < e.bought.at
  OBVIOUS
<1> DEFINE sold == TapeFill(spread.sold, "buy", "buy", clock, amount, bps, atOrder)
           bought == TapeFill(spread.bought, "sell", "sell", clock, amount, bps, atOrder)
           e == Paired(sold, bought, sync, "filled")
<1>0. ~(trigger > clock.decided)
  BY DEF SimulateTakerExit
<1>1. SimulateTakerExit(spread, clock, trigger, amount, bps, sync) = e
  BY <1>0, Zenon DEF SimulateTakerExit
<1>2. e.completed # None
  BY <1>1
<1>3. IsHistory(spread.sold) /\ IsHistory(spread.bought)
  BY DEF HasHistory
<1>4. clock.ordered \in Int /\ clock.decided <= clock.ordered
  <2>1. clock.ordered = clock.decided + Larger(0, latency)
    BY DEF ExecutionClock
  <2>2. Larger(0, latency) \in Nat
    BY DEF Larger
  <2> QED BY <2>1, <2>2
<1>5. /\ FillsTogether(e, amount, sync, clock.ordered, clock.ends)
      /\ clock.ordered < sold.at /\ clock.ordered < bought.at
  <2>1. \A x, y : /\ x = TapeFill(spread.sold, "buy", "buy", clock, amount, bps, atOrder)
                  /\ y = TapeFill(spread.bought, "sell", "sell", clock, amount, bps, atOrder)
                  /\ Paired(x, y, sync, "filled").completed # None
                  => /\ FillsTogether(Paired(x, y, sync, "filled"), amount, sync, clock.ordered, clock.ends)
                     /\ clock.ordered < x.at /\ clock.ordered < y.at
    BY <1>3, <1>4, CompletedPairFillsTogether
  <2> QED BY <2>1, <1>2
<1>6. e.sold = sold /\ e.bought = bought
  BY <1>2, CompletedPairIsFilled
<1> HIDE DEF e
<1>7. e.sold.at \in Int /\ e.bought.at \in Int
  BY <1>5 DEF FillsTogether
<1> HIDE DEF sold, bought
<1>8. trigger < e.sold.at /\ trigger < e.bought.at
  BY <1>0, <1>4, <1>5, <1>6, <1>7
<1> QED BY <1>1, <1>5, <1>8

(***************************************************************************)
(* The runs that cover a delayed leg.                                      *)
(***************************************************************************)
\* The first n rows are those up to t.
CutsAt(q, t, n) == n \in 0..Len(q) /\ \A i \in 1..Len(q) : q[i].at <= t <=> i <= n
PastIsPrefix(S, t) ==
    \E n : CutsAt(InTapeOrder(S), t, n) /\ InTapeOrder(UpTo(S, t)) = SubSeq(InTapeOrder(S), 1, n)

(* The tape up to t, in order, is the beginning of the tape in order. *)
LEMMA OrderOfPast ==
    ASSUME NEW S, IsTape(S), NEW t \in Int
    PROVE  PastIsPrefix(S, t)
<1> DEFINE G == {s \in SUBSET S : PastIsPrefix(s, t)}
<1>1. {} \in G
  <2>1. InTapeOrder({}) = <<>> /\ UpTo({}, t) = {}
    BY TapeOrderGrows DEF UpTo
  <2>2. CutsAt(<<>>, t, 0) /\ SubSeq(<<>>, 1, 0) = <<>>
    BY DEF CutsAt
  <2>3. PastIsPrefix({}, t)
    BY <2>1, <2>2 DEF PastIsPrefix
  <2> QED BY <2>3
<1>2. ASSUME NEW s \in SUBSET S, s # {}, \A x \in s : s \ {x} \in G PROVE s \in G
  <2> DEFINE p == LastPrint(s)
             b == s \ {p}
             q == InTapeOrder(s)
             r == InTapeOrder(b)
  <2>1. IsTape(s) /\ p \in s /\ \A y \in b : FillsBefore(y, p)
    BY <1>2, PartOfTape, LastPrintIsLast
  <2>2. PastIsPrefix(b, t)
    <3>1. b \in G
      BY <2>1, <1>2
    <3> QED BY <3>1
  <2>3. \A x \in s : x.at \in Int /\ IsPrint(x)
    BY <2>1 DEF IsTape, IsPrint
  <2>4. q \in Seq(s) /\ r \in Seq(s) /\ q = Append(r, p)
    <3>1. IsTape(b) /\ b \subseteq s
      BY <2>1, PartOfTape
    <3>2. InTapeOrder(b) \in Seq(b)
      BY <3>1, TapeOrderGrows
    <3>3. InTapeOrder(s) = Append(InTapeOrder(b), p) /\ InTapeOrder(s) \in Seq(s)
      BY <2>1, <1>2, TapeOrderGrows
    <3> HIDE DEF b, p
    <3> QED BY <3>1, <3>2, <3>3
  <2>5. CASE p.at <= t
    <3>1. \A y \in b : y.at <= p.at
      BY <2>1, <2>3 DEF FillsBefore, IsPrint
    <3>2. \A y \in s : y.at <= t
      <4>1. p.at \in Int /\ \A y \in s : y.at \in Int /\ (y = p \/ y.at <= p.at)
        BY <3>1, <2>1, <2>3
      <4> HIDE DEF p, b
      <4> QED BY <4>1, <2>5
    <3>3. UpTo(s, t) = s
      BY <3>2 DEF UpTo
    <3> HIDE DEF q
    <3>4. CutsAt(q, t, Len(q)) /\ q = SubSeq(q, 1, Len(q))
      <4>1. q \in Seq(s)
        BY <2>4
      <4>2. q = SubSeq(q, 1, Len(q)) /\ Len(q) \in Nat
        BY <4>1
      <4>3. \A i \in 1..Len(q) : q[i] \in s /\ i <= Len(q)
        BY <4>1
      <4> QED BY <4>2, <4>3, <3>2 DEF CutsAt
    <3>5. PastIsPrefix(s, t)
      BY <3>3, <3>4 DEF PastIsPrefix, q
    <3> QED BY <3>5
  <2>6. CASE ~(p.at <= t)
    <3>1. UpTo(s, t) = UpTo(b, t)
      BY <2>6 DEF UpTo
    <3>2. PICK n : CutsAt(r, t, n) /\ InTapeOrder(UpTo(b, t)) = SubSeq(r, 1, n)
      BY <2>2 DEF PastIsPrefix
    <3> HIDE DEF q, r, p, b
    <3>3. n \in 0..Len(r) /\ Len(q) = Len(r) + 1 /\ Len(r) \in Nat
      BY <2>4, <3>2, <2>1 DEF CutsAt
    <3>4. (\A i \in 1..Len(r) : q[i] = r[i]) /\ q[Len(r) + 1] = p
      BY <2>4, <2>1
    <3>5. CutsAt(q, t, n)
      <4>1. \A i \in 1..Len(q) : i \in 1..Len(r) \/ i = Len(r) + 1
        BY <3>3
      <4> QED BY <4>1, <3>2, <3>3, <3>4, <2>6 DEF CutsAt
    <3>6. SubSeq(q, 1, n) = SubSeq(r, 1, n)
      BY <3>3, <3>4, <2>4
    <3>7. PastIsPrefix(s, t)
      BY <3>1, <3>2, <3>5, <3>6 DEF PastIsPrefix, q
    <3> QED BY <3>7
  <2> QED BY <2>5, <2>6
<1>3. G = SUBSET S
  <2>1. G \in SUBSET SUBSET S
    OBVIOUS
  <2> HIDE DEF G
  <2> QED BY <1>1, <1>2, <2>1, SubsetsFromEmpty DEF IsTape
<1>4. S \in G
  BY <1>3
<1> QED BY <1>4

(* What is covered by a beginning of the rows is covered by them the same way. *)
LEMMA CoveredByBeginning ==
    ASSUME NEW P, \A p \in P : IsPrint(p), NEW amount \in Int, NEW q \in Seq(P), NEW m \in 0..Len(q),
           Consume(SubSeq(q, 1, m), amount).remaining <= 0
    PROVE  Consume(q, amount) = Consume(SubSeq(q, 1, m), amount)
<1> DEFINE C(r) == Consume(r, amount)
           G == {n \in Nat : \A r \in Seq(P) : Len(r) = n =>
                    \A k \in 0..n : C(SubSeq(r, 1, k)).remaining <= 0 => C(r) = C(SubSeq(r, 1, k))}
<1>1. 0 \in G
  <2> SUFFICES ASSUME NEW r \in Seq(P), Len(r) = 0, NEW k \in 0..0 PROVE C(r) = C(SubSeq(r, 1, k))
    OBVIOUS
  <2>1. SubSeq(r, 1, k) = r
    OBVIOUS
  <2> QED BY <2>1
<1>2. ASSUME NEW n \in G PROVE n + 1 \in G
  <2>0. n \in Nat /\ n + 1 \in Nat
    OBVIOUS
  <2> SUFFICES ASSUME NEW r \in Seq(P), Len(r) = n + 1, NEW k \in 0..(n + 1), C(SubSeq(r, 1, k)).remaining <= 0
               PROVE C(r) = C(SubSeq(r, 1, k))
    BY <2>0
  <2> DEFINE f == SubSeq(r, 1, n)
  <2>1. f \in Seq(P) /\ Len(f) = n /\ r[n + 1] \in P /\ r = Append(f, r[n + 1])
    BY <2>0
  <2>2. CASE k = n + 1
    <3>1. SubSeq(r, 1, k) = r
      BY <2>2
    <3> QED BY <3>1
  <2>3. CASE k # n + 1
    <3>1. k \in 0..n /\ SubSeq(r, 1, k) = SubSeq(f, 1, k)
      BY <2>0, <2>3
    <3>2. C(f) = C(SubSeq(f, 1, k))
      <4> HIDE DEF f, C
      <4> QED BY <3>1, <2>1
    <3> HIDE DEF f
    <3>3. C(Append(f, r[n + 1])) = Eat(C(f), r[n + 1])
      BY <2>1, ConsumeGrows
    <3>4. C(f).remaining <= 0
      BY <3>1, <3>2
    <3>5. Eat(C(f), r[n + 1]) = C(f)
      BY <3>4 DEF Eat
    <3> QED BY <2>1, <3>1, <3>2, <3>3, <3>5
  <2> QED BY <2>2, <2>3
<1>3. G = Nat
  <2>1. G \in SUBSET Nat
    OBVIOUS
  <2> HIDE DEF G
  <2> QED BY <1>1, <1>2, <2>1, NumbersFromZero
<1>4. Len(q) \in G
  BY <1>3
<1> QED BY <1>4

(* Rows covered by t are covered by those of them that are up to t. *)
LEMMA CoveredByPast ==
    ASSUME NEW P, \A p \in P : IsPrint(p), NEW amount \in Int, NEW t \in Int, NEW q \in Seq(P), NEW m, CutsAt(q, t, m),
           Consume(q, amount).remaining <= 0, Consume(q, amount).at <= t
    PROVE  Consume(SubSeq(q, 1, m), amount) = Consume(q, amount)
<1> DEFINE C(r) == Consume(r, amount)
           G == {n \in Nat : \A r \in Seq(P) : Len(r) = n =>
                    \A k : CutsAt(r, t, k) /\ C(r).remaining <= 0 /\ C(r).at <= t => C(r) = C(SubSeq(r, 1, k))}
<1>1. 0 \in G
  <2> SUFFICES ASSUME NEW r \in Seq(P), Len(r) = 0, NEW k, CutsAt(r, t, k) PROVE C(r) = C(SubSeq(r, 1, k))
    OBVIOUS
  <2>1. SubSeq(r, 1, k) = r
    BY DEF CutsAt
  <2> QED BY <2>1
<1>2. ASSUME NEW n \in G PROVE n + 1 \in G
  <2>0. n \in Nat /\ n + 1 \in Nat
    OBVIOUS
  <2> SUFFICES ASSUME NEW r \in Seq(P), Len(r) = n + 1, NEW k, CutsAt(r, t, k), C(r).remaining <= 0, C(r).at <= t
               PROVE C(r) = C(SubSeq(r, 1, k))
    BY <2>0
  <2> DEFINE f == SubSeq(r, 1, n)
             p == r[n + 1]
  <2>1. f \in Seq(P) /\ Len(f) = n /\ p \in P /\ r = Append(f, p)
    BY <2>0
  <2>2. CASE k = n + 1
    <3>1. SubSeq(r, 1, k) = r
      BY <2>2
    <3> QED BY <3>1
  <2>3. CASE k # n + 1
    <3>1. k \in 0..n /\ SubSeq(r, 1, k) = SubSeq(f, 1, k)
      BY <2>0, <2>3 DEF CutsAt
    <3>2. CutsAt(f, t, k)
      BY <2>0, <2>1, <3>1 DEF CutsAt
    <3>3. ~(p.at <= t)
      BY <2>0, <3>1 DEF CutsAt
    <3> HIDE DEF f, p
    <3>4. C(r) = Eat(C(f), p)
      BY <2>1, ConsumeGrows
    <3> HIDE DEF C
    <3>5. CASE C(f).remaining <= 0
      <4>1. C(r) = C(f)
        BY <3>4, <3>5 DEF Eat
      <4> QED BY <4>1, <3>1, <3>2, <2>1
    <3>6. CASE ~(C(f).remaining <= 0)
      <4>1. C(r).at = p.at
        BY <3>4, <3>6 DEF Eat
      <4> QED BY <4>1, <3>3
    <3> QED BY <3>5, <3>6
  <2> QED BY <2>2, <2>3
<1>3. G = Nat
  <2>1. G \in SUBSET Nat
    OBVIOUS
  <2> HIDE DEF G
  <2> QED BY <1>1, <1>2, <2>1, NumbersFromZero
<1>4. Len(q) \in G
  BY <1>3
<1> QED BY <1>4

(* What covers an amount ends at the time of one of its prints. *)
LEMMA RunIsOfItsRows ==
    ASSUME NEW P, IsTape(P), \A p \in P : p.amount > 0, NEW amount \in Nat \ {0}, NEW q \in Seq(P),
           Consume(q, amount).remaining <= 0
    PROVE  Consume(q, amount).at \in {p.at : p \in P}
<1>1. PICK low, high \in Int : Supports(P, low, high)
  BY PricesHaveRange
<1>2. amount \in Nat
  OBVIOUS
<1>3. FairTally(Consume(q, amount), P, amount, low, high)
  BY <1>1, <1>2, ConsumeIsFair
<1>4. Consume(q, amount).remaining \in Int /\ 0 < amount
  BY <1>3 DEF FairTally, FillTally
<1>5. Consume(q, amount).remaining < amount
  BY <1>4
<1> QED BY <1>3, <1>5 DEF FairTally

\* From the k-th row on, the rows up to t are the first of the rows.
CutTail(P, q, t, n, k) ==
    /\ SubSeq(q, k, Len(q)) \in Seq(P)
    /\ CutsAt(SubSeq(q, k, Len(q)), t, n - k + 1)
    /\ SubSeq(SubSeq(q, 1, n), k, n) = SubSeq(SubSeq(q, k, Len(q)), 1, n - k + 1)
    /\ SubSeq(SubSeq(q, 1, n), k, n) \in Seq({p \in P : p.at <= t})

(* From a row up to t on, the rows up to t are the first of the rows. *)
LEMMA CutAfterFirst ==
    ASSUME NEW P, NEW q \in Seq(P), NEW t, NEW n, CutsAt(q, t, n), NEW k \in 1..n
    PROVE  CutTail(P, q, t, n, k)
<1>1. n \in 1..Len(q) /\ Len(q) \in Nat /\ k \in 1..Len(q) /\ n - k + 1 \in 0..(Len(q) - k + 1)
  BY DEF CutsAt
<1> DEFINE A == SubSeq(q, k, Len(q))
<1>2. A \in Seq(P) /\ Len(A) = Len(q) - k + 1 /\ \A i \in 1..(Len(q) - k + 1) : A[i] = q[i + k - 1]
  BY <1>1
<1>3. CutsAt(A, t, n - k + 1)
  <2> SUFFICES ASSUME NEW i \in 1..Len(A) PROVE A[i].at <= t <=> i <= n - k + 1
    BY <1>1, <1>2 DEF CutsAt
  <2>1. i + k - 1 \in 1..Len(q) /\ A[i] = q[i + k - 1]
    BY <1>1, <1>2
  <2>2. q[i + k - 1].at <= t <=> i + k - 1 <= n
    BY <2>1 DEF CutsAt
  <2> QED BY <2>1, <2>2, <1>1
<1>4. SubSeq(q, 1, n) \in Seq(P) /\ Len(SubSeq(q, 1, n)) = n /\ \A i \in 1..n : SubSeq(q, 1, n)[i] = q[i]
  BY <1>1
<1> DEFINE B == SubSeq(SubSeq(q, 1, n), k, n)
<1>5. B \in Seq(P) /\ Len(B) = n - k + 1 /\ \A i \in 1..(n - k + 1) : B[i] = q[i + k - 1]
  BY <1>1, <1>4
<1>6. B = SubSeq(A, 1, n - k + 1)
  <2> DEFINE D == SubSeq(A, 1, n - k + 1)
  <2>1. D \in Seq(P) /\ Len(D) = n - k + 1 /\ \A i \in 1..(n - k + 1) : D[i] = A[i]
    BY <1>1, <1>2
  <2>2. \A i \in 1..(n - k + 1) : A[i] = q[i + k - 1]
    BY <1>1, <1>2
  <2> HIDE DEF A, B, D
  <2>3. B = D
    BY <1>5, <2>1, <2>2
  <2> QED BY <2>3 DEF D
<1>7. B \in Seq({p \in P : p.at <= t})
  <2>1. \A i \in 1..(n - k + 1) : B[i] \in P /\ B[i].at <= t
    <3> SUFFICES ASSUME NEW i \in 1..(n - k + 1) PROVE B[i] \in P /\ B[i].at <= t
      OBVIOUS
    <3>1. i + k - 1 \in 1..Len(q) /\ i + k - 1 <= n
      BY <1>1
    <3>2. q[i + k - 1].at <= t
      BY <3>1 DEF CutsAt
    <3> QED BY <3>1, <3>2, <1>5
  <2> HIDE DEF B
  <2> QED BY <2>1, <1>5
<1> QED BY <1>2, <1>3, <1>6, <1>7, Zenon DEF CutTail

(* The runs that cover an amount in the rows up to t are the runs in all of the rows
   that end by t. *)
LEMMA RunsOfPast ==
    ASSUME NEW P, IsTape(P), \A p \in P : p.amount > 0, NEW amount \in Nat \ {0}, NEW t \in Int,
           NEW q \in Seq(P), NEW n, CutsAt(q, t, n)
    PROVE  CoveringRuns(SubSeq(q, 1, n), amount) = {r \in CoveringRuns(q, amount) : r.run.at <= t}
<1> DEFINE c == SubSeq(q, 1, n)
<1>0. n \in 0..Len(q) /\ Len(q) \in Nat /\ Len(c) = n /\ DOMAIN c = 1..n /\ DOMAIN q = 1..Len(q)
  BY DEF CutsAt
<1>1. \A p \in P : IsPrint(p)
  BY DEF IsTape
<1>9. ASSUME NEW k \in 1..n
      PROVE  /\ SubSeq(q, k, Len(q)) \in Seq(P)
             /\ CutsAt(SubSeq(q, k, Len(q)), t, n - k + 1)
             /\ SubSeq(c, k, n) = SubSeq(SubSeq(q, k, Len(q)), 1, n - k + 1)
             /\ SubSeq(c, k, n) \in Seq({p \in P : p.at <= t})
  <2>1. CutTail(P, q, t, n, k)
    BY CutAfterFirst
  <2> QED BY <2>1, Zenon DEF CutTail
<1>2. ASSUME NEW k \in 1..n, RunFrom(c, k, amount).remaining <= 0
      PROVE RunFrom(q, k, amount) = RunFrom(c, k, amount) /\ RunFrom(c, k, amount).at <= t
  <2> DEFINE A == SubSeq(q, k, Len(q))
             B == SubSeq(c, k, n)
             m == n - k + 1
             Past == {p \in P : p.at <= t}
  <2>1. A \in Seq(P) /\ m \in 0..Len(A) /\ B = SubSeq(A, 1, m) /\ B \in Seq(Past)
    BY <1>9 DEF CutsAt
  <2>2. RunFrom(c, k, amount) = Consume(B, amount) /\ RunFrom(q, k, amount) = Consume(A, amount)
    BY <1>0 DEF RunFrom
  <2>3. IsTape(Past) /\ \A p \in Past : p.amount > 0
    BY PartOfTape
  <2>4. amount \in Int
    OBVIOUS
  <2> HIDE DEF A, B, m, Past, c
  <2>5. Consume(A, amount) = Consume(B, amount)
    <3>1. Consume(SubSeq(A, 1, m), amount).remaining <= 0
      BY <2>1, <2>2, <1>2
    <3> QED BY <3>1, <2>1, <2>4, <1>1, CoveredByBeginning
  <2>6. Consume(B, amount).at \in {p.at : p \in Past}
    BY <2>1, <2>2, <2>3, <1>2, RunIsOfItsRows
  <2>7. Consume(B, amount).at <= t
    BY <2>6 DEF Past
  <2> QED BY <2>2, <2>5, <2>7
<1>3. ASSUME NEW k \in 1..Len(q), RunFrom(q, k, amount).remaining <= 0, RunFrom(q, k, amount).at <= t
      PROVE k \in 1..n /\ RunFrom(c, k, amount) = RunFrom(q, k, amount)
  <2> DEFINE A == SubSeq(q, k, Len(q))
             B == SubSeq(c, k, n)
             m == n - k + 1
             After == {p \in P : ~(p.at <= t)}
  <2>1. RunFrom(q, k, amount) = Consume(A, amount)
    BY DEF RunFrom
  <2>2. k \in 1..n
    <3> SUFFICES ASSUME k \notin 1..n PROVE FALSE
      OBVIOUS
    <3>1. \A i \in k..Len(q) : q[i] \in P /\ ~(q[i].at <= t)
      BY <1>0 DEF CutsAt
    <3>2. A \in Seq(P) /\ Len(A) = Len(q) - k + 1 /\ \A i \in 1..(Len(q) - k + 1) : A[i] = q[i + k - 1]
      BY <1>0
    <3>3. \A i \in 1..(Len(q) - k + 1) : A[i] \in After
      <4> SUFFICES ASSUME NEW i \in 1..(Len(q) - k + 1) PROVE A[i] \in After
        OBVIOUS
      <4>1. i + k - 1 \in k..Len(q)
        BY <1>0
      <4> HIDE DEF A
      <4> QED BY <4>1, <3>1, <3>2
    <3>4. IsTape(After) /\ \A p \in After : p.amount > 0
      BY PartOfTape
    <3> HIDE DEF A, After
    <3>5. A \in Seq(After)
      BY <3>2, <3>3
    <3>6. Consume(A, amount).at \in {p.at : p \in After}
      BY <3>4, <3>5, <2>1, <1>3, RunIsOfItsRows
    <3> QED BY <3>6, <2>1, <1>3 DEF After
  <2>3. A \in Seq(P) /\ CutsAt(A, t, m) /\ B = SubSeq(A, 1, m)
    <3>1. k \in 1..n
      BY <2>2
    <3> QED BY <3>1, <1>9, Zenon
  <2>4. RunFrom(c, k, amount) = Consume(B, amount)
    BY <1>0 DEF RunFrom
  <2>5. amount \in Int
    OBVIOUS
  <2> HIDE DEF A, B, m, c
  <2>6. Consume(A, amount).remaining <= 0 /\ Consume(A, amount).at <= t
    BY <2>1, <1>3
  <2>7. Consume(SubSeq(A, 1, m), amount) = Consume(A, amount)
    BY <2>3, <2>5, <2>6, <1>1, CoveredByPast
  <2> QED BY <2>1, <2>2, <2>3, <2>4, <2>7
<1> HIDE DEF c
<1> DEFINE X == CoveringRuns(c, amount)
           Y == CoveringRuns(q, amount)
<1>4. \A r : r \in X <=> \E k \in 1..n : /\ RunFrom(c, k, amount).remaining <= 0
                                        /\ r = [from |-> k, run |-> RunFrom(c, k, amount)]
  BY <1>0 DEF CoveringRuns
<1>5. \A r : r \in Y <=> \E k \in 1..Len(q) : /\ RunFrom(q, k, amount).remaining <= 0
                                             /\ r = [from |-> k, run |-> RunFrom(q, k, amount)]
  BY <1>0 DEF CoveringRuns
<1> HIDE DEF X, Y
<1>6. ASSUME NEW r \in X PROVE r \in Y /\ r.run.at <= t
  <2>1. PICK k \in 1..n : RunFrom(c, k, amount).remaining <= 0 /\ r = [from |-> k, run |-> RunFrom(c, k, amount)]
    BY <1>4
  <2>2. k \in 1..Len(q) /\ RunFrom(q, k, amount) = RunFrom(c, k, amount) /\ RunFrom(c, k, amount).at <= t
    BY <2>1, <1>0, <1>2
  <2>3. r \in Y
    BY <2>1, <2>2, <1>5
  <2> QED BY <2>1, <2>2, <2>3
<1>7. ASSUME NEW r \in Y, r.run.at <= t PROVE r \in X
  <2>1. PICK k \in 1..Len(q) : RunFrom(q, k, amount).remaining <= 0 /\ r = [from |-> k, run |-> RunFrom(q, k, amount)]
    BY <1>5
  <2>2. RunFrom(q, k, amount).at <= t
    BY <2>1, <1>7
  <2>3. k \in 1..n /\ RunFrom(c, k, amount) = RunFrom(q, k, amount)
    BY <2>1, <2>2, <1>3
  <2> QED BY <2>1, <2>3, <1>4
<1>8. X = {r \in Y : r.run.at <= t}
  BY <1>6, <1>7
<1> QED BY <1>8 DEF X, Y, c

(***************************************************************************)
(* The earliest pair of runs.                                              *)
(***************************************************************************)
\* The covering runs of a leg, whose prints are at some of the times ats.
IsRuns(R, ats) ==
    /\ IsFiniteSet(R)
    /\ \A r \in R : r.from \in Int /\ r.run.at \in ats
    /\ \A r, s \in R : r.from = s.from => r = s

(* The runs that cover an amount are finitely many, one for each row they start from. *)
LEMMA RunsAreRuns ==
    ASSUME NEW P, IsTape(P), \A p \in P : p.amount > 0, NEW amount \in Nat \ {0}, NEW q \in Seq(P)
    PROVE  IsRuns(CoveringRuns(q, amount), {p.at : p \in P})
<1> DEFINE R == CoveringRuns(q, amount)
           f == [r \in R |-> r.from]
           Rest(k) == SubSeq(q, k, Len(q))
<1>0. Len(q) \in Nat /\ DOMAIN q = 1..Len(q)
  OBVIOUS
<1>1. \A r \in R : /\ r.from \in 1..Len(q) /\ r.run = Consume(Rest(r.from), amount)
                   /\ r.run.remaining <= 0
                   /\ r = [from |-> r.from, run |-> Consume(Rest(r.from), amount)]
  <2> SUFFICES ASSUME NEW r \in R
               PROVE /\ r.from \in 1..Len(q) /\ r.run = Consume(Rest(r.from), amount)
                     /\ r.run.remaining <= 0
                     /\ r = [from |-> r.from, run |-> Consume(Rest(r.from), amount)]
    OBVIOUS
  <2>1. PICK k \in 1..Len(q) : RunFrom(q, k, amount).remaining <= 0 /\ r = [from |-> k, run |-> RunFrom(q, k, amount)]
    BY <1>0 DEF CoveringRuns
  <2>2. RunFrom(q, k, amount) = Consume(Rest(k), amount)
    BY DEF RunFrom
  <2> HIDE DEF Rest
  <2> QED BY <2>1, <2>2
<1>2. \A k \in 1..Len(q) : Rest(k) \in Seq(P)
  BY <1>0
<1> HIDE DEF Rest
<1>3. \A r \in R : r.from \in Int /\ r.run.at \in {p.at : p \in P}
  <2> SUFFICES ASSUME NEW r \in R PROVE r.from \in Int /\ r.run.at \in {p.at : p \in P}
    OBVIOUS
  <2>1. r.from \in 1..Len(q) /\ r.run = Consume(Rest(r.from), amount) /\ r.run.remaining <= 0
    BY <1>1
  <2>2. Rest(r.from) \in Seq(P)
    BY <2>1, <1>2
  <2> HIDE DEF R
  <2>3. r.run.at \in {p.at : p \in P}
    BY <2>1, <2>2, RunIsOfItsRows
  <2> QED BY <2>1, <2>3
<1>4. \A r, s \in R : r.from = s.from => r = s
  <2> HIDE DEF R
  <2> QED BY <1>1, Zenon
<1>5. IsFiniteSet(R)
  <2>1. f \in Injection(R, 1..Len(q))
    <3> HIDE DEF R
    <3> QED BY <1>1, <1>4 DEF Injection, IsInjective
  <2>2. IsFiniteSet(1..Len(q))
    BY <1>0, LastIndex
  <2> HIDE DEF f, R
  <2> QED BY <2>1, <2>2, FS_Injection
<1> QED BY <1>3, <1>4, <1>5 DEF IsRuns

\* Pairs of covering runs.
ArePairs(pairs) ==
    \E R, S : /\ IsRuns(R, Int) /\ IsRuns(S, Int)
              /\ pairs \in SUBSET (R \X S)

(* Of pairs of runs there is one earliest. *)
LEMMA EarliestPairIs ==
    ASSUME NEW pairs, ArePairs(pairs), pairs # {}
    PROVE  /\ EarliestPair(pairs) \in pairs
           /\ \A y \in pairs : NotAfter(EarliestPair(pairs), y)
           /\ \A x \in pairs : (\A y \in pairs : NotAfter(x, y)) => x = EarliestPair(pairs)
<1>1. PICK R, S : IsRuns(R, Int) /\ IsRuns(S, Int) /\ pairs \in SUBSET (R \X S)
  BY DEF ArePairs
<1>2. IsFiniteSet(pairs)
  <2>1. IsFiniteSet(R \X S)
    BY <1>1, FS_Product DEF IsRuns
  <2> QED BY <2>1, <1>1, FS_Subset
<1>3. \A x \in pairs : /\ x = <<x[1], x[2]>> /\ x[1] \in R /\ x[2] \in S
                       /\ x[1].from \in Int /\ x[2].from \in Int
                       /\ x[1].run.at \in Int /\ x[2].run.at \in Int
  BY <1>1 DEF IsRuns
<1>4. \A x \in pairs : Done(x) \in Int
  BY <1>3 DEF Done, Larger
<1> DEFINE O == {w \in pairs \X pairs : NotAfter(w[1], w[2])}
<1>5. \A x, y \in pairs : <<x, y>> \in O \/ <<y, x>> \in O
  BY <1>3, <1>4 DEF NotAfter
<1>6. \A x, y, z \in pairs : <<x, y>> \in O /\ <<y, z>> \in O => <<x, z>> \in O
  BY <1>3, <1>4 DEF NotAfter
<1>7. \A x, y \in pairs : <<x, y>> \in O => NotAfter(x, y)
  OBVIOUS
<1>8. \A x, y \in pairs : NotAfter(x, y) /\ NotAfter(y, x) => x = y
  <2> SUFFICES ASSUME NEW x \in pairs, NEW y \in pairs, NotAfter(x, y), NotAfter(y, x) PROVE x = y
    OBVIOUS
  <2>1. x[1].from = y[1].from /\ x[2].from = y[2].from
    BY <1>3, <1>4 DEF NotAfter
  <2>2. x[1] = y[1] /\ x[2] = y[2]
    BY <2>1, <1>1, <1>3 DEF IsRuns
  <2> QED BY <2>2, <1>3
<1> HIDE DEF O
<1>9. PICK x \in pairs : \A y \in pairs : <<x, y>> \in O
  BY <1>2, <1>5, <1>6, LeastExists
<1>10. \A y \in pairs : NotAfter(x, y)
  BY <1>7, <1>9
<1>11. EarliestPair(pairs) \in pairs /\ \A y \in pairs : NotAfter(EarliestPair(pairs), y)
  BY <1>10 DEF EarliestPair
<1> QED BY <1>8, <1>11

(* The earliest pair, once it has completed, is the earliest of those that have. *)
LEMMA EarliestOfPast ==
    ASSUME NEW pairs, ArePairs(pairs), pairs # {}, NEW t \in Int, Done(EarliestPair(pairs)) <= t,
           NEW past, past = {x \in pairs : Done(x) <= t}
    PROVE  past # {} /\ EarliestPair(past) = EarliestPair(pairs)
<1> DEFINE e == EarliestPair(pairs)
<1>1. e \in pairs /\ \A y \in pairs : NotAfter(e, y)
  BY EarliestPairIs
<1> HIDE DEF e
<1>2. e \in past /\ \A y \in past : NotAfter(e, y)
  BY <1>1 DEF e
<1>3. ArePairs(past)
  BY DEF ArePairs
<1>4. e = EarliestPair(past)
  BY <1>2, <1>3, EarliestPairIs
<1> QED BY <1>2, <1>4 DEF e

(* Before the earliest pair completes, none has. *)
LEMMA NoneOfPast ==
    ASSUME NEW pairs, ArePairs(pairs), NEW t \in Int, pairs = {} \/ ~(Done(EarliestPair(pairs)) <= t)
    PROVE  {x \in pairs : Done(x) <= t} = {}
<1> SUFFICES ASSUME NEW x \in pairs, Done(x) <= t PROVE FALSE
  OBVIOUS
<1> DEFINE e == EarliestPair(pairs)
<1>1. e \in pairs /\ NotAfter(e, x)
  BY EarliestPairIs
<1>2. \A y \in pairs : Done(y) \in Int
  <2>1. PICK R, S : IsRuns(R, Int) /\ IsRuns(S, Int) /\ pairs \in SUBSET (R \X S)
    BY DEF ArePairs
  <2>2. \A y \in pairs : y[1].run.at \in Int /\ y[2].run.at \in Int
    BY <2>1 DEF IsRuns
  <2> QED BY <2>2 DEF Done, Larger
<1> HIDE DEF e
<1>3. Done(e) <= Done(x) /\ Done(e) \in Int /\ Done(x) \in Int
  BY <1>1, <1>2 DEF NotAfter
<1>4. ~(Done(e) <= t)
  BY DEF e
<1> QED BY <1>3, <1>4

(***************************************************************************)
(* One delayed window.                                                     *)
(***************************************************************************)
\* The parts of an attempt.
AttemptFrom(event, window) == event.at + window.from
AttemptTo(event, window, expiry) == Lesser(event.at + window.to, expiry)
RowsOf(series, action, mode, from, to) ==
    Compatible(series, TapeDirectionFor(action, mode), from, to, FALSE)
AttemptRuns(series, action, mode, amount, event, window, expiry) ==
    LegCandidates(series, action, mode, amount, AttemptFrom(event, window), AttemptTo(event, window, expiry)).runs
AttemptPairs(spread, event, mode, amount, window, policy, expiry) ==
    SynchronizedPairs(AttemptRuns(spread.sold, "sell", mode, amount, event, window, expiry),
                      AttemptRuns(spread.bought, "buy", mode, amount, event, window, expiry), policy.sync)
Attemptable(spread, event, amount, window, policy, expiry) ==
    /\ spread.sold # None /\ spread.bought # None
    /\ ~(amount % policy.step # 0)
    /\ ~(AttemptFrom(event, window) >= expiry)

\* An attempt judges its earliest pair, or is refused.
IsRefused(attempt) ==
    \E reason : attempt = [status |-> "unavailable", reason |-> reason, entry |-> None, resolution |-> None]
AttemptIsOf(attempt, open, pairs, event, mode, policy, expiry) ==
    IF open /\ pairs # {} THEN attempt = Judged(EarliestPair(pairs), event, mode, policy, expiry)
    ELSE IsRefused(attempt)

(* What analyzeDelayedExecution makes of a window, by cases. *)
LEMMA AttemptIs ==
    ASSUME NEW spread, NEW event, NEW mode, NEW amount, NEW window, NEW policy, NEW expiry
    PROVE  AttemptIsOf(DelayedAttempt(spread, event, mode, amount, window, policy, expiry),
                       Attemptable(spread, event, amount, window, policy, expiry),
                       AttemptPairs(spread, event, mode, amount, window, policy, expiry), event, mode, policy, expiry)
<1> DEFINE U(reason) == [status |-> "unavailable", reason |-> reason, entry |-> None, resolution |-> None]
           from == event.at + window.from
           to == Lesser(event.at + window.to, expiry)
           s == LegCandidates(spread.sold, "sell", mode, amount, from, to)
           l == LegCandidates(spread.bought, "buy", mode, amount, from, to)
           pairs == SynchronizedPairs(s.runs, l.runs, policy.sync)
           attempt == DelayedAttempt(spread, event, mode, amount, window, policy, expiry)
           why == IF expiry <= event.at + window.to THEN "expired-before-entry"
                   ELSE IF s.rows = <<>> THEN "no-compatible-short-evidence"
                   ELSE IF l.rows = <<>> THEN "no-compatible-long-evidence"
                   ELSE IF s.runs = {} THEN "insufficient-short-amount"
                   ELSE IF l.runs = {} THEN "insufficient-long-amount"
                   ELSE "synchronization-failure"
           judged == Judged(EarliestPair(pairs), event, mode, policy, expiry)
<1>1. attempt = IF spread.sold = None \/ spread.bought = None THEN U("missing-exact-contract")
                ELSE IF amount % policy.step # 0 THEN U("invalid-size-metadata")
                ELSE IF from >= expiry THEN U("expired-before-entry")
                ELSE IF pairs = {} THEN U(why)
                ELSE judged
  BY Zenon DEF DelayedAttempt
<1>2. AttemptPairs(spread, event, mode, amount, window, policy, expiry) = pairs
  BY DEF AttemptPairs, AttemptRuns, AttemptFrom, AttemptTo
<1>3. Attemptable(spread, event, amount, window, policy, expiry)
      <=> /\ ~(spread.sold = None \/ spread.bought = None) /\ ~(amount % policy.step # 0) /\ ~(from >= expiry)
  BY DEF Attemptable, AttemptFrom
<1> HIDE DEF attempt, pairs, judged, why, s, l, to, from, U
<1>4. IF Attemptable(spread, event, amount, window, policy, expiry) /\ pairs # {}
      THEN attempt = judged ELSE \E reason : attempt = U(reason)
  BY <1>1, <1>3, Zenon
<1> QED BY <1>2, <1>4, Zenon DEF attempt, judged, U, AttemptIsOf, IsRefused

(* The runs of a leg, of the recorded past and of the whole series. *)
LEMMA LegRuns ==
    ASSUME NEW series, IsTape(series.prints), NEW action, NEW mode, NEW amount \in Nat \ {0}, NEW from, NEW to
    PROVE  IsRuns(LegCandidates(series, action, mode, amount, from, to).runs,
                  {p.at : p \in RowsOf(series, action, mode, from, to)})
<1> DEFINE P == RowsOf(series, action, mode, from, to)
           q == InTapeOrder(P)
<1>1. IsTape(P) /\ \A p \in P : p.amount > 0
  <2> DEFINE dir == TapeDirectionFor(action, mode)
  <2>1. P = Compatible(series, dir, from, to, FALSE)
    BY DEF RowsOf
  <2>2. \A b : IsTape(Compatible(series, dir, from, to, b)) /\ \A p \in Compatible(series, dir, from, to, b) : p.amount > 0
    <3> HIDE DEF dir
    <3> QED BY CompatiblesAreTape
  <2> QED BY <2>1, <2>2, Zenon
<1>2. LegCandidates(series, action, mode, amount, from, to).runs = CoveringRuns(q, amount)
  BY DEF LegCandidates, RowsOf
<1> HIDE DEF P
<1>3. q \in Seq(P)
  BY <1>1, TapeOrderGrows
<1> HIDE DEF q
<1>4. IsRuns(CoveringRuns(q, amount), {p.at : p \in P})
  BY <1>1, <1>3, RunsAreRuns
<1> QED BY <1>2, <1>4 DEF P

\* The runs that are covered by t.
RunsBy(R, t) == {r \in R : r.run.at <= t}

(* The runs of a leg on what was recorded by t are its runs that end by t. *)
LEMMA LegRunsOfPast ==
    ASSUME NEW early, NEW late, late # None, NEW t \in Int, RecordedBy(early, late, t),
           NEW action, NEW mode, NEW amount \in Nat \ {0}, NEW from, NEW to
    PROVE  LegCandidates(early, action, mode, amount, from, to).runs
               = RunsBy(LegCandidates(late, action, mode, amount, from, to).runs, t)
<1> DEFINE P == RowsOf(late, action, mode, from, to)
           E == RowsOf(early, action, mode, from, to)
           q == InTapeOrder(P)
<1>0. early # None /\ early.name = late.name /\ IsTape(late.prints) /\ early.prints = UpTo(late.prints, t)
  BY DEF RecordedBy
<1>1. IsTape(P) /\ \A p \in P : p.amount > 0
  <2> DEFINE dir == TapeDirectionFor(action, mode)
  <2>1. P = Compatible(late, dir, from, to, FALSE)
    BY DEF RowsOf
  <2>2. \A b : IsTape(Compatible(late, dir, from, to, b)) /\ \A p \in Compatible(late, dir, from, to, b) : p.amount > 0
    <3> HIDE DEF dir
    <3> QED BY <1>0, CompatiblesAreTape
  <2> QED BY <2>1, <2>2, Zenon
<1>2. /\ LegCandidates(late, action, mode, amount, from, to).runs = CoveringRuns(q, amount)
      /\ LegCandidates(early, action, mode, amount, from, to).runs = CoveringRuns(InTapeOrder(E), amount)
  BY DEF LegCandidates, RowsOf
<1>3. E = UpTo(P, t)
  BY <1>0 DEF RowsOf, Compatible, UpTo
<1> HIDE DEF P, E
<1>4. PICK n : CutsAt(q, t, n) /\ InTapeOrder(UpTo(P, t)) = SubSeq(q, 1, n)
  BY <1>1, OrderOfPast DEF PastIsPrefix
<1>5. q \in Seq(P)
  BY <1>1, TapeOrderGrows
<1> HIDE DEF q
<1>6. CoveringRuns(SubSeq(q, 1, n), amount) = {r \in CoveringRuns(q, amount) : r.run.at <= t}
  BY <1>1, <1>4, <1>5, RunsOfPast
<1>7. CoveringRuns(InTapeOrder(E), amount) = RunsBy(CoveringRuns(q, amount), t)
  BY <1>3, <1>4, <1>6, Zenon DEF RunsBy
<1> QED BY <1>2, <1>7, Zenon

(* The runs of a leg in a window end in the window. *)
LEMMA AttemptRunsAre ==
    ASSUME NEW series, series # None, IsHistory(series), NEW action, NEW mode, NEW amount \in Nat \ {0},
           NEW event, NEW window, AttemptFrom(event, window) \in Int, NEW expiry, AttemptTo(event, window, expiry) \in Int
    PROVE  /\ IsRuns(AttemptRuns(series, action, mode, amount, event, window, expiry), Int)
           /\ \A r \in AttemptRuns(series, action, mode, amount, event, window, expiry) :
                 AttemptFrom(event, window) < r.run.at /\ r.run.at <= AttemptTo(event, window, expiry)
<1> DEFINE from == AttemptFrom(event, window)
           to == AttemptTo(event, window, expiry)
           R == AttemptRuns(series, action, mode, amount, event, window, expiry)
           ats == {p.at : p \in RowsOf(series, action, mode, from, to)}
<1>1. IsTape(series.prints)
  BY DEF IsHistory
<1>2. R = LegCandidates(series, action, mode, amount, from, to).runs
  BY DEF AttemptRuns
<1>3. from \in Int /\ to \in Int
  OBVIOUS
<1> HIDE DEF from, to
<1>4. IsRuns(R, ats)
  <2>1. IsRuns(LegCandidates(series, action, mode, amount, from, to).runs,
               {p.at : p \in RowsOf(series, action, mode, from, to)})
    BY <1>1, LegRuns
  <2> QED BY <2>1, <1>2, Zenon
<1>5. \A a \in ats : a \in Int /\ from < a /\ a <= to
  BY <1>1, <1>3 DEF RowsOf, Compatible, IsTape, IsPrint
<1> HIDE DEF R, ats
<1>6. IsRuns(R, Int) /\ \A r \in R : from < r.run.at /\ r.run.at <= to
  BY <1>4, <1>5 DEF IsRuns
<1> QED BY <1>6 DEF R, from, to

(* So do the pairs of a window, each close enough together. *)
LEMMA AttemptPairsAre ==
    ASSUME NEW spread, spread.sold # None, spread.bought # None, HasHistory(spread),
           NEW event, NEW mode, NEW amount \in Nat \ {0},
           NEW window, AttemptFrom(event, window) \in Int,
           NEW policy, NEW expiry, AttemptTo(event, window, expiry) \in Int
    PROVE  /\ ArePairs(AttemptPairs(spread, event, mode, amount, window, policy, expiry))
           /\ \A x \in AttemptPairs(spread, event, mode, amount, window, policy, expiry) :
                 /\ x[1].run.at \in Int /\ x[2].run.at \in Int
                 /\ AttemptFrom(event, window) < Done(x) /\ Done(x) <= AttemptTo(event, window, expiry)
                 /\ Abs(x[1].run.at - x[2].run.at) <= policy.sync
<1> DEFINE from == AttemptFrom(event, window)
           to == AttemptTo(event, window, expiry)
           R == AttemptRuns(spread.sold, "sell", mode, amount, event, window, expiry)
           S == AttemptRuns(spread.bought, "buy", mode, amount, event, window, expiry)
           pairs == AttemptPairs(spread, event, mode, amount, window, policy, expiry)
<1>1. pairs = {x \in R \X S : Abs(x[1].run.at - x[2].run.at) <= policy.sync}
  BY DEF AttemptPairs, SynchronizedPairs
<1>2. IsHistory(spread.sold) /\ IsHistory(spread.bought) /\ from \in Int /\ to \in Int
  BY DEF HasHistory
<1>3. IsRuns(R, Int) /\ \A r \in R : from < r.run.at /\ r.run.at <= to
  BY <1>2, AttemptRunsAre
<1>4. IsRuns(S, Int) /\ \A r \in S : from < r.run.at /\ r.run.at <= to
  BY <1>2, AttemptRunsAre
<1> HIDE DEF R, S, pairs, from, to
<1>5. ArePairs(pairs)
  BY <1>1, <1>3, <1>4 DEF ArePairs
<1>6. ASSUME NEW x \in pairs
      PROVE /\ x[1].run.at \in Int /\ x[2].run.at \in Int
            /\ from < Done(x) /\ Done(x) <= to
            /\ Abs(x[1].run.at - x[2].run.at) <= policy.sync
  <2>1. x[1] \in R /\ x[2] \in S /\ Abs(x[1].run.at - x[2].run.at) <= policy.sync
    BY <1>1
  <2>2. x[1].run.at \in Int /\ x[2].run.at \in Int
    BY <2>1, <1>3, <1>4 DEF IsRuns
  <2>3. from < x[1].run.at /\ x[1].run.at <= to /\ from < x[2].run.at /\ x[2].run.at <= to
    BY <2>1, <1>3, <1>4
  <2>4. from < Done(x) /\ Done(x) <= to
    BY <2>2, <2>3 DEF Done, Larger
  <2> QED BY <2>1, <2>2, <2>4
<1> QED BY <1>5, <1>6 DEF pairs, from, to

(* The pairs of what was recorded by t are the pairs that completed by t. *)
LEMMA AttemptPairsOfPast ==
    ASSUME NEW early, NEW late, late.sold # None, late.bought # None,
           NEW t \in Int, SpreadBy(early, late, t), HasHistory(late),
           NEW event, NEW mode, NEW amount \in Nat \ {0},
           NEW window, AttemptFrom(event, window) \in Int,
           NEW policy, NEW expiry, AttemptTo(event, window, expiry) \in Int
    PROVE  AttemptPairs(early, event, mode, amount, window, policy, expiry)
               = {x \in AttemptPairs(late, event, mode, amount, window, policy, expiry) : Done(x) <= t}
<1> DEFINE R == AttemptRuns(late.sold, "sell", mode, amount, event, window, expiry)
           S == AttemptRuns(late.bought, "buy", mode, amount, event, window, expiry)
           pairs == AttemptPairs(late, event, mode, amount, window, policy, expiry)
           past == AttemptPairs(early, event, mode, amount, window, policy, expiry)
           R2 == AttemptRuns(early.sold, "sell", mode, amount, event, window, expiry)
           S2 == AttemptRuns(early.bought, "buy", mode, amount, event, window, expiry)
<1>1. RecordedBy(early.sold, late.sold, t) /\ RecordedBy(early.bought, late.bought, t)
  BY DEF SpreadBy
<1>2. R2 = {r \in R : r.run.at <= t}
  <2> DEFINE from == AttemptFrom(event, window)
             to == AttemptTo(event, window, expiry)
  <2>1. /\ R2 = LegCandidates(early.sold, "sell", mode, amount, from, to).runs
        /\ R = LegCandidates(late.sold, "sell", mode, amount, from, to).runs
    BY DEF AttemptRuns
  <2> HIDE DEF from, to, R, S, R2, S2
  <2>2. LegCandidates(early.sold, "sell", mode, amount, from, to).runs
           = RunsBy(LegCandidates(late.sold, "sell", mode, amount, from, to).runs, t)
    BY <1>1, LegRunsOfPast
  <2> QED BY <2>1, <2>2, Zenon DEF RunsBy
<1>3. S2 = {r \in S : r.run.at <= t}
  <2> DEFINE from == AttemptFrom(event, window)
             to == AttemptTo(event, window, expiry)
  <2>1. /\ S2 = LegCandidates(early.bought, "buy", mode, amount, from, to).runs
        /\ S = LegCandidates(late.bought, "buy", mode, amount, from, to).runs
    BY DEF AttemptRuns
  <2> HIDE DEF from, to, R, S, R2, S2
  <2>2. LegCandidates(early.bought, "buy", mode, amount, from, to).runs
           = RunsBy(LegCandidates(late.bought, "buy", mode, amount, from, to).runs, t)
    BY <1>1, LegRunsOfPast
  <2> QED BY <2>1, <2>2, Zenon DEF RunsBy
<1>4. \A x \in pairs : x[1].run.at \in Int /\ x[2].run.at \in Int
  BY AttemptPairsAre
<1>5. /\ pairs = {x \in R \X S : Abs(x[1].run.at - x[2].run.at) <= policy.sync}
      /\ past = {x \in R2 \X S2 : Abs(x[1].run.at - x[2].run.at) <= policy.sync}
  BY DEF AttemptPairs, SynchronizedPairs
<1> HIDE DEF R, S, R2, S2, pairs, past
<1>6. past = {x \in pairs : x[1].run.at <= t /\ x[2].run.at <= t}
  BY <1>2, <1>3, <1>5
<1>7. \A x \in pairs : x[1].run.at <= t /\ x[2].run.at <= t <=> Done(x) <= t
  BY <1>4 DEF Done, Larger
<1>8. past = {x \in pairs : Done(x) <= t}
  BY <1>6, <1>7
<1> QED BY <1>8 DEF pairs, past

IsAttempt(x) == \E s, r, e, o : x = [status |-> s, reason |-> r, entry |-> e, resolution |-> o]

(* What is judged of a pair carries its completion as the entry. *)
LEMMA JudgedIs ==
    ASSUME NEW pair, NEW event, NEW mode, NEW policy, NEW expiry
    PROVE  /\ IsAttempt(Judged(pair, event, mode, policy, expiry))
           /\ Judged(pair, event, mode, policy, expiry).status \in Completed =>
                 PreEntryResolution(event, Done(pair), expiry) \notin Missed
           /\ Judged(pair, event, mode, policy, expiry).entry = Done(pair)
BY DEF Judged, Completed, IsAttempt

(* Every attempt is a record of these fields. *)
LEMMA AttemptShape ==
    ASSUME NEW spread, NEW event, NEW mode, NEW amount, NEW window, NEW policy, NEW expiry
    PROVE  IsAttempt(DelayedAttempt(spread, event, mode, amount, window, policy, expiry))
<1> DEFINE pairs == AttemptPairs(spread, event, mode, amount, window, policy, expiry)
           attempt == DelayedAttempt(spread, event, mode, amount, window, policy, expiry)
           J == Judged(EarliestPair(pairs), event, mode, policy, expiry)
<1>1. attempt = J \/ IsRefused(attempt)
  BY AttemptIs DEF AttemptIsOf
<1>2. IsAttempt(J)
  BY JudgedIs
<1> HIDE DEF attempt, J
<1>3. IsRefused(attempt) => IsAttempt(attempt)
  BY Zenon DEF IsRefused, IsAttempt
<1> QED BY <1>1, <1>2, <1>3 DEF attempt

(* An attempt that completes is a pair that completes in its window. *)
LEMMA CompletedAttemptIs ==
    ASSUME NEW spread, HasHistory(spread), NEW event, NEW mode, NEW amount \in Nat \ {0},
           NEW window, AttemptFrom(event, window) \in Int,
           NEW policy, NEW expiry, AttemptTo(event, window, expiry) \in Int,
           DelayedAttempt(spread, event, mode, amount, window, policy, expiry).status \in Completed
    PROVE  LET pairs == AttemptPairs(spread, event, mode, amount, window, policy, expiry)
               attempt == DelayedAttempt(spread, event, mode, amount, window, policy, expiry)
           IN /\ Attemptable(spread, event, amount, window, policy, expiry)
              /\ pairs # {} /\ EarliestPair(pairs) \in pairs
              /\ attempt = Judged(EarliestPair(pairs), event, mode, policy, expiry)
              /\ attempt.entry = Done(EarliestPair(pairs)) /\ attempt.entry \in Int
              /\ AttemptFrom(event, window) < attempt.entry /\ attempt.entry <= AttemptTo(event, window, expiry)
              /\ PreEntryResolution(event, attempt.entry, expiry) \notin Missed
<1> DEFINE pairs == AttemptPairs(spread, event, mode, amount, window, policy, expiry)
           attempt == DelayedAttempt(spread, event, mode, amount, window, policy, expiry)
           pair == EarliestPair(pairs)
           J == Judged(pair, event, mode, policy, expiry)
           open == Attemptable(spread, event, amount, window, policy, expiry)
<1>1. AttemptIsOf(attempt, open, pairs, event, mode, policy, expiry)
  BY AttemptIs
<1>2. attempt.status \in Completed
  OBVIOUS
<1>3. open /\ pairs # {} /\ attempt = J
  <2> HIDE DEF attempt, open, pairs
  <2>1. ASSUME IsRefused(attempt) PROVE FALSE
    <3>1. attempt.status = "unavailable"
      BY <2>1 DEF IsRefused
    <3> QED BY <3>1, <1>2 DEF Completed
  <2> QED BY <1>1, <2>1, Zenon DEF AttemptIsOf, J, pair
<1>4. spread.sold # None /\ spread.bought # None
  BY <1>3 DEF Attemptable
<1>5. ArePairs(pairs) /\ \A x \in pairs : /\ x[1].run.at \in Int /\ x[2].run.at \in Int
                 /\ AttemptFrom(event, window) < Done(x) /\ Done(x) <= AttemptTo(event, window, expiry)
  BY <1>4, AttemptPairsAre
<1>6. pair \in pairs
  <2> HIDE DEF pairs
  <2> QED BY <1>3, <1>5, EarliestPairIs
<1>7. J.entry = Done(pair) /\ (J.status \in Completed => PreEntryResolution(event, Done(pair), expiry) \notin Missed)
  <2> HIDE DEF pair
  <2> QED BY JudgedIs
<1> HIDE DEF pairs, attempt, pair, J, open
<1>8. attempt.entry = Done(pair) /\ attempt.entry \in Int
  BY <1>3, <1>5, <1>6, <1>7 DEF Done, Larger
<1>9. PreEntryResolution(event, attempt.entry, expiry) \notin Missed
  BY <1>2, <1>3, <1>7, <1>8
<1>10. AttemptFrom(event, window) < attempt.entry /\ attempt.entry <= AttemptTo(event, window, expiry)
  BY <1>5, <1>6, <1>8
<1> QED BY <1>3, <1>6, <1>8, <1>9, <1>10 DEF pairs, attempt, pair, J, open

(* An entry that is judged clear of the resolution comes before each part of it. *)
LEMMA ClearOfResolution ==
    ASSUME NEW event, event.vpoc \in Int \cup {None}, event.exit \in Int \cup {None},
           NEW entry \in Int, NEW expiry \in Int, PreEntryResolution(event, entry, expiry) \notin Missed
    PROVE  /\ entry < expiry
           /\ event.vpoc # None => entry < event.vpoc
           /\ event.exit # None => entry < event.exit
<1> DEFINE v == <<"vpoc", event.vpoc>>
           i == <<"invalidation", event.exit>>
           points == {x \in {v, i} : x[2] # None}
           Sooner(x, y) == x[2] < y[2] \/ (x[2] = y[2] /\ (x[1] = "vpoc" \/ x = y))
           soonest == CHOOSE x \in points : \A y \in points : Sooner(x, y)
<1>1. PreEntryResolution(event, entry, expiry) =
         IF entry >= expiry THEN "expired-before-entry"
         ELSE IF points = {} THEN "entered-before-vpoc"
         ELSE IF soonest[2] = entry THEN "ambiguous-same-timestamp"
         ELSE IF soonest[2] < entry
              THEN IF soonest[1] = "vpoc" THEN "vpoc-occurred-before-entry"
                   ELSE "invalidation-occurred-before-entry"
         ELSE IF soonest[1] = "vpoc" THEN "entered-before-vpoc" ELSE "entered-before-invalidation"
  BY Zenon DEF PreEntryResolution
<1>2. v[1] = "vpoc" /\ v[2] = event.vpoc /\ i[1] = "invalidation" /\ i[2] = event.exit
  OBVIOUS
<1>3. \A x : x \in points <=> (x = v /\ event.vpoc # None) \/ (x = i /\ event.exit # None)
  BY <1>2
<1>4. ASSUME points # {} PROVE soonest \in points /\ \A y \in points : Sooner(soonest, y)
  <2> HIDE DEF v, i, points
  <2>1. CASE event.vpoc = None
    <3>1. i \in points /\ \A y \in points : Sooner(i, y)
      BY <1>2, <1>3, <1>4, <2>1
    <3> QED BY <3>1
  <2>2. CASE event.exit = None
    <3>1. v \in points /\ \A y \in points : Sooner(v, y)
      BY <1>2, <1>3, <1>4, <2>2
    <3> QED BY <3>1
  <2>3. CASE event.vpoc # None /\ event.exit # None /\ event.vpoc <= event.exit
    <3>1. v \in points /\ \A y \in points : Sooner(v, y)
      BY <1>2, <1>3, <1>4, <2>3
    <3> QED BY <3>1
  <2>4. CASE event.vpoc # None /\ event.exit # None /\ ~(event.vpoc <= event.exit)
    <3>1. i \in points /\ \A y \in points : Sooner(i, y)
      BY <1>2, <1>3, <1>4, <2>4
    <3> QED BY <3>1
  <2> QED BY <2>1, <2>2, <2>3, <2>4
<1>5. entry < expiry
  BY <1>1 DEF Missed
<1>6. ASSUME points # {} PROVE entry < soonest[2] /\ soonest[2] \in Int
  <2>1. soonest \in points
    BY <1>4, <1>6
  <2>2. soonest[2] \in Int
    <3> HIDE DEF points, v, i, soonest
    <3> QED BY <2>1, <1>2, <1>3
  <2> HIDE DEF points, v, i, soonest
  <2>3. ~(soonest[2] = entry) /\ ~(soonest[2] < entry)
    BY <1>1, <1>5, <1>6 DEF Missed
  <2> QED BY <2>2, <2>3
<1>7. ASSUME NEW y \in points PROVE entry < y[2]
  <2>1. points # {}
    OBVIOUS
  <2>2. entry < soonest[2] /\ soonest[2] \in Int /\ Sooner(soonest, y)
    BY <2>1, <1>4, <1>6
  <2> HIDE DEF points, v, i, soonest
  <2>3. y[2] \in Int
    BY <1>2, <1>3
  <2> QED BY <2>2, <2>3
<1> HIDE DEF points, v, i
<1> QED BY <1>2, <1>3, <1>5, <1>7

(***************************************************************************)
(* The delayed track.                                                      *)
(***************************************************************************)
\* What is handed to the delayed ladder: whole times, a ladder of at least one window.
IsLadder(event, policy, expiry) ==
    /\ event.at \in Int /\ expiry \in Int
    /\ event.vpoc \in Int \cup {None} /\ event.exit \in Int \cup {None}
    /\ policy.windows \in Seq([from : Int, to : Int]) /\ policy.windows # <<>>

(* The windows of a ladder begin and end at whole times, none after the expiry. *)
LEMMA LadderWindows ==
    ASSUME NEW event, NEW policy, NEW expiry, IsLadder(event, policy, expiry), NEW w \in DOMAIN policy.windows
    PROVE  /\ AttemptFrom(event, policy.windows[w]) \in Int
           /\ AttemptTo(event, policy.windows[w], expiry) \in Int
           /\ AttemptTo(event, policy.windows[w], expiry) <= expiry
           /\ AttemptFrom(event, policy.windows[w]) = event.at + policy.windows[w].from
           /\ event.at + policy.windows[w].to \in Int
           /\ AttemptTo(event, policy.windows[w], expiry) <= event.at + policy.windows[w].to
<1> DEFINE W == [from : Int, to : Int]
<1>1. policy.windows[w] \in W
  <2>1. policy.windows \in Seq(W)
    BY Zenon DEF IsLadder
  <2> HIDE DEF W
  <2> QED BY <2>1
<1>2. event.at \in Int /\ expiry \in Int /\ policy.windows[w].from \in Int /\ policy.windows[w].to \in Int
  BY <1>1 DEF IsLadder
<1> QED BY <1>2 DEF AttemptFrom, AttemptTo, Lesser

\* A track that completed is the attempt of its first window that did.
Attempts(spread, event, mode, amount, policy, expiry) ==
    [w \in DOMAIN policy.windows |->
        DelayedAttempt(spread, event, mode, amount, policy.windows[w], policy, expiry)]
CompletedWindows(spread, event, mode, amount, policy, expiry) ==
    {w \in DOMAIN policy.windows :
        DelayedAttempt(spread, event, mode, amount, policy.windows[w], policy, expiry).status \in Completed}

(* A track that completed is the attempt of the first window that completed. *)
LEMMA TrackIs ==
    ASSUME NEW spread, NEW event, NEW mode, NEW amount, NEW policy, NEW expiry, IsLadder(event, policy, expiry)
    PROVE  LET done == CompletedWindows(spread, event, mode, amount, policy, expiry)
               track == DelayedTrack(spread, event, mode, amount, policy, expiry)
           IN /\ done # {} => /\ Min(done) \in done /\ \A w \in done : Min(done) <= w
                              /\ track = DelayedAttempt(spread, event, mode, amount,
                                                        policy.windows[Min(done)], policy, expiry)
              /\ done = {} => track.status \notin Completed
<1> DEFINE done == CompletedWindows(spread, event, mode, amount, policy, expiry)
           track == DelayedTrack(spread, event, mode, amount, policy, expiry)
           A == Attempts(spread, event, mode, amount, policy, expiry)
           ended == {w \in DOMAIN A : A[w].status \in {"missed-entry", "observed-but-policy-rejected"}}
           n == Len(policy.windows)
<1>0. n \in Nat /\ n > 0 /\ DOMAIN policy.windows = 1..n
  BY DEF IsLadder
<1>1. DOMAIN A = 1..n /\ \A w \in 1..n : A[w] = DelayedAttempt(spread, event, mode, amount, policy.windows[w], policy, expiry)
  BY <1>0 DEF Attempts
<1>2. done = {w \in DOMAIN A : A[w].status \in Completed} /\ done \in SUBSET (1..n)
  BY <1>0, <1>1 DEF CompletedWindows
<1>3. track = IF done # {} THEN A[Min(done)]
              ELSE [A[IF ended # {} THEN Min(ended) ELSE Len(A)] EXCEPT !.status = "unavailable"]
  <2> DEFINE all == {w \in DOMAIN A : A[w].status \in Completed}
  <2>1. track = IF all # {} THEN A[Min(all)]
                ELSE [A[IF ended # {} THEN Min(ended) ELSE Len(A)] EXCEPT !.status = "unavailable"]
    BY Zenon DEF DelayedTrack, Attempts
  <2>2. done = all
    BY <1>2
  <2> HIDE DEF done, all
  <2> QED BY <2>1, <2>2
<1>4. ASSUME done # {} PROVE /\ Min(done) \in done /\ \A w \in done : Min(done) <= w
                             /\ track = DelayedAttempt(spread, event, mode, amount,
                                                       policy.windows[Min(done)], policy, expiry)
  <2> HIDE DEF done, track, A
  <2>1. Min(done) \in done /\ \A w \in done : Min(done) <= w
    <3>1. done \in SUBSET Int /\ IsFiniteSet(done)
      BY <1>0, <1>2, LastIndex, FS_Subset
    <3>2. PICK x \in done : \A y \in done : x <= y
      BY <3>1, <1>4, IntegerMin
    <3> QED BY <3>1, <3>2, LeastIsMin
  <2> QED BY <2>1, <1>1, <1>2, <1>3, <1>4
<1>5. ASSUME done = {} PROVE track.status \notin Completed
  <2> DEFINE k == IF ended # {} THEN Min(ended) ELSE Len(A)
  <2>1. k \in 1..n
    <3>1. CASE ended = {}
      <4>1. Len(A) = n
        <5> HIDE DEF A
        <5>1. A \in Seq({A[w] : w \in 1..n})
          <6>1. A = [w \in 1..n |-> A[w]]
            BY <1>0, <1>1 DEF A, Attempts
          <6> QED BY <6>1, <1>0
        <5> QED BY <5>1, <1>0, <1>1
      <4> QED BY <4>1, <3>1, <1>0
    <3>2. CASE ended # {}
      <4> HIDE DEF A
      <4>1. ended \in SUBSET (1..n)
        BY <1>1
      <4> HIDE DEF ended
      <4>2. ended \in SUBSET Int /\ IsFiniteSet(ended)
        <5>1. IsFiniteSet(1..n)
          BY <1>0, LastIndex
        <5>2. 1..n \in SUBSET Int
          BY <1>0
        <5> QED BY <4>1, <5>1, <5>2, FS_Subset
      <4>3. PICK x \in ended : \A y \in ended : x <= y
        BY <3>2, <4>2, IntegerMin
      <4>4. Min(ended) = x
        BY <4>2, <4>3, LeastIsMin
      <4> QED BY <3>2, <4>1, <4>3, <4>4
    <3> QED BY <3>1, <3>2
  <2>2. track = [A[k] EXCEPT !.status = "unavailable"]
    <3> HIDE DEF A, track, done
    <3> QED BY <1>3, <1>5
  <2> HIDE DEF k
  <2>3. IsAttempt(A[k])
    <3>1. A[k] = DelayedAttempt(spread, event, mode, amount, policy.windows[k], policy, expiry)
      BY <1>1, <2>1
    <3> HIDE DEF A
    <3> QED BY <3>1, AttemptShape
  <2> HIDE DEF A, track
  <2>4. track.status = "unavailable"
    BY <2>2, <2>3 DEF IsAttempt
  <2> QED BY <2>4 DEF Completed
<1> QED BY <1>4, <1>5

(* delayedExecutionSnapshot: a delayed track that completed entered inside one of its
   windows, before the expiry, before the VPOC was reached and before the
   invalidation, so no delayed entry is made on a thesis that had resolved. *)
THEOREM DelayedEntryPrecedesResolution ==
    ASSUME NEW spread, HasHistory(spread), NEW event, NEW mode, NEW amount \in Nat \ {0}, NEW policy, NEW expiry,
           IsLadder(event, policy, expiry),
           DelayedTrack(spread, event, mode, amount, policy, expiry).status \in Completed
    PROVE  LET entry == DelayedTrack(spread, event, mode, amount, policy, expiry).entry
           IN /\ entry \in Int /\ entry < expiry
              /\ \E w \in DOMAIN policy.windows :
                    /\ event.at + policy.windows[w].from < entry
                    /\ entry <= event.at + policy.windows[w].to
              /\ event.vpoc # None => entry < event.vpoc
              /\ event.exit # None => entry < event.exit
<1> DEFINE done == CompletedWindows(spread, event, mode, amount, policy, expiry)
           track == DelayedTrack(spread, event, mode, amount, policy, expiry)
           w == Min(done)
           window == policy.windows[w]
<1>1. track.status \in Completed
  OBVIOUS
<1>2. done # {} => /\ Min(done) \in done
                   /\ track = DelayedAttempt(spread, event, mode, amount,
                                                       policy.windows[Min(done)], policy, expiry)
  BY TrackIs
<1>3. done = {} => track.status \notin Completed
  BY TrackIs
<1> HIDE DEF done, track
<1>4. w \in done /\ track = DelayedAttempt(spread, event, mode, amount, window, policy, expiry)
  BY <1>1, <1>2, <1>3
<1>5. w \in DOMAIN policy.windows
  BY <1>4 DEF done, CompletedWindows
<1>6. /\ AttemptFrom(event, window) \in Int /\ AttemptTo(event, window, expiry) \in Int
      /\ AttemptTo(event, window, expiry) <= event.at + window.to
      /\ AttemptFrom(event, window) = event.at + window.from
      /\ event.at + window.to \in Int
  <2> HIDE DEF w
  <2> QED BY <1>5, LadderWindows
<1> HIDE DEF w, window
<1>7. /\ track.entry \in Int /\ AttemptFrom(event, window) < track.entry
      /\ track.entry <= AttemptTo(event, window, expiry)
      /\ PreEntryResolution(event, track.entry, expiry) \notin Missed
  BY <1>1, <1>4, <1>6, CompletedAttemptIs
<1>8. /\ track.entry < expiry
      /\ event.vpoc # None => track.entry < event.vpoc
      /\ event.exit # None => track.entry < event.exit
  BY <1>7, ClearOfResolution DEF IsLadder
<1>9. event.at + window.from < track.entry /\ track.entry <= event.at + window.to
  BY <1>6, <1>7
<1> QED BY <1>5, <1>7, <1>8, <1>9 DEF track, window

(* Of an attempt, what was recorded by t gives the same or a refusal; and the
   same of one that completed by t. *)
LEMMA AttemptOfPast ==
    ASSUME NEW early, NEW late, NEW t \in Int, SpreadBy(early, late, t), HasHistory(late),
           NEW event, NEW mode, NEW amount \in Nat \ {0},
           NEW window, AttemptFrom(event, window) \in Int,
           NEW policy, NEW expiry, AttemptTo(event, window, expiry) \in Int
    PROVE  LET then == DelayedAttempt(early, event, mode, amount, window, policy, expiry)
               now == DelayedAttempt(late, event, mode, amount, window, policy, expiry)
           IN /\ then = now \/ then.status \notin Completed
              /\ now.status \in Completed /\ now.entry <= t => then = now
<1> DEFINE then == DelayedAttempt(early, event, mode, amount, window, policy, expiry)
           now == DelayedAttempt(late, event, mode, amount, window, policy, expiry)
           past == AttemptPairs(early, event, mode, amount, window, policy, expiry)
           pairs == AttemptPairs(late, event, mode, amount, window, policy, expiry)
           open == Attemptable(late, event, amount, window, policy, expiry)
           opened == Attemptable(early, event, amount, window, policy, expiry)
<1>1. AttemptIsOf(then, opened, past, event, mode, policy, expiry)
  BY AttemptIs
<1>2. AttemptIsOf(now, open, pairs, event, mode, policy, expiry)
  BY AttemptIs
<1>3. opened <=> open
  BY DEF Attemptable, SpreadBy, RecordedBy
<1>4. \A x : IsRefused(x) => x.status \notin Completed
  BY DEF IsRefused, Completed
<1>5. ASSUME open PROVE ArePairs(pairs) /\ past = {x \in pairs : Done(x) <= t}
  <2>1. late.sold # None /\ late.bought # None
    BY <1>5 DEF Attemptable
  <2>2. ArePairs(pairs)
    BY <2>1, AttemptPairsAre
  <2>3. past = {x \in pairs : Done(x) <= t}
    BY <2>1, AttemptPairsOfPast
  <2> QED BY <2>2, <2>3
<1> HIDE DEF then, now, past, pairs, open, opened
<1>6. CASE open /\ pairs # {} /\ Done(EarliestPair(pairs)) <= t
  <2>1. past # {} /\ EarliestPair(past) = EarliestPair(pairs)
    BY <1>5, <1>6, EarliestOfPast
  <2>2. then = Judged(EarliestPair(past), event, mode, policy, expiry)
    BY <1>1, <1>3, <1>6, <2>1 DEF AttemptIsOf
  <2>3. now = Judged(EarliestPair(pairs), event, mode, policy, expiry)
    BY <1>2, <1>6 DEF AttemptIsOf
  <2>4. then = now
    BY <2>1, <2>2, <2>3
  <2> QED BY <2>4 DEF then, now
<1>7. CASE open /\ (pairs = {} \/ ~(Done(EarliestPair(pairs)) <= t))
  <2>1. past = {}
    BY <1>5, <1>7, NoneOfPast
  <2>2. then.status \notin Completed
    BY <1>1, <1>4, <2>1 DEF AttemptIsOf
  <2>3. now.status \in Completed => ~(now.entry <= t)
    <3>1. CASE pairs = {}
      BY <1>2, <1>4, <3>1 DEF AttemptIsOf
    <3>2. CASE pairs # {}
      <4>1. now = Judged(EarliestPair(pairs), event, mode, policy, expiry)
        BY <1>2, <1>7, <3>2 DEF AttemptIsOf
      <4>2. now.entry = Done(EarliestPair(pairs))
        BY <4>1, JudgedIs
      <4> QED BY <4>2, <1>7, <3>2
    <3> QED BY <3>1, <3>2
  <2> QED BY <2>2, <2>3 DEF then, now
<1>8. CASE ~open
  <2>1. IsRefused(then) /\ IsRefused(now)
    BY <1>1, <1>2, <1>3, <1>8 DEF AttemptIsOf
  <2>2. then.status \notin Completed /\ now.status \notin Completed
    BY <1>4, <2>1
  <2> QED BY <2>2 DEF then, now
<1> QED BY <1>6, <1>7, <1>8

(* And it is causal: a delayed track whose entry is by t, with its status, its result
   and the reason given for it, is the track on what was recorded of both legs
   by t.  A window that had not completed by then cannot have completed on less. *)
THEOREM DelayedTrackOwesNothingToLaterPrints ==
    ASSUME NEW early, NEW late, NEW t \in Int, SpreadBy(early, late, t), HasHistory(late),
           NEW event, NEW mode, NEW amount \in Nat \ {0}, NEW policy, NEW expiry, IsLadder(event, policy, expiry),
           DelayedTrack(late, event, mode, amount, policy, expiry).status \in Completed,
           DelayedTrack(late, event, mode, amount, policy, expiry).entry <= t
    PROVE  DelayedTrack(early, event, mode, amount, policy, expiry)
               = DelayedTrack(late, event, mode, amount, policy, expiry)
<1> DEFINE Then(w) == DelayedAttempt(early, event, mode, amount, policy.windows[w], policy, expiry)
           Now(w) == DelayedAttempt(late, event, mode, amount, policy.windows[w], policy, expiry)
           dones == CompletedWindows(early, event, mode, amount, policy, expiry)
           done == CompletedWindows(late, event, mode, amount, policy, expiry)
           then == DelayedTrack(early, event, mode, amount, policy, expiry)
           now == DelayedTrack(late, event, mode, amount, policy, expiry)
<1>1. /\ done = {w \in DOMAIN policy.windows : Now(w).status \in Completed}
      /\ dones = {w \in DOMAIN policy.windows : Then(w).status \in Completed}
  BY DEF CompletedWindows
<1>2. \A w \in DOMAIN policy.windows : /\ Then(w) = Now(w) \/ Then(w).status \notin Completed
                                       /\ Now(w).status \in Completed /\ Now(w).entry <= t => Then(w) = Now(w)
  <2> SUFFICES ASSUME NEW w \in DOMAIN policy.windows
               PROVE /\ Then(w) = Now(w) \/ Then(w).status \notin Completed
                     /\ Now(w).status \in Completed /\ Now(w).entry <= t => Then(w) = Now(w)
    OBVIOUS
  <2> DEFINE window == policy.windows[w]
  <2>1. AttemptFrom(event, window) \in Int /\ AttemptTo(event, window, expiry) \in Int
    BY LadderWindows
  <2> HIDE DEF window
  <2>2. LET a == DelayedAttempt(early, event, mode, amount, window, policy, expiry)
            b == DelayedAttempt(late, event, mode, amount, window, policy, expiry)
        IN /\ a = b \/ a.status \notin Completed
           /\ b.status \in Completed /\ b.entry <= t => a = b
    BY <2>1, AttemptOfPast
  <2> QED BY <2>2 DEF window
<1>3. now.status \in Completed /\ now.entry <= t
  OBVIOUS
<1>4. /\ done # {} => Min(done) \in done /\ (\A w \in done : Min(done) <= w) /\ now = Now(Min(done))
      /\ done = {} => now.status \notin Completed
  BY TrackIs
<1>5. dones # {} => then = Then(Min(dones))
  BY TrackIs
<1>6. done \in SUBSET Int
  BY DEF CompletedWindows, IsLadder
<1> HIDE DEF Then, Now, done, dones, then, now
<1>7. Min(done) \in done /\ now = Now(Min(done)) /\ \A w \in done : Min(done) <= w
  BY <1>3, <1>4
<1>8. Min(done) \in DOMAIN policy.windows /\ Then(Min(done)) = Now(Min(done)) /\ Now(Min(done)).status \in Completed
  BY <1>1, <1>2, <1>3, <1>7
<1>9. Min(done) \in dones
  BY <1>1, <1>8
<1>10. dones \in SUBSET done
  BY <1>1, <1>2
<1>11. Min(dones) = Min(done)
  <2>1. dones \in SUBSET Int /\ \A w \in dones : Min(done) <= w
    BY <1>6, <1>7, <1>10
  <2> QED BY <2>1, <1>9, LeastIsMin
<1>12. then = now
  BY <1>5, <1>7, <1>8, <1>9, <1>11
<1> QED BY <1>12 DEF then, now
=============================================================================
