----------------------------- MODULE OutcomeProofs -----------------------------
(***************************************************************************)
(* The outcome of a structure for every price, path and table: its loss is *)
(* a bound, its settlement and its adverse path are what they are said to  *)
(* be, a policy ends it at the first decision, placements are compared     *)
(* with their own kind, and the perpetual baseline it is measured against  *)
(* is filled in time.                                                      *)
(***************************************************************************)
EXTENDS EntryProofs, ExitPolicies, StrikePlacement

(***************************************************************************)
(* What a credit vertical can lose.                                        *)
(***************************************************************************)
(* Multiplying by an amount keeps the order of two values. *)
LEMMA MultipliedOrder ==
    ASSUME NEW a \in Int, NEW b \in Int, a <= b, NEW n \in Nat
    PROVE  a * n <= b * n /\ (a < b /\ n > 0 => a * n < b * n)
OBVIOUS

\* A vertical as its loss is computed, every figure of it known.
Vertical == [type : {"C", "P"}, short : Int, long : Int, expires : Int, amount : Int, sold : Int, bought : Int,
             index : Int, fees : Int]

\* What settling at an index adds, per coin.
Payoff(v, index) == Payable(v.type, v.long, index) - Payable(v.type, v.short, index)

(* Of a credit vertical, what is owed for the short leg and received for the
   long one is at its least when it settles at the long strike, and strictly
   more before it is reached. *)
LEMMA WorstIsBeyondTheLongStrike ==
    ASSUME NEW v \in Vertical, CreditSpreadKind(v) # None, NEW i \in Int
    PROVE  /\ Payoff(v, i) \in Int /\ Payoff(v, v.long) <= Payoff(v, i)
           /\ v.type = "C" /\ i < v.long => Payoff(v, v.long) < Payoff(v, i)
           /\ v.type = "P" /\ i > v.long => Payoff(v, v.long) < Payoff(v, i)
<1>1. \/ v.type = "C" /\ 0 < v.short /\ v.short < v.long
      \/ v.type = "P" /\ 0 < v.long /\ v.long < v.short
  BY DEF CreditSpreadKind
<1>2. CASE v.type = "C" /\ 0 < v.short /\ v.short < v.long
  BY <1>2 DEF Payoff, Payable, Larger, Vertical
<1>3. CASE v.type = "P" /\ 0 < v.long /\ v.long < v.short
  BY <1>3 DEF Payoff, Payable, Larger, Vertical
<1> QED BY <1>1, <1>2, <1>3

(* The same of the whole value in dollars, the premium of the entry included. *)
LEMMA LongStrikeIsWorst ==
    ASSUME NEW v \in Vertical, CreditSpreadKind(v) # None, v.amount > 0, NEW i \in Int
    PROVE  /\ StructuralValue(v, i) \in Int /\ StructuralValue(v, v.long) <= StructuralValue(v, i)
           /\ v.type = "C" /\ i < v.long => StructuralValue(v, v.long) < StructuralValue(v, i)
           /\ v.type = "P" /\ i > v.long => StructuralValue(v, v.long) < StructuralValue(v, i)
<1> DEFINE fixed == NetEntry(v) * v.index
           a == Scale * Payoff(v, v.long)
           b == Scale * Payoff(v, i)
<1>1. v.long \in Int /\ v.amount \in Nat /\ fixed \in Int
  BY DEF Vertical, NetEntry
<1>2. a \in Int /\ b \in Int /\ a <= b /\ (Payoff(v, v.long) < Payoff(v, i) => a < b)
  BY <1>1, WorstIsBeyondTheLongStrike DEF Scale
<1>3. StructuralValue(v, i) = fixed + b * v.amount /\ StructuralValue(v, v.long) = fixed + a * v.amount
  BY DEF StructuralValue, Payoff
<1> HIDE DEF fixed, a, b
<1>4. /\ a * v.amount <= b * v.amount /\ a * v.amount \in Int /\ b * v.amount \in Int
      /\ a < b => a * v.amount < b * v.amount
  BY <1>1, <1>2, MultipliedOrder
<1> QED BY <1>1, <1>2, <1>3, <1>4, WorstIsBeyondTheLongStrike

(* The loss stated for a credit spread is a bound: it is what the spread is
   worth settled at its long strike, and no settlement, sampled or not, is
   worse.  canonicalStructuralLoss tries four indices only; this says
   why these are enough, and that a tie is reported at the knee and not on the
   plateau. *)
THEOREM StructuralLossIsTheWorst ==
    ASSUME NEW v \in Vertical, NEW loss, loss = CanonicalStructuralLoss(v), loss.status = "available"
    PROVE  /\ loss.at = v.long /\ loss.usd = Abs(StructuralValue(v, v.long))
           /\ \A i \in Int : StructuralValue(v, v.long) <= StructuralValue(v, i)
<1> DEFINE samples == StructuralSampleIndices(v)
           values == {StructuralValue(v, i) : i \in samples}
           worst == Min(values)
           tied == {i \in samples : StructuralValue(v, i) = worst}
           at == IF CreditSpreadKind(v) = "bear-call-credit" THEN Min(tied) ELSE Max(tied)
<1>1. /\ v.index # None /\ v.index > 0 /\ CreditSpreadKind(v) # None /\ v.amount > 0
      /\ loss = [status |-> "available", reason |-> None, usd |-> Abs(worst), at |-> at, fees |-> DeliveryFees(v, at),
                 bounded |-> CreditSpreadKind(v) = "bull-put-credit", source |-> "canonical_helper", reconciled |-> FALSE]
  <2> HIDE DEF worst, at
  <2> QED BY NoneAssumption DEF CanonicalStructuralLoss, NoLoss, Vertical, at, tied, worst, values, samples
<1>2. v.long \in samples /\ samples \subseteq Int
  BY DEF StructuralSampleIndices, Vertical, Larger
<1> HIDE DEF samples
<1>3. worst = StructuralValue(v, v.long) /\ \A i \in Int : worst <= StructuralValue(v, i)
  <2>1. \A i \in Int : StructuralValue(v, i) \in Int /\ StructuralValue(v, v.long) <= StructuralValue(v, i)
    BY <1>1, LongStrikeIsWorst
  <2>2. StructuralValue(v, v.long) \in values /\ \A x \in values : x \in Int /\ StructuralValue(v, v.long) <= x
    BY <2>1, <1>2
  <2> HIDE DEF values
  <2>3. worst = StructuralValue(v, v.long)
    BY <2>2 DEF Min
  <2> QED BY <2>1, <2>3
<1>4. v.long \in tied /\ tied \subseteq Int
  BY <1>2, <1>3
<1>5. /\ v.type = "C" => \A i \in tied : v.long <= i
      /\ v.type = "P" => \A i \in tied : i <= v.long
  <2>1. \A i \in tied : StructuralValue(v, i) = StructuralValue(v, v.long)
    BY <1>3
  <2> HIDE DEF tied
  <2> QED BY <2>1, <1>1, <1>2, <1>4, LongStrikeIsWorst DEF Vertical
<1> HIDE DEF worst, tied
<1>6. at = v.long
  <2>2. CASE CreditSpreadKind(v) = "bear-call-credit"
    <3>1. v.type = "C"
      BY <2>2, <1>1 DEF CreditSpreadKind
    <3> QED BY <3>1, <2>2, <1>4, <1>5, LeastIsMin
  <2>3. CASE CreditSpreadKind(v) # "bear-call-credit"
    <3>1. v.type = "P"
      BY <2>3, <1>1 DEF CreditSpreadKind
    <3> QED BY <3>1, <2>3, <1>4, <1>5, GreatestIsMax
  <2> QED BY <2>2, <2>3
<1> HIDE DEF at
<1> QED BY <1>1, <1>3, <1>6

(***************************************************************************)
(* What a leg pays when it settles.                                        *)
(***************************************************************************)
(* Dividing a multiple gives it back. *)
LEMMA ExactDivision == \A a \in Int, k \in Int : k > 0 => (a * k) \div k = a
OBVIOUS

\* A leg at its expiry.
Leg == [type : {"C", "P"}, side : {"long", "short"}, strike : Int, delivery : Int, amount : Int, expires : Int]

(* A leg that settles through a future struck at its strike pays what it
   would have paid in cash, and the same fee: the rule change moves the entries
   of the ledger of buildOptionSettlementLedger, never the money. *)
THEOREM SettlementRulesPayAlike ==
    ASSUME NEW leg \in Leg, leg.strike > 0
    PROVE  LET ledger == BuildOptionSettlementLedger(leg)
               sign == IF leg.side = "long" THEN 1 ELSE -1
           IN /\ ledger.pnl = sign * leg.amount * Payable(leg.type, leg.strike, leg.delivery)
              /\ ledger.fee = DeliveryFee(IntrinsicPrice(leg.type, leg.delivery, leg.strike), leg.amount)
<1> DEFINE ledger == BuildOptionSettlementLedger(leg)
           sign == IF leg.side = "long" THEN 1 ELSE -1
           way == IF leg.type = "C" THEN 1 ELSE -1
           payable == Payable(leg.type, leg.strike, leg.delivery)
           fee == DeliveryFee(IntrinsicPrice(leg.type, leg.delivery, leg.strike), leg.amount)
           value == sign * leg.amount * payable
<1>1. /\ leg.strike \in Int /\ leg.delivery \in Int /\ leg.amount \in Int /\ leg.expires \in Int /\ leg.type \in {"C", "P"}
      /\ payable \in Int /\ sign \in {1, -1} /\ way \in {1, -1}
  BY DEF Leg, Payable, Larger
<1>2. payable # 0 => payable = way * (leg.delivery - leg.strike)
  BY <1>1 DEF Payable, Larger
<1>3. payable = 0 => fee = 0 /\ value = 0
  <2>1. ASSUME payable = 0 PROVE fee = 0 /\ value = 0
    <3>1. Larger(0, IF leg.type = "C" THEN leg.delivery - leg.strike ELSE leg.strike - leg.delivery) = 0
      BY <2>1 DEF Payable
    <3>2. IntrinsicPrice(leg.type, leg.delivery, leg.strike) = 0
      <4>1. CASE leg.delivery <= 0
        BY <4>1 DEF IntrinsicPrice
      <4>2. CASE ~(leg.delivery <= 0)
        <5>1. IntrinsicPrice(leg.type, leg.delivery, leg.strike) = (Scale * 0) \div leg.delivery
          BY <3>1, <4>2 DEF IntrinsicPrice
        <5>2. (Scale * 0) \div leg.delivery = 0
          BY <4>2, <1>1, ExactDivision DEF Scale
        <5> QED BY <5>1, <5>2
      <4> QED BY <4>1, <4>2
    <3>3. fee = 0
      BY <3>2, <1>1 DEF DeliveryFee, Lesser, BaseFee
    <3>4. value = 0
      BY <2>1, <1>1
    <3> QED BY <3>3, <3>4
  <2> QED BY <2>1
<1>4. payable # 0 => (GeneratedFuture(leg) * (leg.delivery - leg.strike)) \div leg.strike = value
  <2> DEFINE gap == leg.delivery - leg.strike
  <2>1. GeneratedFuture(leg) = sign * way * leg.amount * leg.strike
    BY DEF GeneratedFuture
  <2> HIDE DEF sign, way, payable
  <2>2. (sign * way * leg.amount * leg.strike) * gap = (sign * leg.amount * (way * gap)) * leg.strike
    BY <1>1
  <2>3. sign * leg.amount * (way * gap) \in Int
    BY <1>1
  <2> HIDE DEF gap
  <2> QED BY <2>1, <2>2, <2>3, <1>1, <1>2, ExactDivision DEF gap
<1>5. leg.expires < OptionToFutureFrom \/ leg.expires >= OptionToFutureFrom
  BY <1>1, MarginAssumption
<1> HIDE DEF sign, way, payable, fee
<1>6. ledger.pnl = value /\ ledger.fee = fee
  <2>1. ledger = CASE leg.expires < OptionToFutureFrom ->
                [entries |-> <<"direct-cash-settlement">>, future |-> 0, pnl |-> value, fee |-> fee]
         [] leg.expires >= OptionToFutureFrom /\ payable = 0 ->
                [entries |-> <<"expiry">>, future |-> 0, pnl |-> 0, fee |-> 0]
         [] leg.expires >= OptionToFutureFrom /\ payable # 0 ->
                [entries |-> <<"option-to-future", "future-delivery">>, future |-> GeneratedFuture(leg),
                 pnl |-> (GeneratedFuture(leg) * (leg.delivery - leg.strike)) \div leg.strike, fee |-> fee]
    BY Zenon DEF BuildOptionSettlementLedger, sign, payable, fee
  <2> HIDE DEF ledger, value
  <2>2. ~(leg.expires < OptionToFutureFrom /\ leg.expires >= OptionToFutureFrom)
    BY <1>1, MarginAssumption
  <2>3. CASE leg.expires < OptionToFutureFrom
    BY <2>1, <2>2, <2>3
  <2>4. CASE leg.expires >= OptionToFutureFrom /\ payable = 0
    BY <2>1, <2>2, <2>4, <1>3
  <2>5. CASE leg.expires >= OptionToFutureFrom /\ payable # 0
    BY <2>1, <2>2, <2>5, <1>4
  <2> QED BY <1>5, <2>3, <2>4, <2>5
<1> QED BY <1>6 DEF sign, payable, fee

(***************************************************************************)
(* How far under water a position went.                                    *)
(***************************************************************************)
(* What is read of each member of a finite set is a finite set. *)
LEMMA FiniteImage ==
    ASSUME NEW S, IsFiniteSet(S), NEW T, NEW f \in [S -> T]
    PROVE  IsFiniteSet({f[x] : x \in S})
<1>1. f \in Surjection(S, {f[x] : x \in S})
  BY DEF Surjection
<1> QED BY <1>1, FS_Surjection

\* The deepest of the first k marks, and the first mark in profit.
WorstOf(f, k) == Min({0} \cup {f[j] : j \in 1..k})
Won(f, k) == {j \in 1..k : f[j] > 0}

(* The deepest of the first marks is one of them, or nought. *)
LEMMA RunningWorst ==
    ASSUME NEW f, NEW n \in Nat, \A k \in 1..n : f[k] \in Int
    PROVE  /\ WorstOf(f, n) \in Int /\ WorstOf(f, n) <= 0 /\ \A k \in 1..n : WorstOf(f, n) <= f[k]
           /\ WorstOf(f, n) = 0 \/ \E k \in 1..n : WorstOf(f, n) = f[k]
<1> DEFINE g == [k \in 1..n |-> f[k]]
           S == {0} \cup {f[k] : k \in 1..n}
<1>1. IsFiniteSet({g[k] : k \in 1..n})
  <2>1. g \in [1..n -> Int]
    OBVIOUS
  <2>2. IsFiniteSet(1..n)
    BY FS_Interval
  <2> HIDE DEF g
  <2> QED BY <2>1, <2>2, FiniteImage
<1>2. S = {g[k] : k \in 1..n} \cup {0}
  OBVIOUS
<1>3. IsFiniteSet(S)
  <2> HIDE DEF g, S
  <2> QED BY <1>1, <1>2, FS_AddElement
<1>4. /\ S \in SUBSET Int /\ S # {} /\ 0 \in S /\ \A k \in 1..n : f[k] \in S
      /\ \A x \in S : x = 0 \/ \E k \in 1..n : x = f[k]
  OBVIOUS
<1>5. WorstOf(f, n) = Min(S)
  BY DEF WorstOf
<1> HIDE DEF S
<1>6. PICK x \in S : \A y \in S : x <= y
  BY <1>3, <1>4, IntegerMin
<1>7. WorstOf(f, n) = x
  BY <1>4, <1>5, <1>6, LeastIsMin
<1> QED BY <1>4, <1>6, <1>7

(* Among the marks in profit there is a first. *)
LEMMA FirstWon ==
    ASSUME NEW f, NEW k \in Nat, \A j \in 1..k : f[j] \in Int, Won(f, k) # {}
    PROVE  Min(Won(f, k)) \in Won(f, k) /\ \A j \in Won(f, k) : Min(Won(f, k)) <= j
<1>1. IsFiniteSet(1..k) /\ Won(f, k) \subseteq 1..k
  BY FS_Interval DEF Won
<1>2. IsFiniteSet(Won(f, k)) /\ Won(f, k) \in SUBSET Int
  BY <1>1, FS_Subset
<1>3. PICK x \in Won(f, k) : \A y \in Won(f, k) : x <= y
  BY <1>2, IntegerMin
<1>4. Min(Won(f, k)) = x
  BY <1>2, <1>3, LeastIsMin
<1> QED BY <1>3, <1>4

(* The adverse path of a run of marks is the deepest of them all, and the
   deepest up to the first in profit. *)
LEMMA AdverseIsRunningWorst ==
    ASSUME NEW marks, NEW f, NEW k \in Nat, DOMAIN marks = 1..k, Len(marks) = k,
           \A j \in 1..k : f[j] \in Int /\ marks[j].usd = f[j]
    PROVE  LET told == AdverseOf(marks)
           IN /\ told.worst = WorstOf(f, k)
              /\ Won(f, k) = {} => told.before = None
              /\ Won(f, k) # {} => told.before = WorstOf(f, Min(Won(f, k)))
<1>1. {j \in DOMAIN marks : marks[j].usd > 0} = Won(f, k)
  BY DEF Won
<1>2. ASSUME NEW i \in Nat, i <= k PROVE Min({0} \cup {marks[j].usd : j \in 1..i}) = WorstOf(f, i)
  <2>1. \A j \in 1..i : marks[j].usd = f[j]
    BY <1>2
  <2>2. {marks[j].usd : j \in 1..i} = {f[j] : j \in 1..i}
    BY <2>1
  <2> QED BY <2>2 DEF WorstOf
<1> DEFINE worst == Min({0} \cup {marks[j].usd : j \in 1..k})
           before == IF Won(f, k) = {} THEN None ELSE Min({0} \cup {marks[j].usd : j \in 1..Min(Won(f, k))})
<1>3. AdverseOf(marks) = [status |-> "available", worst |-> worst, marks |-> k, before |-> before]
  BY <1>1, Zenon DEF AdverseOf
<1>4. Won(f, k) # {} => Min(Won(f, k)) \in Nat /\ Min(Won(f, k)) <= k
  <2>1. Won(f, k) \subseteq 1..k
    BY DEF Won
  <2> QED BY <2>1, FirstWon
<1>5. AdverseOf(marks).worst = worst /\ AdverseOf(marks).before = before
  <2> HIDE DEF worst, before
  <2> QED BY <1>3
<1>7. AdverseOf(marks).worst = WorstOf(f, k)
  BY <1>2, <1>5
<1>8. Won(f, k) # {} => AdverseOf(marks).before = WorstOf(f, Min(Won(f, k)))
  <2>1. ASSUME Won(f, k) # {} PROVE AdverseOf(marks).before = WorstOf(f, Min(Won(f, k)))
    <3>1. AdverseOf(marks).before = Min({0} \cup {marks[j].usd : j \in 1..Min(Won(f, k))})
      BY <2>1, <1>5, Zenon
    <3> QED BY <2>1, <3>1, <1>2, <1>4
  <2> QED BY <2>1
<1>9. Won(f, k) = {} => AdverseOf(marks).before = None
  BY <1>5, Zenon
<1> QED BY <1>7, <1>8, <1>9

(* More marks are never less deep. *)
LEMMA WorstOfDeepens ==
    ASSUME NEW f, NEW n \in Nat, NEW m \in Nat, n <= m, \A j \in 1..m : f[j] \in Int
    PROVE  WorstOf(f, n) \in Int /\ WorstOf(f, n) <= 0 /\ WorstOf(f, m) <= WorstOf(f, n)
<1>1. /\ WorstOf(f, n) \in Int /\ WorstOf(f, n) <= 0
      /\ WorstOf(f, n) = 0 \/ \E j \in 1..n : WorstOf(f, n) = f[j]
  <2>1. \A j \in 1..n : f[j] \in Int
    OBVIOUS
  <2> QED BY <2>1, RunningWorst
<1>2. WorstOf(f, m) \in Int /\ WorstOf(f, m) <= 0 /\ \A j \in 1..m : WorstOf(f, m) <= f[j]
  BY RunningWorst
<1> QED BY <1>1, <1>2

(* Seen further, a position was at least as far under water; and once it has
   been in profit, how deep it went before that is settled for good and at most
   as deep as the whole.  evaluateReferenceAdversePath may therefore be asked
   again with a later boundary. *)
THEOREM AdversePathOnlyDeepens ==
    ASSUME NEW Mark, \A m \in Mark : m.usd \in Int, NEW marks \in Seq(Mark), NEW n \in 0..Len(marks)
    PROVE  LET early == AdverseOf(SubSeq(marks, 1, n))
               whole == AdverseOf(marks)
           IN /\ whole.worst <= early.worst /\ early.worst <= 0
              /\ early.before # None => whole.before = early.before
              /\ whole.before # None => whole.worst <= whole.before
<1> DEFINE f == [k \in 1..Len(marks) |-> marks[k].usd]
           m == Len(marks)
           early == AdverseOf(SubSeq(marks, 1, n))
           whole == AdverseOf(marks)
<1>1. m \in Nat /\ n \in Nat /\ n <= m /\ \A k \in 1..m : f[k] \in Int /\ marks[k].usd = f[k]
  OBVIOUS
<1>2. /\ DOMAIN marks = 1..m
      /\ DOMAIN SubSeq(marks, 1, n) = 1..n /\ Len(SubSeq(marks, 1, n)) = n
      /\ \A k \in 1..n : SubSeq(marks, 1, n)[k] = marks[k]
  OBVIOUS
<1>3. \A k \in 1..n : f[k] \in Int /\ SubSeq(marks, 1, n)[k].usd = f[k]
  BY <1>1, <1>2
<1> HIDE DEF f
<1>4. /\ early.worst = WorstOf(f, n)
      /\ Won(f, n) = {} => early.before = None
      /\ Won(f, n) # {} => early.before = WorstOf(f, Min(Won(f, n)))
  BY <1>1, <1>2, <1>3, AdverseIsRunningWorst
<1>5. /\ whole.worst = WorstOf(f, m)
      /\ Won(f, m) = {} => whole.before = None
      /\ Won(f, m) # {} => whole.before = WorstOf(f, Min(Won(f, m)))
  BY <1>1, <1>2, AdverseIsRunningWorst
<1> HIDE DEF early, whole, m
<1>6. ASSUME Won(f, n) # {} PROVE Won(f, m) # {} /\ Min(Won(f, m)) = Min(Won(f, n))
  <2>1. /\ Won(f, n) \subseteq Won(f, m) /\ Won(f, m) \in SUBSET Int
        /\ \A j \in Won(f, m) : j \in Won(f, n) \/ j > n
    BY <1>1 DEF Won
  <2>2. /\ Min(Won(f, n)) \in Won(f, n) /\ Min(Won(f, n)) <= n
        /\ \A j \in Won(f, n) : Min(Won(f, n)) <= j
    <3>1. \A j \in Won(f, n) : j <= n
      BY <1>1 DEF Won
    <3>2. \A j \in 1..n : f[j] \in Int
      BY <1>1
    <3> QED BY <3>1, <3>2, <1>1, <1>6, FirstWon
  <2>3. \A j \in Won(f, m) : Min(Won(f, n)) <= j
    BY <2>1, <2>2, <1>1
  <2> QED BY <2>1, <2>2, <2>3, LeastIsMin
<1>7. Won(f, m) # {} => Min(Won(f, m)) \in Nat /\ Min(Won(f, m)) <= m
  <2>1. \A j \in Won(f, m) : j \in Nat /\ j <= m
    BY <1>1 DEF Won
  <2> QED BY <2>1, <1>1, FirstWon
<1>8. WorstOf(f, n) <= 0 /\ WorstOf(f, m) <= WorstOf(f, n)
  BY <1>1, WorstOfDeepens
<1>9. Won(f, m) # {} => WorstOf(f, m) <= WorstOf(f, Min(Won(f, m)))
  BY <1>1, <1>7, WorstOfDeepens
<1>10. early.before # None => whole.before = early.before
  BY <1>4, <1>5, <1>6
<1>11. whole.before # None => whole.worst <= whole.before
  BY <1>5, <1>9
<1> QED BY <1>4, <1>5, <1>8, <1>10, <1>11 DEF early, whole

(***************************************************************************)
(* How a policy ends a position.                                           *)
(***************************************************************************)
\* The outcomes a policy names, and the place of one among them.
KindsOf(policy) == {ExitPolicies[policy][k] : k \in DOMAIN ExitPolicies[policy]}
Priority(policy, kind) == CHOOSE k \in DOMAIN ExitPolicies[policy] : ExitPolicies[policy][k] = kind

\* A dataset whose outcomes are finitely many, a row's that may end the
\* position under a policy, and the first decided of some.
HasOutcomes(d) == IsFiniteSet(d.outcomes) /\ \A o \in d.outcomes : o.decided \in Int \cup {None}
MayEnd(d, r, policy) == {o \in PolicyRows(d, r, policy) : Exclusion(r, o) = None}
FirstDecided(policy, o, S) ==
    \A x \in S : \/ o.decided < x.decided
                 \/ o.decided = x.decided /\ Priority(policy, o.kind) <= Priority(policy, x.kind)

(* Every policy is a list of names. *)
LEMMA PolicyIsASequence ==
    ASSUME NEW policy \in PolicyIds
    PROVE  DOMAIN ExitPolicies[policy] \subseteq Int /\ None \notin KindsOf(policy)
<1>1. PolicyIds = {"thesis", "capture_50", "capture_70", "time_cap_3d", "time_cap_5d", "time_cap_7d", "settlement_benchmark"}
  BY DEF PolicyIds, ExitPolicies
<1>2. /\ ExitPolicies["thesis"] = <<"vpoc", "invalidation", "settlement">>
      /\ ExitPolicies["capture_50"] = <<"credit_capture_50", "vpoc", "invalidation", "settlement">>
      /\ ExitPolicies["capture_70"] = <<"credit_capture_70", "vpoc", "invalidation", "settlement">>
      /\ ExitPolicies["time_cap_3d"] = <<"vpoc", "invalidation", "fixed_3d", "settlement">>
      /\ ExitPolicies["time_cap_5d"] = <<"vpoc", "invalidation", "fixed_5d", "settlement">>
      /\ ExitPolicies["time_cap_7d"] = <<"vpoc", "invalidation", "fixed_7d", "settlement">>
      /\ ExitPolicies["settlement_benchmark"] = <<"invalidation", "settlement">>
  BY DEF ExitPolicies
<1>3. ASSUME NEW x, NEW a, NEW b, x = <<a, b>> PROVE DOMAIN x = 1..2 /\ x[1] = a /\ x[2] = b
  BY <1>3
<1>4. ASSUME NEW x, NEW a, NEW b, NEW c, x = <<a, b, c>> PROVE DOMAIN x = 1..3 /\ x[1] = a /\ x[2] = b /\ x[3] = c
  BY <1>4
<1>5. ASSUME NEW x, NEW a, NEW b, NEW c, NEW e, x = <<a, b, c, e>>
      PROVE  DOMAIN x = 1..4 /\ x[1] = a /\ x[2] = b /\ x[3] = c /\ x[4] = e
  BY <1>5
<1>6. CASE policy \in {"thesis"}
  BY <1>2, <1>4, <1>6, NoneIsNoAnswer DEF KindsOf
<1>7. CASE policy \in {"capture_50", "capture_70"}
  BY <1>2, <1>5, <1>7, NoneIsNoAnswer DEF KindsOf
<1>8. CASE policy \in {"time_cap_3d", "time_cap_5d", "time_cap_7d"}
  BY <1>2, <1>5, <1>8, NoneIsNoAnswer DEF KindsOf
<1>9. CASE policy = "settlement_benchmark"
  BY <1>2, <1>3, <1>9, NoneIsNoAnswer DEF KindsOf
<1> QED BY <1>1, <1>6, <1>7, <1>8, <1>9

(* An outcome the policy names has a place in it. *)
LEMMA PriorityIsAPlace ==
    ASSUME NEW policy \in PolicyIds, NEW kind \in KindsOf(policy)
    PROVE  Priority(policy, kind) \in Int /\ ExitPolicies[policy][Priority(policy, kind)] = kind /\ kind # None
<1>1. PICK k \in DOMAIN ExitPolicies[policy] : ExitPolicies[policy][k] = kind
  BY DEF KindsOf
<1>2. Priority(policy, kind) \in DOMAIN ExitPolicies[policy] /\ ExitPolicies[policy][Priority(policy, kind)] = kind
  BY <1>1 DEF Priority
<1> QED BY <1>2, PolicyIsASequence

(* What is not excluded was reached, at a known moment. *)
LEMMA ReachedWhenAdmitted ==
    ASSUME NEW r, NEW o, Exclusion(r, o) = None
    PROVE  o.trigger = "reached" /\ o.decided # None
<1>1. None # "outcome_after_expiry" /\ None # "ambiguous_timing" /\ None # "not_reached"
  BY NoneIsNoAnswer
<1>2. o.trigger # "after_expiry"
  BY <1>1, Zenon DEF Exclusion
<1>3. ~(o.trigger = "ambiguous" \/ (o.trigger = "reached" /\ o.decided = None))
  BY <1>1, <1>2 DEF Exclusion
<1>4. o.trigger = "reached"
  BY <1>1, <1>2, <1>3 DEF Exclusion
<1> QED BY <1>3, <1>4

(* The outcomes that may end a position are finitely many and decided. *)
LEMMA AdmissibleOutcome ==
    ASSUME NEW d, HasOutcomes(d), NEW r, NEW policy
    PROVE  /\ IsFiniteSet(MayEnd(d, r, policy))
           /\ \A o \in MayEnd(d, r, policy) :
                 o \in d.outcomes /\ o.kind \in KindsOf(policy) /\ o.decided \in Int /\ o.trigger = "reached"
<1>1. MayEnd(d, r, policy) \subseteq d.outcomes
  BY DEF MayEnd, PolicyRows
<1>2. ASSUME NEW o \in MayEnd(d, r, policy)
      PROVE  o.kind \in KindsOf(policy) /\ o.decided \in Int /\ o.trigger = "reached"
  <2>1. o.kind \in KindsOf(policy) /\ Exclusion(r, o) = None
    BY <1>2 DEF MayEnd, PolicyRows, KindsOf
  <2>2. o.trigger = "reached" /\ o.decided # None
    BY <2>1, ReachedWhenAdmitted
  <2> QED BY <1>1, <1>2, <2>1, <2>2 DEF HasOutcomes
<1> QED BY <1>1, <1>2, FS_Subset DEF HasOutcomes

(* The winner of these is the first decided, by priority in a tie. *)
LEMMA WinnerIsFirst ==
    ASSUME NEW d, HasOutcomes(d), NEW r, NEW policy \in PolicyIds, MayEnd(d, r, policy) # {}
    PROVE  /\ Winner(MayEnd(d, r, policy), policy, r) \in MayEnd(d, r, policy)
           /\ FirstDecided(policy, Winner(MayEnd(d, r, policy), policy, r), MayEnd(d, r, policy))
<1> DEFINE S == MayEnd(d, r, policy)
           Place(o) == Priority(policy, o.kind)
           R == {p \in S \X S : p[1].decided < p[2].decided \/ (p[1].decided = p[2].decided /\ Place(p[1]) <= Place(p[2]))}
           Key(o) == DecisionKey(policy, o)
<1>1. IsFiniteSet(S) /\ \A o \in S : o.decided \in Int /\ Place(o) \in Int
  BY AdmissibleOutcome, PriorityIsAPlace
<1>2. \A o \in S : Key(o) = <<o.decided, Place(o)>>
  BY DEF DecisionKey, Priority
<1> HIDE DEF S, Place
<1>3. \A x, y \in S : <<x, y>> \in R \/ <<y, x>> \in R
  BY <1>1
<1>4. \A x, y, z \in S : <<x, y>> \in R /\ <<y, z>> \in R => <<x, z>> \in R
  BY <1>1
<1>5. \A x, y \in S : <<x, y>> \in R <=> x.decided < y.decided \/ (x.decided = y.decided /\ Place(x) <= Place(y))
  OBVIOUS
<1> HIDE DEF R
<1>6. PICK first \in S : \A y \in S : <<first, y>> \in R
  <2>1. S # {}
    BY DEF S
  <2> QED BY <1>1, <1>3, <1>4, <2>1, LeastExists
<1>7. \A x, y \in S : ~Lower(Key(y), Key(x)) <=> <<x, y>> \in R
  <2>1. ASSUME NEW x \in S, NEW y \in S
        PROVE  Lower(Key(y), Key(x)) <=> y.decided < x.decided \/ (y.decided = x.decided /\ Place(y) < Place(x))
    <3>1. Key(x) = <<x.decided, Place(x)>> /\ Key(y) = <<y.decided, Place(y)>>
      BY <1>2
    <3> HIDE DEF Key
    <3>2. /\ DOMAIN Key(y) = 1..2
          /\ Key(x)[1] = x.decided /\ Key(x)[2] = Place(x) /\ Key(y)[1] = y.decided /\ Key(y)[2] = Place(y)
      BY <3>1
    <3> QED BY <3>2 DEF Lower
  <2> HIDE DEF Key
  <2>2. ASSUME NEW x \in S, NEW y \in S PROVE ~Lower(Key(y), Key(x)) <=> <<x, y>> \in R
    <3>1. Lower(Key(y), Key(x)) <=> y.decided < x.decided \/ (y.decided = x.decided /\ Place(y) < Place(x))
      BY <2>1
    <3>2. <<x, y>> \in R <=> x.decided < y.decided \/ (x.decided = y.decided /\ Place(x) <= Place(y))
      BY <1>5
    <3>3. x.decided \in Int /\ y.decided \in Int /\ Place(x) \in Int /\ Place(y) \in Int
      BY <1>1
    <3> QED BY <3>1, <3>2, <3>3
  <2> QED BY <2>2
<1>8. Winner(S, policy, r) = CHOOSE x \in S : \A y \in S : ~Lower(Key(y), Key(x))
  BY DEF Winner, FirstBy
<1> HIDE DEF Key
<1>9. Winner(S, policy, r) \in S /\ \A y \in S : <<Winner(S, policy, r), y>> \in R
  <2>1. \E x \in S : \A y \in S : ~Lower(Key(y), Key(x))
    BY <1>6, <1>7
  <2>2. Winner(S, policy, r) \in S /\ \A y \in S : ~Lower(Key(y), Key(Winner(S, policy, r)))
    BY <1>8, <2>1
  <2> QED BY <2>2, <1>7
<1> QED BY <1>5, <1>9 DEF FirstDecided, S, Place

(* A policy's exit is its winner, and there is one whenever anything may end
   an evaluated position. *)
LEMMA ExitIsTheWinner ==
    ASSUME NEW d, HasOutcomes(d), NEW r, r.legacy \in BOOLEAN, NEW policy \in PolicyIds, NEW basis
    PROVE  LET exit == EvaluatePolicy(d, r, policy, basis)
               first == Winner(MayEnd(d, r, policy), policy, r)
               ends == ~r.legacy /\ r.status = "evaluated" /\ MayEnd(d, r, policy) # {}
           IN /\ exit.trigger # None <=> ends
              /\ ends => exit.trigger = first.kind /\ exit.decided = first.decided
<1> DEFINE S == MayEnd(d, r, policy)
           o == Winner(S, policy, r)
           rows == PolicyRows(d, r, policy)
           excluded == {Exclusion(r, x) : x \in rows} \ {None, "not_reached"}
           why == IF excluded # {} THEN CHOOSE x \in excluded : TRUE
                  ELSE IF Cardinality(rows) < Len(ExitPolicies[policy]) THEN "source_outcome_absent"
                  ELSE "source_outcome_unavailable"
           priced == PricedExit(r, o)
           marks == ReferenceMarks(d, r)
           status == IF priced THEN "priced" ELSE "triggered_unpriced"
           diagnostic == IF priced THEN None ELSE WhyUnpriced(r, o)
           pnl == IF priced THEN o.pnl ELSE None
           holding == IF priced THEN o.holding ELSE None
           capital == IF priced THEN CapitalDaysOf(d, r.id, basis, r.entry, o.at) ELSE None
           mae == PreExitMae(r, marks, o)
           tied == {x.kind : x \in {y \in S : y.decided = o.decided}}
           Ended == [id |-> r.id, track |-> r.track, policy |-> policy, trigger |-> o.kind, status |-> status,
                     diagnostic |-> diagnostic, decided |-> o.decided, at |-> o.at, pnl |-> pnl, holding |-> holding,
                     capitalDays |-> capital, mae |-> mae, marks |-> marks, tied |-> tied]
<1>1. EvaluatePolicy(d, r, policy, basis) =
        CASE r.legacy -> NoPolicyExit(r, policy, "unavailable", "legacy_incompatibility")
          [] ~r.legacy /\ r.status # "evaluated" -> NoPolicyExit(r, policy, "unavailable", "source_outcome_unavailable")
          [] ~r.legacy /\ r.status = "evaluated" ->
                IF S = {} THEN NoPolicyExit(r, policy, "unavailable", why) ELSE Ended
  BY Zenon DEF EvaluatePolicy, MayEnd
<1>2. S # {} => o.kind # None
  BY WinnerIsFirst, AdmissibleOutcome, PriorityIsAPlace
<1>3. \A reason : NoPolicyExit(r, policy, "unavailable", reason).trigger = None
  BY DEF NoPolicyExit
<1>4. Ended.trigger = o.kind /\ Ended.decided = o.decided
  <2> HIDE DEF status, diagnostic, pnl, holding, capital, mae, marks, tied, o
  <2> QED OBVIOUS
<1> HIDE DEF S, o, why, Ended
<1> DEFINE exit == EvaluatePolicy(d, r, policy, basis)
<1>5. CASE r.legacy
  BY <1>1, <1>3, <1>5 DEF S, o
<1>6. CASE ~r.legacy /\ r.status # "evaluated"
  BY <1>1, <1>3, <1>6 DEF S, o
<1>7. CASE ~r.legacy /\ r.status = "evaluated"
  BY <1>1, <1>2, <1>3, <1>4, <1>7 DEF S, o
<1> QED BY <1>5, <1>6, <1>7

(* The exit as the first decided. *)
LEMMA ExitIsFirst ==
    ASSUME NEW d, HasOutcomes(d), NEW r, r.legacy \in BOOLEAN, NEW policy \in PolicyIds, NEW basis,
           NEW exit, exit = EvaluatePolicy(d, r, policy, basis), exit.trigger # None
    PROVE  \E o \in MayEnd(d, r, policy) :
               /\ exit.trigger = o.kind /\ exit.decided = o.decided
               /\ FirstDecided(policy, o, MayEnd(d, r, policy))
BY ExitIsTheWinner, WinnerIsFirst

\* The outcome is the row's own, was reached, and while the structure lived.
Ends(r, o) == /\ o.id = r.id /\ o.scenario = r.scenario /\ o.track = r.track
              /\ o.trigger = "reached" /\ o.decided # None /\ Lifetime(o.decided, r.entry, r.expiry)

(* Nothing else is asked of an outcome for it to end a position. *)
LEMMA AdmissibleEnds ==
    ASSUME NEW d, HasOutcomes(d), NEW policy,
           NEW r, r.entry \in Int \cup {None}, r.expiry \in Int \cup {None}, NEW o \in d.outcomes
    PROVE  o \in MayEnd(d, r, policy) <=> o.kind \in KindsOf(policy) /\ Ends(r, o)
<1>1. o \in MayEnd(d, r, policy)
        <=> /\ o.id = r.id /\ o.scenario = r.scenario /\ o.track = r.track /\ o.kind \in KindsOf(policy)
            /\ Exclusion(r, o) = None
  BY DEF MayEnd, PolicyRows, KindsOf
<1>2. Exclusion(r, o) = None => o.trigger = "reached" /\ o.decided # None
  BY ReachedWhenAdmitted
<1>3. ASSUME o.trigger = "reached", o.decided # None
      PROVE  Exclusion(r, o) = None <=> Lifetime(o.decided, r.entry, r.expiry)
  <2>1. o.decided \in Int
    BY <1>3 DEF HasOutcomes
  <2>2. Exclusion(r, o) = IF r.entry # None /\ o.decided < r.entry THEN "pre_entry_outcome"
                          ELSE IF r.expiry # None /\ o.decided > r.expiry THEN "outcome_after_expiry" ELSE None
    <3>1. o.trigger # "after_expiry" /\ o.trigger # "ambiguous"
      BY <1>3
    <3> QED BY <3>1, <1>3 DEF Exclusion
  <2>3. None # "pre_entry_outcome" /\ None # "outcome_after_expiry"
    BY NoneIsNoAnswer
  <2> QED BY <2>1, <2>2, <2>3 DEF Lifetime
<1> QED BY <1>1, <1>2, <1>3 DEF Ends

(* A position ends by the first decided of the reached outcomes its policy
   names that fall into its life, by the policy's priority among those decided
   at once, and is open only when there is none.  No status of a price, and no
   outcome of another structure, track or scenario, has a say in it. *)
THEOREM FirstDecisionEndsThePosition ==
    ASSUME NEW d, HasOutcomes(d), NEW policy \in PolicyIds, NEW basis,
           NEW r, r.legacy \in BOOLEAN, r.entry \in Int \cup {None}, r.expiry \in Int \cup {None}
    PROVE  LET exit == EvaluatePolicy(d, r, policy, basis)
               ending == {o \in d.outcomes : o.kind \in KindsOf(policy) /\ Ends(r, o)}
           IN /\ exit.trigger # None <=> ~r.legacy /\ r.status = "evaluated" /\ ending # {}
              /\ exit.trigger # None =>
                    \E o \in ending : /\ exit.trigger = o.kind /\ exit.decided = o.decided
                                      /\ FirstDecided(policy, o, ending)
<1>1. MayEnd(d, r, policy) = {o \in d.outcomes : o.kind \in KindsOf(policy) /\ Ends(r, o)}
  <2>1. MayEnd(d, r, policy) \subseteq d.outcomes
    BY DEF MayEnd, PolicyRows
  <2> QED BY <2>1, AdmissibleEnds
<1> DEFINE exit == EvaluatePolicy(d, r, policy, basis)
<1>2. exit.trigger # None <=> ~r.legacy /\ r.status = "evaluated" /\ MayEnd(d, r, policy) # {}
  BY ExitIsTheWinner
<1>3. exit.trigger # None =>
        \E o \in MayEnd(d, r, policy) : /\ exit.trigger = o.kind /\ exit.decided = o.decided
                                       /\ FirstDecided(policy, o, MayEnd(d, r, policy))
  BY ExitIsFirst
<1> HIDE DEF exit
<1> DEFINE ending == {o \in d.outcomes : o.kind \in KindsOf(policy) /\ Ends(r, o)}
<1>4. MayEnd(d, r, policy) = ending
  BY <1>1
<1> HIDE DEF ending
<1>5. /\ exit.trigger # None <=> ~r.legacy /\ r.status = "evaluated" /\ ending # {}
      /\ exit.trigger # None =>
            \E o \in ending : /\ exit.trigger = o.kind /\ exit.decided = o.decided /\ FirstDecided(policy, o, ending)
  BY <1>2, <1>3, <1>4
<1> QED BY <1>5, Zenon DEF exit, ending

(* Two datasets that agree on which outcomes may end a position and on when
   these were decided agree on the exit, whatever either has for prices: a
   policy that exits where there is no price is reported unpriced and is not
   moved to the next exit that has one. *)
THEOREM PricesDoNotChooseTheExit ==
    ASSUME NEW d, HasOutcomes(d), NEW e, HasOutcomes(e), NEW r, r.legacy \in BOOLEAN, NEW policy \in PolicyIds, NEW basis,
           {<<o.kind, o.decided>> : o \in MayEnd(d, r, policy)} = {<<o.kind, o.decided>> : o \in MayEnd(e, r, policy)}
    PROVE  LET one == EvaluatePolicy(d, r, policy, basis)
               other == EvaluatePolicy(e, r, policy, basis)
           IN one.trigger = other.trigger /\ (one.trigger # None => one.decided = other.decided)
<1> DEFINE one == EvaluatePolicy(d, r, policy, basis)
           other == EvaluatePolicy(e, r, policy, basis)
           S == MayEnd(d, r, policy)
           T == MayEnd(e, r, policy)
<1>1. /\ \A o \in S : \E x \in T : x.kind = o.kind /\ x.decided = o.decided
      /\ \A x \in T : \E o \in S : x.kind = o.kind /\ x.decided = o.decided
  <2>1. \A o \in S : <<o.kind, o.decided>> \in {<<x.kind, x.decided>> : x \in T}
    OBVIOUS
  <2>2. \A x \in T : <<x.kind, x.decided>> \in {<<o.kind, o.decided>> : o \in S}
    OBVIOUS
  <2> HIDE DEF S, T
  <2> QED BY <2>1, <2>2
<1>2. (one.trigger = None <=> other.trigger = None)
  <2>1. S = {} <=> T = {}
    BY <1>1
  <2> QED BY <2>1, ExitIsTheWinner
<1>3. ASSUME one.trigger # None PROVE one.trigger = other.trigger /\ one.decided = other.decided
  <2>1. PICK o \in S : one.trigger = o.kind /\ one.decided = o.decided /\ FirstDecided(policy, o, S)
    BY <1>3, ExitIsFirst
  <2>2. PICK x \in T : other.trigger = x.kind /\ other.decided = x.decided /\ FirstDecided(policy, x, T)
    BY <1>2, <1>3, ExitIsFirst
  <2>3. PICK y \in T : y.kind = o.kind /\ y.decided = o.decided
    BY <1>1
  <2>4. PICK p \in S : p.kind = x.kind /\ p.decided = x.decided
    BY <1>1
  <2>5. o.decided \in Int /\ x.decided \in Int /\ o.kind \in KindsOf(policy) /\ x.kind \in KindsOf(policy)
    BY AdmissibleOutcome
  <2>6. /\ o.decided < x.decided \/ (o.decided = x.decided /\ Priority(policy, o.kind) <= Priority(policy, x.kind))
        /\ x.decided < o.decided \/ (x.decided = o.decided /\ Priority(policy, x.kind) <= Priority(policy, o.kind))
    BY <2>1, <2>2, <2>3, <2>4 DEF FirstDecided
  <2>7. /\ Priority(policy, o.kind) \in Int /\ ExitPolicies[policy][Priority(policy, o.kind)] = o.kind
        /\ Priority(policy, x.kind) \in Int /\ ExitPolicies[policy][Priority(policy, x.kind)] = x.kind
    BY <2>5, PriorityIsAPlace
  <2>8. o.decided = x.decided /\ Priority(policy, o.kind) = Priority(policy, x.kind)
    BY <2>5, <2>6, <2>7
  <2> QED BY <2>1, <2>2, <2>7, <2>8
<1> QED BY <1>2, <1>3

(* A policy that adds an outcome to those of another, as the two that take a
   share of the credit add theirs to the thesis, holds no position longer. *)
THEOREM MoreOutcomesEndNoLater ==
    ASSUME NEW d, HasOutcomes(d), NEW r, r.legacy \in BOOLEAN, NEW narrow \in PolicyIds, NEW wide \in PolicyIds,
           KindsOf(narrow) \subseteq KindsOf(wide), NEW basis
    PROVE  LET few == EvaluatePolicy(d, r, narrow, basis)
               many == EvaluatePolicy(d, r, wide, basis)
           IN few.trigger # None => many.trigger # None /\ many.decided <= few.decided
<1> DEFINE few == EvaluatePolicy(d, r, narrow, basis)
           many == EvaluatePolicy(d, r, wide, basis)
           S == MayEnd(d, r, narrow)
           T == MayEnd(d, r, wide)
<1>1. S \subseteq T
  BY DEF MayEnd, PolicyRows, KindsOf
<1> SUFFICES ASSUME few.trigger # None PROVE many.trigger # None /\ many.decided <= few.decided
  OBVIOUS
<1>2. PICK o \in S : few.trigger = o.kind /\ few.decided = o.decided
  BY ExitIsFirst
<1>3. many.trigger # None
  BY <1>1, <1>2, ExitIsTheWinner
<1>4. PICK x \in T : many.decided = x.decided /\ FirstDecided(wide, x, T)
  BY <1>3, ExitIsFirst
<1>5. o \in T /\ o.decided \in Int /\ x.decided \in Int
  BY <1>1, <1>2, <1>4, AdmissibleOutcome
<1> QED BY <1>2, <1>3, <1>4, <1>5 DEF FirstDecided

(***************************************************************************)
(* How a short strike was challenged.                                      *)
(***************************************************************************)
\* Candles whose close lies within their range, and the moments at which a
\* strike was touched and was breached within a window.
IsPath(path) ==
    /\ IsFiniteSet(path)
    /\ \A c \in path : {c.at, c.low, c.high, c.close} \subseteq Int /\ c.low <= c.close /\ c.close <= c.high
TouchTimes(path, strike, direction, entry, ends) ==
    {c.at : c \in {x \in path : entry <= x.at /\ x.at <= ends /\ Touches(x, strike, direction)}}
BreachTimes(path, strike, direction, entry, ends) ==
    {c.at : c \in {x \in path : entry <= x.at /\ x.at <= ends /\ ClosesBeyond(x, strike, direction)}}

(* The first of some moments is the least of them, and there is one unless
   there are none. *)
LEMMA FirstIsLeast ==
    ASSUME NEW times, IsFiniteSet(times), times \in SUBSET Int, None \notin Int
    PROVE  /\ times = {} => FirstOf(times) = None
           /\ times # {} => FirstOf(times) \in times /\ FirstOf(times) # None /\ \A t \in times : FirstOf(times) <= t
<1>1. Defined(times) = times
  BY DEF Defined
<1>2. CASE times = {}
  BY <1>1, <1>2 DEF FirstOf
<1>3. CASE times # {}
  <2>1. PICK x \in times : \A y \in times : x <= y
    BY <1>3, IntegerMin
  <2>2. Min(times) = x
    BY <2>1, LeastIsMin
  <2> QED BY <1>1, <1>3, <2>1, <2>2 DEF FirstOf
<1> QED BY <1>2, <1>3

(* No value is not a number. *)
LEMMA NoNumber == None \notin Int
BY NoneAssumption

(* These moments are finitely many numbers. *)
LEMMA FirstTimes ==
    ASSUME NEW path, IsPath(path), NEW strike, NEW direction, NEW entry, NEW ends
    PROVE  /\ IsFiniteSet(TouchTimes(path, strike, direction, entry, ends))
           /\ TouchTimes(path, strike, direction, entry, ends) \in SUBSET Int
           /\ IsFiniteSet(BreachTimes(path, strike, direction, entry, ends))
           /\ BreachTimes(path, strike, direction, entry, ends) \in SUBSET Int
<1>1. ASSUME NEW U \in SUBSET path PROVE IsFiniteSet({c.at : c \in U}) /\ {c.at : c \in U} \in SUBSET Int
  <2> DEFINE at == [c \in U |-> c.at]
  <2>1. IsFiniteSet(U)
    BY FS_Subset DEF IsPath
  <2>2. at \in [U -> Int]
    BY DEF IsPath
  <2>3. IsFiniteSet({at[c] : c \in U})
    <3> HIDE DEF at
    <3> QED BY <2>1, <2>2, FiniteImage
  <2>4. {at[c] : c \in U} = {c.at : c \in U}
    OBVIOUS
  <2>5. {c.at : c \in U} \in SUBSET Int
    BY DEF IsPath
  <2> HIDE DEF at
  <2> QED BY <2>3, <2>4, <2>5
<1>2. /\ {x \in path : entry <= x.at /\ x.at <= ends /\ Touches(x, strike, direction)} \in SUBSET path
      /\ {x \in path : entry <= x.at /\ x.at <= ends /\ ClosesBeyond(x, strike, direction)} \in SUBSET path
  OBVIOUS
<1> QED BY <1>1, <1>2 DEF TouchTimes, BreachTimes

\* There is a strike, a direction, a window and a candle within it.
CouldBeChallenged(path, strike, direction, entry, ends) ==
    /\ strike # None /\ direction # None /\ entry # None /\ ends # None /\ path # {}
    /\ {c \in path : entry <= c.at /\ c.at <= ends} # {}

(* A challenge that is answered tells the first of these moments, and only an
   exit within the candle leaves it unanswered. *)
LEMMA ChallengeAnswer ==
    ASSUME NEW path, NEW strike, NEW direction, NEW entry, NEW ends, NEW invalidation, NEW exit,
           NEW c, c = ChallengeOf(path, strike, direction, entry, ends, invalidation, exit)
    PROVE  /\ c.firstTouch # None \/ c.firstBreach # None =>
                    /\ CouldBeChallenged(path, strike, direction, entry, ends)
                    /\ c.firstTouch = FirstOf(TouchTimes(path, strike, direction, entry, ends))
                    /\ c.firstBreach = FirstOf(BreachTimes(path, strike, direction, entry, ends))
           /\ CouldBeChallenged(path, strike, direction, entry, ends) =>
                    \/ c.reason = "ambiguous_with_exit"
                    \/ /\ c.firstTouch = FirstOf(TouchTimes(path, strike, direction, entry, ends))
                       /\ c.firstBreach = FirstOf(BreachTimes(path, strike, direction, entry, ends))
<1> DEFINE lived == {x \in path : entry <= x.at /\ x.at <= ends}
           touch == FirstOf({x.at : x \in {y \in lived : Touches(y, strike, direction)}})
           breach == FirstOf({x.at : x \in {y \in lived : ClosesBeyond(y, strike, direction)}})
           invalidated == invalidation # None /\ (invalidation # None => entry <= invalidation /\ invalidation <= ends)
           together == breach # None /\ invalidated /\ (invalidated => CandleOf(invalidation) = breach)
           touched == touch # None
           breached == breach # None
           breachFirst == IF breach = None \/ ~invalidated \/ together THEN None ELSE breach < invalidation
           unbreached == invalidated /\ breach = None
           Told == [touched |-> touched, breached |-> breached, firstTouch |-> touch, firstBreach |-> breach,
                    invalidated |-> invalidated, breachFirst |-> breachFirst,
                    ambiguousOrder |-> together, ambiguousExit |-> FALSE, unbreached |-> unbreached,
                    candles |-> Cardinality(lived), reason |-> None]
           withExit == exit # None /\ (exit # None => CandleOf(exit) \in {touch, breach})
           Silent == [NoChallenge("ambiguous_with_exit") EXCEPT !.invalidated = invalidated, !.ambiguousExit = TRUE]
<1>1. c = IF strike = None \/ direction = None THEN NoChallenge("no_short_strike_or_direction")
          ELSE IF entry = None \/ ends = None THEN NoChallenge("no_observation_window")
          ELSE IF path = {} THEN NoChallenge("no_underlying_path")
          ELSE IF lived = {} THEN NoChallenge("no_candle_in_window")
          ELSE IF withExit THEN Silent ELSE Told
  BY Zenon DEF ChallengeOf
<1>2. \A reason : NoChallenge(reason).firstTouch = None /\ NoChallenge(reason).firstBreach = None
  BY DEF NoChallenge
<1>3. Told.firstTouch = touch /\ Told.firstBreach = breach
  <2> HIDE DEF touch, breach, invalidated, together, touched, breached, breachFirst, unbreached
  <2> QED OBVIOUS
<1>4. Silent.firstTouch = None /\ Silent.firstBreach = None /\ Silent.reason = "ambiguous_with_exit"
  <2> HIDE DEF invalidated
  <2> QED BY DEF NoChallenge
<1>5. /\ touch = FirstOf(TouchTimes(path, strike, direction, entry, ends))
      /\ breach = FirstOf(BreachTimes(path, strike, direction, entry, ends))
  <2>1. /\ {y \in lived : Touches(y, strike, direction)} =
              {x \in path : entry <= x.at /\ x.at <= ends /\ Touches(x, strike, direction)}
        /\ {y \in lived : ClosesBeyond(y, strike, direction)} =
              {x \in path : entry <= x.at /\ x.at <= ends /\ ClosesBeyond(x, strike, direction)}
    OBVIOUS
  <2> QED BY <2>1 DEF TouchTimes, BreachTimes
<1>6. CouldBeChallenged(path, strike, direction, entry, ends)
        <=> /\ strike # None /\ direction # None /\ entry # None /\ ends # None /\ path # {}
            /\ lived # {}
  BY DEF CouldBeChallenged
<1> HIDE DEF lived, touch, breach, Told, Silent
<1>7. c.firstTouch # None \/ c.firstBreach # None =>
        CouldBeChallenged(path, strike, direction, entry, ends) /\ c.firstTouch = touch /\ c.firstBreach = breach
  BY <1>1, <1>2, <1>3, <1>4, <1>6
<1>8. CouldBeChallenged(path, strike, direction, entry, ends) =>
        \/ c.reason = "ambiguous_with_exit"
        \/ c.firstTouch = touch /\ c.firstBreach = breach
  BY <1>1, <1>3, <1>4, <1>6
<1> QED BY <1>5, <1>7, <1>8

(* A strike that was breached was touched, and not later: the three buckets of
   the conditional tables, breached, touched and never touched, are disjoint
   and in order. *)
THEOREM BreachIsATouch ==
    ASSUME NEW path, IsPath(path), NEW strike \in Int, NEW direction \in {"long", "short"}, NEW entry, NEW ends,
           NEW invalidation, NEW exit,
           NEW c, c = ChallengeOf(path, strike, direction, entry, ends, invalidation, exit), c.firstBreach # None
    PROVE  c.firstTouch # None /\ c.firstTouch <= c.firstBreach
<1> DEFINE touches == TouchTimes(path, strike, direction, entry, ends)
           breaches == BreachTimes(path, strike, direction, entry, ends)
<1>1. c.firstTouch = FirstOf(touches) /\ c.firstBreach = FirstOf(breaches)
  BY ChallengeAnswer
<1>2. breaches \subseteq touches
  <2>1. \A x \in path : ClosesBeyond(x, strike, direction) => Touches(x, strike, direction)
    BY DEF ClosesBeyond, Touches, IsPath
  <2> QED BY <2>1 DEF TouchTimes, BreachTimes
<1>3. IsFiniteSet(touches) /\ touches \in SUBSET Int /\ IsFiniteSet(breaches) /\ breaches \in SUBSET Int
  BY FirstTimes
<1> HIDE DEF touches, breaches
<1>4. breaches # {}
  BY <1>1, <1>3, FirstIsLeast, NoNumber
<1>5. FirstOf(breaches) \in breaches
  BY <1>3, <1>4, FirstIsLeast, NoNumber
<1>6. FirstOf(touches) # None /\ \A t \in touches : FirstOf(touches) <= t
  BY <1>2, <1>3, <1>5, FirstIsLeast, NoNumber
<1> QED BY <1>1, <1>2, <1>5, <1>6

(* Over the same path and window a strike further out is touched and breached
   no earlier, unless the nearer one's answer is withheld because it shares its
   candle with the exit: what the buffered placement is compared for. *)
THEOREM FurtherStrikeIsChallengedLater ==
    ASSUME NEW path, IsPath(path), NEW direction \in {"long", "short"}, NEW near \in Int, NEW far \in Int,
           IF direction = "long" THEN far <= near ELSE near <= far, NEW entry, NEW ends, NEW invalidation, NEW exit,
           NEW c, c = ChallengeOf(path, near, direction, entry, ends, invalidation, exit),
           NEW d, d = ChallengeOf(path, far, direction, entry, ends, invalidation, exit)
    PROVE  /\ d.firstTouch # None =>
                 c.reason = "ambiguous_with_exit" \/ (c.firstTouch # None /\ c.firstTouch <= d.firstTouch)
           /\ d.firstBreach # None =>
                 c.reason = "ambiguous_with_exit" \/ (c.firstBreach # None /\ c.firstBreach <= d.firstBreach)
<1> DEFINE Touched(strike) == TouchTimes(path, strike, direction, entry, ends)
           Breached(strike) == BreachTimes(path, strike, direction, entry, ends)
<1>1. near # None /\ far # None
  BY NoNumber
<1>3. Touched(far) \subseteq Touched(near) /\ Breached(far) \subseteq Breached(near)
  <2>1. \A x \in path : /\ Touches(x, far, direction) => Touches(x, near, direction)
                        /\ ClosesBeyond(x, far, direction) => ClosesBeyond(x, near, direction)
    BY DEF ClosesBeyond, Touches, IsPath
  <2> QED BY <2>1 DEF TouchTimes, BreachTimes
<1>4. \A s \in {near, far} : /\ IsFiniteSet(Touched(s)) /\ Touched(s) \in SUBSET Int
                             /\ IsFiniteSet(Breached(s)) /\ Breached(s) \in SUBSET Int
  BY FirstTimes
<1>5. ASSUME d.firstTouch # None \/ d.firstBreach # None
      PROVE  /\ d.firstTouch = FirstOf(Touched(far)) /\ d.firstBreach = FirstOf(Breached(far))
             /\ \/ c.reason = "ambiguous_with_exit"
                \/ c.firstTouch = FirstOf(Touched(near)) /\ c.firstBreach = FirstOf(Breached(near))
  <2>1. /\ CouldBeChallenged(path, far, direction, entry, ends)
        /\ d.firstTouch = FirstOf(Touched(far)) /\ d.firstBreach = FirstOf(Breached(far))
    BY <1>5, ChallengeAnswer
  <2>2. CouldBeChallenged(path, near, direction, entry, ends)
    BY <1>1, <2>1 DEF CouldBeChallenged
  <2> QED BY <2>1, <2>2, ChallengeAnswer
<1> HIDE DEF Touched, Breached
<1>6. ASSUME NEW S, NEW U, IsFiniteSet(S), S \in SUBSET Int, IsFiniteSet(U), U \in SUBSET Int, S \subseteq U,
             FirstOf(S) # None
      PROVE  FirstOf(U) # None /\ FirstOf(U) <= FirstOf(S)
  <2>1. S # {}
    BY <1>6, FirstIsLeast, NoNumber
  <2>2. FirstOf(S) \in S
    BY <2>1, <1>6, FirstIsLeast, NoNumber
  <2>3. FirstOf(U) # None /\ \A t \in U : FirstOf(U) <= t
    BY <2>2, <1>6, FirstIsLeast, NoNumber
  <2> QED BY <2>2, <2>3, <1>6
<1>7. FirstOf(Touched(far)) # None => FirstOf(Touched(near)) # None /\ FirstOf(Touched(near)) <= FirstOf(Touched(far))
  BY <1>3, <1>4, <1>6
<1>8. FirstOf(Breached(far)) # None => FirstOf(Breached(near)) # None /\ FirstOf(Breached(near)) <= FirstOf(Breached(far))
  BY <1>3, <1>4, <1>6
<1> QED BY <1>5, <1>7, <1>8

(***************************************************************************)
(* Which placements are compared.                                          *)
(***************************************************************************)
(* A set of one has one member. *)
LEMMA OnlyMember ==
    ASSUME NEW S, IsFiniteSet(S), Cardinality(S) = 1
    PROVE  \E x : S = {x}
<1>1. S # {}
  BY FS_EmptySet
<1>2. PICK x \in S : TRUE
  BY <1>1
<1>3. IsFiniteSet(S \ {x}) /\ Cardinality(S \ {x}) = Cardinality(S) - 1
  BY <1>2, FS_RemoveElement
<1>4. S \ {x} = {}
  BY <1>3, FS_EmptySet
<1> QED BY <1>2, <1>4

\* The structures of one key, and what the pairing makes of them.
GroupOf(structures, s) == {x \in structures : x.key = s.key}
IsTwofold(g) == Cardinality(OfMethod(g, "technical")) = 1 /\ Cardinality(OfMethod(g, "buffered")) = 1
MemberOf(g, method) == CHOOSE s \in g : s.method = method
Matching(g) ==
    LET t == MemberOf(g, "technical")
    IN (t.geometry.fromExtreme = None \/ BufferEligible(t)) /\ OneStepOut(t, MemberOf(g, "buffered"))
WhyUnpaired(g) ==
    IF IsTwofold(g)
    THEN IF MemberOf(g, "technical").geometry.fromExtreme = None \/ BufferEligible(MemberOf(g, "technical"))
         THEN "not_one_step_out" ELSE "not_buffer_eligible"
    ELSE IF OfMethod(g, "technical") = {} THEN "no_technical"
    ELSE IF OfMethod(g, "buffered") = {} THEN "no_buffered" ELSE "ambiguous_pairing"
LeftOf(g) == IF IsTwofold(g) THEN {MemberOf(g, "technical"), MemberOf(g, "buffered")} ELSE g

(* A group of one technical and one buffered structure has these and no
   others of either method. *)
LEMMA TwofoldMembers ==
    ASSUME NEW g, IsFiniteSet(g), IsTwofold(g)
    PROVE  /\ MemberOf(g, "technical") \in g /\ MemberOf(g, "buffered") \in g
           /\ MemberOf(g, "technical").method = "technical" /\ MemberOf(g, "buffered").method = "buffered"
           /\ \A s \in g : s.method = "technical" => s = MemberOf(g, "technical")
           /\ \A s \in g : s.method = "buffered" => s = MemberOf(g, "buffered")
<1>1. ASSUME NEW method, Cardinality(OfMethod(g, method)) = 1
      PROVE  /\ MemberOf(g, method) \in g /\ MemberOf(g, method).method = method
             /\ \A s \in g : s.method = method => s = MemberOf(g, method)
  <2>1. IsFiniteSet(OfMethod(g, method))
    BY FS_Subset DEF OfMethod
  <2>2. PICK x : OfMethod(g, method) = {x}
    BY <1>1, <2>1, OnlyMember
  <2>3. x \in g /\ x.method = method /\ \A s \in g : s.method = method => s = x
    BY <2>2 DEF OfMethod
  <2> QED BY <2>3 DEF MemberOf
<1> QED BY <1>1 DEF IsTwofold

(* A pair keeps the two structures it was made of. *)
LEMMA PairHasItsSides ==
    ASSUME NEW t, NEW b
    PROVE  PairOf(t, b).technical = t /\ PairOf(t, b).buffered = b
<1> DEFINE comparable == t.status = "evaluated" /\ b.status = "evaluated"
           Gain(x, y) == IF comparable THEN Difference(x, y) ELSE None
           sacrificed == Gain(t.gross, b.gross)
           net == Gain(t.net, b.net)
           further == Difference(b.geometry.fromSpot, t.geometry.fromSpot)
           relative == PerMille(sacrificed, IF t.gross = None THEN None ELSE Abs(t.gross))
           adverse == Gain(b.adverse.worst, t.adverse.worst)
           mae == Gain(b.adverse.before, t.adverse.before)
           realized == Difference(b.realized, t.realized)
<1>1. PairOf(t, b) =
        [event |-> t.event, technical |-> t, buffered |-> b, comparable |-> comparable, further |-> further,
         grossSacrificed |-> sacrificed, netSacrificed |-> net, relativeSacrifice |-> relative,
         adverseReduction |-> adverse, maeReduction |-> mae, realizedDelta |-> realized]
  BY Zenon DEF PairOf
<1> HIDE DEF comparable, sacrificed, net, further, relative, adverse, mae, realized
<1> QED BY <1>1

(* The pairing is made group by group. *)
LEMMA PlacementsByGroup ==
    ASSUME NEW structures
    PROVE  LET matched == MatchPlacements(structures)
               groups == {GroupOf(structures, s) : s \in structures}
           IN /\ matched.pairs = {PairOf(MemberOf(g, "technical"), MemberOf(g, "buffered")) :
                                     g \in {x \in groups : IsTwofold(x) /\ Matching(x)}}
              /\ matched.unpaired = UNION {{[structure |-> s, reason |-> WhyUnpaired(g)] : s \in LeftOf(g)} :
                                              g \in {x \in groups : IsTwofold(x) => ~Matching(x)}}
<1> DEFINE groups == {GroupOf(structures, s) : s \in structures}
           twofold == {g \in groups : IsTwofold(g)}
           Reason(g) ==
            IF g \in twofold
            THEN IF MemberOf(g, "technical").geometry.fromExtreme = None \/ BufferEligible(MemberOf(g, "technical"))
                 THEN "not_one_step_out" ELSE "not_buffer_eligible"
            ELSE IF OfMethod(g, "technical") = {} THEN "no_technical"
            ELSE IF OfMethod(g, "buffered") = {} THEN "no_buffered" ELSE "ambiguous_pairing"
           Left(g) == IF g \in twofold THEN {MemberOf(g, "technical"), MemberOf(g, "buffered")} ELSE g
           pairs == {PairOf(MemberOf(g, "technical"), MemberOf(g, "buffered")) : g \in {x \in twofold : Matching(x)}}
           unpaired == UNION {{[structure |-> s, reason |-> Reason(g)] : s \in Left(g)} :
                               g \in {x \in groups : x \in twofold => ~Matching(x)}}
<1>1. MatchPlacements(structures) = [pairs |-> pairs, unpaired |-> unpaired]
  BY Zenon DEF MatchPlacements, GroupOf, IsTwofold, MemberOf, Matching
<1>2. MatchPlacements(structures).pairs = pairs /\ MatchPlacements(structures).unpaired = unpaired
  <2> HIDE DEF pairs, unpaired
  <2> QED BY <1>1
<1>3. pairs = {PairOf(MemberOf(g, "technical"), MemberOf(g, "buffered")) :
                  g \in {x \in groups : IsTwofold(x) /\ Matching(x)}}
  <2>1. {x \in twofold : Matching(x)} = {x \in groups : IsTwofold(x) /\ Matching(x)}
    OBVIOUS
  <2> QED BY <2>1
<1>4. \A g \in groups : Reason(g) = WhyUnpaired(g) /\ Left(g) = LeftOf(g)
  <2> HIDE DEF groups
  <2> QED BY DEF WhyUnpaired, LeftOf
<1>5. {x \in groups : x \in twofold => ~Matching(x)} = {x \in groups : IsTwofold(x) => ~Matching(x)}
  OBVIOUS
<1> HIDE DEF groups, twofold, Reason, Left
<1>6. unpaired = UNION {{[structure |-> s, reason |-> WhyUnpaired(g)] : s \in LeftOf(g)} :
                           g \in {x \in groups : IsTwofold(x) => ~Matching(x)}}
  BY <1>4, <1>5
<1> HIDE DEF pairs, unpaired
<1> QED BY <1>2, <1>3, <1>6 DEF groups
(* Every pair is a technical and a buffered structure of one key, exactly a
   step apart in both legs; a key has at most one pair; and every structure of
   either method is in a pair or listed with one reason why not, never in both:
   the pairing of buildShortStrikeReport loses no structure and counts none twice. *)
THEOREM PlacementsArePartitioned ==
    ASSUME NEW structures, IsFiniteSet(structures)
    PROVE  LET matched == MatchPlacements(structures)
               InPair(s) == \E p \in matched.pairs : s \in {p.technical, p.buffered}
               InList(s) == \E u \in matched.unpaired : u.structure = s
           IN /\ \A p \in matched.pairs :
                    /\ p.technical \in structures /\ p.technical.method = "technical"
                    /\ p.buffered \in structures /\ p.buffered.method = "buffered"
                    /\ p.technical.key = p.buffered.key /\ OneStepOut(p.technical, p.buffered)
              /\ \A p, q \in matched.pairs : p.technical.key = q.technical.key => p = q
              /\ \A s \in structures : ~(InPair(s) /\ InList(s))
              /\ \A s \in structures : s.method \in {"technical", "buffered"} => InPair(s) \/ InList(s)
              /\ \A u \in matched.unpaired : u.structure \in structures
              /\ \A u, v \in matched.unpaired : u.structure = v.structure => u.reason = v.reason
<1> DEFINE groups == {GroupOf(structures, s) : s \in structures}
           pairs == MatchPlacements(structures).pairs
           unpaired == MatchPlacements(structures).unpaired
           T(g) == MemberOf(g, "technical")
           B(g) == MemberOf(g, "buffered")
           InPair(s) == \E p \in pairs : s \in {p.technical, p.buffered}
           InList(s) == \E u \in unpaired : u.structure = s
<1>1. /\ pairs = {PairOf(T(g), B(g)) : g \in {x \in groups : IsTwofold(x) /\ Matching(x)}}
      /\ unpaired = UNION {{[structure |-> s, reason |-> WhyUnpaired(g)] : s \in LeftOf(g)} :
                              g \in {x \in groups : IsTwofold(x) => ~Matching(x)}}
  BY PlacementsByGroup
<1> HIDE DEF pairs, unpaired
<1>2. \A g \in groups : IsFiniteSet(g) /\ g \subseteq structures
  <2>1. ASSUME NEW s \in structures PROVE IsFiniteSet(GroupOf(structures, s)) /\ GroupOf(structures, s) \subseteq structures
    <3>1. GroupOf(structures, s) \subseteq structures
      BY DEF GroupOf
    <3> QED BY <3>1, FS_Subset
  <2> QED BY <2>1
<1>3. \A g \in groups, s \in structures : s \in g => g = GroupOf(structures, s)
  BY DEF GroupOf
<1>4. \A s \in structures : GroupOf(structures, s) \in groups /\ s \in GroupOf(structures, s)
  BY DEF GroupOf
<1>5. \A s, t \in structures : s.key = t.key => GroupOf(structures, s) = GroupOf(structures, t)
  BY DEF GroupOf
<1>6. \A g \in groups : \A s, t \in g : s.key = t.key
  BY DEF GroupOf
<1> HIDE DEF groups
<1>7. \A g \in groups : IsTwofold(g) =>
        /\ T(g) \in g /\ B(g) \in g /\ T(g).method = "technical" /\ B(g).method = "buffered"
        /\ \A s \in g : s.method = "technical" => s = T(g)
        /\ \A s \in g : s.method = "buffered" => s = B(g)
  BY <1>2, TwofoldMembers
<1> HIDE DEF T, B
<1>8. \A p \in pairs : \E g \in groups :
        IsTwofold(g) /\ Matching(g) /\ p = PairOf(T(g), B(g)) /\ p.technical = T(g) /\ p.buffered = B(g)
  BY <1>1, PairHasItsSides
<1>9. \A g \in groups : IsTwofold(g) /\ Matching(g) =>
        PairOf(T(g), B(g)) \in pairs /\ PairOf(T(g), B(g)).technical = T(g) /\ PairOf(T(g), B(g)).buffered = B(g)
  BY <1>1, PairHasItsSides
<1>10. ASSUME NEW u \in unpaired
       PROVE \E g \in groups : (IsTwofold(g) => ~Matching(g)) /\ u.structure \in LeftOf(g) /\ u.reason = WhyUnpaired(g)
  <2>1. PICK g \in groups : /\ IsTwofold(g) => ~Matching(g)
                            /\ \E s \in LeftOf(g) : u = [structure |-> s, reason |-> WhyUnpaired(g)]
    BY <1>1
  <2> QED BY <2>1
<1>11. ASSUME NEW g \in groups, IsTwofold(g) => ~Matching(g), NEW s \in LeftOf(g)
       PROVE  InList(s)
  <2>1. [structure |-> s, reason |-> WhyUnpaired(g)] \in unpaired
    BY <1>1, <1>11
  <2> QED BY <2>1
<1>12. \A g \in groups : LeftOf(g) \subseteq g
  BY <1>7 DEF LeftOf, T, B
<1>13. \A p \in pairs : /\ p.technical \in structures /\ p.technical.method = "technical"
                        /\ p.buffered \in structures /\ p.buffered.method = "buffered"
                        /\ p.technical.key = p.buffered.key /\ OneStepOut(p.technical, p.buffered)
  <2> SUFFICES ASSUME NEW p \in pairs
      PROVE  /\ p.technical \in structures /\ p.technical.method = "technical"
             /\ p.buffered \in structures /\ p.buffered.method = "buffered"
             /\ p.technical.key = p.buffered.key /\ OneStepOut(p.technical, p.buffered)
    OBVIOUS
  <2>1. PICK g \in groups : IsTwofold(g) /\ Matching(g) /\ p.technical = T(g) /\ p.buffered = B(g)
    BY <1>8
  <2>2. OneStepOut(T(g), B(g))
    BY <2>1 DEF Matching, T, B
  <2> QED BY <2>1, <2>2, <1>2, <1>6, <1>7
<1>14. ASSUME NEW p \in pairs, NEW q \in pairs, p.technical.key = q.technical.key PROVE p = q
  <2>1. PICK g \in groups : IsTwofold(g) /\ p = PairOf(T(g), B(g)) /\ p.technical = T(g)
    BY <1>8
  <2>2. PICK h \in groups : IsTwofold(h) /\ q = PairOf(T(h), B(h)) /\ q.technical = T(h)
    BY <1>8
  <2>3. T(g) \in structures /\ T(h) \in structures /\ T(g) \in g /\ T(h) \in h
    BY <1>2, <1>7, <2>1, <2>2
  <2>4. g = h
    BY <2>1, <2>2, <2>3, <1>3, <1>5, <1>14
  <2> QED BY <2>1, <2>2, <2>4
<1>15. ASSUME NEW s \in structures, InPair(s), InList(s) PROVE FALSE
  <2>1. PICK g \in groups : IsTwofold(g) /\ Matching(g) /\ s \in {T(g), B(g)}
    BY <1>8, <1>15
  <2>2. PICK h \in groups : (IsTwofold(h) => ~Matching(h)) /\ s \in LeftOf(h)
    BY <1>10, <1>15
  <2>3. g = h
    BY <2>1, <2>2, <1>3, <1>7, <1>12
  <2> QED BY <2>1, <2>2, <2>3
<1>16. ASSUME NEW s \in structures, s.method \in {"technical", "buffered"} PROVE InPair(s) \/ InList(s)
  <2> DEFINE g == GroupOf(structures, s)
  <2>1. g \in groups /\ s \in g
    BY <1>4
  <2> HIDE DEF g
  <2>2. CASE IsTwofold(g) /\ Matching(g)
    <3>1. s \in {T(g), B(g)}
      BY <1>7, <1>16, <2>1, <2>2
    <3> QED BY <1>9, <2>1, <2>2, <3>1
  <2>3. CASE ~(IsTwofold(g) /\ Matching(g))
    <3>1. s \in LeftOf(g)
      BY <1>7, <1>16, <2>1 DEF LeftOf, T, B
    <3> QED BY <1>11, <2>1, <2>3, <3>1
  <2> QED BY <2>2, <2>3
<1>17. \A u \in unpaired : u.structure \in structures
  BY <1>2, <1>10, <1>12
<1>18. ASSUME NEW u \in unpaired, NEW v \in unpaired, u.structure = v.structure PROVE u.reason = v.reason
  <2>1. PICK g \in groups : u.structure \in LeftOf(g) /\ u.reason = WhyUnpaired(g)
    BY <1>10
  <2>2. PICK h \in groups : v.structure \in LeftOf(h) /\ v.reason = WhyUnpaired(h)
    BY <1>10
  <2>3. g = h
    BY <2>1, <2>2, <1>3, <1>12, <1>17, <1>18
  <2> QED BY <2>1, <2>2, <2>3
<1> QED BY <1>13, <1>14, <1>15, <1>16, <1>17, <1>18, Zenon DEF pairs, unpaired

(***************************************************************************)
(* The perpetual baseline.                                                 *)
(***************************************************************************)
\* Bars one to a moment, and two series that agree up to one.
HasBars(points) ==
    /\ None \notin points /\ IsFiniteSet(points)
    /\ \A p \in points : p.at \in Int
    /\ \A p, q \in points : p.at = q.at => p = q
AgreeUntil(points, others, time) == {p \in points : p.at <= time} = {p \in others : p.at <= time}

(* Of some bars there is a first. *)
LEMMA FirstBarExists ==
    ASSUME NEW S, IsFiniteSet(S), S # {}, \A x \in S : x.at \in Int
    PROVE  /\ FirstBy(S, LAMBDA p : <<p.at>>) \in S
           /\ \A y \in S : FirstBy(S, LAMBDA p : <<p.at>>).at <= y.at
<1> DEFINE R == {p \in S \X S : p[1].at <= p[2].at}
<1>1. \A x, y \in S : <<x, y>> \in R <=> x.at <= y.at
  OBVIOUS
<1>2. \A x, y \in S : <<x, y>> \in R \/ <<y, x>> \in R
  OBVIOUS
<1>3. \A x, y, z \in S : <<x, y>> \in R /\ <<y, z>> \in R => <<x, z>> \in R
  OBVIOUS
<1> HIDE DEF R
<1>4. PICK first \in S : \A y \in S : <<first, y>> \in R
  BY <1>2, <1>3, LeastExists
<1>5. \A x, y \in S : ~Lower(<<y.at>>, <<x.at>>) <=> x.at <= y.at
  <2>1. ASSUME NEW a \in Int, NEW b \in Int PROVE ~Lower(<<b>>, <<a>>) <=> a <= b
    <3> DEFINE one == <<a>>
               other == <<b>>
    <3>1. DOMAIN other = 1..1 /\ one[1] = a /\ other[1] = b
      OBVIOUS
    <3> HIDE DEF one, other
    <3>2. Lower(other, one) <=> b < a
      BY <3>1 DEF Lower
    <3>3. ~Lower(other, one) <=> a <= b
      BY <3>2
    <3> QED BY <3>3 DEF one, other
  <2> QED BY <2>1
<1>6. \E x \in S : \A y \in S : ~Lower(<<y.at>>, <<x.at>>)
  BY <1>1, <1>4, <1>5
<1> DEFINE x == CHOOSE x \in S : \A y \in S : ~Lower(<<y.at>>, <<x.at>>)
<1>7. x \in S /\ \A y \in S : ~Lower(<<y.at>>, <<x.at>>)
  BY <1>6
<1>8. FirstBy(S, LAMBDA p : <<p.at>>) = x
  BY DEF FirstBy
<1> HIDE DEF x
<1>9. x \in S /\ \A y \in S : x.at <= y.at
  BY <1>5, <1>7
<1> QED BY <1>8, <1>9

(* A decision is filled at the first bar at or after it and within one interval
   of it; without a fill there is no bar at or after it, or the first one came
   too late.  observeAtOrAfter never carries an earlier bar forward. *)
THEOREM FillIsTheFirstInTime ==
    ASSUME NEW points, HasBars(points), NEW decision, NEW interval
    PROVE  LET fill == ObserveAtOrAfter(points, decision, interval)
           IN /\ fill # None => /\ fill \in points /\ fill.at >= decision /\ ~(fill.at - decision >= interval)
                                /\ \A p \in points : p.at >= decision => fill.at <= p.at
              /\ fill = None =>
                    \/ \A p \in points : ~(p.at >= decision)
                    \/ \E p \in points : /\ p.at >= decision /\ p.at - decision >= interval
                                         /\ \A q \in points : q.at >= decision => p.at <= q.at
<1> DEFINE after == {p \in points : p.at >= decision}
           first == FirstBy(after, LAMBDA p : <<p.at>>)
           fill == ObserveAtOrAfter(points, decision, interval)
<1>1. fill = IF after = {} THEN None ELSE IF first.at - decision >= interval THEN None ELSE first
  BY DEF ObserveAtOrAfter
<1>2. IsFiniteSet(after) /\ \A x \in after : x.at \in Int
  BY FS_Subset DEF HasBars
<1>3. after # {} => first \in after /\ \A y \in after : first.at <= y.at
  <2> HIDE DEF after
  <2> QED BY <1>2, FirstBarExists
<1> HIDE DEF fill, first
<1>4. after # {} => first # None
  BY <1>3 DEF HasBars
<1> QED BY <1>1, <1>3, <1>4 DEF fill

(* A fill does not change with bars later than it. *)
LEMMA FillIsSettledByItsTime ==
    ASSUME NEW points, HasBars(points), NEW others, HasBars(others), NEW decision, NEW interval, NEW time \in Int,
           AgreeUntil(points, others, time),
           NEW fill, fill = ObserveAtOrAfter(points, decision, interval), fill # None, fill.at <= time
    PROVE  ObserveAtOrAfter(others, decision, interval) = fill
<1> DEFINE after == {p \in others : p.at >= decision}
           first == FirstBy(after, LAMBDA p : <<p.at>>)
<1>1. /\ fill \in points /\ fill.at >= decision /\ ~(fill.at - decision >= interval)
      /\ \A p \in points : p.at >= decision => fill.at <= p.at
  BY FillIsTheFirstInTime
<1>2. fill \in after
  BY <1>1 DEF AgreeUntil
<1>3. IsFiniteSet(after) /\ \A x \in after : x.at \in Int
  BY FS_Subset DEF HasBars
<1>4. first \in after /\ \A y \in after : first.at <= y.at
  <2> HIDE DEF after
  <2> QED BY <1>2, <1>3, FirstBarExists
<1> HIDE DEF first
<1>5. first.at <= fill.at /\ fill.at \in Int /\ first.at \in Int
  BY <1>2, <1>3, <1>4
<1>6. first \in points /\ first.at >= decision
  BY <1>4, <1>5 DEF AgreeUntil
<1>7. first = fill
  BY <1>1, <1>5, <1>6 DEF HasBars
<1>8. after # {}
  BY <1>2
<1> QED BY <1>1, <1>7, <1>8 DEF ObserveAtOrAfter, first

\* The bars a baseline reads, its fills, and what they come to.
BarsOf(market) == {p \in market.points : p.close > 0}
EntryFill(event, market) == ObserveAtOrAfter(BarsOf(market), event.at + event.latency, market.interval)
ExitFill(event, candles, market, policy) ==
    Endpoint(ResolveEventTiming(event, candles), event, event.at + event.latency, BarsOf(market),
             EntryFill(event, market), market.interval, policy).point
GrossOf(event, entry, exit) ==
    IF exit = None THEN None ELSE (IF event.direction = "long" THEN 1 ELSE -1) * (FillPrice(exit) - FillPrice(entry))
FeesOf(fee, entry, exit) == IF exit = None \/ fee = None THEN None ELSE (FillPrice(entry) + FillPrice(exit)) * fee
NetOf(gross, fees) == IF gross = None \/ fees = None THEN None ELSE 100 * gross - fees

(* The baseline is there whenever the event has a time and a direction and its
   order a fill, and its money is that of its two fills. *)
LEMMA BaselineIsFromItsFills ==
    ASSUME NEW event, NEW candles, NEW market, market.interval # None, NEW policy \in FuturesPolicies,
           NEW b, b = BuildEventFuturesBaseline(event, candles, market, policy)
    PROVE  /\ b.status = "available" <=>
                  /\ event.at # None /\ BarsOf(market) # {} /\ event.direction # None /\ EntryFill(event, market) # None
           /\ b.status = "available" =>
                  /\ b.entry = EntryFill(event, market) /\ b.exit = ExitFill(event, candles, market, policy)
                  /\ b.gross = GrossOf(event, b.entry, b.exit) /\ b.fees = FeesOf(market.fee, b.entry, b.exit)
                  /\ b.before = NetOf(b.gross, b.fees)
<1> DEFINE timing == ResolveEventTiming(event, candles)
           order == event.at + event.latency
           points == {p \in market.points : p.close > 0}
           interval == IF market.interval = None THEN SmallestGap({p.at : p \in points}) ELSE market.interval
           sign == IF event.direction = "long" THEN 1 ELSE -1
           entry == ObserveAtOrAfter(points, order, interval)
           ends == [p \in FuturesPolicies |-> Endpoint(timing, event, order, points, entry, interval, p)]
           exit == ends[policy].point
           bought == FillPrice(entry)
           sold == FillPrice(exit)
           gross == IF exit = None THEN None ELSE sign * (sold - bought)
           fees == IF exit = None \/ market.fee = None THEN None ELSE (bought + sold) * market.fee
           before == IF gross = None \/ fees = None THEN None ELSE 100 * gross - fees
           funding == Funding([market EXCEPT !.points = points], sign, entry, exit)
           terminus == IF exit # None THEN exit.at ELSE Max({p.at : p \in points})
           risk == IF event.invalidation = None THEN None ELSE Abs(bought - event.invalidation)
           traded == {t \in market.trades : /\ t.at >= order
                                            /\ t.dir = (IF event.direction = "long" THEN "buy" ELSE "sell")}
           budget == IF \A x \in event.losses : x <= 0 THEN None ELSE Max(event.losses)
           after == IF before = None \/ funding.status # "available" THEN None ELSE before + funding.paid
           observed == IF traded = {} THEN None ELSE FirstBy(traded, LAMBDA t : <<t.at>>).at
           ordering == IF timing.sequence = "ambiguous" THEN "ambiguous" ELSE "ordered"
           quantity == EqualRiskFuturesQuantity(budget, risk)
           path == [t \in {p.at : p \in {x \in points : entry.at <= x.at /\ x.at <= terminus}} |->
                      sign * (FillPrice(CHOOSE p \in points : p.at = t) - bought)]
           Told == [status |-> "available", entry |-> entry, bought |-> bought, ends |-> ends,
                    exit |-> exit, gross |-> gross, fees |-> fees, before |-> before, funding |-> funding,
                    after |-> after, observed |-> observed, ordering |-> ordering, quantity |-> quantity, path |-> path]
<1>1. b = CASE event.at = None -> NoBaseline("futures_entry_observation_unavailable")
            [] event.at # None /\ points = {} -> NoBaseline("futures_reference_series_unavailable")
            [] event.at # None /\ points # {} /\ event.direction = None -> NoBaseline("futures_direction_unavailable")
            [] event.at # None /\ points # {} /\ event.direction # None ->
                   IF entry = None THEN NoBaseline("futures_entry_observation_unavailable") ELSE Told
  BY Zenon DEF BuildEventFuturesBaseline
<1>2. /\ Told.status = "available" /\ Told.entry = entry /\ Told.bought = bought /\ Told.exit = exit
      /\ Told.gross = gross /\ Told.fees = fees /\ Told.before = before
  <2> HIDE DEF entry, bought, ends, exit, gross, fees, before, funding, after, observed, ordering, quantity, path
  <2> QED OBVIOUS
<1>3. \A reason : NoBaseline(reason).status = "unavailable"
  BY DEF NoBaseline
<1>4. interval = market.interval
  OBVIOUS
<1>5. exit = Endpoint(timing, event, order, points, entry, interval, policy).point
  <2> HIDE DEF timing, order, points, entry, interval
  <2> QED OBVIOUS
<1> HIDE DEF Told, points, entry, exit, timing, order, interval
<1>6. b.status = "available" <=> event.at # None /\ points # {} /\ event.direction # None /\ entry # None
  BY <1>1, <1>2, <1>3
<1>7. b.status = "available" => b = Told
  BY <1>1, <1>3, <1>6
<1> HIDE DEF gross, fees, before, bought, sold
<1>8. b.status = "available" =>
         /\ b.entry = entry /\ b.bought = bought /\ b.exit = exit
         /\ b.gross = gross /\ b.fees = fees /\ b.before = before
  BY <1>2, <1>7
<1>9. /\ points = BarsOf(market) /\ entry = EntryFill(event, market)
      /\ exit = ExitFill(event, candles, market, policy)
  BY <1>4, <1>5, Zenon DEF points, entry, timing, order, BarsOf, EntryFill, ExitFill
<1>10. /\ gross = GrossOf(event, entry, exit) /\ fees = FeesOf(market.fee, entry, exit)
       /\ before = NetOf(gross, fees)
  BY DEF gross, fees, before, bought, sold, GrossOf, FeesOf, NetOf
<1> QED BY <1>6, <1>8, <1>9, <1>10
(* Bars after the exit of a perpetual baseline, of a market whose interval was
   recorded, change neither its fills nor its gross, fees or net: the baseline
   an event is compared with does not depend on how long after the event the
   market was downloaded. *)
THEOREM LaterBarsLeaveTheBaseline ==
    ASSUME NEW event, NEW candles, NEW policy \in FuturesPolicies, NEW time \in Int,
           NEW market, HasBars(market.points), NEW later, HasBars(later.points),
           AgreeUntil(market.points, later.points, time),
           market.interval # None, later.interval = market.interval, later.fee = market.fee,
           NEW b, b = BuildEventFuturesBaseline(event, candles, market, policy),
           NEW c, c = BuildEventFuturesBaseline(event, candles, later, policy),
           b.status = "available", b.entry.at <= time, b.exit # None, b.exit.at <= time
    PROVE  /\ c.status = "available" /\ c.entry = b.entry /\ c.exit = b.exit
           /\ c.gross = b.gross /\ c.fees = b.fees /\ c.before = b.before
<1>1. /\ event.at # None /\ event.direction # None /\ EntryFill(event, market) # None
      /\ b.entry = EntryFill(event, market) /\ b.exit = ExitFill(event, candles, market, policy)
      /\ b.gross = GrossOf(event, b.entry, b.exit) /\ b.fees = FeesOf(market.fee, b.entry, b.exit)
      /\ b.before = NetOf(b.gross, b.fees)
  BY BaselineIsFromItsFills
<1>2. HasBars(BarsOf(market)) /\ HasBars(BarsOf(later)) /\ AgreeUntil(BarsOf(market), BarsOf(later), time)
  <2>1. \A m \in {market, later} : IsFiniteSet(BarsOf(m))
    BY FS_Subset DEF BarsOf, HasBars
  <2>2. AgreeUntil(BarsOf(market), BarsOf(later), time)
    BY DEF AgreeUntil, BarsOf
  <2> QED BY <2>1, <2>2 DEF BarsOf, HasBars
<1>3. EntryFill(event, later) = b.entry
  BY <1>1, <1>2, FillIsSettledByItsTime DEF EntryFill
<1>4. ExitFill(event, candles, later, policy) = b.exit
  <2> DEFINE timing == ResolveEventTiming(event, candles)
             order == event.at + event.latency
             d == Decision(timing, event, order, policy)
             end == Endpoint(timing, event, order, BarsOf(market), b.entry, market.interval, policy)
             over == Endpoint(timing, event, order, BarsOf(later), b.entry, market.interval, policy)
             point == IF d.decision = None THEN None ELSE IF d.decision < b.entry.at THEN None
                      ELSE ObserveAtOrAfter(BarsOf(market), d.decision, market.interval)
             other == IF d.decision = None THEN None ELSE IF d.decision < b.entry.at THEN None
                      ELSE ObserveAtOrAfter(BarsOf(later), d.decision, market.interval)
  <2>1. end.point = point /\ over.point = other
    BY DEF Endpoint
  <2>2. b.exit = end.point /\ ExitFill(event, candles, later, policy) = over.point
    BY <1>1, <1>3 DEF ExitFill
  <2> HIDE DEF timing, order, d, end, over
  <2>3. d.decision # None /\ ~(d.decision < b.entry.at)
    BY <2>1, <2>2
  <2>4. b.exit = ObserveAtOrAfter(BarsOf(market), d.decision, market.interval)
    BY <2>1, <2>2, <2>3
  <2>5. ObserveAtOrAfter(BarsOf(later), d.decision, market.interval) = b.exit
    <3> DEFINE at == d.decision
    <3> HIDE DEF at
    <3>1. b.exit = ObserveAtOrAfter(BarsOf(market), at, market.interval)
      BY <2>4 DEF at
    <3>2. ObserveAtOrAfter(BarsOf(later), at, market.interval) = b.exit
      BY <1>2, <3>1, FillIsSettledByItsTime
    <3> QED BY <3>2 DEF at
  <2>6. other = b.exit
    BY <2>3, <2>5
  <2> QED BY <2>1, <2>2, <2>6
<1>5. BarsOf(later) # {}
  <2>1. EntryFill(event, later) # None
    BY <1>1, <1>3
  <2> QED BY <2>1 DEF ObserveAtOrAfter, EntryFill
<1>6. /\ c.status = "available" /\ c.entry = EntryFill(event, later) /\ c.exit = ExitFill(event, candles, later, policy)
      /\ c.gross = GrossOf(event, c.entry, c.exit) /\ c.fees = FeesOf(later.fee, c.entry, c.exit)
      /\ c.before = NetOf(c.gross, c.fees)
  <2>1. later.interval # None /\ EntryFill(event, later) # None
    BY <1>1, <1>3
  <2> QED BY <1>1, <1>5, <2>1, BaselineIsFromItsFills
<1> QED BY <1>1, <1>3, <1>4, <1>6
=============================================================================
