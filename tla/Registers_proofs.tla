--------------------------- MODULE Registers_proofs ---------------------------
(***************************************************************************)
(* Proofs about the two registers an entry is posted from at the year's    *)
(* end, for any assets, accounts, plans, items, locations, prices and      *)
(* days.  Of the assets: each is charged the first months of its schedule, *)
(* and the register explains the ledger; what the recursion of a schedule  *)
(* computes is taken apart first, then the dates of its months, then each  *)
(* operation.  Of the stock: a posted valuation stands, whatever the       *)
(* methods cost a movement at; and, from what a replay comes to            *)
(* (Costing_proofs), every history accounts for everything by either       *)
(* method, and the ledger carries the last valuation.                      *)
(***************************************************************************)
EXTENDS Registers, Costing_proofs

------------------------------------------------------------------------------
(* The schedule of an asset. *)

\* What the recursion of ChargedBy says of month k.
ScheduleRule(p, f, k) ==
  IF k = 0 \/ p.method = "none" THEN 0
  ELSE LET before == f[k - 1]
           left == Depreciable(p) - before
       IN  IF k > 1 /\ before = f[k - 2] THEN before
           ELSE before + IF k = p.months THEN left ELSE Least(MonthlyCharge(p, before), left)

Follows(f, p, n) == f = [k \in 0..n |-> ScheduleRule(p, f, k)]

LEMMA PlanFacts ==
  ASSUME NEW p \in Plans
  PROVE  /\ p.cost \in Nat /\ p.residual \in Nat /\ p.months \in Nat /\ p.months > 0
         /\ Depreciable(p) \in Nat /\ Depreciable(p) > 0
  BY AssetsAssumption DEF Depreciable

(* The recursion has a solution over any number of months. *)
LEMMA ScheduleExists ==
  ASSUME NEW p \in Plans, NEW n \in Nat
  PROVE  \E f : Follows(f, p, n)
  <1> DEFINE Bad == {k \in Nat : ~\E f : Follows(f, p, k)}
  <1>1. SUFFICES ASSUME Bad # {} PROVE FALSE
    OBVIOUS
  <1>2. PICK k \in Bad : \A m \in Bad : k <= m
    <2> HIDE DEF Bad
    <2>1. Bad \subseteq Nat
      BY DEF Bad
    <2>2. QED
      BY <1>1, <2>1, SmallestNumber, Zenon
  <1>3. k \in Nat /\ ~\E f : Follows(f, p, k)
    BY <1>2
  <1>4. CASE k = 0
    <2> DEFINE f == [j \in 0..0 |-> 0]
    <2>1. \A j \in 0..0 : ScheduleRule(p, f, j) = 0
      BY DEF ScheduleRule
    <2>2. Follows(f, p, 0)
      BY <2>1 DEF Follows
    <2>3. QED
      BY <1>3, <1>4, <2>2
  <1>5. CASE k # 0
    <2>1. k - 1 \in Nat /\ k - 1 \notin Bad
      BY <1>2, <1>3, <1>5
    <2>2. PICK f : Follows(f, p, k - 1)
      BY <2>1
    <2>3. PICK g : g = [j \in 0..k |-> ScheduleRule(p, f, j)]
      OBVIOUS
    <2>4. \A j \in 0..k - 1 : g[j] = f[j]
      BY <1>3, <2>2, <2>3 DEF Follows
    <2>5. \A j \in 0..k : ScheduleRule(p, f, j) = ScheduleRule(p, g, j)
      <3>1. ASSUME NEW j \in 0..k PROVE ScheduleRule(p, f, j) = ScheduleRule(p, g, j)
        <4>1. CASE j = 0
          BY <4>1 DEF ScheduleRule
        <4>2. CASE j = 1
          <5>1. f[j - 1] = g[j - 1]
            BY <1>3, <1>5, <2>4, <4>2
          <5>2. QED
            BY <4>2, <5>1 DEF ScheduleRule
        <4>3. CASE j > 1
          <5>1. f[j - 1] = g[j - 1] /\ f[j - 2] = g[j - 2]
            BY <1>3, <2>4, <4>3
          <5>2. QED
            BY <5>1 DEF ScheduleRule
        <4>4. QED
          BY <4>1, <4>2, <4>3
      <3>2. QED
        BY <3>1
    <2>6. Follows(g, p, k)
      BY <2>3, <2>5 DEF Follows
    <2>7. QED
      BY <1>3, <2>6
  <1>6. QED
    BY <1>4, <1>5

LEMMA ScheduleAt ==
  ASSUME NEW p \in Plans
  PROVE  \A k \in 0..p.months : Schedule[p][k] = ScheduleRule(p, Schedule[p], k)
  <1>1. ChargedBy(p) = CHOOSE f : Follows(f, p, p.months)
    BY DEF ChargedBy, Follows, ScheduleRule
  <1>2. Schedule[p] = ChargedBy(p)
    BY DEF Schedule
  <1>3. Follows(ChargedBy(p), p, p.months)
    BY <1>1, PlanFacts, ScheduleExists
  <1>4. QED
    BY <1>2, <1>3 DEF Follows

LEMMA MonthlyChargeIsNatural ==
  ASSUME NEW p \in Plans, NEW charged \in 0..Depreciable(p)
  PROVE  MonthlyCharge(p, charged) \in Nat
  <1>1. p.months \in Nat \ {0} /\ Depreciable(p) \in Nat /\ Depreciable(p) - charged \in Nat
    BY PlanFacts
  <1>2. Share(10000, 1, p.months) \in Nat /\ Share(Depreciable(p), 1, p.months) \in Nat
    <2>1. PICK one \in Nat, many \in Nat : one = 1 /\ many = 10000
      OBVIOUS
    <2>2. Share(many, one, p.months) \in Nat /\ Share(Depreciable(p), one, p.months) \in Nat
      BY <1>1, ShareIsNatural
    <2>3. QED
      BY <2>1, <2>2
  <1>3. Share(Depreciable(p) - charged, Share(10000, 1, p.months), 10000) \in Nat
    <2>1. PICK many \in Nat \ {0} : many = 10000
      OBVIOUS
    <2>2. PICK left \in Nat, part \in Nat :
            left = Depreciable(p) - charged /\ part = Share(10000, 1, p.months)
      BY <1>1, <1>2
    <2>3. Share(left, part, many) \in Nat
      BY ShareIsNatural
    <2>4. QED
      BY <2>1, <2>2, <2>3
  <1>4. QED
    BY <1>2, <1>3 DEF MonthlyCharge

(* What is charged never falls, and never passes what there is to charge. *)
LEMMA ScheduleRises ==
  ASSUME NEW p \in Plans
  PROVE  /\ \A k \in 0..p.months : Schedule[p][k] \in 0..Depreciable(p)
         /\ \A k \in 1..p.months : Schedule[p][k - 1] <= Schedule[p][k]
  <1>1. PICK S : S = Schedule[p]
    OBVIOUS
  <1>2. \A k \in 0..p.months : S[k] = ScheduleRule(p, S, k)
    BY <1>1, ScheduleAt
  <1>3. p.months \in Nat /\ Depreciable(p) \in Nat
    BY PlanFacts
  <1>4. ASSUME NEW k \in 1..p.months, S[k - 1] \in 0..Depreciable(p), p.method # "none"
        PROVE  S[k] \in 0..Depreciable(p) /\ S[k - 1] <= S[k]
    <2>1. S[k] = ScheduleRule(p, S, k)
      BY <1>2, <1>3
    <2>2. PICK before : before = S[k - 1] /\ before \in 0..Depreciable(p)
      BY <1>4
    <2>3. MonthlyCharge(p, before) \in Nat
      BY <2>2, MonthlyChargeIsNatural
    <2>4. Least(MonthlyCharge(p, before), Depreciable(p) - before) \in 0..Depreciable(p) - before
      BY <1>3, <2>2, <2>3 DEF Least
    <2>5. k # 0
      BY <1>3
    <2>6. QED
      BY <1>3, <1>4, <2>1, <2>2, <2>4, <2>5 DEF ScheduleRule
  <1>5. \A k \in 0..p.months : S[k] \in 0..Depreciable(p)
    <2> DEFINE Bad == {k \in 0..p.months : S[k] \notin 0..Depreciable(p)}
    <2>1. SUFFICES ASSUME Bad # {} PROVE FALSE
      OBVIOUS
    <2>2. PICK k \in Bad : \A m \in Bad : k <= m
      <3> HIDE DEF Bad
      <3>1. Bad \subseteq Nat
        BY <1>3 DEF Bad
      <3>2. QED
        BY <2>1, <3>1, SmallestNumber, Zenon
    <2>3. k \in 0..p.months /\ S[k] \notin 0..Depreciable(p) /\ S[k] = ScheduleRule(p, S, k)
      BY <1>2, <2>2
    <2>4. k # 0 /\ p.method # "none"
      BY <1>3, <2>3 DEF ScheduleRule
    <2>5. k \in 1..p.months /\ k - 1 \in 0..p.months /\ k - 1 \notin Bad
      BY <1>3, <2>2, <2>3, <2>4
    <2>6. QED
      BY <1>4, <2>3, <2>4, <2>5
  <1>6. ASSUME NEW k \in 1..p.months PROVE S[k - 1] <= S[k]
    <2>1. k \in 0..p.months /\ k - 1 \in 0..p.months
      BY <1>3
    <2>2. CASE p.method = "none"
      BY <1>2, <2>1, <2>2 DEF ScheduleRule
    <2>3. CASE p.method # "none"
      BY <1>4, <1>5, <2>1, <2>3
    <2>4. QED
      BY <2>2, <2>3
  <1>7. QED
    BY <1>1, <1>5, <1>6

LEMMA AmountFacts ==
  ASSUME NEW p \in Plans
  PROVE  /\ \A k \in 1..p.months : AmountOf(p, k) \in Nat
         /\ \A k \in Periods(p) : k \in 1..p.months /\ AmountOf(p, k) \in Nat \ {0}
         /\ Schedule[p][0] = 0
  <1>1. ASSUME NEW k \in 1..p.months PROVE AmountOf(p, k) \in Nat
    <2>1. k \in 0..p.months /\ k - 1 \in 0..p.months
      BY PlanFacts
    <2>2. Schedule[p][k] \in Nat /\ Schedule[p][k - 1] \in Nat /\ Schedule[p][k - 1] <= Schedule[p][k]
      BY <2>1, ScheduleRises, PlanFacts
    <2>3. QED
      BY <2>2 DEF AmountOf
  <1>2. 0 \in 0..p.months
    BY PlanFacts
  <1>3. Schedule[p][0] = 0
    BY <1>2, ScheduleAt DEF ScheduleRule
  <1>4. QED
    BY <1>1, <1>3 DEF Periods

(* The months with something to charge are the first ones. *)
LEMMA PeriodsAreTheFirst ==
  ASSUME NEW p \in Plans, NEW k \in Periods(p), NEW j \in Nat, 1 <= j, j <= k
  PROVE  j \in Periods(p)
  <1> DEFINE Bad == {m \in Periods(p) : j < m}
  <1>0. p.months \in Nat /\ k \in 1..p.months /\ j \in 1..p.months
    BY PlanFacts, AmountFacts
  <1>1. SUFFICES ASSUME j \notin Periods(p) PROVE FALSE
    OBVIOUS
  <1>2. PICK m \in Bad : \A q \in Bad : m <= q
    <2>1. k \in Bad
      BY <1>0, <1>1
    <2>2. Bad \subseteq Nat
      <3>1. \A q \in Periods(p) : q \in Nat
        <4>1. \A q \in Periods(p) : q \in 1..p.months
          BY DEF Periods
        <4>2. \A q \in 1..p.months : q \in Nat
          BY <1>0
        <4>3. QED
          BY <4>1, <4>2
      <3>2. QED
        BY <3>1
    <2> HIDE DEF Bad
    <2>3. QED
      BY <2>1, <2>2, SmallestNumber, Zenon
  <1>3. m \in 1..p.months /\ j < m /\ AmountOf(p, m) # 0
    BY <1>2, AmountFacts
  <1>4. m - 1 \notin Periods(p) /\ m - 1 \in 1..p.months /\ m \in 0..p.months
    BY <1>0, <1>1, <1>2, <1>3
  <1>5. AmountOf(p, m - 1) = 0
    BY <1>4, AmountFacts DEF Periods
  <1>6. Schedule[p][m - 1] = Schedule[p][m - 2]
    <2>1. m - 1 \in 0..p.months /\ m - 2 \in 0..p.months /\ (m - 1) - 1 = m - 2
      BY <1>0, <1>4
    <2>2. Schedule[p][m - 1] \in Nat /\ Schedule[p][m - 2] \in Nat
      BY <2>1, ScheduleRises, PlanFacts
    <2>3. QED
      BY <1>5, <2>1, <2>2 DEF AmountOf
  <1>7. Schedule[p][m] = Schedule[p][m - 1]
    <2>1. m > 1 /\ m # 0
      BY <1>0, <1>3
    <2>2. Schedule[p][m] = ScheduleRule(p, Schedule[p], m)
          /\ Schedule[p][m - 1] = ScheduleRule(p, Schedule[p], m - 1)
      BY <1>0, <1>4, ScheduleAt
    <2>3. CASE p.method = "none"
      BY <2>2, <2>3 DEF ScheduleRule
    <2>4. CASE p.method # "none"
      BY <1>6, <2>1, <2>2, <2>4 DEF ScheduleRule
    <2>5. QED
      BY <2>3, <2>4
  <1>8. QED
    <2>1. m \in 0..p.months /\ Schedule[p][m] \in Nat
      BY <1>4, ScheduleRises, PlanFacts
    <2>2. QED
      BY <1>3, <1>7, <2>1 DEF AmountOf

(* The last month takes what is left. *)
LEMMA LastMonthTakesTheRest ==
  ASSUME NEW p \in Plans, p.months \in Periods(p)
  PROVE  Schedule[p][p.months] = Depreciable(p)
  <1>1. PICK k : k = p.months
    OBVIOUS
  <1>2. k \in 1..p.months /\ k \in 0..p.months /\ k - 1 \in 0..p.months /\ k # 0 /\ k \in Nat
    BY <1>1, PlanFacts
  <1>3. PICK S : S = Schedule[p]
    OBVIOUS
  <1>4. S[k] = ScheduleRule(p, S, k) /\ S[k - 1] \in Nat /\ S[k] \in Nat /\ Depreciable(p) \in Nat
    BY <1>2, <1>3, ScheduleAt, ScheduleRises, PlanFacts
  <1>5. S[k] - S[k - 1] > 0
    BY <1>1, <1>3 DEF Periods, AmountOf
  <1>6. p.method # "none" /\ ~(k > 1 /\ S[k - 1] = S[k - 2])
    BY <1>2, <1>4, <1>5 DEF ScheduleRule
  <1>7. S[k] = S[k - 1] + (Depreciable(p) - S[k - 1])
    BY <1>1, <1>2, <1>4, <1>6 DEF ScheduleRule
  <1>8. QED
    BY <1>1, <1>3, <1>4, <1>7

(* What the first months come to. *)
LEMMA MonthsAddUp ==
  ASSUME NEW p \in Plans, NEW n \in 0..p.months
  PROVE  Total([k \in 1..n |-> AmountOf(p, k)]) = Schedule[p][n]
  <1> DEFINE Bad == {m \in 0..p.months : Total([k \in 1..m |-> AmountOf(p, k)]) # Schedule[p][m]}
  <1>0. p.months \in Nat
    BY PlanFacts
  <1>1. SUFFICES ASSUME Bad # {} PROVE FALSE
    OBVIOUS
  <1>2. PICK m \in Bad : \A q \in Bad : m <= q
    <2> HIDE DEF Bad
    <2>1. Bad \subseteq Nat
      BY <1>0 DEF Bad
    <2>2. QED
      BY <1>1, <2>1, SmallestNumber, Zenon
  <1>3. m \in 0..p.months /\ Total([k \in 1..m |-> AmountOf(p, k)]) # Schedule[p][m]
    BY <1>2
  <1>4. m # 0
    <2>1. Total([k \in 1..0 |-> AmountOf(p, k)]) = 0
      BY TotalEmpty
    <2>2. QED
      BY <1>3, <2>1, AmountFacts
  <1>5. m - 1 \in 0..p.months /\ m - 1 \notin Bad /\ m \in 1..p.months
    BY <1>0, <1>2, <1>3, <1>4
  <1>6. PICK f, g : /\ f = [k \in 1..m |-> AmountOf(p, k)]
                    /\ g = [k \in 1..m - 1 |-> AmountOf(p, k)]
    OBVIOUS
  <1>7. Total(g) = Schedule[p][m - 1]
    BY <1>5, <1>6
  <1>8. /\ m \in DOMAIN f /\ IsFiniteSet(DOMAIN f) /\ \A k \in DOMAIN f : f[k] \in Int
        /\ DOMAIN g = DOMAIN f \ {m} /\ \A k \in DOMAIN g : g[k] = f[k]
        /\ f[m] = AmountOf(p, m)
    <2>1. IsFiniteSet(1..m) /\ DOMAIN f = 1..m
      BY <1>0, <1>5, <1>6, FS_Interval
    <2>2. \A k \in 1..m : k \in 1..p.months
      BY <1>0, <1>5
    <2>3. \A k \in DOMAIN f : f[k] \in Int
      BY <1>6, <2>2, AmountFacts
    <2>4. 1..m - 1 = (1..m) \ {m} /\ m \in 1..m
      BY <1>0, <1>5
    <2>5. QED
      BY <1>6, <2>1, <2>3, <2>4
  <1>9. Total(f) = f[m] + Total(g)
    BY <1>8, TotalTake
  <1>10. Schedule[p][m] \in Nat /\ Schedule[p][m - 1] \in Nat
    BY <1>0, <1>3, <1>5, ScheduleRises, PlanFacts
  <1>11. QED
    BY <1>3, <1>6, <1>7, <1>8, <1>9, <1>10 DEF AmountOf

------------------------------------------------------------------------------
(* The months of an asset follow one another. *)

LEMMA MonthEndAfter ==
  ASSUME NEW d \in Nat \ {0}
  PROVE  MonthEnd(d) \in Nat /\ d <= MonthEnd(d)
  <1>1. PICK m \in Nat \ {0} : m = MonthLength
    BY AssetsAssumption
  <1>2. PICK q \in Nat : q = (d - 1) \div m
    OBVIOUS
  <1>3. d - 1 < (q + 1) * m
    BY <1>2
  <1>4. (q + 1) * m \in Nat
    OBVIOUS
  <1>5. QED
    BY <1>1, <1>2, <1>3, <1>4 DEF MonthEnd

LEMMA PeriodsInOrder ==
  ASSUME NEW a, a.bought \in Nat \ {0}
  PROVE  /\ \A k \in Nat \ {0} : /\ PeriodStart(a, k) \in Nat \ {0} /\ PeriodEnd(a, k) \in Nat
                                 /\ PeriodStart(a, k) <= PeriodEnd(a, k)
         /\ \A j, k \in Nat \ {0} :
              j < k => PeriodEnd(a, j) < PeriodStart(a, k) /\ PeriodEnd(a, j) <= PeriodEnd(a, k)
  <1>1. PICK m \in Nat \ {0} : m = MonthLength
    BY AssetsAssumption
  <1>2. PICK e \in Nat : e = MonthEnd(a.bought) /\ a.bought <= e
    BY MonthEndAfter
  <1>3. ASSUME NEW k \in Nat \ {0}
        PROVE  PeriodEnd(a, k) = e + (k - 1) * m /\ (k - 1) * m \in Nat /\ PeriodEnd(a, k) \in Nat
    <2>1. k - 1 \in Nat
      OBVIOUS
    <2>2. (k - 1) * m \in Nat
      BY <2>1, ProductsGrow
    <2>3. QED
      BY <1>1, <1>2, <2>2 DEF PeriodEnd
  <1>4. ASSUME NEW j \in Nat \ {0}, NEW k \in Nat \ {0}, j <= k
        PROVE  PeriodEnd(a, j) <= PeriodEnd(a, k)
    <2>1. j - 1 \in Nat /\ k - 1 \in Nat /\ j - 1 <= k - 1
      BY <1>4
    <2>2. PICK x \in Nat, y \in Nat : x = (j - 1) * m /\ y = (k - 1) * m
      BY <1>3
    <2>3. x <= y
      BY <2>1, <2>2, ProductsGrow
    <2>4. PeriodEnd(a, j) = e + x /\ PeriodEnd(a, k) = e + y
      BY <1>3, <2>2
    <2>5. QED
      BY <2>3, <2>4
  <1>5. ASSUME NEW k \in Nat \ {0}, k # 1
        PROVE  k - 1 \in Nat \ {0} /\ PeriodStart(a, k) = PeriodEnd(a, k - 1) + 1
    BY <1>5 DEF PeriodStart
  <1>6. ASSUME NEW k \in Nat \ {0}
        PROVE  /\ PeriodStart(a, k) \in Nat \ {0} /\ PeriodStart(a, k) <= PeriodEnd(a, k)
    <2>1. CASE k = 1
      <3>1. PeriodEnd(a, 1) = e + 0 * m /\ 0 * m = 0
        BY <1>1, <1>2 DEF PeriodEnd
      <3>2. PeriodStart(a, 1) = a.bought
        BY DEF PeriodStart
      <3>3. QED
        BY <1>2, <2>1, <3>1, <3>2
    <2>2. CASE k # 1
      <3>1. k - 1 \in Nat \ {0} /\ PeriodStart(a, k) = PeriodEnd(a, k - 1) + 1
        BY <1>5, <2>2
      <3>2. (k - 1) * m = ((k - 1) - 1) * m + m
        <4>1. k - 1 \in Nat /\ (k - 1) - 1 \in Nat
          BY <2>2
        <4>2. PICK x \in Nat : x = (k - 1) - 1 /\ k - 1 = x + 1
          BY <4>1
        <4>3. (x + 1) * m = x * m + m
          OBVIOUS
        <4>4. QED
          BY <4>2, <4>3
      <3>3. /\ PeriodEnd(a, k) = e + (k - 1) * m
            /\ PeriodEnd(a, k - 1) = e + ((k - 1) - 1) * m
            /\ ((k - 1) - 1) * m \in Nat /\ PeriodEnd(a, k - 1) \in Nat
        BY <1>3, <3>1
      <3>4. QED
        BY <3>1, <3>2, <3>3
    <2>3. QED
      BY <2>1, <2>2
  <1>7. ASSUME NEW j \in Nat \ {0}, NEW k \in Nat \ {0}, j < k
        PROVE  PeriodEnd(a, j) < PeriodStart(a, k)
    <2>1. k # 1 /\ j <= k - 1
      BY <1>7
    <2>2. k - 1 \in Nat \ {0} /\ PeriodStart(a, k) = PeriodEnd(a, k - 1) + 1
      BY <1>5, <2>1
    <2>3. PeriodEnd(a, j) <= PeriodEnd(a, k - 1)
      BY <1>4, <2>1, <2>2
    <2>4. PeriodEnd(a, j) \in Nat /\ PeriodEnd(a, k - 1) \in Nat
      BY <1>3, <2>2
    <2>5. QED
      BY <2>2, <2>3, <2>4
  <1>8. QED
    BY <1>3, <1>4, <1>6, <1>7

------------------------------------------------------------------------------
(* An asset is charged the first months of its schedule. *)

Mine(i) == {c \in charges : c.asset = i}

\* Asset i is charged its first n months, and its row says so.
ChargedTo(i, n) ==
  /\ n \in 0..assets[i].plan.months /\ 1..n \subseteq Periods(assets[i].plan)
  /\ Mine(i) = {ChargeFor(i, k) : k \in 1..n}
  /\ assets[i].accumulated = Schedule[assets[i].plan][n]
  /\ assets[i].status = "fully_depreciated" =>
       assets[i].accumulated = Depreciable(assets[i].plan)

ChargesInv ==
  /\ IsFiniteSet(charges)
  /\ \A i \in Registered : \E n \in Nat : ChargedTo(i, n)
  /\ \A c \in charges : c.asset \in Registered

LEMMA RowFacts ==
  ASSUME AssetsTypeOK, NEW i \in Registered
  PROVE  /\ i \in Assets /\ assets[i] \in Asset /\ assets[i].plan \in Plans
         /\ assets[i].bought \in Nat \ {0} /\ assets[i].bought \in Days
         /\ assets[i].account \in AcceptedForCost /\ assets[i].accumulatedIn \in AccumulatedAccounts
         /\ assets[i].plan.cost \in Nat /\ assets[i].accumulated \in Nat
  <1>1. i \in Assets /\ assets[i] \in Asset
    BY DEF AssetsTypeOK, Registered
  <1>2. Days \subseteq Nat \ {0}
    BY LastDayAssumption DEF Days
  <1>3. QED
    BY <1>1, <1>2, PlanFacts DEF Asset

(* Different months are different charges. *)
LEMMA ChargesDiffer ==
  ASSUME AssetsTypeOK, NEW i \in Registered, NEW j \in Nat \ {0}, NEW k \in Nat \ {0},
         PeriodStart(assets[i], j) = PeriodStart(assets[i], k)
  PROVE  j = k
  <1>1. ASSUME NEW x \in Nat \ {0}, NEW y \in Nat \ {0}, x < y
        PROVE  PeriodStart(assets[i], x) < PeriodStart(assets[i], y)
    <2>1. assets[i].bought \in Nat \ {0}
      BY RowFacts
    <2>2. /\ PeriodStart(assets[i], x) \in Nat /\ PeriodEnd(assets[i], x) \in Nat
          /\ PeriodStart(assets[i], y) \in Nat
          /\ PeriodStart(assets[i], x) <= PeriodEnd(assets[i], x)
          /\ PeriodEnd(assets[i], x) < PeriodStart(assets[i], y)
      BY <1>1, <2>1, PeriodsInOrder
    <2>3. QED
      BY <2>2
  <1>2. PeriodStart(assets[i], j) \in Nat
    BY RowFacts, PeriodsInOrder
  <1>3. QED
    BY <1>1, <1>2

(* Charges for different months are as many, and come to what the months do. *)
LEMMA MonthsAreCharges ==
  ASSUME AssetsTypeOK, NEW i \in Registered,
         NEW S, S \subseteq 1..assets[i].plan.months
  PROVE  LET cs == {ChargeFor(i, k) : k \in S}
         IN  /\ IsFiniteSet(S) /\ IsFiniteSet(cs) /\ Cardinality(cs) = Cardinality(S)
             /\ \A c \in cs : c.amount \in Int
             /\ Sum(cs) = Total([k \in S |-> AmountOf(assets[i].plan, k)])
  <1>1. PICK p \in Plans : p = assets[i].plan
    BY RowFacts
  <1>2. PICK cs : cs = {ChargeFor(i, k) : k \in S}
    OBVIOUS
  <1>3. \A k \in S : k \in Nat \ {0} /\ k \in 1..p.months
    BY <1>1, PlanFacts
  <1>4. \A k \in S : /\ ChargeFor(i, k).start = PeriodStart(assets[i], k)
                     /\ ChargeFor(i, k).amount = AmountOf(p, k)
                     /\ ChargeFor(i, k) \in cs
    BY <1>1, <1>2 DEF ChargeFor
  <1>5. \A j, k \in S : ChargeFor(i, j) = ChargeFor(i, k) => j = k
    BY <1>3, <1>4, ChargesDiffer
  <1> DEFINE m == [k \in S |-> ChargeFor(i, k)]
  <1>6. m \in Bijection(S, cs)
    <2>1. m \in [S -> cs] /\ \A c \in cs : \E k \in S : m[k] = c
      BY <1>2, <1>4
    <2>2. \A j, k \in S : m[j] = m[k] => j = k
      BY <1>5
    <2> HIDE DEF m
    <2>3. QED
      BY <2>1, <2>2, Fun_IsBij
  <1>7. IsFiniteSet(S)
    <2>1. PICK n \in Nat : n = p.months
      BY PlanFacts
    <2>2. S \subseteq 1..n
      BY <1>1, <2>1
    <2>3. IsFiniteSet(1..n)
      BY FS_Interval
    <2>4. QED
      BY <2>2, <2>3, FS_Subset
  <1>8. IsFiniteSet(cs) /\ Cardinality(cs) = Cardinality(S)
    BY <1>6, <1>7, FS_Bijection DEF ExistsBijection
  <1>9. \A c \in cs : c.amount \in Int
    <2>1. \A k \in S : ChargeFor(i, k).amount \in Int
      BY <1>3, <1>4, AmountFacts
    <2>2. QED
      BY <1>2, <2>1
  <1>10. PICK f, g : f = [c \in cs |-> c.amount] /\ g = [k \in S |-> AmountOf(p, k)]
    OBVIOUS
  <1>11. Total(g) = Total(f)
    <2>1. \A k \in DOMAIN g : m[k] \in DOMAIN f /\ g[k] = f[m[k]]
      BY <1>4, <1>10
    <2>2. \A j, k \in DOMAIN g : m[j] = m[k] => j = k
      BY <1>5, <1>10
    <2>3. \A c \in DOMAIN f : \E k \in DOMAIN g : m[k] = c
      BY <1>2, <1>10
    <2>4. \A c \in DOMAIN f : f[c] \in Int
      BY <1>9, <1>10
    <2>5. IsFiniteSet(DOMAIN f) /\ IsFiniteSet(DOMAIN g)
      BY <1>7, <1>8, <1>10
    <2> HIDE DEF m
    <2>6. QED
      BY <2>1, <2>2, <2>3, <2>4, <2>5, TotalRenamed
  <1>12. QED
    BY <1>1, <1>2, <1>7, <1>8, <1>9, <1>10, <1>11 DEF Sum

(* What the charges of an asset come to, and how many they are. *)
LEMMA ChargesAddUp ==
  ASSUME AssetsTypeOK, NEW i \in Registered, NEW n \in Nat, ChargedTo(i, n)
  PROVE  /\ IsFiniteSet(Mine(i)) /\ Cardinality(Mine(i)) = n
         /\ Sum(Mine(i)) = Schedule[assets[i].plan][n]
  <1>1. PICK p \in Plans : p = assets[i].plan
    BY RowFacts
  <1>2. n \in 0..p.months /\ Mine(i) = {ChargeFor(i, k) : k \in 1..n}
    BY <1>1 DEF ChargedTo
  <1>3. 1..n \subseteq 1..p.months
    BY <1>2, PlanFacts
  <1>4. IsFiniteSet(Mine(i)) /\ Cardinality(Mine(i)) = Cardinality(1..n)
        /\ Sum(Mine(i)) = Total([k \in 1..n |-> AmountOf(p, k)])
    BY <1>1, <1>2, <1>3, MonthsAreCharges
  <1>5. Cardinality(1..n) = n
    BY FS_Interval
  <1>6. QED
    BY <1>1, <1>2, <1>4, <1>5, MonthsAddUp

(* What the invariant says is what is checked. *)
LEMMA ChargesFollow ==
  ASSUME AssetsTypeOK, ChargesInv
  PROVE  ChargesFollowTheSchedule
  <1>1. ASSUME NEW i \in Registered
        PROVE  LET a == assets[i]
                   mine == {c \in charges : c.asset = i}
                   n == Cardinality(mine)
               IN  /\ mine = {ChargeFor(i, k) : k \in 1..n}
                   /\ a.accumulated = Sum(mine)
                   /\ a.status = "fully_depreciated" => Sum(mine) = Depreciable(a.plan)
                   /\ n > 0 /\ n = a.plan.months => Sum(mine) = Depreciable(a.plan)
    <2>1. PICK n \in Nat : ChargedTo(i, n)
      BY DEF ChargesInv
    <2>2. Cardinality(Mine(i)) = n /\ Sum(Mine(i)) = Schedule[assets[i].plan][n]
      BY <2>1, ChargesAddUp
    <2>3. ASSUME n > 0, n = assets[i].plan.months
          PROVE  Sum(Mine(i)) = Depreciable(assets[i].plan)
      <3>1. n \in Periods(assets[i].plan)
        <4>1. n \in 1..n
          BY <2>3
        <4>2. QED
          BY <2>1, <4>1 DEF ChargedTo
      <3>2. assets[i].plan \in Plans
        BY RowFacts
      <3>3. QED
        BY <2>2, <2>3, <3>1, <3>2, LastMonthTakesTheRest
    <2>4. QED
      BY <2>1, <2>2, <2>3 DEF ChargedTo, Mine
  <1>2. QED
    BY <1>1 DEF ChargesFollowTheSchedule

(* The months a run finds due of an asset follow those charged. *)
LEMMA DueFollows ==
  ASSUME AssetsTypeOK, NEW i \in Registered, NEW n \in Nat, ChargedTo(i, n),
         NEW upTo \in Days, Due(i, upTo) # {}
  PROVE  \E m \in 1..assets[i].plan.months :
           /\ n < m /\ m \in Due(i, upTo) /\ (\A j \in Due(i, upTo) : j <= m)
           /\ Due(i, upTo) = (n + 1)..m
           /\ 1..m \subseteq Periods(assets[i].plan)
           /\ \A k \in Due(i, upTo) : PeriodEnd(assets[i], k) <= upTo
  <1>1. PICK p \in Plans : p = assets[i].plan
    BY RowFacts
  <1>2. /\ n \in 0..p.months /\ Mine(i) = {ChargeFor(i, k) : k \in 1..n}
        /\ p.months \in Nat /\ 1..n \subseteq Periods(p)
    BY <1>1, PlanFacts DEF ChargedTo
  <1>3. Periods(p) \subseteq 1..p.months
    BY DEF Periods
  <1>4. Due(i, upTo) = {k \in Periods(p) : PeriodEnd(assets[i], k) <= upTo /\ n < k}
    <2>1. ASSUME NEW k \in Periods(p)
          PROVE  (\A c \in charges : c.asset = i => c.start # PeriodStart(assets[i], k)) <=> n < k
      <3>0. k \in Nat \ {0}
        BY <1>2, <1>3
      <3>1. CASE k <= n
        <4>1. k \in 1..n
          BY <3>0, <3>1
        <4>2. ChargeFor(i, k) \in charges /\ ChargeFor(i, k).asset = i
              /\ ChargeFor(i, k).start = PeriodStart(assets[i], k)
          BY <1>2, <4>1 DEF Mine, ChargeFor
        <4>3. QED
          BY <3>0, <3>1, <4>2
      <3>2. CASE n < k
        <4>1. ASSUME NEW c \in charges, c.asset = i, c.start = PeriodStart(assets[i], k)
              PROVE  FALSE
          <5>1. PICK j \in 1..n : c = ChargeFor(i, j)
            BY <1>2, <4>1 DEF Mine
          <5>2. PeriodStart(assets[i], j) = PeriodStart(assets[i], k) /\ j \in Nat \ {0}
            BY <4>1, <5>1 DEF ChargeFor
          <5>3. j = k
            BY <3>0, <5>2, ChargesDiffer
          <5>4. QED
            BY <3>0, <3>2, <5>1, <5>3
        <4>2. QED
          BY <3>2, <4>1
      <3>3. QED
        BY <3>0, <3>1, <3>2
    <2>2. QED
      BY <1>1, <2>1 DEF Due
  <1>5. \A k \in Due(i, upTo) : k \in 1..p.months /\ k \in Periods(p) /\ n < k
                                /\ PeriodEnd(assets[i], k) <= upTo
    BY <1>3, <1>4
  <1>6. PICK m \in Due(i, upTo) : \A j \in Due(i, upTo) : j <= m
    <2> DEFINE Left == {p.months - k : k \in Due(i, upTo)}
    <2>1. Left \subseteq Nat /\ Left # {}
      BY <1>2, <1>5
    <2>2. PICK l \in Left : \A q \in Left : l <= q
      <3> HIDE DEF Left
      <3>1. QED
        BY <2>1, SmallestNumber, Zenon
    <2>3. PICK m \in Due(i, upTo) : l = p.months - m
      BY <2>2
    <2>4. ASSUME NEW j \in Due(i, upTo) PROVE j <= m
      <3>1. p.months - m <= p.months - j
        BY <2>2, <2>3
      <3>2. QED
        BY <1>2, <1>5, <3>1
    <2>5. QED
      BY <2>4
  <1>7. m \in 1..p.months /\ m \in Periods(p) /\ n < m /\ PeriodEnd(assets[i], m) <= upTo
    BY <1>5
  <1>8. 1..m \subseteq Periods(p)
    <2>1. ASSUME NEW j \in 1..m PROVE j \in Periods(p)
      <3>1. j \in Nat /\ 1 <= j /\ j <= m
        BY <1>2, <1>7
      <3>2. QED
        BY <1>7, <3>1, PeriodsAreTheFirst
    <2>2. QED
      BY <2>1
  <1>9. ASSUME NEW j \in (n + 1)..m PROVE j \in Due(i, upTo)
    <2>1. j \in 1..m /\ j \in Nat \ {0} /\ m \in Nat \ {0} /\ j <= m /\ n < j
      BY <1>2, <1>7
    <2>2. PeriodEnd(assets[i], j) <= upTo
      <3>1. assets[i].bought \in Nat \ {0}
        BY RowFacts
      <3>2. PeriodEnd(assets[i], j) \in Nat /\ PeriodEnd(assets[i], m) \in Nat
            /\ (j < m => PeriodEnd(assets[i], j) <= PeriodEnd(assets[i], m))
        BY <2>1, <3>1, PeriodsInOrder
      <3>3. upTo \in Nat
        BY LastDayAssumption DEF Days
      <3>4. QED
        BY <1>7, <2>1, <3>2, <3>3
    <2>3. QED
      BY <1>4, <1>8, <2>1, <2>2
  <1>10. ASSUME NEW j \in Due(i, upTo) PROVE j \in (n + 1)..m
    BY <1>2, <1>5, <1>6, <1>7
  <1>11. QED
    BY <1>1, <1>5, <1>6, <1>7, <1>8, <1>9, <1>10

------------------------------------------------------------------------------
(* What is posted. *)

Books == [Accounts -> [Days -> Int]]

LEMMA UpToInt ==
  ASSUME NEW book \in Books, NEW a \in Accounts
  PROVE  UpTo(book, a, LastDay) \in Int
  <1>1. PICK f : f = [e \in 1..LastDay |-> book[a][e]]
    OBVIOUS
  <1>2. IsFiniteSet(DOMAIN f) /\ \A e \in DOMAIN f : f[e] \in Int
    BY <1>1, LastDayAssumption, FS_Interval DEF Books, Days
  <1>3. QED
    BY <1>1, <1>2, TotalInt DEF UpTo

(* A posting changes one account, by its amount. *)
LEMMA MovedFacts ==
  ASSUME NEW book \in Books, NEW b \in Accounts, NEW d \in Days, NEW amount \in Int
  PROVE  /\ Moved(book, b, d, amount) \in Books
         /\ \A a \in Accounts : UpTo(Moved(book, b, d, amount), a, LastDay)
                                  = UpTo(book, a, LastDay) + (IF a = b THEN amount ELSE 0)
  <1>1. PICK new : new = Moved(book, b, d, amount)
    OBVIOUS
  <1>2. /\ new \in Books /\ new[b][d] = book[b][d] + amount
        /\ \A a \in Accounts, e \in Days : a # b \/ e # d => new[a][e] = book[a][e]
    BY <1>1 DEF Moved, Books
  <1>3. ASSUME NEW a \in Accounts
        PROVE  UpTo(new, a, LastDay) = UpTo(book, a, LastDay) + (IF a = b THEN amount ELSE 0)
    <2>1. PICK f, g : f = [e \in 1..LastDay |-> book[a][e]] /\ g = [e \in 1..LastDay |-> new[a][e]]
      OBVIOUS
    <2>2. /\ IsFiniteSet(DOMAIN f) /\ DOMAIN g = DOMAIN f /\ DOMAIN f = Days
          /\ \A e \in DOMAIN f : f[e] \in Int /\ g[e] \in Int
      <3>1. book[a] \in [Days -> Int] /\ new[a] \in [Days -> Int]
        BY <1>2 DEF Books
      <3>2. LastDay \in Int /\ IsFiniteSet(1..LastDay)
        BY LastDayAssumption, FS_Interval
      <3>3. QED
        BY <2>1, <3>1, <3>2 DEF Days
    <2>3. CASE a = b
      <3>1. /\ d \in DOMAIN f /\ \A e \in DOMAIN f : e # d => g[e] = f[e]
            /\ g[d] = f[d] + amount
        BY <1>2, <2>1, <2>2, <2>3 DEF Days
      <3>2. Total(g) = Total(f) - f[d] + g[d]
        BY <2>2, <3>1, TotalChanged
      <3>3. Total(f) \in Int /\ f[d] \in Int
        BY <2>2, <3>1, TotalInt
      <3>4. QED
        BY <2>1, <2>3, <3>1, <3>2, <3>3 DEF UpTo
    <2>4. CASE a # b
      <3>1. \A e \in DOMAIN f : f[e] = g[e]
        BY <1>2, <2>1, <2>2, <2>4 DEF Days
      <3>2. Total(f) = Total(g) /\ Total(f) \in Int
        BY <2>2, <3>1, TotalEqual, TotalInt
      <3>3. QED
        BY <2>1, <2>4, <3>2 DEF UpTo
    <2>5. QED
      BY <2>3, <2>4
  <1>4. QED
    BY <1>1, <1>2, <1>3

------------------------------------------------------------------------------
(* Where an asset is, and what its journals have posted. *)

MovingIn(i) == {k \in DOMAIN transfers[i] : transfers[i][k].toAccumulated # NoAccount}

\* The accounts of an asset's row are those its last transfers led to.
Placed(i) ==
  /\ i \notin Registered => transfers[i] = << >>
  /\ transfers[i] # << >> => transfers[i][Len(transfers[i])].to = assets[i].account
  /\ \A k \in MovingIn(i) : transfers[i][k].fromAccumulated \in AccumulatedAccounts
  /\ MovingIn(i) # {} => transfers[i][Max(MovingIn(i))].toAccumulated = assets[i].accumulatedIn

Kept(i) == assets[i].disposedOn = Never

\* What the journals of asset i come to on account a: its cost is where it is,
\* as long as it is kept, no longer where it was first, and what was charged
\* is against it.
Posted(i, a) ==
  IF i \notin Registered THEN 0
  ELSE (IF Kept(i) /\ assets[i].account = a THEN assets[i].plan.cost ELSE 0)
       - (IF FirstAccount(i) = a THEN assets[i].plan.cost ELSE 0)
       - (IF Kept(i) /\ assets[i].accumulatedIn = a THEN assets[i].accumulated ELSE 0)

PostingsInv ==
  disturbed = {} =>
    /\ \A i \in Registered : assets[i].disposedOn # Never <=> assets[i].status = "disposed"
    /\ \A a \in Accounts :
         UpTo(journals, a, LastDay) = Total([i \in Assets |-> Posted(i, a)])

AssetsInv ==
  /\ AssetsTypeOK
  /\ ChargesInv
  /\ \A i \in Assets : Placed(i)
  /\ PostingsInv

LEMMA RowsAreRegistered == \A row \in Asset : row # Unregistered
  BY DEF Asset, Unregistered

LEMMA PostedInt ==
  ASSUME AssetsTypeOK, NEW i \in Assets, NEW a
  PROVE  Posted(i, a) \in Int
  <1>1. CASE i \in Registered
    <2>1. assets[i].plan.cost \in Int /\ assets[i].accumulated \in Int
      BY <1>1, RowFacts
    <2>2. QED
      BY <2>1 DEF Posted
  <1>2. CASE i \notin Registered
    BY <1>2 DEF Posted
  <1>3. QED
    BY <1>1, <1>2

(* When one asset's journals post something, what they come to follows it. *)
LEMMA OneAssetPosts ==
  ASSUME AssetsTypeOK, AssetsTypeOK', NEW i \in Assets, NEW a \in Accounts, NEW amount \in Int,
         \A j \in Assets : j # i => Posted(j, a)' = Posted(j, a),
         Posted(i, a)' = Posted(i, a) + amount
  PROVE  Total([j \in Assets |-> Posted(j, a)])' = Total([j \in Assets |-> Posted(j, a)]) + amount
  <1>1. PICK f, g : f = [j \in Assets |-> Posted(j, a)] /\ g = [j \in Assets |-> Posted(j, a)']
    OBVIOUS
  <1>2. /\ i \in DOMAIN f /\ DOMAIN f = Assets /\ DOMAIN g = DOMAIN f
        /\ IsFiniteSet(DOMAIN f) /\ g[i] = Posted(i, a)'
        /\ \A j \in DOMAIN f : j # i => g[j] = f[j]
    BY <1>1, AssetsAssumption
  <1>3. \A j \in DOMAIN f : f[j] \in Int
    BY <1>1, PostedInt
  <1>4. g[i] \in Int /\ g[i] = f[i] + amount
    BY <1>1, <1>2, <1>3
  <1>5. Total(g) = Total(f) - f[i] + g[i] /\ Total(f) \in Int
    BY <1>2, <1>3, <1>4, TotalChanged, TotalInt
  <1>6. QED
    BY <1>1, <1>2, <1>3, <1>4, <1>5

------------------------------------------------------------------------------
(* The operations. *)

(* An operation that charges nothing leaves an asset charged as it was. *)
LEMMA ChargesStand ==
  ASSUME AssetsTypeOK, ChargesInv, charges' = charges, Registered \subseteq Registered',
         \A i \in Registered : /\ assets'[i].plan = assets[i].plan
                               /\ assets'[i].bought = assets[i].bought
                               /\ assets'[i].accumulated = assets[i].accumulated
                               /\ assets'[i].status = "fully_depreciated" =>
                                    assets[i].status = "fully_depreciated",
         \A i \in Registered' \ Registered :
           /\ assets'[i].plan \in Plans /\ assets'[i].accumulated = 0
           /\ assets'[i].status = "active"
  PROVE  ChargesInv'
  <1>1. ASSUME NEW i \in Registered PROVE \E n \in Nat : ChargedTo(i, n)'
    <2>1. PICK n \in Nat : ChargedTo(i, n)
      BY DEF ChargesInv
    <2>2. /\ assets'[i].plan = assets[i].plan /\ assets'[i].bought = assets[i].bought
          /\ assets'[i].accumulated = assets[i].accumulated
          /\ assets'[i].status = "fully_depreciated" => assets[i].status = "fully_depreciated"
      OBVIOUS
    <2>3. \A k : ChargeFor(i, k)' = ChargeFor(i, k)
      BY <2>2 DEF ChargeFor, PeriodStart, PeriodEnd
    <2>4. Mine(i)' = Mine(i)
      BY DEF Mine
    <2>5. ChargedTo(i, n)'
      BY <2>1, <2>2, <2>3, <2>4 DEF ChargedTo
    <2>6. QED
      BY <2>5
  <1>2. ASSUME NEW i \in Registered' \ Registered PROVE \E n \in Nat : ChargedTo(i, n)'
    <2>1. Mine(i)' = {}
      BY DEF Mine, ChargesInv
    <2>2. assets'[i].plan \in Plans /\ assets'[i].accumulated = 0 /\ assets'[i].status = "active"
      OBVIOUS
    <2>3. Schedule[assets'[i].plan][0] = 0 /\ 0 \in 0..assets'[i].plan.months
      BY <2>2, AmountFacts, PlanFacts
    <2>4. 1..0 = {}
      OBVIOUS
    <2>5. ChargedTo(i, 0)'
      BY <2>1, <2>2, <2>3, <2>4 DEF ChargedTo
    <2>6. QED
      BY <2>5
  <1>3. QED
    BY <1>1, <1>2 DEF ChargesInv

LEMMA AssetsInitHolds == AssetsInit => AssetsInv
  <1> SUFFICES ASSUME AssetsInit PROVE AssetsInv
    OBVIOUS
  <1>1. Registered = {}
    BY DEF AssetsInit, Registered
  <1>2. Nothing \in Books
    BY DEF Nothing, Books
  <1>3. AssetsTypeOK
    <2>1. << >> \in Seq(Transfer)
      OBVIOUS
    <2>2. QED
      BY <1>2, <2>1 DEF AssetsInit, AssetsTypeOK, Books
  <1>4. ChargesInv
    BY <1>1, FS_EmptySet DEF AssetsInit, ChargesInv
  <1>5. \A i \in Assets : Placed(i)
    BY <1>1 DEF AssetsInit, Placed, MovingIn
  <1>6. ASSUME NEW a \in Accounts
        PROVE  UpTo(journals, a, LastDay) = Total([i \in Assets |-> Posted(i, a)])
    <2>1. PICK f, g : /\ f = [e \in 1..LastDay |-> journals[a][e]]
                      /\ g = [i \in Assets |-> Posted(i, a)]
      OBVIOUS
    <2>2. f \in [Days -> Int] /\ IsFiniteSet(Days) /\ \A e \in Days : f[e] = 0
      BY <2>1, LastDayAssumption, FS_Interval DEF AssetsInit, Nothing, Days
    <2>3. g \in [Assets -> Int] /\ IsFiniteSet(Assets) /\ \A i \in Assets : g[i] = 0
      BY <1>1, <2>1, AssetsAssumption DEF Posted
    <2>4. Total(f) = 0 /\ Total(g) = 0
      BY <2>2, <2>3, TotalZero
    <2>5. QED
      BY <2>1, <2>4 DEF UpTo
  <1>7. QED
    BY <1>1, <1>3, <1>4, <1>5, <1>6 DEF AssetsInv, PostingsInv

(* What is posted otherwise concerns no asset. *)
LEMMA PostOtherKeeps ==
  ASSUME AssetsInv, NEW a \in Accounts, NEW d \in Days, NEW amount \in Amounts,
         PostOther(a, d, amount)
  PROVE  AssetsInv'
  <1>1. others' \in Books
    <2>1. others \in Books /\ amount \in Int
      BY AssetsAssumption DEF AssetsInv, AssetsTypeOK, Books
    <2>2. QED
      BY <2>1, MovedFacts DEF PostOther
  <1>2. UNCHANGED <<assets, transfers, charges, journals, disturbed>>
    BY DEF PostOther
  <1>3. AssetsTypeOK'
    BY <1>1, <1>2 DEF AssetsInv, AssetsTypeOK, Books
  <1>4. ChargesInv'
    BY <1>2 DEF AssetsInv, ChargesInv, ChargedTo, Registered, Mine, ChargeFor, PeriodStart, PeriodEnd
  <1>5. \A i \in Assets : Placed(i)'
    BY <1>2 DEF AssetsInv, Placed, Registered, MovingIn
  <1>6. PostingsInv'
    BY <1>2 DEF AssetsInv, PostingsInv, Posted, Registered, Kept, FirstAccount, UpTo
  <1>7. QED
    BY <1>3, <1>4, <1>5, <1>6 DEF AssetsInv

(* Registering posts nothing, and the asset is where it was bought. *)
LEMMA RegisterFixedAssetKeeps ==
  ASSUME AssetsInv, NEW i \in Assets, NEW a \in AcceptedForCost, NEW d \in Days,
         RegisterFixedAsset(i, a, d)
  PROVE  AssetsInv'
  <1>1. PICK plan \in Plans :
          assets' = [assets EXCEPT ![i] =
            [status |-> "active", bought |-> d, plan |-> plan, account |-> a,
             accumulatedIn |-> MainAccumulated, accumulated |-> 0, disposedOn |-> Never]]
    BY DEF RegisterFixedAsset
  <1>2. /\ i \notin Registered
        /\ UNCHANGED <<transfers, charges, others, journals, disturbed>>
    BY DEF RegisterFixedAsset
  <1>3. PICK row : row = [status |-> "active", bought |-> d, plan |-> plan, account |-> a,
                          accumulatedIn |-> MainAccumulated, accumulated |-> 0,
                          disposedOn |-> Never]
    OBVIOUS
  <1>4. row \in Asset /\ row # Unregistered
    <2>1. row \in Asset
      BY <1>3, AssetsAssumption DEF Asset
    <2>2. QED
      BY <2>1, RowsAreRegistered
  <1>5. /\ assets' \in [Assets -> Asset \cup {Unregistered}] /\ assets'[i] = row
        /\ \A j \in Assets : j # i => assets'[j] = assets[j]
    BY <1>1, <1>3, <1>4 DEF AssetsInv, AssetsTypeOK
  <1>6. AssetsTypeOK'
    BY <1>2, <1>5 DEF AssetsInv, AssetsTypeOK
  <1>7. Registered' = Registered \cup {i}
    BY <1>4, <1>5 DEF Registered
  <1>8. \A j \in Registered : j # i /\ assets'[j] = assets[j]
    BY <1>2, <1>5 DEF Registered
  <1>9. ChargesInv'
    <2>1. row.plan \in Plans /\ row.accumulated = 0 /\ row.status = "active"
      BY <1>3
    <2>2. \A j \in Registered' \ Registered : assets'[j] = row
      BY <1>5, <1>7
    <2>3. QED
      BY <1>2, <1>7, <1>8, <2>1, <2>2, ChargesStand DEF AssetsInv
  <1>10. ASSUME NEW j \in Assets PROVE Placed(j)'
    <2>1. CASE j = i
      <3>1. transfers'[i] = << >>
        BY <1>2 DEF AssetsInv, Placed
      <3>2. DOMAIN transfers'[i] = {}
        BY <3>1
      <3>3. QED
        BY <2>1, <3>1, <3>2 DEF Placed, MovingIn
    <2>2. CASE j # i
      <3>1. assets'[j] = assets[j] /\ (j \in Registered' <=> j \in Registered)
        BY <1>5, <1>7, <2>2
      <3>2. QED
        BY <1>2, <3>1 DEF AssetsInv, Placed, MovingIn
    <2>3. QED
      BY <2>1, <2>2
  <1>11. ASSUME disturbed' = {} PROVE
           /\ \A j \in Registered' : assets'[j].disposedOn # Never <=> assets'[j].status = "disposed"
           /\ \A b \in Accounts :
                UpTo(journals', b, LastDay) = Total([j \in Assets |-> Posted(j, b)])'
    <2>1. ASSUME NEW b \in Accounts, NEW j \in Assets PROVE Posted(j, b)' = Posted(j, b)
      <3>1. CASE j = i
        <4>1. transfers'[i] = << >>
          BY <1>2 DEF AssetsInv, Placed
        <4>2. FirstAccount(i)' = row.account
          BY <1>5, <4>1 DEF FirstAccount
        <4>3. row.plan.cost \in Nat
          BY <1>3, PlanFacts
        <4>4. Posted(i, b)' = 0
          BY <1>3, <1>5, <1>7, <4>2, <4>3 DEF Posted, Kept
        <4>5. QED
          BY <1>2, <3>1, <4>4 DEF Posted
      <3>2. CASE j # i
        <4>1. assets'[j] = assets[j] /\ (j \in Registered' <=> j \in Registered)
          BY <1>5, <1>7, <3>2
        <4>2. QED
          BY <1>2, <4>1 DEF Posted, Kept, FirstAccount
      <3>3. QED
        BY <3>1, <3>2
    <2>2. \A b \in Accounts : UpTo(journals', b, LastDay) = Total([j \in Assets |-> Posted(j, b)])'
      BY <1>2, <1>11, <2>1 DEF AssetsInv, PostingsInv
    <2>3. row.disposedOn = Never /\ row.status # "disposed"
      BY <1>3
    <2>4. \A j \in Registered' : assets'[j].disposedOn # Never <=> assets'[j].status = "disposed"
      BY <1>2, <1>5, <1>7, <1>8, <1>11, <2>3 DEF AssetsInv, PostingsInv
    <2>5. QED
      BY <2>2, <2>4
  <1>12. QED
    BY <1>6, <1>9, <1>10, <1>11 DEF AssetsInv, PostingsInv

(* Disposing of an asset takes out of its accounts all that stands there. *)
LEMMA DisposeAssetKeeps ==
  ASSUME AssetsInv, NEW i \in Assets, NEW d \in Days, DisposeAsset(i, d)
  PROVE  AssetsInv'
  <1>1. PICK row : row = [assets[i] EXCEPT !.status = "disposed", !.disposedOn = d]
    OBVIOUS
  <1>2. /\ i \in Registered /\ assets[i].status # "disposed"
        /\ UNCHANGED <<transfers, charges, others, disturbed>>
    BY DEF DisposeAsset
  <1>3. /\ assets[i] \in Asset /\ row \in Asset /\ row # Unregistered
        /\ row.status = "disposed" /\ row.disposedOn = d
        /\ row.plan = assets[i].plan /\ row.bought = assets[i].bought
        /\ row.account = assets[i].account /\ row.accumulatedIn = assets[i].accumulatedIn
        /\ row.accumulated = assets[i].accumulated
    <2>1. assets[i] \in Asset
      BY <1>2, RowFacts DEF AssetsInv
    <2>2. row \in Asset
      BY <1>1, <2>1 DEF Asset
    <2>3. QED
      BY <1>1, <2>1, <2>2, RowsAreRegistered DEF Asset
  <1>4. /\ assets' \in [Assets -> Asset \cup {Unregistered}] /\ assets'[i] = row
        /\ \A j \in Assets : j # i => assets'[j] = assets[j]
    BY <1>1, <1>3 DEF DisposeAsset, AssetsInv, AssetsTypeOK
  <1>5. Registered' = Registered
    BY <1>2, <1>3, <1>4 DEF Registered
  <1>6. PICK cost \in Nat, charged \in Nat :
          cost = assets[i].plan.cost /\ charged = assets[i].accumulated
    BY <1>2, RowFacts DEF AssetsInv
  <1>7. PICK to \in AcceptedForCost, accumulatedIn \in AccumulatedAccounts :
          to = assets[i].account /\ accumulatedIn = assets[i].accumulatedIn
    BY <1>2, RowFacts DEF AssetsInv
  <1>8. journals' = Moved(Moved(journals, accumulatedIn, d, charged), to, d, -cost)
    BY <1>6, <1>7 DEF DisposeAsset
  <1>9. PICK half : half = Moved(journals, accumulatedIn, d, charged)
    OBVIOUS
  <1>10. /\ half \in Books /\ journals' \in Books
         /\ \A a \in Accounts :
              /\ UpTo(half, a, LastDay)
                   = UpTo(journals, a, LastDay) + (IF a = accumulatedIn THEN charged ELSE 0)
              /\ UpTo(journals', a, LastDay)
                   = UpTo(half, a, LastDay) + (IF a = to THEN -cost ELSE 0)
    <2>1. /\ journals \in Books /\ to \in Accounts /\ accumulatedIn \in Accounts
          /\ charged \in Int /\ -cost \in Int
      BY DEF AssetsInv, AssetsTypeOK, Books, Accounts, AcceptedForCost
    <2>2. /\ half \in Books
          /\ \A a \in Accounts : UpTo(half, a, LastDay)
               = UpTo(journals, a, LastDay) + (IF a = accumulatedIn THEN charged ELSE 0)
      BY <1>9, <2>1, MovedFacts
    <2>3. /\ journals' \in Books
          /\ \A a \in Accounts : UpTo(journals', a, LastDay)
               = UpTo(half, a, LastDay) + (IF a = to THEN -cost ELSE 0)
      BY <1>8, <1>9, <2>1, <2>2, MovedFacts
    <2>4. QED
      BY <2>2, <2>3
  <1>11. AssetsTypeOK'
    BY <1>2, <1>4, <1>10 DEF AssetsInv, AssetsTypeOK, Books
  <1>12. ChargesInv'
    BY <1>2, <1>3, <1>4, <1>5, ChargesStand DEF AssetsInv, Registered
  <1>13. ASSUME NEW j \in Assets PROVE Placed(j)'
    <2>1. assets'[j].account = assets[j].account /\ assets'[j].accumulatedIn = assets[j].accumulatedIn
      BY <1>3, <1>4
    <2>2. QED
      BY <1>2, <1>5, <2>1 DEF AssetsInv, Placed, MovingIn
  <1>14. ASSUME disturbed' = {} PROVE
           /\ \A j \in Registered' : assets'[j].disposedOn # Never <=> assets'[j].status = "disposed"
           /\ \A a \in Accounts :
                UpTo(journals', a, LastDay) = Total([j \in Assets |-> Posted(j, a)])'
    <2>1. d # Never /\ Kept(i)
      BY <1>2, <1>14, LastDayAssumption DEF AssetsInv, PostingsInv, Never, Days, Kept
    <2>2. ASSUME NEW a \in Accounts
          PROVE  UpTo(journals', a, LastDay) = Total([j \in Assets |-> Posted(j, a)])'
      <3>1. PICK amount \in Int : amount = (IF a = accumulatedIn THEN charged ELSE 0)
                                           + (IF a = to THEN -cost ELSE 0)
        OBVIOUS
      <3>2. ASSUME NEW j \in Assets, j # i PROVE Posted(j, a)' = Posted(j, a)
        BY <1>2, <1>4, <1>5, <3>2 DEF Posted, Kept, FirstAccount
      <3>3. Posted(i, a)' = Posted(i, a) + amount
        <4>1. FirstAccount(i)' = FirstAccount(i) /\ ~Kept(i)'
          BY <1>2, <1>3, <1>4, <2>1 DEF FirstAccount, Kept
        <4>2. Posted(i, a)' = -(IF FirstAccount(i) = a THEN cost ELSE 0)
          BY <1>2, <1>3, <1>4, <1>5, <1>6, <4>1 DEF Posted
        <4>3. Posted(i, a) = (IF to = a THEN cost ELSE 0)
                             - (IF FirstAccount(i) = a THEN cost ELSE 0)
                             - (IF accumulatedIn = a THEN charged ELSE 0)
          BY <1>2, <1>6, <1>7, <2>1 DEF Posted
        <4>4. QED
          BY <3>1, <4>2, <4>3
      <3>4. Total([j \in Assets |-> Posted(j, a)])' = Total([j \in Assets |-> Posted(j, a)]) + amount
        BY <1>11, <3>2, <3>3, OneAssetPosts DEF AssetsInv
      <3>5. UpTo(journals, a, LastDay) = Total([j \in Assets |-> Posted(j, a)])
        BY <1>2, <1>14 DEF AssetsInv, PostingsInv
      <3>6. UpTo(journals, a, LastDay) \in Int
        BY UpToInt DEF AssetsInv, AssetsTypeOK, Books
      <3>7. UpTo(journals', a, LastDay) = UpTo(journals, a, LastDay) + amount
        BY <1>10, <3>1, <3>6
      <3>8. QED
        BY <3>4, <3>5, <3>7
    <2>3. \A j \in Registered' : assets'[j].disposedOn # Never <=> assets'[j].status = "disposed"
      BY <1>2, <1>3, <1>4, <1>5, <1>14, <2>1 DEF AssetsInv, PostingsInv, Registered
    <2>4. QED
      BY <2>2, <2>3
  <1>15. QED
    BY <1>11, <1>12, <1>13, <1>14 DEF AssetsInv, PostingsInv

(* The largest of some positions. *)
LEMMA LargestPosition ==
  ASSUME NEW n \in Nat, NEW S, S \subseteq 1..n, S # {}
  PROVE  Max(S) \in S /\ \A k \in S : k <= Max(S)
  <1> DEFINE Left == {n - k : k \in S}
  <1>1. Left \subseteq Nat /\ Left # {}
    <2>1. \A k \in S : n - k \in Nat
      OBVIOUS
    <2>2. PICK k \in S : TRUE
      OBVIOUS
    <2>3. n - k \in Left
      OBVIOUS
    <2>4. QED
      BY <2>1, <2>3
  <1>2. PICK l \in Left : \A q \in Left : l <= q
    <2> HIDE DEF Left
    <2>1. QED
      BY <1>1, SmallestNumber, Zenon
  <1>3. PICK m \in S : l = n - m
    BY <1>2
  <1>4. \A k \in S : m >= k
    <2>1. \A k \in S : n - m <= n - k
      BY <1>2, <1>3
    <2>2. QED
      BY <2>1
  <1>5. Max(S) \in S /\ \A k \in S : Max(S) >= k
    BY <1>4 DEF Max
  <1>6. QED
    BY <1>5

(* After its last transfer an asset is where its row says. *)
LEMMA WhereItIs ==
  ASSUME AssetsTypeOK, NEW i \in Assets, Placed(i), NEW d \in Int,
         \A k \in DOMAIN transfers[i] : transfers[i][k].date <= d
  PROVE  /\ AssetAccountOn(i, d) = assets[i].account
         /\ AccumulatedAccountOn(i, d) = assets[i].accumulatedIn
  <1>1. PICK moves : moves = transfers[i]
    OBVIOUS
  <1>2. moves \in Seq(Transfer) /\ Len(moves) \in Nat /\ DOMAIN moves = 1..Len(moves)
    BY <1>1 DEF AssetsTypeOK
  <1>3. AssetAccountOn(i, d) = assets[i].account
    <2>1. CASE moves = << >>
      BY <1>1, <2>1 DEF AssetAccountOn
    <2>2. CASE moves # << >>
      <3>1. {k \in DOMAIN moves : moves[k].date <= d} = 1..Len(moves)
        BY <1>1, <1>2
      <3>2. DoneBy(moves, d) = Len(moves)
        <4>1. Cardinality(1..Len(moves)) = Len(moves)
          BY <1>2, FS_Interval
        <4>2. QED
          BY <3>1, <4>1 DEF DoneBy
      <3>3. Len(moves) # 0
        BY <1>2, <2>2, EmptySeq
      <3>4. QED
        BY <1>1, <2>2, <3>2, <3>3 DEF AssetAccountOn, Placed
    <2>3. QED
      BY <2>1, <2>2
  <1>4. AccumulatedAccountOn(i, d) = assets[i].accumulatedIn
    <2>1. {k \in MovingIn(i) : moves[k].date <= d} = MovingIn(i)
      BY <1>1 DEF MovingIn
    <2>2. MovingIn(i) = {k \in DOMAIN moves : moves[k].toAccumulated # NoAccount}
      BY <1>1 DEF MovingIn
    <2>3. QED
      BY <1>1, <2>1, <2>2 DEF AccumulatedAccountOn, Placed
  <1>5. QED
    BY <1>3, <1>4

(* What is charged by a day an asset has no later charge of is all of it. *)
LEMMA ChargedByThen ==
  ASSUME AssetsTypeOK, ChargesInv, NEW i \in Registered, NEW d \in Days
  PROVE  /\ Sum(ChargesUntil(i, d)) \in Int
         /\ (~\E c \in charges : c.asset = i /\ c.end > d) =>
              Sum(ChargesUntil(i, d)) = assets[i].accumulated
  <1>1. Sum(ChargesUntil(i, d)) \in Int
    <2>1. PICK S : S = ChargesUntil(i, d)
      OBVIOUS
    <2>2. S \subseteq charges /\ IsFiniteSet(S) /\ \A c \in S : c.amount \in Int
      <3>1. S \subseteq charges
        BY <2>1 DEF ChargesUntil
      <3>2. QED
        BY <3>1, FS_Subset DEF ChargesInv, AssetsTypeOK, Charge
    <2>3. PICK f : f = [c \in S |-> c.amount]
      OBVIOUS
    <2>4. IsFiniteSet(DOMAIN f) /\ \A c \in DOMAIN f : f[c] \in Int
      BY <2>2, <2>3
    <2>5. QED
      BY <2>1, <2>3, <2>4, TotalInt DEF Sum
  <1>2. ASSUME ~\E c \in charges : c.asset = i /\ c.end > d
        PROVE  Sum(ChargesUntil(i, d)) = assets[i].accumulated
    <2>1. \A c \in charges : c.end \in Int /\ d \in Int
      BY LastDayAssumption DEF AssetsTypeOK, Charge, Days
    <2>2. ChargesUntil(i, d) = Mine(i)
      BY <1>2, <2>1 DEF ChargesUntil, Mine
    <2>3. PICK n \in Nat : ChargedTo(i, n)
      BY DEF ChargesInv
    <2>4. Sum(Mine(i)) = Schedule[assets[i].plan][n]
      BY <2>3, ChargesAddUp
    <2>5. QED
      BY <2>2, <2>3, <2>4 DEF ChargedTo
  <1>3. QED
    BY <1>1, <1>2

(* A transfer in date order moves the cost of an asset from the account its row *)
(* names, and what was charged with it, unless a later charge stays behind.     *)
LEMMA TransferFixedAssetKeeps ==
  ASSUME AssetsInv, NEW i \in Assets, NEW to \in AcceptedForCost, NEW asked \in AccumulatedAccounts,
         NEW d \in Days, TransferFixedAsset(i, to, asked, d)
  PROVE  AssetsInv'
  <1>1. /\ i \in Registered /\ assets[i].status # "disposed"
        /\ \A k \in DOMAIN transfers[i] : transfers[i][k].date <= d
        /\ UNCHANGED <<charges, others>>
    BY DEF TransferFixedAsset
  <1>2. PICK from \in AcceptedForCost, held \in AccumulatedAccounts :
          from = assets[i].account /\ held = assets[i].accumulatedIn
    BY <1>1, RowFacts DEF AssetsInv
  <1>3. AssetAccountOn(i, d) = from /\ AccumulatedAccountOn(i, d) = held
    BY <1>1, <1>2, WhereItIs, LastDayAssumption DEF AssetsInv, Days
  <1>4. PICK next : next = IF asked = held THEN NoAccount ELSE asked
    OBVIOUS
  <1>5. next \in AccumulatedAccounts \cup {NoAccount}
    BY <1>4
  <1>6. PICK move : move = [date |-> d, from |-> from, to |-> to, toAccumulated |-> next,
                            fromAccumulated |-> IF next = NoAccount THEN NoAccount ELSE held]
    OBVIOUS
  <1>7. /\ move \in Transfer /\ move.from = from /\ move.to = to /\ move.toAccumulated = next
        /\ next # NoAccount => move.fromAccumulated = held
    BY <1>5, <1>6 DEF Transfer
  <1>8. PICK row : row = [assets[i] EXCEPT !.account = to,
                            !.accumulatedIn = IF next = NoAccount THEN @ ELSE next]
    OBVIOUS
  <1>9. /\ row \in Asset /\ row # Unregistered
        /\ row.status = assets[i].status /\ row.disposedOn = assets[i].disposedOn
        /\ row.plan = assets[i].plan /\ row.bought = assets[i].bought
        /\ row.accumulated = assets[i].accumulated
        /\ row.account = to /\ row.accumulatedIn = IF next = NoAccount THEN held ELSE next
    <2>1. assets[i] \in Asset
      BY <1>1, RowFacts DEF AssetsInv
    <2>2. row \in Asset
      BY <1>5, <1>8, <2>1 DEF Asset
    <2>3. QED
      BY <1>2, <1>8, <2>1, <2>2, RowsAreRegistered DEF Asset
  <1>10. /\ transfers' = [transfers EXCEPT ![i] = Append(@, move)]
         /\ assets' = [assets EXCEPT ![i].account = to,
                         ![i].accumulatedIn = IF next = NoAccount THEN @ ELSE next]
         /\ journals' = AssetMoved(i, from, to, held, next, d)
         /\ disturbed' = IF next # NoAccount /\ \E c \in charges : c.asset = i /\ c.end > d
                         THEN disturbed \cup {i} ELSE disturbed
    BY <1>3, <1>4, <1>6 DEF TransferFixedAsset
  <1>11. /\ assets' \in [Assets -> Asset \cup {Unregistered}] /\ assets'[i] = row
         /\ \A j \in Assets : j # i => assets'[j] = assets[j]
    <2>1. assets \in [Assets -> Asset \cup {Unregistered}]
      BY DEF AssetsInv, AssetsTypeOK
    <2>2. assets' = [assets EXCEPT ![i] = row]
      BY <1>8, <1>10, <2>1
    <2>3. QED
      BY <1>9, <2>1, <2>2
  <1>12. Registered' = Registered
    BY <1>1, <1>9, <1>11 DEF Registered
  <1>13. PICK moves \in Seq(Transfer) : moves = transfers[i]
    BY DEF AssetsInv, AssetsTypeOK
  <1>14. /\ transfers' \in [Assets -> Seq(Transfer)] /\ transfers'[i] = Append(moves, move)
         /\ \A j \in Assets : j # i => transfers'[j] = transfers[j]
    <2>1. transfers \in [Assets -> Seq(Transfer)] /\ Append(moves, move) \in Seq(Transfer)
      BY <1>7, <1>13, AppendProperties DEF AssetsInv, AssetsTypeOK
    <2>2. QED
      BY <1>10, <1>13, <2>1
  <1>15. /\ Len(Append(moves, move)) = Len(moves) + 1 /\ Len(moves) \in Nat
         /\ DOMAIN moves = 1..Len(moves) /\ DOMAIN Append(moves, move) = 1..Len(moves) + 1
         /\ Append(moves, move)[Len(moves) + 1] = move
         /\ \A k \in 1..Len(moves) : Append(moves, move)[k] = moves[k]
    BY <1>7, <1>13, AppendProperties, LenProperties
  <1>16. PICK cost \in Nat, charged \in Int :
           cost = assets[i].plan.cost /\ charged = Sum(ChargesUntil(i, d))
    BY <1>1, RowFacts, ChargedByThen DEF AssetsInv
  <1>17. PICK there, moved, taken : /\ there = Moved(journals, to, d, cost)
                                    /\ moved = Moved(there, from, d, -cost)
                                    /\ taken = Moved(moved, held, d, charged)
    OBVIOUS
  <1>18. /\ from \in Accounts /\ to \in Accounts /\ held \in Accounts
         /\ next # NoAccount => next \in Accounts
         /\ journals \in Books /\ cost \in Int /\ -cost \in Int /\ -charged \in Int
    BY <1>5 DEF AssetsInv, AssetsTypeOK, Books, Accounts, AcceptedForCost
  <1>19. /\ there \in Books
         /\ \A a \in Accounts : UpTo(there, a, LastDay)
              = UpTo(journals, a, LastDay) + (IF a = to THEN cost ELSE 0)
    BY <1>17, <1>18, MovedFacts
  <1>20. /\ moved \in Books
         /\ \A a \in Accounts : UpTo(moved, a, LastDay)
              = UpTo(there, a, LastDay) + (IF a = from THEN -cost ELSE 0)
    BY <1>17, <1>18, <1>19, MovedFacts
  <1>21. /\ taken \in Books
         /\ \A a \in Accounts : UpTo(taken, a, LastDay)
              = UpTo(moved, a, LastDay) + (IF a = held THEN charged ELSE 0)
    BY <1>17, <1>18, <1>20, MovedFacts
  <1>22. /\ next = NoAccount => journals' = moved
         /\ next # NoAccount => journals' = Moved(taken, next, d, -charged)
    BY <1>10, <1>16, <1>17 DEF AssetMoved
  <1>23. next # NoAccount =>
           /\ journals' \in Books
           /\ \A a \in Accounts : UpTo(journals', a, LastDay)
                = UpTo(taken, a, LastDay) + (IF a = next THEN -charged ELSE 0)
    BY <1>18, <1>21, <1>22, MovedFacts
  <1>24. AssetsTypeOK'
    <2>1. journals' \in Books
      BY <1>20, <1>22, <1>23
    <2>2. disturbed' \subseteq Assets
      BY <1>10 DEF AssetsInv, AssetsTypeOK
    <2>3. QED
      BY <1>1, <1>11, <1>14, <2>1, <2>2 DEF AssetsInv, AssetsTypeOK, Books
  <1>25. ChargesInv'
    BY <1>1, <1>9, <1>11, <1>12, ChargesStand DEF AssetsInv, Registered
  <1>26. ASSUME NEW j \in Assets PROVE Placed(j)'
    <2>1. CASE j # i
      <3>1. assets'[j] = assets[j] /\ transfers'[j] = transfers[j]
        BY <1>11, <1>14, <2>1
      <3>2. QED
        BY <1>12, <3>1 DEF AssetsInv, Placed, MovingIn
    <2>2. CASE j = i
      <3>1. MovingIn(i) \subseteq 1..Len(moves)
        BY <1>13, <1>15 DEF MovingIn
      <3>2. CASE next = NoAccount
        <4>1. MovingIn(i)' = MovingIn(i)
          BY <1>7, <1>13, <1>14, <1>15, <3>2 DEF MovingIn
        <4>2. \A k \in MovingIn(i) : transfers'[i][k] = transfers[i][k]
          BY <1>13, <1>14, <1>15, <3>1
        <4>3. MovingIn(i) # {} => Max(MovingIn(i)) \in MovingIn(i)
          BY <1>15, <3>1, LargestPosition
        <4>4. transfers'[i][Len(transfers'[i])].to = assets'[i].account
          BY <1>7, <1>9, <1>11, <1>14, <1>15
        <4>5. assets'[i].accumulatedIn = assets[i].accumulatedIn
          BY <1>2, <1>9, <1>11, <3>2
        <4>6. Placed(i)
          BY DEF AssetsInv
        <4>7. QED
          BY <1>1, <1>12, <2>2, <4>1, <4>2, <4>3, <4>4, <4>5, <4>6 DEF Placed
      <3>3. CASE next # NoAccount
        <4>1. MovingIn(i)' = MovingIn(i) \cup {Len(moves) + 1}
          BY <1>7, <1>13, <1>14, <1>15, <3>3 DEF MovingIn
        <4>2. Max(MovingIn(i)') = Len(moves) + 1
          <5>1. MovingIn(i)' \subseteq 1..Len(moves) + 1 /\ MovingIn(i)' # {}
            BY <1>15, <3>1, <4>1
          <5>2. /\ Max(MovingIn(i)') \in MovingIn(i)'
                /\ \A k \in MovingIn(i)' : k <= Max(MovingIn(i)')
            BY <1>15, <5>1, LargestPosition
          <5>3. Len(moves) + 1 <= Max(MovingIn(i)') /\ Max(MovingIn(i)') \in 1..Len(moves) + 1
            BY <4>1, <5>1, <5>2
          <5>4. QED
            BY <1>15, <5>3
        <4>3. \A k \in MovingIn(i) : transfers'[i][k] = transfers[i][k]
          BY <1>13, <1>14, <1>15, <3>1
        <4>4. transfers'[i][Len(moves) + 1] = move /\ Len(transfers'[i]) = Len(moves) + 1
          BY <1>14, <1>15
        <4>5. \A k \in MovingIn(i)' : transfers'[i][k].fromAccumulated \in AccumulatedAccounts
          BY <1>7, <3>3, <4>1, <4>3, <4>4 DEF AssetsInv, Placed
        <4>6. assets'[i].account = to /\ assets'[i].accumulatedIn = next
          BY <1>9, <1>11, <3>3
        <4>7. QED
          BY <1>1, <1>7, <1>12, <2>2, <4>2, <4>4, <4>5, <4>6 DEF Placed
      <3>4. QED
        BY <3>2, <3>3
    <2>3. QED
      BY <2>1, <2>2
  <1>27. ASSUME disturbed' = {} PROVE
           /\ \A j \in Registered' : assets'[j].disposedOn # Never <=> assets'[j].status = "disposed"
           /\ \A a \in Accounts :
                UpTo(journals', a, LastDay) = Total([j \in Assets |-> Posted(j, a)])'
    <2>1. disturbed = {} /\ (next # NoAccount => ~\E c \in charges : c.asset = i /\ c.end > d)
      BY <1>10, <1>27
    <2>2. Kept(i) /\ Kept(i)'
      BY <1>1, <1>9, <1>11, <2>1 DEF AssetsInv, PostingsInv, Kept
    <2>3. next # NoAccount => charged = assets[i].accumulated
      BY <1>1, <1>16, <2>1, ChargedByThen DEF AssetsInv
    <2>4. FirstAccount(i)' = FirstAccount(i)
      <3>1. CASE moves = << >>
        <4>1. Len(moves) = 0
          BY <3>1
        <4>2. transfers'[i][1] = move /\ transfers'[i] # << >>
          <5>1. Append(moves, move)[1] = move /\ Len(Append(moves, move)) = 1
            BY <1>15, <4>1
          <5>2. Len(<< >>) = 0
            OBVIOUS
          <5>3. QED
            BY <1>14, <5>1, <5>2
        <4>3. QED
          BY <1>2, <1>7, <1>13, <3>1, <4>2 DEF FirstAccount
      <3>2. CASE moves # << >>
        <4>1. 1 \in 1..Len(moves)
          BY <1>13, <1>15, <3>2, EmptySeq
        <4>2. transfers'[i][1] = moves[1] /\ transfers'[i] # << >>
          BY <1>14, <1>15, <4>1
        <4>3. QED
          BY <1>13, <3>2, <4>2 DEF FirstAccount
      <3>3. QED
        BY <3>1, <3>2
    <2>5. ASSUME NEW a \in Accounts
          PROVE  UpTo(journals', a, LastDay) = Total([j \in Assets |-> Posted(j, a)])'
      <3>1. PICK sum \in Nat, first \in Int :
              /\ sum = assets[i].accumulated
              /\ first = IF FirstAccount(i) = a THEN cost ELSE 0
        BY <1>1, RowFacts DEF AssetsInv
      <3>2. PICK amount \in Int :
              amount = (IF a = to THEN cost ELSE 0) + (IF a = from THEN -cost ELSE 0)
                       + (IF next # NoAccount /\ a = held THEN sum ELSE 0)
                       + (IF next # NoAccount /\ a = next THEN -sum ELSE 0)
        OBVIOUS
      <3>3. ASSUME NEW j \in Assets, j # i PROVE Posted(j, a)' = Posted(j, a)
        BY <1>11, <1>12, <1>14, <3>3 DEF Posted, Kept, FirstAccount
      <3>4. Posted(i, a)' = Posted(i, a) + amount
        <4>1. Posted(i, a) = (IF from = a THEN cost ELSE 0) - first - (IF held = a THEN sum ELSE 0)
          BY <1>1, <1>2, <1>16, <2>2, <3>1 DEF Posted
        <4>2. Posted(i, a)' = (IF to = a THEN cost ELSE 0) - first
                              - (IF row.accumulatedIn = a THEN sum ELSE 0)
          BY <1>1, <1>9, <1>11, <1>12, <1>16, <2>2, <2>4, <3>1 DEF Posted
        <4>3. row.accumulatedIn = IF next = NoAccount THEN held ELSE next
          BY <1>9
        <4>4. QED
          BY <3>2, <4>1, <4>2, <4>3
      <3>5. Total([j \in Assets |-> Posted(j, a)])' = Total([j \in Assets |-> Posted(j, a)]) + amount
        BY <1>24, <3>3, <3>4, OneAssetPosts DEF AssetsInv
      <3>6. UpTo(journals, a, LastDay) = Total([j \in Assets |-> Posted(j, a)])
        BY <2>1 DEF AssetsInv, PostingsInv
      <3>7. UpTo(journals, a, LastDay) \in Int
        BY <1>18, UpToInt
      <3>8. UpTo(journals', a, LastDay) = UpTo(journals, a, LastDay) + amount
        <4>1. CASE next = NoAccount
          BY <1>19, <1>20, <1>22, <3>2, <3>7, <4>1
        <4>2. CASE next # NoAccount
          <5>1. PICK before \in Int : before = UpTo(journals, a, LastDay)
            BY <3>7
          <5>2. UpTo(there, a, LastDay) = before + (IF a = to THEN cost ELSE 0)
            BY <1>19, <5>1
          <5>3. UpTo(moved, a, LastDay)
                  = UpTo(there, a, LastDay) + (IF a = from THEN -cost ELSE 0)
            BY <1>20
          <5>4. UpTo(taken, a, LastDay)
                  = UpTo(moved, a, LastDay) + (IF a = held THEN sum ELSE 0)
            BY <1>21, <2>3, <3>1, <4>2
          <5>5. UpTo(journals', a, LastDay)
                  = UpTo(taken, a, LastDay) + (IF a = next THEN -sum ELSE 0)
            BY <1>23, <2>3, <3>1, <4>2
          <5>6. QED
            BY <3>2, <4>2, <5>1, <5>2, <5>3, <5>4, <5>5
        <4>3. QED
          BY <4>1, <4>2
      <3>9. QED
        BY <3>5, <3>6, <3>8
    <2>6. \A j \in Registered' : assets'[j].disposedOn # Never <=> assets'[j].status = "disposed"
      BY <1>9, <1>11, <1>12, <2>1 DEF AssetsInv, PostingsInv, Registered
    <2>7. QED
      BY <2>5, <2>6
  <1>28. QED
    BY <1>24, <1>25, <1>26, <1>27 DEF AssetsInv, PostingsInv

LEMMA DaysAreFinite == IsFiniteSet(Days)
  <1>1. PICK last \in Nat : last = LastDay
    BY LastDayAssumption
  <1>2. IsFiniteSet(1..last)
    BY FS_Interval
  <1>3. QED
    BY <1>1, <1>2 DEF Days

(* What charges come to, day by day and asset by asset. *)
LEMMA ChargesGrouped ==
  ASSUME NEW cs, IsFiniteSet(cs),
         \A c \in cs : c.amount \in Int /\ c.end \in Days /\ c.asset \in Assets
  PROVE  /\ Sum(cs) \in Int
         /\ \A S \in SUBSET cs : Sum(S) \in Int
         /\ Total([d \in Days |-> Sum({c \in cs : c.end = d})]) = Sum(cs)
         /\ Total([i \in Assets |-> Sum({c \in cs : c.asset = i})]) = Sum(cs)
  <1>1. ASSUME NEW S \in SUBSET cs PROVE Sum(S) \in Int
    <2>1. PICK f : f = [c \in S |-> c.amount]
      OBVIOUS
    <2>2. IsFiniteSet(DOMAIN f) /\ \A c \in DOMAIN f : f[c] \in Int
      BY <2>1, FS_Subset
    <2>3. QED
      BY <2>1, <2>2, TotalInt DEF Sum
  <1>2. PICK f, end, asset : /\ f = [c \in cs |-> c.amount] /\ end = [c \in cs |-> c.end]
                             /\ asset = [c \in cs |-> c.asset]
    OBVIOUS
  <1>3. /\ IsFiniteSet(Days) /\ IsFiniteSet(Assets)
        /\ \A c \in cs : f[c] \in Int /\ end[c] \in Days /\ asset[c] \in Assets
    <2>1. IsFiniteSet(Days) /\ IsFiniteSet(Assets)
      BY DaysAreFinite, AssetsAssumption
    <2>2. QED
      BY <1>2, <2>1
  <1>4. [c \in cs |-> f[c]] = f /\ Total(f) = Sum(cs)
    BY <1>2 DEF Sum
  <1>5. ASSUME NEW key, NEW k, NEW S, S = {c \in cs : key[c] = k}
        PROVE  OfKey(f, key, cs, k) = Sum(S)
    <2>1. [c \in S |-> f[c]] = [c \in S |-> c.amount]
      BY <1>2, <1>5
    <2>2. QED
      BY <1>5, <2>1 DEF OfKey, Sum
  <1>6. Total([d \in Days |-> OfKey(f, end, cs, d)]) = Total(f)
    <2>1. PICK parts : parts = [d \in Days |-> OfKey(f, end, cs, d)]
      OBVIOUS
    <2>2. /\ DOMAIN parts = Days /\ \A d \in Days : parts[d] = OfKey(f, end, cs, d)
          /\ DOMAIN f = cs
      BY <1>2, <2>1
    <2>3. IsFiniteSet(Days) /\ \A c \in cs : f[c] \in Int /\ end[c] \in Days
      BY <1>3
    <2>4. Total(parts) = Total(f)
      BY ONLY IsFiniteSet(cs), <2>2, <2>3, TotalGrouped
    <2>5. QED
      BY <2>1, <2>4
  <1>7. Total([i \in Assets |-> OfKey(f, asset, cs, i)]) = Total(f)
    <2>1. PICK parts : parts = [i \in Assets |-> OfKey(f, asset, cs, i)]
      OBVIOUS
    <2>2. /\ DOMAIN parts = Assets /\ \A i \in Assets : parts[i] = OfKey(f, asset, cs, i)
          /\ DOMAIN f = cs
      BY <1>2, <2>1
    <2>3. IsFiniteSet(Assets) /\ \A c \in cs : f[c] \in Int /\ asset[c] \in Assets
      BY <1>3
    <2>4. Total(parts) = Total(f)
      BY ONLY IsFiniteSet(cs), <2>2, <2>3, TotalGrouped
    <2>5. QED
      BY <2>1, <2>4
  <1>8. \A d \in Days : OfKey(f, end, cs, d) = Sum({c \in cs : c.end = d})
    <2>1. ASSUME NEW d \in Days PROVE OfKey(f, end, cs, d) = Sum({c \in cs : c.end = d})
      <3>1. {c \in cs : c.end = d} = {c \in cs : end[c] = d}
        BY <1>2
      <3>2. QED
        BY <1>5, <3>1
    <2>2. QED
      BY <2>1
  <1>9. \A i \in Assets : OfKey(f, asset, cs, i) = Sum({c \in cs : c.asset = i})
    <2>1. ASSUME NEW i \in Assets PROVE OfKey(f, asset, cs, i) = Sum({c \in cs : c.asset = i})
      <3>1. {c \in cs : c.asset = i} = {c \in cs : asset[c] = i}
        BY <1>2
      <3>2. QED
        BY <1>5, <3>1
    <2>2. QED
      BY <2>1
  <1>10. QED
    BY <1>1, <1>4, <1>6, <1>7, <1>8, <1>9

\* What a run posts for the months due of the assets it finds.
ChargesOf(i, upTo) == {ChargeFor(i, k) : k \in Due(i, upTo)}
ChargesOn(upTo) == UNION {ChargesOf(i, upTo) : i \in DepreciatedUpTo(upTo)}

(* What a run adds to an asset: months that follow those charged, which come to *)
(* what the schedule says of them.                                              *)
LEMMA MonthsDue ==
  ASSUME AssetsTypeOK, ChargesInv, NEW upTo \in Days, NEW i \in DepreciatedUpTo(upTo)
  PROVE  /\ IsFiniteSet(ChargesOf(i, upTo)) /\ ChargesOf(i, upTo) \subseteq Charge
         /\ \A c \in ChargesOf(i, upTo) : c.asset = i
         /\ \E n \in Nat, m \in Nat \ {0} :
              /\ n < m /\ m <= assets[i].plan.months /\ 1..m \subseteq Periods(assets[i].plan)
              /\ Mine(i) = {ChargeFor(i, k) : k \in 1..n}
              /\ ChargesOf(i, upTo) = {ChargeFor(i, k) : k \in (n + 1)..m}
              /\ assets[i].accumulated = Schedule[assets[i].plan][n]
              /\ Depreciated(i, Due(i, upTo)).accumulated = Schedule[assets[i].plan][m]
              /\ Sum(ChargesOf(i, upTo)) = Schedule[assets[i].plan][m] - Schedule[assets[i].plan][n]
  <1>1. i \in Registered /\ i \in Assets /\ Due(i, upTo) # {}
    BY DEF DepreciatedUpTo, Registered
  <1>2. PICK n \in Nat : ChargedTo(i, n)
    BY <1>1 DEF ChargesInv
  <1>3. PICK m \in 1..assets[i].plan.months :
          /\ n < m /\ m \in Due(i, upTo) /\ (\A j \in Due(i, upTo) : j <= m)
          /\ Due(i, upTo) = (n + 1)..m
          /\ 1..m \subseteq Periods(assets[i].plan)
          /\ \A k \in Due(i, upTo) : PeriodEnd(assets[i], k) <= upTo
    BY <1>1, <1>2, DueFollows
  <1>4. PICK p \in Plans : p = assets[i].plan
    BY <1>1, RowFacts
  <1>5. /\ p.months \in Nat /\ m \in Nat \ {0} /\ m <= p.months /\ n \in 0..p.months
        /\ m \in 0..p.months
    BY <1>2, <1>3, <1>4, PlanFacts DEF ChargedTo
  <1>6. (n + 1)..m \subseteq 1..p.months
    BY <1>5
  <1>7. ChargesOf(i, upTo) = {ChargeFor(i, k) : k \in (n + 1)..m}
    BY <1>3 DEF ChargesOf
  <1>8. /\ IsFiniteSet(ChargesOf(i, upTo)) /\ IsFiniteSet((n + 1)..m)
        /\ Sum(ChargesOf(i, upTo)) = Total([k \in (n + 1)..m |-> AmountOf(p, k)])
    BY <1>1, <1>4, <1>6, <1>7, MonthsAreCharges
  <1>9. ASSUME NEW k \in Due(i, upTo) PROVE ChargeFor(i, k) \in Charge
    <2>1. k \in Nat \ {0} /\ k \in Periods(p)
      BY <1>3, <1>4, <1>5
    <2>2. AmountOf(p, k) \in Nat \ {0}
      BY <2>1, AmountFacts
    <2>3. /\ PeriodStart(assets[i], k) \in Nat \ {0} /\ PeriodEnd(assets[i], k) \in Nat
          /\ PeriodStart(assets[i], k) <= PeriodEnd(assets[i], k)
      BY <1>1, <2>1, RowFacts, PeriodsInOrder
    <2>4. PeriodEnd(assets[i], k) <= upTo
      BY <1>3
    <2>5. PeriodStart(assets[i], k) \in Days /\ PeriodEnd(assets[i], k) \in Days
      BY <2>3, <2>4, LastDayAssumption DEF Days
    <2>6. QED
      BY <1>1, <1>4, <2>2, <2>5 DEF ChargeFor, Charge
  <1>10. Depreciated(i, Due(i, upTo)).accumulated = Schedule[p][m]
    <2>1. (CHOOSE k \in Due(i, upTo) : \A j \in Due(i, upTo) : j <= k) = m
      <3>1. PICK l : l = CHOOSE k \in Due(i, upTo) : \A j \in Due(i, upTo) : j <= k
        OBVIOUS
      <3>2. l \in Due(i, upTo) /\ \A j \in Due(i, upTo) : j <= l
        BY <1>3, <3>1
      <3>3. l <= m /\ m <= l /\ l \in Nat
        BY <1>3, <1>5, <3>2
      <3>4. QED
        BY <1>5, <3>1, <3>3
    <2>2. assets[i] \in Asset
      BY <1>1, RowFacts
    <2>3. QED
      BY <1>4, <2>1, <2>2 DEF Depreciated, Asset
  <1>11. Total([k \in (n + 1)..m |-> AmountOf(p, k)]) = Schedule[p][m] - Schedule[p][n]
    <2>1. PICK f, g, h : /\ f = [k \in 1..m |-> AmountOf(p, k)]
                         /\ g = [k \in 1..n |-> AmountOf(p, k)]
                         /\ h = [k \in (n + 1)..m |-> AmountOf(p, k)]
      OBVIOUS
    <2>2. /\ IsFiniteSet(DOMAIN f) /\ \A k \in DOMAIN f : f[k] \in Int
          /\ DOMAIN g \cup DOMAIN h = DOMAIN f /\ DOMAIN g \cap DOMAIN h = {}
          /\ \A k \in DOMAIN g : g[k] = f[k]
          /\ \A k \in DOMAIN h : h[k] = f[k]
      <3>1. IsFiniteSet(1..m) /\ 1..m \subseteq 1..p.months
        BY <1>5, FS_Interval
      <3>2. \A k \in 1..m : AmountOf(p, k) \in Int
        BY <3>1, AmountFacts
      <3>3. (1..n) \cup ((n + 1)..m) = 1..m /\ (1..n) \cap ((n + 1)..m) = {}
        BY <1>3, <1>5
      <3>4. QED
        BY <2>1, <3>1, <3>2, <3>3
    <2>3. Total(f) = Total(g) + Total(h)
      BY <2>2, TotalOfTwo
    <2>4. Total(f) = Schedule[p][m] /\ Total(g) = Schedule[p][n]
      BY <1>5, <2>1, MonthsAddUp
    <2>5. Total(h) \in Int
      <3>1. IsFiniteSet(DOMAIN h) /\ \A k \in DOMAIN h : h[k] \in Int
        BY <1>8, <2>1, <2>2
      <3>2. QED
        BY <3>1, TotalInt
    <2>6. Schedule[p][n] \in Int
      BY <1>5, ScheduleRises, PlanFacts
    <2>7. QED
      BY <2>1, <2>3, <2>4, <2>5, <2>6
  <1>12. ChargesOf(i, upTo) \subseteq Charge /\ \A c \in ChargesOf(i, upTo) : c.asset = i
    BY <1>9 DEF ChargesOf, ChargeFor
  <1>13. Mine(i) = {ChargeFor(i, k) : k \in 1..n} /\ assets[i].accumulated = Schedule[p][n]
    BY <1>2, <1>4 DEF ChargedTo
  <1>14. QED
    BY <1>3, <1>4, <1>5, <1>7, <1>8, <1>10, <1>11, <1>12, <1>13

(* A run posts whole months: finitely many, each of the register's own kind. *)
LEMMA ChargesOnTyped ==
  ASSUME AssetsTypeOK, ChargesInv, NEW upTo \in Days
  PROVE  /\ IsFiniteSet(ChargesOn(upTo)) /\ ChargesOn(upTo) \subseteq Charge
         /\ \A c \in ChargesOn(upTo) : c.asset \in DepreciatedUpTo(upTo)
         /\ \A i \in DepreciatedUpTo(upTo) :
              {c \in ChargesOn(upTo) : c.asset = i} = ChargesOf(i, upTo)
  <1>1. PICK D : D = DepreciatedUpTo(upTo)
    OBVIOUS
  <1>2. \A i \in D : /\ IsFiniteSet(ChargesOf(i, upTo)) /\ ChargesOf(i, upTo) \subseteq Charge
                     /\ \A c \in ChargesOf(i, upTo) : c.asset = i
    BY <1>1, MonthsDue
  <1>3. IsFiniteSet(D)
    <2>1. D \subseteq Assets
      BY <1>1 DEF DepreciatedUpTo, Registered
    <2>2. QED
      BY <2>1, AssetsAssumption, FS_Subset
  <1>4. PICK All : All = {ChargesOf(i, upTo) : i \in D}
    OBVIOUS
  <1>5. IsFiniteSet(All)
    <2> DEFINE f == [i \in D |-> ChargesOf(i, upTo)]
    <2>1. f \in [D -> All] /\ \A S \in All : \E i \in D : f[i] = S
      BY <1>4
    <2> HIDE DEF f
    <2>2. f \in Surjection(D, All)
      BY <2>1, Fun_IsSurj
    <2>3. QED
      BY <1>3, <2>2, FS_Surjection
  <1>6. ChargesOn(upTo) = UNION All /\ \A S \in All : IsFiniteSet(S)
    BY <1>1, <1>2, <1>4 DEF ChargesOn
  <1>7. IsFiniteSet(ChargesOn(upTo))
    BY <1>5, <1>6, FS_UNION
  <1>8. \A c : c \in ChargesOn(upTo) <=> \E i \in D : c \in ChargesOf(i, upTo)
    BY <1>1 DEF ChargesOn
  <1>9. QED
    BY <1>1, <1>2, <1>7, <1>8

OnDay(cs, d) == Sum({c \in cs : c.end = d})
OfAsset(cs, i) == Sum({c \in cs : c.asset = i})

(* What a run posts on an account is what it adds to the assets it is of. *)
LEMMA RunPosts ==
  ASSUME AssetsTypeOK, ChargesInv, NEW upTo \in Days, NEW a \in Accounts, NEW added,
         added \subseteq ChargesOn(upTo),
         NEW book, \A d \in Days : book[a][d] = journals[a][d] - OnDay(added, d),
         NEW v, v = [i \in Assets |-> -OfAsset(added, i)]
  PROVE  UpTo(book, a, LastDay) = UpTo(journals, a, LastDay) + Total(v)
  <1>1. /\ IsFiniteSet(added) /\ added \subseteq Charge
        /\ \A c \in added : c.amount \in Int /\ c.end \in Days /\ c.asset \in Assets
    <2>1. IsFiniteSet(added) /\ added \subseteq Charge
      BY ChargesOnTyped, FS_Subset
    <2>2. QED
      BY <2>1 DEF Charge
  <1>2. /\ Sum(added) \in Int /\ \A S \in SUBSET added : Sum(S) \in Int
        /\ Total([d \in Days |-> Sum({c \in added : c.end = d})]) = Sum(added)
        /\ Total([i \in Assets |-> Sum({c \in added : c.asset = i})]) = Sum(added)
    BY <1>1, ChargesGrouped
  <1>3. PICK f, g, e, h, u :
          /\ f = [d \in Days |-> journals[a][d]]
          /\ g = [d \in Days |-> Sum({c \in added : c.end = d})]
          /\ e = [d \in Days |-> -g[d]]
          /\ h = [d \in Days |-> book[a][d]]
          /\ u = [i \in Assets |-> Sum({c \in added : c.asset = i})]
    OBVIOUS
  <1>4. IsFiniteSet(Days) /\ IsFiniteSet(Assets)
    BY DaysAreFinite, AssetsAssumption
  <1>5. f \in [Days -> Int]
    BY <1>3 DEF AssetsTypeOK
  <1>6. g \in [Days -> Int]
    <2>1. \A d \in Days : {c \in added : c.end = d} \in SUBSET added
      OBVIOUS
    <2>2. QED
      BY <1>2, <1>3, <2>1
  <1>7. u \in [Assets -> Int]
    <2>1. \A i \in Assets : {c \in added : c.asset = i} \in SUBSET added
      OBVIOUS
    <2>2. QED
      BY <1>2, <1>3, <2>1
  <1>8. \A d \in Days : h[d] = f[d] + e[d] /\ f[d] \in Int /\ e[d] \in Int
    <2>1. ASSUME NEW d \in Days PROVE h[d] = f[d] - g[d]
      <3>1. book[a][d] = journals[a][d] - Sum({c \in added : c.end = d})
        BY DEF OnDay
      <3>2. QED
        BY <1>3, <3>1
    <2>2. \A d \in Days : f[d] \in Int /\ g[d] \in Int
      BY <1>5, <1>6
    <2>3. \A d \in Days : e[d] = -g[d]
      BY <1>3
    <2>4. QED
      BY <2>1, <2>2, <2>3
  <1>9. Total(h) = Total(f) + Total(e)
    <2>1. DOMAIN h = Days /\ DOMAIN f = Days /\ DOMAIN e = Days
      BY <1>3
    <2>2. QED
      BY <1>4, <1>8, <2>1, TotalSum
  <1>10. Total(e) = -Sum(added) /\ Total(v) = -Sum(added)
    <2>1. Total(g) = Sum(added) /\ Total(u) = Sum(added)
      BY <1>2, <1>3
    <2>2. Total(e) = -Total(g)
      BY <1>3, <1>4, <1>6, TotalMinus
    <2>3. Total(v) = -Total(u)
      <3>1. v = [i \in Assets |-> -u[i]]
        BY <1>3 DEF OfAsset
      <3>2. QED
        BY <1>4, <1>7, <3>1, TotalMinus
    <2>4. QED
      BY <2>1, <2>2, <2>3
  <1>11. UpTo(book, a, LastDay) = Total(h) /\ UpTo(journals, a, LastDay) = Total(f)
    BY <1>3 DEF UpTo, Days
  <1>12. QED
    BY <1>9, <1>10, <1>11

(* A run leaves what its journals come to equal to what its assets have. *)
LEMMA PostDepreciationKeeps ==
  ASSUME AssetsInv, NEW upTo \in Days, PostDepreciation(upTo)
  PROVE  AssetsInv'
  <1>1. PICK D : D = DepreciatedUpTo(upTo)
    OBVIOUS
  <1>2. /\ D \subseteq Registered /\ D \subseteq Assets
        /\ \A i \in D : /\ assets[i] \in Asset
                        /\ ~(assets[i].status = "disposed" /\ assets[i].disposedOn <= upTo)
    BY <1>1, RowFacts DEF DepreciatedUpTo, Registered, AssetsInv
  <1>3. PICK new : new = ChargesOn(upTo)
    OBVIOUS
  <1>4. /\ charges' = charges \cup new
        /\ journals' = [b \in Accounts |-> [d \in Days |->
             journals[b][d] - Sum({c \in new : assets[c.asset].accumulatedIn = b /\ c.end = d})]]
        /\ assets' = [i \in Assets |-> IF i \in D THEN Depreciated(i, Due(i, upTo)) ELSE assets[i]]
        /\ disturbed' = disturbed \cup {i \in D : assets[i].disposedOn # Never}
        /\ UNCHANGED <<transfers, others>>
    <2>1. PICK due, added :
            /\ due = [i \in D |-> Due(i, upTo)]
            /\ added = UNION {{ChargeFor(i, k) : k \in due[i]} : i \in DOMAIN due}
      OBVIOUS
    <2>2. DOMAIN due = D /\ \A i \in D : due[i] = Due(i, upTo)
      BY <2>1
    <2>3. added = new
      <3>1. \A i \in D : {ChargeFor(i, k) : k \in due[i]} = ChargesOf(i, upTo)
        BY <2>2 DEF ChargesOf
      <3>2. {{ChargeFor(i, k) : k \in due[i]} : i \in DOMAIN due} = {ChargesOf(i, upTo) : i \in D}
        BY <2>2, <3>1
      <3>3. QED
        BY <1>1, <1>3, <2>1, <3>2 DEF ChargesOn
    <2>4. /\ charges' = charges \cup added
          /\ journals' = [b \in Accounts |-> [d \in Days |->
               journals[b][d] - Sum({c \in added : assets[c.asset].accumulatedIn = b /\ c.end = d})]]
          /\ assets' = [i \in Assets |-> IF i \in DOMAIN due THEN Depreciated(i, due[i]) ELSE assets[i]]
          /\ disturbed' = disturbed \cup {i \in DOMAIN due : assets[i].disposedOn # Never}
          /\ UNCHANGED <<transfers, others>>
      BY <1>1, <2>1 DEF PostDepreciation
    <2>5. assets' = [i \in Assets |-> IF i \in D THEN Depreciated(i, Due(i, upTo)) ELSE assets[i]]
      BY <2>2, <2>4
    <2>6. QED
      BY <2>2, <2>3, <2>4, <2>5
  <1>5. /\ IsFiniteSet(new) /\ new \subseteq Charge
        /\ \A c \in new : c.asset \in D
        /\ \A i \in D : {c \in new : c.asset = i} = ChargesOf(i, upTo)
    BY <1>1, <1>3, ChargesOnTyped DEF AssetsInv
  <1>6. ASSUME NEW i \in D
        PROVE  /\ assets'[i].plan = assets[i].plan /\ assets'[i].bought = assets[i].bought
               /\ assets'[i].account = assets[i].account
               /\ assets'[i].accumulatedIn = assets[i].accumulatedIn
               /\ assets'[i].disposedOn = assets[i].disposedOn
               /\ assets'[i].accumulated \in Nat
               /\ assets'[i].accumulated = Depreciated(i, Due(i, upTo)).accumulated
               /\ assets'[i].accumulated <= Depreciable(assets[i].plan)
               /\ assets'[i].status \in {"active", "fully_depreciated"}
               /\ assets'[i].status = "fully_depreciated" =>
                    assets'[i].accumulated = Depreciable(assets[i].plan)
               /\ assets'[i] \in Asset /\ assets'[i] # Unregistered
    <2>1. assets'[i] = Depreciated(i, Due(i, upTo)) /\ assets[i] \in Asset
      BY <1>2, <1>4
    <2>2. PICK m \in Nat \ {0} :
            /\ m <= assets[i].plan.months
            /\ Depreciated(i, Due(i, upTo)).accumulated = Schedule[assets[i].plan][m]
      BY <1>1, MonthsDue DEF AssetsInv
    <2>3. PICK p \in Plans : p = assets[i].plan
      BY <2>1 DEF Asset
    <2>4. Schedule[p][m] \in 0..Depreciable(p) /\ Depreciable(p) \in Nat
      <3>1. m \in 0..p.months
        BY <2>2, <2>3, PlanFacts
      <3>2. QED
        BY <3>1, ScheduleRises, PlanFacts
    <2>5. PICK charged :
            Depreciated(i, Due(i, upTo)) =
              [assets[i] EXCEPT !.accumulated = charged,
                 !.status = IF charged >= Depreciable(p) THEN "fully_depreciated" ELSE "active"]
      BY <2>3 DEF Depreciated
    <2>6. Depreciated(i, Due(i, upTo)).accumulated = charged
      BY <2>1, <2>5 DEF Asset
    <2>7. charged \in Nat /\ charged <= Depreciable(p)
      BY <2>2, <2>3, <2>4, <2>6
    <2>8. /\ assets'[i].plan = assets[i].plan /\ assets'[i].bought = assets[i].bought
          /\ assets'[i].account = assets[i].account
          /\ assets'[i].accumulatedIn = assets[i].accumulatedIn
          /\ assets'[i].disposedOn = assets[i].disposedOn
          /\ assets'[i].accumulated = charged
          /\ assets'[i].status = IF charged >= Depreciable(p) THEN "fully_depreciated" ELSE "active"
      BY <2>1, <2>5 DEF Asset
    <2>9. assets'[i] \in Asset
      <3>1. PICK status \in {"active", "fully_depreciated"} :
              assets'[i] = [assets[i] EXCEPT !.accumulated = charged, !.status = status]
        BY <2>1, <2>5
      <3>2. QED
        BY <2>1, <2>7, <3>1 DEF Asset
    <2>10. QED
      BY <2>3, <2>4, <2>6, <2>7, <2>8, <2>9, RowsAreRegistered
  <1>7. \A i \in Assets \ D : assets'[i] = assets[i]
    BY <1>4
  <1>8. Registered' = Registered
    BY <1>2, <1>6, <1>7 DEF Registered
  <1>9. AssetsTypeOK'
    <2>1. assets' \in [Assets -> Asset \cup {Unregistered}]
      <3>1. \A i \in Assets : assets'[i] \in Asset \cup {Unregistered}
        BY <1>6, <1>7 DEF AssetsInv, AssetsTypeOK
      <3>2. QED
        BY <1>4, <3>1
    <2>2. charges' \subseteq Charge /\ disturbed' \subseteq Assets
      BY <1>2, <1>4, <1>5 DEF AssetsInv, AssetsTypeOK
    <2>3. journals' \in [Accounts -> [Days -> Int]]
      <3>1. ASSUME NEW b \in Accounts, NEW d \in Days
            PROVE  Sum({c \in new : assets[c.asset].accumulatedIn = b /\ c.end = d}) \in Int
        <4>1. {c \in new : assets[c.asset].accumulatedIn = b /\ c.end = d} \in SUBSET new
          OBVIOUS
        <4>2. \A c \in new : c.amount \in Int /\ c.end \in Days /\ c.asset \in Assets
          BY <1>5 DEF Charge
        <4>3. QED
          BY <1>5, <4>1, <4>2, ChargesGrouped
      <3>2. \A b \in Accounts, d \in Days : journals[b][d] \in Int
        BY DEF AssetsInv, AssetsTypeOK
      <3>3. QED
        BY <1>4, <3>1, <3>2
    <2>4. QED
      BY <1>4, <2>1, <2>2, <2>3 DEF AssetsInv, AssetsTypeOK
  <1>10. ChargesInv'
    <2>1. IsFiniteSet(charges')
      BY <1>4, <1>5, FS_Union DEF AssetsInv, ChargesInv
    <2>2. \A c \in charges' : c.asset \in Registered'
      BY <1>2, <1>4, <1>5, <1>8 DEF AssetsInv, ChargesInv
    <2>3. ASSUME NEW i \in Registered \ D PROVE \E n \in Nat : ChargedTo(i, n)'
      <3>1. PICK n \in Nat : ChargedTo(i, n)
        BY DEF AssetsInv, ChargesInv
      <3>2. assets'[i] = assets[i]
        BY <1>7 DEF Registered
      <3>3. Mine(i)' = Mine(i)
        BY <1>4, <1>5 DEF Mine
      <3>4. \A k : ChargeFor(i, k)' = ChargeFor(i, k)
        BY <3>2 DEF ChargeFor, PeriodStart, PeriodEnd
      <3>5. ChargedTo(i, n)'
        BY <3>1, <3>2, <3>3, <3>4 DEF ChargedTo
      <3>6. QED
        BY <3>5
    <2>4. ASSUME NEW i \in D PROVE \E n \in Nat : ChargedTo(i, n)'
      <3>1. PICK n \in Nat, m \in Nat \ {0} :
              /\ n < m /\ m <= assets[i].plan.months /\ 1..m \subseteq Periods(assets[i].plan)
              /\ Mine(i) = {ChargeFor(i, k) : k \in 1..n}
              /\ ChargesOf(i, upTo) = {ChargeFor(i, k) : k \in (n + 1)..m}
              /\ Depreciated(i, Due(i, upTo)).accumulated = Schedule[assets[i].plan][m]
        BY <1>1, MonthsDue DEF AssetsInv
      <3>2. \A k : ChargeFor(i, k)' = ChargeFor(i, k)
        BY <1>6 DEF ChargeFor, PeriodStart, PeriodEnd
      <3>3. Mine(i)' = Mine(i) \cup ChargesOf(i, upTo)
        <4>1. Mine(i)' = Mine(i) \cup {c \in new : c.asset = i}
          BY <1>4 DEF Mine
        <4>2. QED
          BY <1>5, <4>1
      <3>4. (1..n) \cup ((n + 1)..m) = 1..m
        BY <3>1
      <3>5. Mine(i)' = {ChargeFor(i, k) : k \in 1..m}
        BY <3>1, <3>3, <3>4
      <3>6. Mine(i)' = {ChargeFor(i, k)' : k \in 1..m}
        BY <3>2, <3>5
      <3>7. m \in 0..assets[i].plan.months
        BY <1>2, <3>1, PlanFacts DEF Asset
      <3>8. ChargedTo(i, m)'
        BY <1>6, <3>1, <3>6, <3>7 DEF ChargedTo
      <3>9. QED
        BY <3>8
    <2>5. QED
      BY <1>8, <2>1, <2>2, <2>3, <2>4 DEF ChargesInv
  <1>11. ASSUME NEW i \in Assets PROVE Placed(i)'
    <2>1. assets'[i].account = assets[i].account /\ assets'[i].accumulatedIn = assets[i].accumulatedIn
      BY <1>6, <1>7
    <2>2. QED
      BY <1>4, <1>8, <2>1 DEF AssetsInv, Placed, MovingIn
  <1>12. ASSUME disturbed' = {} PROVE
           /\ \A i \in Registered' : assets'[i].disposedOn # Never <=> assets'[i].status = "disposed"
           /\ \A a \in Accounts :
                UpTo(journals', a, LastDay) = Total([i \in Assets |-> Posted(i, a)])'
    <2>1. disturbed = {} /\ \A i \in D : Kept(i)
      BY <1>4, <1>12 DEF Kept
    <2>2. \A i \in Registered' : assets'[i].disposedOn # Never <=> assets'[i].status = "disposed"
      <3>1. ASSUME NEW i \in Registered
            PROVE  assets'[i].disposedOn # Never <=> assets'[i].status = "disposed"
        <4>1. CASE i \in D
          BY <1>6, <2>1, <4>1 DEF Kept
        <4>2. CASE i \notin D
          BY <1>7, <2>1, <4>2 DEF AssetsInv, PostingsInv, Registered
        <4>3. QED
          BY <4>1, <4>2
      <3>2. QED
        BY <1>8, <3>1
    <2>3. ASSUME NEW a \in Accounts
          PROVE  UpTo(journals', a, LastDay) = Total([i \in Assets |-> Posted(i, a)])'
      <3>1. PICK added : added = {c \in new : assets[c.asset].accumulatedIn = a}
        OBVIOUS
      <3>2. PICK f, e, h : /\ f = [i \in Assets |-> Posted(i, a)]
                           /\ e = [i \in Assets |-> -Sum({c \in added : c.asset = i})]
                           /\ h = [i \in Assets |-> Posted(i, a)']
        OBVIOUS
      <3>3. UpTo(journals', a, LastDay) = UpTo(journals, a, LastDay) + Total(e)
        <4>1. PICK book : book = journals'
          OBVIOUS
        <4>2. \A d \in Days : book[a][d] = journals[a][d] - OnDay(added, d)
          <5>1. ASSUME NEW d \in Days
                PROVE  book[a][d] = journals[a][d] - OnDay(added, d)
            <6>1. {c \in new : assets[c.asset].accumulatedIn = a /\ c.end = d}
                    = {c \in added : c.end = d}
              BY <3>1
            <6>2. book[a][d] = journals[a][d]
                    - Sum({c \in new : assets[c.asset].accumulatedIn = a /\ c.end = d})
              BY <1>4, <4>1
            <6>3. QED
              BY <6>1, <6>2 DEF OnDay
          <5>2. QED
            BY <5>1
        <4>3. added \subseteq ChargesOn(upTo)
          BY <1>3, <3>1
        <4>4. AssetsTypeOK /\ ChargesInv
          BY DEF AssetsInv
        <4>5. UpTo(book, a, LastDay) = UpTo(journals, a, LastDay) + Total(e)
          <5>1. e = [i \in Assets |-> -OfAsset(added, i)]
            BY <3>2 DEF OfAsset
          <5>2. QED
            BY <4>2, <4>3, <4>4, <5>1, RunPosts
        <4>6. QED
          BY <4>1, <4>5
      <3>4. ASSUME NEW i \in Assets
            PROVE  f[i] \in Int /\ e[i] \in Int /\ h[i] = f[i] + e[i]
        <4>1. f[i] = Posted(i, a) /\ f[i] \in Int /\ h[i] = Posted(i, a)'
              /\ e[i] = -Sum({c \in added : c.asset = i})
          BY <3>2, PostedInt DEF AssetsInv
        <4>2. CASE {c \in added : c.asset = i} = {} /\ Posted(i, a)' = Posted(i, a)
          <5>1. PICK g : g = [c \in {} |-> c.amount]
            OBVIOUS
          <5>2. DOMAIN g = {}
            BY <5>1
          <5>3. Total(g) = 0
            BY <5>2, TotalEmpty
          <5>4. Sum({}) = 0
            BY <5>1, <5>3 DEF Sum
          <5>5. -Sum({c \in added : c.asset = i}) = 0
            <6>1. PICK sum \in Int : sum = 0 /\ sum = Sum({c \in added : c.asset = i})
              BY <4>2, <5>4
            <6>2. -sum = 0
              BY <6>1, NoneNegated
            <6>3. QED
              BY <6>1, <6>2
          <5>6. QED
            BY <4>1, <4>2, <5>5
        <4>3. CASE i \notin D
          <5>1. {c \in added : c.asset = i} = {}
            BY <1>5, <3>1, <4>3
          <5>2. assets'[i] = assets[i]
            BY <1>7, <4>3
          <5>3. Posted(i, a)' = Posted(i, a)
            BY <1>4, <1>8, <5>2 DEF Posted, Kept, FirstAccount
          <5>4. QED
            BY <4>2, <5>1, <5>3
        <4>4. CASE i \in D /\ assets[i].accumulatedIn # a
          <5>1. {c \in added : c.asset = i} = {}
            BY <3>1, <4>4
          <5>2. /\ assets'[i].plan = assets[i].plan /\ assets'[i].account = assets[i].account
                /\ assets'[i].accumulatedIn = assets[i].accumulatedIn
                /\ assets'[i].disposedOn = assets[i].disposedOn
            BY <1>6, <4>4
          <5>3. Posted(i, a)' = Posted(i, a)
            BY <1>4, <1>8, <4>4, <5>2 DEF Posted, Kept, FirstAccount
          <5>4. QED
            BY <4>2, <5>1, <5>3
        <4>5. CASE i \in D /\ assets[i].accumulatedIn = a
          <5>1. {c \in added : c.asset = i} = {c \in new : c.asset = i}
            BY <3>1, <4>5
          <5>2. {c \in added : c.asset = i} = ChargesOf(i, upTo)
            BY <1>5, <4>5, <5>1
          <5>3. PICK n \in Nat, m \in Nat \ {0} :
                  /\ assets[i].accumulated = Schedule[assets[i].plan][n]
                  /\ Depreciated(i, Due(i, upTo)).accumulated = Schedule[assets[i].plan][m]
                  /\ Sum(ChargesOf(i, upTo))
                       = Schedule[assets[i].plan][m] - Schedule[assets[i].plan][n]
            BY <1>1, <4>5, MonthsDue DEF AssetsInv
          <5>4. PICK before \in Nat, after \in Nat :
                  before = assets[i].accumulated /\ after = assets'[i].accumulated
            BY <1>2, <1>6, <4>5, RowFacts DEF AssetsInv
          <5>5. Sum({c \in added : c.asset = i}) = after - before
            BY <1>6, <4>5, <5>2, <5>3, <5>4
          <5>6. PICK rest \in Int : rest = (IF assets[i].account = a THEN assets[i].plan.cost ELSE 0)
                                           - (IF FirstAccount(i) = a THEN assets[i].plan.cost ELSE 0)
            BY <1>2, <4>5, RowFacts DEF AssetsInv
          <5>7. Posted(i, a) = rest - before
            BY <1>2, <2>1, <4>5, <5>4, <5>6 DEF Posted
          <5>8. Posted(i, a)' = rest - after
            <6>1. /\ assets'[i].plan = assets[i].plan /\ assets'[i].account = assets[i].account
                  /\ assets'[i].accumulatedIn = a
                  /\ assets'[i].disposedOn = assets[i].disposedOn
              BY <1>6, <4>5
            <6>2. Kept(i)' /\ i \in Registered' /\ FirstAccount(i)' = FirstAccount(i)
              BY <1>2, <1>4, <1>8, <2>1, <4>5, <6>1 DEF Kept, FirstAccount
            <6>3. QED
              BY <5>4, <5>6, <6>1, <6>2 DEF Posted
          <5>9. QED
            BY <4>1, <5>5, <5>7, <5>8
        <4>6. QED
          BY <4>3, <4>4, <4>5
      <3>5. Total(h) = Total(f) + Total(e)
        <4>1. IsFiniteSet(DOMAIN h) /\ DOMAIN h = Assets /\ DOMAIN f = Assets /\ DOMAIN e = Assets
          BY <3>2, AssetsAssumption
        <4>2. QED
          BY <3>4, <4>1, TotalSum
      <3>6. UpTo(journals, a, LastDay) = Total(f)
        BY <2>1, <3>2 DEF AssetsInv, PostingsInv
      <3>7. Total(h) = Total([i \in Assets |-> Posted(i, a)])'
        BY <3>2
      <3>8. QED
        BY <3>2, <3>3, <3>5, <3>6, <3>7
    <2>4. QED
      BY <2>2, <2>3
  <1>13. QED
    BY <1>9, <1>10, <1>11, <1>12 DEF AssetsInv, PostingsInv

------------------------------------------------------------------------------
(* The theorems. *)

LEMMA AssetsStepKeeps == AssetsInv /\ [AssetsNext]_assetVars => AssetsInv'
  <1> SUFFICES ASSUME AssetsInv, [AssetsNext]_assetVars PROVE AssetsInv'
    OBVIOUS
  <1>1. CASE RegisterStep
    <2>1. CASE \E a \in Accounts, d \in Days, amount \in Amounts : PostOther(a, d, amount)
      BY <2>1, PostOtherKeeps
    <2>2. CASE \E i \in Assets, a \in AcceptedForCost, d \in Days : RegisterFixedAsset(i, a, d)
      BY <2>2, RegisterFixedAssetKeeps
    <2>3. CASE \E i \in Assets, to \in AcceptedForCost, asked \in AccumulatedAccounts, d \in Days :
                 TransferFixedAsset(i, to, asked, d)
      BY <2>3, TransferFixedAssetKeeps
    <2>4. CASE \E i \in Assets, d \in Days : DisposeAsset(i, d)
      BY <2>4, DisposeAssetKeeps
    <2>5. QED
      BY <1>1, <2>1, <2>2, <2>3, <2>4 DEF RegisterStep
  <1>2. CASE \E upTo \in Days : PostDepreciation(upTo)
    BY <1>2, PostDepreciationKeeps
  <1>3. CASE UNCHANGED assetVars
    <2>1. /\ assets' = assets /\ transfers' = transfers /\ charges' = charges
          /\ others' = others /\ journals' = journals /\ disturbed' = disturbed
      BY <1>3 DEF assetVars
    <2>2. AssetsTypeOK'
      BY <2>1 DEF AssetsInv, AssetsTypeOK
    <2>3. ChargesInv'
      <3>1. /\ Registered' = Registered
            /\ \A i : Mine(i)' = Mine(i) /\ \A k : ChargeFor(i, k)' = ChargeFor(i, k)
        BY <2>1 DEF Registered, Mine, ChargeFor, PeriodStart, PeriodEnd
      <3>2. \A i, n : ChargedTo(i, n)' <=> ChargedTo(i, n)
        BY <2>1, <3>1 DEF ChargedTo
      <3>3. QED
        BY <2>1, <3>1, <3>2 DEF AssetsInv, ChargesInv
    <2>4. \A i \in Assets : Placed(i)'
      BY <2>1 DEF AssetsInv, Placed, Registered, MovingIn
    <2>5. PostingsInv'
      BY <2>1 DEF AssetsInv, PostingsInv, Posted, Registered, Kept, FirstAccount, UpTo
    <2>6. QED
      BY <2>2, <2>3, <2>4, <2>5 DEF AssetsInv
  <1>4. QED
    BY <1>1, <1>2, <1>3 DEF AssetsNext

\* What the proofs rest on: the rows and the records are of their kinds, each
\* asset is charged its first months, its row says where its last transfers
\* led, and its journals come to what its row has.
THEOREM AssetsInvariant == AssetsSpec => []AssetsInv
  <1>1. QED
    BY AssetsInitHolds, AssetsStepKeeps, PTL DEF AssetsSpec

\* An asset is charged the first months of its schedule, however late, early or
\* often a run is made, and comes to its residual value.
THEOREM DepreciationFollowsTheSchedule == AssetsSpec => []ChargesFollowTheSchedule
  <1>1. AssetsInv => ChargesFollowTheSchedule
    BY ChargesFollow DEF AssetsInv
  <1>2. QED
    BY <1>1, AssetsInvariant, PTL

(* On the last day an asset is held if it is kept, where its row says. *)
LEMMA OnTheLastDay ==
  ASSUME AssetsInv, NEW i \in Assets
  PROVE  /\ HeldOn(i, LastDay) <=> i \in Registered /\ Kept(i)
         /\ AssetAccountOn(i, LastDay) = assets[i].account
         /\ AccumulatedAccountOn(i, LastDay) = assets[i].accumulatedIn
  <1>1. LastDay \in Int /\ \A d \in Days : d \in Int /\ d <= LastDay
    BY LastDayAssumption DEF Days
  <1>2. AssetsTypeOK /\ Placed(i)
    BY DEF AssetsInv
  <1>3. HeldOn(i, LastDay) <=> i \in Registered /\ Kept(i)
    <2>1. CASE i \in Registered
      <3>1. assets[i] \in Asset
        BY <1>2, <2>1, RowFacts
      <3>2. assets[i].bought \in Days /\ assets[i].disposedOn \in Days \cup {Never}
        BY <3>1 DEF Asset
      <3>3. QED
        BY <1>1, <2>1, <3>2 DEF HeldOn, Kept
    <2>2. CASE i \notin Registered
      BY <2>2 DEF HeldOn
    <2>3. QED
      BY <2>1, <2>2
  <1>4. \A k \in DOMAIN transfers[i] : transfers[i][k].date <= LastDay
    <2>1. transfers[i] \in Seq(Transfer)
      BY <1>2 DEF AssetsTypeOK
    <2>2. \A k \in DOMAIN transfers[i] : transfers[i][k] \in Transfer
      BY <2>1, ElementOfSeq
    <2>3. QED
      BY <1>1, <2>2 DEF Transfer
  <1>5. QED
    BY <1>1, <1>2, <1>3, <1>4, WhereItIs

(* The sum over some of the assets, as a sum over all of them. *)
LEMMA SumOverSome ==
  ASSUME NEW K, K \subseteq Assets, NEW f, DOMAIN f = K, \A i \in K : f[i] \in Int,
         NEW g, DOMAIN g = Assets, \A i \in Assets : g[i] = IF i \in K THEN f[i] ELSE 0
  PROVE  Total(f) = Total(g) /\ Total(f) \in Int
  <1>1. PICK e : e = [i \in Assets |-> g[i]]
    OBVIOUS
  <1>2. /\ e \in [Assets -> Int] /\ IsFiniteSet(Assets) /\ \A i \in Assets \ K : e[i] = 0
        /\ \A i \in K : e[i] = f[i]
    BY <1>1, AssetsAssumption
  <1>3. Total(e) = Total([i \in K |-> e[i]])
    BY <1>2, TotalSupport
  <1>4. IsFiniteSet(K)
    BY AssetsAssumption, FS_Subset
  <1>5. Total(f) = Total([i \in K |-> e[i]])
    <2>1. PICK h : h = [i \in K |-> e[i]]
      OBVIOUS
    <2>2. IsFiniteSet(DOMAIN f) /\ DOMAIN h = DOMAIN f /\ \A i \in DOMAIN f : f[i] = h[i]
      BY <1>2, <1>4, <2>1
    <2>3. QED
      BY <2>1, <2>2, TotalEqual
  <1>6. Total(e) = Total(g)
    BY <1>1, <1>2, TotalEqual
  <1>7. Total(f) \in Int
    BY <1>4, TotalInt
  <1>8. QED
    BY <1>3, <1>5, <1>6, <1>7

(* What the charges held against an account come to, asset by asset. *)
LEMMA ChargedAssetByAsset ==
  ASSUME AssetsInv, NEW a \in Accounts, NEW g,
         g = [i \in Assets |-> IF i \in Registered /\ Kept(i) /\ assets[i].accumulatedIn = a
                               THEN assets[i].accumulated ELSE 0]
  PROVE  ChargedIn(a, LastDay) = Total(g) /\ ChargedIn(a, LastDay) \in Int
  <1>1. AssetsTypeOK /\ ChargesInv /\ IsFiniteSet(Assets)
    BY AssetsAssumption DEF AssetsInv
  <1>2. PICK cs : cs = {c \in charges : /\ HeldOn(c.asset, LastDay) /\ c.end <= LastDay
                                        /\ AccumulatedAccountOn(c.asset, LastDay) = a}
    OBVIOUS
  <1>3. \A c \in charges : /\ c.asset \in Registered /\ c.asset \in Assets /\ c.end <= LastDay
                           /\ c.amount \in Int /\ c.end \in Days
    <2>1. \A d \in Days : d <= LastDay
      BY LastDayAssumption DEF Days
    <2>2. QED
      BY <1>1, <2>1 DEF ChargesInv, AssetsTypeOK, Charge
  <1>4. \A c \in charges : c \in cs <=> Kept(c.asset) /\ assets[c.asset].accumulatedIn = a
    BY <1>2, <1>3, OnTheLastDay
  <1>5. cs \subseteq charges /\ IsFiniteSet(cs)
    <2>1. cs \subseteq charges
      BY <1>2
    <2>2. QED
      BY <1>1, <2>1, FS_Subset DEF ChargesInv
  <1>6. PICK h : h = [i \in Assets |-> Sum({c \in cs : c.asset = i})]
    OBVIOUS
  <1>7. Sum(cs) \in Int /\ Total(h) = Sum(cs)
    BY <1>3, <1>5, <1>6, ChargesGrouped
  <1>8. ASSUME NEW i \in Assets PROVE h[i] = g[i]
    <2>1. h[i] = Sum({c \in cs : c.asset = i})
      BY <1>6
    <2>2. CASE i \in Registered /\ Kept(i) /\ assets[i].accumulatedIn = a
      <3>1. {c \in cs : c.asset = i} = Mine(i)
        BY <1>4, <1>5, <2>2 DEF Mine
      <3>2. PICK n \in Nat : ChargedTo(i, n)
        BY <1>1, <2>2 DEF ChargesInv
      <3>3. Sum(Mine(i)) = assets[i].accumulated
        BY <1>1, <2>2, <3>2, ChargesAddUp DEF ChargedTo
      <3>4. QED
        BY <2>1, <2>2, <3>1, <3>3
    <2>3. CASE ~(i \in Registered /\ Kept(i) /\ assets[i].accumulatedIn = a)
      <3>1. {c \in cs : c.asset = i} = {}
        BY <1>3, <1>4, <1>5, <2>3
      <3>2. PICK e : e = [c \in {} |-> c.amount]
        OBVIOUS
      <3>3. DOMAIN e = {}
        BY <3>2
      <3>4. Total(e) = 0
        BY <3>3, TotalEmpty
      <3>5. Sum({}) = 0
        BY <3>2, <3>4 DEF Sum
      <3>6. QED
        BY <2>1, <2>3, <3>1, <3>5
    <2>4. QED
      BY <2>2, <2>3
  <1>9. Total(h) = Total(g)
    BY <1>1, <1>6, <1>8, TotalEqual
  <1>10. ChargedIn(a, LastDay) = Sum(cs)
    BY <1>2 DEF ChargedIn
  <1>11. QED
    BY <1>7, <1>9, <1>10

(* What the journals of the register come to on an account: the cost that stands
   there, less what was registered from it and what is charged against it. *)
LEMMA JournalsExplained ==
  ASSUME AssetsInv, disturbed = {}, NEW a \in Accounts
  PROVE  /\ RegisteredCostIn(a, LastDay) \in Int /\ FirstRegisteredIn(a) \in Int
         /\ ChargedIn(a, LastDay) \in Int
         /\ UpTo(journals, a, LastDay)
              = RegisteredCostIn(a, LastDay) - FirstRegisteredIn(a) - ChargedIn(a, LastDay)
  <1>1. AssetsTypeOK /\ PostingsInv
    BY DEF AssetsInv
  <1>2. PICK K, F : /\ K = {j \in Assets : HeldOn(j, LastDay) /\ AssetAccountOn(j, LastDay) = a}
                    /\ F = {j \in Registered : FirstAccount(j) = a}
    OBVIOUS
  <1>3. /\ K \subseteq Registered /\ F \subseteq Registered /\ Registered \subseteq Assets
        /\ \A i \in Assets : i \in K <=> i \in Registered /\ Kept(i) /\ assets[i].account = a
        /\ \A i \in Assets : i \in F <=> i \in Registered /\ FirstAccount(i) = a
    BY <1>2, OnTheLastDay DEF Registered
  <1>4. \A i \in Registered : assets[i].plan.cost \in Int /\ assets[i].accumulated \in Int
    BY <1>1, RowFacts
  <1>5. PICK k, f, p, gk, gf, g, s :
          /\ k = [i \in K |-> assets[i].plan.cost] /\ f = [i \in F |-> assets[i].plan.cost]
          /\ p = [i \in Assets |-> Posted(i, a)]
          /\ gk = [i \in Assets |-> IF i \in K THEN k[i] ELSE 0]
          /\ gf = [i \in Assets |-> IF i \in F THEN f[i] ELSE 0]
          /\ g = [i \in Assets |-> IF i \in Registered /\ Kept(i) /\ assets[i].accumulatedIn = a
                                   THEN assets[i].accumulated ELSE 0]
          /\ s = [i \in Assets |-> gf[i] + g[i]]
    OBVIOUS
  <1>6. Total(k) = Total(gk) /\ Total(k) \in Int
    <2>1. DOMAIN k = K /\ K \subseteq Assets /\ \A i \in K : k[i] \in Int
      BY <1>3, <1>4, <1>5
    <2>2. DOMAIN gk = Assets /\ \A i \in Assets : gk[i] = IF i \in K THEN k[i] ELSE 0
      BY <1>5
    <2>3. QED
      BY <2>1, <2>2, SumOverSome
  <1>7. Total(f) = Total(gf) /\ Total(f) \in Int
    <2>1. DOMAIN f = F /\ F \subseteq Assets /\ \A i \in F : f[i] \in Int
      BY <1>3, <1>4, <1>5
    <2>2. DOMAIN gf = Assets /\ \A i \in Assets : gf[i] = IF i \in F THEN f[i] ELSE 0
      BY <1>5
    <2>3. QED
      BY <2>1, <2>2, SumOverSome
  <1>8. ASSUME NEW i \in Assets
        PROVE  /\ p[i] \in Int /\ gf[i] \in Int /\ g[i] \in Int
               /\ s[i] = gf[i] + g[i] /\ gk[i] = p[i] + s[i]
    <2>1. p[i] = Posted(i, a) /\ p[i] \in Int
      BY <1>1, <1>5, PostedInt
    <2>2. CASE i \in Registered
      <3>1. PICK cost \in Int, charged \in Int :
              cost = assets[i].plan.cost /\ charged = assets[i].accumulated
        BY <1>4, <2>2
      <3>2. Posted(i, a) = (IF Kept(i) /\ assets[i].account = a THEN cost ELSE 0)
                           - (IF FirstAccount(i) = a THEN cost ELSE 0)
                           - (IF Kept(i) /\ assets[i].accumulatedIn = a THEN charged ELSE 0)
        BY <2>2, <3>1 DEF Posted
      <3>3. /\ gk[i] = IF Kept(i) /\ assets[i].account = a THEN cost ELSE 0
            /\ gf[i] = IF FirstAccount(i) = a THEN cost ELSE 0
            /\ g[i] = IF Kept(i) /\ assets[i].accumulatedIn = a THEN charged ELSE 0
            /\ s[i] = gf[i] + g[i]
        BY <1>3, <1>5, <2>2, <3>1
      <3>4. QED
        BY <2>1, <3>1, <3>2, <3>3
    <2>3. CASE i \notin Registered
      <3>1. gk[i] = 0 /\ gf[i] = 0 /\ g[i] = 0 /\ s[i] = gf[i] + g[i]
        BY <1>3, <1>5, <2>3
      <3>2. Posted(i, a) = 0
        BY <2>3 DEF Posted
      <3>3. QED
        BY <2>1, <3>1, <3>2
    <2>4. QED
      BY <2>2, <2>3
  <1>9. /\ Total(gk) = Total(p) + Total(s) /\ Total(s) = Total(gf) + Total(g)
        /\ Total(p) \in Int /\ Total(g) \in Int
    <2>1. /\ IsFiniteSet(DOMAIN gk) /\ DOMAIN gk = Assets /\ DOMAIN p = Assets
          /\ DOMAIN gf = Assets /\ DOMAIN g = Assets /\ DOMAIN s = Assets
      BY <1>5, AssetsAssumption
    <2>2. \A i \in Assets : s[i] \in Int
      BY <1>8
    <2>3. QED
      BY <1>8, <2>1, <2>2, TotalSum, TotalInt
  <1>10. UpTo(journals, a, LastDay) = Total(p)
    BY <1>1, <1>5 DEF PostingsInv
  <1>11. RegisteredCostIn(a, LastDay) = Total(k) /\ FirstRegisteredIn(a) = Total(f)
    <2>1. RegisteredCostIn(a, LastDay) = Total([i \in K |-> assets[i].plan.cost])
      BY <1>2 DEF RegisteredCostIn
    <2>2. FirstRegisteredIn(a) = Total([i \in F |-> assets[i].plan.cost])
      BY <1>2 DEF FirstRegisteredIn
    <2>3. QED
      BY <1>5, <2>1, <2>2
  <1>12. ChargedIn(a, LastDay) = Total(g)
    BY <1>5, ChargedAssetByAsset
  <1>13. QED
    BY <1>6, <1>7, <1>9, <1>10, <1>11, <1>12

(* And so what reconcileFixedAssets reports of it. *)
LEMMA DifferencesExplained ==
  ASSUME AssetsInv, disturbed = {}, NEW a \in Accounts,
         NEW unregistered, unregistered = UpTo(others, a, LastDay) - FirstRegisteredIn(a)
  PROVE  Difference(a, LastDay) = IF a \in CostAccounts THEN unregistered
                                  ELSE -(unregistered + RegisteredCostIn(a, LastDay))
  <1>1. PICK o, j, k, f, g \in Int :
          /\ o = UpTo(others, a, LastDay) /\ j = UpTo(journals, a, LastDay)
          /\ k = RegisteredCostIn(a, LastDay) /\ f = FirstRegisteredIn(a)
          /\ g = ChargedIn(a, LastDay)
    BY JournalsExplained, UpToInt DEF AssetsInv, AssetsTypeOK, Books
  <1>2. j = k - f - g /\ unregistered = o - f
    BY <1>1, JournalsExplained
  <1>3. Balance(a, LastDay) = o + j
    BY <1>1 DEF Balance
  <1>4. CASE a \in CostAccounts
    <2>1. g = 0
      <3>1. PICK h : h = [i \in Assets |->
              IF i \in Registered /\ Kept(i) /\ assets[i].accumulatedIn = a
              THEN assets[i].accumulated ELSE 0]
        OBVIOUS
      <3>2. \A i \in Registered : assets[i].accumulatedIn # a
        BY <1>4, RowFacts, AssetsAssumption DEF AssetsInv
      <3>3. h \in [Assets -> Int] /\ IsFiniteSet(Assets) /\ \A i \in Assets : h[i] = 0
        BY <3>1, <3>2, AssetsAssumption
      <3>4. Total(h) = 0
        BY <3>3, TotalZero
      <3>5. QED
        BY <1>1, <3>1, <3>4, ChargedAssetByAsset
    <2>2. Difference(a, LastDay) = o + j - k
      BY <1>1, <1>3, <1>4 DEF Difference
    <2>3. QED
      BY <1>2, <1>4, <2>1, <2>2
  <1>5. CASE a \notin CostAccounts
    <2>1. Difference(a, LastDay) = -(o + j) - g
      BY <1>1, <1>3, <1>5 DEF Difference
    <2>2. QED
      BY <1>1, <1>2, <1>5, <2>1
  <1>6. QED
    BY <1>4, <1>5

\* On the last day the register explains the ledger: what is left is what
\* others posted and what is not yet registered, and on an accumulated account
\* the cost that was put there.
THEOREM TheRegisterExplainsTheLedger == AssetsSpec => []RegisterExplainsTheLedger
  <1>1. ASSUME AssetsInv, disturbed = {}, NEW a \in Accounts
        PROVE  LET unregistered == UpTo(others, a, LastDay) - FirstRegisteredIn(a)
               IN  Difference(a, LastDay) = IF a \in CostAccounts THEN unregistered
                                            ELSE -(unregistered + RegisteredCostIn(a, LastDay))
    BY <1>1, DifferencesExplained
  <1>2. AssetsInv => RegisterExplainsTheLedger
    BY <1>1 DEF RegisterExplainsTheLedger
  <1>3. QED
    BY <1>2, AssetsInvariant, PTL

------------------------------------------------------------------------------
(* The stock ledger. *)

\* The movements, the valuations and the stocktakes are lists, and what is
\* dated is dated by a day.
Lists ==
  /\ movements \in Seq(Range(movements))
  /\ valuations \in Seq(Range(valuations))
  /\ stocktakes \in Seq(Stocktake)
  /\ \A n \in DOMAIN valuations : valuations[n].date \in Days

StockInductive ==
  /\ DOMAIN catalogued = Items
  /\ Lists
  /\ ValuationsStand

(* What is appended to a list keeps what is there, in its place. *)
LEMMA AppendedAfter ==
  ASSUME NEW S, NEW T, NEW s \in Seq(S), NEW r \in Seq(T)
  PROVE  /\ s \o r \in Seq(Range(s \o r))
         /\ Len(s \o r) = Len(s) + Len(r)
         /\ DOMAIN s = 1..Len(s) /\ DOMAIN r = 1..Len(r) /\ DOMAIN (s \o r) = 1..Len(s \o r)
         /\ \A k \in 1..Len(s) : (s \o r)[k] = s[k]
         /\ \A k \in 1..Len(r) : (s \o r)[Len(s) + k] = r[k]
<1>1. s \in Seq(S \cup T) /\ r \in Seq(S \cup T)
  OBVIOUS
<1>2. /\ s \o r \in Seq(S \cup T)
      /\ Len(s \o r) = Len(s) + Len(r)
      /\ \A k \in 1..Len(s) : (s \o r)[k] = s[k]
      /\ \A k \in 1..Len(r) : (s \o r)[Len(s) + k] = r[k]
  BY <1>1
<1>3. DOMAIN s = 1..Len(s) /\ DOMAIN r = 1..Len(r) /\ DOMAIN (s \o r) = 1..Len(s \o r)
  BY <1>2
<1>4. s \o r \in Seq(Range(s \o r))
  BY <1>2, SeqOfRange
<1> QED
  BY <1>2, <1>3, <1>4

(* Movements of later days leave the rows of a day alone. *)
LEMMA LaterRows ==
  ASSUME Lists, NEW T, NEW r \in Seq(T), NEW i, NEW d \in Days,
         \A n \in DOMAIN r : r[n].date \in Days /\ r[n].date > d
  PROVE  RowsOf(movements \o r, i, d) = RowsOf(movements, i, d)
<1> DEFINE ms == movements \o r
<1>1. /\ Len(ms) = Len(movements) + Len(r)
      /\ DOMAIN movements = 1..Len(movements) /\ DOMAIN r = 1..Len(r) /\ DOMAIN ms = 1..Len(ms)
      /\ \A k \in 1..Len(movements) : ms[k] = movements[k]
      /\ \A k \in 1..Len(r) : ms[Len(movements) + k] = r[k]
  BY AppendedAfter DEF Lists
<1>2. \A k \in DOMAIN ms : k \in DOMAIN movements \/ (k - Len(movements) \in DOMAIN r
                                                       /\ ms[k] = r[k - Len(movements)])
  <2> Len(movements) \in Nat /\ Len(r) \in Nat
    BY DEF Lists
  <2> TAKE k \in DOMAIN ms
  <2>1. CASE k <= Len(movements)
    BY <2>1, <1>1
  <2>2. CASE k > Len(movements)
    <3>1. k - Len(movements) \in 1..Len(r)
      BY <2>2, <1>1
    <3>2. k = Len(movements) + (k - Len(movements))
      BY <1>1
    <3> QED
      BY <3>1, <3>2, <1>1
  <2> QED
    BY <2>1, <2>2, <1>1
<1>3. DOMAIN movements \subseteq DOMAIN ms
  BY <1>1 DEF Lists
<1>4. \A k \in DOMAIN ms : ms[k].date <= d => k \in DOMAIN movements
  BY <1>2, LastDayAssumption DEF Days
<1>5. {n \in DOMAIN ms : ms[n].item = i /\ ms[n].date <= d}
        = {n \in DOMAIN movements : movements[n].item = i /\ movements[n].date <= d}
  BY <1>1, <1>3, <1>4
<1> QED
  BY <1>1, <1>5 DEF RowsOf

------------------------------------------------------------------------------
(* What a step must leave alone. *)

\* A step that records these movements and is after the last valuation.
LEMMA RecordingKeepsValuations ==
  ASSUME StockInductive, NEW T, NEW r \in Seq(T),
         \A n \in DOMAIN r : r[n].date \in Days /\ AfterLastValuation(r[n].date),
         movements' = movements \o r, UNCHANGED <<catalogued, valuations>>
  PROVE  /\ movements' \in Seq(Range(movements'))
         /\ ValuationsStand'
<1>1. movements' \in Seq(Range(movements'))
  BY AppendedAfter DEF StockInductive, Lists
<1>2. ASSUME NEW n \in DOMAIN valuations
      PROVE  Positions(valuations[n].date)' = Positions(valuations[n].date)
  <2>1. valuations[n].date \in Days
    BY DEF StockInductive, Lists
  <2>2. \A i : RowsOf(movements \o r, i, valuations[n].date) = RowsOf(movements, i, valuations[n].date)
    BY <2>1, LaterRows DEF StockInductive, AfterLastValuation
  <2>3. \A i \in Items : RowsOf(movements', i, valuations'[n].date) = RowsOf(movements, i, valuations[n].date)
    BY <2>2
  <2> QED
    BY <2>3 DEF Positions, PositionsOf, ReplayOf
<1>3. ValuationsStand'
  BY <1>2 DEF StockInductive, ValuationsStand
<1> QED
  BY <1>1, <1>3

LEMMA RecordAfterValuationKeeps ==
  ASSUME StockInductive, NEW T, NEW r \in Seq(T),
         \A n \in DOMAIN r : r[n].date \in Days,
         RecordAfterValuation(r)
  PROVE  StockInductive'
<1>1. /\ movements' = movements \o r
      /\ \A n \in DOMAIN r : AfterLastValuation(r[n].date)
      /\ UNCHANGED <<catalogued, stocktakes, valuations>>
  BY DEF RecordAfterValuation, Record
<1>2. movements' \in Seq(Range(movements')) /\ ValuationsStand'
  BY <1>1, RecordingKeepsValuations
<1> QED
  BY <1>1, <1>2 DEF StockInductive, Lists

(* So does a step that records one movement. *)
LEMMA OneMovementKeeps ==
  ASSUME StockInductive, NEW m, m.date \in Days, RecordAfterValuation(<<m>>)
  PROVE  StockInductive'
<1>1. <<m>> \in Seq({m})
  OBVIOUS
<1>2. \A n \in DOMAIN <<m>> : <<m>>[n].date \in Days
  OBVIOUS
<1> QED
  BY <1>1, <1>2, RecordAfterValuationKeeps

LEMMA MovementStepKeeps ==
  ASSUME StockInductive, MovementStep
  PROVE  StockInductive'
<1>1. PICK d \in StockDays, q \in Quantities :
        \/ \E i \in Items, l \in Locations :
             \/ \E unitCost \in UnitCosts : RecordOpeningStock(i, l, d, q, unitCost)
             \/ \E line \in Deliveries : ReceivePurchase(i, l, d, line, q)
             \/ \E line \in Sales : IssueSale(i, l, d, line, q)
             \/ RecordStockOut(i, l, d, q)
             \/ \E unitCost \in UnitCosts : RecordStockIn(i, l, d, q, unitCost)
             \/ \E to \in Locations : TransferStock(i, l, to, d, q)
        \/ \E k \in DOMAIN movements, l \in Locations :
             RecordCustomerReturn(k, l, d, q) \/ RecordSupplierReturn(k, l, d, q)
  BY DEF MovementStep
<1>2. d \in Days
  BY StockAssumption
<1>3. ASSUME NEW i, NEW l, NEW unitCost, RecordOpeningStock(i, l, d, q, unitCost)
      PROVE  StockInductive'
  <2> DEFINE m == [Moving(i, l, d, "opening", q) EXCEPT !.cost = CostOf(unitCost, q)]
  <2>1. RecordAfterValuation(<<m>>) /\ m.date \in Days
    BY <1>2, <1>3 DEF RecordOpeningStock, Moving
  <2> QED
    BY <2>1, OneMovementKeeps
<1>4. ASSUME NEW i, NEW l, NEW line, ReceivePurchase(i, l, d, line, q)
      PROVE  StockInductive'
  <2> DEFINE billed == Billed[line]
             already == MovedAgainst(line, "purchase")
             cost == Share(billed.net, already + q, billed.quantity)
                       - Share(billed.net, already, billed.quantity)
             m == [Moving(i, l, d, "purchase", q) EXCEPT !.cost = cost, !.line = line]
  <2>1. RecordAfterValuation(<<m>>)
    BY <1>4 DEF ReceivePurchase
  <2>2. m.date \in Days
    BY <1>2 DEF Moving
  <2> QED
    BY <2>1, <2>2, OneMovementKeeps
<1>5. ASSUME NEW i, NEW l, NEW line, IssueSale(i, l, d, line, q)
      PROVE  StockInductive'
  <2> DEFINE m == [Moving(i, l, d, "sale", -q) EXCEPT !.line = line]
  <2>1. RecordAfterValuation(<<m>>) /\ m.date \in Days
    BY <1>2, <1>5 DEF IssueSale, Moving
  <2> QED
    BY <2>1, OneMovementKeeps
<1>6. ASSUME NEW i, NEW l, RecordStockOut(i, l, d, q)
      PROVE  StockInductive'
  <2> DEFINE m == Moving(i, l, d, "adjustment", -q)
  <2>1. RecordAfterValuation(<<m>>) /\ m.date \in Days
    BY <1>2, <1>6 DEF RecordStockOut, Moving
  <2> QED
    BY <2>1, OneMovementKeeps
<1>7. ASSUME NEW i, NEW l, NEW unitCost, RecordStockIn(i, l, d, q, unitCost)
      PROVE  StockInductive'
  <2> DEFINE m == [Moving(i, l, d, "adjustment", q) EXCEPT !.cost = CostOf(unitCost, q)]
  <2>1. RecordAfterValuation(<<m>>) /\ m.date \in Days
    BY <1>2, <1>7 DEF RecordStockIn, Moving
  <2> QED
    BY <2>1, OneMovementKeeps
<1>8. ASSUME NEW i, NEW from, NEW to, TransferStock(i, from, to, d, q)
      PROVE  StockInductive'
  <2> DEFINE n == Len(movements)
             out == [Moving(i, from, d, "transfer_out", -q) EXCEPT !.pair = n + 2]
             in == [Moving(i, to, d, "transfer_in", q) EXCEPT !.pair = n + 1]
  <2>1. RecordAfterValuation(<<out, in>>)
    BY <1>8 DEF TransferStock
  <2>2. out.date \in Days /\ in.date \in Days
    BY <1>2 DEF Moving
  <2>3. <<out, in>> \in Seq({out, in}) /\ \A k \in DOMAIN <<out, in>> : <<out, in>>[k].date \in Days
    <3> HIDE DEF out, in
    <3> QED
      BY <2>2
  <2> QED
    BY <2>1, <2>3, RecordAfterValuationKeeps
<1>9. ASSUME NEW k, NEW l, RecordCustomerReturn(k, l, d, q)
      PROVE  StockInductive'
  <2> DEFINE m == [Moving(movements[k].item, l, d, "customer_return", q) EXCEPT !.related = k]
  <2>1. RecordAfterValuation(<<m>>) /\ m.date \in Days
    BY <1>2, <1>9 DEF RecordCustomerReturn, Moving
  <2> QED
    BY <2>1, OneMovementKeeps
<1>10. ASSUME NEW k, NEW l, RecordSupplierReturn(k, l, d, q)
       PROVE  StockInductive'
  <2> DEFINE m == [Moving(movements[k].item, l, d, "supplier_return", -q) EXCEPT !.related = k]
  <2>1. RecordAfterValuation(<<m>>) /\ m.date \in Days
    BY <1>2, <1>10 DEF RecordSupplierReturn, Moving
  <2> QED
    BY <2>1, OneMovementKeeps
<1> QED
  BY <1>1, <1>3, <1>4, <1>5, <1>6, <1>7, <1>8, <1>9, <1>10

LEMMA ReversalKeeps ==
  ASSUME StockInductive, NEW k, NEW d \in StockDays, ReverseStockMovement(k, d)
  PROVE  StockInductive'
<1> DEFINE old == movements[k]
           m == [Moving(old.item, old.location, d, "reversal", -old.quantity) EXCEPT !.related = k]
<1>1. RecordAfterValuation(<<m>>)
  BY DEF ReverseStockMovement
<1>2. m.date \in Days
  BY StockAssumption DEF Moving
<1> QED
  BY <1>1, <1>2, OneMovementKeeps

------------------------------------------------------------------------------
(* A step that leaves movements, catalogue and valuations alone. *)
LEMMA NothingRecordedKeeps ==
  ASSUME StockInductive, UNCHANGED <<catalogued, movements, valuations>>, stocktakes' \in Seq(Stocktake)
  PROVE  StockInductive'
<1>1. ASSUME NEW n \in DOMAIN valuations
      PROVE  Positions(valuations[n].date)' = Positions(valuations[n].date)
  BY DEF Positions, PositionsOf, ReplayOf
<1> QED
  BY <1>1 DEF StockInductive, Lists, ValuationsStand

(* An item that has moved keeps its method; one that has not is nowhere. *)
LEMMA UpdateItemKeeps ==
  ASSUME StockInductive, NEW i \in Items, NEW method, NEW account, UpdateItem(i, method, account)
  PROVE  StockInductive'
<1>1. /\ catalogued' = [catalogued EXCEPT ![i] = [method |-> method, account |-> account]]
      /\ UNCHANGED <<movements, stocktakes, valuations>>
      /\ method # catalogued[i].method => \A k \in DOMAIN movements : movements[k].item # i
  BY DEF UpdateItem
<1>2. ASSUME NEW d, NEW j \in Items
      PROVE  Replay(catalogued'[j].method, RowsOf(movements, j, d))
               = Replay(catalogued[j].method, RowsOf(movements, j, d))
  <2>1. CASE catalogued'[j].method = catalogued[j].method
    BY <2>1
  <2>2. CASE catalogued'[j].method # catalogued[j].method
    <3>1. j = i /\ method # catalogued[i].method
      BY <1>1, <2>2 DEF StockInductive
    <3>2. DOMAIN RowsOf(movements, j, d) = {}
      BY <1>1, <3>1 DEF RowsOf
    <3> QED
      BY <3>2, ReplayOfNothing
  <2> QED
    BY <2>1, <2>2
<1>3. ASSUME NEW n \in DOMAIN valuations
      PROVE  Positions(valuations[n].date)' = Positions(valuations[n].date)
  BY <1>1, <1>2 DEF Positions, PositionsOf, ReplayOf
<1>4. DOMAIN catalogued' = Items
  BY <1>1 DEF StockInductive
<1> QED
  BY <1>1, <1>3, <1>4 DEF StockInductive, Lists, ValuationsStand

LEMMA CountsAreCounts ==
  ASSUME stocktakes \in Seq(Stocktake), NEW t \in DOMAIN stocktakes, NEW i \in Items,
         NEW count \in Count, SetStocktakeCount(t, i, count)
  PROVE  stocktakes' \in Seq(Stocktake)
<1> DEFINE st == stocktakes[t]
           counts == [j \in DOMAIN st.counts \cup {i} |-> IF j = i THEN count ELSE st.counts[j]]
<1>1. stocktakes' = [stocktakes EXCEPT ![t] = [st EXCEPT !.counts = counts]]
  BY DEF SetStocktakeCount
<1>2. st \in Stocktake
  OBVIOUS
<1>3. PICK S \in SUBSET Items : st.counts \in [S -> Count]
  BY <1>2 DEF Stocktake
<1>4. counts \in [S \cup {i} -> Count]
  BY <1>3
<1>5. counts \in UNION {[U -> Count] : U \in SUBSET Items}
  <2> HIDE DEF counts
  <2> QED
    BY <1>4
<1>6. [st EXCEPT !.counts = counts] \in Stocktake
  <2> HIDE DEF counts, st
  <2> QED
    BY <1>2, <1>5 DEF Stocktake
<1> QED
  <2> HIDE DEF counts, st
  <2> QED
    BY <1>1, <1>6

LEMMA DraftIsAStocktake ==
  ASSUME stocktakes \in Seq(Stocktake), NEW l \in Locations, NEW d \in StockDays, CreateStocktake(l, d)
  PROVE  stocktakes' \in Seq(Stocktake)
<1> DEFINE st == [location |-> l, date |-> d, counts |-> << >>, posted |-> FALSE]
<1>1. << >> \in UNION {[S -> Count] : S \in SUBSET Items}
  <2>1. << >> \in [{} -> Count]
    OBVIOUS
  <2> QED
    BY <2>1
<1>2. st \in Stocktake
  BY <1>1, StockAssumption DEF Stocktake
<1>3. stocktakes' = Append(stocktakes, st)
  BY DEF CreateStocktake
<1> QED
  <2> HIDE DEF st
  <2> QED
    BY <1>2, <1>3

LEMMA StocktakePosted ==
  ASSUME stocktakes \in Seq(Stocktake), NEW t \in DOMAIN stocktakes
  PROVE  [stocktakes EXCEPT ![t].posted = TRUE] \in Seq(Stocktake)
<1>1. PICK st : st = stocktakes[t]
  OBVIOUS
<1>2. [st EXCEPT !.posted = TRUE] \in Stocktake
  <2>1. st \in Stocktake
    BY <1>1
  <2>2. QED
    BY <2>1 DEF Stocktake
<1>3. PICK done : done = [st EXCEPT !.posted = TRUE]
  OBVIOUS
<1>4. [stocktakes EXCEPT ![t] = done] \in Seq(Stocktake)
  BY <1>2, <1>3
<1>5. QED
  BY <1>1, <1>3, <1>4

(* The differences of a stocktake are dated by its day. *)
LEMMA PostStocktakeKeeps ==
  ASSUME StockInductive, NEW t \in DOMAIN stocktakes, PostStocktake(t)
  PROVE  StockInductive'
<1> DEFINE st == stocktakes[t]
           over == Over(st)
           r == Differences(st, over)
<1>1. /\ AfterLastValuation(st.date)
      /\ movements' = movements \o r
      /\ stocktakes' = [stocktakes EXCEPT ![t].posted = TRUE]
      /\ UNCHANGED <<catalogued, valuations>>
  BY DEF PostStocktake, Record
<1>2. st \in Stocktake
  BY DEF StockInductive, Lists
<1>3. Cardinality(Off(over)) \in Nat
  <2>1. IsFiniteSet(DOMAIN Catalogue)
    <3>1. DOMAIN Catalogue = 1..Len(Catalogue) /\ Len(Catalogue) \in Nat
      BY StockAssumption
    <3> QED
      BY <3>1, FS_Interval
  <2>2. Off(over) \subseteq DOMAIN Catalogue
    BY DEF Off
  <2> QED
    BY <2>1, <2>2, FS_Subset, FS_CardinalityType
<1>4. /\ r \in Seq(Range(r))
      /\ \A n \in DOMAIN r : r[n].date = st.date
  <2>1. DOMAIN r = 1..Cardinality(Off(over))
    BY DEF Differences
  <2>2. r \in [1..Cardinality(Off(over)) -> Range(r)]
    BY DEF Differences, Range
  <2>3. r \in Seq(Range(r))
    <3> HIDE DEF r, st
    <3> QED
      BY <1>3, <2>2, SeqDef
  <2>4. \A n \in DOMAIN r : r[n].date = st.date
    BY DEF Differences, Found, Moving
  <2> QED
    BY <2>3, <2>4
<1>5. \A n \in DOMAIN r : r[n].date \in Days /\ AfterLastValuation(r[n].date)
  BY <1>1, <1>2, <1>4 DEF Stocktake
<1>6. movements' \in Seq(Range(movements')) /\ ValuationsStand'
  <2> HIDE DEF r
  <2> QED
    BY <1>1, <1>4, <1>5, RecordingKeepsValuations
<1>7. stocktakes' \in Seq(Stocktake)
  <2>1. [stocktakes EXCEPT ![t].posted = TRUE] \in Seq(Stocktake)
    BY StocktakePosted DEF StockInductive, Lists
  <2> QED
    BY <1>1, <2>1
<1> QED
  BY <1>1, <1>6, <1>7 DEF StockInductive, Lists

(* A valuation is posted as it is found, and the earlier ones stand. *)
LEMMA PostClosingStockKeeps ==
  ASSUME StockInductive, NEW d \in StockDays, PostClosingStock(d)
  PROVE  StockInductive'
<1> DEFINE v == ValuationOn(d)
<1>1. /\ valuations' = Append(valuations, v)
      /\ UNCHANGED <<catalogued, movements, stocktakes>>
  BY DEF PostClosingStock
<1>2. v.date = d /\ v.positions = Positions(d) /\ d \in Days
  BY StockAssumption DEF ValuationOn
<1>4. /\ valuations' \in Seq(Range(valuations) \cup {v})
      /\ DOMAIN valuations' = DOMAIN valuations \cup {Len(valuations) + 1}
      /\ \A n \in DOMAIN valuations : valuations'[n] = valuations[n]
      /\ valuations'[Len(valuations) + 1] = v
  <2> HIDE DEF v
  <2>1. valuations \in Seq(Range(valuations) \cup {v})
    BY DEF StockInductive, Lists
  <2> QED
    BY <1>1, <2>1
<1>5. valuations' \in Seq(Range(valuations'))
  BY <1>4, SeqOfRange
<1>6. ValuationsStand'
  <2> HIDE DEF v
  <2>1. \A n \in DOMAIN valuations' : valuations'[n].positions = Positions(valuations'[n].date)
    BY <1>2, <1>4 DEF StockInductive, ValuationsStand
  <2>2. ASSUME NEW n \in DOMAIN valuations'
        PROVE  (valuations[n].positions = Positions(valuations[n].date))'
    <3>1. catalogued' = catalogued /\ movements' = movements
      BY <1>1
    <3>2. valuations'[n].positions = Positions(valuations'[n].date)
      BY <2>1
    <3> QED
      BY <3>1, <3>2 DEF Positions, PositionsOf, ReplayOf
  <2> QED
    BY <2>2 DEF ValuationsStand
<1>7. \A n \in DOMAIN valuations' : valuations'[n].date \in Days
  <2> HIDE DEF v
  <2> QED
    BY <1>2, <1>4 DEF StockInductive, Lists
<1> QED
  BY <1>1, <1>5, <1>6, <1>7 DEF StockInductive, Lists

LEMMA StockStepKeeps ==
  ASSUME StockInductive, [StockNext]_stockVars
  PROVE  StockInductive'
<1>1. CASE MovementStep
  BY <1>1, MovementStepKeeps
<1>2. ASSUME NEW k \in DOMAIN movements, NEW d \in StockDays, ReverseStockMovement(k, d)
      PROVE  StockInductive'
  BY <1>2, ReversalKeeps
<1>3. ASSUME NEW l \in Locations, NEW d \in StockDays, CreateStocktake(l, d)
      PROVE  StockInductive'
  <2>1. stocktakes' \in Seq(Stocktake)
    BY <1>3, DraftIsAStocktake DEF StockInductive, Lists
  <2> QED
    BY <1>3, <2>1, NothingRecordedKeeps DEF CreateStocktake
<1>4. ASSUME NEW a, NEW d, NEW amount, PostOutside(a, d, amount)
      PROVE  StockInductive'
  BY <1>4, NothingRecordedKeeps DEF PostOutside, StockInductive, Lists
<1>5. ASSUME NEW d \in StockDays, PostClosingStock(d)
      PROVE  StockInductive'
  BY <1>5, PostClosingStockKeeps
<1>6. ASSUME NEW i \in Items, NEW method, NEW account, UpdateItem(i, method, account)
      PROVE  StockInductive'
  BY <1>6, UpdateItemKeeps
<1>7. ASSUME NEW t \in DOMAIN stocktakes, NEW i \in Items, NEW count \in Count, SetStocktakeCount(t, i, count)
      PROVE  StockInductive'
  <2>1. stocktakes' \in Seq(Stocktake)
    BY <1>7, CountsAreCounts DEF StockInductive, Lists
  <2> QED
    BY <1>7, <2>1, NothingRecordedKeeps DEF SetStocktakeCount
<1>8. ASSUME NEW t \in DOMAIN stocktakes, PostStocktake(t)
      PROVE  StockInductive'
  BY <1>8, PostStocktakeKeeps
<1>9. CASE UNCHANGED stockVars
  BY <1>9, NothingRecordedKeeps DEF stockVars, StockInductive, Lists
<1> QED
  BY <1>1, <1>2, <1>3, <1>4, <1>5, <1>6, <1>7, <1>8, <1>9 DEF StockNext, StockStep

(* Before anything is posted there is nothing to stand. *)
LEMMA StockInitHolds ==
  ASSUME StockInit
  PROVE  StockInductive
<1>1. << >> \in Seq(Range(<< >>)) /\ << >> \in Seq(Stocktake)
  OBVIOUS
<1>2. DOMAIN << >> = {}
  OBVIOUS
<1> QED
  BY <1>1, <1>2 DEF StockInit, StockInductive, Lists, ValuationsStand

(* Whatever items, locations, lines, prices and days there are, however many *)
(* movements, stocktakes and valuations, and whatever the costing methods    *)
(* make of them: nothing recorded after closing stock was posted changes     *)
(* what it was valued at, because every path of movements.ts, stocktakes.ts  *)
(* and items.ts asks for the last valuation, or whether the item has moved.  *)
THEOREM PostedValuationsStand == StockSpec => []ValuationsStand
<1>1. StockInductive /\ [StockNext]_stockVars => StockInductive'
  BY StockStepKeeps
<1>2. StockInductive => ValuationsStand
  BY DEF StockInductive
<1> QED
  BY StockInitHolds, <1>1, <1>2, PTL DEF StockSpec

------------------------------------------------------------------------------
(* The movements recorded are ones a replay can follow. *)

\* What a movement refers to is an earlier movement of the same item, the other
\* way; the two of a transfer stand one after the other.
MoveSound(ms, k) ==
  /\ ms[k].quantity # 0
  /\ ms[k].kind = "sale" => ms[k].quantity < 0
  /\ ms[k].kind = "purchase" => ms[k].quantity > 0
  /\ ms[k].related # 0 =>
       /\ ms[k].related \in DOMAIN ms /\ ms[k].related < k
       /\ ms[ms[k].related].date <= ms[k].date /\ ms[ms[k].related].item = ms[k].item
       /\ ms[k].quantity > 0 <=> ms[ms[k].related].quantity < 0
       /\ ms[k].kind \notin Transfers /\ ms[ms[k].related].kind \notin Transfers
  /\ ms[k].kind = "transfer_out" =>
       /\ ms[k].quantity < 0 /\ ms[k].related = 0
       /\ ms[k].pair = k + 1 /\ k + 1 \in DOMAIN ms
       /\ ms[k + 1].kind = "transfer_in" /\ ms[k + 1].pair = k /\ ms[k + 1].related = 0
       /\ ms[k + 1].date = ms[k].date /\ ms[k + 1].item = ms[k].item
       /\ ms[k + 1].quantity = -ms[k].quantity /\ ms[k + 1].location # ms[k].location
  /\ ms[k].kind = "transfer_in" =>
       /\ ms[k].quantity > 0 /\ ms[k].related = 0
       /\ ms[k].pair = k - 1 /\ k - 1 \in DOMAIN ms
       /\ ms[k - 1].kind = "transfer_out" /\ ms[k - 1].date = ms[k].date
       /\ ms[k - 1].item = ms[k].item

MovesSound(ms) == ms \in Seq(Movement) /\ \A k \in DOMAIN ms : MoveSound(ms, k)

By(ms, i, d) == {n \in DOMAIN ms : ms[n].item = i /\ ms[n].date <= d}

LEMMA RowsAre ==
  ASSUME NEW ms, NEW i, NEW d
  PROVE  /\ DOMAIN RowsOf(ms, i, d) = By(ms, i, d)
         /\ \A k \in By(ms, i, d) : RowsOf(ms, i, d)[k] = ms[k]
  BY DEF RowsOf, By

\* A movement has its columns.
Typed(m) ==
  /\ m.location \in Locations /\ m.date \in Int /\ m.quantity \in Int
  /\ m.cost \in Nat /\ m.related \in Nat

LEMMA MoveTyped ==
  ASSUME NEW ms, MovesSound(ms), NEW k \in DOMAIN ms
  PROVE  /\ MoveSound(ms, k) /\ Typed(ms[k]) /\ k \in Nat \ {0}
         /\ ms[k] \in Movement /\ ms[k].date \in Days
  <1>1. ms[k] \in Movement /\ k \in Nat \ {0} /\ MoveSound(ms, k)
    BY DEF MovesSound
  <1>2. ms[k].date \in Days /\ Typed(ms[k])
    BY <1>1, LastDayAssumption DEF Movement, Days, Typed
  <1>3. QED
    BY <1>1, <1>2

(* Of an item, and by a day, they are rows a replay can follow. *)
LEMMA RowsAreSound ==
  ASSUME NEW ms, MovesSound(ms), NEW i, NEW d \in Int
  PROVE  RowsSound(RowsOf(ms, i, d))
  <1>1. PICK rows : rows = RowsOf(ms, i, d)
    OBVIOUS
  <1>2. DOMAIN rows = By(ms, i, d) /\ \A k \in By(ms, i, d) : rows[k] = ms[k]
    BY <1>1, RowsAre
  <1>3. DOMAIN ms = 1..Len(ms) /\ Len(ms) \in Nat
    BY DEF MovesSound
  <1>4. DOMAIN rows \subseteq Nat \ {0} /\ IsFiniteSet(DOMAIN rows)
    <2>1. By(ms, i, d) \subseteq 1..Len(ms)
      BY <1>3 DEF By
    <2>2. IsFiniteSet(1..Len(ms))
      BY <1>3, FS_Interval
    <2>3. IsFiniteSet(By(ms, i, d))
      BY <2>1, <2>2, FS_Subset
    <2>4. QED
      BY <1>2, <1>3, <2>1, <2>3
  <1>5. ASSUME NEW k \in DOMAIN rows
        PROVE  RowSound(rows, k)
    <2>1. k \in DOMAIN ms /\ ms[k].item = i /\ ms[k].date <= d /\ rows[k] = ms[k]
      BY <1>2, <1>5 DEF By
    <2>2. MoveSound(ms, k) /\ Typed(ms[k]) /\ k \in Nat \ {0}
      BY ONLY MovesSound(ms), <2>1, MoveTyped
    <2>3. ms[k].quantity # 0
      BY <2>2 DEF MoveSound
    <2>4. rows[k].related # 0 =>
            /\ rows[k].related \in DOMAIN rows /\ Earlier(rows, rows[k].related, k)
            /\ rows[k].quantity > 0 <=> rows[rows[k].related].quantity < 0
            /\ rows[k].kind \notin Transfers /\ rows[rows[k].related].kind \notin Transfers
      <3>1. HAVE rows[k].related # 0
      <3>2. PICK j : j = ms[k].related
        OBVIOUS
      <3>3. /\ j \in DOMAIN ms /\ j < k /\ ms[j].date <= ms[k].date /\ ms[j].item = i
            /\ ms[k].quantity > 0 <=> ms[j].quantity < 0
            /\ ms[k].kind \notin Transfers /\ ms[j].kind \notin Transfers
        BY <2>1, <2>2, <3>1, <3>2 DEF MoveSound
      <3>4. ms[j].date \in Int /\ j \in Nat
        BY <3>3, MoveTyped DEF Typed
      <3>5. j \in DOMAIN rows /\ rows[j] = ms[j]
        <4>1. ms[k].date \in Int
          BY <2>2 DEF Typed
        <4>2. ms[j].date <= d
          BY <2>1, <3>3, <3>4, <4>1
        <4>3. QED
          BY <1>2, <3>3, <4>2 DEF By
      <3>6. Earlier(rows, j, k)
        BY <2>1, <2>2, <3>3, <3>4, <3>5 DEF Earlier, Typed
      <3>7. QED
        BY <2>1, <3>2, <3>3, <3>5, <3>6
    <2>5. rows[k].kind = "transfer_out" =>
            /\ rows[k].quantity < 0 /\ rows[k].related = 0
            /\ rows[k].pair = k + 1 /\ k + 1 \in DOMAIN rows
            /\ rows[k + 1].kind = "transfer_in" /\ rows[k + 1].pair = k /\ rows[k + 1].related = 0
            /\ rows[k + 1].date = rows[k].date /\ rows[k + 1].quantity = -rows[k].quantity
            /\ rows[k + 1].location # rows[k].location
      <3>1. HAVE rows[k].kind = "transfer_out"
      <3>2. /\ ms[k].quantity < 0 /\ ms[k].related = 0
            /\ ms[k].pair = k + 1 /\ k + 1 \in DOMAIN ms
            /\ ms[k + 1].kind = "transfer_in" /\ ms[k + 1].pair = k /\ ms[k + 1].related = 0
            /\ ms[k + 1].date = ms[k].date /\ ms[k + 1].item = i
            /\ ms[k + 1].quantity = -ms[k].quantity /\ ms[k + 1].location # ms[k].location
        BY <2>1, <2>2, <3>1 DEF MoveSound
      <3>3. k + 1 \in DOMAIN rows /\ rows[k + 1] = ms[k + 1]
        BY <1>2, <2>1, <3>2 DEF By
      <3>4. QED
        BY <2>1, <3>2, <3>3
    <2>6. rows[k].kind = "transfer_in" =>
            /\ rows[k].quantity > 0 /\ rows[k].related = 0
            /\ rows[k].pair = k - 1 /\ k - 1 \in DOMAIN rows
            /\ rows[k - 1].kind = "transfer_out" /\ rows[k - 1].date = rows[k].date
      <3>1. HAVE rows[k].kind = "transfer_in"
      <3>2. /\ ms[k].quantity > 0 /\ ms[k].related = 0
            /\ ms[k].pair = k - 1 /\ k - 1 \in DOMAIN ms
            /\ ms[k - 1].kind = "transfer_out" /\ ms[k - 1].date = ms[k].date
            /\ ms[k - 1].item = i
        BY <2>1, <2>2, <3>1 DEF MoveSound
      <3>3. k - 1 \in DOMAIN rows /\ rows[k - 1] = ms[k - 1]
        BY <1>2, <2>1, <3>2 DEF By
      <3>4. QED
        BY <2>1, <3>2, <3>3
    <2>7. QED
      BY <2>1, <2>2, <2>3, <2>4, <2>5, <2>6 DEF RowSound, Typed
  <1>6. QED
    BY <1>1, <1>4, <1>5 DEF RowsSound

(* Those of a day are the first of those of a later one. *)
LEMMA RowsOfADay ==
  ASSUME NEW ms, MovesSound(ms), NEW i, NEW d \in Int, NEW e \in Int, d <= e
  PROVE  /\ RowsOf(ms, i, d) = Of(RowsOf(ms, i, e), By(ms, i, d))
         /\ Segment(RowsOf(ms, i, e), By(ms, i, d))
  <1>1. PICK rows, A : rows = RowsOf(ms, i, e) /\ A = By(ms, i, d)
    OBVIOUS
  <1>2. DOMAIN rows = By(ms, i, e) /\ \A k \in By(ms, i, e) : rows[k] = ms[k]
    BY <1>1, RowsAre
  <1>3. \A k \in DOMAIN ms : ms[k].date \in Int
    BY MoveTyped DEF Typed
  <1>4. A \subseteq DOMAIN rows
    BY <1>1, <1>2, <1>3 DEF By
  <1>5. RowsOf(ms, i, d) = Of(rows, A)
    BY <1>1, <1>2, <1>4 DEF RowsOf, Of, By
  <1>6. Initial(rows, A)
    <2>1. ASSUME NEW k \in A, NEW j \in DOMAIN rows, Earlier(rows, j, k)
          PROVE  j \in A
      <3>1. /\ rows[k] = ms[k] /\ rows[j] = ms[j] /\ j \in DOMAIN ms /\ ms[j].item = i
            /\ k \in DOMAIN ms /\ ms[k].date <= d
        BY <1>1, <1>2, <1>4 DEF By
      <3>2. ms[j].date <= ms[k].date
        BY <1>3, <2>1, <3>1 DEF Earlier
      <3>3. QED
        BY <1>1, <1>3, <3>1, <3>2 DEF By
    <2>2. QED
      BY <1>4, <2>1 DEF Initial
  <1>7. ASSUME NEW k \in A, rows[k].kind = "transfer_out"
        PROVE  k + 1 \in A
    <2>1. rows[k] = ms[k] /\ k \in DOMAIN ms /\ ms[k].item = i /\ ms[k].date <= d
      BY <1>1, <1>2, <1>4 DEF By
    <2>2. MoveSound(ms, k)
      BY <2>1 DEF MovesSound
    <2>3. k + 1 \in DOMAIN ms /\ ms[k + 1].date = ms[k].date /\ ms[k + 1].item = ms[k].item
      BY <1>7, <2>1, <2>2 DEF MoveSound
    <2>4. QED
      BY <1>1, <2>1, <2>3 DEF By
  <1>8. QED
    BY <1>1, <1>5, <1>6, <1>7 DEF Segment

------------------------------------------------------------------------------
(* A history that is sound is sound on every day. *)

\* The rows of a day, as far as a replay of them needs them.
SoundRows(method, rows) == RowsSound(rows) /\ Replay(method, rows).sound

LEMMA SoundEachDay ==
  ASSUME NEW ms, MovesSound(ms), NEW i, NEW method, Replay(method, RowsOf(ms, i, LastDay)).sound,
         NEW d \in Int, d <= LastDay
  PROVE  SoundRows(method, RowsOf(ms, i, d))
  <1>1. LastDay \in Int
    BY LastDayAssumption
  <1>2. PICK rows, A : rows = RowsOf(ms, i, LastDay) /\ A = By(ms, i, d)
    OBVIOUS
  <1>3. RowsSound(rows) /\ Segment(rows, A) /\ RowsOf(ms, i, d) = Of(rows, A)
    BY <1>1, <1>2, RowsAreSound, RowsOfADay
  <1>4. Replay(method, Of(rows, A)).sound
    <2>1. Replay(method, rows).sound
      BY <1>2
    <2>2. QED
      BY ONLY <1>3, <2>1, SegmentReplays
  <1>5. RowsSound(Of(rows, A))
    BY ONLY <1>3, SegmentSound
  <1>6. QED
    BY <1>3, <1>4, <1>5 DEF SoundRows

EveryReplaySound == \A i \in Items : ReplayOf(movements, i, LastDay).sound

LEMMA ReplaysOfDays ==
  ASSUME MovesSound(movements), EveryReplaySound, NEW i \in Items, NEW d \in Int, d <= LastDay
  PROVE  SoundRows(catalogued[i].method, RowsOf(movements, i, d))
  BY SoundEachDay DEF EveryReplaySound, ReplayOf

PoolTyped(pool) == /\ pool.quantity \in Nat /\ pool.value \in Nat
                   /\ pool.quantity = 0 => pool.value = 0

LEMMA PoolsTyped ==
  ASSUME MovesSound(movements), EveryReplaySound, NEW i \in Items, NEW d \in Int, d <= LastDay,
         NEW l \in Locations
  PROVE  PoolTyped(ReplayOf(movements, i, d).pools[l])
  <1>1. PICK rows, method : rows = RowsOf(movements, i, d) /\ method = catalogued[i].method
    OBVIOUS
  <1>2. RowsSound(rows) /\ Replay(method, rows).sound
    BY <1>1, ReplaysOfDays DEF SoundRows
  <1>3. PICK s : s = Replay(method, rows)
    OBVIOUS
  <1>4. s.pools[l].quantity \in Nat /\ s.pools[l].value \in Nat
        /\ (s.pools[l].quantity = 0 => s.pools[l].value = 0)
    BY ONLY <1>2, <1>3, l \in Locations, PoolsAddUp
  <1>5. QED
    BY <1>1, <1>3, <1>4 DEF ReplayOf, PoolTyped

(* So what is on hand, and what it is worth, are quantities and amounts. *)
LEMMA PositionsTyped ==
  ASSUME MovesSound(movements), EveryReplaySound, NEW d \in Int, d <= LastDay
  PROVE  Positions(d) \in [Items -> [Locations -> Position]]
  <1>1. ASSUME NEW i \in Items, NEW l \in Locations
        PROVE  OnHand(ReplayOf(movements, i, d).pools[l]) \in Position
    BY <1>1, PoolsTyped DEF PoolTyped, OnHand, Position
  <1>2. \A i \in Items : PositionsOf(i, d) \in [Locations -> Position]
    BY <1>1 DEF PositionsOf
  <1>3. QED
    BY <1>2 DEF Positions

------------------------------------------------------------------------------
(* Recording movements. *)

\* Movements that may be recorded after `ms`.
Recordable(ms, r) ==
  r \in Seq(Movement) /\ \A k \in 1..Len(r) : MoveSound(ms \o r, Len(ms) + k)

LEMMA RecordedFacts ==
  ASSUME NEW ms \in Seq(Movement), NEW r \in Seq(Movement)
  PROVE  /\ ms \o r \in Seq(Movement) /\ Len(ms) \in Nat /\ Len(r) \in Nat
         /\ Len(ms \o r) = Len(ms) + Len(r) /\ DOMAIN ms = 1..Len(ms) /\ DOMAIN r = 1..Len(r)
         /\ DOMAIN (ms \o r) = 1..(Len(ms) + Len(r))
         /\ \A k \in 1..Len(ms) : (ms \o r)[k] = ms[k]
         /\ \A k \in 1..Len(r) : (ms \o r)[Len(ms) + k] = r[k]
  OBVIOUS

LEMMA RecordedAreSound ==
  ASSUME NEW ms, MovesSound(ms), NEW r, Recordable(ms, r)
  PROVE  MovesSound(ms \o r)
  <1>1. PICK all, m, n : all = ms \o r /\ m = Len(ms) /\ n = Len(r)
    OBVIOUS
  <1>2. ms \in Seq(Movement) /\ r \in Seq(Movement)
    BY DEF MovesSound, Recordable
  <1>3. /\ all \in Seq(Movement) /\ m \in Nat /\ n \in Nat /\ DOMAIN ms = 1..m /\ DOMAIN all = 1..(m + n)
        /\ \A k \in 1..m : all[k] = ms[k]
    BY <1>1, <1>2, RecordedFacts
  <1>4. ASSUME NEW k \in 1..m
        PROVE  MoveSound(all, k)
    <2>1. MoveSound(ms, k) /\ k \in Nat /\ all[k] = ms[k] /\ ms[k].related \in Nat
      BY <1>3, MoveTyped DEF Typed
    <2>2. \A j \in DOMAIN ms : j \in DOMAIN all /\ all[j] = ms[j]
      BY <1>3
    <2>3. QED
      BY <2>1, <2>2 DEF MoveSound
  <1>5. ASSUME NEW k \in 1..n
        PROVE  MoveSound(all, m + k)
    BY <1>1, <1>5 DEF Recordable
  <1>6. \A k \in DOMAIN all : k \in 1..m \/ (k - m \in 1..n /\ k = m + (k - m))
    BY <1>3
  <1>7. \A k \in DOMAIN all : MoveSound(all, k)
    BY <1>4, <1>5, <1>6
  <1>8. QED
    BY <1>1, <1>3, <1>7 DEF MovesSound

(* Items that did not move have the rows they had. *)
LEMMA RowsOfOthers ==
  ASSUME NEW ms \in Seq(Movement), NEW r \in Seq(Movement), NEW i, \A n \in DOMAIN r : r[n].item # i, NEW d
  PROVE  RowsOf(ms \o r, i, d) = RowsOf(ms, i, d)
  <1>1. PICK all, m, n : all = ms \o r /\ m = Len(ms) /\ n = Len(r)
    OBVIOUS
  <1>2. /\ m \in Nat /\ n \in Nat /\ DOMAIN ms = 1..m /\ DOMAIN all = 1..(m + n) /\ DOMAIN r = 1..n
        /\ \A k \in 1..m : all[k] = ms[k]
        /\ \A k \in 1..n : all[m + k] = r[k]
    BY <1>1, RecordedFacts
  <1>3. \A k \in DOMAIN all : k \in 1..m \/ (k - m \in 1..n /\ k = m + (k - m))
    BY <1>2
  <1>4. By(all, i, d) = By(ms, i, d)
    <2>1. ASSUME NEW k \in By(all, i, d)
          PROVE  k \in By(ms, i, d)
      <3>1. k \in DOMAIN all /\ all[k].item = i /\ all[k].date <= d
        BY DEF By
      <3>2. k \in 1..m
        <4>1. ASSUME k - m \in 1..n, k = m + (k - m)
              PROVE  FALSE
          <5>1. PICK j \in 1..n : k = m + j
            BY <4>1
          <5>2. all[k] = r[j]
            BY <1>2, <5>1
          <5>3. QED
            BY <1>2, <3>1, <5>2
        <4>2. QED
          BY <1>3, <3>1, <4>1
      <3>3. QED
        BY <1>2, <3>1, <3>2 DEF By
    <2>2. ASSUME NEW k \in By(ms, i, d)
          PROVE  k \in By(all, i, d)
      BY <1>2, <2>2 DEF By
    <2>3. QED
      BY <2>1, <2>2
  <1>5. \A k \in By(ms, i, d) : all[k] = ms[k]
    BY <1>2 DEF By
  <1>6. QED
    BY <1>1, <1>4, <1>5 DEF RowsOf, By

LEMMA RecordKeepsReplays ==
  ASSUME MovesSound(movements), EveryReplaySound, NEW r, Recordable(movements, r), Record(r),
         catalogued' = catalogued
  PROVE  MovesSound(movements)' /\ EveryReplaySound'
  <1>1. /\ movements' = movements \o r
        /\ \A n \in DOMAIN r : ReplayOf(movements \o r, r[n].item, LastDay).sound
    BY DEF Record
  <1>2. MovesSound(movements')
    BY <1>1, RecordedAreSound
  <1>3. movements \in Seq(Movement) /\ r \in Seq(Movement)
    BY DEF MovesSound, Recordable
  <1>4. ASSUME NEW i \in Items
        PROVE  ReplayOf(movements \o r, i, LastDay).sound
    <2>1. CASE \E n \in DOMAIN r : r[n].item = i
      BY <1>1, <2>1
    <2>2. CASE \A n \in DOMAIN r : r[n].item # i
      <3>1. RowsOf(movements \o r, i, LastDay) = RowsOf(movements, i, LastDay)
        BY <1>3, <2>2, RowsOfOthers
      <3>2. QED
        BY <1>4, <3>1 DEF EveryReplaySound, ReplayOf
    <2>3. QED
      BY <2>1, <2>2
  <1>5. EveryReplaySound'
    BY <1>1, <1>4 DEF EveryReplaySound, ReplayOf
  <1>6. QED
    BY <1>2, <1>5

------------------------------------------------------------------------------
(* Each operation records movements that may follow those there are. *)

MayFollow(ms, m) ==
  /\ m \in Movement /\ m.quantity # 0 /\ m.kind \notin Transfers
  /\ m.kind = "sale" => m.quantity < 0
  /\ m.kind = "purchase" => m.quantity > 0
  /\ m.related # 0 =>
       /\ m.related \in DOMAIN ms
       /\ ms[m.related].date <= m.date /\ ms[m.related].item = m.item
       /\ m.quantity > 0 <=> ms[m.related].quantity < 0
       /\ ms[m.related].kind \notin Transfers

LEMMA OneIsRecordable ==
  ASSUME NEW ms, MovesSound(ms), NEW m, MayFollow(ms, m)
  PROVE  Recordable(ms, <<m>>)
  <1>1. PICK all, n, r : all = ms \o r /\ n = Len(ms) /\ r = <<m>>
    OBVIOUS
  <1>2. ms \in Seq(Movement) /\ r \in Seq(Movement) /\ Len(r) = 1 /\ r[1] = m
    BY <1>1 DEF MovesSound, MayFollow
  <1>3. /\ n \in Nat /\ DOMAIN ms = 1..n /\ DOMAIN all = 1..(n + 1) /\ all[n + 1] = m
        /\ \A k \in 1..n : all[k] = ms[k]
    BY <1>1, <1>2, RecordedFacts
  <1>4. MoveSound(all, n + 1)
    <2>1. m.related # 0 =>
            /\ m.related \in 1..n /\ m.related \in DOMAIN all /\ m.related < n + 1
            /\ all[m.related] = ms[m.related]
      BY <1>3 DEF MayFollow
    <2>2. m.kind # "transfer_in" /\ m.kind # "transfer_out"
      BY DEF MayFollow, Transfers
    <2>3. QED
      BY <1>3, <2>1, <2>2 DEF MayFollow, MoveSound
  <1>5. \A k \in 1..Len(r) : k = 1
    BY <1>2
  <1>6. QED
    BY <1>1, <1>2, <1>4, <1>5 DEF Recordable

\* A transfer: out of one place and into another.
IsTransfer(n, o, i) ==
  /\ o \in Movement /\ i \in Movement
  /\ o.kind = "transfer_out" /\ i.kind = "transfer_in" /\ o.related = 0 /\ i.related = 0
  /\ o.pair = n + 2 /\ i.pair = n + 1 /\ o.date = i.date /\ o.item = i.item
  /\ o.quantity < 0 /\ i.quantity > 0 /\ i.quantity = -o.quantity /\ i.location # o.location

LEMMA TransferIsRecordable ==
  ASSUME NEW ms, MovesSound(ms), NEW o, NEW i, IsTransfer(Len(ms), o, i)
  PROVE  Recordable(ms, <<o, i>>)
  <1>1. PICK all, n, r : all = ms \o r /\ n = Len(ms) /\ r = <<o, i>>
    OBVIOUS
  <1>2. ms \in Seq(Movement) /\ r \in Seq(Movement) /\ Len(r) = 2 /\ r[1] = o /\ r[2] = i
    BY <1>1 DEF MovesSound, IsTransfer
  <1>3. /\ n \in Nat /\ DOMAIN all = 1..(n + 2)
        /\ \A k \in 1..2 : all[n + k] = r[k]
    BY <1>1, <1>2, RecordedFacts
  <1>4. all[n + 1] = o /\ all[n + 2] = i
    BY <1>2, <1>3
  <1>5. (n + 1) + 1 = n + 2 /\ (n + 2) - 1 = n + 1 /\ n + 1 \in DOMAIN all /\ n + 2 \in DOMAIN all
    BY <1>3
  <1>6. MoveSound(all, n + 1)
    BY <1>1, <1>4, <1>5 DEF MoveSound, IsTransfer
  <1>7. MoveSound(all, n + 2)
    BY <1>1, <1>4, <1>5 DEF MoveSound, IsTransfer
  <1>8. \A k \in 1..Len(r) : k = 1 \/ k = 2
    BY <1>2
  <1>9. QED
    BY <1>1, <1>2, <1>6, <1>7, <1>8 DEF Recordable

LEMMA MovingIs ==
  ASSUME NEW i \in Items, NEW l \in Locations, NEW d \in Days, NEW kind \in Kinds,
         NEW q \in Int, NEW c \in Nat, NEW k \in Nat, NEW p \in Nat,
         NEW line \in Deliveries \cup Sales \cup {NoLine},
         NEW m, m = [item |-> i, location |-> l, date |-> d, kind |-> kind, quantity |-> q,
                     cost |-> c, related |-> k, pair |-> p, line |-> line]
  PROVE  /\ m \in Movement /\ m.item = i /\ m.location = l /\ m.date = d /\ m.kind = kind
         /\ m.quantity = q /\ m.cost = c /\ m.related = k /\ m.pair = p /\ m.line = line
  BY DEF Movement

\* What the costs of a movement are reckoned from.
LEMMA CostOfIsNatural ==
  ASSUME NEW u \in UnitCosts, NEW q \in Nat
  PROVE  CostOf(u, q) \in Nat
  BY ShareIsNatural, StockAssumption DEF CostOf

LEMMA MovedAgainstIsNatural ==
  ASSUME MovesSound(movements), NEW line, NEW kind
  PROVE  MovedAgainst(line, kind) \in Nat
  <1> DEFINE moved == {k \in DOMAIN movements : /\ movements[k].line = line
                                                /\ movements[k].kind = kind /\ ~Reversed(k)}
             f == [k \in moved |-> Magnitude(movements[k].quantity)]
  <1>1. \A k \in moved : Magnitude(movements[k].quantity) \in Nat
    <2>1. \A k \in DOMAIN movements : movements[k].quantity \in Int
      BY MoveTyped DEF Typed
    <2>2. QED
      BY <2>1 DEF Magnitude
  <1>2. IsFiniteSet(DOMAIN movements)
    <2>1. DOMAIN movements = 1..Len(movements) /\ Len(movements) \in Nat
      BY DEF MovesSound
    <2>2. QED
      BY <2>1, FS_Interval
  <1>3. IsFiniteSet(moved)
    BY <1>2, FS_Subset
  <1>4. DOMAIN f = moved /\ \A k \in moved : f[k] \in Nat
    BY <1>1
  <1>5. Total(f) \in Nat
    <2> HIDE DEF f
    <2>1. QED
      BY <1>3, <1>4, TotalBounds
  <1>6. QED
    BY <1>5 DEF MovedAgainst

\* A part delivery costs no less than nothing: the share delivered grows.
LEMMA PartCost ==
  ASSUME NEW net \in Nat, NEW n \in Nat \ {0}, NEW a \in Nat, NEW q \in Nat
  PROVE  Share(net, a + q, n) - Share(net, a, n) \in Nat
  <1>1. Share(net, a + q, n) \in Nat /\ Share(net, a, n) \in Nat
    <2>1. a + q \in Nat
      OBVIOUS
    <2>2. QED
      BY <2>1, ShareIsNatural
  <1>2. Share(net, a, n) <= Share(net, a + q, n)
    <2>1. PICK b \in Nat : b = a + q
      OBVIOUS
    <2>2. a <= b
      BY <2>1
    <2>3. Share(net, a, n) <= Share(net, b, n)
      BY ONLY net \in Nat, n \in Nat \ {0}, a \in Nat, b \in Nat, <2>2, SharesOfACost
    <2>4. QED
      BY <2>1, <2>3
  <1>3. QED
    BY <1>1, <1>2

\* The rows of the stock ledger fit together, and every item's replay is sound.
StockSound ==
  /\ catalogued \in [Items -> Item]
  /\ MovesSound(movements) /\ EveryReplaySound
  /\ stocktakes \in Seq(Stocktake)

\* What a step records may follow what there is.
Records(r) == Recordable(movements, r) /\ RecordAfterValuation(r)

LEMMA OneMovementRecords ==
  ASSUME StockSound, NEW m, MayFollow(movements, m), RecordAfterValuation(<<m>>)
  PROVE  \E r : Records(r)
  <1>1. Recordable(movements, <<m>>)
    BY OneIsRecordable DEF StockSound
  <1>2. QED
    BY <1>1 DEF Records

\* A movement that refers to no other.
LEMMA NewMovementRecords ==
  ASSUME StockSound, NEW i \in Items, NEW l \in Locations, NEW d \in Days,
         NEW kind \in {"opening", "purchase", "sale", "adjustment"},
         NEW q \in Int, q # 0, NEW c \in Nat, NEW line \in Deliveries \cup Sales \cup {NoLine},
         kind = "sale" => q < 0, kind = "purchase" => q > 0,
         NEW m, m = [item |-> i, location |-> l, date |-> d, kind |-> kind, quantity |-> q,
                     cost |-> c, related |-> 0, pair |-> 0, line |-> line]
  PROVE  MayFollow(movements, m)
  <1>1. kind \in Kinds /\ kind \notin Transfers
    BY DEF Kinds, Transfers
  <1>2. /\ m \in Movement /\ m.quantity = q /\ m.kind = kind /\ m.related = 0
    BY <1>1 DEF Movement
  <1>3. QED
    BY <1>1, <1>2 DEF MayFollow

\* A movement that takes back some of another.
LEMMA BackMovementRecords ==
  ASSUME StockSound, NEW k \in DOMAIN movements, NEW l \in Locations, NEW d \in Days,
         d >= movements[k].date, movements[k].kind \notin Transfers,
         NEW kind \in {"customer_return", "supplier_return", "reversal"},
         NEW q \in Int, q # 0, q > 0 <=> movements[k].quantity < 0,
         NEW m, m = [item |-> movements[k].item, location |-> l, date |-> d, kind |-> kind,
                     quantity |-> q, cost |-> 0, related |-> k, pair |-> 0, line |-> NoLine]
  PROVE  MayFollow(movements, m)
  <1>1. kind \in Kinds /\ kind \notin Transfers /\ kind # "sale" /\ kind # "purchase"
    BY DEF Kinds, Transfers
  <1>2. movements[k] \in Movement /\ movements[k].date \in Days /\ k \in Nat
    BY MoveTyped DEF StockSound
  <1>3. movements[k].item \in Items
    BY <1>2 DEF Movement
  <1>4. /\ m \in Movement /\ m.quantity = q /\ m.kind = kind /\ m.related = k
        /\ m.item = movements[k].item /\ m.date = d
    BY <1>1, <1>2, <1>3 DEF Movement
  <1>5. movements[k].date <= d
    BY <1>2, LastDayAssumption DEF Days
  <1>6. QED
    BY <1>1, <1>4, <1>5 DEF MayFollow

LEMMA OpeningRecords ==
  ASSUME StockSound, NEW i \in Items, NEW l \in Locations, NEW d \in Days, NEW q \in Nat \ {0},
         NEW unitCost \in UnitCosts, RecordOpeningStock(i, l, d, q, unitCost)
  PROVE  \E r : Records(r)
  <1>1. PICK c \in Nat : c = CostOf(unitCost, q)
    BY CostOfIsNatural
  <1>2. PICK m : m = [item |-> i, location |-> l, date |-> d, kind |-> "opening", quantity |-> q,
                      cost |-> c, related |-> 0, pair |-> 0, line |-> NoLine]
    OBVIOUS
  <1>3. RecordAfterValuation(<<m>>)
    BY <1>1, <1>2 DEF RecordOpeningStock, Moving
  <1>4. MayFollow(movements, m)
    BY <1>2, NewMovementRecords
  <1>5. QED
    BY <1>3, <1>4, OneMovementRecords

LEMMA PurchaseRecords ==
  ASSUME StockSound, NEW i \in Items, NEW l \in Locations, NEW d \in Days, NEW q \in Nat \ {0},
         NEW line \in Deliveries, ReceivePurchase(i, l, d, line, q)
  PROVE  \E r : Records(r)
  <1>1. PICK net, n, a : net = Billed[line].net /\ n = Billed[line].quantity
                         /\ a = MovedAgainst(line, "purchase")
    OBVIOUS
  <1>2. net \in Nat /\ n \in Nat \ {0}
    BY <1>1, StockAssumption
  <1>3. a \in Nat
    BY <1>1, MovedAgainstIsNatural DEF StockSound
  <1>4. PICK c \in Nat : c = Share(net, a + q, n) - Share(net, a, n)
    BY <1>2, <1>3, PartCost
  <1>5. PICK m : m = [item |-> i, location |-> l, date |-> d, kind |-> "purchase", quantity |-> q,
                      cost |-> c, related |-> 0, pair |-> 0, line |-> line]
    OBVIOUS
  <1>6. RecordAfterValuation(<<m>>)
    <2>1. RecordAfterValuation(<< [Moving(i, l, d, "purchase", q) EXCEPT !.cost = c, !.line = line] >>)
      BY <1>1, <1>4 DEF ReceivePurchase
    <2>2. [Moving(i, l, d, "purchase", q) EXCEPT !.cost = c, !.line = line] = m
      <3>1. PICK old : old = [item |-> i, location |-> l, date |-> d, kind |-> "purchase", quantity |-> q,
                              cost |-> 0, related |-> 0, pair |-> 0, line |-> NoLine]
        OBVIOUS
      <3>2. Moving(i, l, d, "purchase", q) = old
        BY <3>1 DEF Moving
      <3>3. PICK costed : costed = [old EXCEPT !.cost = c]
        OBVIOUS
      <3>4. costed = [item |-> i, location |-> l, date |-> d, kind |-> "purchase", quantity |-> q,
                      cost |-> c, related |-> 0, pair |-> 0, line |-> NoLine]
        BY <3>1, <3>3
      <3>5. [costed EXCEPT !.line = line] = m
        BY <1>5, <3>4
      <3>6. QED
        BY <3>2, <3>3, <3>5
    <2>3. QED
      BY <2>1, <2>2
  <1>7. MayFollow(movements, m)
    BY <1>5, NewMovementRecords
  <1>8. QED
    BY <1>6, <1>7, OneMovementRecords

LEMMA SaleRecords ==
  ASSUME StockSound, NEW i \in Items, NEW l \in Locations, NEW d \in Days, NEW q \in Nat \ {0},
         NEW line \in Sales, IssueSale(i, l, d, line, q)
  PROVE  \E r : Records(r)
  <1>1. PICK p \in Int : p = -q /\ p < 0
    OBVIOUS
  <1>2. PICK m : m = [item |-> i, location |-> l, date |-> d, kind |-> "sale", quantity |-> p,
                      cost |-> 0, related |-> 0, pair |-> 0, line |-> line]
    OBVIOUS
  <1>3. RecordAfterValuation(<<m>>)
    BY <1>1, <1>2 DEF IssueSale, Moving
  <1>4. MayFollow(movements, m)
    BY <1>1, <1>2, NewMovementRecords
  <1>5. QED
    BY <1>3, <1>4, OneMovementRecords

LEMMA StockOutRecords ==
  ASSUME StockSound, NEW i \in Items, NEW l \in Locations, NEW d \in Days, NEW q \in Nat \ {0},
         RecordStockOut(i, l, d, q)
  PROVE  \E r : Records(r)
  <1>1. PICK p \in Int : p = -q /\ p < 0
    OBVIOUS
  <1>2. PICK m : m = [item |-> i, location |-> l, date |-> d, kind |-> "adjustment", quantity |-> p,
                      cost |-> 0, related |-> 0, pair |-> 0, line |-> NoLine]
    OBVIOUS
  <1>3. RecordAfterValuation(<<m>>)
    BY <1>1, <1>2 DEF RecordStockOut, Moving
  <1>4. MayFollow(movements, m)
    BY <1>1, <1>2, NewMovementRecords
  <1>5. QED
    BY <1>3, <1>4, OneMovementRecords

LEMMA StockInRecords ==
  ASSUME StockSound, NEW i \in Items, NEW l \in Locations, NEW d \in Days, NEW q \in Nat \ {0},
         NEW unitCost \in UnitCosts, RecordStockIn(i, l, d, q, unitCost)
  PROVE  \E r : Records(r)
  <1>1. PICK c \in Nat : c = CostOf(unitCost, q)
    BY CostOfIsNatural
  <1>2. PICK m : m = [item |-> i, location |-> l, date |-> d, kind |-> "adjustment", quantity |-> q,
                      cost |-> c, related |-> 0, pair |-> 0, line |-> NoLine]
    OBVIOUS
  <1>3. RecordAfterValuation(<<m>>)
    BY <1>1, <1>2 DEF RecordStockIn, Moving
  <1>4. MayFollow(movements, m)
    BY <1>2, NewMovementRecords
  <1>5. QED
    BY <1>3, <1>4, OneMovementRecords

LEMMA TransferRecords ==
  ASSUME StockSound, NEW i \in Items, NEW from \in Locations, NEW to \in Locations,
         NEW d \in Days, NEW q \in Nat \ {0}, TransferStock(i, from, to, d, q)
  PROVE  \E r : Records(r)
  <1>1. PICK p \in Int : p = -q /\ p < 0 /\ q = -p
    OBVIOUS
  <1>2. PICK n \in Nat : n = Len(movements)
    BY DEF StockSound, MovesSound
  <1>3. PICK x \in Nat, y \in Nat : x = n + 2 /\ y = n + 1
    BY <1>2
  <1>4. PICK out, in :
          /\ out = [item |-> i, location |-> from, date |-> d, kind |-> "transfer_out", quantity |-> p,
                    cost |-> 0, related |-> 0, pair |-> x, line |-> NoLine]
          /\ in = [item |-> i, location |-> to, date |-> d, kind |-> "transfer_in", quantity |-> q,
                   cost |-> 0, related |-> 0, pair |-> y, line |-> NoLine]
    OBVIOUS
  <1>5. RecordAfterValuation(<<out, in>>) /\ to # from
    <2>1. /\ to # from
          /\ RecordAfterValuation(<< [Moving(i, from, d, "transfer_out", -q) EXCEPT !.pair = n + 2],
                                     [Moving(i, to, d, "transfer_in", q) EXCEPT !.pair = n + 1] >>)
      BY <1>2 DEF TransferStock
    <2>2. RecordAfterValuation(<< [Moving(i, from, d, "transfer_out", p) EXCEPT !.pair = x],
                                  [Moving(i, to, d, "transfer_in", q) EXCEPT !.pair = y] >>)
      BY <1>1, <1>3, <2>1
    <2>3. out = [Moving(i, from, d, "transfer_out", p) EXCEPT !.pair = x]
      BY <1>4 DEF Moving
    <2>4. in = [Moving(i, to, d, "transfer_in", q) EXCEPT !.pair = y]
      BY <1>4 DEF Moving
    <2>5. QED
      BY <2>1, <2>2, <2>3, <2>4
  <1>6. out \in Movement /\ in \in Movement
    BY <1>4 DEF Movement, Kinds
  <1>7. IsTransfer(Len(movements), out, in)
    BY <1>1, <1>2, <1>3, <1>4, <1>5, <1>6 DEF IsTransfer
  <1>8. Recordable(movements, <<out, in>>)
    BY <1>7, TransferIsRecordable DEF StockSound
  <1>9. QED
    BY <1>5, <1>8 DEF Records

LEMMA CustomerReturnRecords ==
  ASSUME StockSound, NEW k \in DOMAIN movements, NEW l \in Locations, NEW d \in Days,
         NEW q \in Nat \ {0}, RecordCustomerReturn(k, l, d, q)
  PROVE  \E r : Records(r)
  <1>1. movements[k].kind = "sale" /\ d >= movements[k].date
    BY DEF RecordCustomerReturn
  <1>2. movements[k].quantity < 0 /\ movements[k].kind \notin Transfers
    BY <1>1, MoveTyped DEF StockSound, MoveSound, Transfers
  <1>3. PICK m : m = [item |-> movements[k].item, location |-> l, date |-> d,
                      kind |-> "customer_return", quantity |-> q, cost |-> 0, related |-> k,
                      pair |-> 0, line |-> NoLine]
    OBVIOUS
  <1>4. RecordAfterValuation(<<m>>)
    BY <1>3 DEF RecordCustomerReturn, Moving
  <1>5. MayFollow(movements, m)
    BY <1>1, <1>2, <1>3, BackMovementRecords
  <1>6. QED
    BY <1>4, <1>5, OneMovementRecords

LEMMA SupplierReturnRecords ==
  ASSUME StockSound, NEW k \in DOMAIN movements, NEW l \in Locations, NEW d \in Days,
         NEW q \in Nat \ {0}, RecordSupplierReturn(k, l, d, q)
  PROVE  \E r : Records(r)
  <1>1. movements[k].kind = "purchase" /\ d >= movements[k].date
    BY DEF RecordSupplierReturn
  <1>2. movements[k].quantity > 0 /\ movements[k].quantity \in Int /\ movements[k].kind \notin Transfers
    BY <1>1, MoveTyped DEF StockSound, MoveSound, Transfers, Typed
  <1>3. PICK p \in Int : p = -q /\ p < 0
    OBVIOUS
  <1>4. PICK m : m = [item |-> movements[k].item, location |-> l, date |-> d,
                      kind |-> "supplier_return", quantity |-> p, cost |-> 0, related |-> k,
                      pair |-> 0, line |-> NoLine]
    OBVIOUS
  <1>5. RecordAfterValuation(<<m>>)
    BY <1>3, <1>4 DEF RecordSupplierReturn, Moving
  <1>6. MayFollow(movements, m)
    BY <1>1, <1>2, <1>3, <1>4, BackMovementRecords
  <1>7. QED
    BY <1>5, <1>6, OneMovementRecords

LEMMA ReversalRecords ==
  ASSUME StockSound, NEW k \in DOMAIN movements, NEW d \in Days, ReverseStockMovement(k, d)
  PROVE  \E r : Records(r)
  <1>1. movements[k].kind \notin Transfers /\ d >= movements[k].date
    BY DEF ReverseStockMovement, Transfers
  <1>2. /\ movements[k].quantity \in Int /\ movements[k].quantity # 0
        /\ movements[k].location \in Locations
    BY MoveTyped DEF StockSound, MoveSound, Typed
  <1>3. PICK p \in Int : p = -movements[k].quantity
    BY <1>2
  <1>4. PICK m : m = [item |-> movements[k].item, location |-> movements[k].location, date |-> d,
                      kind |-> "reversal", quantity |-> p, cost |-> 0, related |-> k,
                      pair |-> 0, line |-> NoLine]
    OBVIOUS
  <1>5. RecordAfterValuation(<<m>>)
    BY <1>3, <1>4 DEF ReverseStockMovement, Moving
  <1>6. p # 0 /\ (p > 0 <=> movements[k].quantity < 0)
    BY <1>2, <1>3
  <1>7. MayFollow(movements, m)
    BY <1>1, <1>2, <1>4, <1>6, BackMovementRecords
  <1>8. QED
    BY <1>5, <1>7, OneMovementRecords

------------------------------------------------------------------------------
(* A stocktake. *)

\* The differences a count can find.
Adjusts(m) == m \in Movement /\ m.kind = "adjustment" /\ m.quantity # 0 /\ m.related = 0

LEMMA AdjustmentsAreRecordable ==
  ASSUME NEW ms, MovesSound(ms), NEW r, r \in Seq(Movement), \A k \in DOMAIN r : Adjusts(r[k])
  PROVE  Recordable(ms, r)
  <1>1. PICK all, m, n : all = ms \o r /\ m = Len(ms) /\ n = Len(r)
    OBVIOUS
  <1>2. /\ DOMAIN r = 1..n
        /\ \A k \in 1..n : all[m + k] = r[k]
    BY <1>1, RecordedFacts DEF MovesSound
  <1>3. ASSUME NEW k \in 1..n
        PROVE  MoveSound(all, m + k)
    <2>1. Adjusts(all[m + k])
      BY <1>2
    <2>2. QED
      BY <2>1 DEF Adjusts, MoveSound
  <1>4. QED
    BY <1>1, <1>3 DEF Recordable

LEMMA OverIs ==
  ASSUME StockSound, NEW t \in DOMAIN stocktakes, NEW st, st = stocktakes[t], NEW i \in DOMAIN st.counts
  PROVE  i \in Items /\ Over(st)[i] \in Int /\ DOMAIN Over(st) = DOMAIN st.counts
         /\ st.counts[i] \in Count /\ st.date \in Days /\ st.location \in Locations
  <1>1. st \in Stocktake
    BY DEF StockSound
  <1>2. st.date \in Days /\ st.location \in Locations
    BY <1>1 DEF Stocktake
  <1>3. PICK S \in SUBSET Items : st.counts \in [S -> Count]
    BY <1>1 DEF Stocktake
  <1>4. i \in Items /\ st.counts[i] \in Count
    BY <1>3
  <1>5. st.counts[i].quantity \in Nat
    BY <1>4, StockAssumption DEF Count
  <1>6. st.date \in Int /\ st.date <= LastDay
    BY <1>2, LastDayAssumption DEF Days
  <1>7. PoolTyped(ReplayOf(movements, i, st.date).pools[st.location])
    BY <1>2, <1>4, <1>6, PoolsTyped DEF StockSound
  <1>8. BookQuantity(i, st.location, st.date) \in Nat
    <2>1. BookQuantity(i, st.location, st.date) = ReplayOf(movements, i, st.date).pools[st.location].quantity
      BY <1>2 DEF BookQuantity, PositionsOf, OnHand
    <2>2. QED
      BY <1>7, <2>1 DEF PoolTyped
  <1>9. Over(st)[i] \in Int /\ DOMAIN Over(st) = DOMAIN st.counts
    BY <1>5, <1>8 DEF Over
  <1>10. QED
    BY <1>2, <1>4, <1>9

LEMMA FoundAdjusts ==
  ASSUME StockSound, NEW t \in DOMAIN stocktakes, NEW st, st = stocktakes[t], NEW over, over = Over(st),
         Countable(st, over), NEW i \in DOMAIN over, over[i] # 0
  PROVE  Adjusts(Found(st, i, over[i]))
  <1>1. i \in DOMAIN st.counts
    BY DEF Over
  <1>2. /\ i \in Items /\ over[i] \in Int /\ st.counts[i] \in Count
        /\ st.date \in Days /\ st.location \in Locations
    BY <1>1, OverIs
  <1>3. PICK q \in Int : q = over[i] /\ q # 0
    BY <1>2
  <1>4. PICK c \in Nat : c = IF q > 0 THEN CostOf(st.counts[i].unitCost, q) ELSE 0
    <2>1. CASE q > 0
      <3>1. st.counts[i].unitCost # NoCost
        BY <1>3, <2>1 DEF Countable
      <3>2. st.counts[i].unitCost \in UnitCosts
        BY <1>2, <3>1 DEF Count
      <3>3. q \in Nat
        BY <2>1
      <3>4. QED
        BY <2>1, <3>2, <3>3, CostOfIsNatural
    <2>2. CASE ~(q > 0)
      BY <2>2
    <2>3. QED
      BY <2>1, <2>2
  <1>5. PICK m : m = [item |-> i, location |-> st.location, date |-> st.date, kind |-> "adjustment",
                      quantity |-> q, cost |-> c, related |-> 0, pair |-> 0, line |-> NoLine]
    OBVIOUS
  <1>6. Found(st, i, q) = m
    BY <1>4, <1>5 DEF Found, Moving
  <1>7. Adjusts(m)
    BY <1>2, <1>3, <1>5 DEF Adjusts, Movement, Kinds
  <1>8. QED
    BY <1>3, <1>6, <1>7

LEMMA DifferencesAdjust ==
  ASSUME StockSound, NEW t \in DOMAIN stocktakes, NEW st, st = stocktakes[t], NEW over, over = Over(st),
         Countable(st, over)
  PROVE  /\ Differences(st, over) \in Seq(Movement)
         /\ \A k \in DOMAIN Differences(st, over) : Adjusts(Differences(st, over)[k])
  <1>1. PICK S : S = Off(over)
    OBVIOUS
  <1>2. DOMAIN Catalogue = 1..Len(Catalogue) /\ Len(Catalogue) \in Nat
    BY StockAssumption
  <1>3. S \subseteq 1..Len(Catalogue)
    BY <1>1, <1>2 DEF Off
  <1>4. IsFiniteSet(S) /\ S \in SUBSET Int
    <2>1. IsFiniteSet(1..Len(Catalogue))
      BY <1>2, FS_Interval
    <2>2. IsFiniteSet(S)
      BY <1>3, <2>1, FS_Subset
    <2>3. QED
      BY <1>2, <1>3, <2>2
  <1>5. PICK n \in Nat : n = Cardinality(S)
    BY <1>4, FS_CardinalityType
  <1>6. ASSUME NEW k \in 1..n
        PROVE  Adjusts(Found(st, Catalogue[Nth(S, k)], over[Catalogue[Nth(S, k)]]))
    <2>1. Nth(S, k) \in S
      BY <1>4, <1>5, NthNumbers
    <2>2. PICK i : i = Catalogue[Nth(S, k)]
      OBVIOUS
    <2>3. i \in DOMAIN over /\ over[i] # 0
      BY <1>1, <2>1, <2>2 DEF Off
    <2>4. QED
      BY <2>2, <2>3, FoundAdjusts
  <1>7. PICK r : r = Differences(st, over)
    OBVIOUS
  <1>8. r = [k \in 1..n |-> Found(st, Catalogue[Nth(S, k)], over[Catalogue[Nth(S, k)]])]
    BY <1>1, <1>5, <1>7 DEF Differences
  <1>9. DOMAIN r = 1..n /\ \A k \in 1..n : Adjusts(r[k])
    BY <1>6, <1>8
  <1>10. r \in [1..n -> Movement]
    <2>1. \A k \in 1..n : r[k] \in Movement
      BY <1>9 DEF Adjusts
    <2>2. QED
      BY <1>8, <2>1
  <1>11. r \in Seq(Movement)
    BY <1>5, <1>10, SeqDef
  <1>12. QED
    BY <1>7, <1>9, <1>11

LEMMA StocktakeRecords ==
  ASSUME StockSound, NEW t \in DOMAIN stocktakes, PostStocktake(t)
  PROVE  \E r : Recordable(movements, r) /\ Record(r)
  <1>1. PICK st, over : st = stocktakes[t] /\ over = Over(st)
    OBVIOUS
  <1>2. Countable(st, over) /\ Record(Differences(st, over))
    BY <1>1 DEF PostStocktake
  <1>3. Recordable(movements, Differences(st, over))
    BY <1>1, <1>2, DifferencesAdjust, AdjustmentsAreRecordable DEF StockSound
  <1>4. QED
    BY <1>2, <1>3

------------------------------------------------------------------------------
(* Every step keeps the history sound. *)

LEMMA MovementStepRecords ==
  ASSUME StockSound, MovementStep
  PROVE  \E r : Records(r)
  <1>1. PICK d \in StockDays, q \in Quantities :
          \/ \E i \in Items, l \in Locations :
               \/ \E unitCost \in UnitCosts : RecordOpeningStock(i, l, d, q, unitCost)
               \/ \E line \in Deliveries : ReceivePurchase(i, l, d, line, q)
               \/ \E line \in Sales : IssueSale(i, l, d, line, q)
               \/ RecordStockOut(i, l, d, q)
               \/ \E unitCost \in UnitCosts : RecordStockIn(i, l, d, q, unitCost)
               \/ \E to \in Locations : TransferStock(i, l, to, d, q)
          \/ \E k \in DOMAIN movements, l \in Locations :
               RecordCustomerReturn(k, l, d, q) \/ RecordSupplierReturn(k, l, d, q)
    BY DEF MovementStep
  <1>2. d \in Days /\ q \in Nat \ {0}
    BY StockAssumption
  <1>3. ASSUME NEW i \in Items, NEW l \in Locations, NEW u \in UnitCosts, RecordOpeningStock(i, l, d, q, u)
        PROVE  \E r : Records(r)
    BY <1>2, <1>3, OpeningRecords
  <1>4. ASSUME NEW i \in Items, NEW l \in Locations, NEW line \in Deliveries, ReceivePurchase(i, l, d, line, q)
        PROVE  \E r : Records(r)
    BY <1>2, <1>4, PurchaseRecords
  <1>5. ASSUME NEW i \in Items, NEW l \in Locations, NEW line \in Sales, IssueSale(i, l, d, line, q)
        PROVE  \E r : Records(r)
    BY <1>2, <1>5, SaleRecords
  <1>6. ASSUME NEW i \in Items, NEW l \in Locations, RecordStockOut(i, l, d, q)
        PROVE  \E r : Records(r)
    BY <1>2, <1>6, StockOutRecords
  <1>7. ASSUME NEW i \in Items, NEW l \in Locations, NEW u \in UnitCosts, RecordStockIn(i, l, d, q, u)
        PROVE  \E r : Records(r)
    BY <1>2, <1>7, StockInRecords
  <1>8. ASSUME NEW i \in Items, NEW l \in Locations, NEW to \in Locations, TransferStock(i, l, to, d, q)
        PROVE  \E r : Records(r)
    BY <1>2, <1>8, TransferRecords
  <1>9. ASSUME NEW k \in DOMAIN movements, NEW l \in Locations, RecordCustomerReturn(k, l, d, q)
        PROVE  \E r : Records(r)
    BY <1>2, <1>9, CustomerReturnRecords
  <1>10. ASSUME NEW k \in DOMAIN movements, NEW l \in Locations, RecordSupplierReturn(k, l, d, q)
         PROVE  \E r : Records(r)
    BY <1>2, <1>10, SupplierReturnRecords
  <1>11. QED
    BY <1>1, <1>3, <1>4, <1>5, <1>6, <1>7, <1>8, <1>9, <1>10

LEMMA RecordingKeepsSound ==
  ASSUME StockSound, NEW r, Records(r)
  PROVE  StockSound' /\ UNCHANGED <<catalogued, stocktakes, valuations, outside, closing, since>>
  <1>1. Record(r) /\ UNCHANGED <<catalogued, stocktakes, valuations, outside, closing, since>>
    BY DEF Records, RecordAfterValuation
  <1>2. Recordable(movements, r) /\ MovesSound(movements) /\ EveryReplaySound
    BY DEF Records, StockSound
  <1>3. MovesSound(movements)' /\ EveryReplaySound'
    BY <1>1, <1>2, RecordKeepsReplays
  <1>4. QED
    BY <1>1, <1>3 DEF StockSound

LEMMA NothingMovedKeepsSound ==
  ASSUME StockSound, UNCHANGED <<catalogued, movements>>, stocktakes' \in Seq(Stocktake)
  PROVE  StockSound'
  BY DEF StockSound, EveryReplaySound, ReplayOf

LEMMA UpdateItemKeepsSound ==
  ASSUME StockSound, NEW i \in Items, NEW method \in CostingMethods, NEW account \in StockAccounts,
         UpdateItem(i, method, account)
  PROVE  StockSound'
  <1>1. /\ catalogued' = [catalogued EXCEPT ![i] = [method |-> method, account |-> account]]
        /\ UNCHANGED <<movements, stocktakes>>
        /\ method # catalogued[i].method => \A k \in DOMAIN movements : movements[k].item # i
    BY DEF UpdateItem
  <1>2. catalogued' \in [Items -> Item]
    BY <1>1 DEF StockSound, Item
  <1>3. ASSUME NEW j \in Items
        PROVE  Replay(catalogued'[j].method, RowsOf(movements, j, LastDay)).sound
    <2>1. CASE catalogued'[j].method = catalogued[j].method
      BY <2>1 DEF StockSound, EveryReplaySound, ReplayOf
    <2>2. CASE catalogued'[j].method # catalogued[j].method
      <3>1. j = i /\ method # catalogued[i].method
        BY <1>1, <2>2 DEF StockSound
      <3>2. DOMAIN RowsOf(movements, j, LastDay) = {}
        BY <1>1, <3>1 DEF RowsOf
      <3>3. Replay(catalogued'[j].method, RowsOf(movements, j, LastDay)) = Start(RowsOf(movements, j, LastDay))
        BY <3>2, ReplayOfNothing
      <3>4. QED
        BY <3>3 DEF Start
    <2>3. QED
      BY <2>1, <2>2
  <1>4. EveryReplaySound'
    BY <1>1, <1>3 DEF EveryReplaySound, ReplayOf
  <1>5. QED
    BY <1>1, <1>2, <1>4 DEF StockSound

LEMMA StocktakeKeepsSound ==
  ASSUME StockSound, NEW t \in DOMAIN stocktakes, PostStocktake(t)
  PROVE  StockSound'
  <1>1. /\ UNCHANGED catalogued
        /\ stocktakes' = [stocktakes EXCEPT ![t].posted = TRUE]
    BY DEF PostStocktake
  <1>2. PICK r : Recordable(movements, r) /\ Record(r)
    BY StocktakeRecords
  <1>3. MovesSound(movements)' /\ EveryReplaySound'
    BY <1>1, <1>2, RecordKeepsReplays DEF StockSound
  <1>4. stocktakes' \in Seq(Stocktake)
    BY <1>1, StocktakePosted DEF StockSound
  <1>5. QED
    BY <1>1, <1>3, <1>4 DEF StockSound

LEMMA StepKeepsSound ==
  ASSUME StockSound, [StockNext]_stockVars
  PROVE  StockSound'
  <1>1. CASE MovementStep
    BY <1>1, MovementStepRecords, RecordingKeepsSound
  <1>2. ASSUME NEW k \in DOMAIN movements, NEW d \in StockDays, ReverseStockMovement(k, d)
        PROVE  StockSound'
    <2>1. d \in Days
      BY StockAssumption
    <2>2. QED
      BY <1>2, <2>1, ReversalRecords, RecordingKeepsSound
  <1>3. ASSUME NEW l \in Locations, NEW d \in StockDays, CreateStocktake(l, d)
        PROVE  StockSound'
    <2>1. stocktakes' \in Seq(Stocktake)
      BY <1>3, DraftIsAStocktake DEF StockSound
    <2>2. QED
      BY <1>3, <2>1, NothingMovedKeepsSound DEF CreateStocktake
  <1>4. ASSUME NEW a, NEW d, NEW amount, PostOutside(a, d, amount)
        PROVE  StockSound'
    BY <1>4, NothingMovedKeepsSound DEF PostOutside, StockSound
  <1>5. ASSUME NEW d, PostClosingStock(d)
        PROVE  StockSound'
    <2>1. UNCHANGED <<catalogued, movements, stocktakes>>
      BY <1>5 DEF PostClosingStock
    <2>2. QED
      BY <2>1, NothingMovedKeepsSound DEF StockSound
  <1>6. ASSUME NEW i \in Items, NEW method \in CostingMethods, NEW account \in StockAccounts,
               UpdateItem(i, method, account)
        PROVE  StockSound'
    BY <1>6, UpdateItemKeepsSound
  <1>7. ASSUME NEW t \in DOMAIN stocktakes, NEW i \in Items, NEW count \in Count, SetStocktakeCount(t, i, count)
        PROVE  StockSound'
    <2>1. stocktakes' \in Seq(Stocktake)
      BY <1>7, CountsAreCounts DEF StockSound
    <2>2. QED
      BY <1>7, <2>1, NothingMovedKeepsSound DEF SetStocktakeCount
  <1>8. ASSUME NEW t \in DOMAIN stocktakes, PostStocktake(t)
        PROVE  StockSound'
    BY <1>8, StocktakeKeepsSound
  <1>9. CASE UNCHANGED stockVars
    BY <1>9, NothingMovedKeepsSound DEF stockVars, StockSound
  <1>10. QED
    BY <1>1, <1>2, <1>3, <1>4, <1>5, <1>6, <1>7, <1>8, <1>9 DEF StockNext, StockStep

LEMMA StockSoundAtFirst ==
  ASSUME StockInit
  PROVE  StockSound
  <1>1. movements = << >> /\ DOMAIN movements = {} /\ stocktakes = << >>
    BY DEF StockInit
  <1>2. MovesSound(movements)
    BY <1>1 DEF MovesSound
  <1>3. ASSUME NEW i \in Items
        PROVE  ReplayOf(movements, i, LastDay).sound
    <2>1. DOMAIN RowsOf(movements, i, LastDay) = {}
      BY <1>1 DEF RowsOf
    <2>2. ReplayOf(movements, i, LastDay) = Start(RowsOf(movements, i, LastDay))
      BY <2>1, ReplayOfNothing DEF ReplayOf
    <2>3. QED
      BY <2>2 DEF Start
  <1>4. catalogued \in [Items -> Item]
    BY StockAssumption DEF StockInit, Item, CostingMethods
  <1>5. stocktakes \in Seq(Stocktake)
    BY <1>1
  <1>6. QED
    BY <1>2, <1>3, <1>4, <1>5 DEF StockSound, EveryReplaySound

(* The history of an item, on every day. *)
LEMMA SoundIsNil ==
  ASSUME StockSound
  PROVE  NothingIsLeftAtNil
  <1>1. ASSUME NEW i \in Items, NEW d \in {movements[k].date : k \in DOMAIN movements}, NEW l \in Locations,
               NEW rows, rows = RowsOf(movements, i, d), NEW s, s = ReplayOf(movements, i, d)
        PROVE  /\ s.sound
               /\ s.pools[l].quantity = Total([k \in At(rows, l) |-> rows[k].quantity])
               /\ s.pools[l].value = Total([k \in At(rows, l) |-> s.costs[k]])
               /\ s.pools[l].quantity \in Nat /\ s.pools[l].value \in Nat
               /\ s.pools[l].quantity = 0 => s.pools[l].value = 0
    <2>1. d \in Int /\ d <= LastDay
      <3>1. PICK k \in DOMAIN movements : d = movements[k].date
        BY <1>1
      <3>2. d \in Days
        BY <3>1, MoveTyped DEF StockSound
      <3>3. QED
        BY <3>2, LastDayAssumption DEF Days
    <2>2. PICK method : method = catalogued[i].method
      OBVIOUS
    <2>3. RowsSound(rows) /\ Replay(method, rows).sound
      BY <1>1, <2>1, <2>2, ReplaysOfDays DEF SoundRows, StockSound
    <2>4. s = Replay(method, rows)
      BY <1>1, <2>2 DEF ReplayOf
    <2>5. l \in Locations
      OBVIOUS
    <2>6. QED
      BY ONLY <2>3, <2>4, <2>5, PoolsAddUp
  <1>2. ASSUME NEW i \in Items, NEW d \in {movements[k].date : k \in DOMAIN movements}
        PROVE  ReplayOf(movements, i, d).sound
    <2>1. d \in Int /\ d <= LastDay
      <3>1. PICK k \in DOMAIN movements : d = movements[k].date
        BY <1>2
      <3>2. d \in Days
        BY <3>1, MoveTyped DEF StockSound
      <3>3. QED
        BY <3>2, LastDayAssumption DEF Days
    <2>2. QED
      BY <2>1, ReplaysOfDays DEF SoundRows, StockSound, ReplayOf
  <1>3. \A n \in Nat : n >= 0
    OBVIOUS
  <1>4. QED
    BY <1>1, <1>2, <1>3 DEF NothingIsLeftAtNil, At

CostsTheSame(rows, s, k) == s.costs[k] + Total([n \in BackOf(rows, k) |-> s.costs[n]]) = 0

LEMMA BackAtItsCost ==
  ASSUME NEW rows, NEW method, SoundRows(method, rows), NEW s, s = Replay(method, rows),
         NEW k \in DOMAIN rows, rows[k].quantity < 0 \/ method = "fifo", BackInFull(rows, k)
  PROVE  CostsTheSame(rows, s, k)
  <1>1. RowsSound(rows) /\ Replay(method, rows).sound /\ s = Replay(method, rows)
        /\ k \in DOMAIN rows /\ BackInFull(rows, k)
    BY DEF SoundRows
  <1>2. CASE rows[k].quantity < 0
    <2>1. s.costs[k] + Total([n \in BackOf(rows, k) |-> s.costs[n]]) = 0
      BY ONLY <1>1, <1>2, IssueBackCostsTheSame
    <2>2. QED
      BY <2>1 DEF CostsTheSame
  <1>3. CASE ~(rows[k].quantity < 0)
    <2>1. method = "fifo"
      BY <1>3
    <2>2. rows[k].quantity > 0
      BY <1>1, <1>3, RowTyped
    <2>3. s.costs[k] + Total([n \in BackOf(rows, k) |-> s.costs[n]]) = 0
      BY ONLY <1>1, <2>1, <2>2, ReceiptBackCostsTheSame
    <2>4. QED
      BY <2>3 DEF CostsTheSame
  <1>4. QED
    BY <1>2, <1>3

LEMMA SoundCostsTheSame ==
  ASSUME StockSound
  PROVE  WhatComesBackCostsTheSame
  <1>1. LastDay \in Int /\ LastDay <= LastDay
    BY LastDayAssumption
  <1>2. ASSUME NEW i \in Items, NEW rows, rows = RowsOf(movements, i, LastDay),
               NEW costs, costs = ReplayOf(movements, i, LastDay).costs, NEW k \in DOMAIN rows,
               NEW back, back = {n \in DOMAIN rows : rows[n].related = k},
               rows[k].quantity < 0 \/ catalogued[i].method = "fifo",
               rows[k].quantity + Total([n \in back |-> rows[n].quantity]) = 0
        PROVE  costs[k] + Total([n \in back |-> costs[n]]) = 0
    <2>1. PICK s, method : s = Replay(method, rows) /\ method = catalogued[i].method
      OBVIOUS
    <2>2. back = BackOf(rows, k) /\ costs = s.costs
      BY <1>2, <2>1 DEF BackOf, ReplayOf
    <2>3. BackInFull(rows, k) /\ (rows[k].quantity < 0 \/ method = "fifo")
      BY <1>2, <2>1, <2>2 DEF BackInFull
    <2>4. SoundRows(method, rows)
      BY <1>1, <1>2, <2>1, ReplaysOfDays DEF StockSound
    <2>5. k \in DOMAIN rows
      OBVIOUS
    <2>6. CostsTheSame(rows, s, k)
      BY ONLY <2>1, <2>3, <2>4, <2>5, BackAtItsCost
    <2>7. QED
      BY <2>2, <2>6 DEF CostsTheSame
  <1>3. QED
    BY <1>2 DEF WhatComesBackCostsTheSame

------------------------------------------------------------------------------
(* What the stock accounts hold. *)

StockBooks == [StockAccounts -> [Days -> Int]]

PostedBy(f, g, d, amount, u) ==
  /\ Total([e \in 1..u |-> f[e]]) \in Int /\ Total([e \in 1..u |-> g[e]]) \in Int
  /\ Total([e \in 1..u |-> g[e]]) = Total([e \in 1..u |-> f[e]]) + IF d <= u THEN amount ELSE 0

(* A posting on a day counts from that day on. *)
LEMMA PostedOnADay ==
  ASSUME NEW f \in [Days -> Int], NEW g \in [Days -> Int], NEW d \in Days, NEW amount \in Int,
         g[d] = f[d] + amount, \A e \in Days : e # d => g[e] = f[e], NEW u \in Days
  PROVE  PostedBy(f, g, d, amount, u)
  <1>1. PICK ff, gg : ff = [e \in 1..u |-> f[e]] /\ gg = [e \in 1..u |-> g[e]]
    OBVIOUS
  <1>2. u \in Nat /\ d \in Nat /\ 1..u \subseteq Days /\ (d <= u <=> d \in 1..u)
    BY LastDayAssumption DEF Days
  <1>3. IsFiniteSet(1..u)
    BY <1>2, FS_Interval
  <1>4. /\ DOMAIN ff = 1..u /\ DOMAIN gg = 1..u
        /\ \A e \in 1..u : ff[e] \in Int /\ gg[e] \in Int /\ ff[e] = f[e] /\ gg[e] = g[e]
    BY <1>1, <1>2
  <1>5. Total(ff) \in Int /\ Total(gg) \in Int
    BY <1>3, <1>4, TotalInt
  <1>6. ASSUME d \in 1..u
        PROVE  Total(gg) = Total(ff) + IF d <= u THEN amount ELSE 0
    <2>1. \A e \in DOMAIN ff : e # d => gg[e] = ff[e]
      BY <1>2, <1>4
    <2>2. Total(gg) = Total(ff) - ff[d] + gg[d]
      <3>1. /\ d \in DOMAIN ff /\ IsFiniteSet(DOMAIN ff) /\ DOMAIN gg = DOMAIN ff
            /\ \A e \in DOMAIN ff : ff[e] \in Int
            /\ gg[d] \in Int
        BY <1>3, <1>4, <1>6
      <3>2. QED
        BY <2>1, <3>1, TotalChanged
    <2>3. ff[d] \in Int /\ gg[d] = ff[d] + amount
      BY <1>4, <1>6
    <2>4. QED
      BY <1>2, <1>5, <1>6, <2>2, <2>3
  <1>7. ASSUME d \notin 1..u
        PROVE  Total(gg) = Total(ff) + IF d <= u THEN amount ELSE 0
    <2>1. \A e \in DOMAIN ff : ff[e] = gg[e]
      <3>1. \A e \in 1..u : e # d
        BY <1>7
      <3>2. QED
        BY <1>2, <1>4, <3>1
    <2>2. Total(ff) = Total(gg)
      BY <1>3, <1>4, <2>1, TotalEqual
    <2>3. QED
      BY <1>2, <1>5, <1>7, <2>2
  <1>8. /\ Total(ff) \in Int /\ Total(gg) \in Int
        /\ Total(gg) = Total(ff) + IF d <= u THEN amount ELSE 0
    BY <1>5, <1>6, <1>7
  <1>9. QED
    BY <1>1, <1>8 DEF PostedBy

(* The value of a valuation. *)
LEMMA ItemsAreFinite == IsFiniteSet(Items)
  <1>1. DOMAIN Catalogue = 1..Len(Catalogue) /\ Len(Catalogue) \in Nat
    BY StockAssumption
  <1>2. IsFiniteSet(DOMAIN Catalogue)
    BY <1>1, FS_Interval
  <1>3. Catalogue \in Surjection(DOMAIN Catalogue, Items)
    <2>1. Catalogue \in [DOMAIN Catalogue -> Items]
      BY StockAssumption
    <2>2. \A i \in Items : \E n \in DOMAIN Catalogue : Catalogue[n] = i
      BY DEF Items
    <2>3. QED
      BY <2>1, <2>2 DEF Surjection
  <1>4. QED
    BY <1>2, <1>3, FS_Surjection

LEMMA ValuesAreNatural ==
  ASSUME NEW v \in Valuation, NEW a
  PROVE  ValueIn(v, a) \in Nat
  <1>1. ASSUME NEW i \in Items
        PROVE  ItemValue(v, i) \in Nat
    <2>1. PICK f : f = [l \in Locations |-> v.positions[i][l].value]
      OBVIOUS
    <2>2. v.positions[i] \in [Locations -> Position]
      BY DEF Valuation
    <2>3. DOMAIN f = Locations /\ \A l \in Locations : f[l] \in Nat
      BY <2>1, <2>2 DEF Position
    <2>4. QED
      BY <2>1, <2>3, LocationsAssumption, TotalBounds DEF ItemValue
  <1>2. PICK f, S : S = {j \in Items : v.accounts[j] = a} /\ f = [i \in S |-> ItemValue(v, i)]
    OBVIOUS
  <1>3. IsFiniteSet(S)
    BY <1>2, ItemsAreFinite, FS_Subset
  <1>4. DOMAIN f = S /\ \A i \in S : f[i] \in Nat
    BY <1>1, <1>2
  <1>5. Total(f) \in Nat
    BY <1>3, <1>4, TotalBounds
  <1>6. QED
    BY <1>2, <1>5 DEF ValueIn

ValuationsInOrder ==
  \A m, n \in DOMAIN valuations : m < n => valuations[m].date < valuations[n].date

\* The valuations are in the order of their days, and the ledger carries them.
LedgerInv ==
  /\ valuations \in Seq(Valuation) /\ ValuationsInOrder
  /\ outside \in StockBooks /\ closing \in StockBooks /\ since \in [StockAccounts -> Int]
  /\ LedgerCarriesTheValuation

LEMMA BookedIsAnAmount ==
  ASSUME StockSound, LedgerInv, NEW a, NEW d
  PROVE  Booked(a, d) \in Int
  <1>1. CASE valuations = << >>
    <2>1. PICK S, f : S = {n \in OpeningBy(d) : catalogued[movements[n].item].account = a}
                      /\ f = [k \in S |-> movements[k].cost]
      OBVIOUS
    <2>2. DOMAIN movements = 1..Len(movements) /\ Len(movements) \in Nat
      BY DEF StockSound, MovesSound
    <2>3. IsFiniteSet(DOMAIN movements) /\ S \subseteq DOMAIN movements
      BY <2>1, <2>2, FS_Interval DEF OpeningBy
    <2>4. IsFiniteSet(S)
      BY <2>3, FS_Subset
    <2>5. DOMAIN f = S /\ \A k \in S : f[k] \in Nat
      BY <2>1, <2>3, MoveTyped DEF StockSound, Typed
    <2>6. Total(f) \in Nat
      BY <2>4, <2>5, TotalBounds
    <2>7. QED
      BY <1>1, <2>1, <2>6 DEF Booked
  <1>2. CASE valuations # << >>
    <2>1. Len(valuations) \in DOMAIN valuations /\ valuations[Len(valuations)] \in Valuation
      BY <1>2 DEF LedgerInv
    <2>2. ValueIn(valuations[Len(valuations)], a) \in Nat
      BY <2>1, ValuesAreNatural
    <2>3. QED
      BY <1>2, <2>2 DEF Booked
  <1>3. QED
    BY <1>1, <1>2

LEMMA ValuationOnIs ==
  ASSUME StockSound, NEW d \in Days, NEW v, v = ValuationOn(d)
  PROVE  v \in Valuation /\ v.date = d
  <1>1. d \in Int /\ d <= LastDay
    BY LastDayAssumption DEF Days
  <1>2. Positions(d) \in [Items -> [Locations -> Position]]
    BY <1>1, PositionsTyped DEF StockSound
  <1>3. [i \in Items |-> catalogued[i].account] \in [Items -> StockAccounts]
    BY DEF StockSound, Item
  <1>4. QED
    BY <1>2, <1>3 DEF ValuationOn, Valuation

LEMMA LinedAreStockAccounts ==
  ASSUME NEW v \in Valuation
  PROVE  LinedAccounts(v) \subseteq StockAccounts
  <1>1. v.accounts \in [Items -> StockAccounts] /\ Lined(v) \subseteq Items
    BY DEF Valuation, Lined
  <1>2. QED
    BY <1>1 DEF LinedAccounts

------------------------------------------------------------------------------
(* The last valuation is what the stock accounts carry. *)

\* The accounts with stock in the last of some valuations, or the one before.
Covered(vs) ==
  LinedAccounts(vs[Len(vs)]) \cup IF Len(vs) > 1 THEN LinedAccounts(vs[Len(vs) - 1]) ELSE {}

Carrying(vs, o, c, s) ==
  vs # << >> => \A a \in Covered(vs) :
    UpTo(o, a, vs[Len(vs)].date) + UpTo(c, a, vs[Len(vs)].date) = ValueIn(vs[Len(vs)], a) + s[a]

LEMMA CarryingIs ==
  /\ LedgerCarriesTheValuation <=> Carrying(valuations, outside, closing, since)
  /\ LedgerCarriesTheValuation' <=> Carrying(valuations', outside', closing', since')
  BY DEF LedgerCarriesTheValuation, Carrying, Covered, StockBalance

LEMMA UpToAmount ==
  ASSUME NEW book \in StockBooks, NEW a \in StockAccounts, NEW u \in Days
  PROVE  UpTo(book, a, u) \in Int
  <1>1. PICK f : f = [e \in 1..u |-> book[a][e]]
    OBVIOUS
  <1>2. u \in Nat /\ 1..u \subseteq Days /\ book[a] \in [Days -> Int]
    BY LastDayAssumption DEF Days, StockBooks
  <1>3. IsFiniteSet(DOMAIN f) /\ \A e \in DOMAIN f : f[e] \in Int
    <2>1. DOMAIN f = 1..u /\ \A e \in 1..u : f[e] \in Int
      BY <1>1, <1>2
    <2>2. IsFiniteSet(1..u)
      BY <1>2, FS_Interval
    <2>3. QED
      BY <2>1, <2>2
  <1>4. QED
    BY <1>1, <1>3, TotalInt DEF UpTo

\* An amount posted on an account and a day.
PostedThere(book, new, b, d, amount) ==
  /\ new \in StockBooks /\ new[b][d] = book[b][d] + amount
  /\ \A e \in Days : e # d => new[b][e] = book[b][e]

LEMMA PostedUpTo ==
  ASSUME NEW book \in StockBooks, NEW new, NEW b \in StockAccounts, NEW d \in Days, NEW amount \in Int,
         PostedThere(book, new, b, d, amount), NEW u \in Days
  PROVE  UpTo(new, b, u) = UpTo(book, b, u) + IF d <= u THEN amount ELSE 0
  <1>1. PICK f, g : f = book[b] /\ g = new[b]
    OBVIOUS
  <1>2. /\ f \in [Days -> Int] /\ g \in [Days -> Int]
        /\ g[d] = f[d] + amount /\ \A e \in Days : e # d => g[e] = f[e]
    BY <1>1 DEF PostedThere, StockBooks
  <1>3. PostedBy(f, g, d, amount, u)
    <2>1. u \in Days /\ d \in Days /\ amount \in Int
      OBVIOUS
    <2>2. QED
      BY ONLY <1>2, <2>1, PostedOnADay
  <1>4. QED
    BY <1>1, <1>3 DEF UpTo, PostedBy

LEMMA CoveredFacts ==
  ASSUME NEW vs, vs \in Seq(Valuation), vs # << >>
  PROVE  /\ Len(vs) \in Nat \ {0} /\ Len(vs) \in DOMAIN vs /\ vs[Len(vs)] \in Valuation
         /\ vs[Len(vs)].date \in Days /\ Covered(vs) \subseteq StockAccounts
  <1>1. PICK n \in Nat : n = Len(vs)
    OBVIOUS
  <1>2. n # 0 /\ n \in DOMAIN vs /\ vs[n] \in Valuation /\ (n > 1 => vs[n - 1] \in Valuation)
    BY <1>1
  <1>3. vs[n].date \in Days
    BY <1>2 DEF Valuation
  <1>4. Covered(vs) \subseteq StockAccounts
    <2>1. LinedAccounts(vs[n]) \subseteq StockAccounts
      BY <1>2, LinedAreStockAccounts
    <2>2. n > 1 => LinedAccounts(vs[n - 1]) \subseteq StockAccounts
      BY <1>2, LinedAreStockAccounts
    <2>3. QED
      BY <1>1, <2>1, <2>2 DEF Covered
  <1>5. QED
    BY <1>1, <1>2, <1>3, <1>4

(* What others post by the day of the last valuation is accounted for. *)
LEMMA PostOutsideKeepsLedger ==
  ASSUME LedgerInv, NEW b \in StockAccounts, NEW d \in Days, NEW amount \in Int, PostOutside(b, d, amount)
  PROVE  LedgerInv'
  <1>1. PICK o, s, vs, c, t : o = outside /\ s = since /\ vs = valuations /\ c = closing /\ t = since'
    OBVIOUS
  <1>2. /\ o \in StockBooks /\ c \in StockBooks /\ s \in [StockAccounts -> Int]
        /\ vs \in Seq(Valuation) /\ Carrying(vs, o, c, s)
        /\ \A m, n \in DOMAIN vs : m < n => vs[m].date < vs[n].date
    BY <1>1, CarryingIs DEF LedgerInv, ValuationsInOrder
  <1>3. PICK p : p = [o EXCEPT ![b][d] = @ + amount]
    OBVIOUS
  <1>4. /\ outside' = p /\ closing' = c /\ valuations' = vs
        /\ t = IF AfterLastValuation(d) THEN s ELSE [s EXCEPT ![b] = @ + amount]
    BY <1>1, <1>3 DEF PostOutside, Moved
  <1>5. PostedThere(o, p, b, d, amount)
    BY <1>2, <1>3 DEF PostedThere, StockBooks
  <1>6. t \in [StockAccounts -> Int]
    BY <1>2, <1>4
  <1>7. ASSUME vs # << >>, NEW a \in Covered(vs)
        PROVE  UpTo(p, a, vs[Len(vs)].date) + UpTo(c, a, vs[Len(vs)].date) = ValueIn(vs[Len(vs)], a) + t[a]
    <2>1. PICK n \in DOMAIN vs, v \in Valuation, u \in Days : n = Len(vs) /\ v = vs[n] /\ u = v.date
      BY <1>2, <1>7, CoveredFacts
    <2>2. a \in StockAccounts
      BY <1>2, <1>7, CoveredFacts
    <2>3. UpTo(p, a, u) = UpTo(o, a, u) + IF a = b /\ d <= u THEN amount ELSE 0
      <3>1. CASE a = b
        BY <1>2, <1>5, <3>1, PostedUpTo
      <3>2. CASE a # b
        <4>1. p[a] = o[a]
          BY <1>2, <1>3, <2>2, <3>2 DEF StockBooks
        <4>2. UpTo(p, a, u) = UpTo(o, a, u) /\ UpTo(o, a, u) \in Int
          BY <1>2, <2>2, <4>1, UpToAmount DEF UpTo
        <4>3. QED
          BY <3>2, <4>2
      <3>3. QED
        BY <3>1, <3>2
    <2>4. PICK x \in Int, y \in Int, z \in Int, w \in Int :
            x = UpTo(o, a, u) /\ y = UpTo(c, a, u) /\ z = ValueIn(v, a) /\ w = s[a]
      <3>1. UpTo(o, a, u) \in Int /\ UpTo(c, a, u) \in Int
        BY <1>2, <2>2, UpToAmount
      <3>2. ValueIn(v, a) \in Nat
        BY ValuesAreNatural
      <3>3. s[a] \in Int
        BY <1>2, <2>2
      <3>4. QED
        BY <3>1, <3>2, <3>3
    <2>5. x + y = z + w
      BY <1>2, <1>7, <2>1, <2>4 DEF Carrying
    <2>6. AfterLastValuation(d) <=> ~(d <= u)
      <3>1. \A m \in DOMAIN vs : vs[m].date \in Int /\ (m < n \/ m = n) /\ m \in Int
        <4>1. \A m \in DOMAIN vs : vs[m] \in Valuation
          BY <1>2
        <4>2. \A m \in DOMAIN vs : vs[m].date \in Days
          BY <4>1 DEF Valuation
        <4>3. \A m \in DOMAIN vs : m \in Int /\ (m < n \/ m = n)
          BY <1>2, <2>1
        <4>4. QED
          BY <4>2, <4>3, LastDayAssumption DEF Days
      <3>2. \A m \in DOMAIN vs : vs[m].date <= u
        BY <1>2, <2>1, <3>1, LastDayAssumption DEF Days
      <3>3. d \in Int /\ u \in Int
        BY LastDayAssumption DEF Days
      <3>4. QED
        BY <1>1, <2>1, <3>1, <3>2, <3>3 DEF AfterLastValuation
    <2>7. t[a] = w + IF a = b /\ d <= u THEN amount ELSE 0
      BY <1>2, <1>4, <2>2, <2>4, <2>6
    <2>8. UpTo(p, a, u) + UpTo(c, a, u) = ValueIn(v, a) + t[a]
      BY <2>3, <2>4, <2>5, <2>7
    <2>9. QED
      BY <2>1, <2>8
  <1>8. Carrying(vs, p, c, t)
    BY <1>7 DEF Carrying
  <1>9. LedgerCarriesTheValuation'
    BY <1>1, <1>4, <1>8, CarryingIs
  <1>10. p \in StockBooks
    BY <1>5 DEF PostedThere
  <1>11. ValuationsInOrder'
    BY <1>1, <1>2, <1>4 DEF ValuationsInOrder
  <1>12. QED
    BY <1>1, <1>2, <1>4, <1>6, <1>9, <1>10, <1>11 DEF LedgerInv

(* A closing brings every account it looks at to what it valued there. *)
LEMMA ClosingPosts ==
  ASSUME StockSound, LedgerInv, NEW d \in Days, PostClosingStock(d), NEW v, v = ValuationOn(d),
         NEW a \in Planned(v), a \in StockAccounts
  PROVE  UpTo(outside, a, d) + UpTo(closing', a, d) = ValueIn(v, a)
  <1>1. v \in Valuation
    BY ValuationOnIs
  <1>2. PICK w \in Int, k \in Int : w = ValueIn(v, a) /\ k = Booked(a, d)
    <2>1. ValueIn(v, a) \in Nat /\ Booked(a, d) \in Int
      BY <1>1, ValuesAreNatural, BookedIsAnAmount
    <2>2. QED
      BY <2>1
  <1>3. PICK c, p : c = closing /\ p = closing'
    OBVIOUS
  <1>4. StockBalance(a, d) = k
    BY <1>2 DEF PostClosingStock
  <1>5. p[a] = [c[a] EXCEPT ![d] = @ + w - k]
    BY <1>2, <1>3 DEF PostClosingStock
  <1>6. c \in StockBooks /\ outside \in StockBooks
    BY <1>3 DEF LedgerInv
  <1>7. PICK f, g : f = c[a] /\ g = p[a]
    OBVIOUS
  <1>8. f \in [Days -> Int] /\ g = [f EXCEPT ![d] = @ + w - k]
    BY <1>5, <1>6, <1>7 DEF StockBooks
  <1>9. /\ g \in [Days -> Int] /\ g[d] = f[d] + (w - k)
        /\ \A e \in Days : e # d => g[e] = f[e]
    BY <1>8
  <1>10. PostedBy(f, g, d, w - k, d)
    <2>1. w - k \in Int /\ d \in Days
      OBVIOUS
    <2>2. QED
      BY <1>8, <1>9, <2>1, PostedOnADay
  <1>11. UpTo(p, a, d) = UpTo(c, a, d) + (w - k)
    <2>1. d <= d
      BY LastDayAssumption DEF Days
    <2>2. QED
      BY <1>7, <1>10, <2>1 DEF PostedBy, UpTo
  <1>12. UpTo(outside, a, d) \in Int /\ UpTo(c, a, d) \in Int
    BY <1>6, UpToAmount
  <1>13. UpTo(outside, a, d) + UpTo(c, a, d) = k
    BY <1>3, <1>4 DEF StockBalance
  <1>14. QED
    BY <1>2, <1>3, <1>11, <1>12, <1>13

LEMMA PlannedAreStockAccounts ==
  ASSUME StockSound, LedgerInv, NEW v \in Valuation
  PROVE  Planned(v) \subseteq StockAccounts
  <1>1. LinedAccounts(v) \subseteq StockAccounts
    BY LinedAreStockAccounts
  <1>2. CASE valuations = << >>
    <2>1. \A k \in DOMAIN movements : catalogued[movements[k].item].account \in StockAccounts
      <3>1. \A k \in DOMAIN movements : movements[k].item \in Items
        BY MoveTyped DEF StockSound, Movement
      <3>2. QED
        BY <3>1 DEF StockSound, Item
    <2>2. QED
      BY <1>1, <1>2, <2>1 DEF Planned, OpeningBy
  <1>3. CASE valuations # << >>
    <2>1. valuations[Len(valuations)] \in Valuation
      BY <1>3 DEF LedgerInv
    <2>2. LinedAccounts(valuations[Len(valuations)]) \subseteq StockAccounts
      BY <2>1, LinedAreStockAccounts
    <2>3. QED
      BY <1>1, <1>3, <2>2 DEF Planned
  <1>4. QED
    BY <1>2, <1>3

LEMMA ClosingIsABook ==
  ASSUME StockSound, LedgerInv, NEW d \in Days, PostClosingStock(d)
  PROVE  closing' \in StockBooks
  <1>1. PICK v : v = ValuationOn(d)
    OBVIOUS
  <1>2. v \in Valuation
    BY <1>1, ValuationOnIs
  <1>3. closing' = [a \in StockAccounts |->
          IF a \in Planned(v) THEN [closing[a] EXCEPT ![d] = @ + ValueIn(v, a) - Booked(a, d)] ELSE closing[a]]
    BY <1>1 DEF PostClosingStock
  <1>4. ASSUME NEW a \in StockAccounts
        PROVE  closing'[a] \in [Days -> Int]
    <2>1. PICK f : f = closing[a]
      OBVIOUS
    <2>2. f \in [Days -> Int]
      BY <2>1 DEF LedgerInv, StockBooks
    <2>3. PICK w \in Int, k \in Int : w = ValueIn(v, a) /\ k = Booked(a, d)
      <3>1. ValueIn(v, a) \in Nat /\ Booked(a, d) \in Int
        BY <1>2, ValuesAreNatural, BookedIsAnAmount
      <3>2. QED
        BY <3>1
    <2>4. closing'[a] = [f EXCEPT ![d] = @ + w - k] \/ closing'[a] = f
      BY <1>3, <2>1, <2>3
    <2>5. [f EXCEPT ![d] = @ + w - k] \in [Days -> Int]
      BY <2>2
    <2>6. QED
      BY <2>2, <2>4, <2>5
  <1>5. QED
    BY <1>3, <1>4 DEF StockBooks

LEMMA PostClosingKeepsLedger ==
  ASSUME StockSound, LedgerInv, NEW d \in Days, PostClosingStock(d)
  PROVE  LedgerInv'
  <1>1. PICK v, vs, o, p, t, n, new :
          /\ v = ValuationOn(d) /\ vs = valuations /\ o = outside /\ p = closing' /\ t = since'
          /\ n = Len(valuations) /\ new = valuations'
    OBVIOUS
  <1>2. /\ new = Append(vs, v) /\ outside' = o
        /\ t = [a \in StockAccounts |-> 0] /\ AfterLastValuation(d)
    BY <1>1 DEF PostClosingStock
  <1>3. v \in Valuation /\ v.date = d
    BY <1>1, ValuationOnIs
  <1>4. vs \in Seq(Valuation) /\ \A k, m \in DOMAIN vs : k < m => vs[k].date < vs[m].date
    BY <1>1 DEF LedgerInv, ValuationsInOrder
  <1>5. /\ new \in Seq(Valuation) /\ n \in Nat /\ Len(new) = n + 1 /\ DOMAIN vs = 1..n /\ DOMAIN new = 1..(n + 1)
        /\ new[n + 1] = v /\ \A k \in 1..n : new[k] = vs[k]
    BY <1>1, <1>2, <1>3, <1>4
  <1>6. ValuationsInOrder'
    <2>1. ASSUME NEW k \in 1..(n + 1), NEW m \in 1..(n + 1), k < m
          PROVE  new[k].date < new[m].date
      <3>1. k \in 1..n
        BY <1>5, <2>1
      <3>2. CASE m = n + 1
        BY <1>1, <1>2, <1>3, <1>5, <3>1, <3>2 DEF AfterLastValuation
      <3>3. CASE m # n + 1
        <4>1. m \in 1..n
          BY <1>5, <2>1, <3>3
        <4>2. QED
          BY <1>4, <1>5, <2>1, <3>1, <4>1
      <3>4. QED
        BY <3>2, <3>3
    <2>2. QED
      BY <1>1, <1>5, <2>1 DEF ValuationsInOrder
  <1>7. Covered(new) \subseteq Planned(v)
    <2>1. new[Len(new)] = v /\ (Len(new) > 1 => n > 0 /\ new[Len(new) - 1] = vs[n] /\ vs # << >>)
      BY <1>5
    <2>2. Len(new) > 1 => LinedAccounts(new[Len(new) - 1]) \subseteq Planned(v)
      BY <1>1, <2>1 DEF Planned
    <2>3. LinedAccounts(v) \subseteq Planned(v)
      BY DEF Planned
    <2>4. QED
      BY <2>1, <2>2, <2>3 DEF Covered
  <1>8. ASSUME NEW a \in Covered(new)
        PROVE  UpTo(o, a, d) + UpTo(p, a, d) = ValueIn(v, a) + t[a]
    <2>1. a \in Planned(v) /\ a \in StockAccounts
      BY <1>3, <1>7, PlannedAreStockAccounts
    <2>2. UpTo(o, a, d) + UpTo(p, a, d) = ValueIn(v, a)
      BY <1>1, <2>1, ClosingPosts
    <2>3. ValueIn(v, a) \in Nat /\ t[a] = 0
      BY <1>2, <1>3, <2>1, ValuesAreNatural
    <2>4. QED
      BY <2>2, <2>3
  <1>9. Carrying(new, o, p, t)
    BY <1>3, <1>5, <1>8 DEF Carrying
  <1>10. LedgerCarriesTheValuation'
    BY <1>1, <1>2, <1>9, CarryingIs
  <1>11. closing' \in StockBooks
    BY ClosingIsABook
  <1>12. since' \in [StockAccounts -> Int]
    BY <1>1, <1>2
  <1>13. outside' \in StockBooks
    BY <1>1, <1>2 DEF LedgerInv
  <1>14. QED
    BY <1>1, <1>5, <1>6, <1>10, <1>11, <1>12, <1>13 DEF LedgerInv

LEMMA NothingPostedKeepsLedger ==
  ASSUME LedgerInv, UNCHANGED <<valuations, outside, closing, since>>
  PROVE  LedgerInv'
  <1>1. LedgerCarriesTheValuation'
    BY CarryingIs DEF LedgerInv
  <1>2. QED
    BY <1>1 DEF LedgerInv, ValuationsInOrder

LEMMA StepKeepsLedger ==
  ASSUME StockSound, LedgerInv, [StockNext]_stockVars
  PROVE  LedgerInv'
  <1>1. CASE MovementStep
    <2>1. PICK r : Records(r)
      BY <1>1, MovementStepRecords
    <2>2. QED
      BY <2>1, RecordingKeepsSound, NothingPostedKeepsLedger
  <1>2. ASSUME NEW k \in DOMAIN movements, NEW d \in StockDays, ReverseStockMovement(k, d)
        PROVE  LedgerInv'
    <2>1. d \in Days
      BY StockAssumption
    <2>2. PICK r : Records(r)
      BY <1>2, <2>1, ReversalRecords
    <2>3. QED
      BY <2>2, RecordingKeepsSound, NothingPostedKeepsLedger
  <1>3. ASSUME NEW l, NEW d, CreateStocktake(l, d)
        PROVE  LedgerInv'
    BY <1>3, NothingPostedKeepsLedger DEF CreateStocktake
  <1>4. ASSUME NEW a \in StockAccounts, NEW d \in StockDays, NEW amount \in OutsideAmounts,
               PostOutside(a, d, amount)
        PROVE  LedgerInv'
    <2>1. d \in Days /\ amount \in Int
      BY StockAssumption
    <2>2. QED
      BY <1>4, <2>1, PostOutsideKeepsLedger
  <1>5. ASSUME NEW d \in StockDays, PostClosingStock(d)
        PROVE  LedgerInv'
    <2>1. d \in Days
      BY StockAssumption
    <2>2. QED
      BY <1>5, <2>1, PostClosingKeepsLedger
  <1>6. ASSUME NEW i, NEW method, NEW account, UpdateItem(i, method, account)
        PROVE  LedgerInv'
    BY <1>6, NothingPostedKeepsLedger DEF UpdateItem
  <1>7. ASSUME NEW t, NEW i, NEW count, SetStocktakeCount(t, i, count)
        PROVE  LedgerInv'
    BY <1>7, NothingPostedKeepsLedger DEF SetStocktakeCount
  <1>8. ASSUME NEW t, PostStocktake(t)
        PROVE  LedgerInv'
    BY <1>8, NothingPostedKeepsLedger DEF PostStocktake
  <1>9. CASE UNCHANGED stockVars
    BY <1>9, NothingPostedKeepsLedger DEF stockVars
  <1>10. QED
    BY <1>1, <1>2, <1>3, <1>4, <1>5, <1>6, <1>7, <1>8, <1>9 DEF StockNext, StockStep

LEMMA LedgerAtFirst ==
  ASSUME StockInit
  PROVE  LedgerInv
  <1>1. valuations = << >> /\ valuations \in Seq(Valuation) /\ DOMAIN valuations = {}
    BY DEF StockInit
  <1>2. outside \in StockBooks /\ closing \in StockBooks /\ since \in [StockAccounts -> Int]
    BY DEF StockInit, StockBooks
  <1>3. QED
    BY <1>1, <1>2 DEF LedgerInv, ValuationsInOrder, LedgerCarriesTheValuation

------------------------------------------------------------------------------
(* What holds of the stock ledger, always. *)

\* What the proofs rest on: what a movement refers to was recorded before it, and
\* fits it; every item's replay is sound; valuations follow one another, and the
\* accounts hold what the last of them left.
StockInv == StockSound /\ LedgerInv

(* The inductive invariant of the stock ledger: whatever is received, sold,    *)
(* returned, moved, counted, reversed and valued, in whatever order, every     *)
(* movement refers to earlier ones that fit it, no item's replay is refused    *)
(* (movements.ts settle), and the accounts hold what closing.ts left on them.  *)
THEOREM StockInvariant == StockSpec => []StockInv
  <1>1. StockInit => StockInv
    BY StockSoundAtFirst, LedgerAtFirst DEF StockInv
  <1>2. StockInv /\ [StockNext]_stockVars => StockInv'
    BY StepKeepsSound, StepKeepsLedger DEF StockInv
  <1>3. QED
    BY <1>1, <1>2, PTL DEF StockSpec

LEMMA StockIsTyped == StockInv => StockTypeOK
  BY DEF StockInv, StockSound, MovesSound, LedgerInv, StockBooks, StockTypeOK

(* Whatever items, places, lines, costs and days there are, however many     *)
(* movements, by either costing method: on every day something moved, what   *)
(* the replay holds at a place is the sum of the movements there, in         *)
(* quantity and in value, neither is below nil, and with the last unit goes  *)
(* the last cent (costing.ts replayItem).                                    *)
THEOREM NoHistoryGoesBelowNil == StockSpec => []NothingIsLeftAtNil
  <1>1. StockInv => NothingIsLeftAtNil
    BY SoundIsNil DEF StockInv
  <1>2. QED
    BY <1>1, StockInvariant, PTL

(* In however many returns an issue came back, or first in first out a       *)
(* receipt went back, and whatever was recorded late between: once all of it *)
(* is back, it came back at what it cost (costing.ts).                       *)
THEOREM WhatComesBackCostsWhatItDid == StockSpec => []WhatComesBackCostsTheSame
  <1>1. StockInv => WhatComesBackCostsTheSame
    BY SoundCostsTheSame DEF StockInv
  <1>2. QED
    BY <1>1, StockInvariant, PTL

(* For any stock accounts, and any items given other accounts between: the   *)
(* accounts of the last valuation, and of the one before, hold on its day    *)
(* what it valued there and what others have posted there since (closing.ts  *)
(* postClosingStock).                                                        *)
THEOREM TheLedgerCarriesTheValuation == StockSpec => []LedgerCarriesTheValuation
  <1>1. StockInv => LedgerCarriesTheValuation
    BY DEF StockInv, LedgerInv
  <1>2. QED
    BY <1>1, StockInvariant, PTL

------------------------------------------------------------------------------
(* The two registers together. *)

(* What the registers do is what the asset register alone does, and what the *)
(* stock ledger alone does, so that whatever is shown of either is shown of  *)
(* both.                                                                     *)
THEOREM RegistersAreBoth == RegistersSpec => AssetsSpec /\ StockSpec
  <1>1. RegistersInit => AssetsInit /\ StockInit
    BY DEF RegistersInit
  <1>2. [RegistersNext]_<<assetVars, stockVars>> => [AssetsNext]_assetVars /\ [StockNext]_stockVars
    BY DEF RegistersNext
  <1>3. QED
    BY <1>1, <1>2, PTL DEF RegistersSpec, AssetsSpec, StockSpec

(* Every asset, charge, transfer, movement, count and valuation there ever   *)
(* is has the columns of its table: no cost is negative, and no valuation    *)
(* holds less than nothing.                                                  *)
THEOREM RegistersAreTyped == RegistersSpec => []RegistersTypeOK
  <1>1. AssetsInv => AssetsTypeOK
    BY DEF AssetsInv
  <1>2. AssetsTypeOK /\ StockTypeOK => RegistersTypeOK
    BY DEF RegistersTypeOK
  <1>3. QED
    BY <1>1, <1>2, RegistersAreBoth, AssetsInvariant, StockInvariant, StockIsTyped, PTL

=============================================================================
