---------------------------- MODULE Costing_proofs ----------------------------
(***************************************************************************)
(* What the replay of an item's movements comes to, by either method, for  *)
(* any movements and places: what a pool holds, layer by layer; what each  *)
(* kind of movement puts in, takes out or takes back; and that a replay    *)
(* that was not refused accounts for everything, and is not refused on an  *)
(* earlier day.                                                            *)
(***************************************************************************)
EXTENDS Costing, Totals_proofs, SequenceTheorems, FunctionTheorems

(* A share of an amount that is not negative is not negative. *)
LEMMA ShareIsNatural ==
  ASSUME NEW a \in Nat, NEW m \in Nat, NEW n \in Nat \ {0}
  PROVE  Share(a, m, n) \in Nat
  <1>1. 2 * a * m + n \in Nat /\ 2 * n \in Nat \ {0}
    BY SMT
  <1>2. \A x \in Nat, y \in Nat \ {0} : x \div y \in Nat
    BY SMT
  <1>3. QED
    BY <1>1, <1>2 DEF Share

(* Of more, a product is no less. *)
LEMMA ProductsGrow ==
  ASSUME NEW x \in Nat, NEW y \in Nat, x <= y, NEW m \in Nat
  PROVE  x * m <= y * m /\ x * m \in Nat /\ y * m \in Nat
  <1>1. PICK t \in Nat : y = x + t
    <2>1. y - x \in Nat /\ y = x + (y - x)
      OBVIOUS
    <2>2. QED
      BY <2>1
  <1>2. (x + t) * m = x * m + t * m /\ x * m \in Nat /\ t * m \in Nat
    OBVIOUS
  <1>3. QED
    BY <1>1, <1>2

------------------------------------------------------------------------------
(* Shares of a cost. *)

\* Of nothing a share is nothing, of all it is all, and of more it is no less.
LEMMA SharesOfACost ==
  ASSUME NEW a \in Nat, NEW d \in Nat \ {0}
  PROVE  /\ Share(a, 0, d) = 0 /\ Share(a, d, d) = a
         /\ \A m, n \in Nat : m <= n => Share(a, m, d) <= Share(a, n, d)
         /\ \A n \in 0..d : Share(a, n, d) \in 0..a
  <1>1. PICK e \in Nat \ {0} : e = 2 * d
    OBVIOUS
  <1>2. Share(a, 0, d) = 0
    <2>1. 2 * a * 0 + d = d
      OBVIOUS
    <2>2. d \div (2 * d) = 0
      OBVIOUS
    <2>3. QED
      BY <2>1, <2>2 DEF Share
  <1>3. Share(a, d, d) = a
    <2>1. 2 * a * d + d = a * (2 * d) + d
      OBVIOUS
    <2>2. (a * e + d) \div e = a
      <3>1. PICK p \in Nat : p = a * e
        OBVIOUS
      <3>2. PICK q \in Int : q = (p + d) \div e
        BY <3>1
      <3>3. q * e <= p + d /\ p + d < (q + 1) * e
        BY <3>1, <3>2
      <3>4. ASSUME q < a PROVE FALSE
        <4>1. q + 1 <= a /\ q + 1 \in Int
          BY <3>2, <3>4
        <4>2. (q + 1) * e <= a * e
          <5>1. PICK t \in Nat : a = (q + 1) + t
            <6>1. a - (q + 1) \in Nat /\ a = (q + 1) + (a - (q + 1))
              BY <4>1
            <6>2. QED
              BY <6>1
          <5>2. ((q + 1) + t) * e = (q + 1) * e + t * e /\ t * e \in Nat /\ (q + 1) * e \in Int
            BY <4>1
          <5>3. QED
            BY <5>1, <5>2
        <4>3. QED
          BY <3>1, <3>3, <4>2
      <3>5. ASSUME q > a PROVE FALSE
        <4>1. PICK t \in Nat : q = (a + 1) + t
          <5>1. q - (a + 1) \in Nat /\ q = (a + 1) + (q - (a + 1))
            BY <3>2, <3>5
          <5>2. QED
            BY <5>1
        <4>2. ((a + 1) + t) * e = a * e + e + t * e /\ t * e \in Nat
          OBVIOUS
        <4>3. QED
          BY <1>1, <3>1, <3>3, <4>1, <4>2
      <3>6. QED
        BY <3>1, <3>2, <3>4, <3>5
    <2>3. QED
      BY <1>1, <2>1, <2>2 DEF Share
  <1>4. ASSUME NEW m \in Nat, NEW n \in Nat, m <= n
        PROVE  Share(a, m, d) <= Share(a, n, d)
    <2>1. PICK x \in Nat, y \in Nat : x = 2 * a * m + d /\ y = 2 * a * n + d /\ x <= y
      <3>1. m * (2 * a) <= n * (2 * a) /\ m * (2 * a) \in Nat /\ n * (2 * a) \in Nat
        BY <1>4, ProductsGrow
      <3>2. m * (2 * a) = 2 * a * m /\ n * (2 * a) = 2 * a * n
        OBVIOUS
      <3>3. QED
        BY <3>1, <3>2
    <2>2. PICK p \in Nat, q \in Nat : p = x \div e /\ q = y \div e
      <3>1. \A u \in Nat, v \in Nat \ {0} : u \div v \in Nat
        BY SMT
      <3>2. QED
        BY <1>1, <2>1, <3>1
    <2>3. p * e <= x /\ y < (q + 1) * e
      BY <1>1, <2>1, <2>2
    <2>4. p <= q
      <3>1. SUFFICES ASSUME q + 1 <= p PROVE FALSE
        BY <2>2
      <3>2. (q + 1) * e <= p * e
        BY <1>1, <2>2, <3>1, ProductsGrow
      <3>3. p * e \in Nat /\ (q + 1) * e \in Nat
        OBVIOUS
      <3>4. QED
        BY <2>1, <2>3, <3>2, <3>3
    <2>5. QED
      BY <1>1, <2>1, <2>2, <2>4 DEF Share
  <1>5. ASSUME NEW n \in 0..d PROVE Share(a, n, d) \in 0..a
    <2>1. Share(a, n, d) \in Nat /\ n <= d /\ n \in Nat
      BY ShareIsNatural
    <2>2. Share(a, n, d) <= Share(a, d, d)
      BY <1>4, <2>1
    <2>3. QED
      BY <1>3, <2>1, <2>2
  <1>6. QED
    BY <1>2, <1>3, <1>4, <1>5

------------------------------------------------------------------------------
(* Of a list of layers, those with something in them. *)

(* Nth numbers a finite set of numbers. *)
LEMMA NthNumbers ==
  ASSUME NEW S \in SUBSET Int, IsFiniteSet(S)
  PROVE  /\ Cardinality(S) \in Nat
         /\ \A k \in 1..Cardinality(S) : Nth(S, k) \in S
         /\ \A j, k \in 1..Cardinality(S) : Nth(S, j) = Nth(S, k) => j = k
         /\ \A n \in S : \E k \in 1..Cardinality(S) : Nth(S, k) = n
  <1> DEFINE Below(n) == {m \in S : m < n}
             rank == [n \in S |-> Cardinality(Below(n)) + 1]
  <1>1. Cardinality(S) \in Nat
    BY FS_CardinalityType
  <1>2. \A n \in S : Below(n) \in SUBSET S /\ IsFiniteSet(Below(n)) /\ Cardinality(Below(n)) \in Nat
    <2>1. \A n \in S : Below(n) \in SUBSET S
      OBVIOUS
    <2> HIDE DEF Below
    <2>2. QED
      BY <2>1, FS_Subset, FS_CardinalityType
  <1>3. ASSUME NEW m \in S, NEW n \in S, m < n
        PROVE  rank[m] < rank[n]
    <2>0. m \in Int /\ n \in Int /\ ~(m < m) /\ \A x \in Int : x < m => x < n
      BY <1>3
    <2>1. Below(m) \in SUBSET Below(n) /\ m \in Below(n) /\ m \notin Below(m)
      BY <1>3, <2>0
    <2> HIDE DEF Below
    <2>2. Cardinality(Below(m)) <= Cardinality(Below(n)) /\ Cardinality(Below(m)) # Cardinality(Below(n))
      BY <1>2, <2>1, FS_Subset
    <2>3. QED
      BY <1>2, <2>2
  <1>4. rank \in [S -> 1..Cardinality(S)]
    <2>1. ASSUME NEW n \in S PROVE Cardinality(Below(n)) + 1 \in 1..Cardinality(S)
      <3>1. n \notin Below(n)
        OBVIOUS
      <3> HIDE DEF Below
      <3>2. Cardinality(Below(n)) <= Cardinality(S) /\ Cardinality(Below(n)) # Cardinality(S)
        BY <1>2, <3>1, FS_Subset
      <3>3. QED
        BY <1>1, <1>2, <3>2
    <2> HIDE DEF Below
    <2>2. QED
      BY <2>1
  <1>5. \A m, n \in S : rank[m] = rank[n] => m = n
    <2>1. \A n \in S : rank[n] \in Int
      <3> HIDE DEF rank
      <3>1. QED
        BY <1>1, <1>4
    <2> HIDE DEF rank
    <2>2. ASSUME NEW m \in S, NEW n \in S, rank[m] = rank[n], m # n PROVE FALSE
      <3>1. m < n \/ n < m
        BY <2>2
      <3>2. QED
        BY <1>3, <2>1, <2>2, <3>1
    <2>3. QED
      BY <2>2
  <1>6. \A k \in 1..Cardinality(S) : \E n \in S : rank[n] = k
    <2> HIDE DEF rank
    <2>1. PICK T : T = 1..Cardinality(S)
      OBVIOUS
    <2>2. IsFiniteSet(T) /\ Cardinality(T) = Cardinality(S)
      <3>1. PICK c \in Nat : c = Cardinality(S)
        BY <1>1
      <3>2. IsFiniteSet(1..c) /\ Cardinality(1..c) = c
        BY FS_Interval
      <3>3. QED
        BY <2>1, <3>1, <3>2
    <2>3. rank \in Injection(S, T)
      BY <1>4, <1>5, <2>1 DEF Injection, IsInjective
    <2>4. rank \in Surjection(S, T)
      BY <2>2, <2>3, FS_Injection
    <2>5. QED
      BY <2>1, <2>4 DEF Surjection
  <1>7. \A k \in 1..Cardinality(S) : Nth(S, k) \in S /\ rank[Nth(S, k)] = k
    <2>1. ASSUME NEW k \in 1..Cardinality(S)
          PROVE  \E n \in S : Cardinality(Below(n)) = k - 1
      <3>1. PICK n \in S : rank[n] = k
        BY <1>6
      <3>2. PICK b \in Nat : b = Cardinality(Below(n))
        BY <1>2
      <3>3. rank[n] = b + 1
        BY <3>2
      <3>4. b = k - 1
        BY <3>1, <3>3
      <3>5. QED
        BY <3>2, <3>4
    <2>2. ASSUME NEW k \in 1..Cardinality(S)
          PROVE  Nth(S, k) \in S /\ Cardinality(Below(Nth(S, k))) = k - 1
      BY <2>1 DEF Nth
    <2>3. ASSUME NEW k \in 1..Cardinality(S)
          PROVE  rank[Nth(S, k)] = k
      <3>1. k \in Int
        BY <1>1
      <3>2. rank[Nth(S, k)] = (k - 1) + 1
        BY <2>2
      <3>3. QED
        BY <3>1, <3>2
    <2>4. QED
      BY <2>2, <2>3
  <1>8. \A n \in S : \E k \in 1..Cardinality(S) : Nth(S, k) = n
    <2> HIDE DEF rank
    <2>1. ASSUME NEW n \in S PROVE rank[n] \in 1..Cardinality(S) /\ Nth(S, rank[n]) = n
      BY <1>4, <1>5, <1>7
    <2>2. QED
      BY <2>1
  <1> HIDE DEF rank
  <1>9. QED
    BY <1>1, <1>7, <1>8

------------------------------------------------------------------------------
(* What layers hold of some receipts. *)

Portion == [receipt : Nat, quantity : Nat, value : Nat]
Layer == {p \in Portion : p.quantity # 0}

\* Where there is nothing there is no cost.
Fair(layers) ==
  layers \in Seq(Portion) /\ \A n \in DOMAIN layers : layers[n].quantity = 0 => layers[n].value = 0

Measures == {"quantity", "value"}
Holding(layers, receipts, measure) ==
  Total([n \in DOMAIN layers |->
           IF layers[n].receipt \in receipts THEN layers[n][measure] ELSE 0])

LEMMA PortionFacts ==
  ASSUME NEW p \in Portion
  PROVE  /\ p.receipt \in Nat /\ p.quantity \in Nat /\ p.value \in Nat
         /\ p["quantity"] = p.quantity /\ p["value"] = p.value
         /\ \A measure \in Measures : p[measure] \in Nat
  BY DEF Portion, Measures

LEMMA ListFacts ==
  ASSUME NEW S, NEW list \in Seq(S)
  PROVE  /\ DOMAIN list = 1..Len(list) /\ Len(list) \in Nat /\ DOMAIN list \in SUBSET Nat
         /\ IsFiniteSet(DOMAIN list) /\ \A n \in DOMAIN list : list[n] \in S
  <1>1. DOMAIN list = 1..Len(list) /\ Len(list) \in Nat /\ \A n \in DOMAIN list : list[n] \in S
    OBVIOUS
  <1>2. PICK c \in Nat : c = Len(list)
    BY <1>1
  <1>3. IsFiniteSet(1..c) /\ 1..c \in SUBSET Nat
    BY FS_Interval
  <1>4. QED
    BY <1>1, <1>2, <1>3

LEMMA LayersArePortions ==
  ASSUME NEW layers \in Seq(Layer)
  PROVE  layers \in Seq(Portion) /\ Fair(layers)
  <1>1. Layer \subseteq Portion /\ \A p \in Layer : p.quantity # 0
    BY DEF Layer
  <1>2. layers \in Seq(Portion)
    BY <1>1
  <1>3. \A n \in DOMAIN layers : layers[n] \in Layer
    BY ListFacts
  <1>4. QED
    BY <1>1, <1>2, <1>3 DEF Fair

(* The terms of what is held. *)
Terms(f, layers, receipts, measure) ==
  /\ DOMAIN f = DOMAIN layers /\ IsFiniteSet(DOMAIN f)
  /\ Holding(layers, receipts, measure) = Total(f)
  /\ \A n \in DOMAIN f :
       f[n] \in Nat /\ f[n] = IF layers[n].receipt \in receipts THEN layers[n][measure] ELSE 0

LEMMA HoldingTerms ==
  ASSUME NEW layers \in Seq(Portion), NEW receipts, NEW measure \in Measures
  PROVE  \E f : Terms(f, layers, receipts, measure)
  <1> DEFINE f == [n \in DOMAIN layers |->
                     IF layers[n].receipt \in receipts THEN layers[n][measure] ELSE 0]
  <1>1. DOMAIN f = DOMAIN layers /\ IsFiniteSet(DOMAIN layers)
    BY ListFacts
  <1>2. \A n \in DOMAIN layers : layers[n][measure] \in Nat
    BY ListFacts, PortionFacts
  <1>3. \A n \in DOMAIN f : /\ f[n] \in Nat
                            /\ f[n] = IF layers[n].receipt \in receipts
                                      THEN layers[n][measure] ELSE 0
    BY <1>2
  <1>4. Holding(layers, receipts, measure) = Total(f)
    BY DEF Holding
  <1> HIDE DEF f
  <1>5. QED
    BY <1>1, <1>3, <1>4 DEF Terms

(* All that layers hold is what they hold of any receipt. *)
LEMMA HoldingAll ==
  ASSUME NEW layers \in Seq(Portion)
  PROVE  /\ QuantityOf(layers) = Holding(layers, Nat, "quantity")
         /\ ValueOf(layers) = Holding(layers, Nat, "value")
  <1>1. IsFiniteSet(DOMAIN layers) /\ \A n \in DOMAIN layers : layers[n] \in Portion
    BY ListFacts
  <1>2. \A n \in DOMAIN layers : /\ layers[n].receipt \in Nat
                                 /\ layers[n]["quantity"] = layers[n].quantity
                                 /\ layers[n]["value"] = layers[n].value
    BY <1>1, PortionFacts
  <1> DEFINE q == [n \in DOMAIN layers |-> layers[n].quantity]
             v == [n \in DOMAIN layers |-> layers[n].value]
             hq == [n \in DOMAIN layers |-> IF layers[n].receipt \in Nat THEN layers[n]["quantity"] ELSE 0]
             hv == [n \in DOMAIN layers |-> IF layers[n].receipt \in Nat THEN layers[n]["value"] ELSE 0]
  <1>3. q = hq /\ v = hv
    BY <1>2
  <1>4. QED
    BY <1>3 DEF QuantityOf, ValueOf, Holding

(* What is held is no less than nothing, of some receipts no more than of all;
   and layers that hold no quantity of a receipt hold no cost of it. *)
LEMMA HoldingBounds ==
  ASSUME NEW layers \in Seq(Portion), NEW receipts
  PROVE  /\ \A measure \in Measures :
              /\ Holding(layers, receipts, measure) \in Nat
              /\ Holding(layers, receipts, measure) <= Holding(layers, Nat, measure)
              /\ \A n \in DOMAIN layers : layers[n].receipt \in receipts =>
                   layers[n][measure] <= Holding(layers, receipts, measure)
         /\ Fair(layers) /\ Holding(layers, receipts, "quantity") = 0 =>
              Holding(layers, receipts, "value") = 0
  <1>0. \A n \in DOMAIN layers : layers[n] \in Portion
    BY ListFacts
  <1>1. ASSUME NEW measure \in Measures
        PROVE  /\ Holding(layers, receipts, measure) \in Nat
               /\ Holding(layers, receipts, measure) <= Holding(layers, Nat, measure)
               /\ \A n \in DOMAIN layers : layers[n].receipt \in receipts =>
                    layers[n][measure] <= Holding(layers, receipts, measure)
    <2>1. PICK f : Terms(f, layers, receipts, measure)
      BY HoldingTerms
    <2>2. PICK g : Terms(g, layers, Nat, measure)
      BY HoldingTerms
    <2>3. Total(f) \in Nat /\ \A n \in DOMAIN f : f[n] <= Total(f)
      BY <2>1, TotalBounds DEF Terms
    <2> DEFINE r == [n \in DOMAIN layers |-> g[n] - f[n]]
    <2>4. \A n \in DOMAIN layers : /\ r[n] \in Nat /\ f[n] \in Int /\ g[n] \in Int /\ r[n] \in Int
                                   /\ g[n] = f[n] + r[n]
      <3>1. \A n \in DOMAIN layers : g[n] = f[n] \/ f[n] = 0
        BY <1>0, <2>1, <2>2, PortionFacts DEF Terms
      <3>2. QED
        BY <2>1, <2>2, <3>1 DEF Terms
    <2>5. DOMAIN r = DOMAIN layers
      OBVIOUS
    <2> HIDE DEF r
    <2>6. Total(g) = Total(f) + Total(r)
      BY <2>1, <2>2, <2>4, <2>5, TotalSum DEF Terms
    <2>7. Total(r) \in Nat
      BY <2>1, <2>4, <2>5, TotalBounds DEF Terms
    <2>8. QED
      BY <2>1, <2>2, <2>3, <2>6, <2>7 DEF Terms
  <1>2. ASSUME Fair(layers), Holding(layers, receipts, "quantity") = 0
        PROVE  Holding(layers, receipts, "value") = 0
    <2>1. PICK f : Terms(f, layers, receipts, "value")
      BY HoldingTerms DEF Measures
    <2>2. \A n \in DOMAIN f : f[n] = 0
      <3>1. SUFFICES ASSUME NEW n \in DOMAIN f, layers[n].receipt \in receipts
                     PROVE  f[n] = 0
        BY <2>1 DEF Terms
      <3>2. layers[n]["quantity"] <= 0
        <4>1. "quantity" \in Measures
          BY DEF Measures
        <4>2. QED
          BY <1>1, <1>2, <2>1, <3>1, <4>1 DEF Terms
      <3>3. layers[n].quantity = 0
        BY <1>0, <2>1, <3>2, PortionFacts DEF Terms
      <3>4. layers[n].value = 0
        BY <1>2, <2>1, <3>3 DEF Fair, Terms
      <3>5. QED
        BY <1>0, <2>1, <3>1, <3>4, PortionFacts DEF Terms
    <2>3. PICK S : S = DOMAIN f
      OBVIOUS
    <2> DEFINE z == [n \in S |-> f[n]]
    <2>5. z \in [S -> Int] /\ \A n \in S : z[n] = 0
      BY <2>1, <2>2, <2>3 DEF Terms
    <2>6. Total(z) = 0
      <3> HIDE DEF z
      <3>1. QED
        BY <2>1, <2>3, <2>5, TotalZero DEF Terms
    <2>7. Total(f) = Total(z)
      BY <2>1, <2>3, TotalEqual DEF Terms
    <2>8. QED
      BY <2>1, <2>6, <2>7 DEF Terms
  <1>3. QED
    BY <1>1, <1>2

(* Lists whose terms are the same hold the same. *)
LEMMA HoldingSum ==
  ASSUME NEW a \in Seq(Portion), NEW b \in Seq(Portion), NEW c \in Seq(Portion),
         DOMAIN a = DOMAIN b, DOMAIN c = DOMAIN b,
         \A n \in DOMAIN b : /\ a[n].receipt = b[n].receipt /\ c[n].receipt = b[n].receipt
                             /\ c[n].quantity = a[n].quantity + b[n].quantity
                             /\ c[n].value = a[n].value + b[n].value,
         NEW receipts, NEW measure \in Measures
  PROVE  Holding(c, receipts, measure) = Holding(a, receipts, measure) + Holding(b, receipts, measure)
  <1>1. PICK f : Terms(f, a, receipts, measure)
    BY HoldingTerms
  <1>2. PICK g : Terms(g, b, receipts, measure)
    BY HoldingTerms
  <1>3. PICK h : Terms(h, c, receipts, measure)
    BY HoldingTerms
  <1>4. \A n \in DOMAIN b : c[n][measure] = a[n][measure] + b[n][measure]
    <2>1. \A n \in DOMAIN b : a[n] \in Portion /\ b[n] \in Portion /\ c[n] \in Portion
      BY ListFacts
    <2>2. \A n \in DOMAIN b : c[n]["quantity"] = a[n]["quantity"] + b[n]["quantity"]
                              /\ c[n]["value"] = a[n]["value"] + b[n]["value"]
      BY <2>1, PortionFacts
    <2>3. QED
      BY <2>2 DEF Measures
  <1>5. /\ IsFiniteSet(DOMAIN h) /\ DOMAIN f = DOMAIN h /\ DOMAIN g = DOMAIN h
        /\ \A n \in DOMAIN h : f[n] \in Int /\ g[n] \in Int /\ h[n] \in Int
    BY <1>1, <1>2, <1>3 DEF Terms
  <1>6. \A n \in DOMAIN h : h[n] = f[n] + g[n]
    <2>1. \A n \in DOMAIN h : a[n].receipt = c[n].receipt /\ b[n].receipt = c[n].receipt
      BY <1>3 DEF Terms
    <2>2. ASSUME NEW n \in DOMAIN h
          PROVE  /\ h[n] = IF c[n].receipt \in receipts THEN c[n][measure] ELSE 0
                 /\ f[n] = IF c[n].receipt \in receipts THEN a[n][measure] ELSE 0
                 /\ g[n] = IF c[n].receipt \in receipts THEN b[n][measure] ELSE 0
                 /\ c[n][measure] = a[n][measure] + b[n][measure]
      BY <1>1, <1>2, <1>3, <1>4, <1>5, <2>1 DEF Terms
    <2>3. QED
      BY <2>2
  <1>7. Total(h) = Total(f) + Total(g)
    BY <1>5, <1>6, TotalSum
  <1>8. QED
    BY <1>1, <1>2, <1>3, <1>7 DEF Terms

(* One list after another holds what both hold. *)
LEMMA HoldingBoth ==
  ASSUME NEW a \in Seq(Portion), NEW b \in Seq(Portion), NEW receipts, NEW measure \in Measures
  PROVE  /\ a \o b \in Seq(Portion)
         /\ Holding(a \o b, receipts, measure) =
              Holding(a, receipts, measure) + Holding(b, receipts, measure)
  <1>0. PICK la \in Nat, lb \in Nat : la = Len(a) /\ lb = Len(b)
    OBVIOUS
  <1>1. /\ a \o b \in Seq(Portion) /\ DOMAIN a = 1..la /\ DOMAIN b = 1..lb
        /\ DOMAIN (a \o b) = 1..(la + lb)
        /\ \A n \in 1..la : (a \o b)[n] = a[n]
        /\ \A n \in 1..lb : (a \o b)[la + n] = b[n]
    BY <1>0
  <1>2. PICK f : Terms(f, a, receipts, measure)
    BY HoldingTerms
  <1>3. PICK g : Terms(g, b, receipts, measure)
    BY HoldingTerms
  <1>4. PICK h : Terms(h, a \o b, receipts, measure)
    BY <1>1, HoldingTerms
  <1> DEFINE later == [n \in (la + 1)..(la + lb) |-> h[n]]
             shift == [n \in (la + 1)..(la + lb) |-> n - la]
             first == [n \in 1..la |-> h[n]]
  <1>5. /\ DOMAIN h = 1..(la + lb) /\ DOMAIN f = 1..la /\ DOMAIN g = 1..lb
        /\ IsFiniteSet(DOMAIN h) /\ IsFiniteSet(DOMAIN f) /\ IsFiniteSet(DOMAIN g)
        /\ \A n \in DOMAIN h : h[n] \in Int
        /\ \A n \in DOMAIN g : g[n] \in Int
    BY <1>1, <1>2, <1>3, <1>4 DEF Terms
  <1>6. DOMAIN first \cup DOMAIN later = DOMAIN h /\ DOMAIN first \cap DOMAIN later = {}
    <2>1. (1..la) \cup ((la + 1)..(la + lb)) = 1..(la + lb)
      BY <1>0
    <2>2. (1..la) \cap ((la + 1)..(la + lb)) = {}
      BY <1>0
    <2>3. QED
      BY <1>5, <2>1, <2>2
  <1>7. Total(h) = Total(first) + Total(later)
    <2>1. PICK u, v : u = first /\ v = later
      OBVIOUS
    <2>2. /\ IsFiniteSet(DOMAIN h) /\ \A n \in DOMAIN h : h[n] \in Int
          /\ DOMAIN u \cup DOMAIN v = DOMAIN h /\ DOMAIN u \cap DOMAIN v = {}
          /\ \A n \in DOMAIN u : u[n] = h[n]
          /\ \A n \in DOMAIN v : v[n] = h[n]
      BY <1>5, <1>6, <2>1
    <2>3. Total(h) = Total(u) + Total(v)
      BY ONLY <2>2, TotalOfTwo
    <2>4. QED
      BY <2>1, <2>3
  <1>8. Total(first) = Total(f)
    <2>1. \A n \in 1..la : h[n] = f[n]
      <3>1. \A n \in 1..la : n \in DOMAIN h /\ n \in DOMAIN f
        BY <1>5
      <3>2. QED
        BY <1>1, <1>2, <1>4, <3>1 DEF Terms
    <2>2. first = [n \in DOMAIN f |-> f[n]] /\ DOMAIN first = DOMAIN f
      BY <1>5, <2>1
    <2>3. QED
      BY <1>5, <2>1, <2>2, TotalEqual
  <1>9. Total(later) = Total(g)
    <2>1. \A n \in (la + 1)..(la + lb) : n - la \in 1..lb /\ n = la + (n - la) /\ n \in DOMAIN h
      BY <1>0, <1>5
    <2>2. \A n \in 1..lb : la + n \in (la + 1)..(la + lb) /\ (la + n) - la = n
      BY <1>0
    <2>3. \A n \in DOMAIN later : shift[n] \in DOMAIN g /\ later[n] = g[shift[n]]
      <3>1. \A n \in (la + 1)..(la + lb) : (a \o b)[n] = b[n - la]
        BY <1>1, <2>1
      <3>2. \A n \in (la + 1)..(la + lb) : h[n] = g[n - la]
        BY <1>1, <1>3, <1>4, <1>5, <2>1, <3>1 DEF Terms
      <3>3. QED
        BY <1>5, <2>1, <3>2
    <2>4. \A m, n \in DOMAIN later : shift[m] = shift[n] => m = n
      BY <1>0
    <2>5. \A k \in DOMAIN g : \E n \in DOMAIN later : shift[n] = k
      <3>1. ASSUME NEW k \in DOMAIN g PROVE la + k \in DOMAIN later /\ shift[la + k] = k
        BY <1>5, <2>2
      <3>2. QED
        BY <3>1
    <2>6. IsFiniteSet(DOMAIN later)
      <3>1. PICK hi \in Int : hi = la + lb
        BY <1>0
      <3>2. PICK lo \in Int : lo = la + 1
        BY <1>0
      <3>3. IsFiniteSet(lo..hi)
        BY FS_Interval
      <3>4. QED
        BY <3>1, <3>2, <3>3
    <2> HIDE DEF later, shift
    <2>7. QED
      BY <1>5, <2>3, <2>4, <2>5, <2>6, TotalRenamed
  <1>10. QED
    BY <1>1, <1>2, <1>3, <1>4, <1>7, <1>8, <1>9 DEF Terms

(* A list of one layer. *)
LEMMA HoldingOne ==
  ASSUME NEW p \in Portion, NEW receipts, NEW measure \in Measures
  PROVE  /\ <<p>> \in Seq(Portion)
         /\ Holding(<<p>>, receipts, measure) = IF p.receipt \in receipts THEN p[measure] ELSE 0
  <1>1. <<p>> \in Seq(Portion) /\ DOMAIN <<p>> = {1} /\ <<p>>[1] = p
    OBVIOUS
  <1>2. PICK f : Terms(f, <<p>>, receipts, measure)
    BY <1>1, HoldingTerms
  <1>3. DOMAIN f = {1} /\ IsFiniteSet({1}) /\ f[1] \in Int
        /\ f[1] = IF p.receipt \in receipts THEN p[measure] ELSE 0
    BY <1>1, <1>2 DEF Terms
  <1> DEFINE g == [n \in {1} |-> f[n]]
  <1>4. g \in [{1} -> Int] /\ 1 \in {1} /\ g[1] = f[1] /\ \A y \in {1} \ {1} : g[y] = 0
    BY <1>3
  <1>5. Total(g) = g[1]
    <2> HIDE DEF g
    <2>1. PICK S, x : S = {1} /\ x = 1
      OBVIOUS
    <2>2. Total(g) = g[x]
      BY <1>3, <1>4, <2>1, TotalOne
    <2>3. QED
      BY <2>1, <2>2
  <1>6. Total(f) = Total(g)
    <2>1. DOMAIN g = DOMAIN f /\ \A n \in DOMAIN f : f[n] = g[n]
      BY <1>3
    <2> HIDE DEF g
    <2>2. QED
      BY <1>3, <2>1, TotalEqual
  <1>7. QED
    BY <1>1, <1>2, <1>3, <1>4, <1>5, <1>6 DEF Terms

(* What is left out when the empty layers are holds nothing. *)
LEMMA HoldingKept ==
  ASSUME NEW layers, Fair(layers)
  PROVE  /\ NotEmpty(layers) \in Seq(Layer)
         /\ \A receipts : \A measure \in Measures :
              Holding(NotEmpty(layers), receipts, measure) = Holding(layers, receipts, measure)
         /\ \A k \in DOMAIN NotEmpty(layers) :
              \E n \in DOMAIN layers : NotEmpty(layers)[k] = layers[n]
  <1> DEFINE kept == {n \in DOMAIN layers : layers[n].quantity > 0}
             list == [k \in 1..Cardinality(kept) |-> layers[Nth(kept, k)]]
  <1>1. NotEmpty(layers) = list
    BY DEF NotEmpty
  <1>2. /\ layers \in Seq(Portion) /\ IsFiniteSet(DOMAIN layers) /\ DOMAIN layers \in SUBSET Int
        /\ \A n \in DOMAIN layers : layers[n] \in Portion
    BY ListFacts DEF Fair
  <1>3. kept \in SUBSET DOMAIN layers /\ kept \in SUBSET Int /\ IsFiniteSet(kept)
        /\ \A n \in kept : layers[n] \in Layer
    <2>1. kept \in SUBSET DOMAIN layers /\ kept \in SUBSET Int
      BY <1>2
    <2>2. \A n \in kept : layers[n] \in Layer
      BY <1>2, PortionFacts DEF Layer
    <2> HIDE DEF kept
    <2>3. QED
      BY <1>2, <2>1, <2>2, FS_Subset
  <1>4. /\ Cardinality(kept) \in Nat
        /\ \A k \in 1..Cardinality(kept) : Nth(kept, k) \in kept
        /\ \A j, k \in 1..Cardinality(kept) : Nth(kept, j) = Nth(kept, k) => j = k
        /\ \A n \in kept : \E k \in 1..Cardinality(kept) : Nth(kept, k) = n
    <2> HIDE DEF kept
    <2>1. QED
      BY <1>3, NthNumbers
  <1>5. \A n \in DOMAIN layers \ kept : layers[n].quantity = 0 /\ layers[n].value = 0
    <2>1. ASSUME NEW n \in DOMAIN layers, ~(layers[n].quantity > 0)
          PROVE  layers[n].quantity = 0
      BY <1>2, <2>1, PortionFacts
    <2>2. QED
      BY <2>1 DEF Fair
  <1>6. list \in Seq(Layer)
    <2> HIDE DEF kept
    <2>1. list \in [1..Cardinality(kept) -> Layer]
      BY <1>3, <1>4
    <2>2. QED
      BY <1>4, <2>1, SeqDef
  <1>7. ASSUME NEW receipts, NEW measure \in Measures
        PROVE  Holding(list, receipts, measure) = Holding(layers, receipts, measure)
    <2>1. PICK f : Terms(f, layers, receipts, measure)
      BY <1>2, HoldingTerms
    <2>2. list \in Seq(Portion)
      BY <1>6, LayersArePortions
    <2>3. PICK g : Terms(g, list, receipts, measure)
      BY <2>2, HoldingTerms
    <2> DEFINE place == [k \in 1..Cardinality(kept) |-> Nth(kept, k)]
               part == [n \in kept |-> f[n]]
    <2>4. DOMAIN g = 1..Cardinality(kept) /\ DOMAIN f = DOMAIN layers
      BY <2>1, <2>3 DEF Terms
    <2>5. \A k \in DOMAIN g : place[k] \in kept /\ list[k] = layers[place[k]]
      <3> HIDE DEF kept
      <3>1. QED
        BY <1>4, <2>4
    <2>6. \A k \in DOMAIN g : g[k] = f[place[k]]
      <3> HIDE DEF list, kept, place
      <3>1. QED
        BY <1>3, <2>1, <2>3, <2>5 DEF Terms
    <2>7. Total(g) = Total(part)
      <3>1. DOMAIN part = kept /\ IsFiniteSet(DOMAIN part) /\ IsFiniteSet(DOMAIN g)
            /\ \A n \in DOMAIN part : part[n] \in Int
        <4> HIDE DEF kept
        <4>1. QED
          BY <1>3, <2>1, <2>3, <2>4 DEF Terms
      <3>2. \A k \in DOMAIN g : place[k] \in DOMAIN part /\ g[k] = part[place[k]]
        <4> HIDE DEF kept, place
        <4>1. QED
          BY <2>5, <2>6
      <3>3. \A j, k \in DOMAIN g : place[j] = place[k] => j = k
        <4> HIDE DEF kept
        <4>1. QED
          BY <1>4, <2>4
      <3>4. \A n \in DOMAIN part : \E k \in DOMAIN g : place[k] = n
        <4> HIDE DEF kept
        <4>1. QED
          BY <1>4, <2>4
      <3> HIDE DEF part, place
      <3>5. QED
        BY <3>1, <3>2, <3>3, <3>4, TotalRenamed
    <2>8. Total(f) = Total(part)
      <3> DEFINE e == [n \in DOMAIN layers |-> f[n]]
      <3>1. e \in [DOMAIN layers -> Int] /\ DOMAIN e = DOMAIN f /\ \A n \in DOMAIN f : f[n] = e[n]
        BY <2>1, <2>4 DEF Terms
      <3>2. \A n \in DOMAIN layers \ kept : e[n] = 0
        <4>1. \A n \in DOMAIN layers \ kept : layers[n][measure] = 0
          BY <1>2, <1>5, PortionFacts DEF Measures
        <4> HIDE DEF kept
        <4>2. QED
          BY <2>1, <4>1 DEF Terms
      <3>3. part = [n \in kept |-> e[n]]
        <4> HIDE DEF kept
        <4>1. QED
          BY <1>3
      <3>4. Total(e) = Total([n \in kept |-> e[n]])
        <4> HIDE DEF kept, e
        <4>1. QED
          BY <1>2, <1>3, <3>1, <3>2, TotalSupport
      <3>5. Total(f) = Total(e)
        <4> HIDE DEF e
        <4>1. QED
          BY <1>2, <2>4, <3>1, TotalEqual
      <3>6. QED
        BY <3>3, <3>4, <3>5
    <2>9. QED
      BY <2>1, <2>3, <2>7, <2>8 DEF Terms
  <1>8. ASSUME NEW k \in DOMAIN list PROVE \E n \in DOMAIN layers : list[k] = layers[n]
    <2> HIDE DEF kept
    <2>1. Nth(kept, k) \in DOMAIN layers /\ list[k] = layers[Nth(kept, k)]
      BY <1>3, <1>4
    <2>2. QED
      BY <2>1
  <1> HIDE DEF list
  <1>9. QED
    BY <1>1, <1>6, <1>7, <1>8

------------------------------------------------------------------------------
(* Taking from the oldest layers. *)

LEMMA NothingHeld ==
  /\ << >> \in Seq(Layer) /\ QuantityOf(<< >>) = 0 /\ ValueOf(<< >>) = 0
  /\ \A receipts, measure : Holding(<< >>, receipts, measure) = 0
  <1>1. << >> \in Seq(Layer) /\ DOMAIN << >> = {}
    OBVIOUS
  <1>2. \A receipts, measure : Holding(<< >>, receipts, measure) = 0
    BY <1>1, TotalEmpty DEF Holding
  <1>3. QuantityOf(<< >>) = 0 /\ ValueOf(<< >>) = 0
    BY <1>1, TotalEmpty DEF QuantityOf, ValueOf
  <1>4. QED
    BY <1>1, <1>2, <1>3

\* What the first n layers hold of all receipts.
UpToLayer(layers, n) == Holding(SubSeq(layers, 1, n), Nat, "quantity")

LEMMA UpToLayerGrows ==
  ASSUME NEW layers \in Seq(Portion)
  PROVE  /\ UpToLayer(layers, 0) = 0
         /\ UpToLayer(layers, Len(layers)) = Holding(layers, Nat, "quantity")
         /\ \A n \in 0..Len(layers) : UpToLayer(layers, n) \in Nat
         /\ \A n \in 0..Len(layers) : QuantityOf(SubSeq(layers, 1, n)) = UpToLayer(layers, n)
         /\ \A n \in 1..Len(layers) :
              UpToLayer(layers, n) = UpToLayer(layers, n - 1) + layers[n].quantity
  <1>1. "quantity" \in Measures
    BY DEF Measures
  <1>2. SubSeq(layers, 1, 0) = << >>
    BY SubSeqEmpty
  <1>3. SubSeq(layers, 1, Len(layers)) = layers
    BY SubSeqFull
  <1>4. \A n \in 0..Len(layers) : SubSeq(layers, 1, n) \in Seq(Portion)
    <2>1. ASSUME NEW n \in 0..Len(layers) PROVE SubSeq(layers, 1, n) \in Seq(Portion)
      <3>1. n \in Int /\ \A i \in 1..n : layers[i] \in Portion
        BY ListFacts
      <3>2. PICK one \in Int : one = 1
        OBVIOUS
      <3>3. QED
        BY <3>1, <3>2, SubSeqProperties
    <2>2. QED
      BY <2>1
  <1>5. ASSUME NEW n \in 1..Len(layers)
        PROVE  UpToLayer(layers, n) = UpToLayer(layers, n - 1) + layers[n].quantity
    <2>1. SubSeq(layers, 1, n) = SubSeq(layers, 1, n - 1) \o <<layers[n]>>
      <3>1. PICK one \in 1..Len(layers) : one = 1
        BY ListFacts
      <3>2. n \in one..Len(layers)
        BY <3>1
      <3>3. QED
        BY <3>1, <3>2, SubSeqRecursiveSecond
    <2>2. layers[n] \in Portion /\ n - 1 \in 0..Len(layers)
      BY ListFacts
    <2>3. SubSeq(layers, 1, n - 1) \in Seq(Portion) /\ <<layers[n]>> \in Seq(Portion)
      BY <1>4, <2>2
    <2>4. Holding(<<layers[n]>>, Nat, "quantity") = layers[n].quantity
      <3>1. Holding(<<layers[n]>>, Nat, "quantity") =
              IF layers[n].receipt \in Nat THEN layers[n]["quantity"] ELSE 0
        BY <1>1, <2>2, HoldingOne
      <3>2. QED
        BY <2>2, <3>1, PortionFacts
    <2>5. Holding(SubSeq(layers, 1, n - 1) \o <<layers[n]>>, Nat, "quantity") =
            Holding(SubSeq(layers, 1, n - 1), Nat, "quantity")
              + Holding(<<layers[n]>>, Nat, "quantity")
      <3>1. PICK a \in Seq(Portion), b \in Seq(Portion), measure \in Measures :
              a = SubSeq(layers, 1, n - 1) /\ b = <<layers[n]>> /\ measure = "quantity"
        BY <1>1, <2>3
      <3>2. Holding(a \o b, Nat, measure) = Holding(a, Nat, measure) + Holding(b, Nat, measure)
        BY HoldingBoth
      <3>3. QED
        BY ONLY <3>1, <3>2
    <2>6. QED
      BY <2>1, <2>4, <2>5 DEF UpToLayer
  <1>6. \A n \in 0..Len(layers) : /\ UpToLayer(layers, n) \in Nat
                                  /\ QuantityOf(SubSeq(layers, 1, n)) = UpToLayer(layers, n)
    BY <1>1, <1>4, HoldingBounds, HoldingAll DEF UpToLayer
  <1>7. UpToLayer(layers, 0) = 0 /\ UpToLayer(layers, Len(layers)) = Holding(layers, Nat, "quantity")
    BY <1>2, <1>3, NothingHeld DEF UpToLayer
  <1>8. QED
    BY <1>5, <1>6, <1>7

\* A layer with another quantity and another value.
Otherwise(p, q, value) == [p EXCEPT !.quantity = q, !.value = value]

LEMMA OtherwiseTheSame ==
  ASSUME NEW r, NEW x, NEW v, NEW s, NEW y
  PROVE  Otherwise([receipt |-> r, quantity |-> x, value |-> v], s, y) =
           [receipt |-> r, quantity |-> s, value |-> y]
  <1> DEFINE p == [receipt |-> r, quantity |-> x, value |-> v]
             o == [p EXCEPT !.quantity = s]
             n == [o EXCEPT !.value = y]
  <1>1. o = [receipt |-> r, quantity |-> s, value |-> v]
    OBVIOUS
  <1> HIDE DEF o
  <1>2. n = [receipt |-> r, quantity |-> s, value |-> y]
    BY <1>1
  <1>3. QED
    BY <1>2 DEF o, Otherwise

\* What each layer gives, and what is left of it.
LeftIn(layers, given) ==
  [n \in DOMAIN layers |->
     [layers[n] EXCEPT !.quantity = @ - given[n].quantity, !.value = @ - given[n].value]]

(* The oldest layers give what is asked of them, each a fair share of its cost. *)
LEMMA OldestGive ==
  ASSUME NEW layers \in Seq(Layer), NEW q \in Nat, q <= QuantityOf(layers)
  PROVE  /\ Fair(FromOldest(layers, q)) /\ Fair(LeftIn(layers, FromOldest(layers, q)))
         /\ QuantityOf(FromOldest(layers, q)) = q
         /\ \A receipts : \A measure \in Measures :
              Holding(layers, receipts, measure) =
                Holding(FromOldest(layers, q), receipts, measure)
                  + Holding(LeftIn(layers, FromOldest(layers, q)), receipts, measure)
  <1> DEFINE older(n) == QuantityOf(SubSeq(layers, 1, n - 1))
             share(n) == IF older(n) >= q THEN 0 ELSE Least(layers[n].quantity, q - older(n))
             given == FromOldest(layers, q)
             left == LeftIn(layers, given)
  <1>0. PICK c \in Nat : c = Len(layers)
    OBVIOUS
  <1>1. /\ layers \in Seq(Portion) /\ DOMAIN layers = 1..c
        /\ \A n \in 1..c : layers[n] \in Portion /\ layers[n] \in Layer
    BY <1>0, LayersArePortions, ListFacts DEF Layer
  <1>2. \A n \in 1..c : older(n) = UpToLayer(layers, n - 1) /\ older(n) \in Nat
    <2>1. \A n \in 1..c : n - 1 \in 0..c
      BY <1>0
    <2>2. QED
      BY <1>0, <1>1, <2>1, UpToLayerGrows
  <1>3. \A n \in 1..c : /\ layers[n].quantity \in Nat \ {0} /\ layers[n].value \in Nat
                        /\ layers[n].receipt \in Nat
    BY <1>1, PortionFacts DEF Layer
  <1>4. \A n \in 1..c : share(n) \in 0..layers[n].quantity
    <2> HIDE DEF older
    <2>1. QED
      BY <1>2, <1>3 DEF Least
  <1>5. \A n \in 1..c : given[n] = Split(layers[n], share(n))
    BY <1>1 DEF FromOldest
  <1>6. DOMAIN given = 1..c /\ DOMAIN left = 1..c
    BY <1>1 DEF FromOldest, LeftIn
  <1> HIDE DEF share
  <1>7. ASSUME NEW n \in 1..c
        PROVE  /\ given[n] \in Portion /\ given[n].receipt = layers[n].receipt
               /\ given[n].quantity = share(n)
               /\ given[n].value \in 0..layers[n].value
               /\ share(n) = 0 => given[n].value = 0
               /\ share(n) = layers[n].quantity => given[n].value = layers[n].value
    <2>1. PICK r \in Nat, x \in Nat \ {0}, v \in Nat :
            layers[n].receipt = r /\ layers[n].quantity = x /\ layers[n].value = v
      BY <1>3
    <2>2. layers[n] = [receipt |-> r, quantity |-> x, value |-> v]
      BY <1>1, <2>1 DEF Portion
    <2>3. PICK s \in 0..x : s = share(n)
      BY <1>4, <2>1
    <2>4. given[n] = [receipt |-> r, quantity |-> s, value |-> Share(v, s, x)]
      <3>1. given[n] = Split(layers[n], s)
        BY <1>5, <2>3
      <3> HIDE DEF given
      <3>2. Split(layers[n], s) = Otherwise(layers[n], s, Share(v, s, x))
        BY <2>1 DEF Split, Otherwise
      <3>3. QED
        BY <2>2, <3>1, <3>2, OtherwiseTheSame
    <2>5. Share(v, s, x) \in 0..v
      BY SharesOfACost
    <2>6. (s = 0 => Share(v, s, x) = 0) /\ (s = x => Share(v, s, x) = v)
      BY SharesOfACost
    <2>7. PICK y \in 0..v : y = Share(v, s, x)
      BY <2>5
    <2>8. QED
      BY <2>1, <2>3, <2>4, <2>6, <2>7 DEF Portion
  <1>8. ASSUME NEW n \in 1..c
        PROVE  /\ left[n] \in Portion /\ left[n].receipt = layers[n].receipt
               /\ left[n].quantity = layers[n].quantity - given[n].quantity
               /\ left[n].value = layers[n].value - given[n].value
               /\ left[n].quantity = 0 => left[n].value = 0
    <2>1. PICK r \in Nat, x \in Nat \ {0}, v \in Nat :
            layers[n].receipt = r /\ layers[n].quantity = x /\ layers[n].value = v
      BY <1>3
    <2>2. layers[n] = [receipt |-> r, quantity |-> x, value |-> v]
      BY <1>1, <2>1 DEF Portion
    <2>3. PICK s \in 0..x, y \in 0..v : /\ s = given[n].quantity /\ y = given[n].value
                                        /\ s = x => y = v
      BY <1>4, <1>7, <2>1
    <2>4. left[n] = [receipt |-> r, quantity |-> x - s, value |-> v - y]
      <3>1. left[n] = Otherwise(layers[n], layers[n].quantity - given[n].quantity,
                                layers[n].value - given[n].value)
        BY <1>1 DEF LeftIn, Otherwise
      <3>2. layers[n].quantity - given[n].quantity = x - s
            /\ layers[n].value - given[n].value = v - y
        BY <2>1, <2>3
      <3> HIDE DEF given, left
      <3>3. QED
        BY <2>2, <3>1, <3>2, OtherwiseTheSame
    <2>5. x - s \in Nat /\ v - y \in Nat /\ (x - s = 0 => v - y = 0)
      <3>1. x - s \in Nat /\ v - y \in Nat /\ v - v = 0
        OBVIOUS
      <3>2. x - s = 0 => s = x
        OBVIOUS
      <3>3. QED
        BY <2>3, <3>1, <3>2
    <2>6. QED
      BY <2>1, <2>3, <2>4, <2>5 DEF Portion
  <1> HIDE DEF given, left
  <1>9. given \in Seq(Portion) /\ left \in Seq(Portion)
    <2>1. (\A n \in 1..c : given[n] \in Portion) /\ (\A n \in 1..c : left[n] \in Portion)
      BY <1>7, <1>8
    <2>2. given = [n \in 1..c |-> given[n]]
      BY <1>6 DEF given, FromOldest
    <2>3. left = [n \in 1..c |-> left[n]]
      BY <1>6 DEF left, LeftIn
    <2>4. given \in [1..c -> Portion] /\ left \in [1..c -> Portion]
      BY <2>1, <2>2, <2>3
    <2>5. QED
      BY <2>4, SeqDef
  <1>10. Fair(given) /\ Fair(left)
    BY <1>6, <1>7, <1>8, <1>9 DEF Fair
  <1>11. ASSUME NEW receipts, NEW measure \in Measures
         PROVE  Holding(layers, receipts, measure) =
                  Holding(given, receipts, measure) + Holding(left, receipts, measure)
    <2>1. \A n \in DOMAIN left : /\ given[n].receipt = left[n].receipt
                                 /\ layers[n].receipt = left[n].receipt
                                 /\ layers[n].quantity = given[n].quantity + left[n].quantity
                                 /\ layers[n].value = given[n].value + left[n].value
      <3>1. ASSUME NEW n \in 1..c
            PROVE  /\ given[n].receipt = left[n].receipt
                   /\ layers[n].receipt = left[n].receipt
                   /\ layers[n].quantity = given[n].quantity + left[n].quantity
                   /\ layers[n].value = given[n].value + left[n].value
        <4>1. given[n].quantity \in Int /\ given[n].value \in Int
          BY <1>7, PortionFacts
        <4>2. QED
          BY <1>3, <1>7, <1>8, <4>1
      <3>2. QED
        BY <1>6, <3>1
    <2>2. PICK a \in Seq(Portion), b \in Seq(Portion), d \in Seq(Portion) :
            a = given /\ b = left /\ d = layers
      BY <1>1, <1>9
    <2>3. Holding(d, receipts, measure) = Holding(a, receipts, measure) + Holding(b, receipts, measure)
      <3>1. DOMAIN a = DOMAIN b /\ DOMAIN d = DOMAIN b
        BY <1>1, <1>6, <2>2
      <3>2. \A n \in DOMAIN b : /\ a[n].receipt = b[n].receipt /\ d[n].receipt = b[n].receipt
                                /\ d[n].quantity = a[n].quantity + b[n].quantity
                                /\ d[n].value = a[n].value + b[n].value
        BY <2>1, <2>2
      <3>3. QED
        BY <3>1, <3>2, HoldingSum
    <2>4. QED
      BY ONLY <2>2, <2>3
  <1>12. QuantityOf(given) = q
    <2> DEFINE Bad == {n \in Nat : n <= c /\ UpToLayer(given, n) # Least(q, UpToLayer(layers, n))}
    <2>1. Len(given) = c
      BY <1>6, <1>9, ListFacts
    <2>2. Bad = {}
      <3>1. SUFFICES ASSUME Bad # {} PROVE FALSE
        OBVIOUS
      <3>2. PICK n \in Bad : \A m \in Bad : n <= m
        <4>1. Bad \subseteq Nat
          OBVIOUS
        <4> HIDE DEF Bad
        <4>2. QED
          BY <3>1, <4>1, SmallestNumber, Zenon
      <3>3. n \in Nat /\ n <= c /\ UpToLayer(given, n) # Least(q, UpToLayer(layers, n))
        BY <3>2
      <3>4. n # 0
        <4>1. UpToLayer(given, 0) = 0 /\ UpToLayer(layers, 0) = 0
          BY <1>1, <1>9, UpToLayerGrows
        <4>2. Least(q, 0) = 0
          BY DEF Least
        <4>3. QED
          BY <3>3, <4>1, <4>2
      <3>5. n \in 1..c /\ n - 1 \in Nat /\ n - 1 \in 0..c /\ n \in 0..c
        BY <3>3, <3>4
      <3>6. UpToLayer(given, n - 1) = Least(q, UpToLayer(layers, n - 1))
        <4>1. n - 1 \notin Bad
          BY <3>2, <3>3
        <4>2. QED
          BY <3>3, <3>5, <4>1
      <3>7. PICK u \in Nat, x \in Nat \ {0} : u = UpToLayer(layers, n - 1) /\ x = layers[n].quantity
        BY <1>0, <1>1, <1>3, <3>5, UpToLayerGrows
      <3>8. UpToLayer(layers, n) = u + x
        BY <1>0, <1>1, <3>5, <3>7, UpToLayerGrows
      <3>9. UpToLayer(given, n) = Least(q, u) + share(n)
        <4>1. UpToLayer(given, n) = UpToLayer(given, n - 1) + given[n].quantity
          BY <1>9, <2>1, <3>5, UpToLayerGrows
        <4>2. QED
          BY <1>7, <3>5, <3>6, <3>7, <4>1
      <3>10. share(n) = IF u >= q THEN 0 ELSE Least(x, q - u)
        BY <1>2, <3>5, <3>7 DEF share
      <3>11. Least(q, u) + share(n) = Least(q, u + x)
        BY <3>7, <3>10 DEF Least
      <3>12. QED
        BY <3>3, <3>8, <3>9, <3>11
    <2>3. UpToLayer(given, c) = Least(q, UpToLayer(layers, c))
      BY <2>2
    <2>4. UpToLayer(given, c) = QuantityOf(given) /\ UpToLayer(layers, c) = QuantityOf(layers)
      BY <1>0, <1>1, <1>9, <2>1, UpToLayerGrows, HoldingAll
    <2>5. QuantityOf(layers) \in Nat
      <3>1. c \in 0..c
        OBVIOUS
      <3>2. QED
        BY <1>0, <1>1, <2>4, <3>1, UpToLayerGrows
    <2>6. QED
      BY <2>3, <2>4, <2>5 DEF Least
  <1>13. QED
    BY <1>10, <1>11, <1>12 DEF given, left

------------------------------------------------------------------------------
(* Pools. *)

PoolSound(method, pool) ==
  /\ pool = [quantity |-> pool.quantity, value |-> pool.value, layers |-> pool.layers]
  /\ pool.quantity \in Nat /\ pool.value \in Nat /\ pool.layers \in Seq(Layer)
  /\ IF method = "fifo"
     THEN pool.quantity = QuantityOf(pool.layers) /\ pool.value = ValueOf(pool.layers)
     ELSE pool.layers = << >>
  /\ pool.quantity = 0 => pool.value = 0

LEMMA EmptyPoolSound ==
  ASSUME NEW method
  PROVE  PoolSound(method, EmptyPool)
  BY NothingHeld DEF PoolSound, EmptyPool

(* What is in sound layers altogether. *)
LEMMA LayersTotal ==
  ASSUME NEW layers, Fair(layers)
  PROVE  /\ QuantityOf(layers) \in Nat /\ ValueOf(layers) \in Nat
         /\ QuantityOf(layers) = 0 => ValueOf(layers) = 0
         /\ NotEmpty(layers) \in Seq(Layer)
         /\ QuantityOf(NotEmpty(layers)) = QuantityOf(layers)
         /\ ValueOf(NotEmpty(layers)) = ValueOf(layers)
  <1>1. layers \in Seq(Portion)
    BY DEF Fair
  <1>2. NotEmpty(layers) \in Seq(Layer) /\ NotEmpty(layers) \in Seq(Portion)
    BY HoldingKept, LayersArePortions
  <1>3. "quantity" \in Measures /\ "value" \in Measures
    BY DEF Measures
  <1>4. \A measure \in Measures : Holding(NotEmpty(layers), Nat, measure) = Holding(layers, Nat, measure)
    BY HoldingKept
  <1>5. /\ QuantityOf(layers) = Holding(layers, Nat, "quantity")
        /\ ValueOf(layers) = Holding(layers, Nat, "value")
        /\ QuantityOf(NotEmpty(layers)) = Holding(NotEmpty(layers), Nat, "quantity")
        /\ ValueOf(NotEmpty(layers)) = Holding(NotEmpty(layers), Nat, "value")
    BY <1>1, <1>2, HoldingAll
  <1>6. /\ \A measure \in Measures : Holding(layers, Nat, measure) \in Nat
        /\ Holding(layers, Nat, "quantity") = 0 => Holding(layers, Nat, "value") = 0
    BY <1>1, HoldingBounds
  <1>7. QED
    BY <1>2, <1>3, <1>4, <1>5, <1>6

LEMMA NothingInNothing ==
  /\ NotEmpty(<< >>) = << >>
  /\ \A q : FromOldest(<< >>, q) = << >>
  /\ \A given : LeftIn(<< >>, given) = << >>
  <1>1. \A f : DOMAIN f = {} => {n \in DOMAIN f : f[n].quantity > 0} = {}
    OBVIOUS
  <1>2. Cardinality({}) = 0 /\ 1..0 = {} /\ DOMAIN << >> = {}
    BY FS_EmptySet
  <1>3. NotEmpty(<< >>) = << >>
    <2> DEFINE kept == {n \in DOMAIN << >> : << >>[n].quantity > 0}
               list == [k \in 1..Cardinality(kept) |-> << >>[Nth(kept, k)]]
    <2>1. kept = {}
      BY <1>2
    <2>2. DOMAIN list = {}
      BY <1>2, <2>1
    <2>3. list = << >>
      <3> HIDE DEF kept
      <3>1. 1..Cardinality(kept) = {}
        BY <2>2
      <3>2. QED
        BY <3>1
    <2>4. QED
      BY <2>3 DEF NotEmpty
  <1>4. \A q : FromOldest(<< >>, q) = << >>
    BY <1>2 DEF FromOldest
  <1>5. \A given : LeftIn(<< >>, given) = << >>
    BY <1>2 DEF LeftIn
  <1>6. QED
    BY <1>3, <1>4, <1>5

(* One layer. *)
LEMMA OneLayer ==
  ASSUME NEW r \in Nat, NEW q \in Nat \ {0}, NEW v \in Nat,
         NEW p, p = [receipt |-> r, quantity |-> q, value |-> v]
  PROVE  /\ <<p>> \in Seq(Layer) /\ QuantityOf(<<p>>) = q /\ ValueOf(<<p>>) = v
         /\ \A receipts :
              /\ Holding(<<p>>, receipts, "quantity") = IF r \in receipts THEN q ELSE 0
              /\ Holding(<<p>>, receipts, "value") = IF r \in receipts THEN v ELSE 0
  <1>1. p \in Portion /\ p.receipt = r /\ p.quantity = q /\ p.value = v
    BY DEF Portion
  <1>2. p \in Layer
    BY <1>1 DEF Layer
  <1>3. "quantity" \in Measures /\ "value" \in Measures
    BY DEF Measures
  <1>4. /\ <<p>> \in Seq(Portion)
        /\ \A receipts : /\ Holding(<<p>>, receipts, "quantity") = IF r \in receipts THEN q ELSE 0
                         /\ Holding(<<p>>, receipts, "value") = IF r \in receipts THEN v ELSE 0
    BY <1>1, <1>3, HoldingOne
  <1>5. QuantityOf(<<p>>) = q /\ ValueOf(<<p>>) = v
    BY <1>4, HoldingAll
  <1>6. QED
    BY <1>2, <1>4, <1>5

(* Layers put into a pool. *)
LEMMA PutKeeps ==
  ASSUME NEW method, NEW pool, PoolSound(method, pool), NEW layers \in Seq(Layer)
  PROVE  /\ PoolSound(method, Put(method, pool, layers))
         /\ Put(method, pool, layers).quantity = pool.quantity + QuantityOf(layers)
         /\ Put(method, pool, layers).value = pool.value + ValueOf(layers)
         /\ method = "fifo" =>
              \A receipts : \A measure \in Measures :
                Holding(Put(method, pool, layers).layers, receipts, measure) =
                  Holding(pool.layers, receipts, measure) + Holding(layers, receipts, measure)
  <1> DEFINE new == Put(method, pool, layers)
             both == pool.layers \o layers
  <1>1. /\ pool.quantity \in Nat /\ pool.value \in Nat /\ pool.layers \in Seq(Layer)
        /\ pool.quantity = 0 => pool.value = 0
    BY DEF PoolSound
  <1>2. PICK q \in Nat, v \in Nat : /\ q = QuantityOf(layers) /\ v = ValueOf(layers)
                                    /\ q = 0 => v = 0
    BY LayersArePortions, LayersTotal
  <1>3. PICK x \in Nat, y \in Nat : /\ x = pool.quantity /\ y = pool.value
                                    /\ x = 0 => y = 0
    BY <1>1
  <1>4. /\ new.quantity = x + q /\ new.value = y + v
        /\ new.layers = IF method = "fifo" THEN both ELSE << >>
        /\ new = [quantity |-> new.quantity, value |-> new.value, layers |-> new.layers]
    BY <1>2, <1>3 DEF Put
  <1> HIDE DEF new
  <1>5. x + q \in Nat /\ y + v \in Nat /\ (x + q = 0 => y + v = 0)
    <2>1. x + q = 0 => x = 0 /\ q = 0
      OBVIOUS
    <2>2. QED
      BY <1>2, <1>3, <2>1
  <1>6. both \in Seq(Layer)
    BY <1>1
  <1>7. \A receipts : \A measure \in Measures :
          Holding(both, receipts, measure) =
            Holding(pool.layers, receipts, measure) + Holding(layers, receipts, measure)
    <2>1. PICK a \in Seq(Portion), b \in Seq(Portion) : a = pool.layers /\ b = layers
      BY <1>1, LayersArePortions
    <2>2. \A receipts : \A measure \in Measures :
            Holding(a \o b, receipts, measure) =
              Holding(a, receipts, measure) + Holding(b, receipts, measure)
      BY HoldingBoth
    <2>3. QED
      BY <2>1, <2>2
  <1>8. ASSUME method = "fifo"
        PROVE  x + q = QuantityOf(both) /\ y + v = ValueOf(both)
    <2>1. pool.layers \in Seq(Portion) /\ layers \in Seq(Portion) /\ both \in Seq(Portion)
      BY <1>1, <1>6, LayersArePortions
    <2>2. "quantity" \in Measures /\ "value" \in Measures
      BY DEF Measures
    <2>3. /\ QuantityOf(both) = QuantityOf(pool.layers) + QuantityOf(layers)
          /\ ValueOf(both) = ValueOf(pool.layers) + ValueOf(layers)
      <3> HIDE DEF both
      <3>1. QED
        BY <1>7, <2>1, <2>2, HoldingAll
    <2>4. QuantityOf(pool.layers) = x /\ ValueOf(pool.layers) = y
      BY <1>3, <1>8 DEF PoolSound
    <2>5. QED
      BY <1>2, <2>3, <2>4
  <1> HIDE DEF both
  <1>9. PoolSound(method, new)
    <2>1. CASE method = "fifo"
      BY <1>4, <1>5, <1>6, <1>8, <2>1 DEF PoolSound
    <2>2. CASE method # "fifo"
      BY <1>4, <1>5, <2>2, NothingHeld DEF PoolSound
    <2>3. QED
      BY <2>1, <2>2
  <1>10. QED
    BY <1>2, <1>3, <1>4, <1>7, <1>9 DEF new

\* A quantity taken from a pool by its method.
TakenDone(method, pool, taken, left, q) ==
  /\ taken \in Seq(Layer) /\ QuantityOf(taken) = q /\ ValueOf(taken) \in Nat
  /\ PoolSound(method, left)
  /\ left.quantity = pool.quantity - q
  /\ left.value = pool.value - ValueOf(taken)
  /\ method = "fifo" =>
       \A receipts : \A measure \in Measures :
         Holding(pool.layers, receipts, measure) =
           Holding(taken, receipts, measure) + Holding(left.layers, receipts, measure)

LEMMA TakenKeeps ==
  ASSUME NEW method, NEW pool, PoolSound(method, pool), NEW q \in Nat \ {0}, q <= pool.quantity
  PROVE  TakenDone(method, pool, Taken(method, pool, q), Without(method, pool, q), q)
  <1> DEFINE new == Without(method, pool, q)
             taken == Taken(method, pool, q)
  <1>1. PICK x \in Nat, y \in Nat : /\ x = pool.quantity /\ y = pool.value
                                    /\ x = 0 => y = 0
    BY DEF PoolSound
  <1>2. /\ new.quantity = x - q /\ new.value = y - ValueOf(taken)
        /\ new.layers = LeftOf(pool.layers, FromOldest(pool.layers, q))
        /\ new = [quantity |-> new.quantity, value |-> new.value, layers |-> new.layers]
    BY <1>1 DEF Without
  <1>3. new.layers = NotEmpty(LeftIn(pool.layers, FromOldest(pool.layers, q)))
    BY <1>2 DEF LeftOf, LeftIn
  <1>4. x # 0 /\ x - q \in Nat
    BY <1>1
  <1> HIDE DEF new, taken
  <1>5. CASE method = "fifo"
    <2>1. /\ pool.layers \in Seq(Layer) /\ pool.layers \in Seq(Portion) /\ Fair(pool.layers)
          /\ x = QuantityOf(pool.layers) /\ y = ValueOf(pool.layers)
      BY <1>1, <1>5, LayersArePortions DEF PoolSound
    <2>2. PICK given, left : /\ given = FromOldest(pool.layers, q) /\ left = LeftIn(pool.layers, given)
      OBVIOUS
    <2>3. /\ Fair(given) /\ Fair(left) /\ QuantityOf(given) = q
          /\ \A receipts : \A measure \in Measures :
               Holding(pool.layers, receipts, measure) =
                 Holding(given, receipts, measure) + Holding(left, receipts, measure)
      BY <1>1, <2>1, <2>2, OldestGive
    <2>4. taken = NotEmpty(given) /\ new.layers = NotEmpty(left)
      BY <1>3, <1>5, <2>2 DEF taken, Taken
    <2>5. /\ taken \in Seq(Layer) /\ new.layers \in Seq(Layer)
          /\ QuantityOf(taken) = q /\ ValueOf(taken) = ValueOf(given) /\ ValueOf(given) \in Nat
          /\ QuantityOf(new.layers) = QuantityOf(left) /\ ValueOf(new.layers) = ValueOf(left)
          /\ ValueOf(left) \in Nat /\ QuantityOf(left) \in Nat
          /\ QuantityOf(left) = 0 => ValueOf(left) = 0
      BY <2>3, <2>4, LayersTotal
    <2>6. \A receipts : \A measure \in Measures :
            Holding(pool.layers, receipts, measure) =
              Holding(taken, receipts, measure) + Holding(new.layers, receipts, measure)
      BY <2>3, <2>4, HoldingKept
    <2>7. x = q + QuantityOf(left) /\ y = ValueOf(given) + ValueOf(left)
      <3>1. given \in Seq(Portion) /\ left \in Seq(Portion)
        BY <2>3 DEF Fair
      <3>2. "quantity" \in Measures /\ "value" \in Measures
        BY DEF Measures
      <3>3. QED
        BY <2>1, <2>3, <3>1, <3>2, HoldingAll
    <2>8. QuantityOf(new.layers) = x - q /\ ValueOf(new.layers) = y - ValueOf(taken)
      BY <2>5, <2>7
    <2>9. PoolSound(method, new)
      BY <1>2, <1>5, <2>5, <2>8 DEF PoolSound
    <2>10. TakenDone(method, pool, taken, new, q)
      BY <1>1, <1>2, <2>5, <2>6, <2>9 DEF TakenDone
    <2>11. QED
      BY <2>10 DEF new, taken
  <1>6. CASE method # "fifo"
    <2>1. PICK w \in 0..y : w = Share(y, q, x) /\ (q = x => w = y)
      <3>1. q \in 0..x /\ x \in Nat \ {0}
        BY <1>1, <1>4
      <3>2. Share(y, q, x) \in 0..y /\ Share(y, x, x) = y
        BY <3>1, SharesOfACost
      <3>3. QED
        BY <3>2
    <2>2. PICK p : p = [receipt |-> 0, quantity |-> q, value |-> w]
      OBVIOUS
    <2>3. taken = <<p>>
      BY <1>1, <1>6, <2>1, <2>2 DEF taken, Taken
    <2>4. taken \in Seq(Layer) /\ QuantityOf(taken) = q /\ ValueOf(taken) = w
      <3>1. w \in Nat /\ 0 \in Nat
        OBVIOUS
      <3>2. QED
        BY <2>2, <2>3, <3>1, OneLayer
    <2>5. new.layers = << >>
      BY <1>3, <1>6, NothingInNothing DEF PoolSound
    <2>6. y - w \in Nat /\ (x - q = 0 => y - w = 0)
      <3>1. x - q = 0 => q = x
        BY <1>1
      <3>2. y - y = 0
        OBVIOUS
      <3>3. QED
        BY <2>1, <3>1, <3>2
    <2>7. PoolSound(method, new)
      BY <1>2, <1>4, <1>6, <2>4, <2>5, <2>6, NothingHeld DEF PoolSound
    <2>8. TakenDone(method, pool, taken, new, q)
      BY <1>1, <1>2, <1>6, <2>4, <2>7 DEF TakenDone
    <2>9. QED
      BY <2>8 DEF new, taken
  <1>7. QED
    BY <1>5, <1>6

\* One layer of a list changed.
OneOtherwise(f, n, q, value) == [f EXCEPT ![n].quantity = q, ![n].value = value]

LEMMA OneIsOtherwise ==
  ASSUME NEW f, NEW n \in DOMAIN f, NEW s, NEW y
  PROVE  /\ DOMAIN OneOtherwise(f, n, s, y) = DOMAIN f
         /\ OneOtherwise(f, n, s, y) = [j \in DOMAIN f |-> OneOtherwise(f, n, s, y)[j]]
         /\ OneOtherwise(f, n, s, y)[n] = Otherwise(f[n], s, y)
         /\ \A j \in DOMAIN f : j # n => OneOtherwise(f, n, s, y)[j] = f[j]
  <1> DEFINE p == [f[n] EXCEPT !.quantity = s]
             g == [f EXCEPT ![n] = p]
             h == [g EXCEPT ![n] = [g[n] EXCEPT !.value = y]]
  <1>1. g[n] = p
    OBVIOUS
  <1>2. [p EXCEPT !.value = y] = Otherwise(f[n], s, y)
    BY DEF Otherwise
  <1>3. h = [g EXCEPT ![n] = Otherwise(f[n], s, y)]
    BY <1>1, <1>2
  <1>4. \A x : [g EXCEPT ![n] = x] = [f EXCEPT ![n] = x]
    OBVIOUS
  <1>5. h = [f EXCEPT ![n] = Otherwise(f[n], s, y)]
    BY <1>3, <1>4
  <1> HIDE DEF h
  <1>6. /\ DOMAIN h = DOMAIN f /\ h[n] = Otherwise(f[n], s, y) /\ h = [j \in DOMAIN f |-> h[j]]
        /\ \A j \in DOMAIN f : j # n => h[j] = f[j]
    BY <1>5
  <1>7. OneOtherwise(f, n, s, y) = h
    BY DEF OneOtherwise, h
  <1>8. QED
    BY <1>6, <1>7

LEMMA FirstOfSome ==
  ASSUME NEW S, S \subseteq Nat, S # {}
  PROVE  First(S) \in S
  <1>1. \E n \in S : \A m \in S : n <= m
    BY SmallestNumber
  <1>2. QED
    BY <1>1 DEF First

\* The goods of a receipt taken back out of a pool.
BackDone(method, pool, new, k, v, q) ==
  /\ v \in Nat /\ PoolSound(method, new)
  /\ new.quantity = pool.quantity - q /\ new.value = pool.value - v
  /\ method = "fifo" =>
       \A r :
         /\ Holding(new.layers, {r}, "quantity") =
              Holding(pool.layers, {r}, "quantity") - IF r = k THEN q ELSE 0
         /\ Holding(new.layers, {r}, "value") =
              Holding(pool.layers, {r}, "value") - IF r = k THEN v ELSE 0

LEMMA BackKeeps ==
  ASSUME NEW method, NEW pool, PoolSound(method, pool),
         NEW k \in Nat, NEW quantity \in Nat \ {0}, NEW cost \in Nat, NEW q \in Nat \ {0},
         q <= pool.quantity, GoodsAreThere(method, pool, k, q),
         NEW v, v = ValueBack(method, pool, k, quantity, cost, q), v <= pool.value
  PROVE  BackDone(method, pool, WithoutReceipt(method, pool, k, v, q), k, v, q)
  <1> DEFINE new == WithoutReceipt(method, pool, k, v, q)
             n == First(LayersOf(pool, k))
             list == [pool.layers EXCEPT ![n].quantity = @ - q, ![n].value = @ - v]
  <1>1. PICK x \in Nat, y \in Nat : /\ x = pool.quantity /\ y = pool.value
                                    /\ x = 0 => y = 0
    BY DEF PoolSound
  <1>2. /\ new.quantity = x - q /\ new.value = y - v
        /\ new.layers = IF method # "fifo" THEN << >> ELSE NotEmpty(list)
        /\ new = [quantity |-> new.quantity, value |-> new.value, layers |-> new.layers]
    BY <1>1 DEF WithoutReceipt
  <1>3. x # 0 /\ x - q \in Nat
    BY <1>1
  <1> HIDE DEF new
  <1>4. CASE method = "fifo"
    <2>1. /\ pool.layers \in Seq(Layer) /\ pool.layers \in Seq(Portion) /\ Fair(pool.layers)
          /\ x = QuantityOf(pool.layers) /\ y = ValueOf(pool.layers)
      BY <1>1, <1>4, LayersArePortions DEF PoolSound
    <2>2. n \in DOMAIN pool.layers /\ pool.layers[n].receipt = k /\ pool.layers[n].quantity >= q
      <3>1. LayersOf(pool, k) # {} /\ LayersOf(pool, k) \subseteq Nat
        BY <1>4, <2>1, ListFacts DEF GoodsAreThere, LayersOf
      <3>2. n \in LayersOf(pool, k)
        BY <3>1, FirstOfSome
      <3>3. QED
        BY <1>4, <3>2 DEF GoodsAreThere, LayersOf
    <2>3. PICK i \in DOMAIN pool.layers : i = n
      BY <2>2
    <2> HIDE DEF n
    <2>4. PICK a \in Nat \ {0}, b \in Nat :
            pool.layers[i] = [receipt |-> k, quantity |-> a, value |-> b]
      <3>1. pool.layers[i] \in Layer
        BY <2>1, <2>3
      <3>2. QED
        BY <2>2, <2>3, <3>1 DEF Layer, Portion
    <2>5. q \in 0..a /\ v \in 0..b /\ (q = a => v = b)
      <3>1. q \in 0..a
        BY <2>2, <2>3, <2>4
      <3>2. v = Share(b, q, a)
        BY <1>4, <2>3, <2>4 DEF ValueBack, n
      <3>3. Share(b, q, a) \in 0..b /\ Share(b, a, a) = b
        BY <3>1, SharesOfACost
      <3>4. QED
        BY <3>1, <3>2, <3>3
    <2>6. PICK c \in Nat, d \in Nat : c = a - q /\ d = b - v /\ (c = 0 => d = 0)
      <3>1. a - q \in Nat /\ b - v \in Nat /\ b - b = 0 /\ (a - q = 0 => q = a)
        BY <2>5
      <3>2. QED
        BY <2>5, <3>1
    <2>7. PICK p \in Portion : p = [receipt |-> k, quantity |-> c, value |-> d]
      BY DEF Portion
    <2>8. DOMAIN list = DOMAIN pool.layers /\ list[i] = p
          /\ list = [j \in DOMAIN pool.layers |-> list[j]]
          /\ \A j \in DOMAIN list : j # i => list[j] = pool.layers[j]
      <3>1. list = OneOtherwise(pool.layers, i, c, d)
        <4>1. pool.layers[n].quantity - q = c /\ pool.layers[n].value - v = d
          BY <2>3, <2>4, <2>6
        <4>2. QED
          BY <2>3, <4>1 DEF OneOtherwise
      <3>2. Otherwise(pool.layers[i], c, d) = p
        BY <2>4, <2>7, OtherwiseTheSame
      <3> HIDE DEF list
      <3>3. QED
        BY <3>1, <3>2, OneIsOtherwise
    <2> HIDE DEF list
    <2>9. list \in Seq(Portion)
      <3>1. \A j \in DOMAIN pool.layers : list[j] \in Portion
        BY <2>1, <2>7, <2>8, ListFacts
      <3>2. PICK l \in Nat : DOMAIN pool.layers = 1..l
        BY <2>1
      <3>3. list = [j \in 1..l |-> list[j]]
        BY <2>8, <3>2
      <3>4. list \in [1..l -> Portion]
        BY <2>8, <3>1, <3>2, <3>3
      <3>5. QED
        BY <3>4, SeqDef
    <2>10. Fair(list)
      <3>1. p.quantity = c /\ p.value = d
        BY <2>7
      <3>2. \A j \in DOMAIN list : j # i => (list[j].quantity = 0 => list[j].value = 0)
        BY <2>1, <2>8 DEF Fair
      <3>3. QED
        BY <2>6, <2>8, <2>9, <3>1, <3>2 DEF Fair
    <2>11. ASSUME NEW receipts
           PROVE  /\ Holding(list, receipts, "quantity") =
                       Holding(pool.layers, receipts, "quantity") - IF k \in receipts THEN q ELSE 0
                  /\ Holding(list, receipts, "value") =
                       Holding(pool.layers, receipts, "value") - IF k \in receipts THEN v ELSE 0
      <3>1. ASSUME NEW measure \in Measures, NEW e \in Int, NEW u \in Int,
                   pool.layers[i][measure] = e + u, list[i][measure] = e
            PROVE  Holding(list, receipts, measure) =
                     Holding(pool.layers, receipts, measure) - IF k \in receipts THEN u ELSE 0
        <4>1. PICK f : Terms(f, pool.layers, receipts, measure)
          BY <2>1, HoldingTerms
        <4>2. PICK g : Terms(g, list, receipts, measure)
          BY <2>9, HoldingTerms
        <4>3. /\ DOMAIN f = DOMAIN pool.layers /\ DOMAIN g = DOMAIN f /\ IsFiniteSet(DOMAIN f)
              /\ \A j \in DOMAIN f : f[j] \in Int /\ g[j] \in Int
          BY <2>8, <4>1, <4>2 DEF Terms
        <4>4. \A j \in DOMAIN f : j # i => g[j] = f[j]
          BY <2>8, <4>1, <4>2, <4>3 DEF Terms
        <4>5. pool.layers[i].receipt = k /\ list[i].receipt = k
          BY <2>4, <2>7, <2>8
        <4>6. /\ f[i] = IF k \in receipts THEN e + u ELSE 0
              /\ g[i] = IF k \in receipts THEN e ELSE 0
          BY <2>3, <2>8, <3>1, <4>1, <4>2, <4>5 DEF Terms
        <4>7. Total(g) = Total(f) - f[i] + g[i]
          BY <2>3, <4>3, <4>4, TotalChanged
        <4>8. PICK t \in Int : t = Total(f)
          BY <4>3, TotalInt
        <4>9. Total(g) = t - IF k \in receipts THEN u ELSE 0
          BY <4>6, <4>7, <4>8
        <4>10. QED
          BY <4>1, <4>2, <4>8, <4>9 DEF Terms
      <3>2. /\ pool.layers[i]["quantity"] = c + q /\ pool.layers[i]["value"] = d + v
            /\ list[i]["quantity"] = c /\ list[i]["value"] = d
        <4>1. v \in Nat
          BY <2>5
        <4>2. QED
          BY <2>4, <2>6, <2>7, <2>8, <4>1
      <3>3. "quantity" \in Measures /\ "value" \in Measures /\ c \in Int /\ d \in Int
            /\ q \in Int /\ v \in Int
        BY <2>5 DEF Measures
      <3>4. QED
        BY <3>1, <3>2, <3>3
    <2>12. /\ new.layers = NotEmpty(list) /\ new.layers \in Seq(Layer)
           /\ \A receipts : \A measure \in Measures :
                Holding(new.layers, receipts, measure) = Holding(list, receipts, measure)
      BY <1>2, <1>4, <2>10, HoldingKept
    <2>13. /\ QuantityOf(new.layers) = x - q /\ ValueOf(new.layers) = y - v
           /\ y - v \in Nat /\ (x - q = 0 => y - v = 0)
      <3>1. /\ QuantityOf(list) \in Nat /\ ValueOf(list) \in Nat
            /\ QuantityOf(list) = 0 => ValueOf(list) = 0
            /\ QuantityOf(new.layers) = QuantityOf(list) /\ ValueOf(new.layers) = ValueOf(list)
        BY <2>10, <2>12, LayersTotal
      <3>2. QuantityOf(list) = x - q /\ ValueOf(list) = y - v
        BY <2>1, <2>9, <2>11, HoldingAll
      <3>3. QED
        BY <3>1, <3>2
    <2>14. PoolSound(method, new)
      BY <1>2, <1>3, <1>4, <2>12, <2>13 DEF PoolSound
    <2>15. "quantity" \in Measures /\ "value" \in Measures
      BY DEF Measures
    <2>16. \A r : /\ Holding(new.layers, {r}, "quantity") =
                       Holding(pool.layers, {r}, "quantity") - IF r = k THEN q ELSE 0
                  /\ Holding(new.layers, {r}, "value") =
                       Holding(pool.layers, {r}, "value") - IF r = k THEN v ELSE 0
      BY <2>11, <2>12, <2>15
    <2>17. v \in Nat /\ new.quantity = pool.quantity - q /\ new.value = pool.value - v
      BY <1>1, <1>2, <2>5
    <2> HIDE DEF new
    <2>18. BackDone(method, pool, new, k, v, q)
      BY <2>14, <2>16, <2>17 DEF BackDone
    <2>19. QED
      BY <2>18 DEF new
  <1>5. CASE method # "fifo"
    <2>1. v \in Nat /\ v <= y /\ (q = x => v = y)
      <3>1. v = IF q = x THEN y ELSE Share(cost, q, quantity)
        BY <1>1, <1>5 DEF ValueBack
      <3>2. Share(cost, q, quantity) \in Nat
        BY ShareIsNatural
      <3>3. QED
        BY <1>1, <3>1, <3>2
    <2>2. y - v \in Nat /\ (x - q = 0 => y - v = 0)
      <3>1. (x - q = 0 => q = x) /\ y - y = 0 /\ y - v \in Nat
        BY <1>1, <2>1
      <3>2. QED
        BY <2>1, <3>1
    <2>3. new.layers = << >>
      BY <1>2, <1>5
    <2>4. PoolSound(method, new)
      BY <1>2, <1>3, <1>5, <2>2, <2>3, NothingHeld DEF PoolSound
    <2> HIDE DEF new
    <2>5. BackDone(method, pool, new, k, v, q)
      BY <1>1, <1>2, <1>5, <2>1, <2>4 DEF BackDone
    <2>6. QED
      BY <2>5 DEF new
  <1>6. QED
    BY <1>4, <1>5

------------------------------------------------------------------------------
(* Sums over some of the movements. *)

SumIn(f, T) == Total([n \in DOMAIN f |-> IF n \in T THEN f[n] ELSE 0])

LEMMA SumInt ==
  ASSUME NEW D, IsFiniteSet(D), NEW f \in [D -> Int], NEW T
  PROVE  SumIn(f, T) \in Int
  <1> DEFINE g == [n \in DOMAIN f |-> IF n \in T THEN f[n] ELSE 0]
  <1>1. DOMAIN g = D /\ \A n \in D : g[n] \in Int
    OBVIOUS
  <1>2. SumIn(f, T) = Total(g)
    BY DEF SumIn
  <1> HIDE DEF g
  <1>3. QED
    BY <1>1, <1>2, TotalInt

LEMMA SumChanged ==
  ASSUME NEW D, IsFiniteSet(D), NEW f \in [D -> Int], NEW e \in [D -> Int], NEW T,
         NEW x \in D, \A n \in D : n # x => e[n] = f[n]
  PROVE  SumIn(e, T) = SumIn(f, T) + IF x \in T THEN e[x] - f[x] ELSE 0
  <1> DEFINE g == [n \in DOMAIN f |-> IF n \in T THEN f[n] ELSE 0]
             h == [n \in DOMAIN e |-> IF n \in T THEN e[n] ELSE 0]
  <1>1. /\ DOMAIN g = D /\ \A n \in D : g[n] \in Int /\ g[n] = IF n \in T THEN f[n] ELSE 0
        /\ DOMAIN h = D /\ \A n \in D : h[n] \in Int /\ h[n] = IF n \in T THEN e[n] ELSE 0
    OBVIOUS
  <1>2. SumIn(f, T) = Total(g) /\ SumIn(e, T) = Total(h)
    BY DEF SumIn
  <1> HIDE DEF g, h
  <1>3. \A n \in D : n # x => h[n] = g[n]
    BY <1>1
  <1>4. Total(h) = Total(g) - g[x] + h[x]
    BY <1>1, <1>3, TotalChanged
  <1>5. PICK t \in Int : t = Total(g)
    BY <1>1, TotalInt
  <1>6. PICK y \in Int, z \in Int : y = f[x] /\ z = e[x]
    OBVIOUS
  <1>7. g[x] = (IF x \in T THEN y ELSE 0) /\ h[x] = (IF x \in T THEN z ELSE 0)
    BY <1>1, <1>6
  <1>8. Total(h) = t + IF x \in T THEN z - y ELSE 0
    BY <1>4, <1>5, <1>7
  <1>9. QED
    BY <1>2, <1>5, <1>6, <1>8

(* With all terms nil where the other does not count. *)
LEMMA SumOver ==
  ASSUME NEW D, IsFiniteSet(D), NEW f \in [D -> Int], NEW T, T \subseteq D
  PROVE  SumIn(f, T) = Total([n \in T |-> f[n]])
  <1> DEFINE g == [n \in D |-> IF n \in T THEN f[n] ELSE 0]
             h == [n \in T |-> g[n]]
             e == [n \in T |-> f[n]]
  <1>1. g \in [D -> Int] /\ \A x \in D \ T : g[x] = 0
    OBVIOUS
  <1>2. Total(g) = Total(h)
    <2> HIDE DEF g
    <2>1. QED
      BY <1>1, TotalSupport
  <1>3. DOMAIN h = T /\ DOMAIN e = T /\ IsFiniteSet(T) /\ \A x \in T : h[x] = e[x]
    BY FS_Subset
  <1>4. Total(h) = Total(e)
    <2> HIDE DEF h, e
    <2>1. QED
      BY <1>3, TotalEqual
  <1>5. SumIn(f, T) = Total(g)
    <2>1. DOMAIN f = D
      OBVIOUS
    <2>2. QED
      BY <2>1 DEF SumIn
  <1>6. QED
    BY <1>2, <1>4, <1>5

LEMMA SumOfNothing ==
  ASSUME NEW D, IsFiniteSet(D), NEW f \in [D -> Int], NEW T, \A n \in D : n \in T => f[n] = 0
  PROVE  SumIn(f, T) = 0
  <1> DEFINE g == [n \in D |-> IF n \in T THEN f[n] ELSE 0]
  <1>1. g \in [D -> Int] /\ \A x \in D : g[x] = 0
    OBVIOUS
  <1>2. SumIn(f, T) = Total(g)
    <2>1. DOMAIN f = D
      OBVIOUS
    <2>2. QED
      BY <2>1 DEF SumIn
  <1> HIDE DEF g
  <1>3. QED
    BY <1>1, <1>2, TotalZero

------------------------------------------------------------------------------
(* The movements of an item, and where a replay of them stands. *)

Transfers == {"transfer_in", "transfer_out"}

\* What a movement refers to was recorded before, dated no later, and went the
\* other way; and a transfer is two movements, one after the other.
RowSound(rows, k) ==
  /\ rows[k].location \in Locations /\ rows[k].date \in Int
  /\ rows[k].quantity \in Int \ {0} /\ rows[k].cost \in Nat /\ rows[k].related \in Nat
  /\ rows[k].related # 0 =>
       /\ rows[k].related \in DOMAIN rows /\ Earlier(rows, rows[k].related, k)
       /\ rows[k].quantity > 0 <=> rows[rows[k].related].quantity < 0
       /\ rows[k].kind \notin Transfers /\ rows[rows[k].related].kind \notin Transfers
  /\ rows[k].kind = "transfer_out" =>
       /\ rows[k].quantity < 0 /\ rows[k].related = 0
       /\ rows[k].pair = k + 1 /\ k + 1 \in DOMAIN rows
       /\ rows[k + 1].kind = "transfer_in" /\ rows[k + 1].pair = k /\ rows[k + 1].related = 0
       /\ rows[k + 1].date = rows[k].date /\ rows[k + 1].quantity = -rows[k].quantity
       /\ rows[k + 1].location # rows[k].location
  /\ rows[k].kind = "transfer_in" =>
       /\ rows[k].quantity > 0 /\ rows[k].related = 0
       /\ rows[k].pair = k - 1 /\ k - 1 \in DOMAIN rows
       /\ rows[k - 1].kind = "transfer_out" /\ rows[k - 1].date = rows[k].date

RowsSound(rows) ==
  DOMAIN rows \subseteq Nat \ {0} /\ IsFiniteSet(DOMAIN rows) /\ \A k \in DOMAIN rows : RowSound(rows, k)

Amount == [quantity : Nat, value : Nat]
NoAmount == [quantity |-> 0, value |-> 0]

Standing(rows, s) ==
  /\ s = [sound |-> s.sound, pools |-> s.pools, costs |-> s.costs, returned |-> s.returned]
  /\ s.sound \in BOOLEAN
  /\ s.pools = [l \in Locations |-> s.pools[l]]
  /\ s.costs \in [DOMAIN rows -> Int] /\ s.returned \in [DOMAIN rows -> Amount]

\* What the movements D have moved.
MovedBy(rows, D) == [n \in DOMAIN rows |-> IF n \in D THEN rows[n].quantity ELSE 0]

At(rows, l) == {n \in DOMAIN rows : rows[n].location = l}
BackOf(rows, j) == {n \in DOMAIN rows : rows[n].related = j}

\* What has come back of an issue came at its share of what the issue cost.
IssueSound(rows, D, s, j) ==
  /\ s.costs[j] <= 0
  /\ s.returned[j].quantity = SumIn(MovedBy(rows, D), BackOf(rows, j))
  /\ s.returned[j].value = SumIn(s.costs, BackOf(rows, j))
  /\ s.returned[j].quantity <= -rows[j].quantity
  /\ s.returned[j].value = Share(-s.costs[j], s.returned[j].quantity, -rows[j].quantity)

Accounted(method, rows, D, s) ==
  /\ Standing(rows, s)
  /\ \A l \in Locations :
       /\ PoolSound(method, s.pools[l])
       /\ s.pools[l].quantity = SumIn(MovedBy(rows, D), At(rows, l))
       /\ s.pools[l].value = SumIn(s.costs, At(rows, l))
  /\ \A j \in DOMAIN rows \ D : s.costs[j] = 0 /\ s.returned[j] = NoAmount
  /\ \A j \in DOMAIN rows : IF rows[j].quantity < 0 THEN IssueSound(rows, D, s, j) ELSE s.costs[j] >= 0

(* The quantities moved once one movement more is done. *)
LEMMA OneMoreMoved ==
  ASSUME NEW rows, RowsSound(rows), NEW D, NEW k \in DOMAIN rows \ D, NEW T
  PROVE  /\ SumIn(MovedBy(rows, D), T) \in Int
         /\ SumIn(MovedBy(rows, D \cup {k}), T) =
              SumIn(MovedBy(rows, D), T) + IF k \in T THEN rows[k].quantity ELSE 0
  <1>1. \A n \in DOMAIN rows : rows[n].quantity \in Int
    BY DEF RowsSound, RowSound
  <1>2. MovedBy(rows, D) \in [DOMAIN rows -> Int] /\ MovedBy(rows, D)[k] = 0
    BY <1>1 DEF MovedBy
  <1>3. /\ MovedBy(rows, D \cup {k}) \in [DOMAIN rows -> Int]
        /\ MovedBy(rows, D \cup {k})[k] = rows[k].quantity
        /\ \A n \in DOMAIN rows : n # k => MovedBy(rows, D \cup {k})[n] = MovedBy(rows, D)[n]
    BY <1>1 DEF MovedBy
  <1>4. IsFiniteSet(DOMAIN rows)
    BY DEF RowsSound
  <1>5. SumIn(MovedBy(rows, D), T) \in Int
    BY <1>2, <1>4, SumInt
  <1>6. SumIn(MovedBy(rows, D \cup {k}), T) =
          SumIn(MovedBy(rows, D), T)
            + IF k \in T THEN MovedBy(rows, D \cup {k})[k] - MovedBy(rows, D)[k] ELSE 0
    <2>1. PICK f \in [DOMAIN rows -> Int], e \in [DOMAIN rows -> Int] :
            f = MovedBy(rows, D) /\ e = MovedBy(rows, D \cup {k})
      BY <1>2, <1>3
    <2>2. \A n \in DOMAIN rows : n # k => e[n] = f[n]
      BY <1>3, <2>1
    <2>3. SumIn(e, T) = SumIn(f, T) + IF k \in T THEN e[k] - f[k] ELSE 0
      BY <1>4, <2>2, SumChanged
    <2>4. QED
      BY <2>1, <2>3
  <1>7. PICK q \in Int : q = rows[k].quantity /\ q - 0 = q
    BY <1>1
  <1>8. QED
    BY <1>2, <1>3, <1>5, <1>6, <1>7

\* A movement done in one pool, at a cost c.
RowDone(method, rows, D, k, s, t, c) ==
  /\ Standing(rows, t) /\ t.costs = [s.costs EXCEPT ![k] = c]
  /\ \A l \in Locations : l # rows[k].location => t.pools[l] = s.pools[l]
  /\ PoolSound(method, t.pools[rows[k].location])
  /\ t.pools[rows[k].location].quantity = s.pools[rows[k].location].quantity + rows[k].quantity
  /\ t.pools[rows[k].location].value = s.pools[rows[k].location].value + c
  /\ \A j \in DOMAIN rows : j # rows[k].related \/ rows[k].quantity < 0 =>
                              t.returned[j] = s.returned[j]
  /\ rows[k].quantity > 0 /\ rows[k].related # 0 =>
       /\ rows[k].related \in D
       /\ t.returned[rows[k].related].quantity = s.returned[rows[k].related].quantity + rows[k].quantity
       /\ t.returned[rows[k].related].value = s.returned[rows[k].related].value + c
       /\ t.returned[rows[k].related].quantity <= -rows[rows[k].related].quantity
       /\ t.returned[rows[k].related].value =
            Share(-s.costs[rows[k].related], t.returned[rows[k].related].quantity,
                  -rows[rows[k].related].quantity)

(* What is on hand, and what it is worth, still add up, and so does what has    *)
(* come back of every issue.                                                    *)
LEMMA RowAccounted ==
  ASSUME NEW method, NEW rows, RowsSound(rows), NEW D, D \subseteq DOMAIN rows,
         NEW k \in DOMAIN rows \ D,
         NEW s, Accounted(method, rows, D, s), NEW t,
         NEW c \in Int, IF rows[k].quantity < 0 THEN c <= 0 ELSE c >= 0,
         RowDone(method, rows, D, k, s, t, c)
  PROVE  Accounted(method, rows, D \cup {k}, t)
  <1> USE DEF RowDone
  <1>1. /\ RowSound(rows, k) /\ IsFiniteSet(DOMAIN rows) /\ k \in Nat /\ k # 0
        /\ \A j \in DOMAIN rows : j \in Nat /\ j # 0 /\ rows[j].quantity \in Int /\ rows[j].quantity # 0
    BY DEF RowsSound, RowSound
  <1>2. PICK q \in Int : q = rows[k].quantity /\ q # 0
    BY <1>1
  <1>3. \A T : /\ SumIn(MovedBy(rows, D), T) \in Int
               /\ SumIn(MovedBy(rows, D \cup {k}), T) =
                    SumIn(MovedBy(rows, D), T) + IF k \in T THEN q ELSE 0
    <2>1. ASSUME NEW T
          PROVE  /\ SumIn(MovedBy(rows, D), T) \in Int
                 /\ SumIn(MovedBy(rows, D \cup {k}), T) =
                      SumIn(MovedBy(rows, D), T) + IF k \in T THEN q ELSE 0
      BY ONLY <1>2, OneMoreMoved, RowsSound(rows), k \in DOMAIN rows \ D
    <2>2. QED
      BY <2>1
  <1>4. \A T : /\ SumIn(s.costs, T) \in Int
               /\ SumIn(t.costs, T) = SumIn(s.costs, T) + IF k \in T THEN c ELSE 0
    <2>1. PICK f \in [DOMAIN rows -> Int] : f = s.costs /\ f[k] = 0
      BY DEF Accounted, Standing
    <2>2. PICK e \in [DOMAIN rows -> Int] : /\ e = t.costs /\ e[k] = c
                                           /\ \A n \in DOMAIN rows : n # k => e[n] = f[n]
      BY <2>1 DEF Standing
    <2>3. ASSUME NEW T
          PROVE  SumIn(f, T) \in Int /\ SumIn(e, T) = SumIn(f, T) + IF k \in T THEN c ELSE 0
      <3>1. SumIn(f, T) \in Int
        BY <1>1, SumInt
      <3>2. SumIn(e, T) = SumIn(f, T) + IF k \in T THEN e[k] - f[k] ELSE 0
        BY <1>1, <2>2, SumChanged
      <3>3. c - 0 = c
        OBVIOUS
      <3>4. QED
        BY <2>1, <2>2, <3>1, <3>2, <3>3
    <2>4. QED
      BY <2>1, <2>2, <2>3
  <1>5. k \notin BackOf(rows, k) /\ rows[k].related # k
    <2>1. rows[k].related = k => Earlier(rows, k, k) /\ rows[k].date \in Int
      BY <1>1 DEF RowSound
    <2>2. QED
      BY <1>1, <2>1 DEF BackOf, Earlier
  <1>6. ASSUME NEW l \in Locations
        PROVE  /\ PoolSound(method, t.pools[l])
               /\ t.pools[l].quantity = SumIn(MovedBy(rows, D \cup {k}), At(rows, l))
               /\ t.pools[l].value = SumIn(t.costs, At(rows, l))
    <2>1. /\ PoolSound(method, s.pools[l])
          /\ s.pools[l].quantity = SumIn(MovedBy(rows, D), At(rows, l))
          /\ s.pools[l].value = SumIn(s.costs, At(rows, l))
      BY DEF Accounted
    <2>2. k \in At(rows, l) <=> l = rows[k].location
      BY DEF At
    <2>3. PICK x \in Int, y \in Int :
            x = SumIn(MovedBy(rows, D), At(rows, l)) /\ y = SumIn(s.costs, At(rows, l))
      BY <1>3, <1>4
    <2>4. CASE l = rows[k].location
      <3>1. /\ SumIn(MovedBy(rows, D \cup {k}), At(rows, l)) = x + q
            /\ SumIn(t.costs, At(rows, l)) = y + c
        BY <1>3, <1>4, <2>2, <2>3, <2>4
      <3>2. QED
        BY <1>2, <2>1, <2>3, <2>4, <3>1
    <2>5. CASE l # rows[k].location
      <3>1. /\ SumIn(MovedBy(rows, D \cup {k}), At(rows, l)) = x + 0
            /\ SumIn(t.costs, At(rows, l)) = y + 0
        BY <1>3, <1>4, <2>2, <2>3, <2>5
      <3>2. x + 0 = x /\ y + 0 = y
        OBVIOUS
      <3>3. QED
        BY <2>1, <2>3, <2>5, <3>1, <3>2
    <2>6. QED
      BY <2>4, <2>5
  <1>7. \A j \in DOMAIN rows : /\ j # k => t.costs[j] = s.costs[j]
                               /\ j = k => t.costs[j] = c /\ s.costs[j] = 0
    BY DEF Accounted, Standing
  <1>8. ASSUME NEW j \in DOMAIN rows \ (D \cup {k})
        PROVE  t.costs[j] = 0 /\ t.returned[j] = NoAmount
    <2>1. s.costs[j] = 0 /\ s.returned[j] = NoAmount
      BY DEF Accounted
    <2>2. rows[k].quantity > 0 /\ rows[k].related # 0 => rows[k].related \in D
      OBVIOUS
    <2>3. j # rows[k].related \/ rows[k].quantity < 0
      BY <1>1, <1>2, <2>2
    <2>4. QED
      BY <1>7, <2>1, <2>3
  <1>9. ASSUME NEW j \in DOMAIN rows, rows[j].quantity < 0
        PROVE  IssueSound(rows, D \cup {k}, t, j)
    <2>1. IssueSound(rows, D, s, j)
      BY <1>9 DEF Accounted
    <2>2. PICK x \in Int, y \in Int : /\ x = SumIn(MovedBy(rows, D), BackOf(rows, j))
                                      /\ y = SumIn(s.costs, BackOf(rows, j))
      BY <1>3, <1>4
    <2>3. s.returned[j].quantity = x /\ s.returned[j].value = y
      BY <2>1, <2>2 DEF IssueSound
    <2>4. k \in BackOf(rows, j) <=> rows[k].related = j
      BY DEF BackOf
    <2>5. CASE rows[k].related = j
      <3>1. q > 0 /\ rows[k].related # 0 /\ rows[k].related \in D /\ j # k
        BY <1>1, <1>2, <1>5, <1>9, <2>5 DEF RowSound
      <3>2. /\ SumIn(MovedBy(rows, D \cup {k}), BackOf(rows, j)) = x + q
            /\ SumIn(t.costs, BackOf(rows, j)) = y + c
        BY <1>3, <1>4, <2>2, <2>4, <2>5
      <3>3. /\ t.returned[j].quantity = x + q
            /\ t.returned[j].value = y + c
            /\ t.returned[j].quantity <= -rows[j].quantity
            /\ t.returned[j].value = Share(-s.costs[j], t.returned[j].quantity, -rows[j].quantity)
        BY <1>2, <2>3, <2>5, <3>1
      <3>4. t.costs[j] = s.costs[j] /\ s.costs[j] <= 0
        BY <1>7, <2>1, <3>1 DEF IssueSound
      <3>5. QED
        BY <3>2, <3>3, <3>4 DEF IssueSound
    <2>6. CASE rows[k].related # j
      <3>1. /\ SumIn(MovedBy(rows, D \cup {k}), BackOf(rows, j)) = x
            /\ SumIn(t.costs, BackOf(rows, j)) = y
        <4>1. /\ SumIn(MovedBy(rows, D \cup {k}), BackOf(rows, j)) = x + 0
              /\ SumIn(t.costs, BackOf(rows, j)) = y + 0
          BY <1>3, <1>4, <2>2, <2>4, <2>6
        <4>2. QED
          BY <4>1
      <3>2. t.returned[j] = s.returned[j]
        BY <2>6
      <3>3. CASE j # k
        <4>1. t.costs[j] = s.costs[j]
          BY <1>7, <3>3
        <4>2. QED
          BY <2>1, <2>2, <2>3, <3>1, <3>2, <4>1 DEF IssueSound
      <3>4. CASE j = k
        <4>1. s.returned[j] = NoAmount /\ t.costs[j] = c /\ c <= 0
          BY <1>7, <1>9, <3>4 DEF Accounted
        <4>2. PICK a \in Nat, b \in Nat \ {0} : a = -c /\ b = -q
          BY <1>2, <1>9, <3>4, <4>1
        <4>3. Share(a, 0, b) = 0
          BY SharesOfACost
        <4>4. t.returned[j].quantity = 0 /\ t.returned[j].value = 0
          BY <3>2, <4>1 DEF NoAmount
        <4>5. -rows[j].quantity = b /\ 0 <= b
          BY <1>2, <3>4, <4>2
        <4>6. QED
          BY <2>3, <3>1, <3>2, <4>1, <4>2, <4>3, <4>4, <4>5 DEF IssueSound
      <3>5. QED
        BY <3>3, <3>4
    <2>7. QED
      BY <2>5, <2>6
  <1>10. ASSUME NEW j \in DOMAIN rows, ~(rows[j].quantity < 0)
         PROVE  t.costs[j] >= 0
    <2>1. s.costs[j] >= 0
      BY <1>10 DEF Accounted
    <2>2. QED
      BY <1>7, <1>10, <2>1
  <1>11. QED
    BY <1>6, <1>8, <1>9, <1>10 DEF Accounted

------------------------------------------------------------------------------
(* What is left of each receipt, first in first out. *)

InAll(pools, r, measure) == Total([l \in Locations |-> Holding(pools[l].layers, {r}, measure)])

Remaining(f, rows, r) == f[r] + SumIn(f, BackOf(rows, r))

\* Its layers hold no more than has not gone back; and as long as they hold it
\* all, they hold all it cost.
Receipts(rows, D, s) ==
  \A r \in DOMAIN rows : rows[r].quantity > 0 =>
    /\ InAll(s.pools, r, "quantity") <= Remaining(MovedBy(rows, D), rows, r)
    /\ InAll(s.pools, r, "value") <= Remaining(s.costs, rows, r)
    /\ InAll(s.pools, r, "quantity") = Remaining(MovedBy(rows, D), rows, r) =>
         InAll(s.pools, r, "value") = Remaining(s.costs, rows, r)

Layered(pools) == \A l \in Locations : pools[l].layers \in Seq(Portion)

LEMMA InAllTyped ==
  ASSUME NEW pools, Layered(pools), NEW r, NEW measure \in Measures
  PROVE  InAll(pools, r, measure) \in Nat
  <1> DEFINE f == [l \in Locations |-> Holding(pools[l].layers, {r}, measure)]
  <1>1. \A l \in Locations : f[l] \in Nat
    BY HoldingBounds DEF Layered
  <1>2. DOMAIN f = Locations /\ IsFiniteSet(Locations)
    BY LocationsAssumption
  <1> HIDE DEF f
  <1>3. Total(f) \in Nat
    BY <1>1, <1>2, TotalBounds
  <1>4. QED
    BY <1>3 DEF InAll, f

\* With a pool changed, all hold what they held and what this one holds more.
HeldMore(pools, changed, l, r, measure) ==
  /\ Holding(pools[l].layers, {r}, measure) \in Nat
  /\ Holding(changed[l].layers, {r}, measure) \in Nat
  /\ InAll(changed, r, measure) =
       InAll(pools, r, measure) - Holding(pools[l].layers, {r}, measure)
         + Holding(changed[l].layers, {r}, measure)

LEMMA InAllChanged ==
  ASSUME NEW pools, Layered(pools), NEW changed, Layered(changed),
         NEW l \in Locations, \A m \in Locations : m # l => changed[m] = pools[m],
         NEW r, NEW measure \in Measures
  PROVE  HeldMore(pools, changed, l, r, measure)
  <1> DEFINE f == [m \in Locations |-> Holding(pools[m].layers, {r}, measure)]
             g == [m \in Locations |-> Holding(changed[m].layers, {r}, measure)]
  <1>1. /\ DOMAIN f = Locations /\ DOMAIN g = Locations /\ IsFiniteSet(Locations)
        /\ f[l] = Holding(pools[l].layers, {r}, measure)
        /\ g[l] = Holding(changed[l].layers, {r}, measure)
        /\ \A m \in Locations : m # l => g[m] = f[m]
    BY LocationsAssumption
  <1>2. \A m \in Locations : f[m] \in Nat /\ g[m] \in Nat
    <2>1. ASSUME NEW m \in Locations PROVE f[m] \in Nat /\ g[m] \in Nat
      BY HoldingBounds DEF Layered
    <2>2. QED
      BY <2>1
  <1>3. InAll(pools, r, measure) = Total(f) /\ InAll(changed, r, measure) = Total(g)
    BY DEF InAll
  <1> HIDE DEF f, g
  <1>4. Total(g) = Total(f) - f[l] + g[l]
    BY <1>1, <1>2, TotalChanged
  <1>5. QED
    BY <1>1, <1>2, <1>3, <1>4 DEF HeldMore

\* A sum over the movements with one term more.
OneMore(f, e, rows, k) ==
  /\ f \in [DOMAIN rows -> Int] /\ e \in [DOMAIN rows -> Int] /\ f[k] = 0
  /\ \A n \in DOMAIN rows : n # k => e[n] = f[n]

RemainingMore(f, e, rows, k, r) ==
  /\ Remaining(f, rows, r) \in Int
  /\ Remaining(e, rows, r) =
       Remaining(f, rows, r) + IF r = k \/ rows[k].related = r THEN e[k] ELSE 0

LEMMA RemainingChanged ==
  ASSUME NEW rows, RowsSound(rows), NEW k \in DOMAIN rows,
         NEW f, NEW e, OneMore(f, e, rows, k), NEW r \in DOMAIN rows
  PROVE  RemainingMore(f, e, rows, k, r)
  <1>0. /\ f \in [DOMAIN rows -> Int] /\ e \in [DOMAIN rows -> Int] /\ f[k] = 0
        /\ \A n \in DOMAIN rows : n # k => e[n] = f[n]
    BY DEF OneMore
  <1>1. IsFiniteSet(DOMAIN rows) /\ RowSound(rows, k) /\ k \in Nat /\ k # 0
    BY DEF RowsSound
  <1>2. rows[k].related # k
    BY <1>1 DEF RowSound, Earlier
  <1>3. PICK x \in Int, y \in Int, z \in Int : x = SumIn(f, BackOf(rows, r)) /\ y = f[r] /\ z = e[k]
    BY <1>0, <1>1, SumInt
  <1>4. SumIn(e, BackOf(rows, r)) = SumIn(f, BackOf(rows, r)) + IF k \in BackOf(rows, r) THEN e[k] - f[k] ELSE 0
    BY <1>0, <1>1, SumChanged
  <1>5. k \in BackOf(rows, r) <=> rows[k].related = r
    BY DEF BackOf
  <1>6. z - 0 = z /\ 0 + z = z
    OBVIOUS
  <1>7. SumIn(e, BackOf(rows, r)) = x + IF rows[k].related = r THEN z ELSE 0
    BY <1>0, <1>3, <1>4, <1>5, <1>6
  <1>8. e[r] = IF r = k THEN z ELSE y
    BY <1>0, <1>3
  <1>9. r = k => y = 0
    BY <1>0, <1>3
  <1>10. QED
    BY <1>2, <1>3, <1>7, <1>8, <1>9 DEF Remaining, RemainingMore

LEMMA MovedByAt ==
  ASSUME NEW rows, RowsSound(rows), NEW D, NEW k \in DOMAIN rows \ D
  PROVE  /\ OneMore(MovedBy(rows, D), MovedBy(rows, D \cup {k}), rows, k)
         /\ MovedBy(rows, D \cup {k})[k] = rows[k].quantity
  BY DEF MovedBy, RowsSound, RowSound, OneMore

(* What a movement leaves to go back of a receipt. *)
RemainingOf(rows, D, k, s, t, c, r) ==
  /\ Remaining(MovedBy(rows, D), rows, r) \in Int /\ Remaining(s.costs, rows, r) \in Int
  /\ Remaining(MovedBy(rows, D \cup {k}), rows, r) =
       Remaining(MovedBy(rows, D), rows, r)
         + IF r = k \/ rows[k].related = r THEN rows[k].quantity ELSE 0
  /\ Remaining(t.costs, rows, r) =
       Remaining(s.costs, rows, r) + IF r = k \/ rows[k].related = r THEN c ELSE 0

LEMMA RemainingOnce ==
  ASSUME NEW method, NEW rows, RowsSound(rows), NEW D, NEW k \in DOMAIN rows \ D,
         NEW s, Accounted(method, rows, D, s), NEW t, Standing(rows, t), NEW c \in Int,
         t.costs = [s.costs EXCEPT ![k] = c],
         NEW r \in DOMAIN rows
  PROVE  RemainingOf(rows, D, k, s, t, c, r)
  <1>1. /\ OneMore(MovedBy(rows, D), MovedBy(rows, D \cup {k}), rows, k)
        /\ MovedBy(rows, D \cup {k})[k] = rows[k].quantity
    BY ONLY MovedByAt, RowsSound(rows), k \in DOMAIN rows \ D
  <1>2. OneMore(s.costs, t.costs, rows, k) /\ t.costs[k] = c
    BY DEF Accounted, Standing, OneMore
  <1>3. RemainingMore(MovedBy(rows, D), MovedBy(rows, D \cup {k}), rows, k, r)
    BY ONLY <1>1, RemainingChanged, RowsSound(rows), k \in DOMAIN rows \ D, r \in DOMAIN rows
  <1>4. RemainingMore(s.costs, t.costs, rows, k, r)
    BY ONLY <1>2, RemainingChanged, RowsSound(rows), k \in DOMAIN rows \ D, r \in DOMAIN rows
  <1>5. QED
    BY <1>1, <1>2, <1>3, <1>4 DEF RemainingMore, RemainingOf

LEMMA AccountedLayers ==
  ASSUME NEW method, NEW rows, NEW D, NEW s, Accounted(method, rows, D, s)
  PROVE  Layered(s.pools)
  BY LayersArePortions DEF Accounted, PoolSound, Layered

\* A movement's pool holds of its receipt, or of the one it goes back on, more
\* or less by what it moves; and no more than before of any other.
Fits(rows, k, s, t, c) ==
  \A r \in DOMAIN rows : rows[r].quantity > 0 =>
    \E dq \in Int, dv \in Int :
      /\ Holding(t.pools[rows[k].location].layers, {r}, "quantity") =
           Holding(s.pools[rows[k].location].layers, {r}, "quantity") + dq
      /\ Holding(t.pools[rows[k].location].layers, {r}, "value") =
           Holding(s.pools[rows[k].location].layers, {r}, "value") + dv
      /\ IF r = k \/ rows[k].related = r THEN dq = rows[k].quantity /\ dv = c
         ELSE dq <= 0 /\ dv <= 0 /\ (dq = 0 => dv = 0)

(* A movement in one pool leaves no receipt short. *)
LEMMA RowReceipts ==
  ASSUME NEW method, NEW rows, RowsSound(rows), NEW D, NEW k \in DOMAIN rows \ D,
         NEW s, Accounted(method, rows, D, s), Receipts(rows, D, s),
         NEW t, Accounted(method, rows, D \cup {k}, t), NEW c \in Int,
         t.costs = [s.costs EXCEPT ![k] = c],
         \A m \in Locations : m # rows[k].location => t.pools[m] = s.pools[m],
         Fits(rows, k, s, t, c)
  PROVE  Receipts(rows, D \cup {k}, t)
  <1>0. PICK l : l = rows[k].location
    OBVIOUS
  <1>1. SUFFICES ASSUME NEW r \in DOMAIN rows, rows[r].quantity > 0
                 PROVE  /\ InAll(t.pools, r, "quantity") <= Remaining(MovedBy(rows, D \cup {k}), rows, r)
                        /\ InAll(t.pools, r, "value") <= Remaining(t.costs, rows, r)
                        /\ InAll(t.pools, r, "quantity") = Remaining(MovedBy(rows, D \cup {k}), rows, r) =>
                             InAll(t.pools, r, "value") = Remaining(t.costs, rows, r)
    BY DEF Receipts
  <1>2. PICK dq \in Int, dv \in Int :
          /\ Holding(t.pools[l].layers, {r}, "quantity") =
               Holding(s.pools[l].layers, {r}, "quantity") + dq
          /\ Holding(t.pools[l].layers, {r}, "value") =
               Holding(s.pools[l].layers, {r}, "value") + dv
          /\ IF r = k \/ rows[k].related = r THEN dq = rows[k].quantity /\ dv = c
             ELSE dq <= 0 /\ dv <= 0 /\ (dq = 0 => dv = 0)
    BY <1>0, <1>1 DEF Fits
  <1>3. /\ Layered(s.pools) /\ Layered(t.pools) /\ l \in Locations
        /\ "quantity" \in Measures /\ "value" \in Measures
    BY <1>0, AccountedLayers DEF RowsSound, RowSound, Measures
  <1>a. ASSUME NEW measure \in Measures
        PROVE  /\ Holding(s.pools[l].layers, {r}, measure) \in Nat
               /\ InAll(t.pools, r, measure) =
                    InAll(s.pools, r, measure) - Holding(s.pools[l].layers, {r}, measure)
                      + Holding(t.pools[l].layers, {r}, measure)
    <2>1. PICK before, after : before = s.pools /\ after = t.pools
      OBVIOUS
    <2>2. /\ Layered(before) /\ Layered(after) /\ l \in Locations
          /\ \A m \in Locations : m # l => after[m] = before[m]
      BY <1>0, <1>3, <2>1
    <2>3. HeldMore(before, after, l, r, measure)
      BY ONLY <2>2, InAllChanged, measure \in Measures
    <2>4. QED
      BY <2>1, <2>3 DEF HeldMore
  <1>4. PICK hq \in Int, hv \in Int : /\ hq = InAll(s.pools, r, "quantity")
                                      /\ hv = InAll(s.pools, r, "value")
    BY <1>3, InAllTyped
  <1>5. InAll(t.pools, r, "quantity") = hq + dq
    <2>1. /\ Holding(s.pools[l].layers, {r}, "quantity") \in Nat
          /\ InAll(t.pools, r, "quantity") =
               InAll(s.pools, r, "quantity") - Holding(s.pools[l].layers, {r}, "quantity")
                 + Holding(t.pools[l].layers, {r}, "quantity")
      BY <1>3, <1>a
    <2>2. PICK x \in Int : x = Holding(s.pools[l].layers, {r}, "quantity")
      BY <2>1
    <2>3. InAll(t.pools, r, "quantity") = hq - x + (x + dq)
      BY <1>2, <1>4, <2>1, <2>2
    <2>4. QED
      BY <2>3
  <1>6. InAll(t.pools, r, "value") = hv + dv
    <2>1. /\ Holding(s.pools[l].layers, {r}, "value") \in Nat
          /\ InAll(t.pools, r, "value") =
               InAll(s.pools, r, "value") - Holding(s.pools[l].layers, {r}, "value")
                 + Holding(t.pools[l].layers, {r}, "value")
      BY <1>3, <1>a
    <2>2. PICK x \in Int : x = Holding(s.pools[l].layers, {r}, "value")
      BY <2>1
    <2>3. InAll(t.pools, r, "value") = hv - x + (x + dv)
      BY <1>2, <1>4, <2>1, <2>2
    <2>4. QED
      BY <2>3
  <1>7. Standing(rows, t)
    BY DEF Accounted
  <1>b. RemainingOf(rows, D, k, s, t, c, r)
    BY ONLY <1>7, RemainingOnce, RowsSound(rows), k \in DOMAIN rows \ D, r \in DOMAIN rows,
            Accounted(method, rows, D, s), c \in Int, t.costs = [s.costs EXCEPT ![k] = c]
  <1>8. PICK x \in Int, y \in Int : /\ x = Remaining(MovedBy(rows, D), rows, r)
                                    /\ y = Remaining(s.costs, rows, r)
    BY <1>b DEF RemainingOf
  <1>9. PICK q \in Int : q = rows[k].quantity
    BY DEF RowsSound, RowSound
  <1>10. /\ Remaining(MovedBy(rows, D \cup {k}), rows, r) =
              x + IF r = k \/ rows[k].related = r THEN q ELSE 0
         /\ Remaining(t.costs, rows, r) = y + IF r = k \/ rows[k].related = r THEN c ELSE 0
    BY <1>b, <1>8, <1>9 DEF RemainingOf
  <1>11. hq <= x /\ hv <= y /\ (hq = x => hv = y)
    BY <1>1, <1>4, <1>8 DEF Receipts
  <1>12. CASE r = k \/ rows[k].related = r
    <2>1. dq = q /\ dv = c
      BY <1>2, <1>9, <1>12
    <2>2. hq + q <= x + q /\ hv + c <= y + c /\ (hq + q = x + q => hv + c = y + c)
      BY <1>11
    <2>3. QED
      BY <1>5, <1>6, <1>10, <1>12, <2>1, <2>2
  <1>13. CASE ~(r = k \/ rows[k].related = r)
    <2>1. dq <= 0 /\ dv <= 0 /\ (dq = 0 => dv = 0)
      BY <1>2, <1>13
    <2>2. hq + dq <= x /\ hv + dv <= y /\ (hq + dq = x => hv + dv = y)
      <3>1. hq + dq <= x /\ hv + dv <= y
        BY <1>11, <2>1
      <3>2. hq + dq = x => dq = 0 /\ hq = x
        BY <1>11, <2>1
      <3>3. QED
        BY <1>11, <2>1, <3>1, <3>2
    <2>3. x + 0 = x /\ y + 0 = y
      OBVIOUS
    <2>4. QED
      BY <1>5, <1>6, <1>10, <1>13, <2>2, <2>3
  <1>14. QED
    BY <1>12, <1>13

\* Layers carried from one pool to another: all hold what they held.
Carried(taken, s, out, t, from, to) ==
  /\ taken \in Seq(Portion) /\ from \in Locations /\ to \in Locations
  /\ \A m \in Locations : m # from => out.pools[m] = s.pools[m]
  /\ \A m \in Locations : m # to => t.pools[m] = out.pools[m]
  /\ \A r : \A measure \in Measures :
       /\ Holding(s.pools[from].layers, {r}, measure) =
            Holding(taken, {r}, measure) + Holding(out.pools[from].layers, {r}, measure)
       /\ Holding(t.pools[to].layers, {r}, measure) =
            Holding(out.pools[to].layers, {r}, measure) + Holding(taken, {r}, measure)

LEMMA CarriedHeld ==
  ASSUME NEW s, NEW out, NEW t, NEW taken, NEW from, NEW to, Carried(taken, s, out, t, from, to),
         Layered(s.pools), Layered(out.pools), Layered(t.pools), NEW r, NEW measure \in Measures
  PROVE  InAll(t.pools, r, measure) = InAll(s.pools, r, measure)
  <1>1. PICK a, b, c : a = s.pools /\ b = out.pools /\ c = t.pools
    OBVIOUS
  <1>2. /\ Layered(a) /\ Layered(b) /\ Layered(c) /\ from \in Locations /\ to \in Locations
        /\ \A m \in Locations : m # from => b[m] = a[m]
        /\ \A m \in Locations : m # to => c[m] = b[m]
        /\ Holding(a[from].layers, {r}, measure) =
             Holding(taken, {r}, measure) + Holding(b[from].layers, {r}, measure)
        /\ Holding(c[to].layers, {r}, measure) =
             Holding(b[to].layers, {r}, measure) + Holding(taken, {r}, measure)
        /\ Holding(taken, {r}, measure) \in Nat
    BY <1>1, HoldingBounds DEF Carried
  <1>3. HeldMore(a, b, from, r, measure)
    BY ONLY <1>2, InAllChanged, measure \in Measures
  <1>4. HeldMore(b, c, to, r, measure)
    BY ONLY <1>2, InAllChanged, measure \in Measures
  <1>5. InAll(a, r, measure) \in Nat
    BY ONLY <1>2, InAllTyped, measure \in Measures
  <1>6. PICK h \in Int, w \in Int, x \in Int, y \in Int :
          /\ h = InAll(a, r, measure) /\ w = Holding(taken, {r}, measure)
          /\ x = Holding(b[from].layers, {r}, measure)
          /\ y = Holding(b[to].layers, {r}, measure)
    BY <1>2, <1>3, <1>4, <1>5 DEF HeldMore
  <1>7. InAll(b, r, measure) = h - (w + x) + x
    BY <1>2, <1>3, <1>6 DEF HeldMore
  <1>8. InAll(b, r, measure) = h - w
    BY <1>6, <1>7
  <1>9. InAll(c, r, measure) = (h - w) - y + (y + w)
    BY <1>2, <1>4, <1>6, <1>8 DEF HeldMore
  <1>10. InAll(c, r, measure) = h
    BY <1>6, <1>9
  <1>11. QED
    BY <1>1, <1>6, <1>10

(* A transfer leaves no receipt short. *)
LEMMA TransferReceipts ==
  ASSUME NEW method, NEW rows, RowsSound(rows), NEW D, NEW k \in DOMAIN rows \ D,
         rows[k].kind = "transfer_out", k + 1 \notin D,
         NEW s, Accounted(method, rows, D, s), Receipts(rows, D, s),
         NEW out, Accounted(method, rows, D \cup {k}, out),
         NEW t, Accounted(method, rows, (D \cup {k}) \cup {k + 1}, t),
         NEW v \in Nat, NEW c \in Int, out.costs = [s.costs EXCEPT ![k] = c],
         t.costs = [out.costs EXCEPT ![k + 1] = v],
         NEW taken, NEW from, NEW to, Carried(taken, s, out, t, from, to)
  PROVE  Receipts(rows, (D \cup {k}) \cup {k + 1}, t)
  <1>1. /\ RowSound(rows, k) /\ k \in Nat /\ k # 0 /\ rows[k].quantity < 0 /\ rows[k].related = 0
        /\ k + 1 \in DOMAIN rows /\ rows[k + 1].related = 0 /\ rows[k + 1].quantity = -rows[k].quantity
    BY DEF RowsSound, RowSound
  <1>2. PICK j \in DOMAIN rows : j = k + 1
    BY <1>1
  <1>3. j \notin D \cup {k}
    BY <1>1, <1>2
  <1>4. PICK q \in Int : q = rows[j].quantity /\ q > 0
    <2>1. rows[k].quantity \in Int
      BY <1>1 DEF RowSound
    <2>2. QED
      BY <1>1, <1>2, <2>1
  <1>5. Standing(rows, out) /\ Standing(rows, t)
    BY DEF Accounted
  <1>6. SUFFICES ASSUME NEW r \in DOMAIN rows, rows[r].quantity > 0
                 PROVE  /\ InAll(t.pools, r, "quantity") <= Remaining(MovedBy(rows, (D \cup {k}) \cup {j}), rows, r)
                        /\ InAll(t.pools, r, "value") <= Remaining(t.costs, rows, r)
                        /\ InAll(t.pools, r, "quantity") = Remaining(MovedBy(rows, (D \cup {k}) \cup {j}), rows, r) =>
                             InAll(t.pools, r, "value") = Remaining(t.costs, rows, r)
    BY <1>2 DEF Receipts
  <1>7. RemainingOf(rows, D, k, s, out, c, r)
    BY ONLY <1>5, RemainingOnce, RowsSound(rows), k \in DOMAIN rows \ D, r \in DOMAIN rows,
            Accounted(method, rows, D, s), c \in Int, out.costs = [s.costs EXCEPT ![k] = c]
  <1>8. RemainingOf(rows, D \cup {k}, j, out, t, v, r)
    <2>1. j \in DOMAIN rows \ (D \cup {k}) /\ v \in Int /\ t.costs = [out.costs EXCEPT ![j] = v]
      BY <1>2, <1>3
    <2>2. QED
      BY ONLY <1>5, <2>1, RemainingOnce, RowsSound(rows), r \in DOMAIN rows,
              Accounted(method, rows, D \cup {k}, out)
  <1>9. r # k /\ rows[k].related # r /\ rows[j].related # r
    <2>1. r # 0
      BY DEF RowsSound
    <2>2. rows[j].related = 0
      BY <1>1, <1>2
    <2>3. r # k
      <3>1. rows[k].quantity \in Int
        BY <1>1 DEF RowSound
      <3>2. QED
        BY <1>1, <1>6, <3>1
    <2>4. QED
      BY <1>1, <2>1, <2>2, <2>3
  <1>10. PICK x \in Int, y \in Int : /\ x = Remaining(MovedBy(rows, D), rows, r)
                                     /\ y = Remaining(s.costs, rows, r)
    BY <1>7 DEF RemainingOf
  <1>11. /\ Remaining(MovedBy(rows, D \cup {k}), rows, r) = x
         /\ Remaining(out.costs, rows, r) = y
    <2>1. x + 0 = x /\ y + 0 = y
      OBVIOUS
    <2>2. QED
      BY <1>7, <1>9, <1>10, <2>1 DEF RemainingOf
  <1>12. /\ Remaining(MovedBy(rows, (D \cup {k}) \cup {j}), rows, r) = x + IF r = j THEN q ELSE 0
         /\ Remaining(t.costs, rows, r) = y + IF r = j THEN v ELSE 0
    BY <1>4, <1>8, <1>9, <1>11 DEF RemainingOf
  <1>13. /\ InAll(t.pools, r, "quantity") = InAll(s.pools, r, "quantity")
         /\ InAll(t.pools, r, "value") = InAll(s.pools, r, "value")
    <2>1. Layered(s.pools) /\ Layered(out.pools) /\ Layered(t.pools)
      BY AccountedLayers
    <2>2. \A measure \in Measures : InAll(t.pools, r, measure) = InAll(s.pools, r, measure)
      BY <2>1, CarriedHeld
    <2>3. QED
      BY <2>2 DEF Measures
  <1>14. PICK hq \in Int, hv \in Int : /\ hq = InAll(s.pools, r, "quantity")
                                       /\ hv = InAll(s.pools, r, "value")
    <2>1. Layered(s.pools) /\ "quantity" \in Measures /\ "value" \in Measures
      BY AccountedLayers DEF Measures
    <2>2. QED
      BY <2>1, InAllTyped
  <1>15. hq <= x /\ hv <= y /\ (hq = x => hv = y)
    BY <1>6, <1>10, <1>14 DEF Receipts
  <1>16. CASE r = j
    <2>1. hq <= x + q /\ hv <= y + v /\ hq # x + q
      BY <1>4, <1>15
    <2>2. QED
      BY <1>12, <1>13, <1>14, <1>16, <2>1
  <1>17. CASE r # j
    <2>1. x + 0 = x /\ y + 0 = y
      OBVIOUS
    <2>2. QED
      BY <1>12, <1>13, <1>14, <1>15, <1>17, <2>1
  <1>18. QED
    BY <1>16, <1>17

------------------------------------------------------------------------------
(* Where a replay stands after a change. *)

Stands(sound, pools, costs, returned) ==
  [sound |-> sound, pools |-> pools, costs |-> costs, returned |-> returned]

LEMMA StandsThere ==
  ASSUME NEW a, NEW b, NEW c, NEW d, NEW t, t = Stands(a, b, c, d)
  PROVE  /\ t.sound = a /\ t.pools = b /\ t.costs = c /\ t.returned = d
         /\ t = Stands(t.sound, t.pools, t.costs, t.returned)
  BY DEF Stands

LEMMA RefusedStands ==
  ASSUME NEW rows, NEW s, Standing(rows, s)
  PROVE  Standing(rows, Refused(s)) /\ Refused(s).sound = FALSE
  <1>1. PICK a, b, c, d : s = [sound |-> a, pools |-> b, costs |-> c, returned |-> d]
    BY DEF Standing
  <1>2. Refused(s) = [sound |-> FALSE, pools |-> b, costs |-> c, returned |-> d]
    <2>1. PICK f : f = FALSE
      OBVIOUS
    <2>2. [s EXCEPT !.sound = f] = [sound |-> f, pools |-> b, costs |-> c, returned |-> d]
      BY ONLY <1>1
    <2>3. QED
      BY <2>1, <2>2, Zenon DEF Refused
  <1>3. Refused(s) = Stands(FALSE, s.pools, s.costs, s.returned)
    BY <1>1, <1>2 DEF Stands
  <1>4. QED
    BY <1>3 DEF Standing, Stands

PoolAndCost(s, l, pool, k, c) == [s EXCEPT !.pools[l] = pool, !.costs[k] = c]

LEMMA PoolAndCostStand ==
  ASSUME NEW rows, NEW s, Standing(rows, s), NEW l, NEW pool, NEW k, NEW c
  PROVE  PoolAndCost(s, l, pool, k, c) =
           Stands(s.sound, [s.pools EXCEPT ![l] = pool], [s.costs EXCEPT ![k] = c], s.returned)
  <1> DEFINE o == [s EXCEPT !.pools = [s.pools EXCEPT ![l] = pool]]
             t == [o EXCEPT !.costs = [o.costs EXCEPT ![k] = c]]
  <1>1. o = Stands(s.sound, [s.pools EXCEPT ![l] = pool], s.costs, s.returned)
    BY DEF Standing, Stands
  <1> HIDE DEF o
  <1>2. t = Stands(s.sound, [s.pools EXCEPT ![l] = pool], [s.costs EXCEPT ![k] = c], s.returned)
    BY <1>1 DEF Stands
  <1>3. QED
    BY <1>2 DEF o, PoolAndCost

LEMMA PutInStands ==
  ASSUME NEW method, NEW rows, NEW s, Standing(rows, s), NEW l, NEW k, NEW q, NEW v
  PROVE  PutIn(s, method, l, k, q, v) =
           Stands(s.sound,
                  [s.pools EXCEPT ![l] =
                     Put(method, s.pools[l], << [receipt |-> k, quantity |-> q, value |-> v] >>)],
                  [s.costs EXCEPT ![k] = v], s.returned)
  <1>1. PutIn(s, method, l, k, q, v) =
          PoolAndCost(s, l, Put(method, s.pools[l],
                                << [receipt |-> k, quantity |-> q, value |-> v] >>), k, v)
    BY DEF PutIn, PoolAndCost
  <1>2. QED
    BY <1>1, PoolAndCostStand

LEMMA ReturnedStands ==
  ASSUME NEW a, NEW b, NEW c, NEW d, NEW j, NEW x
  PROVE  [Stands(a, b, c, d) EXCEPT !.returned[j] = x] = Stands(a, b, c, [d EXCEPT ![j] = x])
  BY DEF Stands

Good(method, rows, D, s) ==
  Accounted(method, rows, D, s) /\ (method = "fifo" => Receipts(rows, D, s))

LEMMA RowGood ==
  ASSUME NEW method, NEW rows, RowsSound(rows), NEW D, D \subseteq DOMAIN rows,
         NEW k \in DOMAIN rows \ D, NEW s, Good(method, rows, D, s), NEW t,
         NEW c \in Int, IF rows[k].quantity < 0 THEN c <= 0 ELSE c >= 0,
         RowDone(method, rows, D, k, s, t, c), method = "fifo" => Fits(rows, k, s, t, c)
  PROVE  Good(method, rows, D \cup {k}, t)
  <1>1. Accounted(method, rows, D, s)
    BY DEF Good
  <1>2. Accounted(method, rows, D \cup {k}, t)
    BY <1>1, RowAccounted
  <1>3. ASSUME method = "fifo" PROVE Receipts(rows, D \cup {k}, t)
    <2>1. Receipts(rows, D, s) /\ Fits(rows, k, s, t, c)
      BY <1>3 DEF Good
    <2>2. /\ t.costs = [s.costs EXCEPT ![k] = c]
          /\ \A m \in Locations : m # rows[k].location => t.pools[m] = s.pools[m]
      BY DEF RowDone
    <2>3. QED
      BY <1>1, <1>2, <2>1, <2>2, RowReceipts
  <1>4. QED
    BY <1>2, <1>3 DEF Good

LEMMA RowTyped ==
  ASSUME NEW rows, RowsSound(rows), NEW k \in DOMAIN rows
  PROVE  /\ RowSound(rows, k) /\ k \in Nat \ {0} /\ rows[k].location \in Locations
         /\ rows[k].quantity \in Int /\ rows[k].quantity # 0 /\ rows[k].cost \in Nat
         /\ rows[k].related \in Nat /\ rows[k].related # k
  <1>1. RowSound(rows, k) /\ k \in Nat \ {0}
    BY DEF RowsSound
  <1>2. rows[k].related # k
    BY <1>1 DEF RowSound, Earlier
  <1>3. QED
    BY <1>1, <1>2 DEF RowSound

\* The layer a movement puts in.
LayerOf(rows, k, v) == << [receipt |-> k, quantity |-> rows[k].quantity, value |-> v] >>

\* A movement in is one more layer of its pool.
PutDone(method, rows, D, k, s, t, v) ==
  /\ Standing(rows, t) /\ t.costs = [s.costs EXCEPT ![k] = v]
  /\ t.pools = [s.pools EXCEPT ![rows[k].location] =
                  Put(method, s.pools[rows[k].location], LayerOf(rows, k, v))]
  /\ \A j \in DOMAIN rows : j # rows[k].related => t.returned[j] = s.returned[j]
  /\ rows[k].related # 0 =>
       /\ rows[k].related \in D
       /\ t.returned[rows[k].related].quantity =
            s.returned[rows[k].related].quantity + rows[k].quantity
       /\ t.returned[rows[k].related].value = s.returned[rows[k].related].value + v
       /\ t.returned[rows[k].related].quantity <= -rows[rows[k].related].quantity
       /\ t.returned[rows[k].related].value =
            Share(-s.costs[rows[k].related], t.returned[rows[k].related].quantity,
                  -rows[rows[k].related].quantity)

LEMMA PutRowGood ==
  ASSUME NEW method, NEW rows, RowsSound(rows), NEW D, D \subseteq DOMAIN rows,
         NEW k \in DOMAIN rows \ D, rows[k].quantity > 0,
         NEW s, Good(method, rows, D, s), NEW t, NEW v \in Nat,
         PutDone(method, rows, D, k, s, t, v)
  PROVE  Good(method, rows, D \cup {k}, t)
  <1> USE DEF PutDone
  <1>1. PICK l \in Locations, q \in Nat \ {0} : l = rows[k].location /\ q = rows[k].quantity
    BY RowTyped
  <1>2. PICK pool, p, layers : /\ pool = s.pools[l] /\ layers = LayerOf(rows, k, v)
                               /\ p = Put(method, pool, layers)
    OBVIOUS
  <1>3. /\ PoolSound(method, pool)
        /\ t.pools[l] = p /\ \A m \in Locations : m # l => t.pools[m] = s.pools[m]
    <2>1. DOMAIN s.pools = Locations
      BY DEF Good, Accounted, Standing
    <2>2. QED
      BY <1>1, <1>2, <2>1 DEF Good, Accounted
  <1>4. /\ layers \in Seq(Layer) /\ QuantityOf(layers) = q /\ ValueOf(layers) = v
        /\ \A receipts :
             /\ Holding(layers, receipts, "quantity") = IF k \in receipts THEN q ELSE 0
             /\ Holding(layers, receipts, "value") = IF k \in receipts THEN v ELSE 0
    <2>1. PICK x : x = [receipt |-> k, quantity |-> q, value |-> v]
      OBVIOUS
    <2>2. layers = <<x>> /\ k \in Nat
      BY <1>1, <1>2, <2>1, RowTyped DEF LayerOf
    <2>3. QED
      BY <2>1, <2>2, OneLayer
  <1>5. /\ PoolSound(method, p) /\ p.quantity = pool.quantity + q /\ p.value = pool.value + v
        /\ method = "fifo" => \A receipts : \A measure \in Measures :
             Holding(p.layers, receipts, measure) =
               Holding(pool.layers, receipts, measure) + Holding(layers, receipts, measure)
    BY <1>2, <1>3, <1>4, PutKeeps
  <1>6. RowDone(method, rows, D, k, s, t, v)
    <2>1. ~(rows[k].quantity < 0)
      BY <1>1
    <2>2. QED
      BY <1>1, <1>2, <1>3, <1>5, <2>1 DEF RowDone
  <1>7. ASSUME method = "fifo" PROVE Fits(rows, k, s, t, v)
    <2>1. SUFFICES
            ASSUME NEW r \in DOMAIN rows, rows[r].quantity > 0
            PROVE  \E dq \in Int, dv \in Int :
                     /\ Holding(p.layers, {r}, "quantity") = Holding(pool.layers, {r}, "quantity") + dq
                     /\ Holding(p.layers, {r}, "value") = Holding(pool.layers, {r}, "value") + dv
                     /\ IF r = k \/ rows[k].related = r THEN dq = rows[k].quantity /\ dv = v
                        ELSE dq <= 0 /\ dv <= 0 /\ (dq = 0 => dv = 0)
      BY <1>1, <1>2, <1>3 DEF Fits
    <2>2. rows[k].related # r
      <3>1. r # 0 /\ rows[r].quantity \in Int
        BY RowTyped
      <3>2. rows[k].related = r => rows[r].quantity < 0
        BY <1>1, <3>1, RowTyped DEF RowSound
      <3>3. QED
        BY <2>1, <3>1, <3>2
    <2>3. /\ Holding(p.layers, {r}, "quantity") =
               Holding(pool.layers, {r}, "quantity") + IF r = k THEN q ELSE 0
          /\ Holding(p.layers, {r}, "value") =
               Holding(pool.layers, {r}, "value") + IF r = k THEN v ELSE 0
      <3>1. "quantity" \in Measures /\ "value" \in Measures
        BY DEF Measures
      <3>2. \A measure \in Measures : Holding(p.layers, {r}, measure) =
              Holding(pool.layers, {r}, measure) + Holding(layers, {r}, measure)
        BY <1>5, <1>7
      <3>3. k \in {r} <=> r = k
        OBVIOUS
      <3>4. /\ Holding(layers, {r}, "quantity") = IF r = k THEN q ELSE 0
            /\ Holding(layers, {r}, "value") = IF r = k THEN v ELSE 0
        BY <1>4, <3>3
      <3>5. QED
        BY <3>1, <3>2, <3>4
    <2>4. PICK dq \in Int, dv \in Int : /\ dq = IF r = k THEN q ELSE 0
                                        /\ dv = IF r = k THEN v ELSE 0
      OBVIOUS
    <2>5. QED
      BY <1>1, <2>2, <2>3, <2>4
  <1>8. v \in Int /\ IF rows[k].quantity < 0 THEN v <= 0 ELSE v >= 0
    BY <1>1
  <1>9. QED
    BY <1>6, <1>7, <1>8, RowGood

\* Opening stock, a delivery, stock found.
LEMMA AtItsOwnCostGood ==
  ASSUME NEW method, NEW rows, RowsSound(rows), NEW D, D \subseteq DOMAIN rows,
         NEW k \in DOMAIN rows \ D, rows[k].quantity > 0, rows[k].related = 0,
         NEW s, Good(method, rows, D, s),
         NEW t, t = AtItsOwnCost(method, rows, s, k)
  PROVE  Good(method, rows, D \cup {k}, t)
  <1>1. PICK l \in Locations, v \in Nat : l = rows[k].location /\ v = rows[k].cost
    BY RowTyped
  <1>2. Standing(rows, s)
    BY DEF Good, Accounted
  <1>3. t = PutIn(s, method, l, k, rows[k].quantity, v)
    BY <1>1 DEF AtItsOwnCost
  <1>4. t = Stands(s.sound, [s.pools EXCEPT ![l] = Put(method, s.pools[l], LayerOf(rows, k, v))],
                   [s.costs EXCEPT ![k] = v], s.returned)
    BY <1>2, <1>3, PutInStands DEF LayerOf
  <1>5. /\ t.costs = [s.costs EXCEPT ![k] = v] /\ t.returned = s.returned
        /\ t.pools = [s.pools EXCEPT ![l] = Put(method, s.pools[l], LayerOf(rows, k, v))]
        /\ t = Stands(t.sound, t.pools, t.costs, t.returned) /\ t.sound = s.sound
    BY <1>4 DEF Stands
  <1>6. Standing(rows, t)
    BY <1>2, <1>5 DEF Standing, Stands
  <1>7. PutDone(method, rows, D, k, s, t, v)
    BY <1>1, <1>5, <1>6 DEF PutDone
  <1>8. QED
    BY <1>1, <1>7, PutRowGood

(* What comes back of an issue comes at the cost it left at. *)
LEMMA AtTheCostItLeftGood ==
  ASSUME NEW method, NEW rows, RowsSound(rows), NEW D, D \subseteq DOMAIN rows,
         NEW k \in DOMAIN rows \ D, rows[k].quantity > 0, rows[k].related # 0, rows[k].related \in D,
         NEW s, Good(method, rows, D, s),
         NEW t, t = AtTheCostItLeft(method, rows, s, k), t.sound
  PROVE  Good(method, rows, D \cup {k}, t)
  <1> DEFINE j == rows[k].related
             issued == -rows[j].quantity
             before == s.returned[j]
             total == before.quantity + rows[k].quantity
             share == Share(-s.costs[j], total, issued)
             value == share - before.value
  <1>1. PICK l \in Locations, q \in Nat \ {0}, i \in DOMAIN rows :
          l = rows[k].location /\ q = rows[k].quantity /\ i = j
    BY RowTyped
  <1>2. Standing(rows, s)
    BY DEF Good, Accounted
  <1>3. PICK b \in Nat, y \in Nat : b = before.quantity /\ y = before.value
    BY <1>1, <1>2 DEF Standing, Amount
  <1>4. rows[i].quantity < 0 /\ IssueSound(rows, D, s, i)
    BY <1>1, RowTyped DEF RowSound, Good, Accounted
  <1>5. PICK n \in Nat \ {0}, a \in Nat : n = issued /\ a = -s.costs[j]
    <2>1. s.costs[i] \in Int /\ s.costs[i] <= 0 /\ rows[i].quantity \in Int
      BY <1>2, <1>4, RowTyped DEF Standing, IssueSound
    <2>2. QED
      BY <1>1, <1>4, <2>1
  <1>6. ~(total > issued)
    <2>1. Refused(s).sound = FALSE
      BY <1>2, RefusedStands
    <2>2. QED
      BY <2>1 DEF AtTheCostItLeft
  <1>7. b + q <= n /\ total = b + q
    BY <1>1, <1>3, <1>5, <1>6
  <1>8. y = Share(a, b, n) /\ b <= b + q /\ b + q \in Nat
    BY <1>1, <1>3, <1>4, <1>5 DEF IssueSound
  <1>9. PICK z \in Nat : z = Share(a, b + q, n) /\ y <= z
    <2>1. Share(a, b + q, n) \in 0..a
      BY <1>7, <1>8, SharesOfACost
    <2>2. Share(a, b, n) <= Share(a, b + q, n)
      BY <1>8, SharesOfACost
    <2>3. QED
      BY <1>8, <2>1, <2>2
  <1>10. PICK v \in Nat : v = z - y /\ y + v = z
    BY <1>9
  <1>11. share = z /\ value = v
    BY <1>3, <1>5, <1>7, <1>9, <1>10
  <1>12. t = [PutIn(s, method, l, k, rows[k].quantity, v)
                EXCEPT !.returned[j] = [quantity |-> b + q, value |-> z]]
    <2>1. t = [PutIn(s, method, rows[k].location, k, rows[k].quantity, value)
                 EXCEPT !.returned[j] = [quantity |-> total, value |-> before.value + value]]
      BY <1>6 DEF AtTheCostItLeft
    <2>2. before.value + value = z
      BY <1>3, <1>10, <1>11
    <2> HIDE DEF j, before, total, value
    <2>3. QED
      BY <1>1, <1>7, <1>11, <2>1, <2>2
  <1> HIDE DEF share, value, total
  <1>13. PICK w, p : /\ w = [quantity |-> b + q, value |-> z]
                     /\ p = [s.pools EXCEPT ![l] = Put(method, s.pools[l], LayerOf(rows, k, v))]
    OBVIOUS
  <1>14. PICK c, d : c = [s.costs EXCEPT ![k] = v] /\ d = s.returned
    OBVIOUS
  <1>15. PutIn(s, method, l, k, rows[k].quantity, v) = Stands(s.sound, p, c, d)
    BY <1>2, <1>13, <1>14, PutInStands DEF LayerOf
  <1>16. [Stands(s.sound, p, c, d) EXCEPT !.returned[j] = w] = Stands(s.sound, p, c, [d EXCEPT ![j] = w])
    BY DEF Stands
  <1>17. t = Stands(s.sound, p, c, [d EXCEPT ![j] = w])
    BY <1>12, <1>13, <1>15, <1>16
  <1>18. /\ t.costs = [s.costs EXCEPT ![k] = v] /\ t.returned = [s.returned EXCEPT ![j] = w]
         /\ t.pools = [s.pools EXCEPT ![l] = Put(method, s.pools[l], LayerOf(rows, k, v))]
         /\ t = Stands(t.sound, t.pools, t.costs, t.returned) /\ t.sound = s.sound
    <2>1. PICK e, g : e = [d EXCEPT ![j] = w] /\ g = s.sound
      OBVIOUS
    <2>a. t = Stands(g, p, c, e)
      BY <1>17, <2>1
    <2>2. /\ t.sound = g /\ t.pools = p /\ t.costs = c /\ t.returned = e
          /\ t = Stands(t.sound, t.pools, t.costs, t.returned)
      BY ONLY <2>a, StandsThere
    <2>3. QED
      BY <1>13, <1>14, <2>1, <2>2
  <1>19. w \in Amount /\ w.quantity = b + q /\ w.value = z
    BY <1>8, <1>13 DEF Amount
  <1>20. Standing(rows, t)
    BY <1>2, <1>18, <1>19 DEF Standing, Stands
  <1>21. t.returned[i] = w /\ \A m \in DOMAIN rows : m # i => t.returned[m] = s.returned[m]
    BY <1>1, <1>2, <1>18 DEF Standing
  <1>22. /\ t.returned[j].quantity = s.returned[j].quantity + rows[k].quantity
         /\ t.returned[j].value = s.returned[j].value + v
         /\ t.returned[j].quantity <= -rows[j].quantity
         /\ t.returned[j].value = Share(-s.costs[j], t.returned[j].quantity, -rows[j].quantity)
    BY <1>1, <1>3, <1>5, <1>7, <1>9, <1>10, <1>19, <1>21
  <1>23. PutDone(method, rows, D, k, s, t, v)
    BY <1>1, <1>18, <1>20, <1>21, <1>22 DEF PutDone
  <1>24. QED
    BY <1>23, PutRowGood

(* What goes back of a receipt goes at the cost it came in at. *)
LEMMA AtTheCostItCameInAtGood ==
  ASSUME NEW method, NEW rows, RowsSound(rows), NEW D, D \subseteq DOMAIN rows,
         NEW k \in DOMAIN rows \ D, rows[k].quantity < 0, rows[k].related # 0,
         NEW s, Good(method, rows, D, s),
         -rows[k].quantity <= s.pools[rows[k].location].quantity,
         NEW t, t = AtTheCostItCameInAt(method, rows, s, k), t.sound
  PROVE  Good(method, rows, D \cup {k}, t)
  <1> DEFINE j == rows[k].related
             pool == s.pools[rows[k].location]
             value == ValueBack(method, pool, j, rows[j].quantity, s.costs[j], -rows[k].quantity)
  <1>1. PICK l \in Locations, q \in Nat \ {0}, i \in DOMAIN rows :
          l = rows[k].location /\ q = -rows[k].quantity /\ i = j
    BY RowTyped DEF RowSound
  <1>2. Standing(rows, s) /\ PoolSound(method, pool)
    BY <1>1 DEF Good, Accounted
  <1>3. PICK x \in Nat \ {0}, c \in Nat : x = rows[i].quantity /\ c = s.costs[i]
    <2>1. ~(rows[i].quantity < 0) /\ rows[i].quantity \in Int /\ rows[i].quantity # 0
      BY <1>1, RowTyped DEF RowSound
    <2>2. s.costs[i] \in Int /\ s.costs[i] >= 0
      BY <1>2, <2>1 DEF Standing, Good, Accounted
    <2>3. QED
      BY <2>1, <2>2
  <1>4. i \in Nat /\ rows[i].quantity > 0
    BY <1>3, RowTyped
  <1>5. GoodsAreThere(method, pool, j, q) /\ value <= pool.value
        /\ t = [s EXCEPT !.pools[rows[k].location] = WithoutReceipt(method, @, j, value, -rows[k].quantity),
                         !.costs[k] = -value]
    <2>1. Refused(s).sound = FALSE
      BY <1>2, RefusedStands
    <2>2. ~(~GoodsAreThere(method, pool, j, -rows[k].quantity) \/ value > pool.value)
      BY <2>1 DEF AtTheCostItCameInAt
    <2>3. pool.value \in Int
      BY <1>2 DEF PoolSound
    <2>4. value \in Int
      <3>1. CASE method = "fifo"
        <4>1. GoodsAreThere(method, pool, i, q)
          BY <1>1, <2>2
        <4> DEFINE n == First(LayersOf(pool, i))
        <4>2. pool.layers \in Seq(Layer) /\ pool.layers \in Seq(Portion)
          BY <1>2, LayersArePortions DEF PoolSound
        <4>3. LayersOf(pool, i) # {} /\ LayersOf(pool, i) \subseteq Nat
          BY <3>1, <4>1, <4>2, ListFacts DEF GoodsAreThere, LayersOf
        <4>4. n \in DOMAIN pool.layers
          BY <4>3, FirstOfSome DEF LayersOf
        <4>5. PICK a \in Nat \ {0}, b \in Nat : a = pool.layers[n].quantity /\ b = pool.layers[n].value
          <5>1. pool.layers[n] \in Layer
            BY <4>2, <4>4
          <5>2. QED
            BY <5>1 DEF Layer, Portion
        <4>6. value = Share(b, q, a)
          BY <1>1, <3>1, <4>5 DEF ValueBack
        <4>7. QED
          BY <4>6, ShareIsNatural
      <3>2. CASE method # "fifo"
        <4>1. value = IF q = pool.quantity THEN pool.value ELSE Share(c, q, x)
          BY <1>1, <1>3, <3>2 DEF ValueBack
        <4>2. Share(c, q, x) \in Nat
          BY ShareIsNatural
        <4>3. QED
          BY <2>3, <4>1, <4>2
      <3>3. QED
        BY <3>1, <3>2
    <2>5. value <= pool.value
      <3> HIDE DEF value, pool
      <3>1. QED
        BY <2>2, <2>3, <2>4
    <2>6. QED
      BY <1>1, <2>2, <2>5 DEF AtTheCostItCameInAt
  <1>6. PICK v, new : v = value /\ new = WithoutReceipt(method, pool, j, v, q)
    OBVIOUS
  <1>7. v = ValueBack(method, pool, i, x, c, q) /\ v <= pool.value
    BY <1>1, <1>3, <1>5, <1>6
  <1>8. BackDone(method, pool, new, i, v, q)
    <2>1. PICK p : p = pool
      OBVIOUS
    <2>2. /\ PoolSound(method, p) /\ q <= p.quantity /\ GoodsAreThere(method, p, i, q)
          /\ v = ValueBack(method, p, i, x, c, q) /\ v <= p.value
          /\ new = WithoutReceipt(method, p, i, v, q)
      BY <1>1, <1>2, <1>5, <1>6, <1>7, <2>1
    <2>3. BackDone(method, p, new, i, v, q)
      BY <1>4, <2>2, BackKeeps
    <2>4. QED
      BY <2>1, <2>3
  <1> USE DEF BackDone
  <1>9. t = PoolAndCost(s, l, new, k, -v)
    BY <1>1, <1>5, <1>6 DEF PoolAndCost
  <1>10. t = Stands(s.sound, [s.pools EXCEPT ![l] = new], [s.costs EXCEPT ![k] = -v], s.returned)
    BY <1>2, <1>9, PoolAndCostStand
  <1>12. PICK d \in Int : d = -v /\ d <= 0
    BY <1>8
  <1>11. /\ t.costs = [s.costs EXCEPT ![k] = d] /\ t.returned = s.returned
         /\ t.pools = [s.pools EXCEPT ![l] = new]
         /\ t = Stands(t.sound, t.pools, t.costs, t.returned) /\ t.sound = s.sound
    <2>1. PICK e, f, g, h : /\ e = [s.pools EXCEPT ![l] = new] /\ f = [s.costs EXCEPT ![k] = d]
                            /\ g = s.sound /\ h = s.returned
      OBVIOUS
    <2>2. t = Stands(g, e, f, h)
      BY <1>10, <1>12, <2>1
    <2>3. /\ t.sound = g /\ t.pools = e /\ t.costs = f /\ t.returned = h
          /\ t = Stands(t.sound, t.pools, t.costs, t.returned)
      BY ONLY <2>2, StandsThere
    <2>4. QED
      BY <2>1, <2>3
  <1>13. Standing(rows, t)
    BY <1>2, <1>11, <1>12 DEF Standing, Stands
  <1>14. t.pools[l] = new /\ \A m \in Locations : m # l => t.pools[m] = s.pools[m]
    BY <1>2, <1>11 DEF Standing
  <1> HIDE DEF value
  <1>15. RowDone(method, rows, D, k, s, t, d)
    <2>1. new.quantity = pool.quantity + rows[k].quantity /\ new.value = pool.value + d
      <3>1. PICK a \in Int, b \in Int : a = pool.quantity /\ b = pool.value
        BY <1>2 DEF PoolSound
      <3>2. PICK e \in Int : e = rows[k].quantity /\ q = -e
        BY <1>1, RowTyped
      <3>3. QED
        BY <1>8, <1>12, <3>1, <3>2
    <2>2. ~(rows[k].quantity > 0) /\ rows[k].location = l /\ t.pools[rows[k].location] = new
      BY <1>1, <1>14, RowTyped
    <2>3. /\ \A m \in Locations : m # rows[k].location => t.pools[m] = s.pools[m]
          /\ \A m \in DOMAIN rows : t.returned[m] = s.returned[m]
      BY <1>11, <1>14, <2>2
    <2> HIDE DEF pool
    <2>4. pool = s.pools[rows[k].location]
      BY DEF pool
    <2>5. QED
      BY <1>8, <1>11, <1>13, <2>1, <2>2, <2>3, <2>4 DEF RowDone
  <1>16. ASSUME method = "fifo" PROVE Fits(rows, k, s, t, d)
    <2>1. SUFFICES
            ASSUME NEW r \in DOMAIN rows, rows[r].quantity > 0
            PROVE  \E dq \in Int, dv \in Int :
                     /\ Holding(new.layers, {r}, "quantity") = Holding(pool.layers, {r}, "quantity") + dq
                     /\ Holding(new.layers, {r}, "value") = Holding(pool.layers, {r}, "value") + dv
                     /\ IF r = k \/ rows[k].related = r THEN dq = rows[k].quantity /\ dv = d
                        ELSE dq <= 0 /\ dv <= 0 /\ (dq = 0 => dv = 0)
      BY <1>1, <1>14 DEF Fits
    <2>2. r # k
      BY <2>1, RowTyped
    <2>3. PICK hq \in Int, hv \in Int :
            hq = Holding(pool.layers, {r}, "quantity") /\ hv = Holding(pool.layers, {r}, "value")
      <3>1. pool.layers \in Seq(Portion) /\ "quantity" \in Measures /\ "value" \in Measures
        BY <1>2, LayersArePortions DEF PoolSound, Measures
      <3>2. QED
        BY <3>1, HoldingBounds
    <2>4. PICK dq \in Int, dv \in Int : /\ dq = IF r = i THEN -q ELSE 0
                                        /\ dv = IF r = i THEN -v ELSE 0
      <3>1. PICK a \in Int, b \in Int : a = -q /\ b = -v
        BY <1>8
      <3>2. QED
        BY <3>1
    <2>5. /\ Holding(new.layers, {r}, "quantity") = hq + dq
          /\ Holding(new.layers, {r}, "value") = hv + dv
      <3>1. CASE r = i
        <4>1. Holding(new.layers, {r}, "quantity") = hq - q /\ Holding(new.layers, {r}, "value") = hv - v
          BY <1>8, <1>16, <2>3, <3>1
        <4>2. hq - q = hq + dq /\ hv - v = hv + dv
          BY <1>8, <2>4, <3>1
        <4>3. QED
          BY <4>1, <4>2
      <3>2. CASE r # i
        <4>1. Holding(new.layers, {r}, "quantity") = hq - 0 /\ Holding(new.layers, {r}, "value") = hv - 0
          BY <1>8, <1>16, <2>3, <3>2
        <4>2. hq - 0 = hq + dq /\ hv - 0 = hv + dv
          BY <2>4, <3>2
        <4>3. QED
          BY <4>1, <4>2
      <3>3. QED
        BY <3>1, <3>2
    <2>6. -q = rows[k].quantity
      <3>1. PICK e \in Int : e = rows[k].quantity /\ q = -e
        BY <1>1, RowTyped
      <3>2. QED
        BY <3>1
    <2>7. QED
      BY <1>1, <1>12, <2>2, <2>3, <2>4, <2>5, <2>6
  <1>17. QED
    BY <1>12, <1>15, <1>16, RowGood

\* What a pool's method takes of it is a movement out; it refers to none.
OutDone(method, rows, k, s, t, pool, taken, left, q, d) ==
  /\ pool = s.pools[rows[k].location]
  /\ q = -rows[k].quantity /\ TakenDone(method, pool, taken, left, q)
  /\ d \in Int /\ d = -ValueOf(taken)
  /\ Standing(rows, t) /\ t.costs = [s.costs EXCEPT ![k] = d] /\ t.returned = s.returned
  /\ t.pools = [s.pools EXCEPT ![rows[k].location] = left]

LEMMA TakenOutGood ==
  ASSUME NEW method, NEW rows, RowsSound(rows), NEW D, D \subseteq DOMAIN rows,
         NEW k \in DOMAIN rows \ D, rows[k].quantity < 0, rows[k].related = 0,
         NEW s, Good(method, rows, D, s),
         NEW pool, NEW taken, NEW left, NEW q, NEW d, NEW t,
         OutDone(method, rows, k, s, t, pool, taken, left, q, d)
  PROVE  Good(method, rows, D \cup {k}, t)
  <1> USE DEF OutDone
  <1>1. PICK l \in Locations, e \in Int : l = rows[k].location /\ e = rows[k].quantity /\ q = -e /\ e < 0
    BY RowTyped
  <1>2. t.pools[l] = left /\ \A m \in Locations : m # l => t.pools[m] = s.pools[m]
    BY <1>1 DEF Good, Accounted, Standing
  <1>3. PoolSound(method, pool)
    BY <1>1 DEF Good, Accounted
  <1>4. PICK x \in Nat, y \in Nat, v \in Nat : x = pool.quantity /\ y = pool.value /\ v = ValueOf(taken)
    BY <1>3 DEF PoolSound, TakenDone
  <1>5. /\ PoolSound(method, left) /\ left.quantity = x + e /\ left.value = y + d /\ d <= 0
    <2>1. PoolSound(method, left) /\ left.quantity = x - q /\ left.value = y - v /\ d = -v
      BY <1>1, <1>4 DEF TakenDone
    <2>2. x - q = x + e /\ y - v = y + d /\ d <= 0
      BY <1>1, <2>1
    <2>3. QED
      BY <2>1, <2>2
  <1>6. RowDone(method, rows, D, k, s, t, d)
    <2>1. ~(rows[k].quantity > 0) /\ t.pools[rows[k].location] = left
      BY <1>1, <1>2
    <2>2. /\ \A m \in Locations : m # rows[k].location => t.pools[m] = s.pools[m]
          /\ \A m \in DOMAIN rows : t.returned[m] = s.returned[m]
      BY <1>1, <1>2
    <2>3. QED
      BY <1>1, <1>4, <1>5, <2>1, <2>2 DEF RowDone
  <1>7. ASSUME method = "fifo" PROVE Fits(rows, k, s, t, d)
    <2>1. SUFFICES
            ASSUME NEW r \in DOMAIN rows, rows[r].quantity > 0
            PROVE  \E dq \in Int, dv \in Int :
                     /\ Holding(left.layers, {r}, "quantity") = Holding(pool.layers, {r}, "quantity") + dq
                     /\ Holding(left.layers, {r}, "value") = Holding(pool.layers, {r}, "value") + dv
                     /\ IF r = k \/ rows[k].related = r THEN dq = rows[k].quantity /\ dv = d
                        ELSE dq <= 0 /\ dv <= 0 /\ (dq = 0 => dv = 0)
      BY <1>1, <1>2 DEF Fits
    <2>2. r # k /\ rows[k].related # r
      BY <1>1, <2>1, RowTyped
    <2>3. "quantity" \in Measures /\ "value" \in Measures
      BY DEF Measures
    <2>4. taken \in Seq(Portion) /\ Fair(taken) /\ left.layers \in Seq(Portion)
      BY <1>5, LayersArePortions DEF TakenDone, PoolSound
    <2>5. PICK gq \in Nat, gv \in Nat : /\ gq = Holding(taken, {r}, "quantity")
                                        /\ gv = Holding(taken, {r}, "value")
                                        /\ gq = 0 => gv = 0
      BY <2>3, <2>4, HoldingBounds
    <2>6. PICK hq \in Nat, hv \in Nat : /\ hq = Holding(left.layers, {r}, "quantity")
                                        /\ hv = Holding(left.layers, {r}, "value")
      BY <2>3, <2>4, HoldingBounds
    <2>7. /\ Holding(pool.layers, {r}, "quantity") = gq + hq
          /\ Holding(pool.layers, {r}, "value") = gv + hv
      BY <1>7, <2>3, <2>5, <2>6 DEF TakenDone
    <2>8. PICK dq \in Int, dv \in Int : /\ dq = -gq /\ dv = -gv /\ dq <= 0 /\ dv <= 0
                                        /\ dq = 0 => dv = 0
                                        /\ hq = gq + hq + dq /\ hv = gv + hv + dv
      BY <2>5, <2>6
    <2>9. QED
      BY <2>2, <2>6, <2>7, <2>8
  <1>8. IF rows[k].quantity < 0 THEN d <= 0 ELSE d >= 0
    BY <1>5
  <1>9. QED
    BY <1>6, <1>7, <1>8, RowGood

\* What is left of the first pool, after a movement out by the method.
TakenOut(method, rows, s, k) ==
  PoolAndCost(s, rows[k].location, Without(method, s.pools[rows[k].location], -rows[k].quantity), k,
              -ValueOf(Taken(method, s.pools[rows[k].location], -rows[k].quantity)))

TakenOutDone(method, rows, D, k, s, taken, t) ==
  /\ Good(method, rows, D \cup {k}, t) /\ t.sound = s.sound /\ t.returned = s.returned
  /\ \E left : /\ TakenDone(method, s.pools[rows[k].location], taken, left, -rows[k].quantity)
               /\ t.pools = [s.pools EXCEPT ![rows[k].location] = left]
  /\ \E d \in Int : d = -ValueOf(taken) /\ t.costs = [s.costs EXCEPT ![k] = d]

LEMMA TakenOutFacts ==
  ASSUME NEW method, NEW rows, RowsSound(rows), NEW D, D \subseteq DOMAIN rows,
         NEW k \in DOMAIN rows \ D, rows[k].quantity < 0, rows[k].related = 0,
         NEW s, Good(method, rows, D, s),
         -rows[k].quantity <= s.pools[rows[k].location].quantity,
         NEW t, t = TakenOut(method, rows, s, k),
         NEW taken, taken = Taken(method, s.pools[rows[k].location], -rows[k].quantity)
  PROVE  TakenOutDone(method, rows, D, k, s, taken, t)
  <1>1. PICK l \in Locations, moved \in Int : l = rows[k].location /\ moved = rows[k].quantity /\ moved < 0
    BY RowTyped
  <1>2. PICK q \in Nat \ {0} : q = -rows[k].quantity
    BY <1>1
  <1>3. Standing(rows, s) /\ PoolSound(method, s.pools[l])
    BY <1>1 DEF Good, Accounted
  <1>4. PICK pool, left : pool = s.pools[l] /\ left = Without(method, pool, q)
    OBVIOUS
  <1>5. TakenDone(method, pool, taken, left, q)
    <2>1. PoolSound(method, pool) /\ q <= pool.quantity /\ taken = Taken(method, pool, q)
      BY <1>1, <1>2, <1>3, <1>4
    <2>2. QED
      BY <1>4, <2>1, TakenKeeps
  <1>6. PICK d \in Int : d = -ValueOf(taken)
    BY <1>5 DEF TakenDone
  <1>7. t = PoolAndCost(s, l, left, k, d)
    BY <1>1, <1>2, <1>4, <1>6 DEF TakenOut
  <1>8. PICK e, f, g, h : /\ e = [s.pools EXCEPT ![l] = left] /\ f = [s.costs EXCEPT ![k] = d]
                          /\ g = s.sound /\ h = s.returned
    OBVIOUS
  <1>9. t = Stands(g, e, f, h)
    <2>1. PoolAndCost(s, l, left, k, d) =
            Stands(s.sound, [s.pools EXCEPT ![l] = left], [s.costs EXCEPT ![k] = d], s.returned)
      BY ONLY <1>3, PoolAndCostStand
    <2>2. QED
      BY <1>7, <1>8, <2>1
  <1>10. /\ t.sound = g /\ t.pools = e /\ t.costs = f /\ t.returned = h
         /\ t = Stands(t.sound, t.pools, t.costs, t.returned)
    BY ONLY <1>9, StandsThere
  <1>11. Standing(rows, t)
    BY <1>3, <1>8, <1>10 DEF Standing, Stands
  <1>12. Good(method, rows, D \cup {k}, t)
    <2>1. pool = s.pools[rows[k].location] /\ t.pools = [s.pools EXCEPT ![rows[k].location] = left]
          /\ t.costs = [s.costs EXCEPT ![k] = d] /\ t.returned = s.returned
      BY <1>1, <1>4, <1>8, <1>10
    <2>2. OutDone(method, rows, k, s, t, pool, taken, left, q, d)
      BY <1>2, <1>5, <1>6, <1>11, <2>1 DEF OutDone
    <2>3. QED
      BY <2>2, TakenOutGood
  <1>13. QED
    BY <1>1, <1>2, <1>4, <1>5, <1>6, <1>8, <1>10, <1>12 DEF TakenOutDone

\* What a transfer brings to the other location.
Arrived(method, rows, k, taken) ==
  IF method = "fifo" THEN taken
  ELSE << [receipt |-> rows[k].pair, quantity |-> -rows[k].quantity, value |-> ValueOf(taken)] >>

BroughtIn(method, rows, out, k, arrived, v) ==
  PoolAndCost(out, rows[rows[k].pair].location,
              Put(method, out.pools[rows[rows[k].pair].location], arrived), rows[k].pair, v)

LEMMA AtTheMethodsCostIs ==
  ASSUME NEW method, NEW rows, NEW s, NEW k,
         NEW taken, taken = Taken(method, s.pools[rows[k].location], -rows[k].quantity)
  PROVE  AtTheMethodsCost(method, rows, s, k) =
           IF rows[k].kind # "transfer_out" THEN TakenOut(method, rows, s, k)
           ELSE BroughtIn(method, rows, TakenOut(method, rows, s, k), k,
                          Arrived(method, rows, k, taken), ValueOf(taken))
  BY DEF AtTheMethodsCost, TakenOut, BroughtIn, Arrived, PoolAndCost

(* What arrives is what was taken, in quantity and in value.                   *)
LEMMA ArrivedIs ==
  ASSUME NEW method, NEW rows, NEW k, rows[k].pair \in Nat,
         NEW q \in Nat \ {0}, q = -rows[k].quantity,
         NEW pool, NEW taken, NEW left, TakenDone(method, pool, taken, left, q),
         NEW arrived, arrived = Arrived(method, rows, k, taken)
  PROVE  arrived \in Seq(Layer) /\ QuantityOf(arrived) = q /\ ValueOf(arrived) = ValueOf(taken)
  <1>1. CASE method = "fifo"
    BY <1>1 DEF Arrived, TakenDone
  <1>2. CASE method # "fifo"
    <2>1. PICK r \in Nat, v \in Nat : r = rows[k].pair /\ v = ValueOf(taken)
      BY DEF TakenDone
    <2>2. PICK p : p = [receipt |-> r, quantity |-> q, value |-> v]
      OBVIOUS
    <2>3. arrived = <<p>>
      BY <1>2, <2>1, <2>2 DEF Arrived
    <2>4. <<p>> \in Seq(Layer) /\ QuantityOf(<<p>>) = q /\ ValueOf(<<p>>) = v
      BY <2>2, OneLayer
    <2>5. QED
      BY <2>1, <2>3, <2>4
  <1>3. QED
    BY <1>1, <1>2

PutAdded(method, pool, new, layers) ==
  /\ PoolSound(method, new)
  /\ new.quantity = pool.quantity + QuantityOf(layers) /\ new.value = pool.value + ValueOf(layers)
  /\ method = "fifo" =>
       \A receipts : \A measure \in Measures :
         Holding(new.layers, receipts, measure) =
           Holding(pool.layers, receipts, measure) + Holding(layers, receipts, measure)

LEMMA PutAdds ==
  ASSUME NEW method, NEW pool, PoolSound(method, pool), NEW layers \in Seq(Layer)
  PROVE  PutAdded(method, pool, Put(method, pool, layers), layers)
  BY PutKeeps DEF PutAdded

\* The two movements of a transfer, one after the other.
LEMMA TransferGood ==
  ASSUME NEW method, NEW rows, RowsSound(rows), NEW D, D \subseteq DOMAIN rows,
         NEW k \in DOMAIN rows \ D, rows[k].kind = "transfer_out", k + 1 \notin D,
         NEW s, Good(method, rows, D, s),
         -rows[k].quantity <= s.pools[rows[k].location].quantity,
         NEW t, t = AtTheMethodsCost(method, rows, s, k)
  PROVE  Good(method, rows, (D \cup {k}) \cup {k + 1}, t) /\ t.sound = s.sound
  <1>1. PICK l \in Locations, q \in Nat \ {0}, j \in DOMAIN rows, to \in Locations :
          /\ l = rows[k].location /\ q = -rows[k].quantity /\ j = k + 1 /\ j = rows[k].pair
          /\ to = rows[j].location /\ to # l /\ rows[k].quantity < 0 /\ rows[k].related = 0
          /\ rows[j].quantity = q /\ rows[j].related = 0 /\ j # k /\ j \in Nat
    <2>1. RowSound(rows, k) /\ k \in Nat /\ rows[k].quantity \in Int
      BY RowTyped
    <2>2. k + 1 \in DOMAIN rows /\ rows[k + 1].location \in Locations
      BY <2>1, RowTyped DEF RowSound
    <2>3. rows[k].quantity < 0 => -rows[k].quantity \in Nat \ {0}
      BY <2>1
    <2>4. QED
      BY <2>1, <2>2, <2>3 DEF RowSound
  <1>2. PICK out, taken, pool : /\ out = TakenOut(method, rows, s, k) /\ pool = s.pools[l]
                                /\ taken = Taken(method, pool, q)
    OBVIOUS
  <1>3. /\ Good(method, rows, D \cup {k}, out) /\ out.sound = s.sound
        /\ \E x : TakenDone(method, pool, taken, x, q) /\ out.pools = [s.pools EXCEPT ![l] = x]
        /\ \E d \in Int : d = -ValueOf(taken) /\ out.costs = [s.costs EXCEPT ![k] = d]
    <2>1. taken = Taken(method, s.pools[rows[k].location], -rows[k].quantity)
      BY <1>1, <1>2
    <2>2. TakenOutDone(method, rows, D, k, s, taken, out)
      BY <1>1, <1>2, <2>1, TakenOutFacts
    <2>3. QED
      BY <1>1, <1>2, <2>2 DEF TakenOutDone
  <1>4. PICK left : TakenDone(method, pool, taken, left, q) /\ out.pools = [s.pools EXCEPT ![l] = left]
    BY <1>3
  <1>5. PICK d \in Int : d = -ValueOf(taken) /\ out.costs = [s.costs EXCEPT ![k] = d]
    BY <1>3
  <1>a. PICK v \in Nat : v = ValueOf(taken)
    BY <1>4 DEF TakenDone
  <1>6. PICK arrived, there, new :
          /\ arrived = Arrived(method, rows, k, taken) /\ v = ValueOf(taken)
          /\ there = out.pools[to] /\ new = Put(method, there, arrived)
    BY <1>a
  <1>7. arrived \in Seq(Layer) /\ QuantityOf(arrived) = q /\ ValueOf(arrived) = v
    BY <1>1, <1>4, <1>6, ArrivedIs
  <1>8. Standing(rows, out) /\ PoolSound(method, there) /\ Accounted(method, rows, D \cup {k}, out)
    BY <1>3, <1>6 DEF Good, Accounted
  <1>9. PutAdded(method, there, new, arrived)
    BY <1>6, <1>7, <1>8, PutAdds
  <1>10. t = PoolAndCost(out, to, new, j, v)
    <2>1. t = BroughtIn(method, rows, out, k, arrived, v)
      BY <1>1, <1>2, <1>6, AtTheMethodsCostIs
    <2>2. QED
      BY <1>1, <1>6, <2>1 DEF BroughtIn
  <1>11. PICK e, f, g, h : /\ e = [out.pools EXCEPT ![to] = new] /\ f = [out.costs EXCEPT ![j] = v]
                           /\ g = out.sound /\ h = out.returned
    OBVIOUS
  <1>12. t = Stands(g, e, f, h)
    <2>1. PoolAndCost(out, to, new, j, v) =
            Stands(out.sound, [out.pools EXCEPT ![to] = new], [out.costs EXCEPT ![j] = v], out.returned)
      BY ONLY <1>8, PoolAndCostStand
    <2>2. QED
      BY <1>10, <1>11, <2>1
  <1>13. /\ t.sound = g /\ t.pools = e /\ t.costs = f /\ t.returned = h
         /\ t = Stands(t.sound, t.pools, t.costs, t.returned)
    BY ONLY <1>12, StandsThere
  <1>14. Standing(rows, t)
    BY <1>8, <1>11, <1>13 DEF Standing, Stands
  <1>15. t.pools[to] = new /\ \A m \in Locations : m # to => t.pools[m] = out.pools[m]
    BY <1>8, <1>11, <1>13 DEF Standing
  <1>16. j \in DOMAIN rows \ (D \cup {k}) /\ D \cup {k} \subseteq DOMAIN rows
    BY <1>1
  <1>17. RowDone(method, rows, D \cup {k}, j, out, t, v)
    <2>1. /\ PoolSound(method, new) /\ new.quantity = there.quantity + rows[j].quantity
          /\ new.value = there.value + v
      BY <1>1, <1>7, <1>9 DEF PutAdded
    <2>2. /\ rows[j].location = to /\ t.pools[rows[j].location] = new
          /\ out.pools[rows[j].location] = there
          /\ \A m \in Locations : m # rows[j].location => t.pools[m] = out.pools[m]
          /\ \A m \in DOMAIN rows : t.returned[m] = out.returned[m]
          /\ t.costs = [out.costs EXCEPT ![j] = v] /\ rows[j].related = 0
      BY <1>1, <1>6, <1>11, <1>13, <1>15
    <2>3. QED
      BY <1>14, <2>1, <2>2 DEF RowDone
  <1>18. Accounted(method, rows, (D \cup {k}) \cup {j}, t)
    <2>1. v \in Int /\ IF rows[j].quantity < 0 THEN v <= 0 ELSE v >= 0
      BY <1>1
    <2>2. QED
      BY <1>8, <1>16, <1>17, <2>1, RowAccounted
  <1>19. ASSUME method = "fifo" PROVE Receipts(rows, (D \cup {k}) \cup {k + 1}, t)
    <2>1. Carried(taken, s, out, t, l, to)
      <3>1. taken \in Seq(Portion) /\ arrived = taken
        BY <1>4, <1>6, <1>19, LayersArePortions DEF TakenDone, Arrived
      <3>2. /\ out.pools[l] = left /\ \A m \in Locations : m # l => out.pools[m] = s.pools[m]
        BY <1>4 DEF Good, Accounted, Standing
      <3>3. \A r : \A measure \in Measures :
              /\ Holding(s.pools[l].layers, {r}, measure) =
                   Holding(taken, {r}, measure) + Holding(out.pools[l].layers, {r}, measure)
              /\ Holding(t.pools[to].layers, {r}, measure) =
                   Holding(out.pools[to].layers, {r}, measure) + Holding(taken, {r}, measure)
        <4>1. s.pools[l] = pool /\ out.pools[l] = left /\ t.pools[to] = new /\ out.pools[to] = there
          BY <1>2, <1>6, <1>15, <3>2
        <4>2. \A r : \A measure \in Measures :
                /\ Holding(pool.layers, {r}, measure) =
                     Holding(taken, {r}, measure) + Holding(left.layers, {r}, measure)
                /\ Holding(new.layers, {r}, measure) =
                     Holding(there.layers, {r}, measure) + Holding(taken, {r}, measure)
          BY <1>4, <1>9, <1>19, <3>1 DEF TakenDone, PutAdded
        <4>3. QED
          BY <4>1, <4>2
      <3>4. QED
        BY <1>15, <3>1, <3>2, <3>3 DEF Carried
    <2>2. Accounted(method, rows, D, s) /\ Receipts(rows, D, s)
      BY <1>19 DEF Good
    <2>3. t.costs = [out.costs EXCEPT ![k + 1] = v]
      BY <1>1, <1>11, <1>13
    <2>4. Accounted(method, rows, (D \cup {k}) \cup {k + 1}, t)
      BY <1>1, <1>18
    <2>5. QED
      BY <1>5, <1>8, <2>1, <2>2, <2>3, <2>4, TransferReceipts
  <1>20. QED
    BY <1>1, <1>3, <1>11, <1>13, <1>18, <1>19 DEF Good

------------------------------------------------------------------------------
(* One step of a replay. *)

\* With everything dated or recorded before it.
Initial(rows, S) == S \subseteq DOMAIN rows /\ \A k \in S : \A j \in DOMAIN rows : Earlier(rows, j, k) => j \in S

\* The movements done once those of S are applied: a transfer in is done with
\* its transfer out.
Done(rows, S) == S \cup {n \in DOMAIN rows : rows[n].kind = "transfer_in" /\ n - 1 \in S}

OneMoreDone(rows, k, D, E) ==
  /\ D \subseteq DOMAIN rows
  /\ IF rows[k].kind = "transfer_in" THEN E = D
     ELSE /\ k \notin D
          /\ IF rows[k].kind = "transfer_out"
             THEN E = (D \cup {k}) \cup {k + 1} /\ k + 1 \notin D
             ELSE E = D \cup {k}
  /\ rows[k].related # 0 => rows[k].related \in D

LEMMA DoneOnceMore ==
  ASSUME NEW rows, RowsSound(rows), NEW S, Initial(rows, S), NEW k \in S,
         \A j \in S \ {k} : Earlier(rows, j, k)
  PROVE  OneMoreDone(rows, k, Done(rows, S \ {k}), Done(rows, S))
  <1>1. \A n \in DOMAIN rows : RowSound(rows, n) /\ n \in Nat \ {0} /\ rows[n].date \in Int
    BY DEF RowsSound, RowSound
  <1>2. S \subseteq DOMAIN rows /\ k \in DOMAIN rows
    BY DEF Initial
  <1>3. \A n \in DOMAIN rows : rows[n].kind = "transfer_in" =>
          n - 1 \in DOMAIN rows /\ rows[n - 1].kind = "transfer_out" /\ Earlier(rows, n - 1, n)
    BY <1>1 DEF RowSound, Earlier
  <1>4. rows[k].kind = "transfer_out" =>
          k + 1 \in DOMAIN rows /\ rows[k + 1].kind = "transfer_in" /\ Earlier(rows, k, k + 1) /\ (k + 1) - 1 = k
    BY <1>1, <1>2 DEF RowSound, Earlier
  <1>5. ASSUME rows[k].related # 0 PROVE rows[k].related \in Done(rows, S \ {k})
    <2>1. rows[k].related \in DOMAIN rows /\ Earlier(rows, rows[k].related, k)
      BY <1>1, <1>2, <1>5 DEF RowSound
    <2>2. ~Earlier(rows, k, k)
      BY <1>1, <1>2 DEF Earlier
    <2>3. rows[k].related # k
      BY <2>1, <2>2
    <2>4. rows[k].related \in S
      BY <2>1 DEF Initial
    <2>5. QED
      BY <2>3, <2>4 DEF Done
  <1>6. ASSUME rows[k].kind = "transfer_in" PROVE Done(rows, S) = Done(rows, S \ {k})
    <2>1. k - 1 \in S /\ k - 1 # k
      BY <1>1, <1>2, <1>3, <1>6 DEF Initial
    <2>2. \A n \in DOMAIN rows : rows[n].kind = "transfer_in" => n - 1 # k
      BY <1>3, <1>6
    <2>3. QED
      BY <1>2, <1>6, <2>1, <2>2 DEF Done
  <1>7. ASSUME rows[k].kind # "transfer_in" PROVE k \notin Done(rows, S \ {k})
    BY <1>7 DEF Done
  <1>8. ASSUME rows[k].kind # "transfer_in", rows[k].kind # "transfer_out"
        PROVE  Done(rows, S) = Done(rows, S \ {k}) \cup {k}
    <2>1. \A n \in DOMAIN rows : rows[n].kind = "transfer_in" => n - 1 # k
      BY <1>3, <1>8
    <2>2. QED
      BY <1>2, <2>1 DEF Done
  <1>9. ASSUME rows[k].kind = "transfer_out"
        PROVE  /\ Done(rows, S) = (Done(rows, S \ {k}) \cup {k}) \cup {k + 1}
               /\ k + 1 \notin Done(rows, S \ {k})
    <2>1. \A n \in DOMAIN rows : n - 1 = k => n = k + 1
      BY <1>1, <1>2
    <2>2. k + 1 \notin S \ {k}
      <3>1. ~Earlier(rows, k + 1, k)
        BY <1>1, <1>2, <1>4, <1>9 DEF Earlier
      <3>2. QED
        BY <3>1
    <2>3. k + 1 \notin Done(rows, S \ {k})
      <3>1. k \notin S \ {k}
        OBVIOUS
      <3>2. QED
        BY <1>4, <1>9, <2>2, <3>1 DEF Done
    <2>4. Done(rows, S) \subseteq (Done(rows, S \ {k}) \cup {k}) \cup {k + 1}
      BY <1>2, <2>1 DEF Done
    <2>5. /\ S \ {k} \subseteq S
          /\ Done(rows, S \ {k}) \subseteq Done(rows, S) /\ k \in Done(rows, S)
      BY DEF Done
    <2>6. k + 1 \in Done(rows, S)
      BY <1>4, <1>9 DEF Done
    <2>7. QED
      BY <2>3, <2>4, <2>5, <2>6
  <1>10. S \ {k} \subseteq DOMAIN rows /\ Done(rows, S \ {k}) \subseteq DOMAIN rows
    BY <1>2 DEF Done
  <1>11. QED
    BY <1>5, <1>6, <1>7, <1>8, <1>9, <1>10 DEF OneMoreDone

\* A movement applied to a good replay, without being refused, leaves it good.
LEMMA AppliedGood ==
  ASSUME NEW method, NEW rows, RowsSound(rows), NEW S, Initial(rows, S), NEW k \in S,
         \A j \in S \ {k} : Earlier(rows, j, k),
         NEW s, s.sound => Good(method, rows, Done(rows, S \ {k}), s),
         NEW t, t = Applied(method, rows, s, k), t.sound
  PROVE  Good(method, rows, Done(rows, S), t)
  <1>1. PICK D, E : D = Done(rows, S \ {k}) /\ E = Done(rows, S)
    OBVIOUS
  <1>2. k \in DOMAIN rows /\ OneMoreDone(rows, k, D, E)
    <2>1. k \in DOMAIN rows
      BY DEF Initial
    <2>2. OneMoreDone(rows, k, Done(rows, S \ {k}), Done(rows, S))
      BY DoneOnceMore
    <2>3. QED
      BY <1>1, <2>1, <2>2
  <1> USE DEF OneMoreDone
  <1>3. PICK q \in Int : q = rows[k].quantity /\ q # 0
    BY <1>2, RowTyped
  <1>4. s.sound
    BY DEF Applied
  <1>5. Good(method, rows, D, s) /\ Standing(rows, s)
    BY <1>1, <1>4 DEF Good, Accounted
  <1>6. CASE rows[k].kind = "transfer_in"
    BY <1>1, <1>2, <1>5, <1>6 DEF Applied
  <1>7. CASE rows[k].kind # "transfer_in" /\ q > 0
    <2>1. rows[k].kind # "transfer_out" /\ rows[k].quantity > 0
      BY <1>2, <1>3, <1>7, RowTyped DEF RowSound
    <2>2. k \in DOMAIN rows \ D /\ E = D \cup {k}
      BY <1>2, <1>7, <2>1
    <2>3. CASE rows[k].related = 0
      <3>1. t = AtItsOwnCost(method, rows, s, k)
        BY <1>4, <1>7, <2>1, <2>3 DEF Applied
      <3>2. rows[k].quantity > 0 /\ k \in DOMAIN rows \ D /\ D \subseteq DOMAIN rows
        BY <1>2, <2>1, <2>2
      <3>3. Good(method, rows, D \cup {k}, t)
        BY ONLY RowsSound(rows), <1>5, <2>3, <3>1, <3>2, AtItsOwnCostGood
      <3>4. QED
        BY <1>1, <2>2, <3>3
    <2>4. CASE rows[k].related # 0
      <3>1. t = AtTheCostItLeft(method, rows, s, k)
        BY <1>4, <1>7, <2>1, <2>4 DEF Applied
      <3>2. rows[k].related \in D /\ rows[k].quantity > 0 /\ k \in DOMAIN rows \ D
            /\ D \subseteq DOMAIN rows
        BY <1>2, <2>1, <2>2, <2>4
      <3>3. Good(method, rows, D \cup {k}, t)
        BY ONLY RowsSound(rows), <1>5, t.sound, <2>4, <3>1, <3>2, AtTheCostItLeftGood
      <3>4. QED
        BY <1>1, <2>2, <3>3
    <2>5. QED
      BY <2>3, <2>4
  <1>8. CASE rows[k].kind # "transfer_in" /\ q < 0
    <2>1. rows[k].quantity < 0 /\ ~(rows[k].quantity > 0) /\ k \in DOMAIN rows \ D
      BY <1>2, <1>3, <1>8
    <2>2. /\ -rows[k].quantity <= s.pools[rows[k].location].quantity
          /\ ~(-rows[k].quantity > s.pools[rows[k].location].quantity)
      <3>1. Refused(s).sound = FALSE
        BY <1>5, RefusedStands
      <3>2. ~(-rows[k].quantity > s.pools[rows[k].location].quantity)
        BY <1>4, <1>8, <2>1, <3>1 DEF Applied
      <3>3. rows[k].location \in Locations
        BY <1>2, RowTyped
      <3>4. PICK a \in Int, b \in Int : /\ a = -rows[k].quantity
                                        /\ b = s.pools[rows[k].location].quantity
        <4>1. PoolSound(method, s.pools[rows[k].location])
          BY <1>5, <3>3 DEF Good, Accounted
        <4>2. s.pools[rows[k].location].quantity \in Int /\ -q \in Int
          BY <4>1 DEF PoolSound
        <4>3. QED
          BY <1>3, <4>2
      <3>5. QED
        BY <3>2, <3>4
    <2>3. CASE rows[k].related # 0
      <3>1. t = AtTheCostItCameInAt(method, rows, s, k)
        BY <1>4, <1>8, <2>1, <2>2, <2>3 DEF Applied
      <3>2. rows[k].kind # "transfer_out"
        BY <1>2, <2>3, RowTyped DEF RowSound
      <3>3. Good(method, rows, D \cup {k}, t)
        <4>1. D \subseteq DOMAIN rows
          BY <1>2
        <4>2. QED
          BY ONLY RowsSound(rows), <1>5, t.sound, <2>1, <2>2, <2>3, <3>1, <4>1, AtTheCostItCameInAtGood
      <3>4. QED
        BY <1>1, <1>2, <1>8, <3>2, <3>3
    <2>4. CASE rows[k].related = 0
      <3>1. t = AtTheMethodsCost(method, rows, s, k)
        BY <1>4, <1>8, <2>1, <2>2, <2>4 DEF Applied
      <3>2. CASE rows[k].kind = "transfer_out"
        <4>1. k + 1 \notin D /\ E = (D \cup {k}) \cup {k + 1}
          BY <1>2, <1>8, <3>2
        <4>2. Good(method, rows, (D \cup {k}) \cup {k + 1}, t)
          BY <1>2, <1>5, <2>1, <2>2, <3>1, <3>2, <4>1, TransferGood
        <4>3. QED
          BY <1>1, <4>1, <4>2
      <3>3. CASE rows[k].kind # "transfer_out"
        <4>1. PICK taken : taken = Taken(method, s.pools[rows[k].location], -rows[k].quantity)
          OBVIOUS
        <4>2. t = TakenOut(method, rows, s, k)
          BY <3>1, <3>3, <4>1, AtTheMethodsCostIs
        <4>3. TakenOutDone(method, rows, D, k, s, taken, t)
          BY <1>2, <1>5, <2>1, <2>2, <2>4, <4>1, <4>2, TakenOutFacts
        <4>4. QED
          BY <1>1, <1>2, <1>8, <3>3, <4>3 DEF TakenOutDone
      <3>4. QED
        BY <3>2, <3>3
    <2>5. QED
      BY <2>3, <2>4
  <1>9. QED
    BY <1>3, <1>6, <1>7, <1>8

------------------------------------------------------------------------------
(* A replay, movement by movement. *)

(* Of any movements one is the latest. *)
LEMMA EarlierOrders ==
  ASSUME NEW rows, RowsSound(rows), NEW j \in DOMAIN rows, NEW k \in DOMAIN rows
  PROVE  /\ j # k => Earlier(rows, j, k) \/ Earlier(rows, k, j)
         /\ ~(Earlier(rows, j, k) /\ Earlier(rows, k, j))
         /\ \A m \in DOMAIN rows : Earlier(rows, j, k) /\ Earlier(rows, k, m) => Earlier(rows, j, m)
  <1>1. \A n \in DOMAIN rows : n \in Nat /\ rows[n].date \in Int
    BY DEF RowsSound, RowSound
  <1>2. QED
    BY <1>1 DEF Earlier

LEMMA LatestIs ==
  ASSUME NEW rows, RowsSound(rows), NEW S, S \subseteq DOMAIN rows, S # {}
  PROVE  Latest(rows, S) \in S /\ \A j \in S \ {Latest(rows, S)} : Earlier(rows, j, Latest(rows, S))
  <1> DEFINE HasLast(T) == \E k \in T : \A j \in T \ {k} : Earlier(rows, j, k)
             Bad == {T \in SUBSET S : T # {} /\ ~HasLast(T)}
  <1>1. SUFFICES ASSUME Bad # {} PROVE FALSE
    <2>1. HasLast(S)
      BY <1>1
    <2>2. QED
      BY <2>1 DEF Latest
  <1>2. PICK T \in Bad : \A U \in SUBSET T : U # T => U \notin Bad
    <2>1. Bad \subseteq SUBSET S /\ IsFiniteSet(S)
      BY FS_Subset DEF RowsSound
    <2> HIDE DEF Bad
    <2>2. QED
      BY <1>1, <2>1, SmallestSubset, Zenon
  <1>3. PICK x \in T : TRUE
    BY <1>2
  <1>4. CASE T \ {x} = {}
    BY <1>2, <1>3, <1>4
  <1>5. CASE T \ {x} # {}
    <2>1. HasLast(T \ {x})
      <3>1. T \ {x} \in SUBSET T /\ T \ {x} # T /\ T \ {x} \in SUBSET S
        BY <1>2, <1>3
      <3>2. T \ {x} \notin Bad
        BY <1>2, <3>1
      <3> HIDE DEF HasLast
      <3>3. QED
        BY <1>5, <3>1, <3>2
    <2>2. PICK m \in T \ {x} : \A j \in (T \ {x}) \ {m} : Earlier(rows, j, m)
      BY <2>1
    <2>3. \A j \in T : j \in DOMAIN rows
      BY <1>2
    <2>4. CASE Earlier(rows, x, m)
      <3>1. \A j \in T \ {m} : Earlier(rows, j, m)
        BY <2>2, <2>4
      <3>2. HasLast(T)
        BY <2>2, <3>1
      <3>3. QED
        BY <1>2, <3>2
    <2>5. CASE ~Earlier(rows, x, m)
      <3>1. Earlier(rows, m, x)
        BY <1>3, <2>2, <2>3, <2>5, EarlierOrders
      <3>2. \A j \in T \ {x} : Earlier(rows, j, x)
        BY <1>3, <2>2, <2>3, <3>1, EarlierOrders
      <3>3. HasLast(T)
        BY <1>3, <3>2
      <3>4. QED
        BY <1>2, <3>3
    <2>6. QED
      BY <2>4, <2>5
  <1>6. QED
    BY <1>4, <1>5

\* After each set of movements applied in their order.
After(g, method, rows, S) ==
  IF S = {} THEN Start(rows)
  ELSE Applied(method, rows, g[S \ {Latest(rows, S)}], Latest(rows, S))

Replays(g, method, rows, n) ==
  \A S \in SUBSET DOMAIN rows : Cardinality(S) <= n => g[S] = After(g, method, rows, S)

LEMMA ReplaysExists ==
  ASSUME NEW method, NEW rows, RowsSound(rows), NEW n \in Nat
  PROVE  \E g : Replays(g, method, rows, n)
  <1> DEFINE D == DOMAIN rows
             Bad == {k \in Nat : ~\E g : Replays(g, method, rows, k)}
  <1>1. SUFFICES ASSUME Bad # {} PROVE FALSE
    OBVIOUS
  <1>2. PICK k \in Bad : \A m \in Bad : k <= m
    <2> HIDE DEF Bad
    <2>1. Bad \subseteq Nat
      BY DEF Bad
    <2>2. QED
      BY <1>1, <2>1, SmallestNumber, Zenon
  <1>3. k \in Nat /\ ~\E g : Replays(g, method, rows, k)
    BY <1>2
  <1>4. \A S \in SUBSET D : IsFiniteSet(S) /\ Cardinality(S) \in Nat
    BY FS_Subset, FS_CardinalityType DEF RowsSound
  <1>5. \A S \in SUBSET D : S # {} =>
           /\ S \ {Latest(rows, S)} \in SUBSET D
           /\ Cardinality(S \ {Latest(rows, S)}) = Cardinality(S) - 1
    BY <1>4, LatestIs, FS_RemoveElement
  <1>6. \A S \in SUBSET D : Cardinality(S) = 0 <=> S = {}
    BY <1>4, FS_EmptySet
  <1>7. CASE k = 0
    <2> DEFINE g == [S \in SUBSET D |-> Start(rows)]
    <2>1. \A S \in SUBSET D : Cardinality(S) <= 0 => S = {} /\ g[S] = Start(rows)
      BY <1>4, <1>6
    <2> HIDE DEF g
    <2>2. Replays(g, method, rows, 0)
      BY <2>1 DEF Replays, After
    <2>3. QED
      BY <1>3, <1>7, <2>2
  <1>8. CASE k # 0
    <2>1. k - 1 \in Nat /\ k - 1 \notin Bad
      BY <1>2, <1>3, <1>8
    <2>2. PICK g : Replays(g, method, rows, k - 1)
      BY <2>1
    <2> DEFINE h == [S \in SUBSET D |-> After(g, method, rows, S)]
    <2>3. ASSUME NEW S \in SUBSET D, Cardinality(S) <= k PROVE h[S] = After(h, method, rows, S)
      <3>1. h[S] = After(g, method, rows, S)
        OBVIOUS
      <3>2. CASE S = {}
        BY <3>1, <3>2 DEF After
      <3>3. CASE S # {}
        <4>1. PICK T : T = S \ {Latest(rows, S)}
          OBVIOUS
        <4>2. T \in SUBSET D /\ Cardinality(T) <= k - 1
          BY <1>3, <1>4, <1>5, <2>3, <3>3, <4>1
        <4>3. g[T] = After(g, method, rows, T) /\ h[T] = After(g, method, rows, T)
          BY <2>2, <4>2 DEF Replays
        <4> HIDE DEF h
        <4>4. QED
          BY <3>1, <3>3, <4>1, <4>3 DEF After
      <3>4. QED
        BY <3>2, <3>3
    <2> HIDE DEF h
    <2>4. Replays(h, method, rows, k)
      BY <2>3 DEF Replays
    <2>5. QED
      BY <1>3, <2>4
  <1>9. QED
    BY <1>7, <1>8

Replaying(g, method, rows) == g = [S \in SUBSET DOMAIN rows |-> After(g, method, rows, S)]

LEMMA ReplayIs ==
  ASSUME NEW method, NEW rows, RowsSound(rows)
  PROVE  \E g : Replaying(g, method, rows) /\ Replay(method, rows) = g[DOMAIN rows]
  <1>1. Replay(method, rows) = (CHOOSE g : Replaying(g, method, rows))[DOMAIN rows]
    BY DEF Replay, Replaying, After
  <1>2. \E g : Replaying(g, method, rows)
    <2>1. IsFiniteSet(DOMAIN rows) /\ Cardinality(DOMAIN rows) \in Nat
      BY FS_CardinalityType DEF RowsSound
    <2>2. \A S \in SUBSET DOMAIN rows : Cardinality(S) <= Cardinality(DOMAIN rows)
      BY <2>1, FS_Subset
    <2>3. PICK g : Replays(g, method, rows, Cardinality(DOMAIN rows))
      BY <2>1, ReplaysExists
    <2> DEFINE h == [S \in SUBSET DOMAIN rows |-> g[S]]
    <2>4. \A S \in SUBSET DOMAIN rows : h[S] = g[S] /\ g[S] = After(g, method, rows, S)
      BY <2>2, <2>3 DEF Replays
    <2>5. ASSUME NEW S \in SUBSET DOMAIN rows PROVE h[S] = After(h, method, rows, S)
      <3>1. CASE S = {}
        BY <2>4, <3>1 DEF After
      <3>2. CASE S # {}
        <4>1. PICK T : T = S \ {Latest(rows, S)} /\ T \in SUBSET DOMAIN rows
          OBVIOUS
        <4>2. h[T] = g[T] /\ h[S] = g[S] /\ g[S] = After(g, method, rows, S)
          BY <2>4, <4>1
        <4> HIDE DEF h
        <4>3. QED
          BY <3>2, <4>1, <4>2 DEF After
      <3>3. QED
        BY <3>1, <3>2
    <2>6. h = [S \in SUBSET DOMAIN rows |-> h[S]]
      OBVIOUS
    <2> HIDE DEF h
    <2>7. h = [S \in SUBSET DOMAIN rows |-> After(h, method, rows, S)]
      BY <2>5, <2>6
    <2>8. QED
      BY <2>7 DEF Replaying
  <1>3. QED
    BY <1>1, <1>2

(* Nothing applied yet. *)
LEMMA StartGood ==
  ASSUME NEW method, NEW rows, RowsSound(rows)
  PROVE  Good(method, rows, {}, Start(rows)) /\ Start(rows).sound
  <1>1. PICK s : s = Start(rows)
    OBVIOUS
  <1>2. IsFiniteSet(DOMAIN rows) /\ \A n \in DOMAIN rows : RowSound(rows, n) /\ rows[n].quantity \in Int
    BY DEF RowsSound, RowSound
  <1>3. /\ s.sound /\ Standing(rows, s)
        /\ \A l \in Locations : s.pools[l] = EmptyPool
        /\ \A n \in DOMAIN rows : s.costs[n] = 0 /\ s.returned[n] = NoAmount
    BY <1>1 DEF Start, Standing, Amount, NoAmount
  <1>4. \A T : SumIn(MovedBy(rows, {}), T) = 0 /\ SumIn(s.costs, T) = 0
    <2>1. MovedBy(rows, {}) \in [DOMAIN rows -> Int] /\ s.costs \in [DOMAIN rows -> Int]
      BY <1>3 DEF MovedBy, Standing
    <2>2. \A n \in DOMAIN rows : MovedBy(rows, {})[n] = 0 /\ s.costs[n] = 0
      BY <1>3 DEF MovedBy
    <2>3. QED
      BY <1>2, <2>1, <2>2, SumOfNothing
  <1>5. \A l \in Locations : PoolSound(method, s.pools[l]) /\ s.pools[l].quantity = 0 /\ s.pools[l].value = 0
    BY <1>3, EmptyPoolSound DEF EmptyPool
  <1>6. ASSUME NEW j \in DOMAIN rows, rows[j].quantity < 0 PROVE IssueSound(rows, {}, s, j)
    <2>1. PICK b \in Nat \ {0} : b = -rows[j].quantity
      BY <1>2, <1>6
    <2>2. PICK z \in Nat : z = 0 /\ -s.costs[j] = z
      <3>1. s.costs[j] = 0
        BY <1>3
      <3>2. QED
        BY <3>1
    <2>3. Share(z, 0, b) = 0
      BY <2>1, <2>2, SharesOfACost
    <2>4. s.costs[j] <= 0 /\ 0 <= b /\ s.returned[j].quantity = 0 /\ s.returned[j].value = 0
      BY <1>3, <2>1 DEF NoAmount
    <2>5. QED
      BY <1>4, <2>1, <2>2, <2>3, <2>4 DEF IssueSound
  <1>7. Accounted(method, rows, {}, s)
    BY <1>3, <1>4, <1>5, <1>6 DEF Accounted
  <1>8. Receipts(rows, {}, s)
    <2>1. ASSUME NEW r \in DOMAIN rows
          PROVE  /\ InAll(s.pools, r, "quantity") = 0 /\ InAll(s.pools, r, "value") = 0
                 /\ Remaining(MovedBy(rows, {}), rows, r) = 0 /\ Remaining(s.costs, rows, r) = 0
      <3>1. \A l \in Locations : \A measure : Holding(s.pools[l].layers, {r}, measure) = 0
        BY <1>3, NothingHeld DEF EmptyPool
      <3>2. \A measure : InAll(s.pools, r, measure) = 0
        <4>1. ASSUME NEW measure PROVE InAll(s.pools, r, measure) = 0
          <5> DEFINE f == [l \in Locations |-> Holding(s.pools[l].layers, {r}, measure)]
          <5>1. f \in [Locations -> Int] /\ \A l \in Locations : f[l] = 0
            BY <3>1
          <5>2. Total(f) = 0
            BY <5>1, LocationsAssumption, TotalZero
          <5>3. QED
            BY <5>2 DEF InAll
        <4>2. QED
          BY <4>1
      <3>3. MovedBy(rows, {})[r] = 0 /\ s.costs[r] = 0
        BY <1>3 DEF MovedBy
      <3>4. QED
        BY <1>4, <3>2, <3>3 DEF Remaining
    <2>2. QED
      BY <2>1 DEF Receipts
  <1>9. QED
    BY <1>1, <1>3, <1>7, <1>8 DEF Good

LEMMA InitialLess ==
  ASSUME NEW rows, RowsSound(rows), NEW S, Initial(rows, S), S # {}, NEW k, k = Latest(rows, S)
  PROVE  /\ k \in S /\ k \in DOMAIN rows /\ \A j \in S \ {k} : Earlier(rows, j, k)
         /\ Initial(rows, S \ {k})
  <1>1. S \subseteq DOMAIN rows
    BY DEF Initial
  <1>2. k \in S /\ \A j \in S \ {k} : Earlier(rows, j, k)
    BY <1>1, LatestIs
  <1>3. ASSUME NEW n \in S \ {k}, NEW j \in DOMAIN rows, Earlier(rows, j, n) PROVE j \in S \ {k}
    <2>1. j \in S
      BY <1>3 DEF Initial
    <2>2. j # k
      <3>1. Earlier(rows, n, k) /\ n \in DOMAIN rows /\ k \in DOMAIN rows
        BY <1>1, <1>2
      <3>2. QED
        BY <1>3, <3>1, EarlierOrders
    <2>3. QED
      BY <2>1, <2>2
  <1>4. QED
    BY <1>1, <1>2, <1>3 DEF Initial

(* As long as nothing is refused, every movement applied so far is accounted   *)
(* for.                                                                         *)
LEMMA AfterGood ==
  ASSUME NEW method, NEW rows, RowsSound(rows), NEW g, Replaying(g, method, rows),
         NEW S, Initial(rows, S), g[S].sound
  PROVE  Good(method, rows, Done(rows, S), g[S])
  <1> DEFINE Bad == {T \in SUBSET DOMAIN rows :
                       Initial(rows, T) /\ g[T].sound /\ ~Good(method, rows, Done(rows, T), g[T])}
  <1>1. SUFFICES ASSUME Bad # {} PROVE FALSE
    BY DEF Initial
  <1>2. PICK T \in Bad : \A U \in SUBSET T : U # T => U \notin Bad
    <2>1. Bad \subseteq SUBSET DOMAIN rows /\ IsFiniteSet(DOMAIN rows)
      BY DEF RowsSound
    <2> HIDE DEF Bad
    <2>2. QED
      BY <1>1, <2>1, SmallestSubset, Zenon
  <1>3. /\ T \in SUBSET DOMAIN rows /\ Initial(rows, T) /\ g[T].sound
        /\ ~Good(method, rows, Done(rows, T), g[T])
    BY <1>2
  <1>4. g[T] = After(g, method, rows, T)
    BY <1>3 DEF Replaying
  <1>5. CASE T = {}
    <2>1. g[T] = Start(rows) /\ Done(rows, T) = {}
      BY <1>4, <1>5 DEF After, Done
    <2>2. QED
      BY <1>3, <2>1, StartGood
  <1>6. CASE T # {}
    <2>1. PICK k, U : k = Latest(rows, T) /\ U = T \ {k}
      OBVIOUS
    <2>2. /\ k \in T /\ \A j \in T \ {k} : Earlier(rows, j, k)
          /\ Initial(rows, U)
      BY <1>3, <1>6, <2>1, InitialLess
    <2>3. g[T] = Applied(method, rows, g[U], k)
      BY <1>4, <1>6, <2>1 DEF After
    <2>4. U \in SUBSET T /\ U # T /\ U \in SUBSET DOMAIN rows
      BY <1>3, <2>1, <2>2
    <2>5. g[U].sound => Good(method, rows, Done(rows, U), g[U])
      BY <1>2, <2>2, <2>4
    <2>6. PICK s, t : s = g[U] /\ t = g[T]
      OBVIOUS
    <2>7. /\ s.sound => Good(method, rows, Done(rows, T \ {k}), s)
          /\ t = Applied(method, rows, s, k) /\ t.sound
      BY <1>3, <2>1, <2>3, <2>5, <2>6
    <2>8. Good(method, rows, Done(rows, T), t)
      BY ONLY RowsSound(rows), <1>3, <2>2, <2>7, AppliedGood
    <2>9. QED
      BY <1>3, <2>6, <2>8
  <1>7. QED
    BY <1>5, <1>6

LEMMA AllInitial ==
  ASSUME NEW rows
  PROVE  Initial(rows, DOMAIN rows) /\ Done(rows, DOMAIN rows) = DOMAIN rows
  BY DEF Initial, Done

LEMMA ReplayGood ==
  ASSUME NEW method, NEW rows, RowsSound(rows), Replay(method, rows).sound
  PROVE  Good(method, rows, DOMAIN rows, Replay(method, rows))
  <1>1. PICK g : Replaying(g, method, rows) /\ Replay(method, rows) = g[DOMAIN rows]
    BY ReplayIs
  <1>2. Initial(rows, DOMAIN rows) /\ Done(rows, DOMAIN rows) = DOMAIN rows
    BY AllInitial
  <1>3. Good(method, rows, Done(rows, DOMAIN rows), g[DOMAIN rows])
    <2>1. g[DOMAIN rows].sound
      BY <1>1
    <2>2. QED
      BY ONLY RowsSound(rows), <1>1, <1>2, <2>1, AfterGood
  <1>4. QED
    BY <1>1, <1>2, <1>3

(* A replay that is not refused was not refused before.                        *)
LEMMA SoundBefore ==
  ASSUME NEW method, NEW rows, RowsSound(rows), NEW g, Replaying(g, method, rows),
         g[DOMAIN rows].sound, NEW A, Initial(rows, A)
  PROVE  g[A].sound
  <1> DEFINE Bad == {T \in SUBSET DOMAIN rows : A \subseteq T /\ Initial(rows, T) /\ g[T].sound}
  <1>1. DOMAIN rows \in Bad
    BY AllInitial DEF Initial
  <1>2. PICK T \in Bad : \A U \in SUBSET T : U # T => U \notin Bad
    <2>1. Bad \subseteq SUBSET DOMAIN rows /\ IsFiniteSet(DOMAIN rows) /\ Bad # {}
      BY <1>1 DEF RowsSound
    <2> HIDE DEF Bad
    <2>2. QED
      BY <2>1, SmallestSubset, Zenon
  <1>3. T \in SUBSET DOMAIN rows /\ A \subseteq T /\ Initial(rows, T) /\ g[T].sound
    BY <1>2
  <1>4. ASSUME T # A PROVE FALSE
    <2>1. PICK k, U : k = Latest(rows, T) /\ U = T \ {k} /\ T # {}
      BY <1>3, <1>4
    <2>2. /\ k \in T /\ k \in DOMAIN rows /\ \A j \in T \ {k} : Earlier(rows, j, k)
          /\ Initial(rows, U)
      BY <1>3, <2>1, InitialLess
    <2>3. k \notin A
      <3>1. ASSUME k \in A PROVE T \subseteq A
        BY <1>3, <2>2, <3>1 DEF Initial
      <3>2. QED
        BY <1>3, <1>4, <3>1
    <2>4. g[T] = Applied(method, rows, g[U], k)
      BY <1>3, <2>1 DEF Replaying, After
    <2>5. g[U].sound
      <3>1. ~g[U].sound => g[T] = g[U]
        BY <2>4 DEF Applied
      <3>2. QED
        BY <1>3, <3>1
    <2>6. U \in Bad /\ U \in SUBSET T /\ U # T
      BY <1>3, <2>1, <2>2, <2>3, <2>5
    <2>7. QED
      BY <1>2, <2>6
  <1>5. QED
    BY <1>3, <1>4

------------------------------------------------------------------------------
(* A replay up to a day is how far the replay of everything has got on it.    *)

Shaped(rows, s) ==
  /\ s = Stands(s.sound, s.pools, s.costs, s.returned)
  /\ s.costs = [k \in DOMAIN rows |-> s.costs[k]]
  /\ s.returned = [k \in DOMAIN rows |-> s.returned[k]]

Of(f, A) == [k \in A |-> f[k]]

Cut(s, A) == Stands(s.sound, s.pools, Of(s.costs, A), Of(s.returned, A))

LEMMA CutIs ==
  ASSUME NEW rows, NEW s, NEW A
  PROVE  /\ Cut(s, A) = Stands(Cut(s, A).sound, Cut(s, A).pools, Cut(s, A).costs, Cut(s, A).returned)
         /\ Cut(s, A).sound = s.sound /\ Cut(s, A).pools = s.pools
         /\ Cut(s, A).costs = Of(s.costs, A) /\ Cut(s, A).returned = Of(s.returned, A)
         /\ \A k \in A : Cut(s, A).costs[k] = s.costs[k] /\ Cut(s, A).returned[k] = s.returned[k]
  <1>1. PICK a, b, c, d : a = s.sound /\ b = s.pools /\ c = Of(s.costs, A) /\ d = Of(s.returned, A)
    OBVIOUS
  <1>2. PICK t : t = Cut(s, A) /\ t = Stands(a, b, c, d)
    BY <1>1 DEF Cut
  <1>3. /\ t.sound = a /\ t.pools = b /\ t.costs = c /\ t.returned = d
        /\ t = Stands(t.sound, t.pools, t.costs, t.returned)
    BY ONLY <1>2, StandsThere
  <1>4. \A k \in A : c[k] = s.costs[k] /\ d[k] = s.returned[k]
    BY <1>1 DEF Of
  <1>5. QED
    BY <1>1, <1>2, <1>3, <1>4

LEMMA PoolAndCostIs ==
  ASSUME NEW s, s = Stands(s.sound, s.pools, s.costs, s.returned), NEW l, NEW pool, NEW k, NEW c
  PROVE  PoolAndCost(s, l, pool, k, c) =
           Stands(s.sound, [s.pools EXCEPT ![l] = pool], [s.costs EXCEPT ![k] = c], s.returned)
  <1> DEFINE o == [s EXCEPT !.pools = [s.pools EXCEPT ![l] = pool]]
             t == [o EXCEPT !.costs = [o.costs EXCEPT ![k] = c]]
  <1>1. o = Stands(s.sound, [s.pools EXCEPT ![l] = pool], s.costs, s.returned)
    BY DEF Stands
  <1> HIDE DEF o
  <1>2. t = Stands(s.sound, [s.pools EXCEPT ![l] = pool], [s.costs EXCEPT ![k] = c], s.returned)
    BY <1>1 DEF Stands
  <1>3. QED
    BY <1>2 DEF o, PoolAndCost

\* The same from some of it as from all of it.
SameCut(rows, A, t, u) == Shaped(rows, t) /\ u = Cut(t, A)

LEMMA OfChanged ==
  ASSUME NEW D, NEW f, f = [n \in D |-> f[n]], NEW A, A \subseteq D, NEW k \in A, NEW v
  PROVE  Of([f EXCEPT ![k] = v], A) = [Of(f, A) EXCEPT ![k] = v]
         /\ [f EXCEPT ![k] = v] = [n \in D |-> [f EXCEPT ![k] = v][n]]
  <1>1. PICK e : e = [f EXCEPT ![k] = v]
    OBVIOUS
  <1>2. e = [n \in D |-> e[n]] /\ e[k] = v /\ \A n \in D : n # k => e[n] = f[n]
    BY <1>1
  <1>3. PICK h : h = Of(f, A)
    OBVIOUS
  <1>4. h = [n \in A |-> f[n]]
    BY <1>3 DEF Of
  <1>5. [h EXCEPT ![k] = v] = [n \in A |-> e[n]]
    BY <1>2, <1>4
  <1>6. QED
    BY <1>1, <1>2, <1>3, <1>5 DEF Of

LEMMA CutPoolAndCost ==
  ASSUME NEW rows, NEW s, Shaped(rows, s), NEW A, A \subseteq DOMAIN rows,
         NEW l, NEW pool, NEW k \in A, NEW c,
         NEW t, t = PoolAndCost(s, l, pool, k, c), NEW u, u = PoolAndCost(Cut(s, A), l, pool, k, c)
  PROVE  SameCut(rows, A, t, u)
  <1>1. PICK b, p, f, d : /\ b = s.sound /\ p = [s.pools EXCEPT ![l] = pool]
                          /\ f = [s.costs EXCEPT ![k] = c] /\ d = s.returned
    OBVIOUS
  <1>2. t = Stands(b, p, f, d)
    <2>1. s = Stands(s.sound, s.pools, s.costs, s.returned)
      BY DEF Shaped
    <2>2. PoolAndCost(s, l, pool, k, c) =
            Stands(s.sound, [s.pools EXCEPT ![l] = pool], [s.costs EXCEPT ![k] = c], s.returned)
      BY ONLY <2>1, PoolAndCostIs
    <2>3. QED
      BY <1>1, <2>2
  <1>3. /\ t.sound = b /\ t.pools = p /\ t.costs = f /\ t.returned = d
        /\ t = Stands(t.sound, t.pools, t.costs, t.returned)
    BY ONLY <1>2, StandsThere
  <1>4. PICK w, h, e : w = Cut(s, A) /\ h = Of(s.costs, A) /\ e = Of(s.returned, A)
    OBVIOUS
  <1>5. /\ w = Stands(w.sound, w.pools, w.costs, w.returned)
        /\ w.sound = b /\ w.pools = s.pools /\ w.costs = h /\ w.returned = e
    BY <1>1, <1>4, CutIs
  <1>6. PoolAndCost(w, l, pool, k, c) =
          Stands(w.sound, [w.pools EXCEPT ![l] = pool], [w.costs EXCEPT ![k] = c], w.returned)
    BY ONLY <1>5, PoolAndCostIs
  <1>7. u = Stands(b, p, [h EXCEPT ![k] = c], e)
    BY <1>1, <1>4, <1>5, <1>6
  <1>8. /\ Of(f, A) = [h EXCEPT ![k] = c]
        /\ f = [n \in DOMAIN rows |-> f[n]]
    <2>1. s.costs = [n \in DOMAIN rows |-> s.costs[n]]
      BY DEF Shaped
    <2>2. /\ Of([s.costs EXCEPT ![k] = c], A) = [Of(s.costs, A) EXCEPT ![k] = c]
          /\ [s.costs EXCEPT ![k] = c] = [n \in DOMAIN rows |-> [s.costs EXCEPT ![k] = c][n]]
      BY <2>1, OfChanged
    <2>3. QED
      BY <1>1, <1>4, <2>2
  <1>9. u = Cut(t, A)
    BY <1>1, <1>3, <1>4, <1>7, <1>8 DEF Cut
  <1>10. Shaped(rows, t)
    BY <1>1, <1>3, <1>8 DEF Shaped
  <1>11. QED
    BY <1>9, <1>10 DEF SameCut

BackAs(s, j, w) == [s EXCEPT !.returned[j] = w]

LEMMA BackAsIs ==
  ASSUME NEW s, s = Stands(s.sound, s.pools, s.costs, s.returned), NEW j, NEW w
  PROVE  BackAs(s, j, w) = Stands(s.sound, s.pools, s.costs, [s.returned EXCEPT ![j] = w])
  BY DEF Stands, BackAs

LEMMA CutBackAs ==
  ASSUME NEW rows, NEW s, Shaped(rows, s), NEW A, A \subseteq DOMAIN rows, NEW j \in A, NEW w,
         NEW t, t = BackAs(s, j, w), NEW u, u = BackAs(Cut(s, A), j, w)
  PROVE  SameCut(rows, A, t, u)
  <1>1. PICK b, p, f, d : /\ b = s.sound /\ p = s.pools
                          /\ f = s.costs /\ d = [s.returned EXCEPT ![j] = w]
    OBVIOUS
  <1>2. t = Stands(b, p, f, d)
    <2>1. s = Stands(s.sound, s.pools, s.costs, s.returned)
      BY DEF Shaped
    <2>2. BackAs(s, j, w) = Stands(s.sound, s.pools, s.costs, [s.returned EXCEPT ![j] = w])
      BY ONLY <2>1, BackAsIs
    <2>3. QED
      BY <1>1, <2>2
  <1>3. /\ t.sound = b /\ t.pools = p /\ t.costs = f /\ t.returned = d
        /\ t = Stands(t.sound, t.pools, t.costs, t.returned)
    BY ONLY <1>2, StandsThere
  <1>4. PICK x, h, e : x = Cut(s, A) /\ h = Of(s.costs, A) /\ e = Of(s.returned, A)
    OBVIOUS
  <1>5. /\ x = Stands(x.sound, x.pools, x.costs, x.returned)
        /\ x.sound = b /\ x.pools = p /\ x.costs = h /\ x.returned = e
    BY <1>1, <1>4, CutIs
  <1>6. BackAs(x, j, w) = Stands(x.sound, x.pools, x.costs, [x.returned EXCEPT ![j] = w])
    BY ONLY <1>5, BackAsIs
  <1>7. u = Stands(b, p, h, [e EXCEPT ![j] = w])
    BY <1>4, <1>5, <1>6
  <1>8. /\ Of(d, A) = [e EXCEPT ![j] = w]
        /\ d = [n \in DOMAIN rows |-> d[n]]
    <2>1. s.returned = [n \in DOMAIN rows |-> s.returned[n]]
      BY DEF Shaped
    <2>2. /\ Of([s.returned EXCEPT ![j] = w], A) = [Of(s.returned, A) EXCEPT ![j] = w]
          /\ [s.returned EXCEPT ![j] = w] = [n \in DOMAIN rows |-> [s.returned EXCEPT ![j] = w][n]]
      BY <2>1, OfChanged
    <2>3. QED
      BY <1>1, <1>4, <2>2
  <1>9. u = Cut(t, A)
    BY <1>1, <1>3, <1>4, <1>7, <1>8 DEF Cut
  <1>10. Shaped(rows, t)
    BY <1>1, <1>3, <1>8 DEF Shaped
  <1>11. QED
    BY <1>9, <1>10 DEF SameCut

LEMMA RefusedIs ==
  ASSUME NEW s, s = Stands(s.sound, s.pools, s.costs, s.returned), NEW f, f = FALSE
  PROVE  Refused(s) = Stands(f, s.pools, s.costs, s.returned)
  <1>1. [s EXCEPT !.sound = f] = Stands(f, s.pools, s.costs, s.returned)
    BY ONLY s = Stands(s.sound, s.pools, s.costs, s.returned) DEF Stands
  <1>2. QED
    BY <1>1, Zenon DEF Refused

LEMMA CutRefused ==
  ASSUME NEW rows, NEW s, Shaped(rows, s), NEW A,
         NEW t, t = Refused(s), NEW u, u = Refused(Cut(s, A))
  PROVE  SameCut(rows, A, t, u)
  <1>1. PICK b, p, f, d : b = FALSE /\ p = s.pools /\ f = s.costs /\ d = s.returned
    OBVIOUS
  <1>2. t = Stands(b, p, f, d)
    <2>1. s = Stands(s.sound, s.pools, s.costs, s.returned)
      BY DEF Shaped
    <2>2. Refused(s) = Stands(b, s.pools, s.costs, s.returned)
      BY <1>1, <2>1, RefusedIs
    <2>3. QED
      BY <1>1, <2>2
  <1>3. /\ t.sound = b /\ t.pools = p /\ t.costs = f /\ t.returned = d
        /\ t = Stands(t.sound, t.pools, t.costs, t.returned)
    BY ONLY <1>2, StandsThere
  <1>4. PICK x, h, e : x = Cut(s, A) /\ h = Of(s.costs, A) /\ e = Of(s.returned, A)
    OBVIOUS
  <1>5. /\ x = Stands(x.sound, x.pools, x.costs, x.returned)
        /\ x.pools = p /\ x.costs = h /\ x.returned = e
    BY <1>1, <1>4, CutIs
  <1>6. Refused(x) = Stands(b, x.pools, x.costs, x.returned)
    BY <1>1, <1>5, RefusedIs
  <1>7. u = Cut(t, A)
    BY <1>1, <1>3, <1>4, <1>5, <1>6 DEF Cut
  <1>8. Shaped(rows, t)
    BY <1>1, <1>3 DEF Shaped
  <1>9. QED
    BY <1>7, <1>8 DEF SameCut

LEMMA PutInIs ==
  ASSUME NEW method, NEW s, NEW l, NEW k, NEW q, NEW v
  PROVE  PutIn(s, method, l, k, q, v) =
           PoolAndCost(s, l, Put(method, s.pools[l], << [receipt |-> k, quantity |-> q, value |-> v] >>), k, v)
  BY DEF PutIn, PoolAndCost

LEMMA CutPutIn ==
  ASSUME NEW method, NEW rows, NEW s, Shaped(rows, s), NEW A, A \subseteq DOMAIN rows,
         NEW l, NEW k \in A, NEW q, NEW v,
         NEW t, t = PutIn(s, method, l, k, q, v), NEW u, u = PutIn(Cut(s, A), method, l, k, q, v)
  PROVE  SameCut(rows, A, t, u)
  <1>1. PICK p : p = Put(method, s.pools[l], << [receipt |-> k, quantity |-> q, value |-> v] >>)
    OBVIOUS
  <1>2. Cut(s, A).pools = s.pools
    BY CutIs
  <1>3. t = PoolAndCost(s, l, p, k, v)
    BY <1>1, PutInIs
  <1>4. u = PoolAndCost(Cut(s, A), l, p, k, v)
    <2>1. PICK x : x = Cut(s, A)
      OBVIOUS
    <2>2. PutIn(x, method, l, k, q, v) =
            PoolAndCost(x, l, Put(method, x.pools[l], << [receipt |-> k, quantity |-> q, value |-> v] >>), k, v)
      BY ONLY PutInIs
    <2>3. QED
      BY <1>1, <1>2, <2>1, <2>2
  <1>5. QED
    BY ONLY Shaped(rows, s), A \subseteq DOMAIN rows, k \in A, <1>3, <1>4, CutPoolAndCost

\* What comes back of an issue, told what went out, what has come back and
\* what it cost.
LeftAt(method, m, s, k, issued, before, cost) ==
  LET total == before.quantity + m.quantity
      value == Share(-cost, total, issued) - before.value
  IN  IF total > issued THEN Refused(s)
      ELSE BackAs(PutIn(s, method, m.location, k, m.quantity, value), m.related,
                  [quantity |-> total, value |-> before.value + value])

LEMMA CutLeftAt ==
  ASSUME NEW method, NEW rows, NEW s, Shaped(rows, s), NEW A, A \subseteq DOMAIN rows,
         NEW k \in A, NEW m, m.related \in A, NEW issued, NEW before, NEW cost,
         NEW t, t = LeftAt(method, m, s, k, issued, before, cost),
         NEW u, u = LeftAt(method, m, Cut(s, A), k, issued, before, cost)
  PROVE  SameCut(rows, A, t, u)
  <1> DEFINE total == before.quantity + m.quantity
             value == Share(-cost, total, issued) - before.value
  <1>1. CASE total > issued
    <2>1. t = Refused(s) /\ u = Refused(Cut(s, A))
      BY <1>1 DEF LeftAt
    <2>2. QED
      BY <2>1, CutRefused
  <1>2. CASE ~(total > issued)
    <2>1. PICK v, w, l, q, j : /\ v = value /\ w = [quantity |-> total, value |-> before.value + value]
                               /\ l = m.location /\ q = m.quantity /\ j = m.related
      OBVIOUS
    <2>2. PICK x, y : x = PutIn(s, method, l, k, q, v) /\ y = PutIn(Cut(s, A), method, l, k, q, v)
      OBVIOUS
    <2>3. t = BackAs(x, j, w) /\ u = BackAs(y, j, w)
      BY <1>2, <2>1, <2>2 DEF LeftAt
    <2>4. Shaped(rows, x) /\ y = Cut(x, A)
      BY <2>2, CutPutIn DEF SameCut
    <2>5. j \in A /\ u = BackAs(Cut(x, A), j, w)
      BY <2>1, <2>3, <2>4
    <2>6. QED
      BY ONLY A \subseteq DOMAIN rows, <2>3, <2>4, <2>5, CutBackAs
  <1>3. QED
    BY <1>1, <1>2

\* What goes back of a receipt, told what came in and what it cost.
CameInAt(method, m, s, k, quantity, cost) ==
  LET pool == s.pools[m.location]
      value == ValueBack(method, pool, m.related, quantity, cost, -m.quantity)
  IN  IF ~GoodsAreThere(method, pool, m.related, -m.quantity) \/ value > pool.value THEN Refused(s)
      ELSE PoolAndCost(s, m.location, WithoutReceipt(method, pool, m.related, value, -m.quantity), k, -value)

LEMMA CutCameInAt ==
  ASSUME NEW method, NEW rows, NEW s, Shaped(rows, s), NEW A, A \subseteq DOMAIN rows,
         NEW k \in A, NEW m, NEW quantity, NEW cost,
         NEW t, t = CameInAt(method, m, s, k, quantity, cost),
         NEW u, u = CameInAt(method, m, Cut(s, A), k, quantity, cost)
  PROVE  SameCut(rows, A, t, u)
  <1>1. PICK pool, value, p, c, l :
          /\ l = m.location /\ pool = s.pools[l]
          /\ value = ValueBack(method, pool, m.related, quantity, cost, -m.quantity)
          /\ p = WithoutReceipt(method, pool, m.related, value, -m.quantity) /\ c = -value
    OBVIOUS
  <1>2. PICK x : x = Cut(s, A) /\ x.pools = s.pools
    BY CutIs
  <1>3. CASE ~GoodsAreThere(method, pool, m.related, -m.quantity) \/ value > pool.value
    <2>1. t = Refused(s) /\ u = Refused(x)
      BY <1>1, <1>2, <1>3 DEF CameInAt
    <2>2. QED
      BY <1>2, <2>1, CutRefused
  <1>4. CASE ~(~GoodsAreThere(method, pool, m.related, -m.quantity) \/ value > pool.value)
    <2>1. t = PoolAndCost(s, l, p, k, c) /\ u = PoolAndCost(x, l, p, k, c)
      BY <1>1, <1>2, <1>4 DEF CameInAt
    <2>2. u = PoolAndCost(Cut(s, A), l, p, k, c)
      BY <1>2, <2>1
    <2>3. QED
      BY ONLY Shaped(rows, s), A \subseteq DOMAIN rows, k \in A, <2>1, <2>2, CutPoolAndCost
  <1>5. QED
    BY <1>3, <1>4

LEMMA CutTakenOut ==
  ASSUME NEW method, NEW rows, NEW s, Shaped(rows, s), NEW A, A \subseteq DOMAIN rows,
         NEW k \in A, NEW t, t = TakenOut(method, rows, s, k),
         NEW u, u = TakenOut(method, Of(rows, A), Cut(s, A), k)
  PROVE  SameCut(rows, A, t, u)
  <1>1. PICK l, q, p, c : /\ l = rows[k].location /\ q = -rows[k].quantity
                          /\ p = Without(method, s.pools[l], q)
                          /\ c = -ValueOf(Taken(method, s.pools[l], q))
    OBVIOUS
  <1>2. PICK x : x = Cut(s, A) /\ x.pools = s.pools
    BY CutIs
  <1>3. PICK r : r = Of(rows, A) /\ r[k] = rows[k]
    BY DEF Of
  <1>4. t = PoolAndCost(s, l, p, k, c) /\ u = PoolAndCost(x, l, p, k, c)
    BY <1>1, <1>2, <1>3 DEF TakenOut
  <1>5. u = PoolAndCost(Cut(s, A), l, p, k, c)
    BY <1>2, <1>4
  <1>6. QED
    BY ONLY Shaped(rows, s), A \subseteq DOMAIN rows, k \in A, <1>4, <1>5, CutPoolAndCost

LEMMA CutMethodsCost ==
  ASSUME NEW method, NEW rows, NEW s, Shaped(rows, s), NEW A, A \subseteq DOMAIN rows,
         NEW k \in A, rows[k].kind = "transfer_out" => rows[k].pair \in A,
         NEW t, t = AtTheMethodsCost(method, rows, s, k),
         NEW u, u = AtTheMethodsCost(method, Of(rows, A), Cut(s, A), k)
  PROVE  SameCut(rows, A, t, u)
  <1>1. PICK taken : taken = Taken(method, s.pools[rows[k].location], -rows[k].quantity)
    OBVIOUS
  <1>2. PICK x : x = Cut(s, A) /\ x.pools = s.pools
    BY CutIs
  <1>3. PICK r : r = Of(rows, A) /\ \A j \in A : r[j] = rows[j]
    BY DEF Of
  <1>4. PICK out, cut : out = TakenOut(method, rows, s, k) /\ cut = TakenOut(method, r, x, k)
    OBVIOUS
  <1>5. Shaped(rows, out) /\ cut = Cut(out, A)
    <2>1. cut = TakenOut(method, Of(rows, A), Cut(s, A), k)
      BY <1>2, <1>3, <1>4
    <2>2. SameCut(rows, A, out, cut)
      BY ONLY Shaped(rows, s), A \subseteq DOMAIN rows, k \in A, <1>4, <2>1, CutTakenOut
    <2>3. QED
      BY <2>2 DEF SameCut
  <1>6. taken = Taken(method, x.pools[r[k].location], -r[k].quantity) /\ r[k] = rows[k]
    BY <1>1, <1>2, <1>3
  <1>7. CASE rows[k].kind # "transfer_out"
    <2>1. t = out
      BY <1>1, <1>4, <1>7, AtTheMethodsCostIs
    <2>2. u = cut
      BY <1>2, <1>3, <1>4, <1>6, <1>7, AtTheMethodsCostIs
    <2>3. QED
      BY <1>5, <2>1, <2>2 DEF SameCut
  <1>8. CASE rows[k].kind = "transfer_out"
    <2>1. PICK arrived, v, j, to, p :
            /\ arrived = Arrived(method, rows, k, taken) /\ v = ValueOf(taken)
            /\ j = rows[k].pair /\ to = rows[j].location /\ p = Put(method, out.pools[to], arrived)
      OBVIOUS
    <2>2. arrived = Arrived(method, r, k, taken)
      BY <1>6, <2>1 DEF Arrived
    <2>3. j \in A /\ r[j] = rows[j] /\ r[k].pair = j
      BY <1>3, <1>6, <1>8, <2>1
    <2>4. t = BroughtIn(method, rows, out, k, arrived, v)
      BY <1>1, <1>4, <1>8, <2>1, AtTheMethodsCostIs
    <2>5. u = BroughtIn(method, r, cut, k, arrived, v)
      <3>1. AtTheMethodsCost(method, r, x, k) =
              IF r[k].kind # "transfer_out" THEN TakenOut(method, r, x, k)
              ELSE BroughtIn(method, r, TakenOut(method, r, x, k), k,
                             Arrived(method, r, k, taken), ValueOf(taken))
        BY <1>6, AtTheMethodsCostIs
      <3>2. QED
        BY <1>2, <1>3, <1>4, <1>6, <1>8, <2>1, <2>2, <3>1
    <2>6. cut.pools = out.pools
      BY <1>5, CutIs
    <2>7. t = PoolAndCost(out, to, p, j, v) /\ u = PoolAndCost(cut, to, p, j, v)
      BY <2>1, <2>3, <2>4, <2>5, <2>6 DEF BroughtIn
    <2>8. u = PoolAndCost(Cut(out, A), to, p, j, v)
      BY <1>5, <2>7
    <2>9. QED
      BY ONLY <1>5, A \subseteq DOMAIN rows, <2>3, <2>7, <2>8, CutPoolAndCost
  <1>9. QED
    BY <1>7, <1>8

LEMMA CutApplied ==
  ASSUME NEW method, NEW rows, NEW s, Shaped(rows, s), NEW A, A \subseteq DOMAIN rows,
         NEW k \in A, rows[k].kind = "transfer_out" => rows[k].pair \in A,
         rows[k].related # 0 => rows[k].related \in A,
         NEW t, t = Applied(method, rows, s, k),
         NEW u, u = Applied(method, Of(rows, A), Cut(s, A), k)
  PROVE  SameCut(rows, A, t, u)
  <1>1. PICK x, r : x = Cut(s, A) /\ r = Of(rows, A)
    OBVIOUS
  <1>2. x.pools = s.pools /\ x.sound = s.sound /\ \A j \in A : x.costs[j] = s.costs[j] /\ x.returned[j] = s.returned[j]
    BY <1>1, CutIs
  <1>3. \A j \in A : r[j] = rows[j]
    BY <1>1 DEF Of
  <1>4. PICK m, j : m = rows[k] /\ m = r[k] /\ j = m.related
    BY <1>3
  <1>5. CASE ~s.sound \/ m.kind = "transfer_in"
    <2>1. t = s /\ u = x
      BY <1>1, <1>2, <1>4, <1>5 DEF Applied
    <2>2. QED
      BY <1>1, <2>1 DEF SameCut
  <1>6. CASE s.sound /\ m.kind # "transfer_in" /\ m.quantity > 0 /\ j = 0
    <2>1. t = AtItsOwnCost(method, rows, s, k) /\ u = AtItsOwnCost(method, r, x, k)
      BY <1>1, <1>2, <1>4, <1>6 DEF Applied
    <2>2. PICK l, q, v : l = m.location /\ q = m.quantity /\ v = m.cost
      OBVIOUS
    <2>3. t = PutIn(s, method, l, k, q, v) /\ u = PutIn(x, method, l, k, q, v)
      BY <1>4, <2>1, <2>2 DEF AtItsOwnCost
    <2>4. u = PutIn(Cut(s, A), method, l, k, q, v)
      BY <1>1, <2>3
    <2>5. QED
      BY ONLY Shaped(rows, s), A \subseteq DOMAIN rows, k \in A, <2>3, <2>4, CutPutIn
  <1>7. CASE s.sound /\ m.kind # "transfer_in" /\ m.quantity > 0 /\ j # 0
    <2>1. t = AtTheCostItLeft(method, rows, s, k) /\ u = AtTheCostItLeft(method, r, x, k)
      BY <1>1, <1>2, <1>4, <1>7 DEF Applied
    <2>2. j \in A /\ rows[j] = r[j] /\ s.costs[j] = x.costs[j] /\ s.returned[j] = x.returned[j]
      BY <1>2, <1>3, <1>4, <1>7
    <2>3. PICK issued, before, cost :
            issued = -rows[j].quantity /\ before = s.returned[j] /\ cost = s.costs[j]
      OBVIOUS
    <2>4. t = LeftAt(method, m, s, k, issued, before, cost)
      BY <1>4, <2>1, <2>3 DEF AtTheCostItLeft, LeftAt, BackAs
    <2>5. u = LeftAt(method, m, x, k, issued, before, cost)
      <3>1. issued = -r[j].quantity /\ before = x.returned[j] /\ cost = x.costs[j]
        BY <2>2, <2>3
      <3>2. QED
        BY <1>4, <2>1, <3>1 DEF AtTheCostItLeft, LeftAt, BackAs
    <2>6. u = LeftAt(method, m, Cut(s, A), k, issued, before, cost) /\ m.related \in A
      BY <1>1, <1>4, <2>2, <2>5
    <2>7. QED
      BY ONLY Shaped(rows, s), A \subseteq DOMAIN rows, k \in A, <2>4, <2>6, CutLeftAt
  <1>8. CASE s.sound /\ m.kind # "transfer_in" /\ ~(m.quantity > 0) /\ -m.quantity > s.pools[m.location].quantity
    <2>1. t = Refused(s) /\ u = Refused(x)
      BY <1>1, <1>2, <1>4, <1>8 DEF Applied
    <2>2. QED
      BY <1>1, <2>1, CutRefused
  <1>9. CASE /\ s.sound /\ m.kind # "transfer_in" /\ ~(m.quantity > 0)
             /\ ~(-m.quantity > s.pools[m.location].quantity) /\ j # 0
    <2>1. t = AtTheCostItCameInAt(method, rows, s, k) /\ u = AtTheCostItCameInAt(method, r, x, k)
      BY <1>1, <1>2, <1>4, <1>9 DEF Applied
    <2>2. j \in A /\ rows[j] = r[j] /\ s.costs[j] = x.costs[j]
      BY <1>2, <1>3, <1>4, <1>9
    <2>3. PICK quantity, cost : quantity = rows[j].quantity /\ cost = s.costs[j]
      OBVIOUS
    <2>4. t = CameInAt(method, m, s, k, quantity, cost)
      BY <1>4, <2>1, <2>3 DEF AtTheCostItCameInAt, CameInAt, PoolAndCost
    <2>5. u = CameInAt(method, m, x, k, quantity, cost)
      <3>1. quantity = r[j].quantity /\ cost = x.costs[j]
        BY <2>2, <2>3
      <3>2. QED
        BY <1>4, <2>1, <3>1 DEF AtTheCostItCameInAt, CameInAt, PoolAndCost
    <2>6. u = CameInAt(method, m, Cut(s, A), k, quantity, cost)
      BY <1>1, <2>5
    <2>7. QED
      BY ONLY Shaped(rows, s), A \subseteq DOMAIN rows, k \in A, <2>4, <2>6, CutCameInAt
  <1>10. CASE /\ s.sound /\ m.kind # "transfer_in" /\ ~(m.quantity > 0)
              /\ ~(-m.quantity > s.pools[m.location].quantity) /\ j = 0
    <2>1. t = AtTheMethodsCost(method, rows, s, k) /\ u = AtTheMethodsCost(method, r, x, k)
      BY <1>1, <1>2, <1>4, <1>10 DEF Applied
    <2>2. u = AtTheMethodsCost(method, Of(rows, A), Cut(s, A), k)
      BY <1>1, <2>1
    <2>3. QED
      BY <2>1, <2>2, CutMethodsCost
  <1>11. QED
    BY <1>5, <1>6, <1>7, <1>8, <1>9, <1>10

Segment(rows, A) == Initial(rows, A) /\ \A k \in A : rows[k].kind = "transfer_out" => k + 1 \in A

LEMMA OfIs ==
  ASSUME NEW f, NEW A
  PROVE  DOMAIN Of(f, A) = A /\ \A k \in A : Of(f, A)[k] = f[k]
  BY DEF Of

LEMMA SegmentSound ==
  ASSUME NEW rows, RowsSound(rows), NEW A, Segment(rows, A)
  PROVE  RowsSound(Of(rows, A))
  <1>1. PICK r : r = Of(rows, A) /\ DOMAIN r = A /\ \A k \in A : r[k] = rows[k]
    BY OfIs
  <1>2. A \subseteq DOMAIN rows /\ IsFiniteSet(A) /\ A \subseteq Nat \ {0}
    BY FS_Subset DEF Segment, Initial, RowsSound
  <1>3. ASSUME NEW k \in A PROVE RowSound(r, k)
    <2>1. RowSound(rows, k) /\ k \in Nat /\ rows[k].date \in Int /\ r[k] = rows[k]
      BY <1>1, <1>2 DEF RowsSound, RowSound
    <2>2. \A j \in A : Earlier(r, j, k) <=> Earlier(rows, j, k)
      BY <1>1 DEF Earlier
    <2>3. ASSUME rows[k].related # 0
          PROVE  /\ rows[k].related \in DOMAIN r /\ Earlier(r, rows[k].related, k)
                 /\ r[rows[k].related] = rows[rows[k].related]
      <3>1. rows[k].related \in DOMAIN rows /\ Earlier(rows, rows[k].related, k)
        BY <2>1, <2>3 DEF RowSound
      <3>2. rows[k].related \in A
        BY <3>1 DEF Segment, Initial
      <3>3. QED
        BY <1>1, <2>2, <3>1, <3>2
    <2>4. ASSUME rows[k].kind = "transfer_out" PROVE k + 1 \in DOMAIN r /\ r[k + 1] = rows[k + 1]
      BY <1>1, <2>4 DEF Segment
    <2>5. ASSUME rows[k].kind = "transfer_in" PROVE k - 1 \in DOMAIN r /\ r[k - 1] = rows[k - 1]
      <3>1. k - 1 \in DOMAIN rows /\ rows[k - 1].date = rows[k].date /\ k - 1 < k
        BY <2>1, <2>5 DEF RowSound
      <3>2. Earlier(rows, k - 1, k)
        BY <3>1 DEF Earlier
      <3>3. k - 1 \in A
        BY <3>1, <3>2 DEF Segment, Initial
      <3>4. QED
        BY <1>1, <3>3
    <2>6. QED
      BY <2>1, <2>3, <2>4, <2>5 DEF RowSound
  <1>4. RowsSound(r)
    BY <1>1, <1>2, <1>3 DEF RowsSound
  <1>5. QED
    BY <1>1, <1>4

LEMMA LatestOf ==
  ASSUME NEW rows, RowsSound(rows), NEW A, Segment(rows, A), NEW S, S \subseteq A, S # {}
  PROVE  Latest(Of(rows, A), S) = Latest(rows, S)
  <1>1. PICK r : r = Of(rows, A) /\ DOMAIN r = A /\ \A k \in A : r[k] = rows[k]
    BY OfIs
  <1>2. PICK j, k : j = Latest(r, S) /\ k = Latest(rows, S)
    OBVIOUS
  <1>3. A \subseteq DOMAIN rows /\ RowsSound(r)
    BY <1>1, SegmentSound DEF Segment, Initial
  <1>4. j \in S /\ \A n \in S \ {j} : Earlier(r, n, j)
    BY <1>1, <1>2, <1>3, LatestIs
  <1>5. k \in S /\ \A n \in S \ {k} : Earlier(rows, n, k)
    BY <1>2, <1>3, LatestIs
  <1>6. ASSUME j # k PROVE FALSE
    <2>1. Earlier(r, k, j) /\ Earlier(rows, j, k)
      BY <1>4, <1>5, <1>6
    <2>2. Earlier(rows, k, j)
      BY <1>1, <1>4, <1>5, <2>1 DEF Earlier
    <2>3. QED
      BY <1>3, <1>4, <1>5, <2>1, <2>2, EarlierOrders
  <1>7. QED
    BY <1>1, <1>2, <1>6

LEMMA CutStart ==
  ASSUME NEW rows, NEW A, A \subseteq DOMAIN rows, NEW s, s = Start(rows), NEW u, u = Start(Of(rows, A))
  PROVE  SameCut(rows, A, s, u)
  <1>1. PICK b, p, z : b = TRUE /\ p = [l \in Locations |-> EmptyPool] /\ z = [quantity |-> 0, value |-> 0]
    OBVIOUS
  <1>2. PICK f, d : f = [k \in DOMAIN rows |-> 0] /\ d = [k \in DOMAIN rows |-> z]
    OBVIOUS
  <1>3. s = Stands(b, p, f, d)
    BY <1>1, <1>2 DEF Start, Stands
  <1>4. /\ s.sound = b /\ s.pools = p /\ s.costs = f /\ s.returned = d
        /\ s = Stands(s.sound, s.pools, s.costs, s.returned)
    BY ONLY <1>3, StandsThere
  <1>5. Shaped(rows, s)
    BY <1>2, <1>4 DEF Shaped
  <1>6. Of(f, A) = [k \in A |-> 0] /\ Of(d, A) = [k \in A |-> z] /\ DOMAIN Of(rows, A) = A
    BY <1>2 DEF Of
  <1>7. u = Stands(b, p, Of(f, A), Of(d, A))
    BY <1>1, <1>6 DEF Start, Stands
  <1>8. QED
    BY <1>4, <1>5, <1>7 DEF SameCut, Cut

(* Both replays apply the same movements and find the same.                    *)
LEMMA CutReplays ==
  ASSUME NEW method, NEW rows, RowsSound(rows), NEW A, Segment(rows, A),
         NEW g, Replaying(g, method, rows), NEW h, Replaying(h, method, Of(rows, A))
  PROVE  SameCut(rows, A, g[A], h[A])
  <1> DEFINE Bad == {T \in SUBSET A : ~SameCut(rows, A, g[T], h[T])}
  <1>1. SUFFICES ASSUME Bad # {} PROVE FALSE
    OBVIOUS
  <1>2. A \subseteq DOMAIN rows /\ IsFiniteSet(A)
    BY FS_Subset DEF Segment, Initial, RowsSound
  <1>3. PICK T \in Bad : \A U \in SUBSET T : U # T => U \notin Bad
    <2>1. Bad \subseteq SUBSET A
      OBVIOUS
    <2> HIDE DEF Bad
    <2>2. QED
      BY <1>1, <1>2, <2>1, SmallestSubset, Zenon
  <1>4. T \in SUBSET A /\ T \in SUBSET DOMAIN rows /\ DOMAIN Of(rows, A) = A
    BY <1>2, <1>3 DEF Of
  <1>5. g[T] = After(g, method, rows, T) /\ h[T] = After(h, method, Of(rows, A), T)
    BY <1>4 DEF Replaying
  <1>6. CASE T = {}
    <2>1. g[T] = Start(rows) /\ h[T] = Start(Of(rows, A))
      BY <1>5, <1>6 DEF After
    <2>2. SameCut(rows, A, g[T], h[T])
      BY ONLY <1>2, <2>1, CutStart
    <2>3. QED
      BY <1>3, <2>2
  <1>7. CASE T # {}
    <2>1. PICK k, U : k = Latest(rows, T) /\ U = T \ {k}
      OBVIOUS
    <2>2. k \in T /\ k \in A /\ k = Latest(Of(rows, A), T)
      BY <1>4, <1>7, <2>1, LatestIs, LatestOf
    <2>3. PICK s, t, u : s = g[U] /\ t = g[T] /\ u = h[T]
      OBVIOUS
    <2>4. U \in SUBSET T /\ U # T /\ U \in SUBSET A
      BY <1>4, <2>1, <2>2
    <2>5. Shaped(rows, s) /\ h[U] = Cut(s, A)
      BY <1>3, <2>3, <2>4 DEF SameCut
    <2>6. t = Applied(method, rows, s, k) /\ u = Applied(method, Of(rows, A), h[U], k)
      BY <1>5, <1>7, <2>1, <2>2, <2>3 DEF After
    <2>7. u = Applied(method, Of(rows, A), Cut(s, A), k)
      BY <2>5, <2>6
    <2>8. /\ rows[k].kind = "transfer_out" => rows[k].pair \in A
          /\ rows[k].related # 0 => rows[k].related \in A
      <3>1. RowSound(rows, k)
        BY <1>2, <2>2 DEF RowsSound
      <3>2. QED
        BY <2>2, <3>1 DEF RowSound, Segment, Initial
    <2>9. SameCut(rows, A, t, u)
      BY ONLY <1>2, <2>2, <2>5, <2>6, <2>7, <2>8, CutApplied
    <2>10. QED
      BY <1>3, <2>3, <2>9
  <1>8. QED
    BY <1>6, <1>7

LEMMA SegmentReplays ==
  ASSUME NEW method, NEW rows, RowsSound(rows), NEW A, Segment(rows, A), Replay(method, rows).sound
  PROVE  Replay(method, Of(rows, A)).sound
  <1>1. PICK g : Replaying(g, method, rows) /\ Replay(method, rows) = g[DOMAIN rows]
    BY ReplayIs
  <1>2. PICK h : Replaying(h, method, Of(rows, A)) /\ Replay(method, Of(rows, A)) = h[DOMAIN Of(rows, A)]
    BY SegmentSound, ReplayIs
  <1>3. SameCut(rows, A, g[A], h[A])
    BY <1>1, <1>2, CutReplays
  <1>4. g[A].sound
    <2>1. Initial(rows, A) /\ g[DOMAIN rows].sound
      BY <1>1 DEF Segment
    <2>2. QED
      BY <1>1, <2>1, SoundBefore
  <1>5. h[A].sound = g[A].sound
    <2>1. h[A] = Cut(g[A], A)
      BY <1>3 DEF SameCut
    <2>2. QED
      BY <2>1, CutIs
  <1>6. DOMAIN Of(rows, A) = A
    BY DEF Of
  <1>7. QED
    BY <1>2, <1>4, <1>5, <1>6

LEMMA MovedInAll ==
  ASSUME NEW rows, RowsSound(rows)
  PROVE  /\ MovedBy(rows, DOMAIN rows) \in [DOMAIN rows -> Int]
         /\ \A n \in DOMAIN rows : MovedBy(rows, DOMAIN rows)[n] = rows[n].quantity
  BY DEF RowsSound, RowSound, MovedBy

(* What a replay that was not refused says of the pools.                       *)
LEMMA PoolsAddUp ==
  ASSUME NEW method, NEW rows, RowsSound(rows), Replay(method, rows).sound,
         NEW s, s = Replay(method, rows), NEW l \in Locations
  PROVE  /\ s.pools[l].quantity = Total([k \in At(rows, l) |-> rows[k].quantity])
         /\ s.pools[l].value = Total([k \in At(rows, l) |-> s.costs[k]])
         /\ s.pools[l].quantity \in Nat /\ s.pools[l].value \in Nat
         /\ s.pools[l].quantity = 0 => s.pools[l].value = 0
  <1>1. Good(method, rows, DOMAIN rows, s)
    BY ReplayGood
  <1>2. /\ PoolSound(method, s.pools[l])
        /\ s.pools[l].quantity = SumIn(MovedBy(rows, DOMAIN rows), At(rows, l))
        /\ s.pools[l].value = SumIn(s.costs, At(rows, l))
    BY <1>1 DEF Good, Accounted
  <1>3. /\ IsFiniteSet(DOMAIN rows) /\ At(rows, l) \subseteq DOMAIN rows
        /\ \A n \in DOMAIN rows : rows[n].quantity \in Int
    BY DEF RowsSound, RowSound, At
  <1>4. PICK f \in [DOMAIN rows -> Int], e \in [DOMAIN rows -> Int] :
          f = MovedBy(rows, DOMAIN rows) /\ e = s.costs /\ \A n \in DOMAIN rows : f[n] = rows[n].quantity
    BY <1>1, MovedInAll DEF Good, Accounted, Standing
  <1>5. /\ SumIn(f, At(rows, l)) = Total([k \in At(rows, l) |-> f[k]])
        /\ SumIn(e, At(rows, l)) = Total([k \in At(rows, l) |-> e[k]])
    BY <1>3, SumOver
  <1>6. [k \in At(rows, l) |-> f[k]] = [k \in At(rows, l) |-> rows[k].quantity]
    BY <1>3, <1>4
  <1>7. QED
    BY <1>2, <1>4, <1>5, <1>6 DEF PoolSound

\* With what has come back or gone back, a movement is nil.
BackInFull(rows, k) == rows[k].quantity + Total([n \in BackOf(rows, k) |-> rows[n].quantity]) = 0

\* A movement's quantity and cost, and those of what came or went back of it.
Backs(rows, s, k, q, c, x, y) ==
  /\ q = rows[k].quantity /\ c = s.costs[k]
  /\ x = SumIn(MovedBy(rows, DOMAIN rows), BackOf(rows, k)) /\ y = SumIn(s.costs, BackOf(rows, k))
  /\ x = Total([n \in BackOf(rows, k) |-> rows[n].quantity])
  /\ y = Total([n \in BackOf(rows, k) |-> s.costs[n]])
  /\ MovedBy(rows, DOMAIN rows)[k] = q

LEMMA BackSums ==
  ASSUME NEW method, NEW rows, RowsSound(rows), NEW s, Good(method, rows, DOMAIN rows, s), NEW k \in DOMAIN rows
  PROVE  \E q \in Int, c \in Int, x \in Int, y \in Int : Backs(rows, s, k, q, c, x, y)
  <1>1. /\ IsFiniteSet(DOMAIN rows) /\ BackOf(rows, k) \subseteq DOMAIN rows
        /\ \A n \in DOMAIN rows : rows[n].quantity \in Int
    BY DEF RowsSound, RowSound, BackOf
  <1>2. PICK f \in [DOMAIN rows -> Int], e \in [DOMAIN rows -> Int] :
          f = MovedBy(rows, DOMAIN rows) /\ e = s.costs /\ \A n \in DOMAIN rows : f[n] = rows[n].quantity
    BY MovedInAll DEF Good, Accounted, Standing
  <1>3. /\ SumIn(f, BackOf(rows, k)) = Total([n \in BackOf(rows, k) |-> f[n]])
        /\ SumIn(e, BackOf(rows, k)) = Total([n \in BackOf(rows, k) |-> e[n]])
        /\ SumIn(f, BackOf(rows, k)) \in Int /\ SumIn(e, BackOf(rows, k)) \in Int
    BY <1>1, SumOver, SumInt
  <1>4. [n \in BackOf(rows, k) |-> f[n]] = [n \in BackOf(rows, k) |-> rows[n].quantity]
    BY <1>1, <1>2
  <1>5. PICK q \in Int, c \in Int, x \in Int, y \in Int :
          /\ q = rows[k].quantity /\ c = e[k]
          /\ x = SumIn(f, BackOf(rows, k)) /\ y = SumIn(e, BackOf(rows, k))
    BY <1>1, <1>3
  <1>6. Backs(rows, s, k, q, c, x, y)
    BY <1>2, <1>3, <1>4, <1>5 DEF Backs
  <1>7. QED
    BY <1>6

LEMMA IssueBackCostsTheSame ==
  ASSUME NEW method, NEW rows, RowsSound(rows), Replay(method, rows).sound,
         NEW s, s = Replay(method, rows), NEW k \in DOMAIN rows, rows[k].quantity < 0, BackInFull(rows, k)
  PROVE  s.costs[k] + Total([n \in BackOf(rows, k) |-> s.costs[n]]) = 0
  <1>1. Good(method, rows, DOMAIN rows, s)
    BY ReplayGood
  <1>2. IssueSound(rows, DOMAIN rows, s, k)
    BY <1>1 DEF Good, Accounted
  <1>3. PICK q \in Int, c \in Int, x \in Int, y \in Int : Backs(rows, s, k, q, c, x, y)
    BY <1>1, BackSums
  <1> USE DEF Backs
  <1>4. q + x = 0 /\ q < 0 /\ c <= 0
    BY <1>2, <1>3 DEF BackInFull, IssueSound
  <1>5. PICK a \in Nat, b \in Nat \ {0} : a = -c /\ b = -q /\ x = b
    BY <1>4
  <1>6. y = Share(a, b, b)
    BY <1>2, <1>3, <1>5 DEF IssueSound
  <1>7. y = a
    BY <1>6, SharesOfACost
  <1>8. c + y = 0
    BY <1>5, <1>7
  <1>9. QED
    BY <1>3, <1>8

LEMMA ReceiptBackCostsTheSame ==
  ASSUME NEW rows, RowsSound(rows), NEW method, method = "fifo", Replay(method, rows).sound,
         NEW s, s = Replay(method, rows), NEW k \in DOMAIN rows, rows[k].quantity > 0, BackInFull(rows, k)
  PROVE  s.costs[k] + Total([n \in BackOf(rows, k) |-> s.costs[n]]) = 0
  <1>1. Good(method, rows, DOMAIN rows, s)
    BY ReplayGood
  <1>2. PICK q \in Int, c \in Int, x \in Int, y \in Int : Backs(rows, s, k, q, c, x, y)
    BY <1>1, BackSums
  <1> USE DEF Backs
  <1>3. q + x = 0
    BY <1>2 DEF BackInFull
  <1>4. /\ InAll(s.pools, k, "quantity") <= 0
        /\ InAll(s.pools, k, "quantity") = 0 => InAll(s.pools, k, "value") = c + y
    <2>1. Remaining(MovedBy(rows, DOMAIN rows), rows, k) = 0 /\ Remaining(s.costs, rows, k) = c + y
      BY <1>2, <1>3 DEF Remaining
    <2>2. Receipts(rows, DOMAIN rows, s)
      BY <1>1 DEF Good
    <2>3. QED
      BY <2>1, <2>2 DEF Receipts
  <1>5. Layered(s.pools) /\ "quantity" \in Measures /\ "value" \in Measures
    BY <1>1, AccountedLayers DEF Good, Measures
  <1>6. InAll(s.pools, k, "quantity") = 0
    BY <1>4, <1>5, InAllTyped
  <1>7. \A l \in Locations : Holding(s.pools[l].layers, {k}, "value") = 0
    <2> DEFINE f == [l \in Locations |-> Holding(s.pools[l].layers, {k}, "quantity")]
    <2>1. f \in [Locations -> Nat] /\ Total(f) = 0
      BY <1>5, <1>6, HoldingBounds DEF Layered, InAll
    <2>2. \A l \in Locations : f[l] = 0
      <3>1. IsFiniteSet(DOMAIN f) /\ \A l \in DOMAIN f : f[l] \in Nat
        BY <2>1, LocationsAssumption
      <3>2. \A l \in DOMAIN f : f[l] <= Total(f)
        BY <3>1, TotalBounds
      <3> HIDE DEF f
      <3>3. DOMAIN f = Locations
        BY <2>1
      <3>4. QED
        BY <2>1, <3>1, <3>2, <3>3
    <2>3. ASSUME NEW l \in Locations PROVE Holding(s.pools[l].layers, {k}, "value") = 0
      <3>1. PoolSound(method, s.pools[l])
        BY <1>1 DEF Good, Accounted
      <3>2. s.pools[l].layers \in Seq(Portion) /\ Fair(s.pools[l].layers)
        BY <3>1, LayersArePortions DEF PoolSound
      <3>3. Holding(s.pools[l].layers, {k}, "quantity") = 0
        BY <2>2
      <3>4. QED
        BY <3>2, <3>3, HoldingBounds
    <2>4. QED
      BY <2>3
  <1>8. InAll(s.pools, k, "value") = 0
    <2> DEFINE f == [l \in Locations |-> Holding(s.pools[l].layers, {k}, "value")]
    <2>1. f \in [Locations -> Int] /\ \A l \in Locations : f[l] = 0
      BY <1>7
    <2>2. Total(f) = 0
      BY <2>1, LocationsAssumption, TotalZero
    <2>3. QED
      BY <2>2 DEF InAll
  <1>9. QED
    BY <1>2, <1>4, <1>6, <1>8

------------------------------------------------------------------------------
(* A replay of no movements is the same by every method. *)
LEMMA ReplayOfNothing ==
  ASSUME NEW method, NEW rows, DOMAIN rows = {}
  PROVE  Replay(method, rows) = Start(rows)
<1> DEFINE step(f, S) == IF S = {} THEN Start(rows)
                         ELSE LET k == Latest(rows, S)
                              IN  Applied(method, rows, f[S \ {k}], k)
           after == CHOOSE f : f = [S \in SUBSET DOMAIN rows |-> step(f, S)]
<1>1. \E f : f = [S \in SUBSET DOMAIN rows |-> step(f, S)]
  <2> DEFINE g == [S \in SUBSET {} |-> Start(rows)]
  <2>1. \A S \in SUBSET DOMAIN rows : S = {}
    OBVIOUS
  <2>2. g = [S \in SUBSET DOMAIN rows |-> step(g, S)]
    BY <2>1
  <2> QED
    BY <2>2
<1>2. after = [S \in SUBSET DOMAIN rows |-> step(after, S)]
  BY <1>1
<1>3. after[DOMAIN rows] = Start(rows)
  <2> HIDE DEF after
  <2> QED
    BY <1>2
<1> QED
  BY <1>3 DEF Replay

=============================================================================
