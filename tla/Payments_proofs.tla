---------------------------- MODULE Payments_proofs ----------------------------
(***************************************************************************)
(* Proofs about the settlement of invoices, for every set of documents,    *)
(* amounts and bank lines and any number of payments: what is recorded of  *)
(* each document and payment is what the payments that stand say, and the  *)
(* control accounts agree with it.                                         *)
(***************************************************************************)
EXTENDS Payments, Totals_proofs, SequenceTheorems

(* What is billed has a sign: an invoice's above zero, a credit note's below. *)
LEMMA Billed ==
  ASSUME NEW d \in Docs
  PROVE  /\ Gross[d] \in Int /\ Vat[d] \in Int
         /\ d \in Invoices => Gross[d] > 0 /\ d \notin CreditNotes
         /\ d \notin Invoices => Gross[d] < 0 /\ d \in CreditNotes
  BY DocumentsAssumption DEF Docs

(* What is paid of a document goes towards what it is for when it has its sign. *)
LEMMA TowardsIs ==
  ASSUME NEW d \in Docs, NEW x \in Int
  PROVE  Towards(d, x) <=> IF d \in Invoices THEN 0 <= x ELSE x <= 0
  <1>1. CASE d \in Invoices
    <2>1. PICK g \in Int : g = Gross[d] /\ g > 0
      BY <1>1, Billed
    <2>2. 0 <= x * g <=> 0 <= x
      BY <2>1
    <2>3. QED
      BY <1>1, <2>1, <2>2 DEF Towards
  <1>2. CASE d \notin Invoices
    <2>1. PICK g \in Int : g = Gross[d] /\ g < 0
      BY <1>2, Billed
    <2>2. 0 <= x * g <=> x <= 0
      BY <2>1
    <2>3. QED
      BY <1>2, <2>1, <2>2 DEF Towards
  <1>3. QED
    BY <1>1, <1>2

(* A share of the VAT is a whole number, and of nothing paid it is nothing. *)
LEMMA ShareIs ==
  ASSUME NEW d \in Docs
  PROVE  (\A x \in Int : Share(d, x) \in Int) /\ Share(d, 0) = 0
  <1>1. PICK g, v, sign \in Int : /\ g = Abs(Gross[d]) /\ v = Abs(Vat[d]) /\ g > 0
                                  /\ sign = IF Gross[d] < 0 THEN -1 ELSE 1
    BY Billed DEF Abs
  <1>2. 2 * g \in Int /\ 2 * g > 0 /\ 0 * g = 0
    BY <1>1
  <1>3. ASSUME NEW x \in Int PROVE Share(d, x) \in Int
    <2>1. PICK n \in Int : n = 2 * v * sign * x + g
      BY <1>1
    <2>2. n \div (2 * g) \in Int
      BY <1>2, <2>1
    <2>3. PICK q \in Int : q = n \div (2 * g)
      BY <2>2
    <2>4. Share(d, x) = sign * q
      BY <1>1, <2>1, <2>3 DEF Share
    <2>5. QED
      BY <1>1, <2>3, <2>4
  <1>4. Share(d, 0) = 0
    <2>1. 2 * v * sign * 0 + g = g
      BY <1>1
    <2>2. g \div (2 * g) = 0
      BY <1>1
    <2>3. Share(d, 0) = sign * 0
      BY <1>1, <2>1, <2>2 DEF Share
    <2>4. QED
      BY <1>1, <2>3
  <1>5. QED
    BY <1>3, <1>4

(* What a payment's row holds. *)
LEMMA Fields ==
  ASSUME NEW row \in Payment
  PROVE  /\ row.amount \in Nat /\ row.refundOf \in Numbers \cup {0}
         /\ row.kind \in Kinds /\ row.direction \in {"received", "made"}
         /\ row.line \in BankLines \cup {NoLine} /\ row.reversed \in BOOLEAN
         /\ row.settled \in [Docs -> Int] /\ row.released \in [Docs -> Int]
         /\ row.shortfall \in [Docs -> Nat] /\ row.shortfall \in [Docs -> Int]
         /\ row.moved \in [Accounts -> Int] /\ row.later \in [Accounts -> Int]
         /\ Total(row.settled) \in Int /\ Total(row.released) \in Int
         /\ Total(row.shortfall) \in Int
  <1>1. row.settled \in [Docs -> Int] /\ row.released \in [Docs -> Int]
        /\ row.shortfall \in [Docs -> Int]
    BY DEF Payment
  <1>2. /\ Total(row.settled) \in Int /\ Total(row.released) \in Int
        /\ Total(row.shortfall) \in Int
    BY <1>1, TotalType, DocumentsAssumption
  <1>3. QED
    BY <1>1, <1>2 DEF Payment

------------------------------------------------------------------------------
(* A book is a set of payments by number.  The payments that stand are one,
   and what is asked of them is asked of books. *)

IsBook(s) == IsFiniteSet(DOMAIN s) /\ \A p \in DOMAIN s : s[p] \in Payment

PaidIn(s, d) == Total([p \in DOMAIN s |-> s[p].settled[d] + s[p].shortfall[d]])
ReleasedIn(s, d) == Total([p \in DOMAIN s |-> s[p].released[d]])
RefundsIn(s, p) == {r \in DOMAIN s : s[r].refundOf = p}
RefundedIn(s, p) == Total([r \in RefundsIn(s, p) |-> s[r].amount])

\* What a row itself says it left over.
Left(row) ==
  IF row.kind # "cash" THEN 0
  ELSE IF row.direction = "made" THEN row.amount + Total(row.settled)
  ELSE row.amount - Total(row.settled)

OnAccountIn(s, p) == IF s[p].kind # "cash" THEN 0 ELSE Left(s[p]) - RefundedIn(s, p)
Going(s, direction) == {p \in DOMAIN s : s[p].direction = direction}
HeldIn(s, direction) == Total([p \in Going(s, direction) |-> OnAccountIn(s, p)])

\* t is s with one more payment, number k.
OneMore(s, t, k) ==
  /\ k \notin DOMAIN s /\ DOMAIN t = DOMAIN s \cup {k}
  /\ \A p \in DOMAIN s : t[p] = s[p]

(* The sums over a book are whole numbers. *)
LEMMA BookSums ==
  ASSUME NEW s, IsBook(s)
  PROVE  /\ \A d \in Docs : PaidIn(s, d) \in Int /\ ReleasedIn(s, d) \in Int
         /\ \A p : RefundedIn(s, p) \in Int
         /\ \A p \in DOMAIN s : Left(s[p]) \in Int /\ OnAccountIn(s, p) \in Int
         /\ \A dir : IsFiniteSet(Going(s, dir)) /\ HeldIn(s, dir) \in Int
  <1>1. ASSUME NEW d \in Docs PROVE PaidIn(s, d) \in Int /\ ReleasedIn(s, d) \in Int
    <2>1. \A p \in DOMAIN s : s[p].settled[d] + s[p].shortfall[d] \in Int
                              /\ s[p].released[d] \in Int
      BY Fields DEF IsBook
    <2>2. QED
      BY <2>1, TotalInt DEF IsBook, PaidIn, ReleasedIn
  <1>2. ASSUME NEW p PROVE RefundedIn(s, p) \in Int
    <2>1. RefundsIn(s, p) \subseteq DOMAIN s
      BY DEF RefundsIn
    <2>2. IsFiniteSet(RefundsIn(s, p)) /\ \A r \in RefundsIn(s, p) : s[r].amount \in Int
      BY <2>1, Fields, FS_Subset DEF IsBook
    <2>3. QED
      BY <2>2, TotalInt DEF RefundedIn
  <1>3. ASSUME NEW p \in DOMAIN s PROVE Left(s[p]) \in Int /\ OnAccountIn(s, p) \in Int
    <2>1. s[p] \in Payment
      BY DEF IsBook
    <2>2. QED
      BY <1>2, <2>1, Fields DEF Left, OnAccountIn
  <1>4. ASSUME NEW dir PROVE IsFiniteSet(Going(s, dir)) /\ HeldIn(s, dir) \in Int
    <2>1. Going(s, dir) \subseteq DOMAIN s
      BY DEF Going
    <2>2. IsFiniteSet(Going(s, dir)) /\ \A p \in Going(s, dir) : OnAccountIn(s, p) \in Int
      BY <1>3, <2>1, FS_Subset DEF IsBook
    <2>3. QED
      BY <2>2, TotalInt DEF HeldIn
  <1>5. QED
    BY <1>1, <1>2, <1>3, <1>4

(* One more payment adds what it settled and released. *)
LEMMA OneMoreSums ==
  ASSUME NEW s, NEW t, NEW k, IsBook(s), IsBook(t), OneMore(s, t, k), NEW d \in Docs
  PROVE  /\ PaidIn(t, d) = PaidIn(s, d) + (t[k].settled[d] + t[k].shortfall[d])
         /\ ReleasedIn(t, d) = ReleasedIn(s, d) + t[k].released[d]
  <1>1. /\ k \in DOMAIN t /\ DOMAIN s = DOMAIN t \ {k} /\ \A p \in DOMAIN s : s[p] = t[p]
        /\ IsFiniteSet(DOMAIN t)
    BY DEF OneMore, IsBook
  <1>2. \A p \in DOMAIN t : /\ t[p].settled[d] + t[p].shortfall[d] \in Int
                            /\ t[p].released[d] \in Int
    BY Fields DEF IsBook
  <1>3. PaidIn(t, d) = (t[k].settled[d] + t[k].shortfall[d]) + PaidIn(s, d)
    <2> DEFINE f == [p \in DOMAIN t |-> t[p].settled[d] + t[p].shortfall[d]]
               g == [p \in DOMAIN s |-> s[p].settled[d] + s[p].shortfall[d]]
    <2>1. /\ DOMAIN f = DOMAIN t /\ DOMAIN g = DOMAIN f \ {k}
          /\ f[k] = t[k].settled[d] + t[k].shortfall[d]
          /\ \A p \in DOMAIN f : f[p] \in Int
          /\ \A p \in DOMAIN g : g[p] = f[p]
      BY <1>1, <1>2
    <2>2. PaidIn(t, d) = Total(f) /\ PaidIn(s, d) = Total(g)
      BY DEF PaidIn
    <2> HIDE DEF f, g
    <2>3. Total(f) = f[k] + Total(g)
      BY <1>1, <2>1, TotalTake
    <2>4. QED
      BY <2>1, <2>2, <2>3
  <1>4. ReleasedIn(t, d) = t[k].released[d] + ReleasedIn(s, d)
    <2> DEFINE f == [p \in DOMAIN t |-> t[p].released[d]]
               g == [p \in DOMAIN s |-> s[p].released[d]]
    <2>1. /\ DOMAIN f = DOMAIN t /\ DOMAIN g = DOMAIN f \ {k}
          /\ f[k] = t[k].released[d]
          /\ \A p \in DOMAIN f : f[p] \in Int
          /\ \A p \in DOMAIN g : g[p] = f[p]
      BY <1>1, <1>2
    <2>2. ReleasedIn(t, d) = Total(f) /\ ReleasedIn(s, d) = Total(g)
      BY DEF ReleasedIn
    <2> HIDE DEF f, g
    <2>3. Total(f) = f[k] + Total(g)
      BY <1>1, <2>1, TotalTake
    <2>4. QED
      BY <2>1, <2>2, <2>3
  <1>5. PaidIn(s, d) \in Int /\ ReleasedIn(s, d) \in Int
    BY BookSums
  <1>6. QED
    BY <1>1, <1>2, <1>3, <1>4, <1>5

(* And adds itself to what was refunded of the payment it refunds. *)
LEMMA OneMoreRefunded ==
  ASSUME NEW s, NEW t, NEW k, IsBook(s), IsBook(t), OneMore(s, t, k), NEW p
  PROVE  RefundedIn(t, p) = RefundedIn(s, p) + (IF t[k].refundOf = p THEN t[k].amount ELSE 0)
  <1> DEFINE f == [r \in RefundsIn(t, p) |-> t[r].amount]
             g == [r \in RefundsIn(s, p) |-> s[r].amount]
  <1>1. /\ DOMAIN f = RefundsIn(t, p) /\ DOMAIN g = RefundsIn(s, p)
        /\ RefundedIn(t, p) = Total(f) /\ RefundedIn(s, p) = Total(g)
    BY DEF RefundedIn
  <1>2. RefundsIn(t, p) = RefundsIn(s, p) \cup (IF t[k].refundOf = p THEN {k} ELSE {})
    BY DEF RefundsIn, OneMore
  <1>3. /\ IsFiniteSet(DOMAIN f) /\ \A r \in DOMAIN f : f[r] \in Int
    <2>1. RefundsIn(t, p) \subseteq DOMAIN t
      BY DEF RefundsIn
    <2>2. \A r \in RefundsIn(t, p) : t[r].amount \in Int
      BY <2>1, Fields DEF IsBook
    <2>3. QED
      BY <1>1, <2>1, <2>2, FS_Subset DEF IsBook
  <1>4. k \notin DOMAIN g /\ \A r \in DOMAIN g : r \in DOMAIN f /\ g[r] = f[r]
    BY <1>2 DEF RefundsIn, OneMore
  <1>5. t[k].refundOf = p => k \in DOMAIN f /\ f[k] = t[k].amount
    BY <1>2
  <1>6. RefundedIn(s, p) \in Int /\ t[k].amount \in Int
    BY BookSums, Fields DEF IsBook, OneMore
  <1> HIDE DEF f, g
  <1>7. CASE t[k].refundOf = p
    <2>1. DOMAIN g = DOMAIN f \ {k}
      BY <1>1, <1>2, <1>4, <1>7
    <2>2. Total(f) = f[k] + Total(g)
      BY <1>3, <1>4, <1>5, <1>7, <2>1, TotalTake
    <2>3. QED
      BY <1>1, <1>5, <1>6, <1>7, <2>2
  <1>8. CASE t[k].refundOf # p
    <2>1. DOMAIN g = DOMAIN f
      BY <1>1, <1>2, <1>8
    <2>2. Total(f) = Total(g)
      BY <1>3, <1>4, <2>1, TotalEqual
    <2>3. QED
      BY <1>1, <1>6, <1>8, <2>2
  <1>9. QED
    BY <1>7, <1>8

(* What is on account when one more payment, not refunded yet, is recorded: what
   it left over, less, of the payment it refunds, what it paid back. *)
LEMMA OneMoreOnAccount ==
  ASSUME NEW s, NEW t, NEW k, IsBook(s), IsBook(t), OneMore(s, t, k),
         RefundsIn(t, k) = {},
         t[k].refundOf \in DOMAIN s => s[t[k].refundOf].kind = "cash"
  PROVE  /\ OnAccountIn(t, k) = Left(t[k])
         /\ \A p \in DOMAIN s : OnAccountIn(t, p) =
              OnAccountIn(s, p) - (IF t[k].refundOf = p THEN t[k].amount ELSE 0)
         /\ \A dir : HeldIn(t, dir) =
              HeldIn(s, dir) + (IF t[k].direction = dir THEN Left(t[k]) ELSE 0)
                - (IF t[k].refundOf \in Going(s, dir) THEN t[k].amount ELSE 0)
  <1> DEFINE o == t[k].refundOf
             paid == t[k].amount
  <1>1. /\ k \in DOMAIN t /\ k \notin DOMAIN s /\ \A p \in DOMAIN s : p \in DOMAIN t /\ t[p] = s[p]
        /\ DOMAIN t = DOMAIN s \cup {k}
    BY DEF OneMore
  <1>2. paid \in Int /\ Left(t[k]) \in Int
    BY <1>1, BookSums, Fields DEF IsBook
  <1>3. OnAccountIn(t, k) = Left(t[k])
    <2>1. RefundedIn(t, k) = 0
      BY TotalEmpty DEF RefundedIn
    <2>2. QED
      BY <1>2, <2>1 DEF OnAccountIn, Left
  <1>4. ASSUME NEW p \in DOMAIN s
        PROVE  OnAccountIn(t, p) = OnAccountIn(s, p) - (IF o = p THEN paid ELSE 0)
    <2>1. RefundedIn(t, p) = RefundedIn(s, p) + (IF o = p THEN paid ELSE 0)
      BY OneMoreRefunded
    <2>2. RefundedIn(s, p) \in Int /\ Left(s[p]) \in Int
      BY BookSums
    <2>3. CASE s[p].kind = "cash"
      BY <1>1, <1>2, <2>1, <2>2, <2>3 DEF OnAccountIn
    <2>4. CASE s[p].kind # "cash"
      BY <1>1, <1>2, <2>4 DEF OnAccountIn
    <2>5. QED
      BY <2>3, <2>4
  <1>5. ASSUME NEW dir
        PROVE  HeldIn(t, dir) = HeldIn(s, dir) + (IF t[k].direction = dir THEN Left(t[k]) ELSE 0)
                 - (IF o \in Going(s, dir) THEN paid ELSE 0)
    <2> DEFINE f == [p \in Going(s, dir) |-> OnAccountIn(s, p)]
               g == [p \in Going(s, dir) |-> OnAccountIn(t, p)]
               h == [p \in Going(t, dir) |-> OnAccountIn(t, p)]
    <2>1. /\ Going(s, dir) \subseteq DOMAIN s /\ k \notin Going(s, dir)
          /\ Going(t, dir) = Going(s, dir) \cup (IF t[k].direction = dir THEN {k} ELSE {})
      BY <1>1 DEF Going
    <2>2. /\ HeldIn(s, dir) = Total(f) /\ HeldIn(t, dir) = Total(h)
          /\ Total(f) \in Int /\ IsFiniteSet(Going(s, dir)) /\ IsFiniteSet(Going(t, dir))
      BY BookSums DEF HeldIn
    <2>3. /\ DOMAIN f = Going(s, dir) /\ DOMAIN g = Going(s, dir) /\ DOMAIN h = Going(t, dir)
          /\ \A p \in DOMAIN f : /\ f[p] \in Int /\ g[p] \in Int
                                 /\ g[p] = f[p] - (IF o = p THEN paid ELSE 0)
          /\ \A p \in DOMAIN g : p \in DOMAIN h => h[p] = g[p]
          /\ \A p \in DOMAIN h : h[p] \in Int
          /\ k \in DOMAIN h => h[k] = Left(t[k])
      <3>1. \A p \in DOMAIN s : OnAccountIn(s, p) \in Int
        BY BookSums
      <3>2. \A p \in DOMAIN t : OnAccountIn(t, p) \in Int
        BY BookSums
      <3>3. Going(t, dir) \subseteq DOMAIN t
        BY DEF Going
      <3>4. QED
        BY <1>1, <1>3, <1>4, <2>1, <3>1, <3>2, <3>3
    <2> HIDE DEF f, g, h, o, paid
    <2>4. Total(g) = Total(f) - (IF o \in Going(s, dir) THEN paid ELSE 0)
      <3>1. CASE o \in Going(s, dir)
        <4>1. Total(g) = Total(f) - f[o] + g[o]
          BY <1>2, <2>2, <2>3, <3>1, TotalChanged
        <4>2. QED
          BY <1>2, <2>2, <2>3, <3>1, <4>1
      <3>2. CASE o \notin Going(s, dir)
        <4>1. Total(f) = Total(g)
          BY <1>2, <2>2, <2>3, <3>2, TotalEqual
        <4>2. QED
          BY <2>2, <3>2, <4>1
      <3>3. QED
        BY <3>1, <3>2
    <2>5. Total(h) = Total(g) + (IF t[k].direction = dir THEN Left(t[k]) ELSE 0)
      <3>0. Total(g) \in Int
        BY <2>2, <2>3, TotalInt
      <3>1. CASE t[k].direction = dir
        <4>1. k \in DOMAIN h /\ DOMAIN g = DOMAIN h \ {k} /\ \A p \in DOMAIN g : g[p] = h[p]
          BY <2>1, <2>3, <3>1
        <4>2. Total(h) = h[k] + Total(g)
          BY <2>2, <2>3, <4>1, TotalTake
        <4>3. QED
          BY <1>2, <2>3, <3>0, <3>1, <4>1, <4>2
      <3>2. CASE t[k].direction # dir
        <4>1. DOMAIN g = DOMAIN h /\ \A p \in DOMAIN g : g[p] = h[p]
          BY <2>1, <2>3, <3>2
        <4>2. Total(h) = Total(g)
          BY <2>2, <2>3, <4>1, TotalEqual
        <4>3. QED
          BY <3>0, <3>2, <4>2
      <3>3. QED
        BY <3>1, <3>2
    <2>6. QED
      BY <1>2, <2>2, <2>4, <2>5
  <1>6. QED
    BY <1>3, <1>4, <1>5

\* t is s with payment k, money, applied further.
Further(s, t, k) ==
  /\ k \in DOMAIN s /\ DOMAIN t = DOMAIN s
  /\ \A p \in DOMAIN s : p # k => t[p] = s[p]
  /\ s[k].kind = "cash" /\ t[k].kind = "cash"
  /\ t[k].direction = s[k].direction /\ t[k].amount = s[k].amount
  /\ t[k].refundOf = s[k].refundOf /\ t[k].shortfall = s[k].shortfall
  /\ t[k].line = s[k].line

(* Applied further, a payment adds what more it settled and released. *)
LEMMA FurtherSums ==
  ASSUME NEW s, NEW t, NEW k, IsBook(s), IsBook(t), Further(s, t, k), NEW d \in Docs
  PROVE  /\ PaidIn(t, d) = PaidIn(s, d) - s[k].settled[d] + t[k].settled[d]
         /\ ReleasedIn(t, d) = ReleasedIn(s, d) - s[k].released[d] + t[k].released[d]
  <1>1. /\ k \in DOMAIN s /\ DOMAIN s = DOMAIN t /\ \A p \in DOMAIN s : p # k => t[p] = s[p]
        /\ IsFiniteSet(DOMAIN s) /\ s[k].shortfall = t[k].shortfall
    BY DEF Further, IsBook
  <1>2. \A p \in DOMAIN s :
          /\ s[p].settled[d] + s[p].shortfall[d] \in Int /\ s[p].released[d] \in Int
          /\ t[p].settled[d] + t[p].shortfall[d] \in Int /\ t[p].released[d] \in Int
    BY <1>1, Fields DEF IsBook
  <1>3. PaidIn(t, d) = PaidIn(s, d) - (s[k].settled[d] + s[k].shortfall[d])
                         + (t[k].settled[d] + t[k].shortfall[d])
    <2> DEFINE f == [p \in DOMAIN s |-> s[p].settled[d] + s[p].shortfall[d]]
               g == [p \in DOMAIN t |-> t[p].settled[d] + t[p].shortfall[d]]
    <2>1. /\ DOMAIN f = DOMAIN s /\ DOMAIN g = DOMAIN f
          /\ f[k] = s[k].settled[d] + s[k].shortfall[d]
          /\ g[k] = t[k].settled[d] + t[k].shortfall[d]
          /\ \A p \in DOMAIN f : f[p] \in Int /\ g[p] \in Int
          /\ \A p \in DOMAIN f : p # k => g[p] = f[p]
      BY <1>1, <1>2
    <2>2. PaidIn(t, d) = Total(g) /\ PaidIn(s, d) = Total(f)
      BY DEF PaidIn
    <2> HIDE DEF f, g
    <2>3. Total(g) = Total(f) - f[k] + g[k]
      BY <1>1, <2>1, TotalChanged
    <2>4. QED
      BY <2>1, <2>2, <2>3
  <1>4. ReleasedIn(t, d) = ReleasedIn(s, d) - s[k].released[d] + t[k].released[d]
    <2> DEFINE f == [p \in DOMAIN s |-> s[p].released[d]]
               g == [p \in DOMAIN t |-> t[p].released[d]]
    <2>1. /\ DOMAIN f = DOMAIN s /\ DOMAIN g = DOMAIN f
          /\ f[k] = s[k].released[d] /\ g[k] = t[k].released[d]
          /\ \A p \in DOMAIN f : f[p] \in Int /\ g[p] \in Int
          /\ \A p \in DOMAIN f : p # k => g[p] = f[p]
      BY <1>1, <1>2
    <2>2. ReleasedIn(t, d) = Total(g) /\ ReleasedIn(s, d) = Total(f)
      BY DEF ReleasedIn
    <2> HIDE DEF f, g
    <2>3. Total(g) = Total(f) - f[k] + g[k]
      BY <1>1, <2>1, TotalChanged
    <2>4. QED
      BY <2>1, <2>2, <2>3
  <1>5. /\ PaidIn(s, d) \in Int /\ s[k].settled[d] \in Int /\ t[k].settled[d] \in Int
        /\ s[k].shortfall[d] \in Int
    BY <1>1, BookSums, Fields DEF IsBook
  <1>6. QED
    BY <1>1, <1>3, <1>4, <1>5

(* And what it has on account, and all that is held, is less by that. *)
LEMMA FurtherOnAccount ==
  ASSUME NEW s, NEW t, NEW k, IsBook(s), IsBook(t), Further(s, t, k)
  PROVE  /\ \A p : RefundsIn(t, p) = RefundsIn(s, p) /\ RefundedIn(t, p) = RefundedIn(s, p)
         /\ \A p \in DOMAIN s : OnAccountIn(t, p) =
              OnAccountIn(s, p) - (IF p = k THEN Left(s[k]) - Left(t[k]) ELSE 0)
         /\ \A dir : HeldIn(t, dir) =
              HeldIn(s, dir) - (IF s[k].direction = dir THEN Left(s[k]) - Left(t[k]) ELSE 0)
  <1>1. /\ k \in DOMAIN s /\ k \in DOMAIN t /\ DOMAIN s = DOMAIN t
        /\ \A p \in DOMAIN s : p # k => t[p] = s[p]
        /\ \A p \in DOMAIN s : /\ t[p].refundOf = s[p].refundOf /\ t[p].amount = s[p].amount
                               /\ t[p].kind = s[p].kind /\ t[p].direction = s[p].direction
        /\ s[k].kind = "cash"
    BY DEF Further
  <1>2. Left(s[k]) \in Int /\ Left(t[k]) \in Int
    BY <1>1, BookSums
  <1>3. ASSUME NEW p
        PROVE  RefundsIn(t, p) = RefundsIn(s, p) /\ RefundedIn(t, p) = RefundedIn(s, p)
    <2>1. RefundsIn(t, p) = RefundsIn(s, p)
      BY <1>1 DEF RefundsIn
    <2>2. \A r \in RefundsIn(s, p) : t[r].amount = s[r].amount
      BY <1>1 DEF RefundsIn
    <2>3. [r \in RefundsIn(t, p) |-> t[r].amount] = [r \in RefundsIn(s, p) |-> s[r].amount]
      BY <2>1, <2>2
    <2>4. QED
      BY <2>1, <2>3 DEF RefundedIn
  <1>4. ASSUME NEW p \in DOMAIN s
        PROVE  OnAccountIn(t, p) =
                 OnAccountIn(s, p) - (IF p = k THEN Left(s[k]) - Left(t[k]) ELSE 0)
    <2>1. RefundedIn(t, p) = RefundedIn(s, p) /\ RefundedIn(s, p) \in Int
      BY <1>3, BookSums
    <2>2. Left(s[p]) \in Int /\ OnAccountIn(s, p) \in Int
      BY BookSums
    <2>3. CASE p = k
      BY <1>1, <1>2, <2>1, <2>3 DEF OnAccountIn
    <2>4. CASE p # k
      BY <1>1, <2>1, <2>2, <2>4 DEF OnAccountIn
    <2>5. QED
      BY <2>3, <2>4
  <1>5. ASSUME NEW dir
        PROVE  HeldIn(t, dir) =
                 HeldIn(s, dir) - (IF s[k].direction = dir THEN Left(s[k]) - Left(t[k]) ELSE 0)
    <2> DEFINE f == [p \in Going(s, dir) |-> OnAccountIn(s, p)]
               g == [p \in Going(t, dir) |-> OnAccountIn(t, p)]
    <2>1. /\ Going(s, dir) \subseteq DOMAIN s /\ Going(t, dir) = Going(s, dir)
          /\ k \in Going(s, dir) <=> s[k].direction = dir
      BY <1>1 DEF Going
    <2>2. /\ HeldIn(s, dir) = Total(f) /\ HeldIn(t, dir) = Total(g)
          /\ Total(f) \in Int /\ IsFiniteSet(Going(s, dir))
      BY BookSums DEF HeldIn
    <2>3. /\ DOMAIN f = Going(s, dir) /\ DOMAIN g = DOMAIN f
          /\ \A p \in DOMAIN f : /\ f[p] \in Int /\ g[p] \in Int
                                 /\ p # k => g[p] = f[p]
                                 /\ p = k => g[p] = f[p] - (Left(s[k]) - Left(t[k]))
      <3>1. \A p \in DOMAIN s : OnAccountIn(s, p) \in Int
        BY BookSums
      <3>2. \A p \in DOMAIN s : OnAccountIn(t, p) \in Int
        BY <1>1, BookSums
      <3>3. QED
        BY <1>4, <2>1, <3>1, <3>2
    <2> HIDE DEF f, g
    <2>4. CASE s[k].direction = dir
      <3>1. Total(g) = Total(f) - f[k] + g[k]
        BY <2>1, <2>2, <2>3, <2>4, TotalChanged
      <3>2. QED
        BY <1>2, <2>1, <2>2, <2>3, <2>4, <3>1
    <2>5. CASE s[k].direction # dir
      <3>1. Total(f) = Total(g)
        BY <2>1, <2>2, <2>3, <2>5, TotalEqual
      <3>2. QED
        BY <2>2, <2>5, <3>1
    <2>6. QED
      BY <2>4, <2>5
  <1>6. QED
    BY <1>3, <1>4, <1>5

(* What holds between the payments that stand: a refund is of one of them, money
   going the other way, none has spent more than it was, and no two are matched
   to one bank line. *)
RefundsMatch(s) ==
  \A r \in DOMAIN s : s[r].refundOf # 0 =>
    LET p == s[r].refundOf
    IN  p \in DOMAIN s /\ s[p].kind = "cash" /\ s[p].direction # s[r].direction

BookSound(s) ==
  /\ 0 \notin DOMAIN s
  /\ RefundsMatch(s)
  /\ \A p \in DOMAIN s : OnAccountIn(s, p) >= 0
  /\ \A p, q \in DOMAIN s : (s[p].line = s[q].line /\ s[p].line # NoLine) => p = q

\* What a payment is to be before it joins the others.
MayJoin(s, row) ==
  /\ Left(row) >= 0
  /\ row.refundOf # 0 =>
       LET p == row.refundOf
       IN  /\ p \in DOMAIN s /\ s[p].kind = "cash" /\ s[p].direction # row.direction
           /\ row.amount <= OnAccountIn(s, p)
  /\ row.line # NoLine => \A p \in DOMAIN s : s[p].line # row.line

LEMMA JoinsSoundly ==
  ASSUME NEW s, NEW t, NEW k, IsBook(s), IsBook(t), OneMore(s, t, k), k # 0,
         BookSound(s), MayJoin(s, t[k])
  PROVE  BookSound(t) /\ RefundsIn(t, k) = {}
  <1>1. /\ k \in DOMAIN t /\ k \notin DOMAIN s /\ \A p \in DOMAIN s : p \in DOMAIN t /\ t[p] = s[p]
        /\ DOMAIN t = DOMAIN s \cup {k} /\ t[k] \in Payment
    BY DEF OneMore, IsBook
  <1>2. RefundsMatch(t)
    BY <1>1 DEF BookSound, RefundsMatch, MayJoin
  <1>3. RefundsIn(t, k) = {}
    <2>1. ASSUME NEW r \in DOMAIN t, t[r].refundOf = k PROVE FALSE
      <3>1. CASE r = k
        BY <1>1, <2>1, <3>1 DEF MayJoin
      <3>2. CASE r \in DOMAIN s
        BY <1>1, <2>1, <3>2 DEF BookSound, RefundsMatch
      <3>3. QED
        BY <1>1, <3>1, <3>2
    <2>2. QED
      BY <2>1 DEF RefundsIn
  <1>4. t[k].refundOf \in DOMAIN s => s[t[k].refundOf].kind = "cash"
    BY DEF MayJoin, BookSound
  <1>5. ASSUME NEW p \in DOMAIN t PROVE OnAccountIn(t, p) >= 0
    <2>1. CASE p = k
      BY <1>3, <1>4, <2>1, OneMoreOnAccount DEF MayJoin
    <2>2. CASE p \in DOMAIN s
      <3>1. OnAccountIn(t, p) = OnAccountIn(s, p) - (IF t[k].refundOf = p THEN t[k].amount ELSE 0)
        BY <1>3, <1>4, <2>2, OneMoreOnAccount
      <3>2. OnAccountIn(s, p) \in Int /\ OnAccountIn(s, p) >= 0 /\ t[k].amount \in Int
        BY <1>1, <2>2, BookSums, Fields DEF BookSound
      <3>3. t[k].refundOf = p => t[k].amount <= OnAccountIn(s, p)
        BY <2>2 DEF MayJoin, BookSound
      <3>4. QED
        BY <3>1, <3>2, <3>3
    <2>3. QED
      BY <1>1, <2>1, <2>2
  <1>6. \A p, q \in DOMAIN t : (t[p].line = t[q].line /\ t[p].line # NoLine) => p = q
    BY <1>1 DEF MayJoin, BookSound
  <1>7. QED
    BY <1>1, <1>2, <1>3, <1>5, <1>6 DEF BookSound

LEMMA LeavesSoundly ==
  ASSUME NEW s, NEW t, NEW k, IsBook(s), IsBook(t), OneMore(s, t, k),
         BookSound(t), RefundsIn(t, k) = {}
  PROVE  /\ BookSound(s)
         /\ t[k].refundOf \in DOMAIN s => s[t[k].refundOf].kind = "cash"
  <1>1. /\ k \in DOMAIN t /\ k \notin DOMAIN s /\ \A p \in DOMAIN s : p \in DOMAIN t /\ t[p] = s[p]
        /\ DOMAIN t = DOMAIN s \cup {k} /\ t[k] \in Payment
    BY DEF OneMore, IsBook
  <1>2. t[k].refundOf \in DOMAIN s => s[t[k].refundOf].kind = "cash"
    BY <1>1 DEF BookSound, RefundsMatch
  <1>3. RefundsMatch(s)
    BY <1>1 DEF BookSound, RefundsMatch, RefundsIn
  <1>4. ASSUME NEW p \in DOMAIN s PROVE OnAccountIn(s, p) >= 0
    <2>1. OnAccountIn(t, p) = OnAccountIn(s, p) - (IF t[k].refundOf = p THEN t[k].amount ELSE 0)
      BY <1>2, OneMoreOnAccount
    <2>2. OnAccountIn(s, p) \in Int /\ OnAccountIn(t, p) >= 0 /\ t[k].amount \in Nat
      BY <1>1, BookSums, Fields DEF BookSound
    <2>3. QED
      BY <2>1, <2>2
  <1>5. QED
    BY <1>1, <1>2, <1>3, <1>4 DEF BookSound

LEMMA GoesFurtherSoundly ==
  ASSUME NEW s, NEW t, NEW k, IsBook(s), IsBook(t), Further(s, t, k),
         BookSound(s), OnAccountIn(t, k) >= 0
  PROVE  BookSound(t)
  <1>1. /\ DOMAIN t = DOMAIN s /\ k \in DOMAIN s /\ \A p \in DOMAIN s : p # k => t[p] = s[p]
        /\ \A p \in DOMAIN s : /\ t[p].refundOf = s[p].refundOf /\ t[p].kind = s[p].kind
                               /\ t[p].direction = s[p].direction /\ t[p].line = s[p].line
    BY DEF Further
  <1>2. RefundsMatch(t)
    BY <1>1 DEF BookSound, RefundsMatch
  <1>3. ASSUME NEW p \in DOMAIN s, p # k PROVE OnAccountIn(t, p) >= 0
    <2>1. OnAccountIn(t, p) = OnAccountIn(s, p) - 0 /\ OnAccountIn(s, p) \in Int
      BY <1>3, FurtherOnAccount, BookSums
    <2>2. QED
      BY <2>1 DEF BookSound
  <1>4. \A p, q \in DOMAIN t : (t[p].line = t[q].line /\ t[p].line # NoLine) => p = q
    BY <1>1 DEF BookSound
  <1>5. QED
    BY <1>1, <1>2, <1>3, <1>4 DEF BookSound

------------------------------------------------------------------------------
(* Rows of the documents. *)

Posted(d) == docs[d].status # "none"

RowSound(d) ==
  /\ ~Posted(d) => docs[d] = NoDoc
  /\ Open(d) => /\ docs[d].outstanding = Gross[d] - docs[d].paid
                /\ docs[d].status = StatusAt(d, docs[d].paid)
  /\ ~Open(d) => docs[d].outstanding = 0
  /\ docs[d].status = "void" => docs[d].paid = 0
  /\ docs[d].status = "written_off" => docs[d].writtenOff = Gross[d] - docs[d].paid
  /\ (docs[d].deferred \/ docs[d].status # "written_off") => docs[d].relief = 0

DocsTypeOK == docs \in [Docs -> Doc] /\ \A d \in Docs : Towards(d, docs[d].paid)

\* The VAT a document's posting, and relief claimed on it, leave declared.
BaseVat(d) ==
  IF docs[d].deferred \/ docs[d].status \in {"none", "void"} THEN 0
  ELSE Vat[d] - docs[d].relief

OutstandingInAll == Total([d \in Docs |-> docs[d].outstanding])

\* What may be settled: open documents, none beyond what it is for.
Payable(by) ==
  \A d \in Docs : by[d] # 0 => Open(d) /\ Towards(d, docs[d].paid + by[d])

\* What is settled keeps what is paid within what each document is for, but of
\* those named twice.
StaysWithin(by, twice) ==
  \A d \in Docs \ twice :
    Abs(docs[d].paid) <= Abs(Gross[d]) => Abs(docs[d].paid + by[d]) <= Abs(Gross[d])

(* Settling changes what is paid of the documents settled, and what is left of
   them by as much. *)
LEMMA SettleKeeps ==
  ASSUME DocsTypeOK, \A d \in Docs : RowSound(d),
         NEW by \in [Docs -> Int], Payable(by), docs' = Settle(by)
  PROVE  /\ DocsTypeOK' /\ \A d \in Docs : RowSound(d)'
         /\ \A d \in Docs : /\ docs'[d].paid = docs[d].paid + by[d]
                            /\ docs'[d].deferred = docs[d].deferred
                            /\ Posted(d)' = Posted(d)
                            /\ BaseVat(d)' = BaseVat(d)
         /\ OutstandingInAll' = OutstandingInAll - Total(by)
  <1>1. ASSUME NEW d \in Docs
        PROVE  /\ docs'[d] \in Doc /\ Towards(d, docs'[d].paid) /\ RowSound(d)'
               /\ docs'[d].paid = docs[d].paid + by[d]
               /\ docs'[d].outstanding = docs[d].outstanding - by[d]
               /\ docs'[d].deferred = docs[d].deferred
               /\ Posted(d)' = Posted(d)
               /\ BaseVat(d)' = BaseVat(d)
               /\ docs[d].outstanding \in Int
    <2>1. docs[d] \in Doc /\ Towards(d, docs[d].paid) /\ RowSound(d) /\ by[d] \in Int
      BY DEF DocsTypeOK
    <2>2. docs[d].paid \in Int /\ docs[d].outstanding \in Int /\ Gross[d] \in Int
      BY <2>1, Billed DEF Doc
    <2>3. CASE by[d] = 0
      <3>1. docs'[d] = docs[d]
        BY <2>3 DEF Settle
      <3>2. QED
        BY <2>1, <2>2, <2>3, <3>1 DEF RowSound, Posted, Open, BaseVat
    <2>4. CASE by[d] # 0
      <3> DEFINE paid == docs[d].paid + by[d]
      <3>1. Open(d) /\ Towards(d, paid) /\ paid \in Int
        BY <2>1, <2>2, <2>4 DEF Payable
      <3>2. docs'[d] = [docs[d] EXCEPT !.paid = paid, !.outstanding = Gross[d] - paid,
                                       !.status = StatusAt(d, paid)]
        BY <2>4 DEF Settle, WithPaid
      <3>3. StatusAt(d, paid) \in {"paid", "issued", "part_paid"}
        BY DEF StatusAt
      <3> HIDE DEF paid
      <3>4. /\ docs'[d] \in Doc
            /\ docs'[d].paid = paid /\ docs'[d].outstanding = Gross[d] - paid
            /\ docs'[d].status = StatusAt(d, paid)
            /\ docs'[d].deferred = docs[d].deferred /\ docs'[d].relief = docs[d].relief
        <4>1. PICK row, status, rest :
                 row = docs[d] /\ status = StatusAt(d, paid) /\ rest = Gross[d] - paid
          OBVIOUS
        <4>2. row \in Doc /\ status \in DocStatuses /\ rest \in Int
          BY <2>1, <2>2, <3>1, <3>3, <4>1 DEF DocStatuses
        <4>3. docs'[d] = [row EXCEPT !.paid = paid, !.outstanding = rest, !.status = status]
          BY <3>2, <4>1
        <4>4. QED
          BY <3>1, <4>1, <4>2, <4>3 DEF Doc
      <3>5. Open(d)' /\ Posted(d)' /\ Posted(d)
        BY <3>1, <3>3, <3>4 DEF Open, Posted
      <3>6. /\ docs[d].outstanding = Gross[d] - docs[d].paid /\ docs[d].relief = 0
            /\ docs[d].status \notin {"written_off", "void", "none"}
        BY <2>1, <3>1 DEF RowSound, Open
      <3>7. RowSound(d)'
        BY <3>3, <3>4, <3>5, <3>6 DEF RowSound
      <3>8. docs'[d].outstanding = docs[d].outstanding - by[d]
        BY <2>1, <2>2, <3>4, <3>6 DEF paid
      <3>9. BaseVat(d)' = BaseVat(d)
        BY <3>3, <3>4, <3>6 DEF BaseVat
      <3>10. QED
        BY <2>2, <3>1, <3>4, <3>5, <3>7, <3>8, <3>9 DEF paid
    <2>5. QED
      BY <2>3, <2>4
  <1>2. docs' \in [Docs -> Doc]
    <2>1. docs' = [d \in Docs |-> docs'[d]]
      BY DEF Settle
    <2>2. QED
      BY <1>1, <2>1
  <1>3. OutstandingInAll' = OutstandingInAll - Total(by)
    <2> DEFINE f == [d \in Docs |-> docs[d].outstanding]
               g == [d \in Docs |-> docs'[d].outstanding]
    <2>1. /\ DOMAIN f = Docs /\ DOMAIN g = Docs /\ DOMAIN by = Docs
          /\ \A d \in Docs : g[d] \in Int /\ by[d] \in Int /\ f[d] = g[d] + by[d]
      BY <1>1
    <2>2. OutstandingInAll = Total(f) /\ OutstandingInAll' = Total(g)
      BY DEF OutstandingInAll
    <2> HIDE DEF f, g
    <2>3. Total(f) = Total(g) + Total(by) /\ Total(g) \in Int /\ Total(by) \in Int
      BY <2>1, TotalSum, TotalInt, DocumentsAssumption
    <2>4. QED
      BY <2>2, <2>3
  <1>4. QED
    BY <1>1, <1>2, <1>3 DEF DocsTypeOK

------------------------------------------------------------------------------
(* What each payment's row says of itself: what its journals moved is what it
   settled, wrote off, left over or paid back, and the VAT it released. *)

Moved(row, a) == row.moved[a] + row.later[a]
AllocatedIn(row) == Plus(row.settled, row.shortfall)

SettlesSoundly(row) ==
  \A d \in Docs :
    /\ d \in Invoices => row.settled[d] >= 0
    /\ d \notin Invoices => row.settled[d] <= 0 /\ row.shortfall[d] = 0
    /\ row.settled[d] = 0 => row.shortfall[d] = 0 /\ row.released[d] = 0

CashSound(row) ==
  /\ row.refundOf = 0
  /\ Moved(row, "vat") = -Total(row.released)
  /\ row.direction = "received" =>
       /\ Moved(row, "debtors") = -row.amount - Total(row.shortfall)
       /\ Moved(row, "creditors") = 0
  /\ row.direction = "made" =>
       /\ row.shortfall = Nil
       /\ Moved(row, "debtors") = -Total(row.settled)
       /\ Moved(row, "creditors") = row.amount + Total(row.settled)

RefundSound(row) ==
  /\ row.refundOf # 0
  /\ row.settled = Nil /\ row.shortfall = Nil /\ row.released = Nil
  /\ Moved(row, "vat") = 0
  /\ row.direction = "made" =>
       Moved(row, "debtors") = row.amount /\ Moved(row, "creditors") = 0
  /\ row.direction = "received" =>
       Moved(row, "debtors") = 0 /\ Moved(row, "creditors") = -row.amount

OffsetSound(row) ==
  /\ row.refundOf = 0 /\ row.line = NoLine /\ Total(row.settled) = 0
  /\ row.shortfall = Nil /\ row.released = Nil
  /\ row.moved = Nothing /\ row.later = Nothing

Sound(row) ==
  /\ SettlesSoundly(row)
  /\ row.kind = "cash" => CashSound(row)
  /\ row.kind = "refund" => RefundSound(row)
  /\ row.kind = "offset" => OffsetSound(row)

\* What a payment adds to what is held of money going that way.
Adding(row, direction) ==
  (IF row.direction = direction THEN Left(row) ELSE 0)
    - (IF row.refundOf # 0 /\ row.direction # direction THEN row.amount ELSE 0)

LEMMA NilTotals == Total(Nil) = 0 /\ Nil \in [Docs -> Int] /\ Nothing \in [Accounts -> Int]
  <1>1. Nil \in [Docs -> Int] /\ \A d \in Docs : Nil[d] = 0
    BY DEF Nil
  <1>2. QED
    BY <1>1, TotalZero, DocumentsAssumption DEF Nothing

(* What a sound row's journals moved, in those terms. *)
LEMMA SoundMoves ==
  ASSUME NEW row \in Payment, Sound(row)
  PROVE  /\ AllocatedIn(row) \in [Docs -> Int]
         /\ Total(AllocatedIn(row)) \in Int
         /\ \A dir \in {"received", "made"} : Adding(row, dir) \in Int
         /\ Moved(row, "debtors") = -Total(AllocatedIn(row)) - Adding(row, "received")
         /\ Moved(row, "creditors") = Adding(row, "made")
         /\ Moved(row, "vat") = -Total(row.released)
  <1> DEFINE st == Total(row.settled)
             sh == Total(row.shortfall)
             al == Total(AllocatedIn(row))
  <1>1. /\ AllocatedIn(row) \in [Docs -> Int] /\ al = st + sh
        /\ st \in Int /\ sh \in Int
    <2>1. /\ row.settled \in [Docs -> Int] /\ row.shortfall \in [Docs -> Int]
          /\ DOMAIN row.settled = Docs /\ DOMAIN row.shortfall = Docs
          /\ st \in Int /\ sh \in Int
      BY Fields
    <2>2. AllocatedIn(row) = [d \in Docs |-> row.settled[d] + row.shortfall[d]]
      BY <2>1 DEF AllocatedIn, Plus
    <2>3. AllocatedIn(row) \in [Docs -> Int]
      BY <2>1, <2>2
    <2>4. al = st + sh
      BY <2>1, <2>2, TotalPlus, DocumentsAssumption
    <2>5. QED
      BY <2>1, <2>3, <2>4
  <1>2. /\ row.amount \in Nat /\ row.kind \in {"cash", "offset", "refund"}
        /\ row.direction \in {"received", "made"}
    BY Fields DEF Kinds
  <1>3. Total(row.shortfall) = sh /\ Total(row.settled) = st
    OBVIOUS
  <1>4. /\ row.shortfall = Nil => sh = 0
        /\ row.settled = Nil => st = 0
        /\ row.released = Nil => Total(row.released) = 0
    BY NilTotals
  <1>5. \A a \in Accounts : row.moved = Nothing /\ row.later = Nothing => Moved(row, a) = 0
    BY DEF Moved, Nothing
  <1> HIDE DEF st, sh, al
  <1>6. CASE row.kind = "cash"
    <2>1. CashSound(row)
      BY <1>6 DEF Sound
    <2>2. CASE row.direction = "received"
      <3>1. Adding(row, "received") = row.amount - st /\ Adding(row, "made") = 0
        BY <1>1, <1>2, <1>3, <1>6, <2>1, <2>2 DEF Adding, Left, CashSound
      <3>2. /\ Moved(row, "debtors") = -row.amount - sh /\ Moved(row, "creditors") = 0
            /\ Moved(row, "vat") = -Total(row.released)
        BY <1>3, <2>1, <2>2 DEF CashSound
      <3>3. QED
        BY <1>1, <1>2, <3>1, <3>2 DEF al
    <2>3. CASE row.direction = "made"
      <3>1. Adding(row, "made") = row.amount + st /\ Adding(row, "received") = 0
        BY <1>1, <1>2, <1>3, <1>6, <2>1, <2>3 DEF Adding, Left, CashSound
      <3>2. /\ Moved(row, "debtors") = -st /\ Moved(row, "creditors") = row.amount + st
            /\ Moved(row, "vat") = -Total(row.released) /\ sh = 0
        BY <1>3, <1>4, <2>1, <2>3 DEF CashSound
      <3>3. QED
        BY <1>1, <1>2, <3>1, <3>2 DEF al
    <2>4. QED
      BY <1>2, <2>2, <2>3
  <1>7. CASE row.kind = "refund"
    <2>1. RefundSound(row)
      BY <1>7 DEF Sound
    <2>2. al = 0 /\ Total(row.released) = 0
      BY <1>1, <1>4, <2>1 DEF RefundSound
    <2>3. Left(row) = 0
      BY <1>7 DEF Left
    <2>4. CASE row.direction = "received"
      <3>1. Adding(row, "received") = 0 /\ Adding(row, "made") = -row.amount
        BY <1>2, <2>1, <2>3, <2>4 DEF Adding, RefundSound
      <3>2. /\ Moved(row, "debtors") = 0 /\ Moved(row, "creditors") = -row.amount
            /\ Moved(row, "vat") = 0
        BY <2>1, <2>4 DEF RefundSound
      <3>3. /\ Moved(row, "debtors") = -al - Adding(row, "received")
            /\ Moved(row, "creditors") = Adding(row, "made")
            /\ Moved(row, "vat") = -Total(row.released)
        BY <2>2, <3>1, <3>2
      <3>4. \A dir \in {"received", "made"} : Adding(row, dir) \in Int
        BY <1>2, <3>1
      <3>5. QED
        BY <1>1, <3>3, <3>4 DEF al
    <2>5. CASE row.direction = "made"
      <3>1. Adding(row, "received") = -row.amount /\ Adding(row, "made") = 0
        BY <1>2, <2>1, <2>3, <2>5 DEF Adding, RefundSound
      <3>2. /\ Moved(row, "debtors") = row.amount /\ Moved(row, "creditors") = 0
            /\ Moved(row, "vat") = 0
        BY <2>1, <2>5 DEF RefundSound
      <3>3. QED
        BY <1>1, <1>2, <2>2, <3>1, <3>2 DEF al
    <2>6. QED
      BY <1>2, <2>4, <2>5
  <1>8. CASE row.kind = "offset"
    <2>1. OffsetSound(row)
      BY <1>8 DEF Sound
    <2>2. al = 0 /\ Total(row.released) = 0
      BY <1>1, <1>3, <1>4, <2>1 DEF OffsetSound
    <2>3. Adding(row, "received") = 0 /\ Adding(row, "made") = 0
      BY <1>8, <2>1 DEF Adding, Left, OffsetSound
    <2>4. Moved(row, "debtors") = 0 /\ Moved(row, "creditors") = 0 /\ Moved(row, "vat") = 0
      BY <1>5, <2>1 DEF OffsetSound, Accounts
    <2>5. /\ Moved(row, "debtors") = -al - Adding(row, "received")
          /\ Moved(row, "vat") = -Total(row.released)
      BY <2>2, <2>3, <2>4
    <2>6. \A dir \in {"received", "made"} : Adding(row, dir) \in Int
      BY <2>3
    <2>7. QED
      BY <1>1, <2>3, <2>4, <2>5, <2>6 DEF al
  <1>9. QED
    BY <1>2, <1>6, <1>7, <1>8

(* And what is held once one more stands. *)
LEMMA OneMoreHeld ==
  ASSUME NEW s, NEW t, NEW k, IsBook(s), IsBook(t), OneMore(s, t, k),
         BookSound(s), BookSound(t), RefundsIn(t, k) = {}
  PROVE  \A dir \in {"received", "made"} :
           HeldIn(t, dir) = HeldIn(s, dir) + Adding(t[k], dir)
  <1>1. /\ k \in DOMAIN t /\ t[k] \in Payment /\ \A p \in DOMAIN s : t[p] = s[p]
        /\ DOMAIN t = DOMAIN s \cup {k} /\ k \notin DOMAIN s
    BY DEF OneMore, IsBook
  <1> DEFINE o == t[k].refundOf
  <1>2. /\ o \in DOMAIN s => s[o].kind = "cash"
        /\ o # 0 => o \in DOMAIN s /\ s[o].direction # t[k].direction
    BY <1>1, LeavesSoundly DEF BookSound, RefundsMatch
  <1>3. ASSUME NEW dir \in {"received", "made"}
        PROVE  HeldIn(t, dir) = HeldIn(s, dir) + Adding(t[k], dir)
    <2>1. HeldIn(t, dir) =
              HeldIn(s, dir) + (IF t[k].direction = dir THEN Left(t[k]) ELSE 0)
                - (IF o \in Going(s, dir) THEN t[k].amount ELSE 0)
      BY <1>2, OneMoreOnAccount
    <2>2. o \in Going(s, dir) <=> o # 0 /\ t[k].direction # dir
      <3>1. o = 0 => o \notin Going(s, dir)
        BY DEF Going, BookSound
      <3>2. o # 0 => s[o] \in Payment
        BY <1>2 DEF IsBook
      <3>3. o # 0 => s[o].direction \in {"received", "made"}
        BY <3>2, Fields
      <3>4. t[k].direction \in {"received", "made"}
        BY <1>1, Fields
      <3>5. QED
        BY <1>2, <3>1, <3>3, <3>4 DEF Going
    <2>3. HeldIn(s, dir) \in Int /\ Left(t[k]) \in Int /\ t[k].amount \in Int
      BY <1>1, BookSums, Fields
    <2> HIDE DEF o
    <2>4. (IF o \in Going(s, dir) THEN t[k].amount ELSE 0) =
            (IF t[k].refundOf # 0 /\ t[k].direction # dir THEN t[k].amount ELSE 0)
      BY <2>2 DEF o
    <2>5. QED
      BY <2>1, <2>3, <2>4 DEF Adding
  <1>4. QED
    BY <1>3

------------------------------------------------------------------------------
(* The inductive invariant. *)

\* Of a list of payments, those not reversed; and those that stand, as a book.
BookOf(list) == [p \in {q \in DOMAIN list : ~list[q].reversed} |-> list[p]]
InForce == BookOf(payments)

SettlesWhatIsPosted ==
  \A p \in DOMAIN payments, d \in Docs : payments[p].settled[d] # 0 => Posted(d)

PostedLines == posted = {payments[p].line : p \in Standing} \ {NoLine}

DocsSound ==
  \A d \in Docs : /\ RowSound(d)
                  /\ docs[d].paid = PaidIn(InForce, d)
                  /\ declared[d] = BaseVat(d) + ReleasedIn(InForce, d)

Controlled ==
  /\ ledger.debtors = OutstandingInAll - HeldIn(InForce, "received")
  /\ ledger.creditors = HeldIn(InForce, "made")
  /\ ledger.vat = -Total(declared)

PayInv ==
  /\ PaymentsTypeOK /\ Len(payments) <= MaxPayments
  /\ \A p \in DOMAIN payments : Sound(payments[p])
  /\ BookSound(InForce)
  /\ SettlesWhatIsPosted
  /\ PostedLines
  /\ DocsSound
  /\ Controlled
  /\ DeclaredIsTheShare

(* The payments that stand are finitely many, and each is a row of the list. *)
LEMMA BookOfAList ==
  ASSUME NEW list \in Seq(Payment)
  PROVE  /\ IsBook(BookOf(list)) /\ DOMAIN list = 1..Len(list) /\ Len(list) \in Nat
         /\ DOMAIN BookOf(list) = {q \in DOMAIN list : ~list[q].reversed}
         /\ \A p \in DOMAIN list : list[p] \in Payment
         /\ \A p \in DOMAIN BookOf(list) : p \in DOMAIN list /\ BookOf(list)[p] = list[p]
  <1> DEFINE D == {q \in DOMAIN list : ~list[q].reversed}
  <1>1. DOMAIN list = 1..Len(list) /\ Len(list) \in Nat
    BY SeqDef
  <1>2. IsFiniteSet(D)
    <2>1. IsFiniteSet(DOMAIN list)
      BY <1>1, FS_Interval
    <2>2. D \subseteq DOMAIN list
      OBVIOUS
    <2>3. QED
      BY <2>1, <2>2, FS_Subset
  <1>3. \A p \in DOMAIN list : list[p] \in Payment
    BY <1>1
  <1>4. QED
    BY <1>1, <1>2, <1>3 DEF IsBook, BookOf

LEMMA InForceIsABook ==
  ASSUME payments \in Seq(Payment)
  PROVE  /\ IsBook(InForce) /\ DOMAIN InForce = Standing
         /\ \A p \in Standing : InForce[p] = payments[p] /\ payments[p] \in Payment
         /\ Standing \subseteq DOMAIN payments
  BY BookOfAList DEF InForce, Standing

(* What the properties ask of the payments that stand is what is asked of a book. *)
LEMMA AskedOfABook ==
  ASSUME payments \in Seq(Payment)
  PROVE  /\ \A d : Total([p \in Standing |->
                     payments[p].settled[d] + payments[p].shortfall[d]]) = PaidIn(InForce, d)
         /\ \A p \in Standing : /\ OnAccount(p) = OnAccountIn(InForce, p)
                                /\ RefundsOf(p) = RefundsIn(InForce, p)
         /\ \A dir : Total([p \in {q \in Standing : payments[q].direction = dir} |->
                       OnAccount(p)]) = HeldIn(InForce, dir)
  <1>1. /\ DOMAIN InForce = Standing /\ IsBook(InForce)
        /\ \A p \in Standing : InForce[p] = payments[p] /\ payments[p] \in Payment
    BY InForceIsABook
  <1>2. ASSUME NEW d
        PROVE  Total([p \in Standing |-> payments[p].settled[d] + payments[p].shortfall[d]])
                 = PaidIn(InForce, d)
    <2>1. [p \in Standing |-> payments[p].settled[d] + payments[p].shortfall[d]]
            = [p \in DOMAIN InForce |-> InForce[p].settled[d] + InForce[p].shortfall[d]]
      BY <1>1
    <2>2. QED
      BY <2>1 DEF PaidIn
  <1>3. ASSUME NEW p \in Standing
        PROVE  OnAccount(p) = OnAccountIn(InForce, p) /\ RefundsOf(p) = RefundsIn(InForce, p)
    <2>1. RefundsOf(p) = RefundsIn(InForce, p)
      BY <1>1 DEF RefundsOf, RefundsIn
    <2>2. [r \in RefundsOf(p) |-> payments[r].amount]
            = [r \in RefundsIn(InForce, p) |-> InForce[r].amount]
      BY <1>1, <2>1 DEF RefundsOf
    <2>3. PICK refunded \in Int :
            /\ refunded = Total([r \in RefundsOf(p) |-> payments[r].amount])
            /\ refunded = RefundedIn(InForce, p)
      BY <1>1, <2>2, BookSums DEF RefundedIn
    <2>4. PICK applied \in Int : applied = Total(payments[p].settled)
      BY <1>1, Fields
    <2>5. payments[p].amount \in Int
      BY <1>1, Fields
    <2>6. OnAccount(p) = IF payments[p].kind # "cash" THEN 0
                         ELSE payments[p].amount - refunded
                                - (IF payments[p].direction = "made" THEN -applied ELSE applied)
      BY <2>3, <2>4 DEF OnAccount
    <2>7. OnAccountIn(InForce, p) =
            IF payments[p].kind # "cash" THEN 0
            ELSE (IF payments[p].direction = "made" THEN payments[p].amount + applied
                  ELSE payments[p].amount - applied) - refunded
      BY <1>1, <2>3, <2>4 DEF OnAccountIn, Left
    <2>8. QED
      BY <2>1, <2>5, <2>6, <2>7
  <1>4. ASSUME NEW dir
        PROVE  Total([p \in {q \in Standing : payments[q].direction = dir} |-> OnAccount(p)])
                 = HeldIn(InForce, dir)
    <2>1. {q \in Standing : payments[q].direction = dir} = Going(InForce, dir)
      BY <1>1 DEF Going
    <2>2. \A p \in Going(InForce, dir) : OnAccount(p) = OnAccountIn(InForce, p)
      BY <1>1, <1>3 DEF Going
    <2>3. [p \in {q \in Standing : payments[q].direction = dir} |-> OnAccount(p)]
            = [p \in Going(InForce, dir) |-> OnAccountIn(InForce, p)]
      BY <2>1, <2>2
    <2>4. QED
      BY <2>3 DEF HeldIn
  <1>5. QED
    BY <1>2, <1>3, <1>4

\* A step that settles `by', releases `released' of the VAT and moves `moved' in
\* the ledger, while the payments that stand come to say that as well.
Together(by, released, moved, received, made) ==
  /\ by \in [Docs -> Int] /\ Payable(by) /\ docs' = Settle(by)
  /\ released \in [Docs -> Int] /\ declared' = Plus(declared, released)
  /\ moved \in [Accounts -> Int] /\ ledger' = Plus(ledger, moved)
  /\ received \in Int /\ made \in Int
  /\ HeldIn(InForce, "received")' = HeldIn(InForce, "received") + received
  /\ HeldIn(InForce, "made")' = HeldIn(InForce, "made") + made
  /\ \A d \in Docs : /\ PaidIn(InForce, d)' = PaidIn(InForce, d) + by[d]
                     /\ ReleasedIn(InForce, d)' = ReleasedIn(InForce, d) + released[d]
  /\ moved.debtors = -Total(by) - received
  /\ moved.creditors = made
  /\ moved.vat = -Total(released)

(* After it the rows of the documents, what is declared and the control accounts
   agree again. *)
LEMMA TogetherTheyAgree ==
  ASSUME PaymentsTypeOK, DocsSound, Controlled,
         NEW by, NEW released, NEW moved, NEW received, NEW made,
         Together(by, released, moved, received, made)
  PROVE  /\ DocsTypeOK' /\ ledger' \in [Accounts -> Int] /\ declared' \in [Docs -> Int]
         /\ DocsSound' /\ Controlled'
         /\ \A d \in Docs : /\ Posted(d)' = Posted(d)
                            /\ docs'[d].paid = docs[d].paid + by[d]
                            /\ docs'[d].deferred = docs[d].deferred
                            /\ declared'[d] = declared[d] + released[d]
  <1>0. /\ by \in [Docs -> Int] /\ Payable(by) /\ docs' = Settle(by)
        /\ released \in [Docs -> Int] /\ declared' = Plus(declared, released)
        /\ moved \in [Accounts -> Int] /\ ledger' = Plus(ledger, moved)
        /\ received \in Int /\ made \in Int
        /\ HeldIn(InForce, "received")' = HeldIn(InForce, "received") + received
        /\ HeldIn(InForce, "made")' = HeldIn(InForce, "made") + made
        /\ \A d \in Docs : /\ PaidIn(InForce, d)' = PaidIn(InForce, d) + by[d]
                           /\ ReleasedIn(InForce, d)' = ReleasedIn(InForce, d) + released[d]
        /\ moved.debtors = -Total(by) - received
        /\ moved.creditors = made
        /\ moved.vat = -Total(released)
        /\ payments \in Seq(Payment)
    BY DEF Together, PaymentsTypeOK
  <1>1. /\ DocsTypeOK /\ ledger \in [Accounts -> Int] /\ declared \in [Docs -> Int]
        /\ \A d \in Docs : RowSound(d)
    BY DEF PaymentsTypeOK, DocsTypeOK, DocsSound
  <1>2. /\ DocsTypeOK' /\ \A d \in Docs : RowSound(d)'
        /\ \A d \in Docs : /\ docs'[d].paid = docs[d].paid + by[d]
                           /\ docs'[d].deferred = docs[d].deferred
                           /\ Posted(d)' = Posted(d)
                           /\ BaseVat(d)' = BaseVat(d)
        /\ OutstandingInAll' = OutstandingInAll - Total(by)
    BY <1>0, <1>1, SettleKeeps
  <1>3. /\ DOMAIN ledger = Accounts /\ DOMAIN declared = Docs
        /\ \A d \in Docs : declared[d] \in Int /\ released[d] \in Int
        /\ \A a \in Accounts : ledger[a] \in Int /\ moved[a] \in Int
    BY <1>0, <1>1
  <1>4. /\ ledger' = [a \in Accounts |-> ledger[a] + moved[a]]
        /\ declared' = [d \in Docs |-> declared[d] + released[d]]
    BY <1>0, <1>3 DEF Plus
  <1>5. ledger' \in [Accounts -> Int] /\ declared' \in [Docs -> Int]
    BY <1>3, <1>4
  <1>6. /\ ledger'.debtors = ledger.debtors + moved.debtors
        /\ ledger'.creditors = ledger.creditors + moved.creditors
        /\ ledger'.vat = ledger.vat + moved.vat
        /\ ledger.debtors \in Int /\ ledger.creditors \in Int /\ ledger.vat \in Int
        /\ moved.debtors \in Int /\ moved.creditors \in Int /\ moved.vat \in Int
    BY <1>3, <1>4 DEF Accounts
  <1>7. ASSUME NEW d \in Docs
        PROVE  /\ RowSound(d)' /\ (docs[d].paid)' = PaidIn(InForce, d)'
               /\ (declared[d])' = BaseVat(d)' + ReleasedIn(InForce, d)'
               /\ (declared[d])' = declared[d] + released[d]
    <2>1. IsBook(InForce)
      BY <1>0, InForceIsABook
    <2>2. /\ PaidIn(InForce, d) \in Int /\ ReleasedIn(InForce, d) \in Int
          /\ declared[d] \in Int /\ released[d] \in Int
      BY <1>3, <2>1, BookSums
    <2>3. docs[d] \in Doc
      BY <1>1 DEF DocsTypeOK
    <2>4. BaseVat(d) \in Int
      BY <2>3, Billed DEF BaseVat, Doc
    <2>5. /\ docs[d].paid = PaidIn(InForce, d)
          /\ declared[d] = BaseVat(d) + ReleasedIn(InForce, d)
      BY DEF DocsSound
    <2>6. (declared[d])' = declared[d] + released[d]
      BY <1>4
    <2>7. (docs[d].paid)' = docs[d].paid + by[d]
      BY <1>2
    <2>8. PaidIn(InForce, d)' = PaidIn(InForce, d) + by[d]
          /\ ReleasedIn(InForce, d)' = ReleasedIn(InForce, d) + released[d]
      BY <1>0
    <2>9. BaseVat(d)' = BaseVat(d) /\ RowSound(d)'
      BY <1>2
    <2>10. QED
      BY <2>2, <2>4, <2>5, <2>6, <2>7, <2>8, <2>9
  <1>8. DocsSound'
    BY <1>7 DEF DocsSound
  <1>9. Controlled'
    <2>1. Total(declared') = Total(declared) + Total(released)
      <3>1. IsFiniteSet(Docs) /\ declared \in [Docs -> Int] /\ released \in [Docs -> Int]
        BY <1>0, <1>1, DocumentsAssumption
      <3>2. Total([d \in Docs |-> declared[d] + released[d]]) = Total(declared) + Total(released)
        BY <3>1, TotalPlus
      <3>3. QED
        BY <1>4, <3>2
    <2>2. Total(declared) \in Int /\ Total(released) \in Int /\ Total(by) \in Int
      BY <1>0, <1>1, TotalType, DocumentsAssumption
    <2>3. OutstandingInAll \in Int
      <3>1. \A d \in Docs : docs[d].outstanding \in Int
        BY <1>1 DEF DocsTypeOK, Doc
      <3>2. QED
        BY <3>1, TotalInt, DocumentsAssumption DEF OutstandingInAll
    <2>4. IsBook(InForce)
      BY <1>0, InForceIsABook
    <2>5. HeldIn(InForce, "received") \in Int /\ HeldIn(InForce, "made") \in Int
      BY <2>4, BookSums
    <2>6. /\ ledger.debtors = OutstandingInAll - HeldIn(InForce, "received")
          /\ ledger.creditors = HeldIn(InForce, "made")
          /\ ledger.vat = -Total(declared)
      BY DEF Controlled
    <2>7. ledger'.debtors = OutstandingInAll' - HeldIn(InForce, "received")'
      <3>1. OutstandingInAll' = OutstandingInAll - Total(by)
        BY <1>2
      <3>2. moved.debtors = -Total(by) - received /\ ledger'.debtors = ledger.debtors + moved.debtors
        BY <1>0, <1>6
      <3>3. HeldIn(InForce, "received")' = HeldIn(InForce, "received") + received
                /\ received \in Int
        BY <1>0
      <3>4. QED
        BY ONLY <2>2, <2>3, <2>5, <2>6, <3>1, <3>2, <3>3
    <2>8. ledger'.creditors = HeldIn(InForce, "made")'
      BY <1>0, <1>6, <2>5, <2>6
    <2>9. ledger'.vat = -Total(declared')
      BY <1>0, <1>6, <2>1, <2>2, <2>6
    <2>10. QED
      BY <2>7, <2>8, <2>9 DEF Controlled
  <1>10. QED
    BY <1>2, <1>5, <1>7, <1>8, <1>9

(* A payment recorded: a row more, sound of itself and in its place among the
   payments that stand, and everything it settles, releases and moves with it. *)
LEMMA RecordKeeps ==
  ASSUME PayInv, Len(payments) < MaxPayments,
         NEW row \in Payment, Sound(row), ~row.reversed, row.later = Nothing,
         MayJoin(InForce, row), Payable(AllocatedIn(row)),
         StaysWithin(AllocatedIn(row), row.twice),
         \A d \in Docs \ row.twice :
           (docs[d].deferred /\ row.settled[d] # 0
              /\ row.kind = "cash" /\ row.direction = "received") =>
             row.released[d] = Share(d, docs[d].paid + AllocatedIn(row)[d]) - Share(d, docs[d].paid),
         payments' = Append(payments, row), docs' = Settle(AllocatedIn(row)),
         ledger' = Plus(ledger, row.moved), declared' = Plus(declared, row.released),
         posted' = NowPosted(row.line)
  PROVE  PayInv'
  <1> DEFINE k == Len(payments) + 1
             by == AllocatedIn(row)
  <1>1. /\ payments \in Seq(Payment) /\ payments' \in Seq(Payment)
        /\ Len(payments') = k /\ Len(payments) \in Nat
        /\ \A p \in DOMAIN payments : payments'[p] = payments[p]
        /\ payments'[k] = row /\ k \notin DOMAIN payments
        /\ DOMAIN payments' = DOMAIN payments \cup {k} /\ k # 0
    <2>1. payments \in Seq(Payment)
      BY DEF PayInv, PaymentsTypeOK
    <2>2. /\ payments' \in Seq(Payment) /\ Len(payments') = Len(payments) + 1
          /\ \A i \in 1..Len(payments) : payments'[i] = payments[i]
          /\ payments'[Len(payments) + 1] = row
      BY <2>1, AppendProperties
    <2>3. DOMAIN payments = 1..Len(payments) /\ Len(payments) \in Nat
      BY <2>1, BookOfAList
    <2>4. DOMAIN payments' = 1..Len(payments')
      BY <2>2, BookOfAList
    <2>5. QED
      BY <2>1, <2>2, <2>3, <2>4
  <1>2. PICK s, t : s = InForce /\ t = BookOf(payments')
    OBVIOUS
  <1>3. /\ IsBook(s) /\ IsBook(t) /\ OneMore(s, t, k) /\ t[k] = row
        /\ DOMAIN s = Standing /\ DOMAIN t = Standing'
        /\ Standing' = Standing \cup {k}
    <2>1. IsBook(s) /\ DOMAIN s = Standing /\ \A p \in Standing : s[p] = payments[p]
      BY <1>1, <1>2, InForceIsABook
    <2>2. IsBook(t) /\ DOMAIN t = Standing' /\ \A p \in Standing' : t[p] = payments'[p]
      <3>1. PICK list \in Seq(Payment) : list = payments'
        BY <1>1
      <3>2. IsBook(t) /\ \A p \in DOMAIN t : t[p] = list[p]
        BY <1>2, <3>1, BookOfAList
      <3>3. DOMAIN t = {q \in DOMAIN list : ~list[q].reversed}
        BY <1>2, <3>1, BookOfAList
      <3>4. QED
        BY <3>1, <3>2, <3>3 DEF Standing
    <2>3. Standing' = Standing \cup {k} /\ k \notin Standing
      BY <1>1 DEF Standing
    <2>4. \A p \in Standing : p \in DOMAIN payments
      BY DEF Standing
    <2> HIDE DEF k
    <2>5. QED
      BY <1>1, <2>1, <2>2, <2>3, <2>4 DEF OneMore
  <1> HIDE DEF k
  <1>4. BookSound(t) /\ RefundsIn(t, k) = {} /\ BookSound(s)
    BY <1>1, <1>2, <1>3, JoinsSoundly DEF PayInv
  <1>5. /\ by \in [Docs -> Int] /\ Total(by) \in Int
        /\ \A dir \in {"received", "made"} : Adding(row, dir) \in Int
        /\ row.moved \in [Accounts -> Int] /\ row.released \in [Docs -> Int]
        /\ row.moved.debtors = -Total(by) - Adding(row, "received")
        /\ row.moved.creditors = Adding(row, "made")
        /\ row.moved.vat = -Total(row.released)
    <2>1. /\ by \in [Docs -> Int] /\ Total(by) \in Int
          /\ \A dir \in {"received", "made"} : Adding(row, dir) \in Int
          /\ Moved(row, "debtors") = -Total(by) - Adding(row, "received")
          /\ Moved(row, "creditors") = Adding(row, "made")
          /\ Moved(row, "vat") = -Total(row.released)
      BY SoundMoves
    <2>2. row.moved \in [Accounts -> Int] /\ row.released \in [Docs -> Int]
      BY Fields
    <2>3. \A a \in Accounts : Moved(row, a) = row.moved[a]
      BY <2>2 DEF Moved, Nothing
    <2>4. QED
      BY <2>1, <2>2, <2>3 DEF Accounts
  <1>6. /\ HeldIn(InForce, "received")' = HeldIn(InForce, "received") + Adding(row, "received")
        /\ HeldIn(InForce, "made")' = HeldIn(InForce, "made") + Adding(row, "made")
    <2>1. \A dir \in {"received", "made"} : HeldIn(t, dir) = HeldIn(s, dir) + Adding(row, dir)
      BY <1>3, <1>4, OneMoreHeld
    <2>2. QED
      BY <1>2, <2>1 DEF InForce
  <1>7. ASSUME NEW d \in Docs
        PROVE  /\ PaidIn(InForce, d)' = PaidIn(InForce, d) + by[d]
               /\ ReleasedIn(InForce, d)' = ReleasedIn(InForce, d) + row.released[d]
    <2>1. /\ PaidIn(t, d) = PaidIn(s, d) + (row.settled[d] + row.shortfall[d])
          /\ ReleasedIn(t, d) = ReleasedIn(s, d) + row.released[d]
      BY <1>3, OneMoreSums
    <2>2. by[d] = row.settled[d] + row.shortfall[d]
      BY Fields DEF AllocatedIn, Plus
    <2>3. QED
      BY <1>2, <2>1, <2>2 DEF InForce
  <1> HIDE DEF by
  <1>8. /\ DocsTypeOK' /\ ledger' \in [Accounts -> Int] /\ declared' \in [Docs -> Int]
        /\ DocsSound' /\ Controlled'
        /\ \A d \in Docs : /\ Posted(d)' = Posted(d)
                           /\ docs'[d].paid = docs[d].paid + by[d]
                           /\ docs'[d].deferred = docs[d].deferred
                           /\ declared'[d] = declared[d] + row.released[d]
    <2>1. PaymentsTypeOK /\ DocsSound /\ Controlled
      BY DEF PayInv
    <2>2. Payable(by) /\ docs' = Settle(by)
      BY DEF by
    <2>3. Adding(row, "received") \in Int /\ Adding(row, "made") \in Int
      BY <1>5
    <2>4. Together(by, row.released, row.moved, Adding(row, "received"), Adding(row, "made"))
      BY <1>5, <1>6, <1>7, <2>2, <2>3 DEF Together
    <2>5. QED
      BY <2>1, <2>4, TogetherTheyAgree
  <1>9. PostedLines' /\ posted' \subseteq BankLines
    <2>1. /\ posted = {payments[p].line : p \in Standing} \ {NoLine} /\ posted \subseteq BankLines
          /\ row.line \in BankLines \cup {NoLine}
      BY Fields DEF PayInv, PostedLines, PaymentsTypeOK
    <2>2. /\ \A p \in Standing : payments'[p] = payments[p]
          /\ payments'[k] = row
      BY <1>1 DEF Standing
    <2>3. {payments'[p].line : p \in Standing'} = {payments[p].line : p \in Standing} \cup {row.line}
      BY <1>3, <2>2
    <2>4. QED
      BY <2>1, <2>3 DEF PostedLines, NowPosted
  <1>10. \A p \in DOMAIN payments' : Sound(payments'[p])
    BY <1>1 DEF PayInv
  <1>11. SettlesWhatIsPosted'
    <2>1. ASSUME NEW d \in Docs, row.settled[d] # 0 PROVE Posted(d)
      <3>1. by[d] # 0
        <4>1. by[d] = row.settled[d] + row.shortfall[d] /\ SettlesSoundly(row)
          BY Fields DEF by, AllocatedIn, Plus, Sound
        <4>2. PICK x \in Int, y \in Nat : x = row.settled[d] /\ y = row.shortfall[d]
          BY Fields
        <4>3. x > 0 \/ y = 0
          BY <2>1, <4>1, <4>2 DEF SettlesSoundly
        <4>4. QED
          BY <2>1, <4>1, <4>2, <4>3
      <3>2. Open(d)
        BY <3>1 DEF Payable, by
      <3>3. QED
        BY <3>2 DEF Open, Posted
    <2>2. QED
      BY <1>1, <1>8, <2>1 DEF SettlesWhatIsPosted, PayInv
  <1>12. DeclaredIsTheShare'
    <2>1. SUFFICES ASSUME NEW d \in Docs, docs'[d].deferred, OnlyReceipts(d)'
                   PROVE  declared'[d] = Share(d, docs'[d].paid)
      BY DEF DeclaredIsTheShare
    <2>2. docs[d].deferred /\ OnlyReceipts(d)
      <3>1. docs[d].deferred
        BY <1>8, <2>1
      <3>2. OnlyReceipts(d)
        BY <1>1, <2>1 DEF OnlyReceipts
      <3>3. QED
        BY <3>1, <3>2
    <2>3. declared[d] = Share(d, docs[d].paid)
      BY <2>2 DEF PayInv, DeclaredIsTheShare
    <2>4. declared'[d] = declared[d] + row.released[d] /\ docs'[d].paid = docs[d].paid + by[d]
      BY <1>8
    <2>5. docs[d].paid \in Int
      BY DEF PayInv, PaymentsTypeOK, Doc
    <2>6. CASE row.settled[d] = 0
      <3>1. row.released[d] = 0 /\ by[d] = 0
        <4>1. by[d] = row.settled[d] + row.shortfall[d] /\ SettlesSoundly(row)
          BY Fields DEF by, AllocatedIn, Plus, Sound
        <4>2. QED
          BY <2>6, <4>1 DEF SettlesSoundly
      <3>2. docs'[d].paid = docs[d].paid
        BY <2>4, <2>5, <3>1
      <3>3. declared[d] \in Int
        BY <2>3, <2>5, ShareIs
      <3>4. QED
        BY <2>3, <2>4, <3>1, <3>2, <3>3
    <2>7. CASE row.settled[d] # 0
      <3>1. row.kind = "cash" /\ row.direction = "received" /\ d \notin row.twice
        BY <1>1, <2>1, <2>7 DEF OnlyReceipts
      <3>2. row.released[d] = Share(d, docs[d].paid + by[d]) - Share(d, docs[d].paid)
        BY <2>2, <2>7, <3>1 DEF by
      <3>3. /\ Share(d, docs[d].paid + by[d]) \in Int /\ Share(d, docs[d].paid) \in Int
        <4>1. docs[d].paid + by[d] \in Int
          BY <1>5, <2>5
        <4>2. QED
          BY <2>5, <4>1, ShareIs
      <3>4. declared'[d] = Share(d, docs[d].paid + by[d])
        BY <2>3, <2>4, <3>2, <3>3
      <3>5. QED
        BY <2>4, <3>4
    <2>8. QED
      BY <2>6, <2>7
  <1>13. PaymentsTypeOK' /\ Len(payments') <= MaxPayments
    <2>1. PaidWithin'
      <3>1. ASSUME NEW d \in Docs, NeverNamedTwice(d)'
            PROVE  Abs(docs'[d].paid) <= Abs(Gross[d])
        <4>1. NeverNamedTwice(d) /\ d \notin row.twice
          BY <1>1, <3>1 DEF NeverNamedTwice
        <4>2. Abs(docs[d].paid) <= Abs(Gross[d])
          BY <4>1 DEF PayInv, PaymentsTypeOK, PaidWithin
        <4>3. QED
          BY <1>8, <4>1, <4>2 DEF StaysWithin, by
      <3>2. QED
        BY <3>1 DEF PaidWithin
    <2>2. QED
      BY <1>1, <1>8, <1>9, <2>1, AmountsAssumption DEF PaymentsTypeOK, DocsTypeOK, k
  <1>14. BookSound(InForce')
    BY <1>2, <1>4 DEF InForce
  <1>15. QED
    BY <1>8, <1>9, <1>10, <1>11, <1>12, <1>13, <1>14 DEF PayInv

(* What sound payments pay of a document all goes one way. *)
LEMMA PaidOneWay ==
  ASSUME NEW s, IsBook(s), \A p \in DOMAIN s : Sound(s[p]), NEW d \in Docs
  PROVE  /\ d \in Invoices => PaidIn(s, d) >= 0
         /\ d \notin Invoices => PaidIn(s, d) <= 0
  <1> DEFINE f == [p \in DOMAIN s |-> s[p].settled[d] + s[p].shortfall[d]]
             g == [p \in DOMAIN s |-> -f[p]]
  <1>1. /\ IsFiniteSet(DOMAIN s) /\ PaidIn(s, d) = Total(f)
        /\ DOMAIN f = DOMAIN s /\ DOMAIN g = DOMAIN s
    BY DEF IsBook, PaidIn
  <1>2. ASSUME NEW p \in DOMAIN s
        PROVE  /\ f[p] \in Int /\ f[p] = s[p].settled[d] + s[p].shortfall[d]
               /\ d \in Invoices => f[p] >= 0
               /\ d \notin Invoices => f[p] <= 0
    <2>1. s[p].settled[d] \in Int /\ s[p].shortfall[d] \in Nat
      BY Fields DEF IsBook
    <2>2. SettlesSoundly(s[p])
      BY DEF Sound
    <2>3. QED
      BY <2>1, <2>2 DEF SettlesSoundly
  <1>3. \A p \in DOMAIN s : g[p] = -f[p]
    OBVIOUS
  <1>4. CASE d \in Invoices
    <2>1. \A p \in DOMAIN f : f[p] \in Nat
      BY <1>1, <1>2, <1>4
    <2> HIDE DEF f
    <2>2. QED
      BY <1>1, <1>4, <2>1, TotalBounds
  <1>5. CASE d \notin Invoices
    <2>1. \A p \in DOMAIN g : g[p] \in Nat
      BY <1>1, <1>2, <1>3, <1>5
    <2>2. f \in [DOMAIN s -> Int]
      BY <1>2
    <2> HIDE DEF f
    <2>3. Total(g) = -Total(f) /\ Total(f) \in Int
      BY <1>1, <2>2, TotalMinus, TotalType
    <2> HIDE DEF g
    <2>4. Total(g) \in Nat
      BY <1>1, <2>1, TotalBounds
    <2>5. QED
      BY <1>1, <1>5, <2>3, <2>4
  <1>6. QED
    BY <1>4, <1>5

(* A row marked reversed is as sound as it was. *)
LEMMA SoundThoughReversed ==
  ASSUME NEW row \in Payment, Sound(row), NEW marked, marked = [row EXCEPT !.reversed = TRUE]
  PROVE  /\ marked \in Payment /\ marked.reversed /\ Sound(marked)
         /\ marked.settled = row.settled /\ marked.kind = row.kind
         /\ marked.direction = row.direction /\ marked.line = row.line
         /\ marked.twice = row.twice
  <1>1. /\ marked \in Payment /\ marked.reversed
        /\ marked.settled = row.settled /\ marked.kind = row.kind
        /\ marked.direction = row.direction /\ marked.line = row.line
        /\ marked.amount = row.amount /\ marked.refundOf = row.refundOf
        /\ marked.shortfall = row.shortfall /\ marked.released = row.released
        /\ marked.moved = row.moved /\ marked.later = row.later
        /\ marked.twice = row.twice
    BY DEF Payment
  <1>2. \A a : Moved(marked, a) = Moved(row, a)
    BY <1>1 DEF Moved
  <1>3. SettlesSoundly(marked)
    BY <1>1 DEF Sound, SettlesSoundly
  <1>4. marked.kind = "cash" => CashSound(marked)
    BY <1>1, <1>2 DEF Sound, CashSound
  <1>5. marked.kind = "refund" => RefundSound(marked)
    BY <1>1, <1>2 DEF Sound, RefundSound
  <1>6. marked.kind = "offset" => OffsetSound(marked)
    BY <1>1 DEF Sound, OffsetSound
  <1>7. QED
    BY <1>1, <1>3, <1>4, <1>5, <1>6 DEF Sound

(* Without a standing payment the rest of those that stand have paid towards the
   document, and no more than they have with it; and a document it settled is
   posted and not void. *)
LEMMA WithoutIt ==
  ASSUME PayInv, NEW p \in Standing, NEW s, IsBook(s), OneMore(s, InForce, p), NEW d \in Docs
  PROVE  /\ Towards(d, docs[d].paid - AllocatedIn(payments[p])[d])
         /\ Abs(docs[d].paid - AllocatedIn(payments[p])[d]) <= Abs(docs[d].paid)
         /\ AllocatedIn(payments[p])[d] \in Int /\ docs[d].paid \in Int
         /\ AllocatedIn(payments[p])[d] # 0 <=> payments[p].settled[d] # 0
         /\ payments[p].settled[d] # 0 => docs[d].status \notin {"none", "void"}
  <1> DEFINE row == payments[p]
             by == AllocatedIn(row)
  <1>1. /\ payments \in Seq(Payment) /\ IsBook(InForce) /\ InForce[p] = row
        /\ row \in Payment /\ p \in DOMAIN payments /\ p \in DOMAIN InForce
        /\ DOMAIN InForce = Standing
        /\ \A q \in Standing : InForce[q] = payments[q] /\ q \in DOMAIN payments
    BY InForceIsABook DEF PayInv, PaymentsTypeOK
  <1>2. /\ \A q \in DOMAIN s : Sound(s[q])
        /\ Sound(row)
    BY <1>1 DEF PayInv, OneMore
  <1>3. /\ row.settled[d] \in Int /\ row.shortfall[d] \in Nat
        /\ by[d] = row.settled[d] + row.shortfall[d]
    BY <1>1, Fields DEF AllocatedIn, Plus
  <1>4. /\ d \in Invoices => row.settled[d] >= 0
        /\ d \notin Invoices => row.settled[d] <= 0 /\ row.shortfall[d] = 0
        /\ row.settled[d] = 0 => row.shortfall[d] = 0
    BY <1>2 DEF Sound, SettlesSoundly
  <1>5. PaidIn(InForce, d) = PaidIn(s, d) + by[d] /\ PaidIn(s, d) \in Int
    BY <1>1, <1>3, OneMoreSums, BookSums
  <1>6. /\ docs[d].paid = PaidIn(InForce, d) /\ Towards(d, docs[d].paid)
        /\ docs[d].paid \in Int /\ RowSound(d)
    BY DEF PayInv, DocsSound, PaymentsTypeOK, Doc
  <1>7. /\ d \in Invoices => PaidIn(s, d) >= 0
        /\ d \notin Invoices => PaidIn(s, d) <= 0
    BY <1>2, PaidOneWay
  <1>8. Gross[d] \in Int
    BY Billed
  <1> HIDE DEF by, row
  <1>9. /\ Towards(d, docs[d].paid - by[d])
        /\ Abs(docs[d].paid - by[d]) <= Abs(docs[d].paid)
    <2>1. docs[d].paid - by[d] = PaidIn(s, d)
      BY <1>3, <1>5, <1>6
    <2>2. PICK x, y, z \in Int : x = PaidIn(s, d) /\ y = by[d] /\ z = docs[d].paid
      BY <1>3, <1>5, <1>6
    <2>3. z = x + y /\ IF d \in Invoices THEN 0 <= x /\ 0 <= y ELSE x <= 0 /\ y <= 0
      BY <1>3, <1>4, <1>5, <1>6, <1>7, <2>2
    <2>4. Abs(x) <= Abs(z)
      BY <2>2, <2>3 DEF Abs
    <2>5. QED
      BY <1>5, <1>7, <2>1, <2>2, <2>4, TowardsIs
  <1>10. row.settled[d] # 0 => docs[d].status \notin {"none", "void"}
    <2>1. SUFFICES ASSUME row.settled[d] # 0 PROVE docs[d].status \notin {"none", "void"}
      OBVIOUS
    <2>2. docs[d].paid # 0
      <3>1. PICK x, y, z \in Int : x = row.settled[d] /\ y = row.shortfall[d] /\ z = PaidIn(s, d)
        BY <1>3, <1>5
      <3>2. docs[d].paid = z + (x + y) /\ x # 0 /\ y >= 0
        BY <1>3, <1>5, <1>6, <2>1, <3>1
      <3>3. IF d \in Invoices THEN x >= 0 /\ z >= 0 ELSE x <= 0 /\ y = 0 /\ z <= 0
        BY <1>4, <1>7, <3>1
      <3>4. z + (x + y) # 0
        BY <3>2, <3>3
      <3>5. QED
        BY <3>2, <3>4
    <2>3. Posted(d)
      BY <1>1, <2>1 DEF PayInv, SettlesWhatIsPosted, row
    <2>4. QED
      BY <1>6, <2>2, <2>3 DEF RowSound, Posted
  <1>11. by[d] \in Int /\ (by[d] # 0 <=> row.settled[d] # 0)
    <2>1. PICK x \in Int, y \in Nat : x = row.settled[d] /\ y = row.shortfall[d] /\ by[d] = x + y
      BY <1>3
    <2>2. IF d \in Invoices THEN x >= 0 ELSE y = 0
      BY <1>4, <2>1
    <2>3. x = 0 => y = 0
      BY <1>4, <2>1
    <2>4. x + y \in Int /\ (x + y # 0 <=> x # 0)
      BY <2>2, <2>3
    <2>5. QED
      BY ONLY <2>1, <2>4
  <1>12. QED
    BY <1>6, <1>9, <1>10, <1>11 DEF by, row

(* A payment taken back: it stands no longer, and everything it settled, released
   and moved is undone with it. *)
LEMMA TakeBackKeeps ==
  ASSUME PayInv, NEW p \in Standing, RefundsOf(p) = {},
         \A d \in Docs : payments[p].settled[d] # 0 => Open(d),
         payments' = [payments EXCEPT ![p].reversed = TRUE],
         docs' = Settle(Negated(AllocatedIn(payments[p]))),
         ledger' = Plus(ledger, Reversal(p)),
         declared' = Plus(declared, Negated(payments[p].released)),
         posted' = posted \ {payments[p].line}
  PROVE  PayInv'
  <1>1. PICK row, marked : /\ row = payments[p] /\ marked = [row EXCEPT !.reversed = TRUE]
    OBVIOUS
  <1> DEFINE by == AllocatedIn(row)
  <1>2. /\ payments \in Seq(Payment) /\ p \in DOMAIN payments /\ row \in Payment /\ Sound(row)
        /\ IsBook(InForce) /\ InForce[p] = row /\ DOMAIN InForce = Standing
        /\ \A q \in Standing : InForce[q] = payments[q] /\ q \in DOMAIN payments
        /\ DOMAIN payments = 1..Len(payments) /\ Len(payments) \in Nat
    BY <1>1, InForceIsABook, BookOfAList DEF PayInv, PaymentsTypeOK
  <1>3. /\ marked \in Payment /\ marked.reversed /\ Sound(marked)
        /\ marked.settled = row.settled /\ marked.kind = row.kind
        /\ marked.direction = row.direction /\ marked.line = row.line
        /\ marked.twice = row.twice
    BY <1>1, <1>2, SoundThoughReversed
  <1>4. /\ payments' \in Seq(Payment) /\ Len(payments') = Len(payments)
        /\ DOMAIN payments' = DOMAIN payments /\ payments'[p] = marked
        /\ \A q \in DOMAIN payments : q # p => payments'[q] = payments[q]
    <2>1. payments' = [payments EXCEPT ![p] = marked]
      BY <1>1, <1>2
    <2>2. p \in 1..Len(payments)
      BY <1>2
    <2>3. /\ payments' \in Seq(Payment) /\ Len(payments') = Len(payments)
          /\ \A q \in 1..Len(payments) : payments'[q] = IF q = p THEN marked ELSE payments[q]
      <3>1. PICK list \in Seq(Payment) : list = payments
        BY <1>2
      <3>2. p \in 1..Len(list) /\ payments' = [list EXCEPT ![p] = marked]
        BY <2>1, <2>2, <3>1
      <3>3. /\ [list EXCEPT ![p] = marked] \in Seq(Payment)
            /\ Len([list EXCEPT ![p] = marked]) = Len(list)
            /\ \A q \in 1..Len(list) :
                 [list EXCEPT ![p] = marked][q] = IF q = p THEN marked ELSE list[q]
        BY <1>3, <3>2, ExceptSeq
      <3>4. QED
        BY <3>1, <3>2, <3>3
    <2>4. DOMAIN payments' = 1..Len(payments')
      BY <2>3, BookOfAList
    <2>5. QED
      BY <1>2, <2>2, <2>3, <2>4
  <1>5. PICK s, t : s = BookOf(payments') /\ t = InForce
    OBVIOUS
  <1>6. /\ IsBook(s) /\ IsBook(t) /\ OneMore(s, t, p) /\ t[p] = row
        /\ DOMAIN s = Standing' /\ Standing' = Standing \ {p}
    <2>1. PICK list \in Seq(Payment) : list = payments'
      BY <1>4
    <2>2. IsBook(s) /\ \A q \in DOMAIN s : s[q] = list[q]
      BY <1>5, <2>1, BookOfAList
    <2>3. DOMAIN s = {q \in DOMAIN list : ~list[q].reversed}
      BY <1>5, <2>1, BookOfAList
    <2>4. DOMAIN s = Standing'
      BY <2>1, <2>3 DEF Standing
    <2>5. Standing' = Standing \ {p}
      BY <1>3, <1>4 DEF Standing
    <2>6. \A q \in Standing' : q # p /\ q \in DOMAIN payments /\ s[q] = payments[q]
      BY <1>2, <1>4, <2>1, <2>2, <2>4, <2>5
    <2>7. QED
      BY <1>2, <1>5, <2>2, <2>4, <2>5, <2>6 DEF OneMore
  <1>7. BookSound(t) /\ RefundsIn(t, p) = {} /\ BookSound(s)
    <2>1. BookSound(t)
      BY <1>5 DEF PayInv
    <2>2. RefundsIn(t, p) = {}
      BY <1>2, <1>5, AskedOfABook
    <2>3. QED
      BY <1>6, <2>1, <2>2, LeavesSoundly
  <1>8. ASSUME NEW d \in Docs
        PROVE  /\ Towards(d, docs[d].paid - by[d])
               /\ Abs(docs[d].paid - by[d]) <= Abs(docs[d].paid)
               /\ by[d] \in Int /\ docs[d].paid \in Int
               /\ by[d] # 0 <=> row.settled[d] # 0
    BY <1>1, <1>5, <1>6, WithoutIt
  <1>9. /\ by \in [Docs -> Int] /\ Total(by) \in Int
        /\ \A dir \in {"received", "made"} : Adding(row, dir) \in Int
        /\ Moved(row, "debtors") = -Total(by) - Adding(row, "received")
        /\ Moved(row, "creditors") = Adding(row, "made")
        /\ Moved(row, "vat") = -Total(row.released)
        /\ row.released \in [Docs -> Int] /\ Total(row.released) \in Int
        /\ row.moved \in [Accounts -> Int] /\ row.later \in [Accounts -> Int]
    BY <1>2, SoundMoves, Fields
  <1>10. /\ HeldIn(InForce, "received")' = HeldIn(InForce, "received") - Adding(row, "received")
         /\ HeldIn(InForce, "made")' = HeldIn(InForce, "made") - Adding(row, "made")
    <2>1. \A dir \in {"received", "made"} : HeldIn(t, dir) = HeldIn(s, dir) + Adding(row, dir)
      BY <1>6, <1>7, OneMoreHeld
    <2>2. \A dir \in {"received", "made"} : HeldIn(s, dir) \in Int
      BY <1>6, BookSums
    <2>3. \A dir \in {"received", "made"} : HeldIn(s, dir) = HeldIn(t, dir) - Adding(row, dir)
      BY <1>9, <2>1, <2>2
    <2>4. QED
      BY <1>5, <2>3 DEF InForce
  <1>11. ASSUME NEW d \in Docs
         PROVE  /\ PaidIn(InForce, d)' = PaidIn(InForce, d) - by[d]
                /\ ReleasedIn(InForce, d)' = ReleasedIn(InForce, d) - row.released[d]
    <2>1. /\ PaidIn(t, d) = PaidIn(s, d) + (row.settled[d] + row.shortfall[d])
          /\ ReleasedIn(t, d) = ReleasedIn(s, d) + row.released[d]
      BY <1>6, OneMoreSums
    <2>2. by[d] = row.settled[d] + row.shortfall[d]
      BY <1>2, Fields DEF AllocatedIn, Plus
    <2>3. PaidIn(s, d) \in Int /\ ReleasedIn(s, d) \in Int /\ row.released[d] \in Int
      BY <1>6, <1>9, BookSums
    <2>4. /\ PaidIn(s, d) = PaidIn(t, d) - by[d]
          /\ ReleasedIn(s, d) = ReleasedIn(t, d) - row.released[d]
      BY <1>8, <2>1, <2>2, <2>3
    <2>5. QED
      BY <1>5, <2>4 DEF InForce
  <1>12. PICK back, undone, reversal :
            back = Negated(by) /\ undone = Negated(row.released) /\ reversal = Reversal(p)
    OBVIOUS
  <1> HIDE DEF by
  <1>13. /\ back = [d \in Docs |-> -by[d]] /\ undone = [d \in Docs |-> -row.released[d]]
         /\ back \in [Docs -> Int] /\ undone \in [Docs -> Int]
         /\ Total(back) = -Total(by) /\ Total(undone) = -Total(row.released)
    <2>1. back = [d \in Docs |-> -by[d]] /\ undone = [d \in Docs |-> -row.released[d]]
      BY <1>9, <1>12 DEF Negated
    <2>2. Total(back) = -Total(by) /\ Total(undone) = -Total(row.released)
      BY <1>9, <2>1, TotalMinus, DocumentsAssumption
    <2>3. QED
      BY <1>9, <2>1, <2>2
  <1>14. /\ reversal \in [Accounts -> Int]
         /\ \A a \in Accounts : reversal[a] = -Moved(row, a)
    <2>1. Plus(row.moved, row.later) = [a \in Accounts |-> Moved(row, a)]
      BY <1>9 DEF Plus, Moved
    <2>2. reversal = [a \in Accounts |-> -Moved(row, a)]
      BY <1>1, <1>12, <2>1 DEF Reversal, Negated
    <2>3. \A a \in Accounts : Moved(row, a) \in Int
      BY <1>9 DEF Moved
    <2>4. QED
      BY <2>2, <2>3
  <1>15. Payable(back)
    <2>1. ASSUME NEW d \in Docs, back[d] # 0
          PROVE  Open(d) /\ Towards(d, docs[d].paid + back[d])
      <3>1. back[d] = -by[d] /\ by[d] \in Int /\ docs[d].paid \in Int
        BY <1>8, <1>13
      <3>2. by[d] # 0
        BY <2>1, <3>1
      <3>3. Open(d)
        BY <1>1, <1>8, <3>2
      <3>4. docs[d].paid + back[d] = docs[d].paid - by[d]
        BY <3>1
      <3>5. QED
        BY <1>8, <3>3, <3>4
    <2>2. QED
      BY <2>1 DEF Payable
  <1>16. /\ DocsTypeOK' /\ ledger' \in [Accounts -> Int] /\ declared' \in [Docs -> Int]
         /\ DocsSound' /\ Controlled'
         /\ \A d \in Docs : /\ Posted(d)' = Posted(d)
                            /\ docs'[d].paid = docs[d].paid + back[d]
                            /\ docs'[d].deferred = docs[d].deferred
                            /\ declared'[d] = declared[d] + undone[d]
    <2>1. PaymentsTypeOK /\ DocsSound /\ Controlled
      BY DEF PayInv
    <2>2. PICK received, made \in Int :
             received = -Adding(row, "received") /\ made = -Adding(row, "made")
      BY <1>9
    <2>3. /\ HeldIn(InForce, "received")' = HeldIn(InForce, "received") + received
          /\ HeldIn(InForce, "made")' = HeldIn(InForce, "made") + made
      <3>1. HeldIn(InForce, "received") \in Int /\ HeldIn(InForce, "made") \in Int
        BY <1>2, BookSums
      <3>2. Adding(row, "received") \in Int /\ Adding(row, "made") \in Int
        BY <1>9
      <3>3. QED
        BY <1>10, <2>2, <3>1, <3>2
    <2>4. \A d \in Docs : /\ PaidIn(InForce, d)' = PaidIn(InForce, d) + back[d]
                          /\ ReleasedIn(InForce, d)' = ReleasedIn(InForce, d) + undone[d]
      <3>1. ASSUME NEW d \in Docs
            PROVE  /\ PaidIn(InForce, d)' = PaidIn(InForce, d) + back[d]
                   /\ ReleasedIn(InForce, d)' = ReleasedIn(InForce, d) + undone[d]
        <4>1. /\ PaidIn(InForce, d) \in Int /\ ReleasedIn(InForce, d) \in Int
              /\ by[d] \in Int /\ row.released[d] \in Int
          BY <1>2, <1>8, <1>9, BookSums
        <4>2. back[d] = -by[d] /\ undone[d] = -row.released[d]
          BY <1>13
        <4>3. QED
          BY <1>11, <4>1, <4>2
      <3>2. QED
        BY <3>1
    <2>5. /\ reversal.debtors = -Total(back) - received
          /\ reversal.creditors = made
          /\ reversal.vat = -Total(undone)
      <3>1. /\ reversal.debtors = -Moved(row, "debtors")
            /\ reversal.creditors = -Moved(row, "creditors")
            /\ reversal.vat = -Moved(row, "vat")
        BY <1>14 DEF Accounts
      <3>2. Adding(row, "received") \in Int /\ Adding(row, "made") \in Int
        BY <1>9
      <3>3. QED
        BY <1>9, <1>13, <2>2, <3>1, <3>2
    <2>6. /\ docs' = Settle(back) /\ declared' = Plus(declared, undone)
          /\ ledger' = Plus(ledger, reversal)
      BY <1>1, <1>12 DEF by
    <2>7. Together(back, undone, reversal, received, made)
      BY <1>13, <1>14, <1>15, <2>2, <2>3, <2>4, <2>5, <2>6 DEF Together
    <2>8. QED
      BY <2>1, <2>7, TogetherTheyAgree
  <1>17. PostedLines' /\ posted' \subseteq BankLines
    <2>1. /\ posted = {payments[q].line : q \in Standing} \ {NoLine} /\ posted \subseteq BankLines
      BY DEF PayInv, PostedLines, PaymentsTypeOK
    <2>2. \A q \in Standing' : payments'[q] = payments[q]
      BY <1>2, <1>4, <1>6
    <2>3. \A q \in Standing : (payments[q].line = row.line /\ row.line # NoLine) => q = p
      BY <1>2, <1>5, <1>7 DEF BookSound
    <2>4. posted \ {row.line} = {payments[q].line : q \in Standing'} \ {NoLine}
      BY <1>1, <1>6, <2>1, <2>3
    <2>5. {payments[q].line : q \in Standing'} = {payments'[q].line : q \in Standing'}
      BY <2>2
    <2>6. QED
      BY <1>1, <2>1, <2>4, <2>5 DEF PostedLines
  <1>18. \A q \in DOMAIN payments' : Sound(payments'[q])
    BY <1>3, <1>4 DEF PayInv
  <1>19. SettlesWhatIsPosted'
    <2>1. \A q \in DOMAIN payments : payments'[q].settled = payments[q].settled
      BY <1>1, <1>3, <1>4
    <2>2. QED
      BY <1>4, <1>16, <2>1 DEF SettlesWhatIsPosted, PayInv
  <1>20. DeclaredIsTheShare'
    <2>1. SUFFICES ASSUME NEW d \in Docs, docs'[d].deferred, OnlyReceipts(d)'
                   PROVE  declared'[d] = Share(d, docs'[d].paid)
      BY DEF DeclaredIsTheShare
    <2>2. row.settled[d] = 0
      BY <1>2, <1>3, <1>4, <2>1 DEF OnlyReceipts
    <2>3. docs[d].deferred /\ OnlyReceipts(d)
      <3>1. docs[d].deferred
        BY <1>16, <2>1
      <3>2. OnlyReceipts(d)
        BY <1>1, <1>3, <1>4, <2>1, <2>2 DEF OnlyReceipts
      <3>3. QED
        BY <3>1, <3>2
    <2>4. declared[d] = Share(d, docs[d].paid)
      BY <2>3 DEF PayInv, DeclaredIsTheShare
    <2>5. by[d] = 0 /\ row.released[d] = 0
      BY <1>2, <1>8, <2>2 DEF Sound, SettlesSoundly
    <2>6. docs'[d].paid = docs[d].paid /\ declared'[d] = declared[d]
      <3>1. docs[d].paid \in Int /\ declared[d] \in Int
        BY <1>8 DEF PayInv, PaymentsTypeOK
      <3>2. back[d] = 0 /\ undone[d] = 0
        BY <1>13, <2>5
      <3>3. QED
        BY <1>16, <3>1, <3>2
    <2>7. QED
      BY <2>4, <2>6
  <1>21. PaymentsTypeOK' /\ Len(payments') <= MaxPayments
    <2>1. PaidWithin'
      <3>1. ASSUME NEW d \in Docs, NeverNamedTwice(d)'
            PROVE  Abs(docs'[d].paid) <= Abs(Gross[d])
        <4>1. NeverNamedTwice(d)
          BY <1>1, <1>3, <1>4, <3>1 DEF NeverNamedTwice
        <4>2. Abs(docs[d].paid) <= Abs(Gross[d])
          BY <4>1 DEF PayInv, PaymentsTypeOK, PaidWithin
        <4>3. docs'[d].paid = docs[d].paid - by[d] /\ Gross[d] \in Int
          BY <1>8, <1>13, <1>16, Billed
        <4>4. QED
          BY <1>8, <4>2, <4>3 DEF Abs
      <3>2. QED
        BY <3>1 DEF PaidWithin
    <2>2. QED
      BY <1>4, <1>16, <1>17, <2>1 DEF PayInv, PaymentsTypeOK, DocsTypeOK
  <1>22. BookSound(InForce')
    BY <1>5, <1>7 DEF InForce
  <1>23. QED
    BY <1>16, <1>17, <1>18, <1>19, <1>20, <1>21, <1>22 DEF PayInv

(* One document's amount. *)
LEMMA OnlyIs ==
  ASSUME NEW d \in Docs, NEW x \in Int
  PROVE  /\ Only(d, x) \in [Docs -> Int] /\ Total(Only(d, x)) = x
         /\ \A e \in Docs : Only(d, x)[e] = IF e = d THEN x ELSE 0
  <1>1. /\ Only(d, x) \in [Docs -> Int]
        /\ \A e \in Docs : Only(d, x)[e] = IF e = d THEN x ELSE 0
    BY DEF Only, Nil
  <1>2. Total(Only(d, x)) = Only(d, x)[d]
    BY <1>1, TotalOne, DocumentsAssumption
  <1>3. QED
    BY <1>1, <1>2

(* What is released moves from the deferred VAT to the VAT due. *)
LEMMA ReleasingIs ==
  ASSUME NEW rel \in [Docs -> Int]
  PROVE  /\ Releasing(rel) \in [Accounts -> Int]
         /\ \A a \in Accounts \ {"deferred", "vat"} : Releasing(rel)[a] = 0
         /\ Releasing(rel).vat = -Total(rel)
         /\ Total(rel) \in Int
  <1>1. PICK n \in Int : n = Total(rel)
    BY TotalType, DocumentsAssumption
  <1>2. Releasing(rel) = [Nothing EXCEPT !.deferred = n, !.vat = -n]
    BY <1>1 DEF Releasing
  <1>3. Releasing(rel) = [a \in Accounts |->
          IF a = "deferred" THEN n ELSE IF a = "vat" THEN -n ELSE 0]
    BY <1>2 DEF Nothing
  <1>4. "vat" \in Accounts /\ "deferred" # "vat"
    BY DEF Accounts
  <1>5. QED
    BY <1>1, <1>3, <1>4

(* The VAT released by what more is paid: none of what is not deferred, and none
   where nothing is paid. *)
LEMMA ReleasesAre ==
  ASSUME DocsTypeOK, NEW by \in [Docs -> Int]
  PROVE  /\ VatReleases(by) \in [Docs -> Int]
         /\ \A d \in Docs : by[d] = 0 => VatReleases(by)[d] = 0
         /\ \A d \in Docs : docs[d].deferred =>
              VatReleases(by)[d] = Share(d, docs[d].paid + by[d]) - Share(d, docs[d].paid)
         /\ Releasing(VatReleases(by)) \in [Accounts -> Int]
         /\ \A a \in Accounts \ {"deferred", "vat"} : Releasing(VatReleases(by))[a] = 0
         /\ Releasing(VatReleases(by)).vat = -Total(VatReleases(by))
         /\ Total(VatReleases(by)) \in Int
  <1> DEFINE rel == VatReleases(by)
  <1>1. ASSUME NEW d \in Docs
        PROVE  /\ docs[d].paid \in Int
               /\ Share(d, docs[d].paid + by[d]) \in Int /\ Share(d, docs[d].paid) \in Int
               /\ by[d] = 0 => docs[d].paid + by[d] = docs[d].paid
    <2>1. docs[d].paid \in Int
      BY DEF DocsTypeOK, Doc
    <2>2. docs[d].paid + by[d] \in Int
      BY <2>1
    <2>3. QED
      BY <2>1, <2>2, ShareIs
  <1>2. \A d \in Docs : rel[d] = IF docs[d].deferred
             THEN Share(d, docs[d].paid + by[d]) - Share(d, docs[d].paid) ELSE 0
    BY DEF VatReleases
  <1>3. /\ rel \in [Docs -> Int]
        /\ \A d \in Docs : by[d] = 0 => rel[d] = 0
    <2>1. \A d \in Docs : rel[d] \in Int /\ (by[d] = 0 => rel[d] = 0)
      BY <1>1, <1>2
    <2>2. rel = [d \in Docs |-> rel[d]]
      BY DEF VatReleases
    <2> HIDE DEF rel
    <2>3. QED
      BY <2>1, <2>2
  <1> HIDE DEF rel
  <1>4. QED
    BY <1>2, <1>3, ReleasingIs DEF rel

(* Money on account applied to an invoice. *)
LEMMA AllocateKeeps ==
  ASSUME PayInv, NEW p \in DOMAIN payments, AllocatePaymentOnAccount(p)
  PROVE  PayInv'
  <1>1. PICK at \in Invoices, amount \in Amounts :
          /\ Open(at) /\ amount <= docs[at].outstanding /\ amount <= OnAccount(p)
          /\ payments' = [payments EXCEPT
               ![p].settled = Plus(@, Only(at, amount)),
               ![p].released = Plus(@, VatReleases(Only(at, amount))),
               ![p].later = Plus(@, Releasing(VatReleases(Only(at, amount))))]
          /\ docs' = Settle(Only(at, amount))
          /\ ledger' = Plus(ledger, Releasing(VatReleases(Only(at, amount))))
          /\ declared' = Plus(declared, VatReleases(Only(at, amount)))
    BY DEF AllocatePaymentOnAccount
  <1>2. p \in Standing /\ payments[p].direction = "received" /\ posted' = posted
    BY DEF AllocatePaymentOnAccount
  <1>3. at \in Docs /\ amount \in Nat /\ amount > 0
    BY AmountsAssumption DEF Docs
  <1>4. PICK by, rel, moved : /\ by = Only(at, amount) /\ rel = VatReleases(by)
                              /\ moved = Releasing(rel)
    OBVIOUS
  <1>5. /\ by \in [Docs -> Int] /\ Total(by) = amount
        /\ \A d \in Docs : by[d] = IF d = at THEN amount ELSE 0
    BY <1>3, <1>4, OnlyIs
  <1>6. DocsTypeOK
    BY DEF PayInv, PaymentsTypeOK, DocsTypeOK
  <1>7. /\ rel \in [Docs -> Int] /\ Total(rel) \in Int
        /\ \A d \in Docs : by[d] = 0 => rel[d] = 0
        /\ \A d \in Docs : docs[d].deferred =>
             rel[d] = Share(d, docs[d].paid + by[d]) - Share(d, docs[d].paid)
        /\ moved \in [Accounts -> Int] /\ moved.vat = -Total(rel)
        /\ moved.debtors = 0 /\ moved.creditors = 0
    BY <1>4, <1>5, <1>6, ReleasesAre DEF Accounts
  <1>8. PICK row, more :
          /\ row = payments[p]
          /\ more = [row EXCEPT !.settled = Plus(row.settled, by),
                                !.released = Plus(row.released, rel),
                                !.later = Plus(row.later, moved)]
    OBVIOUS
  <1>9. /\ payments \in Seq(Payment) /\ row \in Payment /\ Sound(row)
        /\ IsBook(InForce) /\ InForce[p] = row /\ DOMAIN InForce = Standing
        /\ \A q \in Standing : InForce[q] = payments[q] /\ q \in DOMAIN payments
        /\ DOMAIN payments = 1..Len(payments) /\ Len(payments) \in Nat
        /\ row.direction = "received" /\ ~row.reversed
    BY <1>2, <1>8, InForceIsABook, BookOfAList DEF PayInv, PaymentsTypeOK, Standing
  <1>10. OnAccountIn(InForce, p) \in Int /\ amount <= OnAccountIn(InForce, p)
    BY <1>1, <1>2, <1>9, AskedOfABook, BookSums
  <1>11. row.kind = "cash"
    BY <1>3, <1>9, <1>10 DEF OnAccountIn
  <1>12. /\ row.settled \in [Docs -> Int] /\ row.released \in [Docs -> Int]
         /\ row.later \in [Accounts -> Int] /\ row.moved \in [Accounts -> Int]
         /\ row.amount \in Nat /\ Total(row.settled) \in Int /\ Total(row.released) \in Int
    BY <1>9, Fields
  <1>13. /\ Plus(row.settled, by) = [d \in Docs |-> row.settled[d] + by[d]]
         /\ Plus(row.released, rel) = [d \in Docs |-> row.released[d] + rel[d]]
         /\ Plus(row.later, moved) = [a \in Accounts |-> row.later[a] + moved[a]]
    BY <1>12 DEF Plus
  <1>14. /\ Plus(row.settled, by) \in [Docs -> Int] /\ Plus(row.released, rel) \in [Docs -> Int]
         /\ Plus(row.later, moved) \in [Accounts -> Int]
         /\ Total(Plus(row.settled, by)) = Total(row.settled) + amount
         /\ Total(Plus(row.released, rel)) = Total(row.released) + Total(rel)
    <2>1. /\ Plus(row.settled, by) \in [Docs -> Int] /\ Plus(row.released, rel) \in [Docs -> Int]
          /\ Plus(row.later, moved) \in [Accounts -> Int]
      BY <1>5, <1>7, <1>12, <1>13
    <2>2. Total([d \in Docs |-> row.settled[d] + by[d]]) = Total(row.settled) + Total(by)
      BY <1>5, <1>12, TotalPlus, DocumentsAssumption
    <2>3. Total([d \in Docs |-> row.released[d] + rel[d]]) = Total(row.released) + Total(rel)
      BY <1>7, <1>12, TotalPlus, DocumentsAssumption
    <2>4. QED
      BY <1>5, <1>13, <2>1, <2>2, <2>3
  <1>15. /\ more \in Payment
         /\ more.settled = Plus(row.settled, by) /\ more.released = Plus(row.released, rel)
         /\ more.later = Plus(row.later, moved)
         /\ more.kind = "cash" /\ more.direction = "received" /\ ~more.reversed
         /\ more.amount = row.amount /\ more.refundOf = row.refundOf /\ more.line = row.line
         /\ more.shortfall = row.shortfall /\ more.moved = row.moved
         /\ more.twice = row.twice
    <2>1. PICK x, y, z : /\ x = Plus(row.settled, by) /\ y = Plus(row.released, rel)
                         /\ z = Plus(row.later, moved)
      OBVIOUS
    <2>2. x \in [Docs -> Int] /\ y \in [Docs -> Int] /\ z \in [Accounts -> Int]
      BY <1>14, <2>1
    <2>3. more = [row EXCEPT !.settled = x, !.released = y, !.later = z]
      BY <1>8, <2>1
    <2>4. QED
      BY <1>9, <1>11, <2>1, <2>2, <2>3 DEF Payment
  <1>16. Sound(more)
    <2>1. ASSUME NEW d \in Docs
          PROVE  /\ d \in Invoices => more.settled[d] >= 0
                 /\ d \notin Invoices => more.settled[d] <= 0 /\ more.shortfall[d] = 0
                 /\ more.settled[d] = 0 => more.shortfall[d] = 0 /\ more.released[d] = 0
      <3>1. /\ more.settled[d] = row.settled[d] + by[d]
            /\ more.released[d] = row.released[d] + rel[d]
            /\ more.shortfall[d] = row.shortfall[d]
        BY <1>13, <1>15
      <3>2. /\ d \in Invoices => row.settled[d] >= 0
            /\ d \notin Invoices => row.settled[d] <= 0 /\ row.shortfall[d] = 0
            /\ row.settled[d] = 0 => row.shortfall[d] = 0 /\ row.released[d] = 0
        BY <1>9 DEF Sound, SettlesSoundly
      <3>3. row.settled[d] \in Int /\ row.released[d] \in Int
        BY <1>12
      <3>4. CASE d = at
        BY <1>3, <1>5, <3>1, <3>2, <3>3, <3>4
      <3>5. CASE d # at
        <4>1. by[d] = 0 /\ rel[d] = 0
          BY <1>5, <1>7, <3>5
        <4>2. QED
          BY <3>1, <3>2, <3>3, <4>1
      <3>6. QED
        BY <3>4, <3>5
    <2>2. CashSound(more)
      <3>1. CashSound(row)
        BY <1>9, <1>11 DEF Sound
      <3>2. \A a \in Accounts : Moved(more, a) = Moved(row, a) + moved[a] /\ Moved(row, a) \in Int
        <4>1. \A a \in Accounts : row.moved[a] \in Int /\ row.later[a] \in Int /\ moved[a] \in Int
          BY <1>7, <1>12
        <4>2. QED
          BY <1>13, <1>15, <4>1 DEF Moved
      <3>3. /\ Moved(more, "debtors") = Moved(row, "debtors")
            /\ Moved(more, "creditors") = Moved(row, "creditors")
            /\ Moved(more, "vat") = Moved(row, "vat") - Total(rel)
        BY <1>7, <3>2 DEF Accounts
      <3>4. Total(more.released) = Total(row.released) + Total(rel)
        BY <1>14, <1>15
      <3>5. Moved(more, "vat") = -Total(more.released)
        BY <1>7, <1>12, <3>1, <3>3, <3>4 DEF CashSound
      <3>6. QED
        BY <1>9, <1>15, <3>1, <3>3, <3>5 DEF CashSound
    <2>3. QED
      BY <1>15, <2>1, <2>2 DEF Sound, SettlesSoundly
  <1>17. /\ payments' \in Seq(Payment) /\ Len(payments') = Len(payments)
         /\ DOMAIN payments' = DOMAIN payments /\ payments'[p] = more
         /\ \A q \in DOMAIN payments : q # p => payments'[q] = payments[q]
    <2>1. PICK list \in Seq(Payment) : list = payments
      BY <1>9
    <2>2. p \in 1..Len(list) /\ payments' = [list EXCEPT ![p] = more]
      BY <1>1, <1>4, <1>8, <1>9, <2>1
    <2>3. /\ [list EXCEPT ![p] = more] \in Seq(Payment)
          /\ Len([list EXCEPT ![p] = more]) = Len(list)
          /\ \A q \in 1..Len(list) : [list EXCEPT ![p] = more][q] = IF q = p THEN more ELSE list[q]
      BY <1>15, <2>2, ExceptSeq
    <2>4. DOMAIN payments' = 1..Len(payments')
      BY <2>2, <2>3, BookOfAList
    <2>5. QED
      BY <1>9, <2>1, <2>2, <2>3, <2>4
  <1>18. PICK s, t : s = InForce /\ t = BookOf(payments')
    OBVIOUS
  <1>19. /\ IsBook(s) /\ IsBook(t) /\ Further(s, t, p) /\ s[p] = row /\ t[p] = more
         /\ Standing' = Standing
    <2>1. PICK list \in Seq(Payment) : list = payments'
      BY <1>17
    <2>2. IsBook(t) /\ \A q \in DOMAIN t : t[q] = list[q]
      BY <1>18, <2>1, BookOfAList
    <2>3. DOMAIN t = {q \in DOMAIN list : ~list[q].reversed}
      BY <1>18, <2>1, BookOfAList
    <2>4. DOMAIN t = Standing'
      BY <2>1, <2>3 DEF Standing
    <2>5. Standing' = Standing
      BY <1>2, <1>15, <1>17 DEF Standing
    <2>6. \A q \in Standing : q \in DOMAIN payments /\ t[q] = payments'[q] /\ s[q] = payments[q]
      BY <1>9, <1>18, <2>1, <2>2, <2>4, <2>5
    <2>7. /\ IsBook(s) /\ DOMAIN s = Standing /\ DOMAIN t = Standing
          /\ p \in Standing /\ s[p] = row /\ t[p] = more
      BY <1>2, <1>8, <1>9, <1>17, <1>18, <2>4, <2>5, <2>6
    <2>8. \A q \in DOMAIN s \ {p} : t[q] = s[q]
      BY <1>17, <2>6, <2>7
    <2>9. Further(s, t, p)
      BY <1>9, <1>11, <1>15, <2>7, <2>8 DEF Further
    <2>10. QED
      BY <2>2, <2>5, <2>7, <2>9
  <1>20. Left(row) - Left(more) = amount
    BY <1>3, <1>9, <1>11, <1>12, <1>14, <1>15 DEF Left
  <1>21. BookSound(t)
    <2>1. OnAccountIn(t, p) = OnAccountIn(s, p) - amount
      BY <1>2, <1>9, <1>18, <1>19, <1>20, FurtherOnAccount
    <2>2. OnAccountIn(t, p) >= 0
      BY <1>3, <1>10, <1>18, <2>1
    <2>3. BookSound(s)
      BY <1>18 DEF PayInv
    <2>4. QED
      BY <1>19, <2>2, <2>3, GoesFurtherSoundly
  <1>22. /\ HeldIn(InForce, "received")' = HeldIn(InForce, "received") - amount
         /\ HeldIn(InForce, "made")' = HeldIn(InForce, "made") - 0
    <2>1. \A dir : HeldIn(t, dir) =
              HeldIn(s, dir) - (IF row.direction = dir THEN amount ELSE 0)
      BY <1>19, <1>20, FurtherOnAccount
    <2>2. QED
      BY <1>9, <1>18, <2>1 DEF InForce
  <1>23. ASSUME NEW d \in Docs
         PROVE  /\ PaidIn(InForce, d)' = PaidIn(InForce, d) + by[d]
                /\ ReleasedIn(InForce, d)' = ReleasedIn(InForce, d) + rel[d]
    <2>1. /\ PaidIn(t, d) = PaidIn(s, d) - row.settled[d] + more.settled[d]
          /\ ReleasedIn(t, d) = ReleasedIn(s, d) - row.released[d] + more.released[d]
      BY <1>19, FurtherSums
    <2>2. /\ more.settled[d] = row.settled[d] + by[d]
          /\ more.released[d] = row.released[d] + rel[d]
      BY <1>13, <1>15
    <2>3. /\ PaidIn(s, d) \in Int /\ ReleasedIn(s, d) \in Int
          /\ row.settled[d] \in Int /\ row.released[d] \in Int /\ by[d] \in Int /\ rel[d] \in Int
      BY <1>5, <1>7, <1>12, <1>19, BookSums
    <2>4. /\ PaidIn(t, d) = PaidIn(s, d) + by[d]
          /\ ReleasedIn(t, d) = ReleasedIn(s, d) + rel[d]
      BY <2>1, <2>2, <2>3
    <2>5. QED
      BY <1>18, <2>4 DEF InForce
  <1>24. Payable(by)
    <2>1. ASSUME NEW d \in Docs, by[d] # 0
          PROVE  Open(d) /\ Towards(d, docs[d].paid + by[d])
      <3>1. d = at /\ by[d] = amount
        BY <1>5, <2>1
      <3>2. /\ docs[at].outstanding = Gross[at] - docs[at].paid
            /\ Towards(at, docs[at].paid) /\ docs[at].paid \in Int /\ Gross[at] \in Int
        BY <1>1, <1>3, Billed DEF PayInv, DocsSound, RowSound, PaymentsTypeOK, Doc
      <3>3. 0 <= docs[at].paid
        BY <1>3, <3>2, TowardsIs
      <3>4. Towards(at, docs[at].paid + amount)
        <4>1. PICK x \in Int : x = docs[at].paid + amount
          BY <1>3, <3>2
        <4>2. 0 <= x
          BY <1>3, <3>2, <3>3, <4>1
        <4>3. QED
          BY <1>3, <4>1, <4>2, TowardsIs
      <3>5. QED
        BY <1>1, <3>1, <3>4
    <2>2. QED
      BY <2>1 DEF Payable
  <1>25. /\ DocsTypeOK' /\ ledger' \in [Accounts -> Int] /\ declared' \in [Docs -> Int]
         /\ DocsSound' /\ Controlled'
         /\ \A d \in Docs : /\ Posted(d)' = Posted(d)
                            /\ docs'[d].paid = docs[d].paid + by[d]
                            /\ docs'[d].deferred = docs[d].deferred
                            /\ declared'[d] = declared[d] + rel[d]
    <2>1. PaymentsTypeOK /\ DocsSound /\ Controlled
      BY DEF PayInv
    <2>2. PICK received, made \in Int : received = -amount /\ made = 0
      BY <1>3
    <2>3. /\ HeldIn(InForce, "received")' = HeldIn(InForce, "received") + received
          /\ HeldIn(InForce, "made")' = HeldIn(InForce, "made") + made
      <3>1. HeldIn(InForce, "received") \in Int /\ HeldIn(InForce, "made") \in Int
        BY <1>9, BookSums
      <3>2. QED
        BY <1>3, <1>22, <2>2, <3>1
    <2>4. moved.debtors = -Total(by) - received /\ moved.creditors = made
      BY <1>3, <1>5, <1>7, <2>2
    <2>5. /\ docs' = Settle(by) /\ declared' = Plus(declared, rel) /\ ledger' = Plus(ledger, moved)
      BY <1>1, <1>4
    <2>6. Together(by, rel, moved, received, made)
      BY <1>5, <1>7, <1>23, <1>24, <2>2, <2>3, <2>4, <2>5 DEF Together
    <2>7. QED
      BY <2>1, <2>6, TogetherTheyAgree
  <1>26. PostedLines' /\ posted' \subseteq BankLines
    <2>1. \A q \in Standing : payments'[q].line = payments[q].line
      BY <1>8, <1>9, <1>15, <1>17
    <2>2. {payments'[q].line : q \in Standing'} = {payments[q].line : q \in Standing}
      BY <1>19, <2>1
    <2>3. QED
      BY <1>2, <2>2 DEF PayInv, PostedLines, PaymentsTypeOK
  <1>27. \A q \in DOMAIN payments' : Sound(payments'[q])
    BY <1>16, <1>17 DEF PayInv
  <1>28. SettlesWhatIsPosted'
    <2>1. ASSUME NEW d \in Docs, more.settled[d] # 0 PROVE Posted(d)
      <3>1. more.settled[d] = row.settled[d] + by[d] /\ row.settled[d] \in Int /\ by[d] \in Int
        BY <1>5, <1>12, <1>13, <1>15
      <3>2. CASE by[d] # 0
        BY <1>24, <3>2 DEF Payable, Open, Posted
      <3>3. CASE by[d] = 0
        <4>1. row.settled[d] # 0
          BY <2>1, <3>1, <3>3
        <4>2. QED
          BY <1>8, <4>1 DEF PayInv, SettlesWhatIsPosted
      <3>4. QED
        BY <3>2, <3>3
    <2>2. QED
      BY <1>17, <1>25, <2>1 DEF PayInv, SettlesWhatIsPosted
  <1>29. DeclaredIsTheShare'
    <2>1. SUFFICES ASSUME NEW d \in Docs, docs'[d].deferred, OnlyReceipts(d)'
                   PROVE  declared'[d] = Share(d, docs'[d].paid)
      BY DEF DeclaredIsTheShare
    <2>2. docs[d].deferred
      BY <1>25, <2>1
    <2>3. OnlyReceipts(d)
      <3>1. ASSUME NEW q \in DOMAIN payments, payments[q].settled[d] # 0
            PROVE  /\ ~payments[q].reversed /\ d \notin payments[q].twice
                   /\ payments[q].kind = "cash" /\ payments[q].direction = "received"
        <4>1. CASE q = p
          <5>1. more.settled[d] # 0
            <6>1. row.settled[d] \in Int /\ by[d] \in Int
              BY <1>5, <1>12
            <6>2. more.settled[d] = row.settled[d] + by[d]
              BY <1>13, <1>15
            <6>3. d \in Invoices => row.settled[d] >= 0 /\ by[d] >= 0
              BY <1>3, <1>5, <1>9 DEF Sound, SettlesSoundly
            <6>4. d \notin Invoices => by[d] = 0
              BY <1>5
            <6>5. QED
              BY <1>8, <3>1, <4>1, <6>1, <6>2, <6>3, <6>4
          <5>2. d \notin more.twice
            BY <1>17, <2>1, <5>1 DEF OnlyReceipts
          <5>3. QED
            BY <1>8, <1>9, <1>11, <1>15, <4>1, <5>2
        <4>2. CASE q # p
          BY <1>17, <2>1, <3>1, <4>2 DEF OnlyReceipts
        <4>3. QED
          BY <4>1, <4>2
      <3>2. QED
        BY <3>1 DEF OnlyReceipts
    <2>4. declared[d] = Share(d, docs[d].paid)
      BY <2>2, <2>3 DEF PayInv, DeclaredIsTheShare
    <2>5. /\ docs[d].paid \in Int /\ docs[d].paid + by[d] \in Int
      BY <1>5, <1>6 DEF DocsTypeOK, Doc
    <2>6. Share(d, docs[d].paid) \in Int /\ Share(d, docs[d].paid + by[d]) \in Int
      BY <2>5, ShareIs
    <2>7. /\ rel[d] = Share(d, docs[d].paid + by[d]) - Share(d, docs[d].paid)
          /\ declared'[d] = declared[d] + rel[d] /\ docs'[d].paid = docs[d].paid + by[d]
      BY <1>7, <1>25, <2>2
    <2>8. declared'[d] = Share(d, docs[d].paid + by[d])
      BY <2>4, <2>6, <2>7
    <2>9. QED
      BY <2>7, <2>8
  <1>30. PaymentsTypeOK' /\ Len(payments') <= MaxPayments
    <2>1. PaidWithin'
      <3>1. ASSUME NEW d \in Docs, NeverNamedTwice(d)'
            PROVE  Abs(docs'[d].paid) <= Abs(Gross[d])
        <4>1. NeverNamedTwice(d)
          <5>1. ASSUME NEW q \in DOMAIN payments PROVE d \notin payments[q].twice
            <6>1. d \notin payments'[q].twice
              BY <1>17, <3>1 DEF NeverNamedTwice
            <6>2. CASE q = p
              BY <1>8, <1>15, <1>17, <6>1, <6>2
            <6>3. CASE q # p
              BY <1>17, <6>1, <6>3
            <6>4. QED
              BY <6>2, <6>3
          <5>2. QED
            BY <5>1 DEF NeverNamedTwice
        <4>2. Abs(docs[d].paid) <= Abs(Gross[d])
          BY <4>1 DEF PayInv, PaymentsTypeOK, PaidWithin
        <4>3. docs[d] \in Doc /\ RowSound(d) /\ Towards(d, docs[d].paid)
          BY <1>6 DEF PayInv, DocsSound, DocsTypeOK
        <4>4. docs[d].paid \in Int /\ Gross[d] \in Int
          BY <4>3, Billed DEF Doc
        <4>5. CASE d = at
          <5>1. /\ docs'[d].paid = docs[d].paid + amount
                /\ docs[d].outstanding = Gross[d] - docs[d].paid
                /\ amount <= docs[d].outstanding /\ 0 <= docs[d].paid
            BY <1>1, <1>5, <1>25, <4>3, <4>4, <4>5, TowardsIs DEF RowSound
          <5>2. QED
            BY <1>3, <4>4, <5>1 DEF Abs
        <4>6. CASE d # at
          <5>1. docs'[d].paid = docs[d].paid
            BY <1>5, <1>25, <4>4, <4>6
          <5>2. QED
            BY <4>2, <5>1
        <4>7. QED
          BY <4>5, <4>6
      <3>2. QED
        BY <3>1 DEF PaidWithin
    <2>2. QED
      BY <1>17, <1>25, <1>26, <2>1 DEF PayInv, PaymentsTypeOK, DocsTypeOK
  <1>31. BookSound(InForce')
    BY <1>18, <1>21 DEF InForce
  <1>32. QED
    BY <1>25, <1>26, <1>27, <1>28, <1>29, <1>30, <1>31 DEF PayInv

(* Nothing settled leaves the documents and the register as they were. *)
LEMMA NothingSettled ==
  ASSUME PaymentsTypeOK, NEW by \in [Docs -> Int], \A d \in Docs : by[d] = 0
  PROVE  Settle(by) = docs /\ Payable(by) /\ Plus(declared, by) = declared
  <1>1. Settle(by) = docs
    <2>1. Settle(by) = [d \in Docs |-> docs[d]]
      BY DEF Settle
    <2>2. QED
      BY <2>1 DEF PaymentsTypeOK
  <1>2. Plus(declared, by) = declared
    <2>1. declared \in [Docs -> Int]
      BY DEF PaymentsTypeOK
    <2>2. Plus(declared, by) = [d \in Docs |-> declared[d] + by[d]]
      BY <2>1 DEF Plus
    <2>3. \A d \in Docs : declared[d] + by[d] = declared[d]
      BY <2>1
    <2>4. QED
      BY <2>1, <2>2, <2>3
  <1>3. QED
    BY <1>1, <1>2 DEF Payable

(* A line not marked posted is no standing payment's. *)
LEMMA FreeLineIsFree ==
  ASSUME PayInv, NEW line, FreeLine(line), line # NoLine
  PROVE  \A q \in DOMAIN InForce : InForce[q].line # line
  BY InForceIsABook DEF PayInv, PaymentsTypeOK, PostedLines, FreeLine

(* What is paid with the sign of a document is paid towards it, and within what it
   is for when it is no more than what is outstanding. *)
LEMMA PaysWithin ==
  ASSUME DocsTypeOK, NEW d \in Docs, RowSound(d), Open(d), NEW x \in Int,
         d \in Invoices => 0 <= x, d \notin Invoices => x <= 0
  PROVE  /\ Towards(d, docs[d].paid + x)
         /\ (/\ Abs(x) <= Abs(docs[d].outstanding)
             /\ Abs(docs[d].paid) <= Abs(Gross[d])) =>
              Abs(docs[d].paid + x) <= Abs(Gross[d])
  <1>1. PICK paid, y, g \in Int : /\ paid = docs[d].paid /\ y = paid + x /\ g = Gross[d]
                                  /\ docs[d].outstanding = g - paid
    BY Billed DEF DocsTypeOK, RowSound, Doc
  <1>2. IF d \in Invoices THEN 0 <= paid /\ 0 < g ELSE paid <= 0 /\ g < 0
    BY <1>1, TowardsIs, Billed DEF DocsTypeOK
  <1>3. IF d \in Invoices THEN 0 <= y ELSE y <= 0
    BY <1>1, <1>2
  <1>4. (Abs(x) <= Abs(g - paid) /\ Abs(paid) <= Abs(g)) => Abs(y) <= Abs(g)
    BY <1>1, <1>2, <1>3 DEF Abs
  <1>5. QED
    BY <1>1, <1>3, <1>4, TowardsIs

(* Money on account paid back: a payment the other way that settles nothing. *)
LEMMA RefundKeeps ==
  ASSUME PayInv, NEW p \in DOMAIN payments, RefundOnAccount(p)
  PROVE  PayInv'
  <1>1. PICK amount \in Amounts, line \in BankLines \cup {NoLine} :
          LET received == payments[p].direction = "received"
              moved == IF received
                       THEN [Nothing EXCEPT !.debtors = amount, !.money = -amount]
                       ELSE [Nothing EXCEPT !.creditors = -amount, !.money = amount]
          IN  /\ amount <= OnAccount(p) /\ FreeLine(line)
              /\ payments' = Append(payments,
                   [NewPayment(IF received THEN "made" ELSE "received", "refund",
                               amount, line, Nil) EXCEPT !.refundOf = p, !.moved = moved])
              /\ posted' = NowPosted(line)
              /\ ledger' = Plus(ledger, moved)
    BY DEF RefundOnAccount
  <1>2. p \in Standing /\ CanRecord /\ docs' = docs /\ declared' = declared
    BY DEF RefundOnAccount
  <1>3. amount \in Nat /\ amount > 0
    BY AmountsAssumption
  <1>4. PICK moved : moved = IF payments[p].direction = "received"
                       THEN [Nothing EXCEPT !.debtors = amount, !.money = -amount]
                       ELSE [Nothing EXCEPT !.creditors = -amount, !.money = amount]
    OBVIOUS
  <1>5. PICK row : row = [NewPayment(IF payments[p].direction = "received" THEN "made" ELSE "received",
                            "refund", amount, line, Nil) EXCEPT !.refundOf = p, !.moved = moved]
    OBVIOUS
  <1>6. /\ payments' = Append(payments, row) /\ posted' = NowPosted(line)
        /\ ledger' = Plus(ledger, moved) /\ amount <= OnAccount(p) /\ FreeLine(line)
    BY <1>1, <1>4, <1>5
  <1>7. /\ moved \in [Accounts -> Int] /\ moved.vat = 0
        /\ payments[p].direction = "received" => moved.debtors = amount /\ moved.creditors = 0
        /\ payments[p].direction # "received" => moved.debtors = 0 /\ moved.creditors = -amount
    <2>1. CASE payments[p].direction = "received"
      <3>1. moved = [a \in Accounts |-> IF a = "money" THEN -amount
                                        ELSE IF a = "debtors" THEN amount ELSE 0]
        BY <1>4, <2>1 DEF Nothing
      <3>2. QED
        BY <1>3, <2>1, <3>1 DEF Accounts
    <2>2. CASE payments[p].direction # "received"
      <3>1. moved = [a \in Accounts |-> IF a = "money" THEN amount
                                        ELSE IF a = "creditors" THEN -amount ELSE 0]
        BY <1>4, <2>2 DEF Nothing
      <3>2. QED
        BY <1>3, <2>2, <3>1 DEF Accounts
    <2>3. QED
      BY <2>1, <2>2
  <1>8. /\ payments \in Seq(Payment) /\ payments[p] \in Payment
        /\ IsBook(InForce) /\ p \in DOMAIN InForce /\ InForce[p] = payments[p]
        /\ p \in 1..Len(payments) /\ Len(payments) \in Nat
        /\ OnAccount(p) = OnAccountIn(InForce, p)
    BY <1>2, InForceIsABook, AskedOfABook, BookOfAList DEF PayInv, PaymentsTypeOK
  <1>9. p \in Numbers /\ p # 0 /\ Len(payments) < MaxPayments
    BY <1>2, <1>8, AmountsAssumption DEF CanRecord, Numbers
  <1>10. OnAccountIn(InForce, p) \in Int /\ payments[p].kind = "cash"
    BY <1>3, <1>6, <1>8, BookSums DEF OnAccountIn
  <1>11. /\ row.direction = (IF payments[p].direction = "received" THEN "made" ELSE "received")
         /\ row.kind = "refund" /\ row.amount = amount /\ row.refundOf = p /\ row.line = line
         /\ row.settled = Nil /\ row.shortfall = Nil /\ row.released = Nil
         /\ row.moved = moved /\ row.later = Nothing /\ ~row.reversed /\ row.twice = {}
    BY <1>5 DEF NewPayment
  <1>12. row \in Payment
    <2>1. Nil \in [Docs -> Nat] /\ Nil \in [Docs -> Int] /\ Nothing \in [Accounts -> Int]
      BY DEF Nil, Nothing
    <2>2. row = [direction |-> row.direction, kind |-> "refund", amount |-> amount,
                 refundOf |-> p, line |-> line, settled |-> Nil, shortfall |-> Nil, twice |-> {},
                 released |-> Nil, moved |-> moved, later |-> Nothing, reversed |-> FALSE]
      BY <1>5, <1>11 DEF NewPayment
    <2>3. PICK direction \in {"received", "made"} : row.direction = direction
      BY <1>11
    <2>4. moved \in [Accounts -> Int] /\ p \in Numbers \cup {0}
      BY <1>7, <1>9
    <2>5. row = [direction |-> direction, kind |-> "refund", amount |-> amount,
                 refundOf |-> p, line |-> line, settled |-> Nil, shortfall |-> Nil, twice |-> {},
                 released |-> Nil, moved |-> moved, later |-> Nothing, reversed |-> FALSE]
      BY <2>2, <2>3
    <2>6. QED
      BY <1>3, <2>1, <2>4, <2>5 DEF Payment, Kinds
  <1>13. \A a \in Accounts : Moved(row, a) = moved[a]
    BY <1>7, <1>11 DEF Moved, Nothing
  <1>14. Sound(row)
    <2>1. \A d \in Docs : Nil[d] = 0
      BY DEF Nil
    <2>2. SettlesSoundly(row)
      BY <1>11, <2>1 DEF SettlesSoundly
    <2>3. /\ Moved(row, "vat") = moved.vat /\ Moved(row, "debtors") = moved.debtors
          /\ Moved(row, "creditors") = moved.creditors
      BY <1>13 DEF Accounts
    <2>4. RefundSound(row)
      BY <1>7, <1>9, <1>11, <2>3 DEF RefundSound
    <2>5. QED
      BY <1>11, <2>2, <2>4 DEF Sound
  <1>15. MayJoin(InForce, row)
    <2>1. Left(row) = 0
      BY <1>11 DEF Left
    <2>2. payments[p].direction # row.direction
      BY <1>11
    <2>3. row.line # NoLine => \A q \in DOMAIN InForce : InForce[q].line # row.line
      BY <1>6, <1>11, FreeLineIsFree
    <2>4. QED
      BY <1>6, <1>8, <1>10, <1>11, <2>1, <2>2, <2>3 DEF MayJoin
  <1>16. /\ AllocatedIn(row) \in [Docs -> Int] /\ \A d \in Docs : AllocatedIn(row)[d] = 0
         /\ Nil \in [Docs -> Int] /\ \A d \in Docs : Nil[d] = 0
    BY <1>11 DEF AllocatedIn, Plus, Nil
  <1>17. /\ Settle(AllocatedIn(row)) = docs /\ Payable(AllocatedIn(row))
         /\ Plus(declared, Nil) = declared
         /\ StaysWithin(AllocatedIn(row), row.twice)
    <2>1. \A d \in Docs : docs[d].paid \in Int
      BY DEF PayInv, PaymentsTypeOK, Doc
    <2>2. StaysWithin(AllocatedIn(row), row.twice)
      BY <1>16, <2>1 DEF StaysWithin
    <2>3. QED
      BY <1>16, <2>2, NothingSettled DEF PayInv
  <1>18. QED
    BY <1>2, <1>6, <1>9, <1>11, <1>12, <1>14, <1>15, <1>17, RecordKeeps

(* A credit note set against an invoice: a payment of nothing that settles as
   much of one as of the other. *)
LEMMA ApplyCreditNoteKeeps ==
  ASSUME PayInv, ApplyCreditNote
  PROVE  PayInv'
  <1>1. PICK c \in CreditNotes, e \in Invoices, amount \in Amounts :
          LET by == Plus(Only(c, -amount), Only(e, amount))
          IN  /\ Open(c) /\ Open(e)
              /\ amount <= Abs(docs[c].outstanding) /\ amount <= docs[e].outstanding
              /\ payments' = Append(payments, NewPayment("received", "offset", 0, NoLine, by))
              /\ docs' = Settle(by)
    BY DEF ApplyCreditNote
  <1>2. CanRecord /\ posted' = posted /\ ledger' = ledger /\ declared' = declared
    BY DEF ApplyCreditNote
  <1>3. PICK by, row : /\ by = Plus(Only(c, -amount), Only(e, amount))
                       /\ row = NewPayment("received", "offset", 0, NoLine, by)
    OBVIOUS
  <1>4. /\ amount \in Nat /\ amount > 0 /\ c \in Docs /\ e \in Docs /\ c # e
        /\ c \notin Invoices /\ e \in Invoices
    BY AmountsAssumption, DocumentsAssumption DEF Docs
  <1>5. /\ by \in [Docs -> Int] /\ Total(by) = 0
        /\ by[c] = -amount /\ by[e] = amount /\ \A d \in Docs \ {c, e} : by[d] = 0
    <2>1. PICK f, g : f = Only(c, -amount) /\ g = Only(e, amount)
      OBVIOUS
    <2>2. /\ f \in [Docs -> Int] /\ Total(f) = -amount
          /\ g \in [Docs -> Int] /\ Total(g) = amount
          /\ \A d \in Docs : f[d] = IF d = c THEN -amount ELSE 0
          /\ \A d \in Docs : g[d] = IF d = e THEN amount ELSE 0
      BY <1>4, <2>1, OnlyIs
    <2>3. by = [d \in Docs |-> f[d] + g[d]]
      BY <1>3, <2>1, <2>2 DEF Plus
    <2>4. Total(by) = Total(f) + Total(g)
      <3>1. f \in [Docs -> Int] /\ g \in [Docs -> Int] /\ IsFiniteSet(Docs)
        BY <2>2, DocumentsAssumption
      <3>2. Total([d \in Docs |-> f[d] + g[d]]) = Total(f) + Total(g)
        BY <3>1, TotalPlus
      <3>3. QED
        BY <2>3, <3>2
    <2>5. \A d \in Docs : by[d] \in Int /\ by[d] = f[d] + g[d]
      BY <2>2, <2>3
    <2>6. QED
      BY <1>4, <2>2, <2>3, <2>4, <2>5
  <1>6. /\ row.direction = "received" /\ row.kind = "offset" /\ row.amount = 0
        /\ row.refundOf = 0 /\ row.line = NoLine /\ row.settled = by
        /\ row.shortfall = Nil /\ row.released = Nil
        /\ row.moved = Nothing /\ row.later = Nothing /\ ~row.reversed
    BY <1>3 DEF NewPayment
  <1>7. /\ Nil \in [Docs -> Nat] /\ Nil \in [Docs -> Int] /\ Nothing \in [Accounts -> Int]
        /\ \A d \in Docs : Nil[d] = 0
    BY DEF Nil, Nothing
  <1>8. row \in Payment
    BY <1>3, <1>5, <1>7 DEF NewPayment, Payment, Kinds
  <1>9. Sound(row)
    <2>1. SettlesSoundly(row)
      <3>1. ASSUME NEW d \in Docs
            PROVE  /\ d \in Invoices => by[d] >= 0
                   /\ d \notin Invoices => by[d] <= 0
        BY <1>4, <1>5
      <3>2. QED
        BY <1>6, <1>7, <3>1 DEF SettlesSoundly
    <2>2. OffsetSound(row)
      BY <1>5, <1>6 DEF OffsetSound
    <2>3. QED
      BY <1>6, <2>1, <2>2 DEF Sound
  <1>10. MayJoin(InForce, row)
    BY <1>6 DEF MayJoin, Left
  <1>11. AllocatedIn(row) = by
    <2>1. AllocatedIn(row) = [d \in Docs |-> by[d] + Nil[d]]
      BY <1>5, <1>6 DEF AllocatedIn, Plus
    <2>2. \A d \in Docs : by[d] + Nil[d] = by[d]
      BY <1>5, <1>7
    <2>3. QED
      BY <1>5, <2>1, <2>2
  <1>12. Payable(by) /\ StaysWithin(by, row.twice)
    <2>1. ASSUME NEW d \in Docs, by[d] # 0
          PROVE  /\ Open(d) /\ Towards(d, docs[d].paid + by[d])
                 /\ Abs(docs[d].paid) <= Abs(Gross[d]) => Abs(docs[d].paid + by[d]) <= Abs(Gross[d])
      <3>1. DocsTypeOK /\ RowSound(d) /\ by[d] \in Int /\ docs[d].outstanding \in Int
        BY <1>5 DEF PayInv, DocsSound, DocsTypeOK, PaymentsTypeOK, Doc
      <3>2. CASE d = c
        <4>1. by[d] <= 0 /\ Abs(by[d]) <= Abs(docs[d].outstanding) /\ Open(d)
          BY <1>1, <1>4, <1>5, <3>2 DEF Abs
        <4>2. QED
          BY <1>4, <3>1, <3>2, <4>1, PaysWithin
      <3>3. CASE d = e
        <4>1. 0 <= by[d] /\ Abs(by[d]) <= Abs(docs[d].outstanding) /\ Open(d)
          BY <1>1, <1>4, <1>5, <3>1, <3>3 DEF Abs
        <4>2. QED
          BY <1>4, <3>1, <3>3, <4>1, PaysWithin
      <3>4. QED
        BY <1>5, <2>1, <3>2, <3>3
    <2>2. \A d \in Docs : docs[d].paid \in Int
      BY DEF PayInv, PaymentsTypeOK, Doc
    <2>3. StaysWithin(by, row.twice)
      BY <2>1, <2>2 DEF StaysWithin
    <2>4. QED
      BY <2>1, <2>3 DEF Payable
  <1>13. Plus(declared, Nil) = declared
    BY <1>7, NothingSettled DEF PayInv
  <1>14. Plus(ledger, Nothing) = ledger
    <2>1. ledger \in [Accounts -> Int]
      BY DEF PayInv, PaymentsTypeOK
    <2>2. Plus(ledger, Nothing) = [a \in Accounts |-> ledger[a] + Nothing[a]]
      BY <2>1 DEF Plus
    <2>3. \A a \in Accounts : ledger[a] + Nothing[a] = ledger[a]
      BY <2>1 DEF Nothing
    <2>4. QED
      BY <2>1, <2>2, <2>3
  <1>15. /\ NowPosted(row.line) = posted /\ Len(payments) < MaxPayments
         /\ payments' = Append(payments, row) /\ docs' = Settle(AllocatedIn(row))
    BY <1>1, <1>2, <1>3, <1>6, <1>11 DEF NowPosted, CanRecord
  <1>16. QED
    BY <1>2, <1>6, <1>8, <1>9, <1>10, <1>11, <1>12, <1>13, <1>14, <1>15, RecordKeeps

(* A credit note no longer set against an invoice. *)
LEMMA UnapplyCreditNoteKeeps ==
  ASSUME PayInv, NEW p \in DOMAIN payments, UnapplyCreditNote(p)
  PROVE  PayInv'
  <1>1. /\ p \in Standing /\ payments[p].kind = "offset"
        /\ \A d \in Docs : payments[p].settled[d] # 0 => docs[d].status # "written_off"
        /\ payments' = [payments EXCEPT ![p].reversed = TRUE]
        /\ docs' = Settle(Negated(payments[p].settled))
        /\ posted' = posted /\ ledger' = ledger /\ declared' = declared
    BY DEF UnapplyCreditNote
  <1>2. /\ payments \in Seq(Payment) /\ payments[p] \in Payment
        /\ IsBook(InForce) /\ DOMAIN InForce = Standing /\ p # 0
        /\ \A q \in Standing : InForce[q] = payments[q] /\ payments[q] \in Payment
    BY <1>1, InForceIsABook, BookOfAList DEF PayInv, PaymentsTypeOK
  <1>3. OffsetSound(payments[p])
    BY <1>1 DEF PayInv, Sound
  <1>4. RefundsOf(p) = {}
    <2>1. SUFFICES ASSUME NEW r \in RefundsOf(p) PROVE FALSE
      OBVIOUS
    <2>2. r \in Standing /\ payments[r].refundOf = p
      BY <2>1 DEF RefundsOf
    <2>3. InForce[p].kind = "cash"
      BY <1>2, <2>2 DEF PayInv, BookSound, RefundsMatch
    <2>4. QED
      BY <1>1, <1>2, <2>3
  <1>5. \A d \in Docs : payments[p].settled[d] # 0 => Open(d)
    <2>1. PICK s : s = [q \in Standing \ {p} |-> payments[q]]
      OBVIOUS
    <2>2. IsBook(s)
      BY <1>2, <2>1, FS_Subset DEF IsBook
    <2>3. OneMore(s, InForce, p)
      BY <1>1, <1>2, <2>1 DEF OneMore
    <2>4. ASSUME NEW d \in Docs, payments[p].settled[d] # 0 PROVE Open(d)
      <3>1. docs[d].status \notin {"none", "void", "written_off"}
        BY <1>1, <2>2, <2>3, <2>4, WithoutIt
      <3>2. docs[d].status \in DocStatuses
        BY DEF PayInv, PaymentsTypeOK, Doc
      <3>3. QED
        BY <3>1, <3>2 DEF DocStatuses, Open
    <2>5. QED
      BY <2>4
  <1>6. AllocatedIn(payments[p]) = payments[p].settled
    <2>1. PICK f : f = payments[p].settled /\ f \in [Docs -> Int]
      BY <1>2, Fields
    <2>2. AllocatedIn(payments[p]) = [d \in Docs |-> f[d] + 0]
      BY <1>3, <2>1 DEF OffsetSound, AllocatedIn, Plus, Nil
    <2>3. \A d \in Docs : f[d] + 0 = f[d]
      BY <2>1
    <2>4. QED
      BY <2>1, <2>2, <2>3
  <1>7. Plus(ledger, Reversal(p)) = ledger
    <2>1. Reversal(p) = [a \in Accounts |-> -(0 + 0)]
      BY <1>3 DEF OffsetSound, Reversal, Negated, Plus, Nothing
    <2>2. ledger \in [Accounts -> Int]
      BY DEF PayInv, PaymentsTypeOK
    <2>3. Plus(ledger, Reversal(p)) = [a \in Accounts |-> ledger[a] + (-(0 + 0))]
      BY <2>1, <2>2 DEF Plus
    <2>4. \A a \in Accounts : ledger[a] + (-(0 + 0)) = ledger[a]
      BY <2>2
    <2>5. QED
      BY <2>2, <2>3, <2>4
  <1>8. Plus(declared, Negated(payments[p].released)) = declared
    <2>1. Negated(payments[p].released) = [d \in Docs |-> -Nil[d]]
      BY <1>3 DEF OffsetSound, Negated, Nil
    <2>2. PICK f : f = Negated(payments[p].released)
      OBVIOUS
    <2>3. f \in [Docs -> Int] /\ \A d \in Docs : f[d] = 0
      <3>1. \A n \in Int : n + n = n => -n = 0
        OBVIOUS
      <3>2. \A d \in Docs : Nil[d] \in Int /\ Nil[d] + Nil[d] = Nil[d]
        BY DEF Nil
      <3>3. QED
        BY <2>1, <2>2, <3>1, <3>2
    <2>4. QED
      BY <2>2, <2>3, NothingSettled DEF PayInv
  <1>9. posted \ {payments[p].line} = posted
    BY <1>3, AmountsAssumption DEF PayInv, PaymentsTypeOK, OffsetSound
  <1>10. QED
    BY <1>1, <1>4, <1>5, <1>6, <1>7, <1>8, <1>9, TakeBackKeeps

(* A payment or a refund reversed. *)
LEMMA ReversePaymentKeeps ==
  ASSUME PayInv, NEW p \in DOMAIN payments, ReversePayment(p)
  PROVE  PayInv'
  BY TakeBackKeeps DEF ReversePayment, Reversible, AllocatedBy, AllocatedIn

------------------------------------------------------------------------------
(* The documents' own operations: the payments are left as they are, and what
   changes of a document's row is what its journal moves. *)

(* A payment settles nothing of a document that is not posted. *)
LEMMA NothingReleasedUnposted ==
  ASSUME PayInv, NEW d \in Docs, ~Posted(d)
  PROVE  ReleasedIn(InForce, d) = 0 /\ docs[d] = NoDoc /\ declared[d] = 0
  <1>1. /\ IsBook(InForce) /\ DOMAIN InForce = Standing
        /\ \A q \in Standing : InForce[q] = payments[q] /\ q \in DOMAIN payments
    BY InForceIsABook DEF PayInv, PaymentsTypeOK
  <1>2. ReleasedIn(InForce, d) = 0
    <2>1. PICK f : f = [q \in DOMAIN InForce |-> InForce[q].released[d]]
      OBVIOUS
    <2>2. \A q \in DOMAIN InForce : InForce[q].released[d] = 0
      BY <1>1 DEF PayInv, Sound, SettlesSoundly, SettlesWhatIsPosted
    <2>3. f \in [DOMAIN InForce -> Int] /\ \A q \in DOMAIN InForce : f[q] = 0
      BY <2>1, <2>2
    <2>4. Total(f) = 0
      BY <1>1, <2>3, TotalZero DEF IsBook
    <2>5. QED
      BY <2>1, <2>4 DEF ReleasedIn
  <1>3. docs[d] = NoDoc
    BY DEF PayInv, DocsSound, RowSound
  <1>4. declared[d] = 0
    BY <1>2, <1>3 DEF PayInv, DocsSound, BaseVat, NoDoc
  <1>5. QED
    BY <1>2, <1>3, <1>4

(* One document's row is rewritten: the invariant stands when its journal moves
   what changes of the row, and the register what changes of its VAT. *)
LEMMA RowKeeps ==
  ASSUME PayInv, NEW e \in Docs, NEW row \in Doc, NEW moved \in [Accounts -> Int], NEW vat \in Int,
         payments' = payments, posted' = posted,
         docs' = [docs EXCEPT ![e] = row], row.paid = docs[e].paid,
         ledger' = Plus(ledger, moved), declared' = [declared EXCEPT ![e] = declared[e] + vat],
         RowSound(e)', row.status # "none",
         Posted(e) => row.deferred = docs[e].deferred, row.deferred => vat = 0,
         BaseVat(e)' = BaseVat(e) + vat,
         moved.debtors = row.outstanding - docs[e].outstanding,
         moved.creditors = 0, moved.vat = -vat
  PROVE  PayInv'
  <1>1. /\ docs \in [Docs -> Doc] /\ \A d \in Docs : Towards(d, docs[d].paid)
        /\ ledger \in [Accounts -> Int] /\ declared \in [Docs -> Int]
        /\ DocsSound /\ Controlled
    BY DEF PayInv, PaymentsTypeOK
  <1>2. /\ docs' \in [Docs -> Doc] /\ docs'[e] = row
        /\ \A d \in Docs : d # e => docs'[d] = docs[d]
        /\ \A d \in Docs : docs'[d].paid = docs[d].paid
    BY <1>1
  <1>3. /\ declared' \in [Docs -> Int] /\ declared'[e] = declared[e] + vat
        /\ \A d \in Docs : d # e => declared'[d] = declared[d]
    BY <1>1
  <1>4. /\ ledger' \in [Accounts -> Int]
        /\ \A a \in Accounts : ledger'[a] = ledger[a] + moved[a]
    BY <1>1 DEF Plus
  <1>5. Standing' = Standing /\ InForce' = InForce
    BY DEF Standing, InForce
  <1>6. DocsSound'
    <2>1. ASSUME NEW d \in Docs
          PROVE  /\ RowSound(d)'
                 /\ docs'[d].paid = PaidIn(InForce, d)
                 /\ declared'[d] = BaseVat(d)' + ReleasedIn(InForce, d)
      <3>1. /\ RowSound(d) /\ docs[d].paid = PaidIn(InForce, d)
            /\ declared[d] = BaseVat(d) + ReleasedIn(InForce, d)
        BY <1>1 DEF DocsSound
      <3>2. CASE d = e
        <4>1. /\ ReleasedIn(InForce, d) \in Int /\ BaseVat(d) \in Int
          <5>1. ReleasedIn(InForce, d) \in Int
            BY InForceIsABook, BookSums DEF PayInv, PaymentsTypeOK
          <5>2. docs[d].relief \in Int /\ Vat[d] \in Int
            BY <1>1, Billed DEF Doc
          <5>3. QED
            BY <5>1, <5>2 DEF BaseVat
        <4>2. declared'[d] = BaseVat(d)' + ReleasedIn(InForce, d)
          BY <1>3, <3>1, <3>2, <4>1
        <4>3. QED
          BY <1>2, <3>1, <3>2, <4>2
      <3>3. CASE d # e
        <4>1. docs'[d] = docs[d] /\ declared'[d] = declared[d]
          BY <1>2, <1>3, <3>3
        <4>2. RowSound(d)' /\ BaseVat(d)' = BaseVat(d)
          BY <3>1, <4>1 DEF RowSound, BaseVat, Posted, Open, StatusAt
        <4>3. QED
          BY <3>1, <4>1, <4>2
      <3>4. QED
        BY <3>2, <3>3
    <2>2. QED
      BY <1>5, <2>1 DEF DocsSound
  <1>7. Controlled'
    <2>1. OutstandingInAll' = OutstandingInAll + moved.debtors /\ OutstandingInAll \in Int
      <3>1. PICK f, g : /\ f = [d \in Docs |-> docs[d].outstanding]
                        /\ g = [d \in Docs |-> docs'[d].outstanding]
        OBVIOUS
      <3>2. /\ f \in [Docs -> Int] /\ g \in [Docs -> Int]
            /\ \A d \in Docs : d # e => g[d] = f[d]
            /\ f[e] = docs[e].outstanding /\ g[e] = row.outstanding
        BY <1>1, <1>2, <3>1 DEF Doc
      <3>3. Total(g) = Total(f) - f[e] + g[e] /\ Total(f) \in Int
        BY <3>2, TotalChanged, TotalType, DocumentsAssumption
      <3>4. QED
        BY <3>1, <3>2, <3>3 DEF OutstandingInAll
    <2>2. Total(declared') = Total(declared) + vat /\ Total(declared) \in Int
      <3>1. PICK f, g : f = declared /\ g = declared'
        OBVIOUS
      <3>2. /\ f \in [Docs -> Int] /\ g \in [Docs -> Int]
            /\ \A d \in Docs : d # e => g[d] = f[d]
            /\ g[e] = f[e] + vat
        BY <1>1, <1>3, <3>1
      <3>3. Total(g) = Total(f) - f[e] + g[e] /\ Total(f) \in Int
        BY <3>2, TotalChanged, TotalType, DocumentsAssumption
      <3>4. QED
        BY <3>1, <3>2, <3>3
    <2>3. HeldIn(InForce, "received") \in Int /\ HeldIn(InForce, "made") \in Int
      BY InForceIsABook, BookSums DEF PayInv, PaymentsTypeOK
    <2>4. /\ ledger'.debtors = ledger.debtors + moved.debtors
          /\ ledger'.creditors = ledger.creditors + moved.creditors
          /\ ledger'.vat = ledger.vat + moved.vat
      BY <1>4 DEF Accounts
    <2>5. moved.debtors \in Int
      BY DEF Accounts
    <2>6. QED
      BY <1>1, <1>5, <2>1, <2>2, <2>3, <2>4, <2>5 DEF Controlled
  <1>8. SettlesWhatIsPosted'
    <2>1. \A d \in Docs : Posted(d) => Posted(d)'
      BY <1>2 DEF Posted
    <2>2. QED
      BY <2>1 DEF PayInv, SettlesWhatIsPosted
  <1>9. DeclaredIsTheShare'
    <2>1. SUFFICES ASSUME NEW d \in Docs, docs'[d].deferred, OnlyReceipts(d)'
                   PROVE  declared'[d] = Share(d, docs'[d].paid)
      BY DEF DeclaredIsTheShare
    <2>2. OnlyReceipts(d)
      BY <2>1 DEF OnlyReceipts
    <2>3. CASE docs[d].deferred
      <3>1. declared[d] = Share(d, docs[d].paid)
        BY <2>2, <2>3 DEF PayInv, DeclaredIsTheShare
      <3>2. declared'[d] = declared[d]
        BY <1>1, <1>2, <1>3, <2>1
      <3>3. QED
        BY <1>2, <3>1, <3>2
    <2>4. CASE ~docs[d].deferred
      <3>1. d = e
        BY <1>2, <2>1, <2>4
      <3>2. ~Posted(e) /\ vat = 0
        BY <1>2, <2>1, <2>4, <3>1
      <3>3. declared[e] = 0 /\ docs[e] = NoDoc
        BY <3>2, NothingReleasedUnposted
      <3>4. docs'[d].paid = 0 /\ declared'[d] = 0
        BY <1>2, <1>3, <3>1, <3>2, <3>3 DEF NoDoc
      <3>5. QED
        BY <3>4, ShareIs
    <2>5. QED
      BY <2>3, <2>4
  <1>10. PaymentsTypeOK' /\ Len(payments') <= MaxPayments
    <2>1. PaidWithin'
      BY <1>2 DEF PayInv, PaymentsTypeOK, PaidWithin, NeverNamedTwice
    <2>2. QED
      BY <1>1, <1>2, <1>3, <1>4, <2>1 DEF PayInv, PaymentsTypeOK
  <1>11. BookSound(InForce') /\ PostedLines' /\ \A q \in DOMAIN payments' : Sound(payments'[q])
    BY <1>5 DEF PayInv, PostedLines
  <1>12. QED
    BY <1>6, <1>7, <1>8, <1>9, <1>10, <1>11 DEF PayInv

(* Posted: an invoice or a credit note comes to be outstanding, its VAT declared
   or deferred. *)
LEMMA PostInvoiceKeeps ==
  ASSUME PayInv, NEW e \in Docs, PostInvoice(e)
  PROVE  PayInv'
  <1>1. PICK deferred \in BOOLEAN :
          /\ docs' = [docs EXCEPT ![e] = [NoDoc EXCEPT !.status = "issued",
                        !.deferred = deferred, !.outstanding = Gross[e]]]
          /\ ledger' = Plus(ledger, Posting(e, deferred))
          /\ declared' = [declared EXCEPT ![e] = IF deferred THEN 0 ELSE Vat[e]]
    BY DEF PostInvoice
  <1>2. ~Posted(e) /\ payments' = payments /\ posted' = posted
    BY DEF PostInvoice, Posted
  <1>3. docs[e] = NoDoc /\ declared[e] = 0 /\ docs \in [Docs -> Doc] /\ declared \in [Docs -> Int]
    BY <1>2, NothingReleasedUnposted DEF PayInv, PaymentsTypeOK
  <1>4. PICK row, moved, vat :
          /\ row = [NoDoc EXCEPT !.status = "issued", !.deferred = deferred,
                                 !.outstanding = Gross[e]]
          /\ moved = Posting(e, deferred) /\ vat = IF deferred THEN 0 ELSE Vat[e]
    OBVIOUS
  <1>5. Gross[e] \in Int /\ Vat[e] \in Int /\ Gross[e] # 0
    BY Billed
  <1>6. /\ row \in Doc /\ row.status = "issued" /\ row.deferred = deferred /\ row.paid = 0
        /\ row.outstanding = Gross[e] /\ row.relief = 0
    <2>1. row = [status |-> "issued", deferred |-> deferred, paid |-> 0,
                 outstanding |-> Gross[e], writtenOff |-> 0, cancelled |-> 0, relief |-> 0]
      BY <1>4 DEF NoDoc
    <2>2. QED
      BY <1>5, <2>1 DEF Doc, DocStatuses
  <1>7. vat \in Int /\ (row.deferred => vat = 0)
    BY <1>4, <1>5, <1>6
  <1>8. /\ moved \in [Accounts -> Int] /\ moved.debtors = Gross[e]
        /\ moved.creditors = 0 /\ moved.vat = -vat
    <2>1. PICK x, y \in Int : /\ x = Vat[e] - Gross[e] /\ y = IF deferred THEN -Vat[e] ELSE 0
      BY <1>5
    <2>2. PICK z \in Int : z = (IF deferred THEN 0 ELSE -Vat[e]) /\ z = -vat
      <3>1. deferred => vat = 0
        BY <1>4
      <3>2. deferred => -vat = 0
        BY <1>7, <3>1, NoneNegated, Zenon
      <3>3. QED
        BY <1>4, <1>5, <3>2
    <2>3. moved = [a \in Accounts |-> IF a = "vat" THEN z ELSE IF a = "deferred" THEN y
                     ELSE IF a = "sales" THEN x ELSE IF a = "debtors" THEN Gross[e] ELSE 0]
      BY <1>4, <2>1, <2>2 DEF Posting, Nothing
    <2>4. QED
      BY <1>5, <2>2, <2>3 DEF Accounts
  <1>9. /\ docs' = [docs EXCEPT ![e] = row] /\ docs'[e] = row
        /\ ledger' = Plus(ledger, moved) /\ declared' = [declared EXCEPT ![e] = declared[e] + vat]
    <2>1. declared[e] + vat = IF deferred THEN 0 ELSE Vat[e]
      BY <1>3, <1>4, <1>5
    <2>2. QED
      BY <1>1, <1>3, <1>4, <2>1
  <1>10. RowSound(e)'
    BY <1>5, <1>6, <1>9 DEF RowSound, Posted, Open, StatusAt
  <1>11. BaseVat(e)' = BaseVat(e) + vat
    BY <1>3, <1>4, <1>5, <1>6, <1>9 DEF BaseVat, NoDoc
  <1>12. docs[e].paid = 0 /\ docs[e].outstanding = 0
    BY <1>3 DEF NoDoc
  <1>13. moved.debtors = row.outstanding - docs[e].outstanding
    BY <1>5, <1>6, <1>8, <1>12
  <1>14. QED
    BY <1>2, <1>6, <1>7, <1>8, <1>9, <1>10, <1>11, <1>12, <1>13, RowKeeps

(* Voided: nothing was paid of it, and its posting is undone. *)
LEMMA VoidInvoiceKeeps ==
  ASSUME PayInv, NEW e \in Docs, VoidInvoice(e)
  PROVE  PayInv'
  <1>1. /\ Open(e) /\ docs[e].paid = 0
        /\ docs' = [docs EXCEPT ![e].status = "void", ![e].outstanding = 0]
        /\ ledger' = Plus(ledger, Negated(Posting(e, docs[e].deferred)))
        /\ declared' = [declared EXCEPT ![e] = IF docs[e].deferred THEN declared[e]
                                               ELSE declared[e] - Vat[e]]
        /\ payments' = payments /\ posted' = posted
    BY DEF VoidInvoice
  <1>2. docs \in [Docs -> Doc] /\ declared \in [Docs -> Int] /\ RowSound(e)
    BY DEF PayInv, PaymentsTypeOK, DocsSound
  <1>3. PICK was \in Doc : was = docs[e]
    BY <1>2
  <1>4. PICK row, moved, vat :
          /\ row = [was EXCEPT !.status = "void", !.outstanding = 0]
          /\ moved = Negated(Posting(e, was.deferred)) /\ vat = IF was.deferred THEN 0 ELSE -Vat[e]
    OBVIOUS
  <1>5. Gross[e] \in Int /\ Vat[e] \in Int /\ Gross[e] # 0
    BY Billed
  <1>6. /\ was.status \in {"issued", "part_paid", "paid"} /\ was.paid = 0 /\ was.relief = 0
        /\ was.outstanding = Gross[e] /\ was.deferred \in BOOLEAN
    <2>1. was.outstanding = Gross[e] - was.paid /\ was.paid = 0
      BY <1>1, <1>2, <1>3 DEF RowSound
    <2>2. QED
      BY <1>1, <1>2, <1>3, <1>5, <2>1 DEF RowSound, Open, Doc
  <1>7. /\ row \in Doc /\ row.status = "void" /\ row.deferred = was.deferred /\ row.paid = 0
        /\ row.outstanding = 0 /\ row.relief = 0
    BY <1>3, <1>4, <1>6 DEF Doc, DocStatuses
  <1>8. vat \in Int /\ (row.deferred => vat = 0)
    BY <1>4, <1>5, <1>7
  <1>9. /\ moved \in [Accounts -> Int] /\ moved.debtors = -Gross[e]
        /\ moved.creditors = 0 /\ moved.vat = -vat
    <2>1. PICK x, y \in Int : /\ x = Vat[e] - Gross[e] /\ y = IF was.deferred THEN -Vat[e] ELSE 0
      BY <1>5
    <2>2. PICK z \in Int : z = (IF was.deferred THEN 0 ELSE -Vat[e]) /\ z = vat
      BY <1>4, <1>5
    <2>3. Posting(e, was.deferred)
            = [a \in Accounts |-> IF a = "vat" THEN z ELSE IF a = "deferred" THEN y
                 ELSE IF a = "sales" THEN x ELSE IF a = "debtors" THEN Gross[e] ELSE 0]
      BY <2>1, <2>2 DEF Posting, Nothing
    <2>4. moved = [a \in Accounts |-> -(IF a = "vat" THEN z ELSE IF a = "deferred" THEN y
                     ELSE IF a = "sales" THEN x ELSE IF a = "debtors" THEN Gross[e] ELSE 0)]
      BY <1>4, <2>3 DEF Negated
    <2>5. \A n \in Int : -n \in Int /\ (n + n = n => -n = 0)
      OBVIOUS
    <2>6. /\ moved \in [Accounts -> Int] /\ moved.debtors = -Gross[e] /\ moved.vat = -z
          /\ moved.creditors = -(Gross[e] - Gross[e])
      BY <1>5, <2>1, <2>4, <2>5 DEF Accounts
    <2>7. QED
      BY <1>5, <2>2, <2>6
  <1>10. /\ docs' = [docs EXCEPT ![e] = row] /\ docs'[e] = row
         /\ ledger' = Plus(ledger, moved) /\ declared' = [declared EXCEPT ![e] = declared[e] + vat]
    <2>1. declared[e] + vat = IF was.deferred THEN declared[e] ELSE declared[e] - Vat[e]
      BY <1>2, <1>4, <1>5
    <2>2. QED
      BY <1>1, <1>2, <1>3, <1>4, <2>1
  <1>11. RowSound(e)'
    BY <1>7, <1>10 DEF RowSound, Posted, Open
  <1>12. BaseVat(e)' = BaseVat(e) + vat
    <2>1. BaseVat(e) = IF was.deferred THEN 0 ELSE Vat[e] - 0
      BY <1>3, <1>6 DEF BaseVat
    <2>2. BaseVat(e)' = 0
      BY <1>7, <1>10 DEF BaseVat
    <2>3. QED
      BY <1>4, <1>5, <2>1, <2>2
  <1>13. moved.debtors = row.outstanding - was.outstanding
    BY <1>5, <1>6, <1>7, <1>9
  <1>14. /\ row.paid = docs[e].paid /\ row.status # "none"
         /\ (Posted(e) => row.deferred = docs[e].deferred)
         /\ moved.debtors = row.outstanding - docs[e].outstanding
    BY <1>1, <1>3, <1>6, <1>7, <1>13
  <1>15. QED
    BY <1>1, <1>7, <1>8, <1>9, <1>10, <1>11, <1>12, <1>14, RowKeeps

(* Written off as a bad debt: what was outstanding is a charge, and the VAT still
   deferred on it will never be due. *)
LEMMA WriteOffKeeps ==
  ASSUME PayInv, NEW e \in Docs, WriteOffBadDebt(e)
  PROVE  PayInv'
  <1>1. /\ e \in Invoices /\ Open(e) /\ docs[e].outstanding > 0
        /\ docs' = [docs EXCEPT ![e].status = "written_off", ![e].outstanding = 0,
                                ![e].writtenOff = docs[e].outstanding,
                                ![e].cancelled = DeferredVatRemaining(e)]
        /\ ledger' = Plus(ledger, WriteOff(docs[e].outstanding, DeferredVatRemaining(e)))
        /\ payments' = payments /\ posted' = posted /\ declared' = declared
    BY DEF WriteOffBadDebt
  <1>2. docs \in [Docs -> Doc] /\ declared \in [Docs -> Int] /\ RowSound(e)
    BY DEF PayInv, PaymentsTypeOK, DocsSound
  <1>3. PICK was \in Doc : was = docs[e]
    BY <1>2
  <1>4. /\ was.outstanding \in Int /\ was.paid \in Int /\ was.deferred \in BOOLEAN
        /\ was.outstanding = Gross[e] - was.paid /\ was.relief = 0
        /\ was.status \in {"issued", "part_paid", "paid"}
    BY <1>1, <1>2, <1>3 DEF RowSound, Open, Doc
  <1>5. PICK cancelled \in Int : cancelled = DeferredVatRemaining(e)
    BY <1>3, <1>4, Billed, ShareIs DEF DeferredVatRemaining
  <1>6. PICK row, moved :
          /\ row = [was EXCEPT !.status = "written_off", !.outstanding = 0,
                               !.writtenOff = was.outstanding, !.cancelled = cancelled]
          /\ moved = WriteOff(was.outstanding, cancelled)
    OBVIOUS
  <1>7. /\ row \in Doc /\ row.status = "written_off" /\ row.deferred = was.deferred
        /\ row.paid = was.paid /\ row.outstanding = 0 /\ row.relief = 0
        /\ row.writtenOff = was.outstanding
    BY <1>4, <1>6 DEF Doc, DocStatuses
  <1>8. /\ moved \in [Accounts -> Int] /\ moved.debtors = -was.outstanding
        /\ moved.creditors = 0 /\ moved.vat = 0
    <2>1. PICK x, y \in Int : x = -was.outstanding /\ y = was.outstanding - cancelled
      BY <1>4
    <2>2. moved = [a \in Accounts |-> IF a = "deferred" THEN cancelled ELSE IF a = "charges" THEN y
                     ELSE IF a = "debtors" THEN x ELSE 0]
      BY <1>6, <2>1 DEF WriteOff, Nothing
    <2>3. QED
      BY <2>1, <2>2 DEF Accounts
  <1>9. PICK vat \in Int : vat = 0 /\ vat + vat = vat
    OBVIOUS
  <1>10. /\ docs' = [docs EXCEPT ![e] = row] /\ docs'[e] = row
         /\ ledger' = Plus(ledger, moved) /\ declared' = [declared EXCEPT ![e] = declared[e] + vat]
         /\ moved.vat = -vat
    <2>1. declared[e] + vat = declared[e]
      BY <1>2, <1>9
    <2>2. -vat = 0
      BY <1>9, NoneNegated, Zenon
    <2>3. QED
      BY <1>1, <1>2, <1>3, <1>5, <1>6, <1>8, <2>1, <2>2
  <1>11. RowSound(e)'
    BY <1>4, <1>7, <1>10 DEF RowSound, Posted, Open
  <1>12. BaseVat(e)' = BaseVat(e) + vat
    <2>1. BaseVat(e)' = BaseVat(e)
      BY <1>3, <1>4, <1>7, <1>10 DEF BaseVat
    <2>2. BaseVat(e) \in Int
      BY <1>3, <1>4, Billed DEF BaseVat
    <2>3. QED
      BY <1>9, <2>1, <2>2
  <1>13. moved.debtors = row.outstanding - was.outstanding
    BY <1>4, <1>7, <1>8
  <1>14. QED
    BY <1>1, <1>3, <1>7, <1>8, <1>9, <1>10, <1>11, <1>12, <1>13, RowKeeps

(* Relief claimed: the VAT declared in what was written off is taken back. *)
LEMMA ClaimReliefKeeps ==
  ASSUME PayInv, NEW e \in Docs, ClaimBadDebtRelief(e)
  PROVE  PayInv'
  <1>1. PICK relief : relief = ReliefOn(e)
    OBVIOUS
  <1>2. /\ docs[e].status = "written_off" /\ ~docs[e].deferred /\ docs[e].relief = 0
        /\ docs' = [docs EXCEPT ![e].relief = relief]
        /\ ledger' = Plus(ledger, Relief(relief))
        /\ declared' = [declared EXCEPT ![e] = declared[e] - relief]
        /\ payments' = payments /\ posted' = posted
    BY <1>1 DEF ClaimBadDebtRelief
  <1>3. docs \in [Docs -> Doc] /\ declared \in [Docs -> Int] /\ RowSound(e)
    BY DEF PayInv, PaymentsTypeOK, DocsSound
  <1>4. PICK was \in Doc : was = docs[e]
    BY <1>3
  <1>5. /\ was.outstanding = 0 /\ was.paid \in Int /\ was.writtenOff = Gross[e] - was.paid
        /\ was.status = "written_off" /\ ~was.deferred /\ was.relief = 0
        /\ was.writtenOff \in Int /\ relief \in Int
    <2>1. /\ was.outstanding = 0 /\ was.paid \in Int /\ was.writtenOff = Gross[e] - was.paid
          /\ was.status = "written_off" /\ ~was.deferred /\ was.relief = 0
          /\ was.writtenOff \in Int
      BY <1>2, <1>3, <1>4 DEF RowSound, Open, Doc
    <2>2. PICK rate, whole, n \in Int : /\ rate = ReliefRate[e] /\ whole = 10000 + rate /\ whole > 0
                                        /\ n = 2 * was.writtenOff * rate + whole
      BY <2>1, DocumentsAssumption
    <2>3. 2 * whole \in Int /\ 2 * whole > 0
      BY <2>2
    <2>4. n \div (2 * whole) \in Int
      BY <2>2, <2>3
    <2>5. relief = n \div (2 * whole)
      BY <1>1, <1>4, <2>2 DEF ReliefOn
    <2>6. QED
      BY <2>1, <2>4, <2>5
  <1>6. PICK row, moved, vat : /\ row = [was EXCEPT !.relief = relief]
                               /\ moved = Relief(relief) /\ vat = -relief
    OBVIOUS
  <1>7. /\ row \in Doc /\ row.status = "written_off" /\ ~row.deferred
        /\ row.deferred = was.deferred /\ row.paid = was.paid /\ row.outstanding = 0 /\ row.relief = relief
        /\ row.writtenOff = was.writtenOff
    BY <1>5, <1>6 DEF Doc
  <1>8. /\ moved \in [Accounts -> Int] /\ moved.debtors = 0
        /\ moved.creditors = 0 /\ moved.vat = relief
    <2>1. moved = [a \in Accounts |-> IF a = "charges" THEN vat ELSE IF a = "vat" THEN relief ELSE 0]
      BY <1>6 DEF Relief, Nothing
    <2>2. QED
      BY <1>5, <1>6, <2>1 DEF Accounts
  <1>9. vat \in Int /\ moved.vat = -vat /\ moved.debtors = row.outstanding - was.outstanding
    BY <1>5, <1>6, <1>7, <1>8
  <1>10. /\ docs' = [docs EXCEPT ![e] = row] /\ docs'[e] = row
         /\ ledger' = Plus(ledger, moved) /\ declared' = [declared EXCEPT ![e] = declared[e] + vat]
    <2>1. declared[e] - relief = declared[e] + vat
      BY <1>3, <1>5, <1>6
    <2>2. QED
      BY <1>2, <1>3, <1>4, <1>6, <2>1
  <1>11. RowSound(e)'
    BY <1>5, <1>7, <1>10 DEF RowSound, Posted, Open
  <1>12. BaseVat(e)' = BaseVat(e) + vat
    <2>1. BaseVat(e) = Vat[e] - 0
      BY <1>4, <1>5 DEF BaseVat
    <2>2. BaseVat(e)' = Vat[e] - relief
      BY <1>7, <1>10 DEF BaseVat
    <2>3. Vat[e] \in Int
      BY Billed
    <2>4. QED
      BY <1>5, <1>6, <2>1, <2>2, <2>3
  <1>13. /\ row.paid = docs[e].paid /\ row.status # "none"
         /\ (Posted(e) => row.deferred = docs[e].deferred) /\ (row.deferred => vat = 0)
         /\ moved.debtors = row.outstanding - docs[e].outstanding
    BY <1>2, <1>4, <1>5, <1>7, <1>9
  <1>14. QED
    BY <1>2, <1>7, <1>8, <1>9, <1>10, <1>11, <1>12, <1>13, RowKeeps

(* The debt recovered: what was written off is outstanding again, and relief
   claimed on it is declared again. *)
LEMMA ReverseWriteOffKeeps ==
  ASSUME PayInv, NEW e \in Docs, ReverseBadDebtWriteOff(e)
  PROVE  PayInv'
  <1>1. /\ docs[e].status = "written_off"
        /\ docs' = [docs EXCEPT ![e] = [WithPaid(e, docs[e].paid) EXCEPT
                      !.writtenOff = 0, !.cancelled = 0, !.relief = 0]]
        /\ ledger' = Plus(Plus(ledger, Negated(WriteOff(docs[e].writtenOff, docs[e].cancelled))),
                          Negated(Relief(docs[e].relief)))
        /\ declared' = [declared EXCEPT ![e] = declared[e] + docs[e].relief]
        /\ payments' = payments /\ posted' = posted
    BY DEF ReverseBadDebtWriteOff
  <1>2. /\ docs \in [Docs -> Doc] /\ declared \in [Docs -> Int] /\ RowSound(e)
        /\ ledger \in [Accounts -> Int]
    BY DEF PayInv, PaymentsTypeOK, DocsSound
  <1>3. PICK was \in Doc : was = docs[e]
    BY <1>2
  <1>4. /\ was.outstanding = 0 /\ was.paid \in Int /\ was.writtenOff = Gross[e] - was.paid
        /\ was.status = "written_off" /\ was.deferred \in BOOLEAN /\ (was.deferred => was.relief = 0)
        /\ was.writtenOff \in Int /\ was.cancelled \in Int /\ was.relief \in Int
        /\ Gross[e] \in Int /\ Vat[e] \in Int
    BY <1>1, <1>2, <1>3, Billed DEF RowSound, Open, Doc
  <1>5. PICK status \in {"issued", "part_paid", "paid"} : status = StatusAt(e, was.paid)
    BY DEF StatusAt
  <1>6. PICK row, back, repaid :
          /\ row = [WithPaid(e, was.paid) EXCEPT !.writtenOff = 0, !.cancelled = 0, !.relief = 0]
          /\ back = Negated(WriteOff(was.writtenOff, was.cancelled))
          /\ repaid = Negated(Relief(was.relief))
    OBVIOUS
  <1>7. /\ row \in Doc /\ row.status = status /\ row.deferred = was.deferred
        /\ row.paid = was.paid /\ row.outstanding = Gross[e] - was.paid /\ row.relief = 0
    <2>1. row = [was EXCEPT !.paid = was.paid, !.outstanding = Gross[e] - was.paid,
                            !.status = status, !.writtenOff = 0, !.cancelled = 0, !.relief = 0]
      BY <1>3, <1>5, <1>6 DEF WithPaid
    <2>2. PICK left \in Int : left = Gross[e] - was.paid
      BY <1>4
    <2>3. QED
      BY <1>4, <1>5, <2>1, <2>2 DEF Doc, DocStatuses
  <1>8. \A n \in Int : -n \in Int /\ -(-n) = n
    OBVIOUS
  <1>9. /\ back \in [Accounts -> Int] /\ back.debtors = was.writtenOff
        /\ back.creditors = 0 /\ back.vat = 0
    <2>1. PICK x, y, z, n \in Int : /\ x = -was.writtenOff /\ y = was.writtenOff - was.cancelled
                                    /\ z = was.cancelled /\ n = 0
      BY <1>4
    <2>2. WriteOff(was.writtenOff, was.cancelled)
            = [a \in Accounts |-> IF a = "deferred" THEN z ELSE IF a = "charges" THEN y
                 ELSE IF a = "debtors" THEN x ELSE n]
      BY <2>1 DEF WriteOff, Nothing
    <2>3. back = [a \in Accounts |-> -(IF a = "deferred" THEN z ELSE IF a = "charges" THEN y
                                       ELSE IF a = "debtors" THEN x ELSE n)]
      BY <1>6, <2>2 DEF Negated
    <2>4. /\ back \in [Accounts -> Int] /\ back.debtors = -x
          /\ back.creditors = -n /\ back.vat = -n
      BY <1>8, <2>3 DEF Accounts
    <2>5. -n = 0
      BY <2>1, NoneNegated, Zenon
    <2>6. -x = was.writtenOff
      BY <1>4, <1>8, <2>1
    <2>7. QED
      BY <2>4, <2>5, <2>6
  <1>10. /\ repaid \in [Accounts -> Int] /\ repaid.debtors = 0
         /\ repaid.creditors = 0 /\ repaid.vat = -was.relief
    <2>1. PICK x, y, n \in Int : x = was.relief /\ y = -was.relief /\ n = 0
      BY <1>4
    <2>2. Relief(was.relief) = [a \in Accounts |-> IF a = "charges" THEN y
                                  ELSE IF a = "vat" THEN x ELSE n]
      BY <2>1 DEF Relief, Nothing
    <2>3. repaid = [a \in Accounts |-> -(IF a = "charges" THEN y
                                         ELSE IF a = "vat" THEN x ELSE n)]
      BY <1>6, <2>2 DEF Negated
    <2>4. /\ repaid \in [Accounts -> Int] /\ repaid.debtors = -n
          /\ repaid.creditors = -n /\ repaid.vat = -x
      BY <1>8, <2>3 DEF Accounts
    <2>5. -n = 0
      BY <2>1, NoneNegated, Zenon
    <2>6. QED
      BY <2>1, <2>4, <2>5
  <1>11. PICK moved : moved = [a \in Accounts |-> back[a] + repaid[a]]
    OBVIOUS
  <1>12. /\ moved \in [Accounts -> Int] /\ moved.debtors = row.outstanding - was.outstanding
         /\ moved.creditors = 0 /\ moved.vat = -was.relief
    <2>1. moved \in [Accounts -> Int]
      BY <1>9, <1>10, <1>11
    <2>2. /\ moved.debtors = back.debtors + repaid.debtors
          /\ moved.creditors = back.creditors + repaid.creditors
          /\ moved.vat = back.vat + repaid.vat
      BY <1>11 DEF Accounts
    <2>3. QED
      BY <1>4, <1>7, <1>9, <1>10, <2>1, <2>2
  <1>13. ledger' = Plus(ledger, moved)
    <2>1. ledger' = [a \in Accounts |-> (ledger[a] + back[a]) + repaid[a]]
      BY <1>1, <1>2, <1>3, <1>6 DEF Plus
    <2>2. Plus(ledger, moved) = [a \in Accounts |-> ledger[a] + (back[a] + repaid[a])]
      BY <1>2, <1>11 DEF Plus
    <2>3. \A a \in Accounts : (ledger[a] + back[a]) + repaid[a] = ledger[a] + (back[a] + repaid[a])
      BY <1>2, <1>9, <1>10
    <2>4. QED
      BY <2>1, <2>2, <2>3
  <1>14. /\ docs' = [docs EXCEPT ![e] = row] /\ docs'[e] = row
         /\ declared' = [declared EXCEPT ![e] = declared[e] + was.relief]
    BY <1>1, <1>2, <1>3, <1>6
  <1>15. RowSound(e)'
    <2>1. StatusAt(e, row.paid)' = status
      BY <1>5, <1>7 DEF StatusAt
    <2>2. docs'[e].status = status /\ docs'[e].outstanding = Gross[e] - docs'[e].paid
          /\ docs'[e].relief = 0
      BY <1>7, <1>14
    <2>3. StatusAt(e, docs'[e].paid) = status
      BY <1>5, <1>7, <1>14
    <2>4. QED
      BY <1>5, <2>2, <2>3 DEF RowSound, Posted, Open, StatusAt
  <1>16. BaseVat(e)' = BaseVat(e) + was.relief
    BY <1>3, <1>4, <1>5, <1>7, <1>14 DEF BaseVat
  <1>17. row.status # "none" /\ row.paid = docs[e].paid /\ row.deferred = docs[e].deferred
         /\ (row.deferred => was.relief = 0) /\ was.relief \in Int
    BY <1>3, <1>4, <1>5, <1>7
  <1>18. QED
    BY <1>1, <1>3, <1>7, <1>12, <1>13, <1>14, <1>15, <1>16, <1>17, RowKeeps

\* What may be written off with a payment.
Written(direction, a, left) ==
  IF direction = "received" THEN Shortfalls(a, left) ELSE {Nil}

\* What a payment that names documents settles, allocates, and names twice.
AsNamed(a, b, short, settled, by, twice) ==
  settled = Signed(Plus(a, b)) /\ by = Plus(settled, short) /\ twice = {d \in Docs : b[d] # 0}

\* All of it is towards open documents, and within what they are for where named once.
PayablyNamed(direction, a, b, short, settled, by, twice) ==
  /\ a \in [Docs -> Nat] /\ b \in [Docs -> Nat] /\ short \in [Docs -> Nat]
  /\ settled \in [Docs -> Int]
  /\ \A d \in Docs :
       /\ settled[d] = IF d \in CreditNotes THEN -(a[d] + b[d]) ELSE a[d] + b[d]
       /\ a[d] = 0 => b[d] = 0 /\ short[d] = 0
       /\ d \notin Invoices => short[d] = 0
  /\ direction = "made" => short = Nil
  /\ Payable(by) /\ StaysWithin(by, twice)

(* What is allocated to open documents, and perhaps written off with it, is paid
   towards each, and within what it is for where it is named once. *)
LEMMA AllocatedIsPayable ==
  ASSUME PayInv, NEW direction \in {"received", "made"},
         NEW a \in Allocations(direction), NEW b \in Repeats(a),
         NEW left, NEW short \in Written(direction, a, left),
         NEW settled, NEW by, NEW twice, AsNamed(a, b, short, settled, by, twice)
  PROVE  PayablyNamed(direction, a, b, short, settled, by, twice)
  <1>1. /\ a \in [Docs -> Nat] /\ b \in [Docs -> Nat]
        /\ \A d \in Docs : a[d] # 0 => Open(d) /\ a[d] <= Abs(docs[d].outstanding)
        /\ \A d \in Docs : b[d] # 0 => a[d] # 0
    <2>1. /\ a \in [Docs -> Amounts \cup {0}] /\ b \in [Docs -> NamedAgain \cup {0}]
          /\ \A d \in Docs : a[d] # 0 => Open(d) /\ a[d] <= Abs(docs[d].outstanding)
          /\ \A d \in Docs : b[d] # 0 => a[d] # 0
      BY DEF Allocations, Repeats
    <2>2. Amounts \cup {0} \subseteq Nat /\ NamedAgain \cup {0} \subseteq Nat
      BY AmountsAssumption
    <2>3. a \in [Docs -> Nat] /\ b \in [Docs -> Nat]
      BY <2>1, <2>2
    <2>4. QED
      BY <2>1, <2>3
  <1>2. \A d \in Docs : /\ RowSound(d) /\ DocsTypeOK
                        /\ docs[d].paid \in Int /\ docs[d].outstanding \in Int
    BY DEF PayInv, DocsSound, DocsTypeOK, PaymentsTypeOK, Doc
  <1>3. /\ settled \in [Docs -> Int]
        /\ \A d \in Docs : settled[d] = IF d \in CreditNotes THEN -(a[d] + b[d]) ELSE a[d] + b[d]
    <2>1. Plus(a, b) = [d \in Docs |-> a[d] + b[d]]
      BY <1>1 DEF Plus
    <2>2. settled = [d \in Docs |-> IF d \in CreditNotes THEN -(a[d] + b[d]) ELSE a[d] + b[d]]
      BY <2>1 DEF AsNamed, Signed
    <2>3. \A d \in Docs : a[d] + b[d] \in Int /\ -(a[d] + b[d]) \in Int
      BY <1>1
    <2>4. QED
      BY <2>2, <2>3
  <1>4. /\ short \in [Docs -> Nat]
        /\ \A d \in Docs : short[d] # 0 =>
             d \in Invoices /\ a[d] # 0 /\ short[d] = Abs(docs[d].outstanding) - a[d]
        /\ direction = "made" => short = Nil
    <2>1. CASE short = Nil
      BY <2>1 DEF Nil
    <2>2. CASE short # Nil
      <3>1. PICK e \in Invoices : /\ a[e] # 0 /\ a[e] < Abs(docs[e].outstanding)
                                  /\ short = Only(e, Abs(docs[e].outstanding) - a[e])
        BY <2>2 DEF Written, Shortfalls
      <3>2. e \in Docs /\ direction # "made"
        BY <2>2 DEF Docs, Written
      <3>3. PICK x \in Nat : x = Abs(docs[e].outstanding) - a[e]
        BY <1>1, <1>2, <3>1, <3>2 DEF Abs
      <3>4. short \in [Docs -> Int] /\ \A d \in Docs : short[d] = IF d = e THEN x ELSE 0
        BY <3>1, <3>2, <3>3, OnlyIs
      <3>5. QED
        BY <3>1, <3>2, <3>3, <3>4
    <2>3. QED
      BY <2>1, <2>2
  <1>5. \A d \in Docs : by[d] = settled[d] + short[d] /\ by[d] \in Int
    BY <1>3, <1>4 DEF AsNamed, Plus
  <1>6. ASSUME NEW d \in Docs, by[d] # 0
        PROVE  /\ Open(d) /\ Towards(d, docs[d].paid + by[d])
               /\ (b[d] = 0 /\ Abs(docs[d].paid) <= Abs(Gross[d])) =>
                    Abs(docs[d].paid + by[d]) <= Abs(Gross[d])
    <2>1. PICK x, y, z \in Nat, n \in Int : /\ x = a[d] /\ z = b[d] /\ y = short[d]
                                            /\ n = by[d]
      BY <1>1, <1>4, <1>5
    <2>2. n = (IF d \in CreditNotes THEN -(x + z) ELSE x + z) + y
      BY <1>3, <1>5, <2>1
    <2>3. x # 0
      <3>1. SUFFICES ASSUME x = 0 PROVE FALSE
        OBVIOUS
      <3>2. y = 0 /\ z = 0
        BY <1>1, <1>4, <2>1, <3>1
      <3>3. n = 0
        <4>1. x + z = 0
          BY <3>1, <3>2
        <4>2. -(x + z) = 0
          BY <4>1, NoneNegated
        <4>3. QED
          BY <2>2, <3>2, <4>1, <4>2
      <3>4. QED
        BY <1>6, <2>1, <3>3
    <2>4. Open(d) /\ x <= Abs(docs[d].outstanding) /\ Abs(docs[d].outstanding) \in Int
      BY <1>1, <1>2, <2>1, <2>3 DEF Abs
    <2>5. IF d \in Invoices THEN n = x + z + y /\ (y # 0 => y = Abs(docs[d].outstanding) - x)
          ELSE n = -(x + z)
      <3>1. CASE d \in Invoices
        BY <1>4, <2>1, <2>2, <3>1, Billed
      <3>2. CASE d \notin Invoices
        <4>1. d \in CreditNotes /\ y = 0
          BY <1>4, <2>1, <3>2, Billed
        <4>2. QED
          BY <2>2, <3>2, <4>1
      <3>3. QED
        BY <3>1, <3>2
    <2>6. /\ d \in Invoices => 0 <= n
          /\ d \notin Invoices => n <= 0
          /\ z = 0 => Abs(n) <= Abs(docs[d].outstanding)
      BY <2>4, <2>5 DEF Abs
    <2>7. QED
      BY <1>2, <2>1, <2>4, <2>6, PaysWithin
  <1>7. Payable(by) /\ StaysWithin(by, twice)
    <2>1. \A d \in Docs : by[d] = 0 => docs[d].paid + by[d] = docs[d].paid
      BY <1>2
    <2>2. QED
      BY <1>6, <2>1 DEF AsNamed, Payable, StaysWithin
  <1>8. \A d \in Docs : (a[d] = 0 => b[d] = 0 /\ short[d] = 0) /\ (d \notin Invoices => short[d] = 0)
    BY <1>1, <1>4
  <1>9. QED
    BY <1>1, <1>3, <1>4, <1>7, <1>8 DEF PayablyNamed

(* What a receipt releases: nothing of what it does not settle, and of a document
   it names once the share of all that is paid less what was due before. *)
LEMMA ReleasesOfAre ==
  ASSUME DocsTypeOK, NEW a \in [Docs -> Nat], NEW b \in [Docs -> Nat], NEW short \in [Docs -> Nat],
         \A d \in Docs : a[d] = 0 => b[d] = 0 /\ short[d] = 0
  PROVE  /\ ReleasesOf(a, b, short) \in [Docs -> Int]
         /\ \A d \in Docs : a[d] = 0 => ReleasesOf(a, b, short)[d] = 0
         /\ \A d \in Docs : (docs[d].deferred /\ b[d] = 0) =>
              LET by == (IF d \in CreditNotes THEN -(a[d] + b[d]) ELSE a[d] + b[d]) + short[d]
              IN  ReleasesOf(a, b, short)[d] = Share(d, docs[d].paid + by) - Share(d, docs[d].paid)
  <1>1. PICK f, g : /\ f = Plus(Signed(a), short)
                    /\ g = [d \in Docs |-> IF b[d] = 0 THEN 0 ELSE Signed(b)[d] + short[d]]
    OBVIOUS
  <1>2. /\ Signed(a) = [d \in Docs |-> IF d \in CreditNotes THEN -a[d] ELSE a[d]]
        /\ Signed(b) = [d \in Docs |-> IF d \in CreditNotes THEN -b[d] ELSE b[d]]
    BY DEF Signed
  <1>3. \A d \in Docs : /\ a[d] \in Int /\ -a[d] \in Int /\ b[d] \in Int /\ -b[d] \in Int
                        /\ short[d] \in Int
    OBVIOUS
  <1>4. f = [d \in Docs |-> (IF d \in CreditNotes THEN -a[d] ELSE a[d]) + short[d]]
    BY <1>1, <1>2 DEF Plus
  <1>5. f \in [Docs -> Int] /\ g \in [Docs -> Int]
    BY <1>1, <1>2, <1>3, <1>4
  <1>6. PICK r, q : r = VatReleases(f) /\ q = VatReleases(g)
    OBVIOUS
  <1>7. /\ r \in [Docs -> Int] /\ q \in [Docs -> Int]
        /\ \A d \in Docs : f[d] = 0 => r[d] = 0
        /\ \A d \in Docs : g[d] = 0 => q[d] = 0
        /\ \A d \in Docs : docs[d].deferred =>
             r[d] = Share(d, docs[d].paid + f[d]) - Share(d, docs[d].paid)
    BY <1>5, <1>6, ReleasesAre
  <1>8. ReleasesOf(a, b, short) = [d \in Docs |-> r[d] + q[d]]
    BY <1>1, <1>6, <1>7 DEF ReleasesOf, Plus
  <1>9. ASSUME NEW d \in Docs, b[d] = 0 PROVE ReleasesOf(a, b, short)[d] = r[d]
    <2>1. g[d] = 0
      BY <1>1, <1>9
    <2>2. q[d] = 0 /\ r[d] \in Int
      BY <1>7, <2>1
    <2>3. QED
      BY <1>8, <2>2
  <1>10. ASSUME NEW d \in Docs, a[d] = 0 PROVE ReleasesOf(a, b, short)[d] = 0
    <2>1. b[d] = 0 /\ short[d] = 0
      BY <1>10
    <2>2. f[d] = 0
      BY <1>4, <1>10, <2>1
    <2>3. QED
      BY <1>7, <1>9, <2>1, <2>2
  <1>11. ASSUME NEW d \in Docs, docs[d].deferred, b[d] = 0,
                NEW by, by = (IF d \in CreditNotes THEN -(a[d] + b[d]) ELSE a[d] + b[d]) + short[d]
         PROVE  ReleasesOf(a, b, short)[d] = Share(d, docs[d].paid + by) - Share(d, docs[d].paid)
    <2>1. f[d] = by
      BY <1>3, <1>4, <1>11
    <2>2. QED
      BY <1>7, <1>9, <1>11, <2>1
  <1>12. QED
    BY <1>7, <1>8, <1>10, <1>11

(* A receipt or a refund recorded, with what it settles and what is left over. *)
LEMMA RecordPaymentKeeps ==
  ASSUME PayInv, NEW direction \in {"received", "made"}, RecordPayment(direction)
  PROVE  PayInv'
  <1>0. PICK amount \in Amounts, line \in BankLines \cup {NoLine}, a \in Allocations(direction) :
          \E b \in Repeats(a) :
            LET settled == Signed(Plus(a, b))
                applied == IF direction = "received" THEN Total(settled) ELSE -Total(settled)
                left    == amount - applied
                sign    == IF direction = "received" THEN 1 ELSE -1
            IN  /\ FreeLine(line) /\ applied >= 0 /\ left >= 0
                /\ \E shortfall \in (IF direction = "received" THEN Shortfalls(a, left) ELSE {Nil}) :
                     LET by       == Plus(settled, shortfall)
                         released == IF direction = "received" THEN ReleasesOf(a, b, shortfall) ELSE Nil
                         short    == Total(shortfall)
                         moved    == Plus(Releasing(released),
                           [Nothing EXCEPT
                              !.money = sign * amount, !.charges = short,
                              !.debtors = IF direction = "received"
                                          THEN -Total(by) - left ELSE -Total(by),
                              !.creditors = IF direction = "received" THEN 0 ELSE left])
                     IN  /\ payments' = Append(payments,
                              [NewPayment(direction, "cash", amount, line, settled) EXCEPT
                                 !.shortfall = shortfall, !.twice = {d \in Docs : b[d] # 0},
                                 !.released = released, !.moved = moved])
                         /\ docs' = Settle(by)
                         /\ ledger' = Plus(ledger, moved)
                         /\ declared' = Plus(declared, released)
                /\ posted' = NowPosted(line)
    BY DEF RecordPayment
  <1>1. PICK b \in Repeats(a) :
          LET settled == Signed(Plus(a, b))
              applied == IF direction = "received" THEN Total(settled) ELSE -Total(settled)
              left    == amount - applied
              sign    == IF direction = "received" THEN 1 ELSE -1
          IN  /\ FreeLine(line) /\ applied >= 0 /\ left >= 0
              /\ \E shortfall \in (IF direction = "received" THEN Shortfalls(a, left) ELSE {Nil}) :
                   LET by       == Plus(settled, shortfall)
                       released == IF direction = "received" THEN ReleasesOf(a, b, shortfall) ELSE Nil
                       short    == Total(shortfall)
                       moved    == Plus(Releasing(released),
                         [Nothing EXCEPT
                            !.money = sign * amount, !.charges = short,
                            !.debtors = IF direction = "received"
                                        THEN -Total(by) - left ELSE -Total(by),
                            !.creditors = IF direction = "received" THEN 0 ELSE left])
                   IN  /\ payments' = Append(payments,
                            [NewPayment(direction, "cash", amount, line, settled) EXCEPT
                               !.shortfall = shortfall, !.twice = {d \in Docs : b[d] # 0},
                               !.released = released, !.moved = moved])
                       /\ docs' = Settle(by)
                       /\ ledger' = Plus(ledger, moved)
                       /\ declared' = Plus(declared, released)
              /\ posted' = NowPosted(line)
    BY <1>0
  <1>2. Len(payments) < MaxPayments
    BY DEF RecordPayment, CanRecord
  <1>3. PICK settled, applied, left, sign :
          /\ settled = Signed(Plus(a, b))
          /\ applied = IF direction = "received" THEN Total(settled) ELSE -Total(settled)
          /\ left = amount - applied /\ sign = IF direction = "received" THEN 1 ELSE -1
    OBVIOUS
  <1>4. PICK shortfall \in Written(direction, a, left) :
          LET by       == Plus(settled, shortfall)
              released == IF direction = "received" THEN ReleasesOf(a, b, shortfall) ELSE Nil
              short    == Total(shortfall)
              moved    == Plus(Releasing(released),
                [Nothing EXCEPT
                   !.money = sign * amount, !.charges = short,
                   !.debtors = IF direction = "received"
                               THEN -Total(by) - left ELSE -Total(by),
                   !.creditors = IF direction = "received" THEN 0 ELSE left])
          IN  /\ payments' = Append(payments,
                   [NewPayment(direction, "cash", amount, line, settled) EXCEPT
                      !.shortfall = shortfall, !.twice = {d \in Docs : b[d] # 0},
                      !.released = released, !.moved = moved])
              /\ docs' = Settle(by)
              /\ ledger' = Plus(ledger, moved)
              /\ declared' = Plus(declared, released)
    BY <1>1, <1>3 DEF Written
  <1>5. FreeLine(line) /\ left >= 0 /\ posted' = NowPosted(line)
    BY <1>1, <1>3
  <1>6. PICK by, released, short :
          /\ by = Plus(settled, shortfall)
          /\ released = IF direction = "received" THEN ReleasesOf(a, b, shortfall) ELSE Nil
          /\ short = Total(shortfall)
    OBVIOUS
  <1>7. PICK other : other =
          [Nothing EXCEPT !.money = sign * amount, !.charges = short,
                          !.debtors = IF direction = "received"
                                      THEN -Total(by) - left ELSE -Total(by),
                          !.creditors = IF direction = "received" THEN 0 ELSE left]
    OBVIOUS
  <1>8. PICK moved : moved = Plus(Releasing(released), other)
    OBVIOUS
  <1>9. PICK row, twice :
          /\ twice = {d \in Docs : b[d] # 0}
          /\ row = [NewPayment(direction, "cash", amount, line, settled) EXCEPT
                      !.shortfall = shortfall, !.twice = twice,
                      !.released = released, !.moved = moved]
    OBVIOUS
  <1>10. /\ payments' = Append(payments, row) /\ docs' = Settle(by)
         /\ ledger' = Plus(ledger, moved) /\ declared' = Plus(declared, released)
    BY <1>4, <1>6, <1>7, <1>8, <1>9
  <1>11. amount \in Nat /\ amount > 0 /\ IsFiniteSet(Docs)
    BY AmountsAssumption, DocumentsAssumption
  <1>12. /\ a \in [Docs -> Nat] /\ b \in [Docs -> Nat] /\ shortfall \in [Docs -> Nat]
         /\ settled \in [Docs -> Int]
         /\ \A d \in Docs :
              /\ settled[d] = IF d \in CreditNotes THEN -(a[d] + b[d]) ELSE a[d] + b[d]
              /\ a[d] = 0 => b[d] = 0 /\ shortfall[d] = 0
              /\ d \notin Invoices => shortfall[d] = 0
         /\ direction = "made" => shortfall = Nil
         /\ Payable(by) /\ StaysWithin(by, twice)
    <2>1. AsNamed(a, b, shortfall, settled, by, twice)
      BY ONLY <1>3, <1>6, <1>9 DEF AsNamed
    <2>2. PayablyNamed(direction, a, b, shortfall, settled, by, twice)
      BY <2>1, AllocatedIsPayable
    <2>3. QED
      BY <2>2 DEF PayablyNamed
  <1>13. Total(settled) \in Int
    BY <1>11, <1>12, TotalType
  <1>14. left \in Int /\ applied \in Int /\ sign \in Int
    BY <1>3, <1>11, <1>13
  <1>15. \A d \in Docs : a[d] \in Nat /\ b[d] \in Nat
    BY <1>12
  <1>16. /\ by \in [Docs -> Int] /\ short \in Int
         /\ Total(by) = Total(settled) + short /\ Total(by) \in Int
         /\ \A d \in Docs : by[d] = settled[d] + shortfall[d]
    <2>1. shortfall \in [Docs -> Int]
      BY <1>12
    <2>2. by = [d \in Docs |-> settled[d] + shortfall[d]]
      BY <1>6, <1>12, <1>13 DEF Plus
    <2>3. \A d \in Docs : settled[d] + shortfall[d] \in Int
      BY <1>12, <1>13, <2>1
    <2>4. Total([d \in Docs |-> settled[d] + shortfall[d]]) = Total(settled) + Total(shortfall)
      <3>1. settled \in [Docs -> Int]
        BY <1>12
      <3>2. QED
        BY ONLY <1>11, <2>1, <3>1, TotalPlus
    <2>5. short \in Int
      BY <1>6, <1>11, <2>1, TotalType
    <2>6. by \in [Docs -> Int]
      BY <2>2, <2>3
    <2>7. Total(by) = Total(settled) + short
      BY <1>6, <2>2, <2>4
    <2>8. QED
      BY <1>12, <1>13, <2>2, <2>5, <2>6, <2>7
  <1>17. \A d \in Docs : settled[d] = 0 => a[d] = 0 /\ by[d] = 0 /\ shortfall[d] = 0
    <2>1. ASSUME NEW d \in Docs, settled[d] = 0
          PROVE  a[d] = 0 /\ by[d] = 0 /\ shortfall[d] = 0
      <3>1. a[d] = 0
        BY <1>12, <1>15, <2>1
      <3>2. shortfall[d] = 0
        BY <1>12, <3>1
      <3>3. QED
        BY <1>16, <2>1, <3>1, <3>2
    <2>2. QED
      BY <2>1
  <1>18. DocsTypeOK
    BY DEF PayInv, PaymentsTypeOK, DocsTypeOK
  <1>19. /\ released \in [Docs -> Int] /\ Total(released) \in Int
         /\ \A d \in Docs : a[d] = 0 => released[d] = 0
         /\ direction = "received" => \A d \in Docs \ twice : docs[d].deferred =>
              released[d] = Share(d, docs[d].paid + by[d]) - Share(d, docs[d].paid)
         /\ Releasing(released) \in [Accounts -> Int]
         /\ Releasing(released).vat = -Total(released)
         /\ Releasing(released).debtors = 0 /\ Releasing(released).creditors = 0
    <2>1. /\ released \in [Docs -> Int]
          /\ \A d \in Docs : a[d] = 0 => released[d] = 0
          /\ direction = "received" => \A d \in Docs \ twice : docs[d].deferred =>
               released[d] = Share(d, docs[d].paid + by[d]) - Share(d, docs[d].paid)
      <3>1. CASE direction = "received"
        <4>1. /\ released = ReleasesOf(a, b, shortfall)
              /\ \A d \in Docs \ twice : b[d] = 0
          BY <1>6, <1>9, <3>1
        <4>2. \A d \in Docs : a[d] = 0 => b[d] = 0 /\ shortfall[d] = 0
          BY <1>12
        <4>3. /\ released \in [Docs -> Int]
              /\ \A d \in Docs : a[d] = 0 => released[d] = 0
              /\ \A d \in Docs : (docs[d].deferred /\ b[d] = 0) =>
                   LET x == (IF d \in CreditNotes THEN -(a[d] + b[d]) ELSE a[d] + b[d]) + shortfall[d]
                   IN  released[d] = Share(d, docs[d].paid + x) - Share(d, docs[d].paid)
          BY <1>12, <1>18, <4>1, <4>2, ReleasesOfAre
        <4>4. \A d \in Docs : by[d] = (IF d \in CreditNotes THEN -(a[d] + b[d]) ELSE a[d] + b[d])
                                      + shortfall[d]
          BY <1>12, <1>16
        <4>5. QED
          BY <4>1, <4>3, <4>4
      <3>2. CASE direction = "made"
        BY <1>6, <3>2, NilTotals DEF Nil
      <3>3. QED
        BY <3>1, <3>2
    <2>2. QED
      BY <2>1, ReleasingIs DEF Accounts
  <1>20. /\ other \in [Accounts -> Int] /\ other.vat = 0
         /\ other.debtors = (IF direction = "received" THEN -Total(by) - left ELSE -Total(by))
         /\ other.creditors = (IF direction = "received" THEN 0 ELSE left)
    <2>1. PICK x, y, z :
            /\ x = IF direction = "received" THEN -Total(by) - left ELSE -Total(by)
            /\ y = IF direction = "received" THEN 0 ELSE left
            /\ z = sign * amount
      OBVIOUS
    <2>2. x \in Int /\ y \in Int /\ z \in Int
      <3>1. sign * amount \in Int
        BY <1>3, <1>11
      <3>2. -Total(by) - left \in Int /\ -Total(by) \in Int
        BY <1>14, <1>16
      <3>3. QED
        BY <1>14, <2>1, <3>1, <3>2
    <2>3. other = [Nothing EXCEPT !.money = z, !.charges = short, !.debtors = x, !.creditors = y]
      BY <1>7, <2>1
    <2>4. other = [acc \in Accounts |->
            IF acc = "creditors" THEN y ELSE IF acc = "debtors" THEN x
            ELSE IF acc = "charges" THEN short ELSE IF acc = "money" THEN z ELSE 0]
      BY <2>3 DEF Nothing
    <2>5. other \in [Accounts -> Int] /\ other.vat = 0 /\ other.debtors = x /\ other.creditors = y
      BY <1>16, <2>2, <2>4 DEF Accounts
    <2>6. QED
      BY <2>1, <2>5
  <1>21. /\ moved \in [Accounts -> Int] /\ moved.vat = -Total(released)
         /\ moved.debtors = other.debtors /\ moved.creditors = other.creditors
    <2>1. PICK f : f = Releasing(released)
      OBVIOUS
    <2>2. moved = [acc \in Accounts |-> f[acc] + other[acc]]
      BY <1>8, <1>19, <2>1 DEF Plus
    <2>3. f \in [Accounts -> Int]
      BY <1>19, <2>1
    <2>4. \A acc \in Accounts : f[acc] \in Int /\ other[acc] \in Int
      BY <1>20, <2>3
    <2>5. moved \in [Accounts -> Int]
      BY <2>2, <2>4
    <2>6. /\ moved.vat = f.vat + other.vat /\ moved.debtors = f.debtors + other.debtors
          /\ moved.creditors = f.creditors + other.creditors
          /\ other.debtors \in Int /\ other.creditors \in Int /\ f.vat \in Int
      BY <2>2, <2>4 DEF Accounts
    <2>7. QED
      BY <1>19, <1>20, <2>1, <2>5, <2>6
  <1>22. /\ row.direction = direction /\ row.kind = "cash" /\ row.amount = amount
         /\ row.refundOf = 0 /\ row.line = line /\ row.settled = settled
         /\ row.shortfall = shortfall /\ row.released = released
         /\ row.moved = moved /\ row.later = Nothing /\ ~row.reversed /\ row.twice = twice
    BY <1>9 DEF NewPayment
  <1>23. row \in Payment
    <2>1. row = [direction |-> direction, kind |-> "cash", amount |-> amount, refundOf |-> 0,
                 line |-> line, settled |-> settled, shortfall |-> shortfall, twice |-> twice,
                 released |-> released, moved |-> moved, later |-> Nothing, reversed |-> FALSE]
      BY <1>9 DEF NewPayment
    <2>2. /\ amount \in Nat /\ settled \in [Docs -> Int] /\ shortfall \in [Docs -> Nat]
          /\ released \in [Docs -> Int] /\ moved \in [Accounts -> Int]
          /\ Nothing \in [Accounts -> Int] /\ twice \subseteq Docs
      BY <1>9, <1>11, <1>12, <1>13, <1>19, <1>21, NilTotals
    <2>3. QED
      BY <2>1, <2>2 DEF Payment, Kinds
  <1>24. /\ Moved(row, "vat") = -Total(released)
         /\ Moved(row, "debtors") = other.debtors /\ Moved(row, "creditors") = other.creditors
    <2>1. \A acc \in Accounts : Moved(row, acc) = moved[acc]
      BY <1>21, <1>22 DEF Moved, Nothing
    <2>2. QED
      BY <1>21, <2>1 DEF Accounts
  <1>25. Sound(row)
    <2>1. SettlesSoundly(row)
      <3>1. ASSUME NEW d \in Docs
            PROVE  /\ d \in Invoices => settled[d] >= 0
                   /\ d \notin Invoices => settled[d] <= 0 /\ shortfall[d] = 0
                   /\ settled[d] = 0 => shortfall[d] = 0 /\ released[d] = 0
        <4>1. /\ d \in Invoices => d \notin CreditNotes
              /\ d \notin Invoices => d \in CreditNotes
          BY Billed
        <4>2. /\ d \in Invoices => settled[d] >= 0
              /\ d \notin Invoices => settled[d] <= 0 /\ shortfall[d] = 0
          BY <1>12, <1>15, <4>1
        <4>3. settled[d] = 0 => shortfall[d] = 0 /\ released[d] = 0
          BY <1>17, <1>19
        <4>4. QED
          BY <4>2, <4>3
      <3>2. QED
        BY <1>22, <3>1 DEF SettlesSoundly
    <2>2. direction = "received" => other.debtors = -amount - short /\ other.creditors = 0
      BY <1>3, <1>11, <1>12, <1>13, <1>16, <1>20
    <2>3. direction = "made" => /\ shortfall = Nil
                                /\ other.debtors = -Total(settled)
                                /\ other.creditors = amount + Total(settled)
      <3>1. SUFFICES ASSUME direction = "made"
                     PROVE  /\ shortfall = Nil /\ other.debtors = -Total(settled)
                            /\ other.creditors = amount + Total(settled)
        OBVIOUS
      <3>2. shortfall = Nil /\ short = 0
        BY <1>6, <1>12, <3>1, NilTotals
      <3>3. Total(by) = Total(settled)
        BY <1>12, <1>13, <1>16, <3>2
      <3>4. other.debtors = -Total(by) /\ other.creditors = left /\ left = amount + Total(settled)
        BY <1>3, <1>11, <1>12, <1>13, <1>20, <3>1
      <3>5. QED
        BY <1>11, <1>12, <1>13, <3>2, <3>3, <3>4
    <2>4. CashSound(row)
      BY <1>6, <1>22, <1>24, <2>2, <2>3 DEF CashSound
    <2>5. QED
      BY <1>22, <2>1, <2>4 DEF Sound
  <1>26. MayJoin(InForce, row)
    <2>1. Left(row) >= 0
      <3>1. Left(row) = IF direction = "made" THEN amount + Total(settled)
                        ELSE amount - Total(settled)
        BY <1>22 DEF Left
      <3>2. Left(row) = left
        BY <1>3, <1>11, <1>12, <1>13, <3>1
      <3>3. QED
        BY <1>5, <3>2
    <2>2. row.line # NoLine => \A q \in DOMAIN InForce : InForce[q].line # row.line
      BY <1>5, <1>22, FreeLineIsFree
    <2>3. QED
      BY <1>22, <2>1, <2>2 DEF MayJoin
  <1>27. AllocatedIn(row) = by
    BY <1>6, <1>22 DEF AllocatedIn
  <1>28. ASSUME NEW d \in Docs \ row.twice, docs[d].deferred, row.settled[d] # 0,
                row.kind = "cash", row.direction = "received"
         PROVE  row.released[d] = Share(d, docs[d].paid + AllocatedIn(row)[d]) - Share(d, docs[d].paid)
    BY <1>19, <1>22, <1>27, <1>28
  <1>29. /\ Payable(AllocatedIn(row)) /\ StaysWithin(AllocatedIn(row), row.twice)
         /\ docs' = Settle(AllocatedIn(row))
         /\ ledger' = Plus(ledger, row.moved) /\ declared' = Plus(declared, row.released)
         /\ posted' = NowPosted(row.line)
    BY <1>5, <1>10, <1>12, <1>22, <1>27
  <1>30. QED
    BY <1>2, <1>10, <1>22, <1>23, <1>25, <1>26, <1>28, <1>29, RecordKeeps

------------------------------------------------------------------------------
(* The invariant, and what the runs check of it. *)

LEMMA InitHolds == Init => PayInv
  <1> SUFFICES ASSUME Init PROVE PayInv
    OBVIOUS
  <1>1. /\ docs = [d \in Docs |-> NoDoc] /\ payments = <<>> /\ posted = {}
        /\ ledger = Nothing /\ declared = Nil
    BY DEF Init
  <1>2. /\ payments \in Seq(Payment) /\ DOMAIN payments = {} /\ Len(payments) = 0
    BY <1>1
  <1>3. Standing = {} /\ IsBook(InForce) /\ DOMAIN InForce = {}
    BY <1>2, InForceIsABook DEF Standing
  <1>4. /\ NoDoc \in Doc /\ NoDoc.paid = 0 /\ NoDoc.outstanding = 0 /\ NoDoc.status = "none"
        /\ NoDoc.relief = 0 /\ ~NoDoc.deferred
    BY DEF NoDoc, Doc, DocStatuses
  <1>5. \A d \in Docs : docs[d] = NoDoc /\ declared[d] = 0
    BY <1>1 DEF Nil
  <1>6. \A d \in Docs : Towards(d, 0)
    BY TowardsIs, Billed
  <1>7. PaymentsTypeOK
    <2>1. PaidWithin
      BY <1>4, <1>5, Billed DEF PaidWithin, Abs
    <2>2. QED
      BY <1>1, <1>2, <1>4, <1>5, <1>6, <2>1, NilTotals DEF PaymentsTypeOK
  <1>8. \A d \in Docs : PaidIn(InForce, d) = 0 /\ ReleasedIn(InForce, d) = 0
    BY <1>3, TotalEmpty DEF PaidIn, ReleasedIn
  <1>9. HeldIn(InForce, "received") = 0 /\ HeldIn(InForce, "made") = 0
    BY <1>3, TotalEmpty DEF HeldIn, Going
  <1>10. DocsSound
    BY <1>4, <1>5, <1>8 DEF DocsSound, RowSound, BaseVat, Posted, Open
  <1>11. Controlled
    <2>1. OutstandingInAll = 0
      <3>1. PICK f : f = [d \in Docs |-> docs[d].outstanding]
        OBVIOUS
      <3>2. f \in [Docs -> Int] /\ \A d \in Docs : f[d] = 0
        BY <1>4, <1>5, <3>1
      <3>3. QED
        BY <3>1, <3>2, TotalZero, DocumentsAssumption DEF OutstandingInAll
    <2>2. PICK n \in Int : n = Total(declared) /\ n = 0 /\ -n = 0
      BY <1>1, NilTotals, NoneNegated
    <2>3. ledger.debtors = 0 /\ ledger.creditors = 0 /\ ledger.vat = 0
      BY <1>1 DEF Nothing, Accounts
    <2>4. QED
      BY <1>9, <2>1, <2>2, <2>3 DEF Controlled
  <1>12. BookSound(InForce)
    BY <1>3 DEF BookSound, RefundsMatch
  <1>13. PostedLines /\ SettlesWhatIsPosted /\ \A p \in DOMAIN payments : Sound(payments[p])
    BY <1>1, <1>2, <1>3 DEF PostedLines, SettlesWhatIsPosted
  <1>14. DeclaredIsTheShare
    BY <1>4, <1>5 DEF DeclaredIsTheShare
  <1>15. Len(payments) <= MaxPayments
    BY <1>2, AmountsAssumption
  <1>16. QED
    BY <1>7, <1>10, <1>11, <1>12, <1>13, <1>14, <1>15 DEF PayInv

LEMMA StepKeeps == ASSUME PayInv, [Next]_payVars PROVE PayInv'
  <1>1. CASE DocumentStep
    BY <1>1, PostInvoiceKeeps, VoidInvoiceKeeps, WriteOffKeeps, ClaimReliefKeeps,
       ReverseWriteOffKeeps DEF DocumentStep
  <1>2. CASE PaymentStep
    BY <1>2, RecordPaymentKeeps, ApplyCreditNoteKeeps, AllocateKeeps, RefundKeeps,
       UnapplyCreditNoteKeeps, ReversePaymentKeeps DEF PaymentStep
  <1>3. CASE UNCHANGED payVars
    <2>1. /\ docs' = docs /\ payments' = payments /\ posted' = posted
          /\ ledger' = ledger /\ declared' = declared
      BY <1>3 DEF payVars
    <2>2. Standing' = Standing /\ InForce' = InForce
      BY <2>1 DEF Standing, InForce
    <2>3. PaymentsTypeOK'
      BY <2>1 DEF PayInv, PaymentsTypeOK, PaidWithin, NeverNamedTwice
    <2>4. DocsSound'
      BY <2>1, <2>2 DEF PayInv, DocsSound, RowSound, BaseVat, Posted, Open, StatusAt
    <2>5. Controlled'
      BY <2>1, <2>2 DEF PayInv, Controlled, OutstandingInAll
    <2>6. DeclaredIsTheShare'
      BY <2>1 DEF PayInv, DeclaredIsTheShare, OnlyReceipts
    <2>7. PostedLines' /\ SettlesWhatIsPosted'
      BY <2>1, <2>2 DEF PayInv, PostedLines, SettlesWhatIsPosted, Posted
    <2>8. BookSound(InForce')
      BY <2>2 DEF PayInv
    <2>9. QED
      BY <2>1, <2>3, <2>4, <2>5, <2>6, <2>7, <2>8 DEF PayInv
  <1>4. QED
    BY <1>1, <1>2, <1>3 DEF Next

(* Every reachable state satisfies the whole invariant: types, what each payment
   says of itself, what the payments that stand say together, and what the
   documents, the VAT register and the control accounts say of them. *)
THEOREM PaymentsInvariant == PaymentsSpec => []PayInv
  BY InitHolds, StepKeeps, PTL DEF PaymentsSpec

(* Nothing is ever paid of a document against its sign, nor, while no payment named
   it twice, beyond what it is for. *)
THEOREM PaymentsStayTyped == PaymentsSpec => []PaymentsTypeOK
  <1>1. PayInv => PaymentsTypeOK
    BY DEF PayInv
  <1>2. QED
    BY <1>1, PaymentsInvariant, PTL

(* What each operation writes of a document, from what it read, is what the
   payments that stand settle of it. *)
THEOREM PaidFollowsWhatStands == PaymentsSpec => []PaidIsWhatStands
  <1>1. ASSUME PayInv PROVE PaidIsWhatStands
    <2>1. payments \in Seq(Payment)
      BY <1>1 DEF PayInv, PaymentsTypeOK
    <2>2. \A d \in Docs : /\ RowSound(d)
                          /\ docs[d].paid = Total([p \in Standing |->
                               payments[p].settled[d] + payments[p].shortfall[d]])
      BY <1>1, <2>1, AskedOfABook DEF PayInv, DocsSound
    <2>3. QED
      BY <2>2 DEF PaidIsWhatStands, RowSound
  <1>2. QED
    BY <1>1, PaymentsInvariant, PTL

(* What a payment settled and what was refunded of it never exceed it, and a bank
   line marked posted is one standing payment's. *)
THEOREM MoneyIsSpentOnce == PaymentsSpec => []NothingIsSpentTwice
  <1>1. ASSUME PayInv PROVE NothingIsSpentTwice
    <2>1. /\ payments \in Seq(Payment) /\ IsBook(InForce) /\ DOMAIN InForce = Standing
          /\ \A p \in Standing : InForce[p] = payments[p] /\ payments[p] \in Payment
      BY <1>1, InForceIsABook DEF PayInv, PaymentsTypeOK
    <2>2. ASSUME NEW p \in Standing, payments[p].kind = "cash"
          PROVE  (IF payments[p].direction = "made"
                  THEN -Total(payments[p].settled) ELSE Total(payments[p].settled))
                   + Total([r \in RefundsOf(p) |-> payments[r].amount]) <= payments[p].amount
      <3>1. OnAccount(p) >= 0 /\ OnAccount(p) = OnAccountIn(InForce, p)
        BY <1>1, <2>1, AskedOfABook DEF PayInv, BookSound
      <3>2. /\ OnAccountIn(InForce, p) = Left(payments[p]) - RefundedIn(InForce, p)
            /\ RefundedIn(InForce, p) \in Int
        BY <2>1, <2>2, BookSums DEF OnAccountIn
      <3>3. PICK refunded : refunded = Total([r \in RefundsOf(p) |-> payments[r].amount])
        OBVIOUS
      <3>4. refunded = RefundedIn(InForce, p)
        <4>1. RefundsOf(p) = RefundsIn(InForce, p)
          BY <2>1, AskedOfABook
        <4>2. \A r \in RefundsIn(InForce, p) : InForce[r].amount = payments[r].amount
          BY <2>1 DEF RefundsIn
        <4>3. [r \in RefundsOf(p) |-> payments[r].amount]
                = [r \in RefundsIn(InForce, p) |-> InForce[r].amount]
          BY <4>1, <4>2
        <4>4. QED
          BY <3>3, <4>3 DEF RefundedIn
      <3>5. /\ payments[p].amount \in Nat /\ Total(payments[p].settled) \in Int
            /\ payments[p].direction \in {"received", "made"}
        BY <2>1, Fields
      <3>6. CASE payments[p].direction = "made"
        BY <2>2, <3>1, <3>2, <3>3, <3>4, <3>5, <3>6 DEF Left
      <3>7. CASE payments[p].direction = "received"
        BY <2>2, <3>1, <3>2, <3>3, <3>4, <3>5, <3>7 DEF Left
      <3>8. QED
        BY <3>5, <3>6, <3>7
    <2>3. ASSUME NEW line \in BankLines
          PROVE  Cardinality({p \in Standing : payments[p].line = line}) =
                   IF line \in posted THEN 1 ELSE 0
      <3>1. PICK L : L = {p \in Standing : payments[p].line = line}
        OBVIOUS
      <3>2. line # NoLine /\ (line \in posted <=> L # {})
        BY <1>1, <3>1, AmountsAssumption DEF PayInv, PostedLines
      <3>3. \A p, q \in L : p = q
        BY <1>1, <2>1, <3>1, <3>2 DEF PayInv, BookSound
      <3>4. CASE line \in posted
        <4>1. PICK p : L = {p}
          BY <3>2, <3>3, <3>4
        <4>2. QED
          BY <3>1, <3>4, <4>1, FS_Singleton
      <3>5. CASE line \notin posted
        BY <3>1, <3>2, <3>5, FS_EmptySet
      <3>6. QED
        BY <3>4, <3>5
    <2>4. QED
      BY <2>2, <2>3 DEF NothingIsSpentTwice
  <1>2. QED
    BY <1>1, PaymentsInvariant, PTL

(* The control accounts agree with the lists behind them, and the VAT account
   with the register the returns are made from. *)
THEOREM ControlAccountsAgree == PaymentsSpec => []ControlsAgree
  <1>1. ASSUME PayInv PROVE ControlsAgree
    <2>1. payments \in Seq(Payment)
      BY <1>1 DEF PayInv, PaymentsTypeOK
    <2>2. \A dir : Total([p \in {q \in Standing : payments[q].direction = dir} |->
                     OnAccount(p)]) = HeldIn(InForce, dir)
      BY <2>1, AskedOfABook
    <2>3. QED
      BY <1>1, <2>2 DEF PayInv, Controlled, OutstandingInAll, ControlsAgree
  <1>2. QED
    BY <1>1, PaymentsInvariant, PTL

(* When no payment of a document stands, its VAT is where posting it put it. *)
THEOREM TakenBackTheVatIsRestored == PaymentsSpec => []TakingBackRestoresTheVat
  <1>1. ASSUME PayInv PROVE TakingBackRestoresTheVat
    <2>1. /\ IsBook(InForce) /\ DOMAIN InForce = Standing
          /\ \A p \in Standing : InForce[p] = payments[p] /\ p \in DOMAIN payments
      BY <1>1, InForceIsABook DEF PayInv, PaymentsTypeOK
    <2>2. ASSUME NEW d \in Docs, docs[d].status # "none",
                 \A p \in Standing : payments[p].settled[d] = 0
          PROVE  declared[d] = IF docs[d].deferred \/ docs[d].status = "void" THEN 0
                               ELSE Vat[d] - docs[d].relief
      <3>1. PICK f : f = [p \in DOMAIN InForce |-> InForce[p].released[d]]
        OBVIOUS
      <3>2. f \in [DOMAIN InForce -> Int] /\ \A p \in DOMAIN InForce : f[p] = 0
        BY <1>1, <2>1, <2>2, <3>1 DEF PayInv, Sound, SettlesSoundly
      <3>3. ReleasedIn(InForce, d) = 0
        BY <2>1, <3>1, <3>2, TotalZero DEF ReleasedIn, IsBook
      <3>4. declared[d] = BaseVat(d) + ReleasedIn(InForce, d)
        BY <1>1 DEF PayInv, DocsSound
      <3>5. docs[d].relief \in Int /\ Vat[d] \in Int
        BY <1>1, Billed DEF PayInv, PaymentsTypeOK, Doc
      <3>6. BaseVat(d) \in Int
        BY <3>5 DEF BaseVat
      <3>7. declared[d] = BaseVat(d)
        BY <3>3, <3>4, <3>6
      <3>8. QED
        BY <2>2, <3>7 DEF BaseVat
    <2>3. QED
      BY <2>2 DEF TakingBackRestoresTheVat
  <1>2. QED
    BY <1>1, PaymentsInvariant, PTL

(* Over any number of receipts that stand and name it once, the VAT declared of a
   document whose VAT was deferred is the share of what is paid. *)
THEOREM NoCentLeftDeferred == PaymentsSpec => []DeclaredIsTheShare
  <1>1. PayInv => DeclaredIsTheShare
    BY DEF PayInv
  <1>2. QED
    BY <1>1, PaymentsInvariant, PTL

=============================================================================
