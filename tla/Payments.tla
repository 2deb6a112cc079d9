------------------------------- MODULE Payments -------------------------------
(***************************************************************************)
(* Settling a customer's invoices and credit notes (domain/invoicing):     *)
(* receipts and refunds, money held on account, credit notes applied       *)
(* without cash, bad debts, and all of these taken back.  On the cash      *)
(* receipts basis a document's VAT is deferred and each receipt releases   *)
(* the share it pays.                                                      *)
(*                                                                         *)
(* A journal is reduced to what it moves on each account, debits positive. *)
(* Everything is in the base currency; the periods written to are open.    *)
(***************************************************************************)
EXTENDS Totals, Sequences, FiniteSets

CONSTANTS
  Invoices,      \* the customer's invoices
  CreditNotes,   \* and credit notes
  Gross,         \* what each is for, negative for a credit note
  Vat,           \* the VAT in it, of the same sign
  ReliefRate,    \* the rate of VAT on each, in basis points
  Amounts,       \* the amounts money moves in
  NamedAgain,    \* those of an allocation to a document its payment names already
  BankLines,     \* statement lines a payment may be matched to
  MaxPayments,   \* bound: payments recorded
  NoLine

Docs == Invoices \cup CreditNotes

ASSUME DocumentsAssumption ==
  /\ IsFiniteSet(Docs)
  /\ Invoices \cap CreditNotes = {}
  /\ Gross \in [Docs -> Int] /\ Vat \in [Docs -> Int]
  /\ \A d \in Invoices : 0 < Vat[d] /\ Vat[d] < Gross[d]
  /\ \A d \in CreditNotes : Gross[d] < Vat[d] /\ Vat[d] < 0
  /\ ReliefRate \in [Docs -> Nat]

ASSUME AmountsAssumption ==
  /\ Amounts \subseteq Nat \ {0} /\ NamedAgain \subseteq Amounts
  /\ MaxPayments \in Nat
  /\ NoLine \notin BankLines

VARIABLES
  docs,       \* each document's row, as the invoices table holds it
  payments,   \* every payment recorded, reversed ones marked
  posted,     \* the bank lines marked posted
  ledger,     \* the balance of each account
  declared    \* the VAT entered in the VAT register for each document

payVars == <<docs, payments, posted, ledger, declared>>

Accounts == {"money", "debtors", "creditors", "deferred", "vat", "sales", "charges"}
DocStatuses == {"none", "issued", "part_paid", "paid", "written_off", "void"}
Kinds == {"cash", "offset", "refund"}
Numbers == 1..MaxPayments

Doc == [status : DocStatuses, deferred : BOOLEAN, paid : Int, outstanding : Int,
        writtenOff : Int, cancelled : Int, relief : Int]

Payment == [direction : {"received", "made"}, kind : Kinds, amount : Nat,
            refundOf : Numbers \cup {0}, line : BankLines \cup {NoLine},
            settled : [Docs -> Int], shortfall : [Docs -> Nat],
            twice : SUBSET Docs,        \* named in two of its allocations
            released : [Docs -> Int],   \* in all its VAT entries
            moved : [Accounts -> Int],  \* by the journal that recorded it
            later : [Accounts -> Int],  \* by those posted as it was applied
            reversed : BOOLEAN]

Abs(x) == IF x < 0 THEN -x ELSE x
Nil == [d \in Docs |-> 0]
Only(d, x) == [Nil EXCEPT ![d] = x]
Plus(f, g) == [x \in DOMAIN f |-> f[x] + g[x]]
Negated(f) == [x \in DOMAIN f |-> -f[x]]
Nothing == [a \in Accounts |-> 0]

\* The share of a document's VAT due once `paid' of it is paid; half a unit
\* rounds away from zero.
Share(d, paid) ==
  LET sign == IF Gross[d] < 0 THEN -1 ELSE 1
      part == (2 * Abs(Vat[d]) * sign * paid + Abs(Gross[d])) \div (2 * Abs(Gross[d]))
  IN  sign * part

StatusAt(d, paid) ==
  CASE paid = Gross[d] -> "paid" [] paid = 0 -> "issued" [] OTHER -> "part_paid"

\* A document's row once `paid' of it is paid.
WithPaid(d, paid) ==
  [docs[d] EXCEPT !.paid = paid, !.outstanding = Gross[d] - paid,
                  !.status = StatusAt(d, paid)]

\* The rows once each document is paid that much more, or less.
Settle(by) ==
  [d \in Docs |-> IF by[d] = 0 THEN docs[d] ELSE WithPaid(d, docs[d].paid + by[d])]

Open(d) == docs[d].status \in {"issued", "part_paid", "paid"}
Standing == {p \in DOMAIN payments : ~payments[p].reversed}
RefundsOf(p) == {r \in Standing : payments[r].refundOf = p}
CanRecord == Len(payments) < MaxPayments

\* Slip: what was refunded still counts as held.
OnAccountIfNeverRefunded(p) ==
  IF payments[p].kind # "cash" THEN 0
  ELSE LET applied == Total(payments[p].settled)
       IN  payments[p].amount - (IF payments[p].direction = "made" THEN -applied ELSE applied)

\* What of a payment is still held on account.
OnAccount(p) ==
  IF payments[p].kind # "cash" THEN 0
  ELSE LET applied  == Total(payments[p].settled)
           refunded == Total([r \in RefundsOf(p) |-> payments[r].amount])
       IN  payments[p].amount - refunded
             - (IF payments[p].direction = "made" THEN -applied ELSE applied)

------------------------------------------------------------------------------
(* Documents: createInvoice, voidInvoice, and the bad-debt path. *)

Posting(d, deferred) ==
  [Nothing EXCEPT !.debtors = Gross[d], !.sales = Vat[d] - Gross[d],
                  !.deferred = IF deferred THEN -Vat[d] ELSE 0,
                  !.vat = IF deferred THEN 0 ELSE -Vat[d]]

NoDoc == [status |-> "none", deferred |-> FALSE, paid |-> 0, outstanding |-> 0,
          writtenOff |-> 0, cancelled |-> 0, relief |-> 0]

\* Whether VAT is deferred follows from the basis in force on the document's date.
PostInvoice(d) ==
  /\ docs[d].status = "none"
  /\ \E deferred \in BOOLEAN :
       /\ docs' = [docs EXCEPT ![d] = [NoDoc EXCEPT !.status = "issued",
                     !.deferred = deferred, !.outstanding = Gross[d]]]
       /\ ledger' = Plus(ledger, Posting(d, deferred))
       /\ declared' = [declared EXCEPT ![d] = IF deferred THEN 0 ELSE Vat[d]]
  /\ UNCHANGED <<payments, posted>>

VoidInvoice(d) ==
  /\ Open(d) /\ docs[d].paid = 0
  /\ docs' = [docs EXCEPT ![d].status = "void", ![d].outstanding = 0]
  /\ ledger' = Plus(ledger, Negated(Posting(d, docs[d].deferred)))
  /\ declared' = [declared EXCEPT ![d] = IF docs[d].deferred THEN @ ELSE @ - Vat[d]]
  /\ UNCHANGED <<payments, posted>>

WriteOff(amount, cancelled) ==
  [Nothing EXCEPT !.debtors = -amount, !.charges = amount - cancelled,
                  !.deferred = cancelled]

\* The deferred VAT of the unpaid share will never be due.
DeferredVatRemaining(d) == IF docs[d].deferred THEN Vat[d] - Share(d, docs[d].paid) ELSE 0

WriteOffBadDebt(d) ==
  /\ d \in Invoices /\ Open(d) /\ docs[d].outstanding > 0
  /\ docs' = [docs EXCEPT ![d].status = "written_off", ![d].outstanding = 0,
                          ![d].writtenOff = docs[d].outstanding,
                          ![d].cancelled = DeferredVatRemaining(d)]
  /\ ledger' = Plus(ledger, WriteOff(docs[d].outstanding, DeferredVatRemaining(d)))
  /\ UNCHANGED <<payments, posted, declared>>

Relief(amount) == [Nothing EXCEPT !.vat = amount, !.charges = -amount]

\* The VAT in what was written off, by the rate on it: half a unit rounds up.
ReliefOn(d) ==
  LET whole == 10000 + ReliefRate[d]
  IN  (2 * docs[d].writtenOff * ReliefRate[d] + whole) \div (2 * whole)

\* Declared when it was invoiced, it is claimed back.
ClaimBadDebtRelief(d) ==
  LET relief == ReliefOn(d)
  IN  /\ docs[d].status = "written_off" /\ ~docs[d].deferred
      /\ docs[d].relief = 0 /\ relief > 0
      /\ docs' = [docs EXCEPT ![d].relief = relief]
      /\ ledger' = Plus(ledger, Relief(relief))
      /\ declared' = [declared EXCEPT ![d] = @ - relief]
      /\ UNCHANGED <<payments, posted>>

\* Slip: the write-off is reversed and the relief claimed on it kept.
ReverseWriteOffOnly(d) ==
  /\ docs[d].status = "written_off"
  /\ docs' = [docs EXCEPT ![d] = [WithPaid(d, docs[d].paid) EXCEPT
                !.writtenOff = 0, !.cancelled = 0, !.relief = 0]]
  /\ ledger' = Plus(ledger, Negated(WriteOff(docs[d].writtenOff, docs[d].cancelled)))
  /\ UNCHANGED <<payments, posted, declared>>

\* The debt is recovered: relief claimed is repaid, and the write-off reversed.
ReverseBadDebtWriteOff(d) ==
  /\ docs[d].status = "written_off"
  /\ docs' = [docs EXCEPT ![d] = [WithPaid(d, docs[d].paid) EXCEPT
                !.writtenOff = 0, !.cancelled = 0, !.relief = 0]]
  /\ ledger' = Plus(Plus(ledger, Negated(WriteOff(docs[d].writtenOff, docs[d].cancelled))),
                    Negated(Relief(docs[d].relief)))
  /\ declared' = [declared EXCEPT ![d] = @ + docs[d].relief]
  /\ UNCHANGED <<payments, posted>>

------------------------------------------------------------------------------
(* Payments. *)

\* Slip: each payment's share of the VAT is rounded on its own.
SharesOf(by) ==
  [d \in Docs |-> IF docs[d].deferred THEN Share(d, by[d]) ELSE 0]

\* The VAT due on all that is paid so far, less what was due before.
VatReleases(by) ==
  [d \in Docs |-> IF docs[d].deferred
                  THEN Share(d, docs[d].paid + by[d]) - Share(d, docs[d].paid)
                  ELSE 0]

Releasing(released) ==
  [Nothing EXCEPT !.deferred = Total(released), !.vat = -Total(released)]

FreeLine(line) == line = NoLine \/ line \notin posted
NowPosted(line) == posted \cup ({line} \ {NoLine})

NewPayment(direction, kind, amount, line, settled) ==
  [direction |-> direction, kind |-> kind, amount |-> amount, refundOf |-> 0,
   line |-> line, settled |-> settled, shortfall |-> Nil, twice |-> {}, released |-> Nil,
   moved |-> Nothing, later |-> Nothing, reversed |-> FALSE]

\* What may be allocated: open documents, none beyond what it has outstanding;
\* a payment made settles credit notes only.
Allocations(direction) ==
  {a \in [Docs -> Amounts \cup {0}] :
     \A d \in Docs : a[d] # 0 =>
       /\ Open(d) /\ a[d] <= Abs(docs[d].outstanding)
       /\ direction = "made" => d \in CreditNotes}

\* Each allocation is held against what was outstanding before the payment, so
\* a document named a second time is not held to what the first left of it.
Repeats(a) ==
  {b \in [Docs -> NamedAgain \cup {0}] :
     \A d \in Docs : b[d] # 0 => a[d] # 0 /\ b[d] <= Abs(docs[d].outstanding)}

\* A credit note moves the other way.
Signed(a) == [d \in Docs |-> IF d \in CreditNotes THEN -a[d] ELSE a[d]]

\* What a receipt may write off as bank charges: nothing, or what its first
\* allocation to an invoice leaves of it, when no money is left over.
Shortfalls(a, left) ==
  {Nil} \cup
  {Only(d, Abs(docs[d].outstanding) - a[d]) :
     d \in {e \in Invoices : a[e] # 0 /\ left = 0 /\ a[e] < Abs(docs[e].outstanding)}}

\* Each allocation releases from what was paid before the payment, and with
\* each allocation to an invoice counts what is written off of it.
ReleasesOf(a, b, shortfall) ==
  Plus(VatReleases(Plus(Signed(a), shortfall)),
       VatReleases([d \in Docs |-> IF b[d] = 0 THEN 0 ELSE Signed(b)[d] + shortfall[d]]))

RecordPayment(direction) ==
  /\ CanRecord
  /\ \E amount \in Amounts, line \in BankLines \cup {NoLine}, a \in Allocations(direction) :
     \E b \in Repeats(a) :
       LET settled == Signed(Plus(a, b))
           applied == IF direction = "received" THEN Total(settled) ELSE -Total(settled)
           left    == amount - applied
           sign    == IF direction = "received" THEN 1 ELSE -1
       IN  /\ FreeLine(line) /\ applied >= 0 /\ left >= 0
           /\ \E shortfall \in (IF direction = "received" THEN Shortfalls(a, left) ELSE {Nil}) :
                LET by       == Plus(settled, shortfall)
                    released == IF direction = "received" THEN ReleasesOf(a, b, shortfall) ELSE Nil
                    short    == Total(shortfall)
                    moved    == Plus(Releasing(released),
                      [Nothing EXCEPT
                         !.money = sign * amount, !.charges = short,
                         !.debtors = IF direction = "received"
                                     THEN -Total(by) - left ELSE -Total(by),
                         !.creditors = IF direction = "received" THEN 0 ELSE left])
                IN  /\ payments' = Append(payments,
                         [NewPayment(direction, "cash", amount, line, settled) EXCEPT
                            !.shortfall = shortfall, !.twice = {d \in Docs : b[d] # 0},
                            !.released = released, !.moved = moved])
                    /\ docs' = Settle(by)
                    /\ ledger' = Plus(ledger, moved)
                    /\ declared' = Plus(declared, released)
           /\ posted' = NowPosted(line)

\* Slip: no more than is on account, but perhaps more than is outstanding.
ApplyBeyond(p) ==
  /\ p \in Standing /\ payments[p].direction = "received"
  /\ \E d \in Invoices, amount \in Amounts :
       LET by == Only(d, amount)
       IN  /\ Open(d) /\ amount <= OnAccount(p)
           /\ payments' = [payments EXCEPT
                ![p].settled = Plus(@, by), ![p].released = Plus(@, VatReleases(by)),
                ![p].later = Plus(@, Releasing(VatReleases(by)))]
           /\ docs' = Settle(by)
           /\ ledger' = Plus(ledger, Releasing(VatReleases(by)))
           /\ declared' = Plus(declared, VatReleases(by))
  /\ UNCHANGED posted

\* Money on account is applied to an invoice; nothing moves but the VAT.
AllocatePaymentOnAccount(p) ==
  /\ p \in Standing /\ payments[p].direction = "received"
  /\ \E d \in Invoices, amount \in Amounts :
       LET by == Only(d, amount)
       IN  /\ Open(d) /\ amount <= docs[d].outstanding /\ amount <= OnAccount(p)
           /\ payments' = [payments EXCEPT
                ![p].settled = Plus(@, by), ![p].released = Plus(@, VatReleases(by)),
                ![p].later = Plus(@, Releasing(VatReleases(by)))]
           /\ docs' = Settle(by)
           /\ ledger' = Plus(ledger, Releasing(VatReleases(by)))
           /\ declared' = Plus(declared, VatReleases(by))
  /\ UNCHANGED posted

RefundOnAccount(p) ==
  /\ CanRecord /\ p \in Standing
  /\ \E amount \in Amounts, line \in BankLines \cup {NoLine} :
       LET received == payments[p].direction = "received"
           moved == IF received
                    THEN [Nothing EXCEPT !.debtors = amount, !.money = -amount]
                    ELSE [Nothing EXCEPT !.creditors = -amount, !.money = amount]
       IN  /\ amount <= OnAccount(p) /\ FreeLine(line)
           /\ payments' = Append(payments,
                [NewPayment(IF received THEN "made" ELSE "received", "refund",
                            amount, line, Nil) EXCEPT !.refundOf = p, !.moved = moved])
           /\ posted' = NowPosted(line)
           /\ ledger' = Plus(ledger, moved)
  /\ UNCHANGED <<docs, declared>>

\* A credit note is set against an invoice: an allocation to each, no money.
ApplyCreditNote ==
  /\ CanRecord
  /\ \E c \in CreditNotes, d \in Invoices, amount \in Amounts :
       LET by == Plus(Only(c, -amount), Only(d, amount))
       IN  /\ Open(c) /\ Open(d)
           /\ amount <= Abs(docs[c].outstanding) /\ amount <= docs[d].outstanding
           /\ payments' = Append(payments, NewPayment("received", "offset", 0, NoLine, by))
           /\ docs' = Settle(by)
  /\ UNCHANGED <<posted, ledger, declared>>

UnapplyCreditNote(p) ==
  /\ p \in Standing /\ payments[p].kind = "offset"
  /\ \A d \in Docs : payments[p].settled[d] # 0 => docs[d].status # "written_off"
  /\ payments' = [payments EXCEPT ![p].reversed = TRUE]
  /\ docs' = Settle(Negated(payments[p].settled))
  /\ UNCHANGED <<posted, ledger, declared>>

\* Slip: a receipt is reversed although some of it was refunded.
ReversibleThoughRefunded(p) ==
  /\ p \in Standing /\ payments[p].kind # "offset"
  /\ \A d \in Docs : payments[p].settled[d] # 0 => Open(d)

\* A payment may be reversed while no refund of it stands, and every document it
\* settled is neither void nor written off.
Reversible(p) ==
  /\ p \in Standing /\ payments[p].kind # "offset"
  /\ RefundsOf(p) = {}
  /\ \A d \in Docs : payments[p].settled[d] # 0 => Open(d)

\* All its journals are negated, those posted as it was applied among them.
Reversal(p) == Negated(Plus(payments[p].moved, payments[p].later))

\* Slip: the shortfall written off with the payment is not reopened.
SettledBy(p) == payments[p].settled

\* What a payment settled, in money and by what was written off with it.
AllocatedBy(p) == Plus(payments[p].settled, payments[p].shortfall)

ReversePayment(p) ==
  /\ Reversible(p)
  /\ payments' = [payments EXCEPT ![p].reversed = TRUE]
  /\ docs' = Settle(Negated(AllocatedBy(p)))
  /\ ledger' = Plus(ledger, Reversal(p))
  /\ declared' = Plus(declared, Negated(payments[p].released))
  /\ posted' = posted \ {payments[p].line}

------------------------------------------------------------------------------

Init ==
  /\ docs = [d \in Docs |-> NoDoc]
  /\ payments = <<>> /\ posted = {}
  /\ ledger = Nothing /\ declared = Nil

DocumentStep ==
  \E d \in Docs :
    \/ PostInvoice(d) \/ VoidInvoice(d)
    \/ WriteOffBadDebt(d) \/ ClaimBadDebtRelief(d) \/ ReverseBadDebtWriteOff(d)

PaymentStep ==
  \/ \E direction \in {"received", "made"} : RecordPayment(direction)
  \/ ApplyCreditNote
  \/ \E p \in DOMAIN payments :
       \/ AllocatePaymentOnAccount(p) \/ RefundOnAccount(p)
       \/ UnapplyCreditNote(p) \/ ReversePayment(p)

Next == DocumentStep \/ PaymentStep

PaymentsSpec == Init /\ [][Next]_payVars

------------------------------------------------------------------------------
(* Properties. *)

\* What is paid of a document goes towards what it is for.
Towards(d, paid) == 0 <= paid * Gross[d]

\* No payment, standing or taken back, named the document in two allocations.
NeverNamedTwice(d) == \A p \in DOMAIN payments : d \notin payments[p].twice

PaidWithin == \A d \in Docs : NeverNamedTwice(d) => Abs(docs[d].paid) <= Abs(Gross[d])

\* Types; nothing is ever paid of a document against its sign, and a document is
\* paid beyond what it is for only if some payment named it twice: recordPayment
\* holds each of the two to what was outstanding before either.
PaymentsTypeOK ==
  /\ docs \in [Docs -> Doc]
  /\ \A d \in Docs : Towards(d, docs[d].paid)
  /\ PaidWithin
  /\ payments \in Seq(Payment)
  /\ posted \subseteq BankLines
  /\ ledger \in [Accounts -> Int]
  /\ declared \in [Docs -> Int]

\* A document's paid and outstanding amounts and its status, which each operation
\* writes from what it read, are those of the allocations that stand, whatever was
\* applied, refunded, reversed, voided or written off between.
PaidIsWhatStands ==
  \A d \in Docs : docs[d].status # "none" =>
    /\ docs[d].paid = Total([p \in Standing |->
                            payments[p].settled[d] + payments[p].shortfall[d]])
    /\ IF Open(d)
       THEN docs[d].outstanding = Gross[d] - docs[d].paid /\ docs[d].status = StatusAt(d, docs[d].paid)
       ELSE docs[d].outstanding = 0

\* Money is spent once: what a receipt settled and what was refunded of it never
\* exceed it, and a bank line marked posted is held by exactly one standing payment.
NothingIsSpentTwice ==
  /\ \A p \in Standing : payments[p].kind = "cash" =>
       LET spent == IF payments[p].direction = "made"
                    THEN -Total(payments[p].settled) ELSE Total(payments[p].settled)
       IN  spent + Total([r \in RefundsOf(p) |-> payments[r].amount]) <= payments[p].amount
  /\ \A line \in BankLines :
       Cardinality({p \in Standing : payments[p].line = line}) =
         IF line \in posted THEN 1 ELSE 0

\* The control accounts agree with the lists behind them: debtors with what is
\* outstanding less what customers have on account, creditors with what a refund
\* left over, and VAT with the VAT register, which the returns are made from.
ControlsAgree ==
  LET held(direction) ==
        Total([p \in {q \in Standing : payments[q].direction = direction} |-> OnAccount(p)])
  IN  /\ ledger.debtors = Total([d \in Docs |-> docs[d].outstanding]) - held("received")
      /\ ledger.creditors = held("made")
      /\ ledger.vat = -Total(declared)

\* Once every payment of a document is taken back, its VAT is where posting it put
\* it: all deferred, or all declared but for the relief claimed.
TakingBackRestoresTheVat ==
  \A d \in Docs :
    (docs[d].status # "none" /\ \A p \in Standing : payments[p].settled[d] = 0) =>
      declared[d] = IF docs[d].deferred \/ docs[d].status = "void" THEN 0
                    ELSE Vat[d] - docs[d].relief

\* Only receipts, none of them taken back, ever settled the document, and none of
\* them named it twice.
OnlyReceipts(d) ==
  \A p \in DOMAIN payments : payments[p].settled[d] # 0 =>
    /\ ~payments[p].reversed /\ d \notin payments[p].twice
    /\ payments[p].kind = "cash" /\ payments[p].direction = "received"

\* Over any number of such receipts, and of money on account applied later, the VAT
\* declared of a deferred document is the share of what is paid: no cent is left
\* deferred, or declared early.  Outside them it may be.  A receipt that names an
\* invoice twice works both releases out from what was paid before it: of 4 with 1
\* of VAT, 2 and 2 release 1 twice, and 1 and 1 release nothing.
DeclaredIsTheShare ==
  \A d \in Docs : (docs[d].deferred /\ OnlyReceipts(d)) => declared[d] = Share(d, docs[d].paid)

\* "the releases always sum to exactly the invoice's VAT once it is fully paid":
\* for an invoice paid in money, whatever was reversed before.
FullyPaidFullyDeclared ==
  \A d \in Invoices :
    (/\ docs[d].deferred /\ docs[d].status = "paid"
     /\ \A p \in Standing : payments[p].settled[d] # 0 => payments[p].kind = "cash") =>
       declared[d] = Vat[d]
=============================================================================
