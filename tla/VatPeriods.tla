------------------------------ MODULE VatPeriods ------------------------------
(***************************************************************************)
(* VAT periods and the entries declared in them: the engine that assigns   *)
(* an entry to a period (vat/engine.ts), the periods' dates                *)
(* (config/mutations.ts) and their way to a filed return                   *)
(* (vat/periodClose.ts, vat/report.ts), with two sources of entries that   *)
(* can be taken back: an invoice, which is voided, and a bank receipt,     *)
(* which is reclassified.                                                  *)
(*                                                                         *)
(* Each action is one transaction.  The journals that go with the entries  *)
(* are numbered and nothing more: the financial year is open throughout.   *)
(***************************************************************************)
EXTENDS Totals, Sequences, FiniteSets

CONSTANTS
  Dates,         \* days, numbered from 1
  Calendars,     \* the sets of spans a year's periods are generated from
  Treatments,    \* VAT treatments
  Legs,          \* Legs[t]: the boxes and amounts declared under treatment t
  Billed,        \* the treatments an invoice can have
  Receipts,      \* the treatments a bank receipt can have
  Invoices,
  BankLines,
  MaxPeriods,    \* bound: periods generated
  MaxJournals    \* bound: journals posted

NotGiven == 0
NoPeriod == 0
NoTreatment == "none"
Boxes == {"T1", "T2"}
Spans == {s \in [start : Dates, end : Dates] : s.start <= s.end}

ASSUME VatAssumption ==
  /\ Dates \subseteq Nat \ {0}
  /\ \A c \in Calendars :
       /\ c \subseteq Spans /\ IsFiniteSet(c)
       /\ \A s, u \in c : s # u => s.end < u.start \/ u.end < s.start
  /\ Legs \in [Treatments -> SUBSET [box : Boxes, vat : Int]]
  /\ \A t \in Treatments : \A l, m \in Legs[t] : l.box = m.box => l = m
  /\ Billed \cup Receipts \subseteq Treatments
  /\ Invoices \cap BankLines = {}
  /\ MaxPeriods \in Nat /\ MaxJournals \in Nat

VARIABLES
  vatPeriods,    \* the periods, by number
  filed,         \* the figures of each submitted period, as they were filed
  vatEntries,    \* the VAT entries; one journal has at most one in each box
  invoices,      \* each invoice: its status and treatment
  bankLines,     \* each bank line: its date, status, treatment and live journal
  lastJournal    \* number of the last journal posted

vatVars == <<vatPeriods, filed, vatEntries, invoices, bankLines, lastJournal>>

Nil == [box \in Boxes |-> 0]
Statuses == {"open", "review", "ready", "locked", "submitted"}
Period == [start : Dates, end : Dates, status : Statuses]
VatEntry == [source : Invoices \cup BankLines, journal : Nat, box : Boxes,
             vat : Int, point : Dates, period : Nat]
Invoice == [status : {"none", "posted", "void"}, treatment : Treatments \cup {NoTreatment}]
BankLine == [date : Dates \cup {NotGiven}, status : {"none", "unclassified", "posted"},
             treatment : Treatments \cup {NoTreatment}, journal : Nat]

Submitted == {p \in DOMAIN vatPeriods : vatPeriods[p].status = "submitted"}

VatTypeOK ==
  /\ vatPeriods \in Seq(Period)
  /\ DOMAIN filed = Submitted
  /\ \A p \in DOMAIN vatPeriods : vatPeriods[p].start <= vatPeriods[p].end
  /\ vatEntries \subseteq VatEntry
  /\ \A e \in vatEntries : e.period \in {NoPeriod} \cup DOMAIN vatPeriods
  /\ invoices \in [Invoices -> Invoice]
  /\ bankLines \in [BankLines -> BankLine]
  /\ \A b \in BankLines : bankLines[b].status # "none" => bankLines[b].date \in Dates
  /\ lastJournal \in Nat

------------------------------------------------------------------------------
(* Which period a date falls in, and whether it takes entries. *)

Within(d, p) == vatPeriods[p].start <= d /\ d <= vatPeriods[p].end
Covering(d) == {p \in DOMAIN vatPeriods : Within(d, p)}

\* findVatPeriod: some period that covers d, or none.
VatPeriodOf(d) == IF Covering(d) = {} THEN {NoPeriod} ELSE Covering(d)

\* Slip: only a period locked for filing is shut.
UnlessLocked(p) == p # NoPeriod => vatPeriods[p].status # "locked"

\* assertVatPeriodWritable
Writable(p) == p # NoPeriod => vatPeriods[p].status \notin {"locked", "submitted"}

\* The entries one treatment puts in period p: both legs of a reverse charge.
Declared(source, journal, treatment, point, p) ==
  {[source |-> source, journal |-> journal, box |-> l.box, vat |-> l.vat,
    point |-> point, period |-> p] : l \in Legs[treatment]}

\* Entries taken back: the same entries, negated, on a date of their own.
Negated(entries, journal, d, p) ==
  {[e EXCEPT !.journal = journal, !.vat = -e.vat, !.point = d, !.period = p] : e \in entries}

EntriesOf(source) == {e \in vatEntries : e.source = source}

\* Slip: what is already in a shut return is not taken back.
SupersededIfOpen(b) ==
  {e \in EntriesOf(b) : e.journal = bankLines[b].journal /\ Writable(e.period)}

\* The entries of the classification that stands.
Superseded(b) == {e \in EntriesOf(b) : e.journal = bankLines[b].journal}

------------------------------------------------------------------------------
(* Writing entries. *)

\* createInvoice, on the invoice basis.  Declared on the tax point unless the
\* person names another day.
PostInvoice(i, treatment, point, declaredOn) ==
  /\ lastJournal < MaxJournals
  /\ invoices[i].status = "none"
  /\ \E p \in VatPeriodOf(declaredOn) :
       /\ Legs[treatment] # {} => Writable(p)
       /\ vatEntries' = vatEntries \cup Declared(i, lastJournal + 1, treatment, point, p)
  /\ invoices' = [invoices EXCEPT ![i] = [status |-> "posted", treatment |-> treatment]]
  /\ lastJournal' = lastJournal + 1
  /\ UNCHANGED <<vatPeriods, filed, bankLines>>

\* Slip: the period of the reversal is looked up, not asked whether it is shut.
VoidIntoAnyPeriod(i, d) ==
  /\ lastJournal < MaxJournals
  /\ invoices[i].status = "posted"
  /\ \E p \in VatPeriodOf(d) :
       vatEntries' = vatEntries \cup Negated(EntriesOf(i), lastJournal + 1, d, p)
  /\ invoices' = [invoices EXCEPT ![i].status = "void"]
  /\ lastJournal' = lastJournal + 1
  /\ UNCHANGED <<vatPeriods, filed, bankLines>>

\* voidInvoice, of an invoice nothing is allocated to.
VoidInvoice(i, d) ==
  /\ lastJournal < MaxJournals
  /\ invoices[i].status = "posted"
  /\ \E p \in VatPeriodOf(d) :
       /\ EntriesOf(i) # {} => Writable(p)
       /\ vatEntries' = vatEntries \cup Negated(EntriesOf(i), lastJournal + 1, d, p)
  /\ invoices' = [invoices EXCEPT ![i].status = "void"]
  /\ lastJournal' = lastJournal + 1
  /\ UNCHANGED <<vatPeriods, filed, bankLines>>

ImportBankLine(b, d) ==
  /\ bankLines[b].status = "none"
  /\ bankLines' = [bankLines EXCEPT ![b].status = "unclassified", ![b].date = d]
  /\ UNCHANGED <<vatPeriods, filed, vatEntries, invoices, lastJournal>>

\* classifyTransaction, of money received.
ClassifyTransaction(b, treatment, declaredOn) ==
  /\ lastJournal < MaxJournals
  /\ bankLines[b].status = "unclassified"
  /\ \E p \in VatPeriodOf(IF declaredOn = NotGiven THEN bankLines[b].date ELSE declaredOn) :
       /\ Legs[treatment] # {} => Writable(p)
       /\ vatEntries' =
            vatEntries \cup Declared(b, lastJournal + 1, treatment, bankLines[b].date, p)
  /\ bankLines' = [bankLines EXCEPT ![b].status = "posted", ![b].treatment = treatment,
                                    ![b].journal = lastJournal + 1]
  /\ lastJournal' = lastJournal + 1
  /\ UNCHANGED <<vatPeriods, filed, invoices>>

\* Where the new classification is declared: as asked; otherwise in the
\* line's own period unless that is shut and a reversal date was named.
RedeclaredOn(b, reversalDate, declaredOn) ==
  IF declaredOn # NotGiven THEN declaredOn
  ELSE IF reversalDate # NotGiven /\ \E p \in Covering(bankLines[b].date) : ~Writable(p)
       THEN reversalDate
       ELSE bankLines[b].date

\* reclassifyTransaction: one transaction, two journals.
ReclassifyTransaction(b, treatment, reversalDate, declaredOn) ==
  LET date == bankLines[b].date
      undone == IF reversalDate = NotGiven THEN date ELSE reversalDate
  IN
  /\ lastJournal + 2 <= MaxJournals
  /\ bankLines[b].status = "posted"
  /\ \E p \in VatPeriodOf(undone), q \in VatPeriodOf(RedeclaredOn(b, reversalDate, declaredOn)) :
       /\ Superseded(b) # {} => Writable(p)
       /\ Legs[treatment] # {} => Writable(q)
       /\ vatEntries' = vatEntries
            \cup Negated(Superseded(b), lastJournal + 1, undone, p)
            \cup Declared(b, lastJournal + 2, treatment, date, q)
  /\ bankLines' = [bankLines EXCEPT ![b].treatment = treatment, ![b].journal = lastJournal + 2]
  /\ lastJournal' = lastJournal + 2
  /\ UNCHANGED <<vatPeriods, filed, invoices>>

------------------------------------------------------------------------------
(* The periods' dates. *)

\* Slip: a period clashes when it starts inside another.
StartsWithin(s, u) == u.start <= s.start /\ s.start <= u.end

Clash(s, u) == s.start <= u.end /\ s.end >= u.start

\* generateVatPeriodsForYear: what overlaps a period there is, is skipped.
GenerateVatPeriods(calendar) ==
  LET kept == {s \in calendar : \A p \in DOMAIN vatPeriods : ~Clash(s, vatPeriods[p])} IN
  /\ Len(vatPeriods) + Cardinality(kept) <= MaxPeriods
  /\ \E made \in [1..Cardinality(kept) -> kept] :
       /\ \A i, j \in DOMAIN made : i < j => made[i].start < made[j].start
       /\ vatPeriods' = vatPeriods \o
            [i \in DOMAIN made |->
               [start |-> made[i].start, end |-> made[i].end, status |-> "open"]]
  /\ UNCHANGED <<filed, vatEntries, invoices, bankLines, lastJournal>>

UpdateVatPeriod(p, start, end) ==
  /\ vatPeriods[p].status \notin {"submitted", "locked"}
  /\ start <= end
  /\ \A q \in DOMAIN vatPeriods \ {p} : ~Clash([start |-> start, end |-> end], vatPeriods[q])
  /\ vatPeriods' = [vatPeriods EXCEPT ![p].start = start, ![p].end = end]
  /\ UNCHANGED <<filed, vatEntries, invoices, bankLines, lastJournal>>

------------------------------------------------------------------------------
(* The way to a filed return. *)

\* buildVat3Return: T1 and T2; T3 and T4 are their difference.
Return(p) ==
  [box \in Boxes |-> Total([e \in {f \in vatEntries : f.period = p /\ f.box = box} |-> e.vat])]

\* The blocking findings of validateVatPeriod that a period's own history
\* can bring about.
Unclassified(p) == {b \in BankLines : bankLines[b].status = "unclassified" /\ Within(bankLines[b].date, p)}
Outside(p) == {e \in vatEntries : e.period = p /\ ~Within(e.point, p)}
Orphaned(p) == {e \in vatEntries : e.period = NoPeriod /\ Within(e.point, p)}
Validated(p) == Unclassified(p) = {} /\ Outside(p) = {} /\ Orphaned(p) = {}

\* Slip: a filed return is opened again.
AnyStepBack ==
  [open |-> {"review"}, review |-> {"open", "ready"}, ready |-> {"review", "locked"},
   locked |-> {"ready", "submitted"}, submitted |-> {"locked"}]

AllowedTransitions ==
  [open |-> {"review"}, review |-> {"open", "ready"}, ready |-> {"review", "locked"},
   locked |-> {"ready", "submitted"}, submitted |-> {}]

TransitionVatPeriod(p, to) ==
  /\ to \in AllowedTransitions[vatPeriods[p].status]
  /\ to = "ready" => Validated(p)
  /\ vatPeriods' = [vatPeriods EXCEPT ![p].status = to]
  /\ filed' = IF to = "submitted"
              THEN [q \in DOMAIN filed \cup {p} |-> IF q = p THEN Return(p) ELSE filed[q]]
              ELSE filed
  /\ UNCHANGED <<vatEntries, invoices, bankLines, lastJournal>>

------------------------------------------------------------------------------
VatInit ==
  /\ vatPeriods = << >>
  /\ filed = << >>
  /\ vatEntries = {}
  /\ invoices = [i \in Invoices |-> [status |-> "none", treatment |-> NoTreatment]]
  /\ bankLines = [b \in BankLines |->
       [date |-> NotGiven, status |-> "none", treatment |-> NoTreatment, journal |-> 0]]
  /\ lastJournal = 0

EntryStep ==
  \/ \E i \in Invoices, d \in Dates :
       \/ \E t \in Billed, declaredOn \in Dates : PostInvoice(i, t, d, declaredOn)
       \/ VoidInvoice(i, d)
  \/ \E b \in BankLines :
       \/ \E d \in Dates : ImportBankLine(b, d)
       \/ \E t \in Receipts, declaredOn \in Dates \cup {NotGiven} :
            \/ ClassifyTransaction(b, t, declaredOn)
            \/ \E r \in Dates \cup {NotGiven} : ReclassifyTransaction(b, t, r, declaredOn)

PeriodStep ==
  \/ \E c \in Calendars : GenerateVatPeriods(c)
  \/ \E p \in DOMAIN vatPeriods :
       \/ \E s, e \in Dates : UpdateVatPeriod(p, s, e)
       \/ \E to \in Statuses : TransitionVatPeriod(p, to)

VatNext == EntryStep \/ PeriodStep

VatSpec == VatInit /\ [][VatNext]_vatVars
------------------------------------------------------------------------------
\* No two periods ever overlap, however they were generated, at whatever
\* frequency, and moved in between (mutations.ts updateVatPeriod: "A
\* transaction cannot belong to two VAT periods at once").
PeriodsDisjoint ==
  \A p, q \in DOMAIN vatPeriods : p # q => ~Clash(vatPeriods[p], vatPeriods[q])

\* What was filed is what the books still say: no invoice, receipt, void or
\* reclassification changes it, though each may be declared in a period its
\* own dates do not name (engine.ts: "A filed return is never changed").
FiledFiguresAgree == \A p \in Submitted : filed[p] = Return(p)

\* A locked return does not move either, until it is unlocked (engine.ts
\* assertVatPeriodWritable; ADR 0004).
LockedReturnsStand ==
  [][\A p \in DOMAIN vatPeriods :
       vatPeriods[p].status \in {"locked", "submitted"} => Return(p)' = Return(p)]_vatVars

OnFile(source) ==
  [box \in Boxes |-> Total([e \in {f \in EntriesOf(source) : f.box = box} |-> e.vat])]

Owed(treatment) == [box \in Boxes |-> Total([l \in {m \in Legs[treatment] : m.box = box} |-> l.vat])]

\* Over all periods together the VAT of an invoice or a bank line is that of
\* what stands now: nothing once it is voided, the last classification's
\* however often it was reclassified, in whatever periods (classify.ts
\* reclassifyTransactionSteps: "Only the entries of the classification being
\* replaced are reversed"; invoices.ts voidInvoiceSteps).
CorrectionsNetOut ==
  /\ \A i \in Invoices :
       OnFile(i) = IF invoices[i].status = "posted" THEN Owed(invoices[i].treatment) ELSE Nil
  /\ \A b \in BankLines :
       OnFile(b) = IF bankLines[b].status = "posted" THEN Owed(bankLines[b].treatment) ELSE Nil

Register == INSTANCE FilingRegister WITH
  returns <- {[start |-> vatPeriods[p].start, end |-> vatPeriods[p].end,
               figures |-> Return(p)] : p \in Submitted}

\* The filed returns, with the figures the books give for them now, are a
\* register in which nothing changes and no day is declared twice.
RegisterSpec == Register!Spec

\* What engine.ts says of a closed period: "To correct it in a later return
\* instead, give the date of an open VAT period to declare it in".  So VAT
\* declared late, its own period being shut, does not hold up the return it
\* was declared in.
LateDeclarationDoesNotBlock ==
  \A p \in DOMAIN vatPeriods :
    /\ vatPeriods[p].status = "review"
    /\ Unclassified(p) = {} /\ Orphaned(p) = {}
    /\ \A e \in Outside(p) : \E q \in Covering(e.point) : ~Writable(q)
    => Validated(p)
=============================================================================
