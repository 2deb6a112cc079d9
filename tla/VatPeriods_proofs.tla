--------------------------- MODULE VatPeriods_proofs ---------------------------
(***************************************************************************)
(* Proofs about VAT periods, for every calendar, every set of treatments   *)
(* and any number of invoices and receipts.                                *)
(***************************************************************************)
EXTENDS VatPeriods, Totals_proofs, SequenceTheorems

(* What one posting declares is well typed and in the period it was given. *)
LEMMA DeclaredEntries ==
  ASSUME NEW source \in Invoices \cup BankLines, NEW journal \in Nat,
         NEW t \in Treatments, NEW point \in Dates, NEW p \in Nat
  PROVE  \A e \in Declared(source, journal, t, point, p) : e \in VatEntry /\ e.period = p
  BY VatAssumption DEF Declared, VatEntry

(* So is what takes entries back. *)
LEMMA NegatedEntries ==
  ASSUME NEW S \in SUBSET VatEntry, NEW journal \in Nat, NEW d \in Dates, NEW p \in Nat
  PROVE  \A e \in Negated(S, journal, d, p) : e \in VatEntry /\ e.period = p
  <1> DEFINE back(e) ==
        [e EXCEPT !.journal = journal, !.vat = -e.vat, !.point = d, !.period = p]
  <1>1. ASSUME NEW e \in VatEntry PROVE back(e) \in VatEntry /\ back(e).period = p
    <2>1. ASSUME NEW v \in Int
          PROVE  LET f == [e EXCEPT !.journal = journal, !.vat = v, !.point = d, !.period = p]
                 IN  f \in VatEntry /\ f.period = p
      BY DEF VatEntry
    <2>2. -e.vat \in Int
      BY DEF VatEntry
    <2>3. QED
      BY <2>1, <2>2, Zenon
  <1>2. Negated(S, journal, d, p) = {back(e) : e \in S}
    BY Zenon DEF Negated
  <1> HIDE DEF back
  <1>3. QED
    BY <1>1, <1>2

(* An empty set of entries is taken back by none. *)
LEMMA NothingNegated ==
  ASSUME NEW S, NEW journal, NEW d, NEW p, S = {}
  PROVE  Negated(S, journal, d, p) = {}
  BY DEF Negated

LEMMA NothingDeclared ==
  ASSUME NEW source, NEW journal, NEW t, NEW point, NEW p, Legs[t] = {}
  PROVE  Declared(source, journal, t, point, p) = {}
  BY DEF Declared

LEMMA PeriodsAreNumbered ==
  ASSUME VatTypeOK, NEW d, NEW p \in VatPeriodOf(d)
  PROVE  p \in Nat /\ p \in {NoPeriod} \cup DOMAIN vatPeriods
  BY DEF VatTypeOK, VatPeriodOf, Covering, NoPeriod

(* Entries that a step may add: each in no period or in a writable one. *)
Addition(N) ==
  /\ vatEntries' = vatEntries \cup N
  /\ \A e \in N : /\ e \in VatEntry
                  /\ e.period \in {NoPeriod} \cup DOMAIN vatPeriods
                  /\ Writable(e.period)

Sources ==
  /\ invoices' \in [Invoices -> Invoice]
  /\ bankLines' \in [BankLines -> BankLine]
  /\ \A b \in BankLines : bankLines'[b].status # "none" => bankLines'[b].date \in Dates
  /\ lastJournal' \in Nat

(* A bank line replaced by a sound one leaves the rest of them sound. *)
LEMMA OneBankLine ==
  ASSUME VatTypeOK, NEW b \in BankLines, NEW line \in BankLine, line.date \in Dates,
         bankLines' = [bankLines EXCEPT ![b] = line]
  PROVE  /\ bankLines' \in [BankLines -> BankLine]
         /\ \A c \in BankLines : bankLines'[c].status # "none" => bankLines'[c].date \in Dates
  BY DEF VatTypeOK

(* Whatever an entry step records, it leaves the periods alone and adds       *)
(* entries to writable periods only (engine.ts assertVatPeriodWritable).      *)
LEMMA EntryStepAdds ==
  ASSUME VatTypeOK, EntryStep
  PROVE  /\ UNCHANGED <<vatPeriods, filed>>
         /\ \E N : Addition(N)
         /\ Sources
  <1>0. /\ invoices \in [Invoices -> Invoice] /\ bankLines \in [BankLines -> BankLine]
        /\ \A b \in BankLines : bankLines[b].status # "none" => bankLines[b].date \in Dates
        /\ lastJournal \in Nat /\ lastJournal + 1 \in Nat /\ lastJournal + 2 \in Nat
        /\ vatEntries \in SUBSET VatEntry
        /\ Billed \subseteq Treatments /\ Receipts \subseteq Treatments
    BY VatAssumption DEF VatTypeOK
  <1>1. ASSUME NEW i \in Invoices, NEW d \in Dates, NEW t \in Billed, NEW declaredOn \in Dates,
               PostInvoice(i, t, d, declaredOn)
        PROVE  /\ UNCHANGED <<vatPeriods, filed>> /\ \E N : Addition(N) /\ Sources
    <2>1. PICK p \in VatPeriodOf(declaredOn) :
            /\ Legs[t] # {} => Writable(p)
            /\ vatEntries' = vatEntries \cup Declared(i, lastJournal + 1, t, d, p)
      BY <1>1 DEF PostInvoice
    <2>2. p \in Nat /\ p \in {NoPeriod} \cup DOMAIN vatPeriods
      BY PeriodsAreNumbered
    <2>3. t \in Treatments /\ lastJournal + 1 \in Nat
      BY <1>0
    <2>4. \A e \in Declared(i, lastJournal + 1, t, d, p) : e \in VatEntry /\ e.period = p
      BY <2>2, <2>3, DeclaredEntries
    <2>5. Legs[t] = {} => Declared(i, lastJournal + 1, t, d, p) = {}
      BY NothingDeclared
    <2>6. Addition(Declared(i, lastJournal + 1, t, d, p))
      BY <2>1, <2>2, <2>4, <2>5, Zenon DEF Addition
    <2>7. Sources
      BY <1>0, <1>1 DEF PostInvoice, Sources, Invoice
    <2>8. QED
      BY <1>1, <2>6, <2>7 DEF PostInvoice
  <1>2. ASSUME NEW i \in Invoices, NEW d \in Dates, VoidInvoice(i, d)
        PROVE  /\ UNCHANGED <<vatPeriods, filed>> /\ \E N : Addition(N) /\ Sources
    <2>1. PICK p \in VatPeriodOf(d) :
            /\ EntriesOf(i) # {} => Writable(p)
            /\ vatEntries' = vatEntries \cup Negated(EntriesOf(i), lastJournal + 1, d, p)
      BY <1>2 DEF VoidInvoice
    <2>2. p \in Nat /\ p \in {NoPeriod} \cup DOMAIN vatPeriods
      BY PeriodsAreNumbered
    <2>3. EntriesOf(i) \in SUBSET VatEntry /\ lastJournal + 1 \in Nat
      BY <1>0 DEF EntriesOf
    <2>4. \A e \in Negated(EntriesOf(i), lastJournal + 1, d, p) : e \in VatEntry /\ e.period = p
      BY <2>2, <2>3, NegatedEntries
    <2>5. EntriesOf(i) = {} => Negated(EntriesOf(i), lastJournal + 1, d, p) = {}
      BY NothingNegated
    <2>6. Addition(Negated(EntriesOf(i), lastJournal + 1, d, p))
      BY <2>1, <2>2, <2>4, <2>5, Zenon DEF Addition
    <2>7. Sources
      BY <1>0, <1>2 DEF VoidInvoice, Sources, Invoice
    <2>8. QED
      BY <1>2, <2>6, <2>7 DEF VoidInvoice
  <1>3. ASSUME NEW b \in BankLines, NEW d \in Dates, ImportBankLine(b, d)
        PROVE  /\ UNCHANGED <<vatPeriods, filed>> /\ \E N : Addition(N) /\ Sources
    <2>1. Addition({})
      BY <1>3 DEF ImportBankLine, Addition
    <2>2. Sources
      <3> DEFINE line == [bankLines[b] EXCEPT !.status = "unclassified", !.date = d]
      <3>1. line \in BankLine /\ line.date \in Dates
        BY <1>0 DEF BankLine
      <3>2. bankLines' = [bankLines EXCEPT ![b] = line]
        BY <1>0, <1>3 DEF ImportBankLine
      <3> HIDE DEF line
      <3>3. QED
        BY <1>0, <1>3, <3>1, <3>2, OneBankLine DEF ImportBankLine, Sources
    <2>3. QED
      BY <1>3, <2>1, <2>2 DEF ImportBankLine
  <1>4. ASSUME NEW b \in BankLines, NEW t \in Receipts, NEW declaredOn \in Dates \cup {NotGiven},
               ClassifyTransaction(b, t, declaredOn)
        PROVE  /\ UNCHANGED <<vatPeriods, filed>> /\ \E N : Addition(N) /\ Sources
    <2> DEFINE day == IF declaredOn = NotGiven THEN bankLines[b].date ELSE declaredOn
    <2>1. PICK p \in VatPeriodOf(day) :
            /\ Legs[t] # {} => Writable(p)
            /\ vatEntries' = vatEntries \cup Declared(b, lastJournal + 1, t, bankLines[b].date, p)
      BY <1>4 DEF ClassifyTransaction
    <2>2. p \in Nat /\ p \in {NoPeriod} \cup DOMAIN vatPeriods
      BY PeriodsAreNumbered
    <2>3. t \in Treatments /\ lastJournal + 1 \in Nat /\ bankLines[b].date \in Dates
      BY <1>0, <1>4 DEF ClassifyTransaction
    <2>4. \A e \in Declared(b, lastJournal + 1, t, bankLines[b].date, p) :
            e \in VatEntry /\ e.period = p
      BY <2>2, <2>3, DeclaredEntries
    <2>5. Legs[t] = {} => Declared(b, lastJournal + 1, t, bankLines[b].date, p) = {}
      BY NothingDeclared
    <2>6. Addition(Declared(b, lastJournal + 1, t, bankLines[b].date, p))
      BY <2>1, <2>2, <2>4, <2>5, Zenon DEF Addition
    <2>7. Sources
      <3> DEFINE line == [bankLines[b] EXCEPT !.status = "posted", !.treatment = t,
                                              !.journal = lastJournal + 1]
      <3>1. line \in BankLine /\ line.date \in Dates
        BY <1>0, <2>3 DEF BankLine
      <3>2. bankLines' = [bankLines EXCEPT ![b] = line]
        BY <1>0, <1>4 DEF ClassifyTransaction
      <3> HIDE DEF line
      <3>3. QED
        BY <1>0, <1>4, <3>1, <3>2, OneBankLine DEF ClassifyTransaction, Sources
    <2>8. QED
      BY <1>4, <2>6, <2>7 DEF ClassifyTransaction
  <1>5. ASSUME NEW b \in BankLines, NEW t \in Receipts, NEW declaredOn \in Dates \cup {NotGiven},
               NEW r \in Dates \cup {NotGiven}, ReclassifyTransaction(b, t, r, declaredOn)
        PROVE  /\ UNCHANGED <<vatPeriods, filed>> /\ \E N : Addition(N) /\ Sources
    <2> DEFINE date == bankLines[b].date
               undone == IF r = NotGiven THEN date ELSE r
    <2>1. PICK p \in VatPeriodOf(undone), q \in VatPeriodOf(RedeclaredOn(b, r, declaredOn)) :
            /\ Superseded(b) # {} => Writable(p)
            /\ Legs[t] # {} => Writable(q)
            /\ vatEntries' = vatEntries
                 \cup Negated(Superseded(b), lastJournal + 1, undone, p)
                 \cup Declared(b, lastJournal + 2, t, date, q)
      BY <1>5 DEF ReclassifyTransaction
    <2>2. /\ p \in Nat /\ p \in {NoPeriod} \cup DOMAIN vatPeriods
          /\ q \in Nat /\ q \in {NoPeriod} \cup DOMAIN vatPeriods
      BY PeriodsAreNumbered
    <2>3. /\ t \in Treatments /\ lastJournal + 1 \in Nat /\ lastJournal + 2 \in Nat
          /\ date \in Dates /\ undone \in Dates
      BY <1>0, <1>5 DEF ReclassifyTransaction
    <2>4. Superseded(b) \in SUBSET VatEntry
      BY <1>0 DEF Superseded, EntriesOf
    <2> DEFINE back == Negated(Superseded(b), lastJournal + 1, undone, p)
               anew == Declared(b, lastJournal + 2, t, date, q)
    <2>5. \A e \in back : e \in VatEntry /\ e.period = p
      BY <2>2, <2>3, <2>4, NegatedEntries
    <2>6. \A e \in anew : e \in VatEntry /\ e.period = q
      BY <2>2, <2>3, DeclaredEntries
    <2>7. /\ Superseded(b) = {} => back = {}
          /\ Legs[t] = {} => anew = {}
      BY NothingNegated, NothingDeclared
    <2> HIDE DEF back, anew
    <2>8. Addition(back \cup anew)
      <3>1. vatEntries' = vatEntries \cup (back \cup anew)
        BY <2>1 DEF back, anew
      <3>2. \A e \in back \cup anew :
              /\ e \in VatEntry
              /\ e.period \in {NoPeriod} \cup DOMAIN vatPeriods
              /\ Writable(e.period)
        BY <2>1, <2>2, <2>5, <2>6, <2>7, Zenon
      <3>3. QED
        BY <3>1, <3>2 DEF Addition
    <2>9. Sources
      <3> DEFINE line == [bankLines[b] EXCEPT !.treatment = t, !.journal = lastJournal + 2]
      <3>1. line \in BankLine /\ line.date \in Dates
        BY <1>0, <2>3 DEF BankLine
      <3>2. bankLines' = [bankLines EXCEPT ![b] = line]
        BY <1>0, <1>5 DEF ReclassifyTransaction
      <3> HIDE DEF line
      <3>3. QED
        BY <1>0, <1>5, <3>1, <3>2, OneBankLine DEF ReclassifyTransaction, Sources
    <2>10. QED
      BY <1>5, <2>8, <2>9 DEF ReclassifyTransaction
  <1>6. QED
    BY <1>1, <1>2, <1>3, <1>4, <1>5, Zenon DEF EntryStep

------------------------------------------------------------------------------
(* What a step does to the periods. *)

(* The periods a year's generation adds: open, sound, clear of those there    *)
(* are and of each other.                                                     *)
Added(new) ==
  /\ vatPeriods' = vatPeriods \o new
  /\ new \in Seq(Period)
  /\ \A i \in DOMAIN new :
       /\ new[i].start <= new[i].end
       /\ new[i].status = "open"
       /\ \A p \in DOMAIN vatPeriods : ~Clash(new[i], vatPeriods[p])
  /\ \A i, j \in DOMAIN new : i # j => ~Clash(new[i], new[j])

LEMMA GenerationAdds ==
  ASSUME VatTypeOK, NEW c \in Calendars, GenerateVatPeriods(c)
  PROVE  \E new : Added(new)
  <1> DEFINE kept == {s \in c : \A p \in DOMAIN vatPeriods : ~Clash(s, vatPeriods[p])}
             size == Cardinality(kept)
  <1>1. kept \subseteq Spans /\ size \in Nat
    BY VatAssumption, FS_Subset, FS_CardinalityType
  <1>2. PICK made \in [1..size -> kept] :
          /\ \A i, j \in DOMAIN made : i < j => made[i].start < made[j].start
          /\ vatPeriods' = vatPeriods \o
               [i \in DOMAIN made |->
                  [start |-> made[i].start, end |-> made[i].end, status |-> "open"]]
    BY DEF GenerateVatPeriods
  <1> DEFINE new == [i \in 1..size |->
                       [start |-> made[i].start, end |-> made[i].end, status |-> "open"]]
  <1>3. vatPeriods' = vatPeriods \o new /\ DOMAIN new = 1..size
    BY <1>2
  <1>4. ASSUME NEW i \in 1..size
        PROVE  /\ made[i] \in c /\ made[i] \in Spans
               /\ \A p \in DOMAIN vatPeriods : ~Clash(made[i], vatPeriods[p])
               /\ new[i].start = made[i].start /\ new[i].end = made[i].end
               /\ new[i].status = "open"
    BY <1>1
  <1>5. ASSUME NEW i \in 1..size
        PROVE  /\ new[i] \in Period
               /\ new[i].start <= new[i].end
    BY <1>4 DEF Period, Spans, Statuses
  <1>6. ASSUME NEW i \in 1..size, NEW p \in DOMAIN vatPeriods
        PROVE  ~Clash(new[i], vatPeriods[p])
    BY <1>4 DEF Clash
  <1>7. ASSUME NEW i \in 1..size, NEW j \in 1..size, i # j
        PROVE  ~Clash(new[i], new[j])
    <2>1. /\ made[i].start \in Nat /\ made[i].end \in Nat
          /\ made[j].start \in Nat /\ made[j].end \in Nat
      <3>1. \A s \in Spans : s.start \in Nat /\ s.end \in Nat
        BY VatAssumption DEF Spans
      <3>2. made[i] \in Spans /\ made[j] \in Spans
        BY <1>4
      <3>3. QED
        BY <3>1, <3>2
    <2>2. made[i].start # made[j].start
      <3>1. i < j \/ j < i
        BY <1>1, <1>7
      <3>2. DOMAIN made = 1..size
        OBVIOUS
      <3>3. i < j => made[i].start < made[j].start
        BY <1>2, <3>2
      <3>4. j < i => made[j].start < made[i].start
        BY <1>2, <3>2
      <3>5. QED
        BY <2>1, <3>1, <3>3, <3>4
    <2>3. made[i].end < made[j].start \/ made[j].end < made[i].start
      <3>1. made[i] \in c /\ made[j] \in c /\ made[i] # made[j]
        BY <1>4, <2>2
      <3>2. \A s, u \in c : s # u => s.end < u.start \/ u.end < s.start
        BY VatAssumption
      <3>3. QED
        BY <3>1, <3>2
    <2>4. /\ new[i].start = made[i].start /\ new[i].end = made[i].end
          /\ new[j].start = made[j].start /\ new[j].end = made[j].end
      BY <1>4
    <2> HIDE DEF new
    <2>5. QED
      BY <2>1, <2>3, <2>4 DEF Clash
  <1> HIDE DEF new, kept, size
  <1>8. new \in Seq(Period)
    <2>1. new \in [1..size -> Period]
      BY <1>3, <1>5, Zenon DEF new
    <2>2. QED
      BY <1>1, <2>1
  <1>9. Added(new)
    BY <1>3, <1>4, <1>5, <1>6, <1>7, <1>8 DEF Added
  <1>10. QED
    BY <1>9

(* The three things a period step can do. *)
LEMMA PeriodStepShape ==
  ASSUME VatTypeOK, PeriodStep
  PROVE  /\ UNCHANGED <<vatEntries, invoices, bankLines, lastJournal>>
         /\ \/ UNCHANGED filed /\ \E new : Added(new)
            \/ \E p \in DOMAIN vatPeriods, s, e \in Dates : UpdateVatPeriod(p, s, e)
            \/ \E p \in DOMAIN vatPeriods, to \in Statuses : TransitionVatPeriod(p, to)
  <1>1. ASSUME NEW c \in Calendars, GenerateVatPeriods(c)
        PROVE  /\ UNCHANGED <<vatEntries, invoices, bankLines, lastJournal>>
               /\ UNCHANGED filed /\ \E new : Added(new)
    <2>1. \E new : Added(new)
      BY <1>1, GenerationAdds
    <2>2. QED
      BY <1>1, <2>1 DEF GenerateVatPeriods
  <1>2. ASSUME NEW p \in DOMAIN vatPeriods, NEW s \in Dates, NEW e \in Dates,
               UpdateVatPeriod(p, s, e)
        PROVE  UNCHANGED <<vatEntries, invoices, bankLines, lastJournal>>
    BY <1>2 DEF UpdateVatPeriod
  <1>3. ASSUME NEW p \in DOMAIN vatPeriods, NEW to \in Statuses, TransitionVatPeriod(p, to)
        PROVE  UNCHANGED <<vatEntries, invoices, bankLines, lastJournal>>
    BY <1>3 DEF TransitionVatPeriod
  <1>4. QED
    BY <1>1, <1>2, <1>3, Zenon DEF PeriodStep

(* Where each period is after a generation. *)
LEMMA AddedPeriods ==
  ASSUME VatTypeOK, NEW new, Added(new)
  PROVE  /\ vatPeriods' \in Seq(Period)
         /\ DOMAIN vatPeriods \subseteq DOMAIN vatPeriods'
         /\ \A p \in DOMAIN vatPeriods : vatPeriods'[p] = vatPeriods[p]
         /\ \A p \in DOMAIN vatPeriods' \ DOMAIN vatPeriods :
              \E i \in DOMAIN new : p = Len(vatPeriods) + i /\ vatPeriods'[p] = new[i]
  <1>1. /\ vatPeriods \in Seq(Period) /\ new \in Seq(Period)
        /\ vatPeriods' = vatPeriods \o new
    BY DEF VatTypeOK, Added
  <1>2. /\ vatPeriods' \in Seq(Period)
        /\ Len(vatPeriods') = Len(vatPeriods) + Len(new)
        /\ \A p \in 1..(Len(vatPeriods) + Len(new)) :
             vatPeriods'[p] = IF p <= Len(vatPeriods) THEN vatPeriods[p] ELSE new[p - Len(vatPeriods)]
    BY <1>1, ConcatProperties
  <1>3. /\ DOMAIN vatPeriods = 1..Len(vatPeriods) /\ Len(vatPeriods) \in Nat
        /\ DOMAIN new = 1..Len(new) /\ Len(new) \in Nat
        /\ DOMAIN vatPeriods' = 1..(Len(vatPeriods) + Len(new))
    BY <1>1, <1>2
  <1>4. ASSUME NEW p \in DOMAIN vatPeriods' \ DOMAIN vatPeriods
        PROVE  /\ p - Len(vatPeriods) \in DOMAIN new
               /\ p = Len(vatPeriods) + (p - Len(vatPeriods))
               /\ vatPeriods'[p] = new[p - Len(vatPeriods)]
    BY <1>2, <1>3
  <1>5. \A p \in DOMAIN vatPeriods : vatPeriods'[p] = vatPeriods[p]
    BY <1>2, <1>3
  <1>6. QED
    BY <1>2, <1>3, <1>4, <1>5

LEMMA ReplacedPeriod ==
  ASSUME VatTypeOK, NEW p \in DOMAIN vatPeriods, NEW period \in Period,
         vatPeriods' = [vatPeriods EXCEPT ![p] = period]
  PROVE  /\ vatPeriods' \in Seq(Period)
         /\ DOMAIN vatPeriods' = DOMAIN vatPeriods
         /\ vatPeriods'[p] = period
         /\ \A q \in DOMAIN vatPeriods \ {p} : vatPeriods'[q] = vatPeriods[q]
  BY DEF VatTypeOK

LEMMA UpdateReplaces ==
  ASSUME VatTypeOK, NEW p \in DOMAIN vatPeriods, NEW s \in Dates, NEW e \in Dates,
         UpdateVatPeriod(p, s, e)
  PROVE  LET moved == [start |-> s, end |-> e, status |-> vatPeriods[p].status] IN
         moved \in Period /\ vatPeriods' = [vatPeriods EXCEPT ![p] = moved]
  <1>1. vatPeriods[p] \in Period
    BY DEF VatTypeOK
  <1>2. [[vatPeriods[p] EXCEPT !.start = s] EXCEPT !.end = e]
          = [start |-> s, end |-> e, status |-> vatPeriods[p].status]
    <2> DEFINE begun == [vatPeriods[p] EXCEPT !.start = s]
    <2>1. /\ begun \in Period /\ begun.start = s
          /\ begun.status = vatPeriods[p].status
      BY <1>1 DEF Period
    <2> HIDE DEF begun
    <2>2. [begun EXCEPT !.end = e] = [start |-> s, end |-> e, status |-> vatPeriods[p].status]
      BY <2>1 DEF Period
    <2>3. QED
      BY <2>2 DEF begun
  <1>3. vatPeriods' = [vatPeriods EXCEPT ![p] = [[vatPeriods[p] EXCEPT !.start = s] EXCEPT !.end = e]]
    BY DEF UpdateVatPeriod, VatTypeOK
  <1>4. [start |-> s, end |-> e, status |-> vatPeriods[p].status] \in Period
    BY <1>1 DEF Period
  <1>5. QED
    BY <1>2, <1>3, <1>4

LEMMA TransitionReplaces ==
  ASSUME VatTypeOK, NEW p \in DOMAIN vatPeriods, NEW to \in Statuses,
         TransitionVatPeriod(p, to)
  PROVE  LET moved == [start |-> vatPeriods[p].start, end |-> vatPeriods[p].end, status |-> to] IN
         moved \in Period /\ vatPeriods' = [vatPeriods EXCEPT ![p] = moved]
  <1>1. vatPeriods[p] \in Period
    BY DEF VatTypeOK
  <1>2. [vatPeriods[p] EXCEPT !.status = to]
          = [start |-> vatPeriods[p].start, end |-> vatPeriods[p].end, status |-> to]
    BY <1>1 DEF Period
  <1>3. vatPeriods' = [vatPeriods EXCEPT ![p] = [vatPeriods[p] EXCEPT !.status = to]]
    BY DEF TransitionVatPeriod
  <1>4. [start |-> vatPeriods[p].start, end |-> vatPeriods[p].end, status |-> to] \in Period
    BY <1>1 DEF Period
  <1>5. QED
    BY <1>2, <1>3, <1>4

(* No period of another status becomes one that was submitted, but by being *)
(* submitted, and none that was stops being one.                            *)
LEMMA FiledStays ==
  ASSUME VatTypeOK, NEW p \in DOMAIN vatPeriods, NEW to \in Statuses,
         TransitionVatPeriod(p, to)
  PROVE  vatPeriods[p].status # "submitted"
  BY DEF TransitionVatPeriod, AllowedTransitions

LEMMA TypePreserved ==
  ASSUME VatTypeOK, [VatNext]_vatVars
  PROVE  VatTypeOK'
  <1>1. CASE EntryStep
    <2>1. UNCHANGED <<vatPeriods, filed>> /\ Sources
      BY <1>1, EntryStepAdds
    <2>2. PICK N : Addition(N)
      BY <1>1, EntryStepAdds
    <2>3. QED
      BY <2>1, <2>2 DEF VatTypeOK, Addition, Sources, Submitted
  <1>2. ASSUME NEW new, Added(new), UNCHANGED <<filed, vatEntries, invoices, bankLines, lastJournal>>
        PROVE  VatTypeOK'
    <2>1. /\ vatPeriods' \in Seq(Period)
          /\ DOMAIN vatPeriods \subseteq DOMAIN vatPeriods'
          /\ \A p \in DOMAIN vatPeriods : vatPeriods'[p] = vatPeriods[p]
          /\ \A p \in DOMAIN vatPeriods' \ DOMAIN vatPeriods :
               \E i \in DOMAIN new : p = Len(vatPeriods) + i /\ vatPeriods'[p] = new[i]
      BY <1>2, AddedPeriods
    <2>2. \A p \in DOMAIN vatPeriods' \ DOMAIN vatPeriods :
            vatPeriods'[p].start <= vatPeriods'[p].end /\ vatPeriods'[p].status = "open"
      BY <1>2, <2>1 DEF Added
    <2>3. Submitted' = Submitted
      BY <2>1, <2>2 DEF Submitted
    <2>4. QED
      BY <1>2, <2>1, <2>2, <2>3 DEF VatTypeOK
  <1>3. ASSUME NEW p \in DOMAIN vatPeriods, NEW s \in Dates, NEW e \in Dates,
               UpdateVatPeriod(p, s, e)
        PROVE  VatTypeOK'
    <2> DEFINE moved == [start |-> s, end |-> e, status |-> vatPeriods[p].status]
    <2>1. moved \in Period /\ vatPeriods' = [vatPeriods EXCEPT ![p] = moved]
      BY <1>3, UpdateReplaces
    <2>2. moved.start <= moved.end /\ moved.status = vatPeriods[p].status
      BY <1>3 DEF UpdateVatPeriod
    <2> HIDE DEF moved
    <2>3. /\ vatPeriods' \in Seq(Period)
          /\ DOMAIN vatPeriods' = DOMAIN vatPeriods
          /\ vatPeriods'[p] = moved
          /\ \A q \in DOMAIN vatPeriods \ {p} : vatPeriods'[q] = vatPeriods[q]
      BY <2>1, ReplacedPeriod
    <2>4. Submitted' = Submitted
      BY <2>2, <2>3 DEF Submitted
    <2>5. QED
      BY <1>3, <2>2, <2>3, <2>4 DEF VatTypeOK, UpdateVatPeriod
  <1>4. ASSUME NEW p \in DOMAIN vatPeriods, NEW to \in Statuses, TransitionVatPeriod(p, to)
        PROVE  VatTypeOK'
    <2> DEFINE moved == [start |-> vatPeriods[p].start, end |-> vatPeriods[p].end, status |-> to]
    <2>1. moved \in Period /\ vatPeriods' = [vatPeriods EXCEPT ![p] = moved]
      BY <1>4, TransitionReplaces
    <2>2. moved.start <= moved.end /\ moved.status = to
      BY DEF VatTypeOK
    <2> HIDE DEF moved
    <2>3. /\ vatPeriods' \in Seq(Period)
          /\ DOMAIN vatPeriods' = DOMAIN vatPeriods
          /\ vatPeriods'[p] = moved
          /\ \A q \in DOMAIN vatPeriods \ {p} : vatPeriods'[q] = vatPeriods[q]
      BY <2>1, ReplacedPeriod
    <2>4. vatPeriods[p].status # "submitted"
      BY <1>4, FiledStays
    <2>5. Submitted' = IF to = "submitted" THEN Submitted \cup {p} ELSE Submitted
      BY <2>2, <2>3, <2>4 DEF Submitted
    <2>6. DOMAIN filed' = Submitted'
      BY <1>4, <2>5 DEF TransitionVatPeriod, VatTypeOK
    <2>7. QED
      BY <1>4, <2>2, <2>3, <2>6 DEF VatTypeOK, TransitionVatPeriod
  <1>5. CASE PeriodStep
    BY <1>2, <1>3, <1>4, <1>5, PeriodStepShape
  <1>6. CASE UNCHANGED vatVars
    BY <1>6 DEF vatVars, VatTypeOK, Submitted
  <1>7. QED
    BY <1>1, <1>5, <1>6 DEF VatNext

(* Every period is typed, VAT entries are in periods that exist, and the   *)
(* periods with filed figures are the submitted ones (db/schema).           *)
THEOREM VatTypeInvariant == VatSpec => []VatTypeOK
  <1>1. VatInit => VatTypeOK
    BY VatAssumption DEF VatInit, VatTypeOK, Submitted, Invoice, BankLine, NotGiven, NoTreatment
  <1>2. VatTypeOK /\ [VatNext]_vatVars => VatTypeOK'
    BY TypePreserved
  <1>3. QED
    BY <1>1, <1>2, PTL DEF VatSpec

------------------------------------------------------------------------------
(* What a step does to the figures. *)

(* Entries added to writable periods leave a shut period's figures alone.   *)
LEMMA ShutFiguresStand ==
  ASSUME NEW N, Addition(N), UNCHANGED vatPeriods, NEW p \in DOMAIN vatPeriods,
         p # NoPeriod, vatPeriods[p].status \in {"locked", "submitted"}
  PROVE  Return(p)' = Return(p)
  <1>1. \A e \in N : e.period # p
    BY DEF Addition, Writable
  <1>2. ASSUME NEW box \in Boxes
        PROVE  {f \in vatEntries' : f.period = p /\ f.box = box}
                 = {f \in vatEntries : f.period = p /\ f.box = box}
    BY <1>1 DEF Addition
  <1>3. QED
    BY <1>2, Zenon DEF Return

LEMMA FiguresUntouched ==
  ASSUME UNCHANGED vatEntries, NEW p
  PROVE  Return(p)' = Return(p)
  BY DEF Return

LEMMA PeriodsCountFromOne ==
  ASSUME VatTypeOK, NEW p \in DOMAIN vatPeriods
  PROVE  p # NoPeriod
  BY DEF VatTypeOK, NoPeriod

LEMMA ShutReturnsStand ==
  ASSUME VatTypeOK, [VatNext]_vatVars, NEW p \in DOMAIN vatPeriods,
         vatPeriods[p].status \in {"locked", "submitted"}
  PROVE  Return(p)' = Return(p)
  <1>1. CASE EntryStep
    <2>1. UNCHANGED vatPeriods /\ \E N : Addition(N)
      BY <1>1, EntryStepAdds
    <2>2. p # NoPeriod
      BY PeriodsCountFromOne
    <2>3. QED
      BY <2>1, <2>2, ShutFiguresStand
  <1>2. CASE PeriodStep
    BY <1>2, PeriodStepShape, FiguresUntouched
  <1>3. CASE UNCHANGED vatVars
    BY <1>3, FiguresUntouched DEF vatVars
  <1>4. QED
    BY <1>1, <1>2, <1>3 DEF VatNext

(* While a period is locked or submitted its return does not move, whatever  *)
(* is posted, voided or reclassified (engine.ts assertVatPeriodWritable).    *)
THEOREM LockedReturns == VatSpec => LockedReturnsStand
  <1>1. VatTypeOK /\ [VatNext]_vatVars =>
          [\A p \in DOMAIN vatPeriods :
             vatPeriods[p].status \in {"locked", "submitted"} => Return(p)' = Return(p)]_vatVars
    BY ShutReturnsStand
  <1>2. QED
    BY <1>1, VatTypeInvariant, PTL DEF VatSpec, LockedReturnsStand

LEMMA FiledPreserved ==
  ASSUME VatTypeOK, VatTypeOK', FiledFiguresAgree, [VatNext]_vatVars
  PROVE  FiledFiguresAgree'
  <1>1. ASSUME NEW p \in Submitted PROVE Return(p)' = Return(p)
    BY ShutReturnsStand DEF Submitted
  <1>2. CASE UNCHANGED filed
    <2>1. Submitted' = Submitted
      BY <1>2 DEF VatTypeOK
    <2>2. QED
      BY <1>1, <1>2, <2>1 DEF FiledFiguresAgree
  <1>3. ASSUME NEW p \in DOMAIN vatPeriods, NEW to \in Statuses, TransitionVatPeriod(p, to),
               to = "submitted"
        PROVE  FiledFiguresAgree'
    <2>1. /\ filed' = [q \in DOMAIN filed \cup {p} |-> IF q = p THEN Return(p) ELSE filed[q]]
          /\ UNCHANGED vatEntries
      BY <1>3 DEF TransitionVatPeriod
    <2>2. Submitted' = Submitted \cup {p} /\ DOMAIN filed = Submitted
      BY <2>1 DEF VatTypeOK
    <2>3. \A q : Return(q)' = Return(q)
      BY <2>1, FiguresUntouched
    <2>4. \A q \in Submitted \cup {p} : filed'[q] = Return(q)
      BY <2>1, <2>2 DEF FiledFiguresAgree
    <2>5. QED
      BY <2>2, <2>3, <2>4 DEF FiledFiguresAgree
  <1>4. CASE EntryStep
    BY <1>2, <1>4, EntryStepAdds
  <1>5. CASE PeriodStep
    BY <1>2, <1>3, <1>5, PeriodStepShape DEF UpdateVatPeriod, TransitionVatPeriod
  <1>6. QED
    BY <1>2, <1>4, <1>5 DEF VatNext, vatVars

(* What was filed is what the books still say (periodClose.ts               *)
(* transitionVatPeriod, the figures snapshotted at submission).             *)
THEOREM FiledFigures == VatSpec => []FiledFiguresAgree
  <1>1. VatInit => FiledFiguresAgree
    BY DEF VatInit, FiledFiguresAgree, Submitted
  <1>2. VatTypeOK /\ VatTypeOK' /\ FiledFiguresAgree /\ [VatNext]_vatVars => FiledFiguresAgree'
    BY FiledPreserved
  <1>3. QED
    BY <1>1, <1>2, VatTypeInvariant, PTL DEF VatSpec

------------------------------------------------------------------------------
(* The periods' dates, and the register they are filed into. *)

LEMMA ClashIsMutual ==
  ASSUME NEW p \in Period, NEW q \in Period
  PROVE  Clash(p, q) <=> Clash(q, p)
  <1>1. \A r \in Period : r.start \in Nat /\ r.end \in Nat
    BY VatAssumption DEF Period
  <1>2. QED
    BY <1>1 DEF Clash

LEMMA DisjointPreserved ==
  ASSUME VatTypeOK, VatTypeOK', PeriodsDisjoint, [VatNext]_vatVars
  PROVE  PeriodsDisjoint'
  <1>1. CASE UNCHANGED vatPeriods
    BY <1>1 DEF PeriodsDisjoint
  <1>2. ASSUME NEW new, Added(new)
        PROVE  PeriodsDisjoint'
    <2>1. /\ vatPeriods' \in Seq(Period)
          /\ DOMAIN vatPeriods \subseteq DOMAIN vatPeriods'
          /\ \A p \in DOMAIN vatPeriods : vatPeriods'[p] = vatPeriods[p]
          /\ \A p \in DOMAIN vatPeriods' \ DOMAIN vatPeriods :
               \E i \in DOMAIN new : p = Len(vatPeriods) + i /\ vatPeriods'[p] = new[i]
      BY <1>2, AddedPeriods
    <2>2. ASSUME NEW p \in DOMAIN vatPeriods' \ DOMAIN vatPeriods, NEW q \in DOMAIN vatPeriods
          PROVE  ~Clash(vatPeriods'[p], vatPeriods'[q])
      BY <1>2, <2>1 DEF Added
    <2>3. ASSUME NEW p \in DOMAIN vatPeriods' \ DOMAIN vatPeriods,
                 NEW q \in DOMAIN vatPeriods' \ DOMAIN vatPeriods, p # q
          PROVE  ~Clash(vatPeriods'[p], vatPeriods'[q])
      <3>1. PICK i \in DOMAIN new : p = Len(vatPeriods) + i /\ vatPeriods'[p] = new[i]
        BY <2>1
      <3>2. PICK j \in DOMAIN new : q = Len(vatPeriods) + j /\ vatPeriods'[q] = new[j]
        BY <2>1
      <3>3. i # j
        BY <2>3, <3>1, <3>2
      <3>4. QED
        BY <1>2, <3>1, <3>2, <3>3 DEF Added
    <2>4. ASSUME NEW p \in DOMAIN vatPeriods, NEW q \in DOMAIN vatPeriods, p # q
          PROVE  ~Clash(vatPeriods'[p], vatPeriods'[q])
      BY <2>1, <2>4 DEF PeriodsDisjoint
    <2>5. ASSUME NEW p \in DOMAIN vatPeriods', NEW q \in DOMAIN vatPeriods'
          PROVE  Clash(vatPeriods'[p], vatPeriods'[q]) <=> Clash(vatPeriods'[q], vatPeriods'[p])
      <3>1. vatPeriods'[p] \in Period /\ vatPeriods'[q] \in Period
        BY <2>1
      <3>2. QED
        BY <3>1, ClashIsMutual
    <2>6. QED
      BY <2>1, <2>2, <2>3, <2>4, <2>5, Zenon DEF PeriodsDisjoint
  <1>3. ASSUME NEW p \in DOMAIN vatPeriods, NEW s \in Dates, NEW e \in Dates,
               UpdateVatPeriod(p, s, e)
        PROVE  PeriodsDisjoint'
    <2> DEFINE moved == [start |-> s, end |-> e, status |-> vatPeriods[p].status]
    <2>1. moved \in Period /\ vatPeriods' = [vatPeriods EXCEPT ![p] = moved]
      BY <1>3, UpdateReplaces
    <2>2. \A q \in DOMAIN vatPeriods \ {p} : ~Clash(moved, vatPeriods[q])
      BY <1>3 DEF UpdateVatPeriod, Clash
    <2> HIDE DEF moved
    <2>3. /\ DOMAIN vatPeriods' = DOMAIN vatPeriods
          /\ vatPeriods'[p] = moved
          /\ \A q \in DOMAIN vatPeriods \ {p} : vatPeriods'[q] = vatPeriods[q]
      BY <2>1, ReplacedPeriod
    <2>4. ASSUME NEW q \in DOMAIN vatPeriods \ {p}
          PROVE  ~Clash(vatPeriods'[p], vatPeriods'[q]) /\ ~Clash(vatPeriods'[q], vatPeriods'[p])
      <3>1. vatPeriods[q] \in Period
        BY DEF VatTypeOK
      <3>2. Clash(moved, vatPeriods[q]) <=> Clash(vatPeriods[q], moved)
        BY <2>1, <3>1, ClashIsMutual
      <3>3. QED
        BY <2>2, <2>3, <3>2
    <2>5. QED
      BY <2>3, <2>4 DEF PeriodsDisjoint
  <1>4. ASSUME NEW p \in DOMAIN vatPeriods, NEW to \in Statuses, TransitionVatPeriod(p, to)
        PROVE  PeriodsDisjoint'
    <2> DEFINE moved == [start |-> vatPeriods[p].start, end |-> vatPeriods[p].end, status |-> to]
    <2>1. moved \in Period /\ vatPeriods' = [vatPeriods EXCEPT ![p] = moved]
      BY <1>4, TransitionReplaces
    <2>2. moved.start = vatPeriods[p].start /\ moved.end = vatPeriods[p].end
      OBVIOUS
    <2> HIDE DEF moved
    <2>3. /\ DOMAIN vatPeriods' = DOMAIN vatPeriods
          /\ vatPeriods'[p] = moved
          /\ \A q \in DOMAIN vatPeriods \ {p} : vatPeriods'[q] = vatPeriods[q]
      BY <2>1, ReplacedPeriod
    <2>4. QED
      BY <2>2, <2>3 DEF PeriodsDisjoint, Clash
  <1>5. CASE EntryStep
    BY <1>1, <1>5, EntryStepAdds
  <1>6. CASE PeriodStep
    BY <1>2, <1>3, <1>4, <1>6, PeriodStepShape
  <1>7. QED
    BY <1>1, <1>5, <1>6 DEF VatNext, vatVars

(* However the periods were generated and moved, no two overlap             *)
(* (mutations.ts generateVatPeriodsForYear, updateVatPeriod).               *)
THEOREM PeriodsNeverOverlap == VatSpec => []PeriodsDisjoint
  <1>1. VatInit => PeriodsDisjoint
    BY DEF VatInit, PeriodsDisjoint
  <1>2. VatTypeOK /\ VatTypeOK' /\ PeriodsDisjoint /\ [VatNext]_vatVars => PeriodsDisjoint'
    BY DisjointPreserved
  <1>3. QED
    BY <1>1, <1>2, VatTypeInvariant, PTL DEF VatSpec

OnRegister(p) ==
  [start |-> vatPeriods[p].start, end |-> vatPeriods[p].end, figures |-> Return(p)]
OnFileNow == {OnRegister(p) : p \in Submitted}

(* Every step files one return or leaves the register as it is. *)
LEMMA RegisterStep ==
  ASSUME VatTypeOK, VatTypeOK', PeriodsDisjoint, [VatNext]_vatVars
  PROVE  \/ OnFileNow' = OnFileNow
         \/ \E p \in DOMAIN vatPeriods \ Submitted :
              OnFileNow' = OnFileNow \cup {OnRegister(p)}
  <1>1. ASSUME NEW p \in Submitted PROVE Return(p)' = Return(p)
    BY ShutReturnsStand DEF Submitted
  <1>2. ASSUME Submitted' = Submitted,
               \A p \in Submitted : /\ vatPeriods'[p].start = vatPeriods[p].start
                                    /\ vatPeriods'[p].end = vatPeriods[p].end
        PROVE  OnFileNow' = OnFileNow
    BY <1>1, <1>2 DEF OnFileNow, OnRegister
  <1>3. ASSUME NEW new, Added(new), UNCHANGED filed
        PROVE  OnFileNow' = OnFileNow
    <2>1. \A p \in DOMAIN vatPeriods : vatPeriods'[p] = vatPeriods[p]
      BY <1>3, AddedPeriods
    <2>2. Submitted' = Submitted
      BY <1>3 DEF VatTypeOK
    <2>3. QED
      BY <1>2, <2>1, <2>2 DEF Submitted
  <1>4. ASSUME NEW p \in DOMAIN vatPeriods, NEW s \in Dates, NEW e \in Dates,
               UpdateVatPeriod(p, s, e)
        PROVE  OnFileNow' = OnFileNow
    <2>1. Submitted' = Submitted /\ p \notin Submitted
      BY <1>4 DEF VatTypeOK, UpdateVatPeriod, Submitted
    <2>2. \A q \in DOMAIN vatPeriods \ {p} : vatPeriods'[q] = vatPeriods[q]
      BY <1>4 DEF UpdateVatPeriod, VatTypeOK
    <2>3. QED
      BY <1>2, <2>1, <2>2 DEF Submitted
  <1>5. ASSUME NEW p \in DOMAIN vatPeriods, NEW to \in Statuses, TransitionVatPeriod(p, to)
        PROVE  \/ OnFileNow' = OnFileNow
               \/ \E q \in DOMAIN vatPeriods \ Submitted :
                    OnFileNow' = OnFileNow \cup {OnRegister(q)}
    <2> DEFINE moved == [start |-> vatPeriods[p].start, end |-> vatPeriods[p].end, status |-> to]
    <2>1. moved \in Period /\ vatPeriods' = [vatPeriods EXCEPT ![p] = moved]
      BY <1>5, TransitionReplaces
    <2>2. moved.start = vatPeriods[p].start /\ moved.end = vatPeriods[p].end /\ moved.status = to
      OBVIOUS
    <2> HIDE DEF moved
    <2>3. /\ DOMAIN vatPeriods' = DOMAIN vatPeriods
          /\ vatPeriods'[p] = moved
          /\ \A q \in DOMAIN vatPeriods \ {p} : vatPeriods'[q] = vatPeriods[q]
      BY <2>1, ReplacedPeriod
    <2>4. p \in DOMAIN vatPeriods \ Submitted
      BY <1>5, FiledStays DEF Submitted
    <2>5. \A q \in DOMAIN vatPeriods : OnRegister(q)' = OnRegister(q)
      <3>1. \A q : Return(q)' = Return(q)
        BY <1>5, FiguresUntouched DEF TransitionVatPeriod
      <3>2. QED
        BY <2>2, <2>3, <3>1 DEF OnRegister
    <2>6. CASE to = "submitted"
      <3>1. Submitted' = Submitted \cup {p}
        BY <2>2, <2>3, <2>4, <2>6 DEF Submitted
      <3>2. OnFileNow' = OnFileNow \cup {OnRegister(p)}
        BY <2>5, <3>1, Zenon DEF OnFileNow, Submitted
      <3>3. QED
        BY <2>4, <3>2
    <2>7. CASE to # "submitted"
      <3>1. Submitted' = Submitted
        BY <2>2, <2>3, <2>4, <2>7 DEF Submitted
      <3>2. QED
        BY <1>2, <2>2, <2>3, <3>1 DEF Submitted
    <2>8. QED
      BY <2>6, <2>7
  <1>6. CASE UNCHANGED <<vatPeriods, filed>>
    BY <1>2, <1>6 DEF Submitted
  <1>7. CASE EntryStep
    BY <1>6, <1>7, EntryStepAdds
  <1>8. CASE PeriodStep
    BY <1>3, <1>4, <1>5, <1>8, PeriodStepShape
  <1>9. QED
    BY <1>6, <1>7, <1>8 DEF VatNext, vatVars

(* The filed returns are a register: each stands as it was filed, and no day *)
(* is in two of them (DOMAIN_MODEL.md "VAT period lock").                    *)
THEOREM FilingIsARegister == VatSpec => RegisterSpec
  <1>1. VatInit => Register!Init
    BY DEF VatInit, Register!Init, Submitted
  <1>2. ASSUME VatTypeOK, VatTypeOK', PeriodsDisjoint, [VatNext]_vatVars
        PROVE  \/ OnFileNow' = OnFileNow
               \/ \E r \in OnFileNow' :
                    /\ r.start <= r.end
                    /\ \A s \in OnFileNow : r.end < s.start \/ s.end < r.start
                    /\ OnFileNow' = OnFileNow \cup {r}
    <2> SUFFICES ASSUME NEW p \in DOMAIN vatPeriods \ Submitted,
                        OnFileNow' = OnFileNow \cup {OnRegister(p)}
                 PROVE  \E r \in OnFileNow' :
                          /\ r.start <= r.end
                          /\ \A s \in OnFileNow : r.end < s.start \/ s.end < r.start
                          /\ OnFileNow' = OnFileNow \cup {r}
      BY <1>2, RegisterStep
    <2>1. OnRegister(p).start <= OnRegister(p).end
      BY <1>2 DEF VatTypeOK, OnRegister
    <2>2. ASSUME NEW q \in Submitted
          PROVE  \/ OnRegister(p).end < OnRegister(q).start
                 \/ OnRegister(q).end < OnRegister(p).start
      <3>1. q \in DOMAIN vatPeriods /\ p # q
        BY DEF Submitted
      <3>2. /\ vatPeriods[p].start \in Nat /\ vatPeriods[p].end \in Nat
            /\ vatPeriods[q].start \in Nat /\ vatPeriods[q].end \in Nat
        <4>1. \A r \in Period : r.start \in Nat /\ r.end \in Nat
          BY VatAssumption DEF Period
        <4>2. vatPeriods[p] \in Period /\ vatPeriods[q] \in Period
          BY <1>2, <3>1 DEF VatTypeOK
        <4>3. QED
          BY <4>1, <4>2
      <3>3. ~Clash(vatPeriods[p], vatPeriods[q])
        BY <1>2, <3>1 DEF PeriodsDisjoint
      <3>4. QED
        BY <3>2, <3>3 DEF Clash, OnRegister
    <2>3. \A s \in OnFileNow : OnRegister(p).end < s.start \/ s.end < OnRegister(p).start
      BY <2>2 DEF OnFileNow
    <2>4. QED
      BY <2>1, <2>3
  <1>3. VatTypeOK /\ VatTypeOK' /\ PeriodsDisjoint /\ [VatNext]_vatVars
          => [\E r \in OnFileNow' :
                /\ r.start <= r.end
                /\ \A s \in OnFileNow : r.end < s.start \/ s.end < r.start
                /\ OnFileNow' = OnFileNow \cup {r}]_OnFileNow
    BY <1>2
  <1>4. QED
    BY <1>1, <1>3, VatTypeInvariant, PeriodsNeverOverlap, PTL
       DEF VatSpec, RegisterSpec, Register!Spec, Register!File, OnFileNow, OnRegister

------------------------------------------------------------------------------
(* What an invoice or a bank line has on file, box by box. *)

\* What the entries of S, or the legs of a treatment, come to in one box.
InBox(S, box) == [e \in {f \in S : f.box = box} |-> e.vat]
Sum(S, box) == Total(InBox(S, box))

\* At most one amount in each box: the entries of one journal.
OneEach(S) == \A e, f \in S : e.box = f.box => e = f

LEMMA OneEachIsFinite ==
  ASSUME NEW S, \A e \in S : e.box \in Boxes, OneEach(S)
  PROVE  IsFiniteSet(S)
  <1> DEFINE f == [e \in S |-> e.box]
  <1>1. f \in Injection(S, Boxes)
    BY DEF OneEach, Injection, IsInjective
  <1>2. IsFiniteSet(Boxes)
    <2>1. Boxes = {"T1"} \cup {"T2"}
      BY DEF Boxes
    <2>2. QED
      BY <2>1, FS_Singleton, FS_AddElement
  <1>3. QED
    BY <1>1, <1>2, FS_Injection

LEMMA SumsTogether ==
  ASSUME NEW A \in SUBSET VatEntry, NEW B \in SUBSET VatEntry, A \cap B = {},
         IsFiniteSet(A), IsFiniteSet(B), NEW S, S = A \cup B, NEW box
  PROVE  Sum(S, box) = Sum(A, box) + Sum(B, box) /\ Sum(A, box) \in Int /\ Sum(B, box) \in Int
  <1>1. PICK f, g, h : f = InBox(S, box) /\ g = InBox(A, box) /\ h = InBox(B, box)
    OBVIOUS
  <1>2. /\ DOMAIN f = {e \in S : e.box = box} /\ DOMAIN g = {e \in A : e.box = box}
        /\ DOMAIN h = {e \in B : e.box = box}
        /\ \A e \in DOMAIN f : f[e] = e.vat
        /\ \A e \in DOMAIN g : g[e] = e.vat
        /\ \A e \in DOMAIN h : h[e] = e.vat
    BY <1>1 DEF InBox
  <1>3. \A e \in VatEntry : e.vat \in Int
    BY DEF VatEntry
  <1>4. IsFiniteSet(DOMAIN g) /\ IsFiniteSet(DOMAIN h)
    BY <1>2, FS_Subset
  <1>5. DOMAIN f = DOMAIN g \cup DOMAIN h /\ DOMAIN g \cap DOMAIN h = {}
    BY <1>2
  <1>6. IsFiniteSet(DOMAIN f)
    BY <1>4, <1>5, FS_Union
  <1>7. \A e \in DOMAIN f : f[e] \in Int
    BY <1>2, <1>3
  <1>8. (\A e \in DOMAIN g : g[e] = f[e] /\ g[e] \in Int)
        /\ (\A e \in DOMAIN h : h[e] = f[e] /\ h[e] \in Int)
    BY <1>2, <1>3
  <1>9. Total(f) = Total(g) + Total(h)
    BY <1>5, <1>6, <1>7, <1>8, TotalOfTwo
  <1>10. Total(g) \in Int /\ Total(h) \in Int
    BY <1>4, <1>8, TotalInt
  <1>11. QED
    BY <1>1, <1>9, <1>10 DEF Sum

LEMMA SumOfNone ==
  ASSUME NEW box
  PROVE  Sum({}, box) = 0
  BY TotalEmpty DEF Sum, InBox

(* One journal declares what its treatment owes, once in each box. *)
LEMMA DeclaredSum ==
  ASSUME NEW source \in Invoices \cup BankLines, NEW journal \in Nat,
         NEW t \in Treatments, NEW point \in Dates, NEW p \in Nat
  PROVE  LET D == Declared(source, journal, t, point, p) IN
         /\ OneEach(D) /\ IsFiniteSet(D)
         /\ \A e \in D : e \in VatEntry /\ e.source = source /\ e.journal = journal
         /\ \A box \in Boxes : Sum(D, box) = Owed(t)[box]
  <1> DEFINE D == Declared(source, journal, t, point, p)
             entry(l) == [source |-> source, journal |-> journal, box |-> l.box, vat |-> l.vat,
                          point |-> point, period |-> p]
  <1>0. /\ \A l \in Legs[t] : l.box \in Boxes /\ l.vat \in Int
        /\ OneEach(Legs[t])
    BY VatAssumption DEF OneEach
  <1>1. D = {entry(l) : l \in Legs[t]}
    BY DEF Declared
  <1>2. /\ \A e \in D : e.box \in Boxes /\ e.source = source /\ e.journal = journal
        /\ \A e \in D : \E l \in Legs[t] : e = entry(l) /\ e.box = l.box /\ e.vat = l.vat
        /\ \A l \in Legs[t] : entry(l) \in D /\ entry(l).box = l.box /\ entry(l).vat = l.vat
    BY <1>0, <1>1
  <1>3. OneEach(D)
    <2>1. ASSUME NEW e \in D, NEW f \in D, e.box = f.box PROVE e = f
      <3>1. PICK l \in Legs[t] : e = entry(l) /\ e.box = l.box
        BY <1>2
      <3>2. PICK m \in Legs[t] : f = entry(m) /\ f.box = m.box
        BY <1>2
      <3>3. l = m
        BY <1>0, <2>1, <3>1, <3>2 DEF OneEach
      <3>4. QED
        BY <3>1, <3>2, <3>3
    <2>2. QED
      BY <2>1 DEF OneEach
  <1>4. IsFiniteSet(D) /\ IsFiniteSet(Legs[t])
    BY <1>0, <1>2, <1>3, OneEachIsFinite
  <1>5. \A e \in D : e \in VatEntry
    BY DeclaredEntries
  <1>6. ASSUME NEW box \in Boxes PROVE Sum(D, box) = Owed(t)[box]
    <2>1. PICK f, g : f = InBox(Legs[t], box) /\ g = InBox(D, box)
      OBVIOUS
    <2> DEFINE b == [e \in D |-> CHOOSE l \in Legs[t] : l.box = e.box]
    <2>2. /\ DOMAIN f = {l \in Legs[t] : l.box = box} /\ DOMAIN g = {e \in D : e.box = box}
          /\ \A l \in DOMAIN f : f[l] = l.vat
          /\ \A e \in DOMAIN g : g[e] = e.vat
      BY <2>1 DEF InBox
    <2>3. \A e \in D : \A l \in Legs[t] : l.box = e.box => b[e] = l
      <3>1. ASSUME NEW e \in D, NEW l \in Legs[t], l.box = e.box
            PROVE  (CHOOSE m \in Legs[t] : m.box = e.box) = l
        BY <1>0, <3>1 DEF OneEach
      <3>2. QED
        BY <3>1
    <2>4. \A e \in DOMAIN g : b[e] \in DOMAIN f /\ g[e] = f[b[e]] /\ b[e].box = e.box
      <3>1. ASSUME NEW e \in DOMAIN g
            PROVE  b[e] \in DOMAIN f /\ g[e] = f[b[e]] /\ b[e].box = e.box
        <4>1. e \in D /\ e.box = box
          BY <2>2
        <4>2. PICK l \in Legs[t] : e.box = l.box /\ e.vat = l.vat
          BY <1>2, <4>1
        <4>3. b[e] = l
          BY <2>3, <4>1, <4>2
        <4> HIDE DEF b
        <4>4. QED
          BY <2>2, <4>1, <4>2, <4>3
      <3>2. QED
        BY <3>1
    <2>5. \A l \in DOMAIN f : \E e \in DOMAIN g : b[e] = l
      <3>1. ASSUME NEW l \in DOMAIN f PROVE entry(l) \in DOMAIN g /\ b[entry(l)] = l
        <4>1. l \in Legs[t] /\ l.box = box
          BY <2>2
        <4>2. entry(l) \in D /\ entry(l).box = l.box
          BY <1>2, <4>1
        <4> HIDE DEF entry, b
        <4>3. QED
          BY <2>2, <2>3, <4>1, <4>2
      <3>2. QED
        BY <3>1
    <2> HIDE DEF b
    <2>6. \A x, y \in DOMAIN g : b[x] = b[y] => x = y
      <3>1. ASSUME NEW x \in DOMAIN g, NEW y \in DOMAIN g PROVE x = y
        BY <1>3, <2>2 DEF OneEach
      <3>2. QED
        BY <3>1
    <2>7. IsFiniteSet(DOMAIN f) /\ IsFiniteSet(DOMAIN g) /\ \A l \in DOMAIN f : f[l] \in Int
      BY <1>0, <1>4, <2>2, FS_Subset
    <2>8. Total(g) = Total(f)
      BY <2>4, <2>5, <2>6, <2>7, TotalRenamed
    <2>9. Owed(t)[box] = Total(f)
      BY <2>1 DEF Owed, InBox
    <2>10. QED
      BY <2>1, <2>8, <2>9 DEF Sum
  <1>7. QED
    BY <1>2, <1>3, <1>4, <1>5, <1>6

(* Taking one journal's entries back leaves nothing of them, in any box. *)
LEMMA NegatedSum ==
  ASSUME NEW A \in SUBSET VatEntry, OneEach(A), NEW source, \A e \in A : e.source = source,
         NEW journal \in Nat, NEW d \in Dates, NEW p \in Nat
  PROVE  LET N == Negated(A, journal, d, p) IN
         /\ IsFiniteSet(N)
         /\ \A e \in N : e \in VatEntry /\ e.source = source /\ e.journal = journal
         /\ \A box \in Boxes : Sum(N, box) = -Sum(A, box)
  <1> DEFINE N == Negated(A, journal, d, p)
             back(e) == [e EXCEPT !.journal = journal, !.vat = -e.vat, !.point = d, !.period = p]
  <1>0. N = {back(e) : e \in A}
    BY Zenon DEF Negated
  <1>1. ASSUME NEW e \in A
        PROVE  /\ back(e).box = e.box /\ back(e).vat = -e.vat /\ back(e).source = e.source
               /\ back(e).journal = journal
               /\ e.box \in Boxes /\ e.vat \in Int
    <2>1. e \in VatEntry
      OBVIOUS
    <2>2. e.box \in Boxes /\ e.vat \in Int
      BY <2>1 DEF VatEntry
    <2>3. PICK v : v = -e.vat
      OBVIOUS
    <2>4. \A w : LET f == [e EXCEPT !.journal = journal, !.vat = w, !.point = d, !.period = p]
                 IN  f.box = e.box /\ f.vat = w /\ f.source = e.source /\ f.journal = journal
      BY <2>1 DEF VatEntry
    <2>5. QED
      BY <2>2, <2>4, Zenon
  <1> HIDE DEF back
  <1>2. /\ \A e \in N : \E a \in A : e = back(a)
        /\ \A a \in A : back(a) \in N
    BY <1>0
  <1>3. \A e \in N : e.source = source /\ e.journal = journal /\ e.box \in Boxes
    BY <1>1, <1>2
  <1>4. OneEach(N)
    BY <1>1, <1>2 DEF OneEach
  <1>5. IsFiniteSet(N) /\ IsFiniteSet(A)
    BY <1>1, <1>3, <1>4, OneEachIsFinite
  <1>6. \A e \in N : e \in VatEntry
    BY NegatedEntries
  <1>7. ASSUME NEW box \in Boxes PROVE Sum(N, box) = -Sum(A, box)
    <2>1. PICK S : S = {e \in A : e.box = box}
      OBVIOUS
    <2>2. PICK f : f = [e \in S |-> e.vat]
      OBVIOUS
    <2>3. PICK h : h = [e \in S |-> -f[e]]
      OBVIOUS
    <2>4. PICK g : g = InBox(N, box)
      OBVIOUS
    <2>5. IsFiniteSet(S) /\ f \in [S -> Int]
      BY <1>1, <1>5, <2>1, <2>2, FS_Subset
    <2>6. Total(h) = -Total(f)
      BY <2>3, <2>5, TotalMinus
    <2> DEFINE b == [e \in N |-> CHOOSE a \in A : a.box = e.box]
    <2>7. \A a \in A : b[back(a)] = a
      <3>1. ASSUME NEW a \in A
            PROVE  back(a) \in N /\ (CHOOSE c \in A : c.box = back(a).box) = a
        BY <1>1, <1>2 DEF OneEach
      <3>2. QED
        BY <3>1
    <2> HIDE DEF b
    <2>8. /\ DOMAIN g = {e \in N : e.box = box} /\ \A e \in DOMAIN g : g[e] = e.vat
          /\ DOMAIN h = S /\ \A a \in S : h[a] = -f[a] /\ f[a] = a.vat
      BY <2>2, <2>3, <2>4 DEF InBox
    <2>9. \A e \in DOMAIN g : b[e] \in DOMAIN h /\ g[e] = h[b[e]] /\ e = back(b[e])
      <3>1. ASSUME NEW e \in DOMAIN g
            PROVE  b[e] \in DOMAIN h /\ g[e] = h[b[e]] /\ e = back(b[e])
        <4>1. PICK a \in A : e = back(a)
          BY <1>2, <2>8
        <4>2. b[e] = a /\ a.box = box /\ g[e] = -a.vat
          BY <1>1, <2>7, <2>8, <4>1
        <4>3. h[a] = -a.vat
          BY <2>1, <2>8, <4>2
        <4>4. QED
          BY <2>1, <2>8, <4>1, <4>2, <4>3
      <3>2. QED
        BY <3>1
    <2>10. \A x, y \in DOMAIN g : b[x] = b[y] => x = y
      BY <2>9
    <2>11. \A a \in DOMAIN h : \E e \in DOMAIN g : b[e] = a
      <3>1. ASSUME NEW a \in S PROVE back(a) \in DOMAIN g /\ b[back(a)] = a
        BY <1>1, <1>2, <2>1, <2>7, <2>8
      <3>2. QED
        BY <2>8, <3>1
    <2>12. IsFiniteSet(DOMAIN g) /\ IsFiniteSet(DOMAIN h) /\ \A a \in DOMAIN h : h[a] \in Int
      <3>1. \A n \in Int : -n \in Int
        OBVIOUS
      <3>2. QED
        BY <1>5, <2>5, <2>8, <3>1, FS_Subset
    <2>13. Total(g) = Total(h)
      BY <2>9, <2>10, <2>11, <2>12, TotalRenamed
    <2>14. f = InBox(A, box)
      BY <2>1, <2>2 DEF InBox
    <2>15. QED
      BY <2>4, <2>6, <2>13, <2>14 DEF Sum
  <1>8. QED
    BY <1>3, <1>5, <1>6, <1>7

\* Of an invoice: nothing before it is posted, then what one journal declared,
\* and nothing in sum once that was taken back.
InvoiceNets(i) ==
  /\ invoices[i].status = "none" => EntriesOf(i) = {}
  /\ invoices[i].status = "posted" =>
       /\ invoices[i].treatment \in Treatments
       /\ \E journal \in Nat, point \in Dates, p \in Nat :
            EntriesOf(i) = Declared(i, journal, invoices[i].treatment, point, p)
  /\ invoices[i].status = "void" => \A box \in Boxes : Sum(EntriesOf(i), box) = 0

\* Of a bank line: what the classification that stands declared, and all that
\* came before it nets out.
Replaced(b) == EntriesOf(b) \ Superseded(b)
LineNets(b) ==
  /\ bankLines[b].status # "posted" => EntriesOf(b) = {}
  /\ bankLines[b].status = "posted" =>
       /\ bankLines[b].treatment \in Treatments
       /\ \E point \in Dates, p \in Nat :
            Superseded(b) = Declared(b, bankLines[b].journal, bankLines[b].treatment, point, p)
       /\ \A box \in Boxes : Sum(Replaced(b), box) = 0

\* Journals are numbered upwards, so what a step posts is told apart.
EntriesNumbered ==
  /\ IsFiniteSet(vatEntries)
  /\ \A e \in vatEntries : e.journal <= lastJournal

CorrectionsInv ==
  /\ EntriesNumbered
  /\ \A i \in Invoices : InvoiceNets(i)
  /\ \A b \in BankLines : LineNets(b)

LEMMA CorrectionsFollow ==
  ASSUME VatTypeOK, CorrectionsInv
  PROVE  CorrectionsNetOut
  <1>0. /\ invoices \in [Invoices -> Invoice] /\ bankLines \in [BankLines -> BankLine]
        /\ IsFiniteSet(vatEntries) /\ vatEntries \in SUBSET VatEntry
    BY DEF VatTypeOK, CorrectionsInv, EntriesNumbered
  <1>1. \A source : OnFile(source) = [box \in Boxes |-> Sum(EntriesOf(source), box)]
    BY Zenon DEF OnFile, Sum, InBox
  <1>2. \A t : Owed(t) = [box \in Boxes |-> Owed(t)[box]]
    BY DEF Owed
  <1>3. ASSUME NEW i \in Invoices
        PROVE  OnFile(i) = IF invoices[i].status = "posted" THEN Owed(invoices[i].treatment) ELSE Nil
    <2>1. invoices[i].status \in {"none", "posted", "void"} /\ InvoiceNets(i)
      BY <1>0 DEF Invoice, CorrectionsInv
    <2>2. CASE invoices[i].status = "none"
      <3>1. \A box \in Boxes : Sum(EntriesOf(i), box) = 0
        BY <2>1, <2>2, SumOfNone DEF InvoiceNets
      <3>2. QED
        BY <1>1, <2>2, <3>1 DEF Nil
    <2>3. CASE invoices[i].status = "posted"
      <3>1. \A box \in Boxes : Sum(EntriesOf(i), box) = Owed(invoices[i].treatment)[box]
        BY <2>1, <2>3, DeclaredSum DEF InvoiceNets
      <3>2. [box \in Boxes |-> Sum(EntriesOf(i), box)]
              = [box \in Boxes |-> Owed(invoices[i].treatment)[box]]
        BY <3>1
      <3>3. QED
        BY <1>1, <1>2, <2>3, <3>2
    <2>4. CASE invoices[i].status = "void"
      BY <1>1, <2>1, <2>4 DEF InvoiceNets, Nil
    <2>5. QED
      BY <2>1, <2>2, <2>3, <2>4
  <1>4. ASSUME NEW b \in BankLines
        PROVE  OnFile(b) = IF bankLines[b].status = "posted" THEN Owed(bankLines[b].treatment) ELSE Nil
    <2>1. LineNets(b) /\ bankLines[b].journal \in Nat
      BY <1>0 DEF BankLine, CorrectionsInv
    <2>2. CASE bankLines[b].status # "posted"
      <3>1. \A box \in Boxes : Sum(EntriesOf(b), box) = 0
        BY <2>1, <2>2, SumOfNone DEF LineNets
      <3>2. QED
        BY <1>1, <2>2, <3>1 DEF Nil
    <2>3. CASE bankLines[b].status = "posted"
      <3>1. PICK point \in Dates, p \in Nat :
              Superseded(b) = Declared(b, bankLines[b].journal, bankLines[b].treatment, point, p)
        BY <2>1, <2>3 DEF LineNets
      <3>2. bankLines[b].treatment \in Treatments
            /\ \A box \in Boxes : Sum(Replaced(b), box) = 0
        BY <2>1, <2>3 DEF LineNets
      <3>3. \A box \in Boxes : Sum(Superseded(b), box) = Owed(bankLines[b].treatment)[box]
        BY <2>1, <3>1, <3>2, DeclaredSum
      <3>4. /\ EntriesOf(b) = Superseded(b) \cup Replaced(b)
            /\ Superseded(b) \cap Replaced(b) = {}
            /\ EntriesOf(b) \in SUBSET vatEntries
            /\ Superseded(b) \in SUBSET VatEntry /\ Replaced(b) \in SUBSET VatEntry
            /\ Superseded(b) \in SUBSET vatEntries /\ Replaced(b) \in SUBSET vatEntries
        BY <1>0 DEF Superseded, Replaced, EntriesOf
      <3>5. IsFiniteSet(Superseded(b)) /\ IsFiniteSet(Replaced(b))
        BY <1>0, <3>4, FS_Subset
      <3>6. ASSUME NEW box \in Boxes
            PROVE  Sum(EntriesOf(b), box) = Owed(bankLines[b].treatment)[box]
        <4>1. /\ Sum(EntriesOf(b), box) = Sum(Superseded(b), box) + Sum(Replaced(b), box)
              /\ Sum(Superseded(b), box) \in Int
          BY <3>4, <3>5, SumsTogether
        <4>2. \A n \in Int : n + 0 = n
          OBVIOUS
        <4>3. QED
          BY <3>2, <3>3, <4>1, <4>2
      <3>7. [box \in Boxes |-> Sum(EntriesOf(b), box)]
              = [box \in Boxes |-> Owed(bankLines[b].treatment)[box]]
        BY <3>6
      <3>8. QED
        BY <1>1, <1>2, <2>3, <3>7
    <2>4. QED
      BY <2>2, <2>3
  <1>5. QED
    BY <1>3, <1>4 DEF CorrectionsNetOut

(* A step that posts the entries N of one source leaves all others' alone. *)
LEMMA OneSourcePosts ==
  ASSUME VatTypeOK, EntriesNumbered, NEW source, NEW N, vatEntries' = vatEntries \cup N,
         \A e \in N : e.source = source /\ e.journal > lastJournal /\ e.journal <= lastJournal',
         IsFiniteSet(N), lastJournal' \in Nat, lastJournal <= lastJournal'
  PROVE  /\ EntriesNumbered'
         /\ EntriesOf(source)' = EntriesOf(source) \cup N
         /\ \A x : x # source => EntriesOf(x)' = EntriesOf(x)
  <1>1. IsFiniteSet(vatEntries')
    BY FS_Union DEF EntriesNumbered
  <1>2. ASSUME NEW e \in vatEntries' PROVE e.journal <= lastJournal'
    <2>1. CASE e \in vatEntries
      <3>1. e.journal \in Nat /\ e.journal <= lastJournal /\ lastJournal \in Nat
        BY <2>1 DEF VatTypeOK, VatEntry, EntriesNumbered
      <3>2. QED
        BY <3>1
    <2>2. QED
      BY <2>1
  <1>3. QED
    BY <1>1, <1>2 DEF EntriesNumbered, EntriesOf

LEMMA InvoiceKept ==
  ASSUME NEW i \in Invoices, InvoiceNets(i), EntriesOf(i)' = EntriesOf(i),
         invoices'[i] = invoices[i]
  PROVE  InvoiceNets(i)'
  BY DEF InvoiceNets

LEMMA LineKept ==
  ASSUME NEW b \in BankLines, LineNets(b), EntriesOf(b)' = EntriesOf(b),
         bankLines'[b] = bankLines[b]
  PROVE  LineNets(b)'
  <1>1. Superseded(b)' = Superseded(b)
    BY DEF Superseded
  <1>2. QED
    BY <1>1 DEF LineNets, Replaced

LEMMA PostInvoiceNets ==
  ASSUME VatTypeOK, CorrectionsInv, NEW i \in Invoices, NEW d \in Dates, NEW t \in Billed,
         NEW declaredOn \in Dates, PostInvoice(i, t, d, declaredOn)
  PROVE  CorrectionsInv'
  <1>0. /\ invoices \in [Invoices -> Invoice] /\ t \in Treatments
        /\ lastJournal \in Nat /\ lastJournal + 1 \in Nat
        /\ i \notin BankLines
    BY VatAssumption DEF VatTypeOK
  <1>1. PICK p \in VatPeriodOf(declaredOn) :
          vatEntries' = vatEntries \cup Declared(i, lastJournal + 1, t, d, p)
    BY DEF PostInvoice
  <1>2. /\ p \in Nat /\ lastJournal' = lastJournal + 1 /\ UNCHANGED bankLines
        /\ EntriesOf(i) = {}
        /\ invoices' = [invoices EXCEPT ![i] = [status |-> "posted", treatment |-> t]]
    BY PeriodsAreNumbered DEF PostInvoice, CorrectionsInv, InvoiceNets
  <1>3. PICK D : D = Declared(i, lastJournal + 1, t, d, p)
    OBVIOUS
  <1>4. IsFiniteSet(D) /\ \A e \in D : e.source = i /\ e.journal = lastJournal + 1
    BY <1>0, <1>2, <1>3, DeclaredSum
  <1>5. /\ EntriesNumbered'
        /\ EntriesOf(i)' = EntriesOf(i) \cup D
        /\ \A x : x # i => EntriesOf(x)' = EntriesOf(x)
    <2>1. /\ EntriesNumbered /\ vatEntries' = vatEntries \cup D /\ IsFiniteSet(D)
          /\ lastJournal' \in Nat /\ lastJournal <= lastJournal'
          /\ \A e \in D : e.source = i /\ e.journal > lastJournal /\ e.journal <= lastJournal'
      BY <1>0, <1>1, <1>2, <1>3, <1>4 DEF CorrectionsInv
    <2>2. QED
      BY <2>1, OneSourcePosts
  <1>6. ASSUME NEW b \in BankLines PROVE LineNets(b)'
    BY <1>0, <1>2, <1>5, LineKept DEF CorrectionsInv
  <1>7. ASSUME NEW j \in Invoices, j # i PROVE InvoiceNets(j)'
    BY <1>0, <1>2, <1>5, <1>7, InvoiceKept DEF CorrectionsInv
  <1>8. InvoiceNets(i)'
    <2>1. invoices'[i].status = "posted" /\ invoices'[i].treatment = t
      BY <1>0, <1>2
    <2>2. EntriesOf(i)' = Declared(i, lastJournal + 1, t, d, p)
      BY <1>2, <1>3, <1>5
    <2>3. QED
      BY <1>0, <1>2, <2>1, <2>2 DEF InvoiceNets, Declared
  <1>9. QED
    BY <1>5, <1>6, <1>7, <1>8 DEF CorrectionsInv

LEMMA VoidInvoiceNets ==
  ASSUME VatTypeOK, CorrectionsInv, NEW i \in Invoices, NEW d \in Dates, VoidInvoice(i, d)
  PROVE  CorrectionsInv'
  <1>0. /\ invoices \in [Invoices -> Invoice]
        /\ lastJournal \in Nat /\ lastJournal + 1 \in Nat
        /\ i \notin BankLines
        /\ EntriesOf(i) \in SUBSET VatEntry
        /\ invoices[i].treatment \in Treatments
    BY VatAssumption DEF VatTypeOK, EntriesOf, CorrectionsInv, InvoiceNets, VoidInvoice
  <1>1. PICK p \in VatPeriodOf(d) :
          vatEntries' = vatEntries \cup Negated(EntriesOf(i), lastJournal + 1, d, p)
    BY DEF VoidInvoice
  <1>2. /\ p \in Nat /\ lastJournal' = lastJournal + 1 /\ UNCHANGED bankLines
        /\ invoices' = [invoices EXCEPT ![i].status = "void"]
    BY PeriodsAreNumbered DEF VoidInvoice
  <1>3. PICK A, N : A = EntriesOf(i) /\ N = Negated(A, lastJournal + 1, d, p)
    OBVIOUS
  <1>4. OneEach(A) /\ IsFiniteSet(A)
    <2>1. PICK journal \in Nat, point \in Dates, q \in Nat :
            A = Declared(i, journal, invoices[i].treatment, point, q)
      BY <1>3 DEF CorrectionsInv, InvoiceNets, VoidInvoice
    <2>2. QED
      BY <1>0, <2>1, DeclaredSum
  <1>5. A \in SUBSET VatEntry /\ \A e \in A : e.source = i
    BY <1>0, <1>3 DEF EntriesOf
  <1>6. /\ IsFiniteSet(N)
        /\ \A e \in N : e \in VatEntry /\ e.source = i /\ e.journal = lastJournal + 1
        /\ \A box \in Boxes : Sum(N, box) = -Sum(A, box)
    BY <1>0, <1>2, <1>3, <1>4, <1>5, NegatedSum
  <1>7. /\ EntriesNumbered'
        /\ EntriesOf(i)' = EntriesOf(i) \cup N
        /\ \A x : x # i => EntriesOf(x)' = EntriesOf(x)
    <2>1. /\ EntriesNumbered /\ vatEntries' = vatEntries \cup N /\ IsFiniteSet(N)
          /\ lastJournal' \in Nat /\ lastJournal <= lastJournal'
          /\ \A e \in N : e.source = i /\ e.journal > lastJournal /\ e.journal <= lastJournal'
      BY <1>0, <1>1, <1>2, <1>3, <1>6 DEF CorrectionsInv
    <2>2. QED
      BY <2>1, OneSourcePosts
  <1>8. ASSUME NEW b \in BankLines PROVE LineNets(b)'
    BY <1>0, <1>2, <1>7, LineKept DEF CorrectionsInv
  <1>9. ASSUME NEW j \in Invoices, j # i PROVE InvoiceNets(j)'
    BY <1>0, <1>2, <1>7, <1>9, InvoiceKept DEF CorrectionsInv
  <1>10. A \cap N = {}
    <2>1. \A e \in A : e.journal \in Nat /\ e.journal <= lastJournal
      BY <1>3, <1>5 DEF CorrectionsInv, EntriesNumbered, EntriesOf, VatEntry
    <2>2. QED
      BY <1>0, <1>6, <2>1
  <1>11. ASSUME NEW box \in Boxes PROVE Sum(EntriesOf(i)', box) = 0
    <2>1. /\ Sum(EntriesOf(i)', box) = Sum(A, box) + Sum(N, box)
          /\ Sum(A, box) \in Int
      <3>1. EntriesOf(i)' = A \cup N /\ N \in SUBSET VatEntry
        BY <1>3, <1>6, <1>7
      <3>2. QED
        BY <1>4, <1>5, <1>6, <1>10, <3>1, SumsTogether
    <2>2. Sum(N, box) = -Sum(A, box)
      BY <1>6
    <2>3. \A n \in Int : n + (-n) = 0
      OBVIOUS
    <2>4. QED
      BY <2>1, <2>2, <2>3, Zenon
  <1>12. InvoiceNets(i)'
    <2>1. invoices'[i].status = "void"
      BY <1>0, <1>2 DEF Invoice
    <2>2. \A box \in Boxes : Sum(EntriesOf(i), box)' = 0
      BY <1>11 DEF Sum, InBox
    <2>3. QED
      BY <2>1, <2>2 DEF InvoiceNets
  <1>13. QED
    BY <1>7, <1>8, <1>9, <1>12 DEF CorrectionsInv

LEMMA ClassifyNets ==
  ASSUME VatTypeOK, CorrectionsInv, NEW b \in BankLines, NEW t \in Receipts,
         NEW declaredOn \in Dates \cup {NotGiven}, ClassifyTransaction(b, t, declaredOn)
  PROVE  CorrectionsInv'
  <1> DEFINE day == IF declaredOn = NotGiven THEN bankLines[b].date ELSE declaredOn
  <1>0. /\ bankLines \in [BankLines -> BankLine] /\ t \in Treatments
        /\ lastJournal \in Nat /\ lastJournal + 1 \in Nat
        /\ b \notin Invoices
        /\ bankLines[b].date \in Dates
    BY VatAssumption DEF VatTypeOK, ClassifyTransaction
  <1>1. PICK p \in VatPeriodOf(day) :
          vatEntries' = vatEntries \cup Declared(b, lastJournal + 1, t, bankLines[b].date, p)
    BY DEF ClassifyTransaction
  <1>2. /\ p \in Nat /\ lastJournal' = lastJournal + 1 /\ UNCHANGED invoices
        /\ EntriesOf(b) = {}
        /\ bankLines' = [bankLines EXCEPT ![b].status = "posted", ![b].treatment = t,
                                          ![b].journal = lastJournal + 1]
    BY PeriodsAreNumbered DEF ClassifyTransaction, CorrectionsInv, LineNets
  <1>3. PICK D : D = Declared(b, lastJournal + 1, t, bankLines[b].date, p)
    OBVIOUS
  <1>4. IsFiniteSet(D) /\ \A e \in D : e.source = b /\ e.journal = lastJournal + 1
    BY <1>0, <1>2, <1>3, DeclaredSum
  <1>5. /\ EntriesNumbered'
        /\ EntriesOf(b)' = EntriesOf(b) \cup D
        /\ \A x : x # b => EntriesOf(x)' = EntriesOf(x)
    <2>1. /\ EntriesNumbered /\ vatEntries' = vatEntries \cup D /\ IsFiniteSet(D)
          /\ lastJournal' \in Nat /\ lastJournal <= lastJournal'
          /\ \A e \in D : e.source = b /\ e.journal > lastJournal /\ e.journal <= lastJournal'
      BY <1>0, <1>1, <1>2, <1>3, <1>4 DEF CorrectionsInv
    <2>2. QED
      BY <2>1, OneSourcePosts
  <1>6. ASSUME NEW i \in Invoices PROVE InvoiceNets(i)'
    BY <1>0, <1>2, <1>5, InvoiceKept DEF CorrectionsInv
  <1>7. ASSUME NEW c \in BankLines, c # b PROVE LineNets(c)'
    BY <1>0, <1>2, <1>5, <1>7, LineKept DEF CorrectionsInv
  <1>8. LineNets(b)'
    <2>1. /\ bankLines'[b].status = "posted" /\ bankLines'[b].treatment = t
          /\ bankLines'[b].journal = lastJournal + 1
      BY <1>0, <1>2 DEF BankLine
    <2>2. EntriesOf(b)' = D
      BY <1>2, <1>5
    <2>3. Superseded(b)' = D
      BY <1>4, <2>1, <2>2 DEF Superseded
    <2>4. Replaced(b)' = {}
      BY <2>2, <2>3 DEF Replaced
    <2>5. Superseded(b)' = Declared(b, lastJournal + 1, t, bankLines[b].date, p)
      BY <1>3, <2>3
    <2>6. \A box \in Boxes : Sum(Replaced(b), box)' = 0
      BY <2>4, SumOfNone DEF Sum, InBox
    <2>7. QED
      BY <1>0, <1>2, <2>1, <2>5, <2>6 DEF LineNets, Declared
  <1>9. QED
    BY <1>5, <1>6, <1>7, <1>8 DEF CorrectionsInv

(* Reclassifying takes back what stood and declares what stands now: what   *)
(* was replaced before, what stood and what takes it back net out together. *)
LEMMA ReclassifyNets ==
  ASSUME VatTypeOK, CorrectionsInv, NEW b \in BankLines, NEW t \in Receipts,
         NEW r \in Dates \cup {NotGiven}, NEW declaredOn \in Dates \cup {NotGiven},
         ReclassifyTransaction(b, t, r, declaredOn)
  PROVE  CorrectionsInv'
  <1> DEFINE date == bankLines[b].date
             undone == IF r = NotGiven THEN date ELSE r
  <1>0. /\ bankLines \in [BankLines -> BankLine] /\ t \in Treatments
        /\ lastJournal \in Nat /\ lastJournal + 1 \in Nat /\ lastJournal + 2 \in Nat
        /\ b \notin Invoices
        /\ date \in Dates /\ undone \in Dates
        /\ vatEntries \in SUBSET VatEntry
    BY VatAssumption DEF VatTypeOK, ReclassifyTransaction
  <1>1. PICK p \in VatPeriodOf(undone), q \in VatPeriodOf(RedeclaredOn(b, r, declaredOn)) :
          vatEntries' = vatEntries
            \cup Negated(Superseded(b), lastJournal + 1, undone, p)
            \cup Declared(b, lastJournal + 2, t, date, q)
    BY DEF ReclassifyTransaction
  <1>2. /\ p \in Nat /\ q \in Nat /\ lastJournal' = lastJournal + 2 /\ UNCHANGED invoices
        /\ bankLines' = [bankLines EXCEPT ![b].treatment = t, ![b].journal = lastJournal + 2]
        /\ bankLines[b].status = "posted" /\ LineNets(b)
    BY PeriodsAreNumbered DEF ReclassifyTransaction, CorrectionsInv
  <1>3. PICK A, N, D : /\ A = Superseded(b) /\ N = Negated(A, lastJournal + 1, undone, p)
                       /\ D = Declared(b, lastJournal + 2, t, date, q)
    OBVIOUS
  <1>4. IsFiniteSet(D) /\ \A e \in D : e.source = b /\ e.journal = lastJournal + 2
    BY <1>0, <1>2, <1>3, DeclaredSum
  <1>5. OneEach(A) /\ IsFiniteSet(A)
    <2>1. PICK point \in Dates, k \in Nat :
            A = Declared(b, bankLines[b].journal, bankLines[b].treatment, point, k)
      BY <1>2, <1>3 DEF LineNets
    <2>2. bankLines[b].journal \in Nat /\ bankLines[b].treatment \in Treatments
      BY <1>0, <1>2 DEF BankLine, LineNets
    <2>3. QED
      BY <2>1, <2>2, DeclaredSum
  <1>6. A \in SUBSET VatEntry /\ \A e \in A : e.source = b
    BY <1>0, <1>3 DEF Superseded, EntriesOf
  <1>7. /\ IsFiniteSet(N)
        /\ \A e \in N : e \in VatEntry /\ e.source = b /\ e.journal = lastJournal + 1
        /\ \A box \in Boxes : Sum(N, box) = -Sum(A, box)
    BY <1>0, <1>2, <1>3, <1>5, <1>6, NegatedSum
  <1>8. /\ EntriesNumbered'
        /\ EntriesOf(b)' = EntriesOf(b) \cup N \cup D
        /\ \A x : x # b => EntriesOf(x)' = EntriesOf(x)
    <2>1. PICK M : M = N \cup D
      OBVIOUS
    <2>2. /\ EntriesNumbered /\ vatEntries' = vatEntries \cup M /\ IsFiniteSet(M)
          /\ lastJournal' \in Nat /\ lastJournal <= lastJournal'
          /\ \A e \in M : e.source = b /\ e.journal > lastJournal /\ e.journal <= lastJournal'
      <3>1. vatEntries' = vatEntries \cup M
        BY <1>1, <1>3, <2>1
      <3>2. IsFiniteSet(M)
        BY <1>4, <1>7, <2>1, FS_Union
      <3>3. \A e \in M : e.source = b /\ e.journal > lastJournal /\ e.journal <= lastJournal'
        BY <1>0, <1>2, <1>4, <1>7, <2>1
      <3>4. QED
        BY <1>0, <1>2, <3>1, <3>2, <3>3 DEF CorrectionsInv
    <2>3. EntriesNumbered' /\ EntriesOf(b)' = EntriesOf(b) \cup M
          /\ \A x : x # b => EntriesOf(x)' = EntriesOf(x)
      BY <2>2, OneSourcePosts
    <2>4. QED
      BY <2>1, <2>3
  <1>9. ASSUME NEW i \in Invoices PROVE InvoiceNets(i)'
    BY <1>0, <1>2, <1>8, InvoiceKept DEF CorrectionsInv
  <1>10. ASSUME NEW c \in BankLines, c # b PROVE LineNets(c)'
    BY <1>0, <1>2, <1>8, <1>10, LineKept DEF CorrectionsInv
  <1>11. \A e \in EntriesOf(b) : e \in vatEntries /\ e \in VatEntry /\ e.journal \in Nat
                                 /\ e.journal <= lastJournal
    BY <1>0 DEF CorrectionsInv, EntriesNumbered, EntriesOf, VatEntry
  <1>12. LineNets(b)'
    <2>1. /\ bankLines'[b].status = "posted" /\ bankLines'[b].treatment = t
          /\ bankLines'[b].journal = lastJournal + 2
      BY <1>0, <1>2 DEF BankLine
    <2>2. Superseded(b)' = D
      BY <1>0, <1>4, <1>7, <1>8, <1>11, <2>1 DEF Superseded
    <2>3. Replaced(b)' = EntriesOf(b) \cup N
      BY <1>0, <1>4, <1>7, <1>8, <1>11, <2>2 DEF Replaced
    <2>4. PICK R, S : R = Replaced(b) /\ S = EntriesOf(b) \cup N
      OBVIOUS
    <2>5. /\ EntriesOf(b) = A \cup R /\ A \cap R = {}
          /\ EntriesOf(b) \cap N = {} /\ S = EntriesOf(b) \cup N
          /\ R \in SUBSET VatEntry /\ N \in SUBSET VatEntry /\ EntriesOf(b) \in SUBSET VatEntry
      BY <1>0, <1>3, <1>7, <1>11, <2>4 DEF Replaced, Superseded
    <2>6. IsFiniteSet(EntriesOf(b)) /\ IsFiniteSet(R)
      <3>1. IsFiniteSet(vatEntries) /\ EntriesOf(b) \in SUBSET vatEntries
            /\ R \in SUBSET vatEntries
        BY <2>4 DEF CorrectionsInv, EntriesNumbered, EntriesOf, Replaced
      <3>2. QED
        BY <3>1, FS_Subset
    <2>7. ASSUME NEW box \in Boxes PROVE Sum(S, box) = 0
      <3>1. PICK E : E = EntriesOf(b)
        OBVIOUS
      <3>2. Sum(S, box) = Sum(E, box) + Sum(N, box)
        BY <1>7, <2>5, <2>6, <3>1, SumsTogether
      <3>3. /\ Sum(E, box) = Sum(A, box) + Sum(R, box)
            /\ Sum(A, box) \in Int
        BY <1>5, <1>6, <2>5, <2>6, <3>1, SumsTogether
      <3>4. Sum(R, box) = 0
        BY <1>2, <2>4 DEF LineNets
      <3>5. Sum(N, box) = -Sum(A, box)
        BY <1>7
      <3>6. \A n \in Int : (n + 0) + (-n) = 0
        OBVIOUS
      <3>7. QED
        BY <3>2, <3>3, <3>4, <3>5, <3>6, Zenon
    <2>8. \A box \in Boxes : Sum(Replaced(b), box)' = 0
      BY <2>3, <2>4, <2>7 DEF Sum, InBox
    <2>9. Superseded(b)' = Declared(b, lastJournal + 2, t, date, q)
      BY <1>3, <2>2
    <2>10. QED
      BY <1>0, <1>2, <2>1, <2>8, <2>9 DEF LineNets, Declared
  <1>13. QED
    BY <1>8, <1>9, <1>10, <1>12 DEF CorrectionsInv

LEMMA CorrectionsPreserved ==
  ASSUME VatTypeOK, CorrectionsInv, [VatNext]_vatVars
  PROVE  CorrectionsInv'
  <1>1. ASSUME UNCHANGED <<vatEntries, invoices, lastJournal>>,
               \A b \in BankLines : LineNets(b)'
        PROVE  CorrectionsInv'
    <2>1. \A x : EntriesOf(x)' = EntriesOf(x)
      BY <1>1 DEF EntriesOf
    <2>2. EntriesNumbered'
      BY <1>1 DEF CorrectionsInv, EntriesNumbered
    <2>3. ASSUME NEW i \in Invoices PROVE InvoiceNets(i)'
      BY <1>1, <2>1, InvoiceKept DEF CorrectionsInv
    <2>4. QED
      BY <1>1, <2>2, <2>3 DEF CorrectionsInv
  <1>2. ASSUME UNCHANGED <<vatEntries, invoices, bankLines, lastJournal>>
        PROVE  CorrectionsInv'
    <2>1. \A x : EntriesOf(x)' = EntriesOf(x)
      BY <1>2 DEF EntriesOf
    <2>2. ASSUME NEW b \in BankLines PROVE LineNets(b)'
      BY <1>2, <2>1, LineKept DEF CorrectionsInv
    <2>3. QED
      BY <1>1, <1>2, <2>2
  <1>3. ASSUME NEW b \in BankLines, NEW d \in Dates, ImportBankLine(b, d)
        PROVE  CorrectionsInv'
    <2>1. /\ UNCHANGED <<vatEntries, invoices, lastJournal>>
          /\ bankLines' = [bankLines EXCEPT ![b].status = "unclassified", ![b].date = d]
          /\ bankLines[b].status = "none"
      BY <1>3 DEF ImportBankLine
    <2>2. bankLines \in [BankLines -> BankLine]
      BY DEF VatTypeOK
    <2>3. \A x : EntriesOf(x)' = EntriesOf(x)
      BY <2>1 DEF EntriesOf
    <2>4. ASSUME NEW c \in BankLines, c # b PROVE LineNets(c)'
      BY <2>1, <2>2, <2>3, <2>4, LineKept DEF CorrectionsInv
    <2>5. LineNets(b)'
      <3>1. bankLines'[b].status = "unclassified"
        BY <2>1, <2>2 DEF BankLine
      <3>2. EntriesOf(b) = {}
        BY <2>1 DEF CorrectionsInv, LineNets
      <3>3. QED
        BY <2>3, <3>1, <3>2 DEF LineNets
    <2>6. QED
      BY <1>1, <2>1, <2>4, <2>5
  <1>4. CASE EntryStep
    BY <1>3, <1>4, PostInvoiceNets, VoidInvoiceNets, ClassifyNets, ReclassifyNets DEF EntryStep
  <1>5. CASE PeriodStep
    BY <1>2, <1>5, PeriodStepShape DEF UpdateVatPeriod, TransitionVatPeriod
  <1>6. CASE UNCHANGED vatVars
    BY <1>2, <1>6 DEF vatVars
  <1>7. QED
    BY <1>4, <1>5, <1>6 DEF VatNext

(* Over all periods together, what an invoice or a bank line has on file is  *)
(* what stands now owes, however often and in whatever periods it was taken  *)
(* back (classify.ts reclassifyTransactionSteps, invoices.ts                 *)
(* voidInvoiceSteps).                                                        *)
THEOREM Corrections == VatSpec => []CorrectionsNetOut
  <1>1. VatInit => CorrectionsInv
    BY FS_EmptySet DEF VatInit, CorrectionsInv, EntriesNumbered, InvoiceNets, LineNets, EntriesOf
  <1>2. VatTypeOK /\ CorrectionsInv /\ [VatNext]_vatVars => CorrectionsInv'
    BY CorrectionsPreserved
  <1>3. VatTypeOK /\ CorrectionsInv => CorrectionsNetOut
    BY CorrectionsFollow
  <1>4. QED
    BY <1>1, <1>2, <1>3, VatTypeInvariant, PTL DEF VatSpec

=============================================================================
