----------------------------- MODULE Books_proofs -----------------------------
(***************************************************************************)
(* Proofs about the posting engine, for every chart of accounts, every set *)
(* of financial years and every set of postings; then about the workflows  *)
(* that post through it what falls due, for any templates and adjustments; *)
(* then about the year-end close and partners' loans, for any partners,    *)
(* shares and financial years: always for any number of entries.           *)
(***************************************************************************)
EXTENDS Schedules, YearEnd, Totals_proofs, SequenceTheorems

(* Every rate, line and entry a posting step writes is well typed. *)
LEMMA NewEntryType ==
  ASSUME NEW d \in Dates, NEW y \in Years, NEW source \in Sources, NEW ref \in Refs,
         NEW lines \in Seq(Line)
  PROVE  NewEntry(d, y, source, ref, lines) \in Entry
  BY DEF NewEntry, Entry

(* Whatever was asked, lines the engine accepts carry no negative amount. *)
LEMMA AcceptedLinesType ==
  ASSUME NEW lines \in Seq(AskedLine), WellFormed(lines)
  PROVE  lines \in Seq(Line)
  <1>1. /\ DOMAIN lines = 1..Len(lines) /\ Len(lines) \in Nat
        /\ \A i \in 1..Len(lines) : lines[i] \in AskedLine
        /\ lines = [i \in 1..Len(lines) |-> lines[i]]
    OBVIOUS
  <1>2. ASSUME NEW i \in 1..Len(lines) PROVE lines[i] \in Line
    <2>1. lines[i].debit >= 0 /\ lines[i].credit >= 0
      BY <1>1 DEF WellFormed
    <2>2. lines[i] \in AskedLine
      BY <1>1
    <2>3. QED
      BY <2>1, <2>2 DEF AskedLine, Line
  <1>3. QED
    BY <1>1, <1>2, IsASeq

(* Exchanging the sides of well-typed lines gives well-typed lines, as many. *)
LEMMA SwappedType ==
  ASSUME NEW lines \in Seq(Line)
  PROVE  /\ Swapped(lines) \in Seq(Line)
         /\ Len(Swapped(lines)) = Len(lines)
         /\ DOMAIN Swapped(lines) = DOMAIN lines
         /\ \A i \in DOMAIN lines :
              /\ Swapped(lines)[i].account = lines[i].account
              /\ Swapped(lines)[i].currency = lines[i].currency
              /\ Swapped(lines)[i].rate = KeptRate(lines[i].rate)
              /\ Swapped(lines)[i].debit = lines[i].credit
              /\ Swapped(lines)[i].credit = lines[i].debit
  <1> DEFINE Exchange(line) == [line EXCEPT !.debit = line.credit, !.credit = line.debit,
                                            !.rate = KeptRate(line.rate)]
  <1>1. \A i \in 1..Len(lines) : lines[i] \in Line
    OBVIOUS
  <1>2. DOMAIN lines = 1..Len(lines) /\ Len(lines) \in Nat
    OBVIOUS
  <1>3. Swapped(lines) = [i \in 1..Len(lines) |-> Exchange(lines[i])]
    BY <1>2, Zenon DEF Swapped
  <1>4. ASSUME NEW line \in Line
        PROVE  /\ Exchange(line) \in Line
               /\ Exchange(line).account = line.account
               /\ Exchange(line).currency = line.currency
               /\ Exchange(line).rate = KeptRate(line.rate)
               /\ Exchange(line).debit = line.credit
               /\ Exchange(line).credit = line.debit
    <2>1. KeptRate(line.rate) \in Rates
      BY DEF Line, KeptRate, Rates
    <2>2. QED
      BY <2>1 DEF Line
  <1> HIDE DEF Exchange
  <1>5. Swapped(lines) \in Seq(Line) /\ Len(Swapped(lines)) = Len(lines)
    BY <1>1, <1>2, <1>3, <1>4, IsASeq
  <1>6. QED
    BY <1>1, <1>2, <1>3, <1>4, <1>5

(* The reversal of balanced, well-formed lines is balanced and well formed: *)
(* its base debits are the original's base credits, line by line, because   *)
(* the reversal keeps each line's currency and any rate but nothing.        *)
LEMMA SwappedPostable ==
  ASSUME NEW lines \in Seq(Line), \A i \in Converted(lines) : lines[i].rate.num # 0
  PROVE  /\ BaseDebits(Swapped(lines)) = BaseCredits(lines)
         /\ BaseCredits(Swapped(lines)) = BaseDebits(lines)
         /\ Balanced(lines) => Balanced(Swapped(lines))
         /\ WellFormed(lines) => WellFormed(Swapped(lines))
         /\ AccountsUsable(lines) => AccountsUsable(Swapped(lines))
  <1> DEFINE opp == Swapped(lines)
  <1>1. /\ DOMAIN opp = DOMAIN lines
        /\ Len(opp) = Len(lines)
        /\ \A i \in DOMAIN lines :
             /\ opp[i].account = lines[i].account
             /\ opp[i].currency = lines[i].currency
             /\ IsForeign(lines[i]) => opp[i].rate = lines[i].rate
             /\ opp[i].debit = lines[i].credit
             /\ opp[i].credit = lines[i].debit
    BY SwappedType DEF Converted, KeptRate
  <1> HIDE DEF opp
  <1>2. \A i \in DOMAIN lines : \A x : ToBase(x, opp[i]) = ToBase(x, lines[i])
    BY <1>1 DEF ToBase, IsForeign
  <1>3. [i \in DOMAIN opp |-> ToBase(opp[i].debit, opp[i])]
          = [i \in DOMAIN lines |-> ToBase(lines[i].credit, lines[i])]
    BY <1>1, <1>2
  <1>4. [i \in DOMAIN opp |-> ToBase(opp[i].credit, opp[i])]
          = [i \in DOMAIN lines |-> ToBase(lines[i].debit, lines[i])]
    BY <1>1, <1>2
  <1>5. /\ BaseDebits(opp) = BaseCredits(lines)
        /\ BaseCredits(opp) = BaseDebits(lines)
    BY <1>3, <1>4, Zenon DEF BaseDebits, BaseCredits
  <1>6. WellFormed(lines) => WellFormed(opp)
    BY <1>1 DEF WellFormed, IsForeign, Line
  <1>7. AccountsUsable(lines) => AccountsUsable(opp)
    BY <1>1 DEF AccountsUsable
  <1>8. QED
    BY <1>5, <1>6, <1>7 DEF Balanced, opp

(* What a step that posts a reversal does to the journal: the reversal comes *)
(* last, and every earlier entry stays, but for the link the original gets.  *)
LEMMA LinkedEntries ==
  ASSUME NEW book \in Seq(Entry), NEW e \in Entry, NEW n \in DOMAIN book
  PROVE  LET new == Linked(Append(book, e), n)
             last == Len(book) + 1
         IN  /\ new \in Seq(Entry)
             /\ Len(new) = last
             /\ new[last] = [e EXCEPT !.reversalOf = n]
             /\ new[n] = [book[n] EXCEPT !.reversedBy = last]
             /\ \A m \in 1..Len(book) : m # n => new[m] = book[m]
  <1> DEFINE app  == Append(book, e)
             last == Len(book) + 1
             orig == [book[n] EXCEPT !.reversedBy = last]
             rev  == [e EXCEPT !.reversalOf = n]
             step == [app EXCEPT ![n] = orig]
             new  == [step EXCEPT ![last] = rev]
  <1>1. /\ Len(book) \in Nat /\ last \in Nat /\ n \in Nat
        /\ n \in 1..Len(book) /\ n \in 1..last /\ last \in 1..last /\ n # last
        /\ \A m \in 1..Len(book) : m \in 1..last /\ m # last
    OBVIOUS
  <1>2. /\ app \in Seq(Entry) /\ Len(app) = last
        /\ \A m \in 1..Len(book) : app[m] = book[m] /\ book[m] \in Entry
        /\ app[last] = e
    BY AppendProperties
  <1>3. \A entry \in Entry, k \in Nat :
          [entry EXCEPT !.reversedBy = k] \in Entry /\ [entry EXCEPT !.reversalOf = k] \in Entry
    BY DEF Entry
  <1>4. orig \in Entry /\ rev \in Entry
    <2>1. book[n] \in Entry
      BY <1>1, <1>2
    <2>2. QED
      BY <2>1, <1>1, <1>3
  <1>5. Linked(app, n) = new
    BY <1>1, <1>2 DEF Linked
  <1> HIDE DEF app, orig, rev
  <1>6. /\ step \in Seq(Entry) /\ Len(step) = last
        /\ \A m \in 1..last : step[m] = IF m = n THEN orig ELSE app[m]
    BY <1>1, <1>2, <1>4, ExceptSeq
  <1> HIDE DEF step
  <1>7. /\ new \in Seq(Entry) /\ Len(new) = last
        /\ \A m \in 1..last : new[m] = IF m = last THEN rev ELSE step[m]
    BY <1>1, <1>4, <1>6, ExceptSeq
  <1> HIDE DEF new, last
  <1>8. /\ new \in Seq(Entry)
        /\ Len(new) = last
        /\ new[last] = rev
        /\ new[n] = orig
        /\ \A m \in 1..Len(book) : m # n => new[m] = book[m]
    BY <1>1, <1>2, <1>6, <1>7
  <1>9. QED
    BY <1>5, <1>8, Zenon DEF app, orig, rev, last

------------------------------------------------------------------------------
(* What any step can do to the books. *)

\* A new entry e that the engine accepts: typed, postable, in a year that covers it.
Accepted(e) ==
  /\ e \in Entry
  /\ Postable(e.lines)
  /\ e.year \in YearsCovering(e.date)
  /\ e.reversalOf = 0 /\ e.reversedBy = 0

Posts(e) ==
  /\ Accepted(e)
  /\ journal' = Append(journal, e)
  /\ yearStatus[e.year] # "open" => Len(journal) + 1 \in overridden'

Reverses(n, e) ==
  /\ n \in DOMAIN journal
  /\ journal[n].reversedBy = 0
  /\ Accepted(e)
  /\ e.lines = Swapped(journal[n].lines)
  /\ yearStatus[e.year] = "open"
  /\ journal' = Linked(Append(journal, e), n)

\* Years are generated clear of the others; afterwards only their status changes.
YearsStep ==
  \/ UNCHANGED yearStatus
  \/ \E y \in Years : GenerateFinancialYear(y)
  \/ \E y \in Years, s \in ShutStatuses \cup {"open"} : SetYearStatus(y, s)

\* What the steps of any workflow do to the books, one entry at a time.
EngineStep ==
  /\ \/ \E e : Posts(e) /\ UNCHANGED yearStatus
     \/ \E n, e : Reverses(n, e) /\ UNCHANGED yearStatus
     \/ UNCHANGED journal /\ YearsStep
  /\ active' \in SUBSET Accounts
  /\ overridden' \in SUBSET Nat

(* Posting through the engine posts one accepted entry, as it was asked for. *)
LEMMA PostJournalEntryPosts ==
  ASSUME TypeOK, NEW d \in Dates, NEW source \in Sources, NEW ref \in Refs,
         NEW lines \in Seq(AskedLine), NEW override \in BOOLEAN,
         PostJournalEntry(d, source, ref, lines, override)
  PROVE  /\ \E e : /\ Posts(e)
                  /\ e.date = d /\ e.source = source /\ e.ref = ref /\ e.lines = lines
         /\ overridden' \in SUBSET Nat
  <1>1. PICK y \in YearsCovering(d) :
          /\ AcceptsPosting(y, override)
          /\ journal' = Append(journal, NewEntry(d, y, source, ref, lines))
    BY DEF PostJournalEntry
  <1> DEFINE e == NewEntry(d, y, source, ref, lines)
  <1>2. y \in Years
    BY DEF YearsCovering, Generated
  <1>5. Postable(lines)
    BY DEF PostJournalEntry
  <1>3. e \in Entry
    <2>1. lines \in Seq(Line)
      BY <1>5, AcceptedLinesType DEF Postable
    <2>2. QED
      BY <1>2, <2>1, NewEntryType
  <1>4. /\ e.date = d /\ e.year = y /\ e.source = source /\ e.ref = ref /\ e.lines = lines
        /\ e.reversalOf = 0 /\ e.reversedBy = 0
    BY DEF NewEntry
  <1>6. Len(journal) + 1 \in Nat
    BY DEF TypeOK
  <1>7. yearStatus[y] # "open" => Len(journal) + 1 \in overridden'
    BY <1>1 DEF PostJournalEntry, AcceptsPosting
  <1>8. overridden' \in SUBSET Nat
    BY <1>6 DEF PostJournalEntry, TypeOK
  <1> HIDE DEF e
  <1>9. Accepted(e)
    BY <1>3, <1>4, <1>5 DEF Accepted
  <1>10. QED
    BY <1>1, <1>4, <1>7, <1>8, <1>9 DEF Posts, e

(* Reversing through the engine posts the original's opposite and links both. *)
LEMMA ReverseJournalEntryReverses ==
  ASSUME TypeOK, NEW n \in DOMAIN journal, NEW d \in Dates,
         ReverseJournalEntry(n, d)
  PROVE  \E e : Reverses(n, e) /\ e.date = d /\ e.source = "reversal"
  <1> DEFINE lines == Swapped(journal[n].lines)
  <1>1. PICK y \in YearsCovering(d) :
          /\ AcceptsPosting(y, FALSE)
          /\ journal' = Linked(Append(journal, NewEntry(d, y, "reversal", NoRef, lines)), n)
    BY DEF ReverseJournalEntry
  <1> DEFINE e == NewEntry(d, y, "reversal", NoRef, lines)
  <1>2. y \in Years
    BY DEF YearsCovering, Generated
  <1>a. journal[n] \in Entry
    BY DEF TypeOK
  <1>3. journal[n].lines \in Seq(Line)
    BY <1>a DEF Entry
  <1>4. lines \in Seq(Line)
    BY <1>3, SwappedType
  <1>5. Postable(lines) /\ journal[n].reversedBy = 0
    BY DEF ReverseJournalEntry
  <1> HIDE DEF lines
  <1>6. e \in Entry
    BY <1>2, <1>4, NewEntryType, ConfigurationAssumption
  <1>7. /\ e.date = d /\ e.year = y /\ e.source = "reversal" /\ e.lines = lines
        /\ e.reversalOf = 0 /\ e.reversedBy = 0
    BY DEF NewEntry
  <1>8. yearStatus[y] = "open"
    BY <1>1 DEF AcceptsPosting
  <1> HIDE DEF e
  <1>9. Accepted(e)
    BY <1>5, <1>6, <1>7 DEF Accepted
  <1>10. QED
    BY <1>1, <1>5, <1>7, <1>8, <1>9 DEF Reverses, e, lines

(* Every step posts one entry, reverses one, or leaves the journal alone;    *)
(* only the last kind touches the configuration.                             *)
LEMMA NextShape ==
  ASSUME TypeOK, [Next]_vars
  PROVE  EngineStep
  <1>1. CASE PostingStep
    <2>1. PICK d \in Dates, lines \in Postings :
            \/ \E override \in BOOLEAN : PostAdjustment(d, lines, override)
            \/ PostConverted(d, lines)
      BY <1>1 DEF PostingStep
    <2>2. lines \in Seq(AskedLine) /\ WithFxRoundingLine(lines) \in Seq(AskedLine)
      BY PostingsAssumption
    <2>3. /\ "manual_adjustment" \in Sources /\ "bank_transaction" \in Sources
          /\ NoRef \in Refs
      BY ConfigurationAssumption
    <2>4. ASSUME NEW override \in BOOLEAN, PostAdjustment(d, lines, override)
          PROVE  /\ \E e : Posts(e)
                 /\ UNCHANGED <<active, yearStatus>> /\ overridden' \in SUBSET Nat
      BY <2>2, <2>3, <2>4, PostJournalEntryPosts DEF PostAdjustment
    <2>5. ASSUME PostConverted(d, lines)
          PROVE  /\ \E e : Posts(e)
                 /\ UNCHANGED <<active, yearStatus>> /\ overridden' \in SUBSET Nat
      BY <2>2, <2>3, <2>5, PostJournalEntryPosts DEF PostConverted
    <2>6. QED
      BY <2>1, <2>4, <2>5 DEF TypeOK, EngineStep
  <1>2. CASE ReversingStep
    <2>1. PICK n \in DOMAIN journal, d \in Dates : ReverseEntry(n, d)
      BY <1>2 DEF ReversingStep
    <2>2. \E e : Reverses(n, e)
      BY <2>1, ReverseJournalEntryReverses DEF ReverseEntry
    <2>3. UNCHANGED <<active, yearStatus, overridden>>
      BY <2>1 DEF ReverseEntry, ReverseJournalEntry
    <2>4. QED
      BY <2>2, <2>3 DEF TypeOK, EngineStep
  <1>3. CASE ConfigurationStep
    <2>1. UNCHANGED <<journal, overridden>> /\ YearsStep /\ active' \in SUBSET Accounts
      BY <1>3 DEF ConfigurationStep, ArchiveAccount, RestoreAccount,
                  GenerateFinancialYear, SetYearStatus, YearsStep, TypeOK
    <2>2. QED
      BY <2>1 DEF TypeOK, EngineStep
  <1>4. CASE UNCHANGED vars
    BY <1>4 DEF vars, TypeOK, YearsStep, EngineStep
  <1>5. QED
    BY <1>1, <1>2, <1>3, <1>4 DEF Next

------------------------------------------------------------------------------
(* The inductive invariant. *)

\* Each entry is one the engine accepted, apart from accounts archived since.
EntriesSound ==
  \A n \in DOMAIN journal :
    WellFormed(journal[n].lines) /\ Balanced(journal[n].lines)

\* Each entry lies in its own year, and that year is still there.
EntriesDated ==
  \A n \in DOMAIN journal : journal[n].year \in YearsCovering(journal[n].date)

YearsDisjoint ==
  \A y, z \in Generated : Overlap(y, z) => y = z

\* The two links of a reversal point at each other and it carries the
\* original's lines exchanged.
LinksSound ==
  \A n \in DOMAIN journal :
    /\ journal[n].reversalOf # 0 =>
         /\ journal[n].reversalOf \in 1..(n - 1)
         /\ journal[journal[n].reversalOf].reversedBy = n
    /\ journal[n].reversedBy # 0 =>
         /\ journal[n].reversedBy \in (n + 1)..Len(journal)
         /\ journal[journal[n].reversedBy].reversalOf = n
         /\ journal[journal[n].reversedBy].lines = Swapped(journal[n].lines)

JournalInv == TypeOK /\ EntriesSound /\ EntriesDated /\ YearsDisjoint /\ LinksSound

(* The entries after a step, one by one. *)
LEMMA PostsEntries ==
  ASSUME TypeOK, NEW e, Posts(e)
  PROVE  /\ e \in Entry
         /\ Len(journal) \in Nat
         /\ journal' \in Seq(Entry)
         /\ Len(journal') = Len(journal) + 1
         /\ DOMAIN journal = 1..Len(journal) /\ DOMAIN journal' = 1..(Len(journal) + 1)
         /\ \A m \in 1..Len(journal) : journal'[m] = journal[m]
         /\ journal'[Len(journal) + 1] = e
  BY AppendProperties DEF Posts, Accepted, TypeOK

LEMMA ReversesEntries ==
  ASSUME TypeOK, NEW n, NEW e, Reverses(n, e)
  PROVE  /\ e \in Entry
         /\ Len(journal) \in Nat
         /\ n \in 1..Len(journal)
         /\ journal' \in Seq(Entry)
         /\ Len(journal') = Len(journal) + 1
         /\ DOMAIN journal = 1..Len(journal) /\ DOMAIN journal' = 1..(Len(journal) + 1)
         /\ \A m \in 1..Len(journal) : m # n => journal'[m] = journal[m]
         /\ journal'[n] = [journal[n] EXCEPT !.reversedBy = Len(journal) + 1]
         /\ journal'[Len(journal) + 1] = [e EXCEPT !.reversalOf = n]
  <1>1. journal \in Seq(Entry) /\ e \in Entry /\ n \in DOMAIN journal
    BY DEF TypeOK, Reverses, Accepted
  <1>2. journal' = Linked(Append(journal, e), n)
    BY DEF Reverses
  <1> QED
    BY <1>1, <1>2, LinkedEntries

(* Writing one link of an entry leaves its other fields alone. *)
LEMMA LinkFields ==
  ASSUME NEW x \in Entry, NEW k \in Nat
  PROVE  /\ [x EXCEPT !.reversedBy = k].date = x.date
         /\ [x EXCEPT !.reversedBy = k].year = x.year
         /\ [x EXCEPT !.reversedBy = k].source = x.source
         /\ [x EXCEPT !.reversedBy = k].ref = x.ref
         /\ [x EXCEPT !.reversedBy = k].lines = x.lines
         /\ [x EXCEPT !.reversedBy = k].reversalOf = x.reversalOf
         /\ [x EXCEPT !.reversedBy = k].reversedBy = k
         /\ [x EXCEPT !.reversalOf = k].date = x.date
         /\ [x EXCEPT !.reversalOf = k].year = x.year
         /\ [x EXCEPT !.reversalOf = k].source = x.source
         /\ [x EXCEPT !.reversalOf = k].lines = x.lines
         /\ [x EXCEPT !.reversalOf = k].reversalOf = k
         /\ [x EXCEPT !.reversalOf = k].reversedBy = x.reversedBy
  BY DEF Entry

(* The same facts for the fields the invariants speak of. *)
LEMMA ReversesFields ==
  ASSUME TypeOK, NEW n, NEW e, Reverses(n, e)
  PROVE  /\ \A m \in 1..Len(journal) :
              /\ journal'[m].date = journal[m].date
              /\ journal'[m].year = journal[m].year
              /\ journal'[m].source = journal[m].source
              /\ journal'[m].ref = journal[m].ref
              /\ journal'[m].lines = journal[m].lines
              /\ journal'[m].reversalOf = journal[m].reversalOf
              /\ m # n => journal'[m].reversedBy = journal[m].reversedBy
         /\ journal'[n].reversedBy = Len(journal) + 1
         /\ journal'[Len(journal) + 1].date = e.date
         /\ journal'[Len(journal) + 1].year = e.year
         /\ journal'[Len(journal) + 1].source = e.source
         /\ journal'[Len(journal) + 1].lines = e.lines
         /\ journal'[Len(journal) + 1].reversalOf = n
         /\ journal'[Len(journal) + 1].reversedBy = 0
  <1>1. \A m \in 1..Len(journal) : journal[m] \in Entry
    BY DEF TypeOK
  <1>2. e \in Entry /\ e.reversedBy = 0
    BY DEF Reverses, Accepted
  <1> DEFINE last == Len(journal) + 1
  <1>4. /\ e \in Entry /\ Len(journal) \in Nat /\ n \in 1..Len(journal)
        /\ \A m \in 1..Len(journal) : m # n => journal'[m] = journal[m]
        /\ journal'[n] = [journal[n] EXCEPT !.reversedBy = last]
        /\ journal'[last] = [e EXCEPT !.reversalOf = n]
    BY ReversesEntries, Zenon
  <1>5. last \in Nat /\ n \in Nat
    BY <1>4
  <1> HIDE DEF last
  <1>6. /\ journal'[n].date = journal[n].date
        /\ journal'[n].year = journal[n].year
        /\ journal'[n].source = journal[n].source
        /\ journal'[n].ref = journal[n].ref
        /\ journal'[n].lines = journal[n].lines
        /\ journal'[n].reversalOf = journal[n].reversalOf
        /\ journal'[n].reversedBy = last
    BY <1>1, <1>4, <1>5, LinkFields
  <1>7. /\ journal'[last].date = e.date
        /\ journal'[last].year = e.year
        /\ journal'[last].source = e.source
        /\ journal'[last].lines = e.lines
        /\ journal'[last].reversalOf = n
        /\ journal'[last].reversedBy = 0
    BY <1>2, <1>4, <1>5, LinkFields
  <1>8. QED
    BY <1>4, <1>6, <1>7, Zenon DEF last

(* Every step of the engine keeps the types. *)
LEMMA TypePreserved ==
  ASSUME TypeOK, EngineStep
  PROVE  TypeOK'
  <1>1. journal' \in Seq(Entry)
    BY PostsEntries, ReversesEntries DEF TypeOK, EngineStep
  <1>2. yearStatus' \in [Years -> Statuses]
    BY ConfigurationAssumption
       DEF TypeOK, EngineStep, YearsStep, GenerateFinancialYear, SetYearStatus, Statuses
  <1>3. QED
    BY <1>1, <1>2 DEF TypeOK, EngineStep

(* The types hold in every reachable state. *)
THEOREM TypeInvariant == Spec => []TypeOK
  <1>1. Init => TypeOK
    BY ConfigurationAssumption DEF Init, TypeOK, Statuses
  <1>2. TypeOK /\ [Next]_vars => TypeOK'
    BY NextShape, TypePreserved
  <1>3. QED
    BY <1>1, <1>2, PTL DEF Spec

(* Generated years are never lost, and a new one is clear of all the others. *)
LEMMA YearsStepKeepsYears ==
  ASSUME TypeOK, YearsStep
  PROVE  /\ Generated \subseteq Generated'
         /\ YearsDisjoint => YearsDisjoint'
  <1>1. \A y, z \in Years : Overlap(y, z) <=> Overlap(z, y)
    BY ConfigurationAssumption DEF Overlap
  <1>2. CASE UNCHANGED yearStatus
    BY <1>2 DEF Generated, YearsDisjoint
  <1>3. ASSUME NEW y \in Years, GenerateFinancialYear(y)
        PROVE  Generated' = Generated \cup {y}
    BY <1>3 DEF GenerateFinancialYear, Generated, TypeOK
  <1>4. ASSUME NEW y \in Years, NEW s \in ShutStatuses \cup {"open"}, SetYearStatus(y, s)
        PROVE  Generated' = Generated
    BY <1>4, ConfigurationAssumption DEF SetYearStatus, Generated, TypeOK
  <1>5. ASSUME NEW y \in Years, GenerateFinancialYear(y), YearsDisjoint
        PROVE  YearsDisjoint'
    <2>1. \A z \in Generated : ~Overlap(y, z) /\ ~Overlap(z, y)
      BY <1>1, <1>5 DEF GenerateFinancialYear, Generated
    <2>2. QED
      BY <1>3, <1>5, <2>1 DEF YearsDisjoint, Overlap
  <1>6. QED
    BY <1>2, <1>3, <1>4, <1>5 DEF YearsStep, YearsDisjoint, Overlap

LEMMA SoundPreserved ==
  ASSUME TypeOK, EntriesSound, EngineStep
  PROVE  EntriesSound'
  <1>1. ASSUME NEW e, Posts(e) PROVE EntriesSound'
    <2>1. WellFormed(e.lines) /\ Balanced(e.lines)
      BY <1>1 DEF Posts, Accepted, Postable
    <2>2. /\ DOMAIN journal = 1..Len(journal) /\ DOMAIN journal' = 1..(Len(journal) + 1)
          /\ Len(journal) \in Nat
          /\ \A m \in 1..Len(journal) : journal'[m] = journal[m]
          /\ journal'[Len(journal) + 1] = e
      BY <1>1, PostsEntries
    <2>3. \A m \in DOMAIN journal' :
            WellFormed(journal'[m].lines) /\ Balanced(journal'[m].lines)
      BY <2>1, <2>2 DEF EntriesSound
    <2>4. QED
      BY <2>3 DEF EntriesSound
  <1>2. ASSUME NEW n, NEW e, Reverses(n, e) PROVE EntriesSound'
    <2>1. WellFormed(e.lines) /\ Balanced(e.lines)
      BY <1>2 DEF Reverses, Accepted, Postable
    <2>2. /\ DOMAIN journal = 1..Len(journal) /\ DOMAIN journal' = 1..(Len(journal) + 1)
          /\ Len(journal) \in Nat
      BY <1>2, ReversesEntries
    <2>3. /\ \A m \in 1..Len(journal) : journal'[m].lines = journal[m].lines
          /\ journal'[Len(journal) + 1].lines = e.lines
      BY <1>2, ReversesFields
    <2>4. \A m \in DOMAIN journal' :
            WellFormed(journal'[m].lines) /\ Balanced(journal'[m].lines)
      BY <2>1, <2>2, <2>3 DEF EntriesSound
    <2>5. QED
      BY <2>4 DEF EntriesSound
  <1>3. QED
    BY <1>1, <1>2 DEF EntriesSound, EngineStep

LEMMA DatedPreserved ==
  ASSUME TypeOK, EntriesDated, EngineStep
  PROVE  EntriesDated'
  <1>1. ASSUME NEW e, Posts(e), UNCHANGED yearStatus PROVE EntriesDated'
    BY <1>1, PostsEntries DEF Posts, Accepted, EntriesDated, YearsCovering, Generated
  <1>2. ASSUME NEW n, NEW e, Reverses(n, e), UNCHANGED yearStatus PROVE EntriesDated'
    <2>1. /\ DOMAIN journal = 1..Len(journal) /\ DOMAIN journal' = 1..(Len(journal) + 1)
          /\ Len(journal) \in Nat
      BY <1>2, ReversesEntries
    <2>2. /\ \A m \in 1..Len(journal) :
               journal'[m].date = journal[m].date /\ journal'[m].year = journal[m].year
          /\ journal'[Len(journal) + 1].date = e.date
          /\ journal'[Len(journal) + 1].year = e.year
      BY <1>2, ReversesFields
    <2>3. e.year \in YearsCovering(e.date)
      BY <1>2 DEF Reverses, Accepted
    <2>4. \A d : YearsCovering(d)' = YearsCovering(d)
      BY <1>2 DEF YearsCovering, Generated
    <2>5. \A m \in DOMAIN journal' : journal'[m].year \in YearsCovering(journal'[m].date)
      BY <2>1, <2>2, <2>3 DEF EntriesDated
    <2>6. QED
      BY <2>4, <2>5 DEF EntriesDated, YearsCovering, Generated
  <1>3. ASSUME UNCHANGED journal, YearsStep PROVE EntriesDated'
    BY <1>3, YearsStepKeepsYears DEF EntriesDated, YearsCovering
  <1>4. QED
    BY <1>1, <1>2, <1>3 DEF EngineStep

LEMMA DisjointPreserved ==
  ASSUME TypeOK, YearsDisjoint, EngineStep
  PROVE  YearsDisjoint'
  <1>1. ASSUME UNCHANGED yearStatus PROVE YearsDisjoint'
    BY <1>1 DEF YearsDisjoint, Generated
  <1>2. QED
    BY <1>1, YearsStepKeepsYears DEF EngineStep

LEMMA LinksPreserved ==
  ASSUME TypeOK, LinksSound, EngineStep
  PROVE  LinksSound'
  <1>1. ASSUME NEW e, Posts(e) PROVE LinksSound'
    <2>1. e.reversalOf = 0 /\ e.reversedBy = 0
      BY <1>1 DEF Posts, Accepted
    <2>2. /\ DOMAIN journal = 1..Len(journal) /\ DOMAIN journal' = 1..(Len(journal) + 1)
          /\ Len(journal) \in Nat /\ Len(journal') = Len(journal) + 1
          /\ \A m \in 1..Len(journal) : journal'[m] = journal[m]
          /\ journal'[Len(journal) + 1] = e
      BY <1>1, PostsEntries
    <2>3. SUFFICES ASSUME NEW m \in 1..(Len(journal) + 1)
                   PROVE  /\ journal'[m].reversalOf # 0 =>
                               /\ journal'[m].reversalOf \in 1..(m - 1)
                               /\ journal'[journal'[m].reversalOf].reversedBy = m
                          /\ journal'[m].reversedBy # 0 =>
                               /\ journal'[m].reversedBy \in (m + 1)..(Len(journal) + 1)
                               /\ journal'[journal'[m].reversedBy].reversalOf = m
                               /\ journal'[journal'[m].reversedBy].lines
                                    = Swapped(journal'[m].lines)
      BY <2>2 DEF LinksSound
    <2>4. CASE m = Len(journal) + 1
      BY <2>1, <2>2, <2>4
    <2>5. CASE m \in 1..Len(journal)
      <3>1. /\ journal[m].reversalOf # 0 =>
                 /\ journal[m].reversalOf \in 1..(m - 1)
                 /\ journal[journal[m].reversalOf].reversedBy = m
            /\ journal[m].reversedBy # 0 =>
                 /\ journal[m].reversedBy \in (m + 1)..Len(journal)
                 /\ journal[journal[m].reversedBy].reversalOf = m
                 /\ journal[journal[m].reversedBy].lines = Swapped(journal[m].lines)
        BY <2>2, <2>5 DEF LinksSound
      <3>2. journal'[m] = journal[m]
        BY <2>2, <2>5
      <3>3. QED
        BY <2>2, <2>5, <3>1, <3>2
    <2>6. QED
      BY <2>2, <2>4, <2>5
  <1>2. ASSUME NEW n, NEW e, Reverses(n, e) PROVE LinksSound'
    <2> DEFINE last == Len(journal) + 1
    <2>1. /\ Len(journal) \in Nat /\ n \in 1..Len(journal)
          /\ DOMAIN journal = 1..Len(journal) /\ DOMAIN journal' = 1..last
          /\ Len(journal') = last
      BY <1>2, ReversesEntries
    <2>2. /\ \A m \in 1..Len(journal) :
               /\ journal'[m].lines = journal[m].lines
               /\ journal'[m].reversalOf = journal[m].reversalOf
               /\ m # n => journal'[m].reversedBy = journal[m].reversedBy
          /\ journal'[n].reversedBy = last
          /\ journal'[last].lines = e.lines
          /\ journal'[last].reversalOf = n
          /\ journal'[last].reversedBy = 0
      BY <1>2, ReversesFields
    <2>3. e.lines = Swapped(journal[n].lines) /\ journal[n].reversedBy = 0
      BY <1>2 DEF Reverses
    <2>4. \A m \in 1..Len(journal) :
            /\ journal[m].reversalOf # 0 =>
                 /\ journal[m].reversalOf \in 1..(m - 1)
                 /\ journal[journal[m].reversalOf].reversedBy = m
            /\ journal[m].reversedBy # 0 =>
                 /\ journal[m].reversedBy \in (m + 1)..Len(journal)
                 /\ journal[journal[m].reversedBy].reversalOf = m
                 /\ journal[journal[m].reversedBy].lines = Swapped(journal[m].lines)
      BY <2>1 DEF LinksSound
    <2>5. SUFFICES ASSUME NEW m \in 1..last
                   PROVE  /\ journal'[m].reversalOf # 0 =>
                               /\ journal'[m].reversalOf \in 1..(m - 1)
                               /\ journal'[journal'[m].reversalOf].reversedBy = m
                          /\ journal'[m].reversedBy # 0 =>
                               /\ journal'[m].reversedBy \in (m + 1)..last
                               /\ journal'[journal'[m].reversedBy].reversalOf = m
                               /\ journal'[journal'[m].reversedBy].lines
                                    = Swapped(journal'[m].lines)
      BY <2>1 DEF LinksSound
    <2>6. CASE m = last
      BY <2>1, <2>2, <2>6
    <2>7. CASE m = n
      BY <2>1, <2>2, <2>3, <2>4, <2>7
    <2>8. CASE m \in 1..Len(journal) /\ m # n
      <3>1. /\ journal'[m].lines = journal[m].lines
            /\ journal'[m].reversalOf = journal[m].reversalOf
            /\ journal'[m].reversedBy = journal[m].reversedBy
        BY <2>2, <2>8
      <3>2. ASSUME journal[m].reversalOf # 0
            PROVE  /\ journal[m].reversalOf \in 1..(m - 1)
                   /\ journal'[journal[m].reversalOf].reversedBy = m
        <4>1. /\ journal[m].reversalOf \in 1..(m - 1)
              /\ journal[journal[m].reversalOf].reversedBy = m
          BY <2>4, <2>8, <3>2
        <4>2. journal[m].reversalOf \in 1..Len(journal) /\ m # 0
          BY <2>1, <2>8, <4>1
        <4>3. journal[m].reversalOf # n
          BY <2>3, <4>1, <4>2
        <4>4. QED
          BY <2>2, <4>1, <4>2, <4>3
      <3>3. ASSUME journal[m].reversedBy # 0
            PROVE  /\ journal[m].reversedBy \in (m + 1)..last
                   /\ journal'[journal[m].reversedBy].reversalOf = m
                   /\ journal'[journal[m].reversedBy].lines = Swapped(journal[m].lines)
        <4>1. /\ journal[m].reversedBy \in (m + 1)..Len(journal)
              /\ journal[journal[m].reversedBy].reversalOf = m
              /\ journal[journal[m].reversedBy].lines = Swapped(journal[m].lines)
          BY <2>4, <2>8, <3>3
        <4>2. /\ journal[m].reversedBy \in 1..Len(journal)
              /\ journal[m].reversedBy \in (m + 1)..last
          BY <2>1, <2>8, <4>1
        <4>3. QED
          BY <2>2, <4>1, <4>2
      <3>4. QED
        BY <3>1, <3>2, <3>3
    <2>9. QED
      BY <2>1, <2>6, <2>7, <2>8
  <1>3. ASSUME UNCHANGED journal PROVE LinksSound'
    BY <1>3 DEF LinksSound
  <1>4. QED
    BY <1>1, <1>2, <1>3 DEF EngineStep

(* The conjunction of the five is inductive, whatever workflow posts. *)
LEMMA InvPreserved ==
  ASSUME JournalInv, EngineStep
  PROVE  JournalInv'
  BY TypePreserved, SoundPreserved, DatedPreserved, DisjointPreserved, LinksPreserved
     DEF JournalInv

(* The five hold in every reachable state. *)
THEOREM JournalInvariant == Spec => []JournalInv
  <1>1. Init => JournalInv
    BY ConfigurationAssumption
       DEF Init, JournalInv, TypeOK, Statuses, EntriesSound, EntriesDated,
           YearsDisjoint, Generated, LinksSound
  <1>2. JournalInv /\ [Next]_vars => JournalInv'
    BY NextShape, InvPreserved DEF JournalInv
  <1>3. QED
    BY <1>1, <1>2, PTL DEF Spec

------------------------------------------------------------------------------
(* What the books promise. *)

(* Every entry ever posted balances in the base currency, whatever was asked *)
(* of the engine (journal.ts postJournalEntry, reverseJournalEntry).         *)
THEOREM EntriesBalance == Spec => []EveryEntryBalances
  <1>1. JournalInv => EveryEntryBalances
    BY DEF JournalInv, EntriesSound, EveryEntryBalances
  <1>2. QED
    BY <1>1, JournalInvariant, PTL

(* Exchanging the sides of any posted entry gives lines the engine accepts as *)
(* long as its accounts are in use, so no posting at rates that are something *)
(* is beyond correction (journal.ts reverseJournalEntrySteps).                *)
THEOREM EntriesCanBeTakenBack == Spec => []EveryEntryCanBeTakenBack
  <1>1. JournalInv => EveryEntryCanBeTakenBack
    <2> SUFFICES ASSUME JournalInv, NEW n \in DOMAIN journal,
                        AccountsUsable(journal[n].lines),
                        \A i \in Converted(journal[n].lines) : journal[n].lines[i].rate.num # 0
                 PROVE  Postable(Swapped(journal[n].lines))
      BY DEF EveryEntryCanBeTakenBack
    <2>1. journal[n].lines \in Seq(Line)
      <3>1. journal[n] \in Entry
        BY DEF JournalInv, TypeOK
      <3>2. QED
        BY <3>1 DEF Entry
    <2>2. WellFormed(journal[n].lines) /\ Balanced(journal[n].lines)
      BY DEF JournalInv, EntriesSound
    <2>3. QED
      BY <2>1, <2>2, SwappedPostable DEF Postable
  <1>2. QED
    BY <1>1, JournalInvariant, PTL

(* An entry belongs to the one financial year it was posted into, for ever,   *)
(* however the years were generated (mutations.ts generateFinancialYearPeriod).*)
THEOREM EntriesInOneYear == Spec => []EntryInExactlyOneYear
  <1>1. JournalInv => EntryInExactlyOneYear
    <2> SUFFICES ASSUME JournalInv, NEW n \in DOMAIN journal
                 PROVE  YearsCovering(journal[n].date) = {journal[n].year}
      BY DEF EntryInExactlyOneYear
    <2>1. journal[n].date \in Nat
      <3>1. journal[n] \in Entry
        BY DEF JournalInv, TypeOK
      <3>2. QED
        BY <3>1, ConfigurationAssumption DEF Entry
    <2>2. journal[n].year \in YearsCovering(journal[n].date)
      BY DEF JournalInv, EntriesDated
    <2>3. \A y \in Years : Span[y].start \in Nat /\ Span[y].end \in Nat
      BY ConfigurationAssumption
    <2>4. ASSUME NEW y \in YearsCovering(journal[n].date),
                 NEW z \in YearsCovering(journal[n].date)
          PROVE  y = z
      <3>1. /\ y \in Generated /\ z \in Generated /\ y \in Years /\ z \in Years
            /\ Covers(y, journal[n].date) /\ Covers(z, journal[n].date)
        BY DEF YearsCovering, Generated
      <3>2. Overlap(y, z)
        BY <2>1, <2>3, <3>1 DEF Covers, Overlap
      <3>3. QED
        BY <3>1, <3>2 DEF JournalInv, YearsDisjoint
    <2>5. QED
      BY <2>2, <2>4
  <1>2. QED
    BY <1>1, JournalInvariant, PTL

(* No entry enters a locked or closed year but by a recorded override, no     *)
(* reversal does at all, and none is on an account that is archived           *)
(* (journal.ts assertAccountingPeriodOpen, postJournalEntry).                 *)
THEOREM BooksStayShut == Spec => ShutBooksStayShut
  <1> DEFINE Guarded(n) ==
        /\ AccountsUsable(journal'[n].lines)
        /\ yearStatus[journal'[n].year] \in {"locked", "closed"} =>
             n \in overridden' /\ journal'[n].reversalOf = 0
  <1>1. ASSUME TypeOK, [Next]_vars, NEW n \in DOMAIN journal' \ DOMAIN journal
        PROVE  Guarded(n)
    <2>1. ASSUME NEW e, Posts(e) PROVE Guarded(n)
      <3>1. /\ DOMAIN journal = 1..Len(journal) /\ DOMAIN journal' = 1..(Len(journal) + 1)
            /\ Len(journal) \in Nat /\ journal'[Len(journal) + 1] = e
        BY <1>1, <2>1, PostsEntries
      <3>2. n = Len(journal) + 1
        BY <1>1, <3>1
      <3>3. e.reversalOf = 0 /\ (yearStatus[e.year] # "open" => Len(journal) + 1 \in overridden')
        BY <2>1 DEF Posts, Accepted
      <3>4. AccountsUsable(e.lines)
        BY <2>1 DEF Posts, Accepted, Postable
      <3>5. QED
        BY <3>1, <3>2, <3>3, <3>4
    <2>2. ASSUME NEW k, NEW e, Reverses(k, e) PROVE Guarded(n)
      <3>1. /\ DOMAIN journal = 1..Len(journal) /\ DOMAIN journal' = 1..(Len(journal) + 1)
            /\ Len(journal) \in Nat
        BY <1>1, <2>2, ReversesEntries
      <3>2. n = Len(journal) + 1
        BY <1>1, <3>1
      <3>3. /\ journal'[Len(journal) + 1].year = e.year
            /\ journal'[Len(journal) + 1].lines = e.lines
        BY <1>1, <2>2, ReversesFields
      <3>4. yearStatus[e.year] = "open" /\ AccountsUsable(e.lines)
        BY <2>2 DEF Reverses, Accepted, Postable
      <3>5. QED
        BY <3>2, <3>3, <3>4
    <2>3. CASE UNCHANGED journal
      BY <1>1, <2>3
    <2>4. QED
      BY <1>1, <2>1, <2>2, <2>3, NextShape DEF EngineStep
  <1>2. TypeOK /\ [Next]_vars =>
          [\A n \in DOMAIN journal' \ DOMAIN journal :
             /\ AccountsUsable(journal'[n].lines)
             /\ yearStatus[journal'[n].year] \in {"locked", "closed"} =>
                  n \in overridden' /\ journal'[n].reversalOf = 0]_vars
    BY <1>1
  <1>3. QED
    BY <1>2, TypeInvariant, PTL DEF Spec, ShutBooksStayShut

------------------------------------------------------------------------------
(* What conversion rounding leaves on the rounding account. *)

(* A rounded share is a whole number. *)
LEMMA RoundedShareInt ==
  ASSUME NEW amount \in Int, NEW num \in Int, NEW den \in Nat \ {0}
  PROVE  RoundedShare(amount, num, den) \in Int
  <1> DEFINE x == amount * num
  <1>1. x \in Int
    OBVIOUS
  <1> HIDE DEF x
  <1>2. 2 * Abs(x) + den \in Int /\ 2 * den \in Nat \ {0}
    BY <1>1 DEF Abs
  <1> DEFINE q == (2 * Abs(x) + den) \div (2 * den)
  <1>3. q \in Int
    BY <1>2
  <1>4. RoundedShare(amount, num, den) = (IF x < 0 THEN -1 ELSE 1) * q
    BY DEF RoundedShare, x
  <1> HIDE DEF q
  <1>5. QED
    BY <1>1, <1>3, <1>4

(* What a well-formed line moves is a whole number in the base currency. *)
LEMMA ToBaseInt ==
  ASSUME NEW line \in Line, IsForeign(line) => line.rate # NoRate, NEW x \in Int
  PROVE  ToBase(x, line) \in Int
  <1>1. CASE IsForeign(line)
    <2>1. line.rate \in [num : Nat, den : Nat \ {0}]
      BY <1>1 DEF Line, Rates
    <2>2. line.rate.num \in Int /\ line.rate.den \in Nat \ {0}
      BY <2>1
    <2>3. QED
      BY <2>2, RoundedShareInt DEF ToBase
  <1>2. CASE ~IsForeign(line)
    BY <1>2 DEF ToBase
  <1>3. QED
    BY <1>1, <1>2

(* The line that absorbs a difference is in the base currency and moves just
   that on the rounding account; the others are left as they are. *)
LEMMA RoundingLineIs ==
  ASSUME NEW net \in Int
  PROVE  /\ RoundingLine(net).account = RoundingAccount
         /\ ~IsForeign(RoundingLine(net))
         /\ RoundingLine(net).currency = BaseCurrency
         /\ ToBase(RoundingLine(net).debit, RoundingLine(net))
              - ToBase(RoundingLine(net).credit, RoundingLine(net)) = -net
  <1>1. /\ RoundingLine(net).account = RoundingAccount
        /\ RoundingLine(net).currency = BaseCurrency
        /\ RoundingLine(net).debit = IF net < 0 THEN -net ELSE 0
        /\ RoundingLine(net).credit = IF net > 0 THEN net ELSE 0
    BY DEF RoundingLine, BaseLine
  <1>2. ~IsForeign(RoundingLine(net))
    BY <1>1 DEF IsForeign
  <1>3. /\ ToBase(RoundingLine(net).debit, RoundingLine(net)) = RoundingLine(net).debit
        /\ ToBase(RoundingLine(net).credit, RoundingLine(net)) = RoundingLine(net).credit
    BY <1>2 DEF ToBase
  <1>4. RoundingLine(net).debit - RoundingLine(net).credit = -net
    <2>1. CASE net < 0
      BY <1>1, <2>1
    <2>2. CASE net > 0
      BY <1>1, <2>2
    <2>3. CASE net = 0
      <3>1. RoundingLine(net).debit - RoundingLine(net).credit = 0
        BY <1>1, <2>3
      <3>2. -net = 0
        BY <2>3, NoneNegated, Zenon
      <3>3. QED
        BY <3>1, <3>2
    <2>4. QED
      BY <2>1, <2>2, <2>3
  <1>5. QED
    BY <1>1, <1>2, <1>3, <1>4

(* Lines that leave the rounding account alone, with the line that absorbs what
   their conversion left over, move there no more than conversion explains, and
   balance in every other currency. *)
LEMMA RoundingIsExplained ==
  ASSUME NEW asked \in Seq(AskedLine), \A i \in DOMAIN asked : asked[i].account # RoundingAccount,
         NEW lines \in Seq(Line), lines = WithFxRoundingLine(asked), WellFormed(lines),
         NetOn(RoundingAccount, lines) # 0
  PROVE  /\ Abs(NetOn(RoundingAccount, lines)) * 2 <= Cardinality(Converted(lines))
         /\ \A c \in Foreign : NetIn(c, lines) = 0
  <1> DEFINE Moves(i) == ToBase(lines[i].debit, lines[i]) - ToBase(lines[i].credit, lines[i])
  <1>1. /\ DOMAIN lines = 1..Len(lines) /\ Len(lines) \in Nat /\ IsFiniteSet(DOMAIN lines)
        /\ DOMAIN asked = 1..Len(asked) /\ Len(asked) \in Nat /\ IsFiniteSet(DOMAIN asked)
    <2>1. /\ DOMAIN lines = 1..Len(lines) /\ Len(lines) \in Nat
          /\ DOMAIN asked = 1..Len(asked) /\ Len(asked) \in Nat
      OBVIOUS
    <2>2. QED
      BY <2>1, FS_Interval
  <1>2. ASSUME NEW i \in DOMAIN lines
        PROVE  /\ lines[i].debit \in Int /\ lines[i].credit \in Int
               /\ ToBase(lines[i].debit, lines[i]) \in Int
               /\ ToBase(lines[i].credit, lines[i]) \in Int
               /\ Moves(i) \in Int
    <2>1. lines[i] \in Line
      BY <1>1
    <2>2. lines[i].debit \in Int /\ lines[i].credit \in Int
      BY <2>1 DEF Line
    <2>3. IsForeign(lines[i]) => lines[i].rate # NoRate
      BY DEF WellFormed
    <2>4. ToBase(lines[i].debit, lines[i]) \in Int /\ ToBase(lines[i].credit, lines[i]) \in Int
      BY <2>1, <2>2, <2>3, ToBaseInt
    <2>5. QED
      BY <2>2, <2>4
  <1> HIDE DEF Moves
  <1>3. PICK f : f = [i \in DOMAIN lines |-> IF lines[i].account = RoundingAccount
                                             THEN Moves(i) ELSE 0]
    OBVIOUS
  <1>4. /\ f \in [DOMAIN lines -> Int] /\ NetOn(RoundingAccount, lines) = Total(f)
        /\ \A i \in DOMAIN lines : lines[i].account # RoundingAccount => f[i] = 0
    <2>1. NetOn(RoundingAccount, lines) = Total(f)
      BY <1>3 DEF NetOn, Moves
    <2>2. QED
      BY <1>2, <1>3, <2>1
  <1>5. lines # asked
    <2>1. SUFFICES ASSUME lines = asked PROVE FALSE
      OBVIOUS
    <2>2. \A i \in DOMAIN lines : f[i] = 0
      BY <1>4, <2>1
    <2>3. Total(f) = 0
      BY <1>1, <1>4, <2>2, TotalZero
    <2>4. QED
      BY <1>4, <2>3
  <1>6. PICK net : net = BaseNet(asked)
    OBVIOUS
  <1>7. /\ lines = Append(asked, RoundingLine(net))
        /\ \A c \in Currencies : NetIn(c, asked) = 0
        /\ Abs(net) * 2 <= Cardinality(Converted(asked))
    BY <1>5, <1>6 DEF WithFxRoundingLine
  <1> DEFINE last == Len(asked) + 1
  <1>8. /\ Len(lines) = last /\ lines[last] = RoundingLine(net)
        /\ \A i \in DOMAIN asked : lines[i] = asked[i] /\ i # last
        /\ DOMAIN lines = DOMAIN asked \cup {last} /\ last \in DOMAIN lines /\ last \notin DOMAIN asked
    <2>1. /\ Len(lines) = last /\ lines[last] = RoundingLine(net)
          /\ \A i \in 1..Len(asked) : lines[i] = asked[i]
      BY <1>7
    <2>2. QED
      BY <1>1, <2>1
  <1>9. net \in Int
    <2>1. PICK g, h : /\ g = [i \in DOMAIN asked |-> ToBase(asked[i].debit, asked[i])]
                      /\ h = [i \in DOMAIN asked |-> ToBase(asked[i].credit, asked[i])]
      OBVIOUS
    <2>2. g \in [DOMAIN asked -> Int] /\ h \in [DOMAIN asked -> Int]
      BY <1>2, <1>8, <2>1
    <2>3. Total(g) \in Int /\ Total(h) \in Int
      BY <1>1, <2>2, TotalType
    <2>4. QED
      BY <1>6, <2>1, <2>3 DEF BaseNet, BaseDebits, BaseCredits
  <1>10. NetOn(RoundingAccount, lines) = -net
    <2>1. \A i \in DOMAIN lines \ {last} : f[i] = 0
      BY <1>4, <1>8
    <2>2. Total(f) = f[last]
      BY <1>1, <1>4, <1>8, <2>1, TotalOne
    <2>3. Moves(last) = -net
      BY <1>8, <1>9, RoundingLineIs DEF Moves
    <2>4. f[last] = -net
      BY <1>3, <1>8, <1>9, <2>3, RoundingLineIs
    <2>5. QED
      BY <1>4, <2>2, <2>4
  <1>11. Converted(lines) = Converted(asked)
    <2>1. ~IsForeign(lines[last])
      BY <1>8, <1>9, RoundingLineIs
    <2>2. \A i \in DOMAIN lines : i = last \/ i \in DOMAIN asked
      BY <1>8
    <2>3. \A i \in DOMAIN asked : i \in DOMAIN lines /\ lines[i] = asked[i]
      BY <1>8
    <2> HIDE DEF last
    <2>4. QED
      BY <2>1, <2>2, <2>3 DEF Converted
  <1>12. Abs(NetOn(RoundingAccount, lines)) * 2 <= Cardinality(Converted(lines))
    <2>1. Abs(-net) = Abs(net)
      BY <1>9 DEF Abs
    <2>2. QED
      BY <1>7, <1>10, <1>11, <2>1
  <1>13. ASSUME NEW c \in Foreign PROVE NetIn(c, lines) = 0
    <2>1. PICK g, h :
            /\ g = [i \in DOMAIN lines |-> IF lines[i].currency = c
                                           THEN lines[i].debit - lines[i].credit ELSE 0]
            /\ h = [i \in DOMAIN asked |-> IF asked[i].currency = c
                                           THEN asked[i].debit - asked[i].credit ELSE 0]
      OBVIOUS
    <2>2. g \in [DOMAIN lines -> Int] /\ g[last] = 0
      <3>1. \A i \in DOMAIN lines : lines[i].debit - lines[i].credit \in Int
        BY <1>2
      <3>2. lines[last].currency # c
        BY <1>8, <1>9, RoundingLineIs, CurrenciesAssumption
      <3>3. QED
        BY <1>8, <2>1, <3>1, <3>2
    <2>3. h = [i \in DOMAIN asked |-> g[i]]
      BY <1>8, <2>1
    <2>4. Total(g) = Total([i \in DOMAIN asked |-> g[i]])
      BY <1>1, <1>8, <2>2, TotalSupport
    <2>5. NetIn(c, asked) = 0
      BY <1>7 DEF Currencies
    <2>6. QED
      BY <2>1, <2>3, <2>4, <2>5 DEF NetIn
  <1>14. QED
    BY <1>12, <1>13

\* A bank transaction's lines are those that were asked for, with what their
\* conversion left over absorbed.
AskedAndRounded ==
  \A n \in DOMAIN journal :
    journal[n].source = "bank_transaction" =>
      \E asked \in Postings : journal[n].lines = WithFxRoundingLine(asked)

LEMMA AskedAndRoundedPreserved ==
  ASSUME TypeOK, AskedAndRounded, [Next]_vars
  PROVE  AskedAndRounded'
  <1>0. journal \in Seq(Entry)
    BY DEF TypeOK
  <1>1. ASSUME NEW d \in Dates, NEW lines \in Postings, NEW override \in BOOLEAN,
               PostAdjustment(d, lines, override)
        PROVE  AskedAndRounded'
    <2>1. lines \in Seq(AskedLine) /\ "manual_adjustment" \in Sources /\ NoRef \in Refs
      BY PostingsAssumption, ConfigurationAssumption
    <2>2. PICK e : Posts(e) /\ e.source = "manual_adjustment"
      BY <1>1, <2>1, PostJournalEntryPosts DEF PostAdjustment
    <2>3. QED
      BY <1>0, <2>2, PostsEntries DEF AskedAndRounded
  <1>2. ASSUME NEW d \in Dates, NEW lines \in Postings, PostConverted(d, lines)
        PROVE  AskedAndRounded'
    <2>1. WithFxRoundingLine(lines) \in Seq(AskedLine) /\ "bank_transaction" \in Sources
          /\ NoRef \in Refs
      BY PostingsAssumption, ConfigurationAssumption
    <2>2. PICK rounded \in Seq(AskedLine) : rounded = WithFxRoundingLine(lines)
      BY <2>1
    <2>3. PostJournalEntry(d, "bank_transaction", NoRef, rounded, FALSE)
      BY <1>2, <2>2 DEF PostConverted
    <2>4. \E e : Posts(e) /\ e.lines = rounded
      <3>1. PICK override \in BOOLEAN : override = FALSE
        OBVIOUS
      <3>2. PICK source \in Sources : source = "bank_transaction"
        BY <2>1
      <3>3. PICK ref \in Refs : ref = NoRef
        BY <2>1
      <3>4. PostJournalEntry(d, source, ref, rounded, override)
        BY <2>3, <3>1, <3>2, <3>3
      <3>5. QED
        BY <3>4, PostJournalEntryPosts
    <2>5. QED
      BY <1>0, <2>2, <2>4, PostsEntries DEF AskedAndRounded
  <1>3. ASSUME NEW n \in DOMAIN journal, NEW d \in Dates, ReverseEntry(n, d)
        PROVE  AskedAndRounded'
    <2>1. PICK e : Reverses(n, e) /\ e.source = "reversal"
      BY <1>3, ReverseJournalEntryReverses DEF ReverseEntry
    <2>2. /\ DOMAIN journal = 1..Len(journal) /\ DOMAIN journal' = 1..(Len(journal) + 1)
          /\ Len(journal) \in Nat
      BY <2>1, ReversesEntries
    <2>3. /\ \A m \in 1..Len(journal) : /\ journal'[m].source = journal[m].source
                                        /\ journal'[m].lines = journal[m].lines
          /\ journal'[Len(journal) + 1].source = "reversal"
      BY <2>1, ReversesFields
    <2>4. QED
      BY <2>2, <2>3 DEF AskedAndRounded
  <1>4. CASE UNCHANGED journal
    BY <1>4 DEF AskedAndRounded
  <1>5. CASE ConfigurationStep
    BY <1>4, <1>5 DEF ConfigurationStep, ArchiveAccount, RestoreAccount,
                      GenerateFinancialYear, SetYearStatus
  <1>6. CASE PostingStep
    BY <1>1, <1>2, <1>6 DEF PostingStep
  <1>7. CASE ReversingStep
    BY <1>3, <1>7 DEF ReversingStep
  <1>8. CASE UNCHANGED vars
    BY <1>4, <1>8 DEF vars
  <1>9. QED
    BY <1>5, <1>6, <1>7, <1>8 DEF Next

\* What is posted of a document or a bank transaction leaves the rounding
\* account to the engine.
LeaveRoundingToTheEngine ==
  \A asked \in Postings : \A i \in DOMAIN asked : asked[i].account # RoundingAccount

(* Whatever is converted, and at whatever rates, what it leaves on the rounding
   account is no more than half a unit for each line converted, and never an
   imbalance in a currency of its own. *)
THEOREM RoundingHidesNoImbalance ==
  ASSUME LeaveRoundingToTheEngine
  PROVE  Spec => []RoundingNeverHidesAnImbalance
  <1>1. Init => AskedAndRounded
    BY DEF Init, AskedAndRounded
  <1>2. TypeOK /\ AskedAndRounded /\ [Next]_vars => AskedAndRounded'
    BY AskedAndRoundedPreserved
  <1>3. ASSUME JournalInv, AskedAndRounded PROVE RoundingNeverHidesAnImbalance
    <2>1. SUFFICES ASSUME NEW n \in DOMAIN journal, journal[n].source = "bank_transaction",
                          NetOn(RoundingAccount, journal[n].lines) # 0
                   PROVE  /\ Abs(NetOn(RoundingAccount, journal[n].lines)) * 2
                               <= Cardinality(Converted(journal[n].lines))
                          /\ \A c \in Foreign : NetIn(c, journal[n].lines) = 0
      BY DEF RoundingNeverHidesAnImbalance
    <2>2. PICK asked \in Postings : journal[n].lines = WithFxRoundingLine(asked)
      BY <1>3, <2>1 DEF AskedAndRounded
    <2>3. journal[n].lines \in Seq(Line)
      <3>1. journal[n] \in Entry
        BY <1>3 DEF JournalInv, TypeOK
      <3>2. QED
        BY <3>1 DEF Entry
    <2>4. WellFormed(journal[n].lines)
      BY <1>3 DEF JournalInv, EntriesSound
    <2>5. asked \in Seq(AskedLine) /\ \A i \in DOMAIN asked : asked[i].account # RoundingAccount
      BY PostingsAssumption DEF LeaveRoundingToTheEngine
    <2>6. QED
      BY <2>1, <2>2, <2>3, <2>4, <2>5, RoundingIsExplained
  <1>4. JournalInv => TypeOK
    BY DEF JournalInv
  <1>5. QED
    BY <1>1, <1>2, <1>3, <1>4, JournalInvariant, PTL DEF Spec

------------------------------------------------------------------------------
(* The journal implements the append-only ledger. *)

\* What the ledger sees of a list of entries.
ContentsOf(book) == [n \in DOMAIN book |-> Contents(book[n])]
TakenBackOf(book) == [n \in DOMAIN book |-> book[n].reversedBy]

(* Both views of a list of entries are lists of the same length. *)
LEMMA Views ==
  ASSUME NEW book \in Seq(Entry)
  PROVE  /\ DOMAIN ContentsOf(book) = 1..Len(book) /\ DOMAIN TakenBackOf(book) = 1..Len(book)
         /\ Len(ContentsOf(book)) = Len(book) /\ Len(TakenBackOf(book)) = Len(book)
         /\ \A n \in 1..Len(book) :
              /\ ContentsOf(book)[n] = Contents(book[n])
              /\ TakenBackOf(book)[n] = book[n].reversedBy
  <1>1. DOMAIN book = 1..Len(book) /\ Len(book) \in Nat
    OBVIOUS
  <1>2. DOMAIN ContentsOf(book) = 1..Len(book) /\ DOMAIN TakenBackOf(book) = 1..Len(book)
    BY <1>1 DEF ContentsOf, TakenBackOf
  <1>3. Len(ContentsOf(book)) = Len(book) /\ Len(TakenBackOf(book)) = Len(book)
    BY <1>1, <1>2
  <1>4. QED
    BY <1>1, <1>2, <1>3 DEF ContentsOf, TakenBackOf

\* Every entry keeps its contents, and a link once written.
KeepsEntries ==
  /\ Len(journal) \in Nat /\ Len(journal') \in Nat /\ Len(journal) <= Len(journal')
  /\ \A m \in 1..Len(journal) :
       /\ journal'[m].date = journal[m].date
       /\ journal'[m].lines = journal[m].lines
       /\ \/ journal'[m].reversedBy = journal[m].reversedBy
          \/ /\ journal[m].reversedBy = 0
             /\ journal'[m].reversedBy > Len(journal)

\* The link of an entry names the later entry that takes it back.
BackLinked ==
  \A n \in DOMAIN journal : journal[n].reversedBy # 0 =>
    /\ journal[n].reversedBy \in (n + 1)..Len(journal)
    /\ journal[journal[n].reversedBy].reversalOf = n
    /\ journal[journal[n].reversedBy].lines = Swapped(journal[n].lines)

(* The links of an entry after a step, compared with those before it. *)
LEMMA LinkStep ==
  ASSUME TypeOK, EngineStep
  PROVE  KeepsEntries
  <1>1. ASSUME NEW e, Posts(e) PROVE KeepsEntries
    <2>1. /\ Len(journal) \in Nat /\ Len(journal') = Len(journal) + 1
          /\ \A m \in 1..Len(journal) : journal'[m] = journal[m]
      BY <1>1, PostsEntries
    <2>2. QED
      BY <2>1 DEF KeepsEntries
  <1>2. ASSUME NEW n, NEW e, Reverses(n, e) PROVE KeepsEntries
    <2>1. Len(journal) \in Nat /\ Len(journal') = Len(journal) + 1
      BY <1>2, ReversesEntries
    <2>2. /\ \A m \in 1..Len(journal) :
               /\ journal'[m].date = journal[m].date
               /\ journal'[m].lines = journal[m].lines
               /\ m # n => journal'[m].reversedBy = journal[m].reversedBy
          /\ journal'[n].reversedBy = Len(journal) + 1
      BY <1>2, ReversesFields
    <2>3. journal[n].reversedBy = 0
      BY <1>2 DEF Reverses
    <2>4. QED
      BY <2>1, <2>2, <2>3 DEF KeepsEntries
  <1>3. ASSUME UNCHANGED journal PROVE KeepsEntries
    BY <1>3 DEF TypeOK, KeepsEntries
  <1>4. QED
    BY <1>1, <1>2, <1>3 DEF EngineStep

(* One transaction of the journal is one transaction of the ledger. *)
LEMMA LedgerStep ==
  ASSUME TypeOK, TypeOK', BackLinked', KeepsEntries
  PROVE  Ledger!Commit
  <1> DEFINE E == ContentsOf(journal)
             EE == ContentsOf(journal')
             T == TakenBackOf(journal)
             TT == TakenBackOf(journal')
  <1>1. journal \in Seq(Entry) /\ journal' \in Seq(Entry)
    BY DEF TypeOK
  <1>2. /\ DOMAIN E = 1..Len(journal) /\ DOMAIN T = 1..Len(journal)
        /\ Len(E) = Len(journal) /\ Len(T) = Len(journal)
        /\ \A n \in 1..Len(journal) :
             E[n] = Contents(journal[n]) /\ T[n] = journal[n].reversedBy
    BY <1>1, Views
  <1>3. /\ DOMAIN EE = 1..Len(journal') /\ DOMAIN TT = 1..Len(journal')
        /\ Len(EE) = Len(journal') /\ Len(TT) = Len(journal')
        /\ \A n \in 1..Len(journal') :
             EE[n] = Contents(journal'[n]) /\ TT[n] = journal'[n].reversedBy
    BY <1>1, Views
  <1> HIDE DEF E, EE, T, TT
  <1>4. /\ Len(journal) \in Nat /\ Len(journal') \in Nat /\ Len(journal) <= Len(journal')
        /\ \A m \in 1..Len(journal) :
             /\ journal'[m].date = journal[m].date
             /\ journal'[m].lines = journal[m].lines
             /\ \/ journal'[m].reversedBy = journal[m].reversedBy
                \/ /\ journal[m].reversedBy = 0
                   /\ journal'[m].reversedBy > Len(journal)
    BY DEF KeepsEntries
  <1>5. /\ \A n \in 1..Len(journal') : journal'[n].reversedBy # 0 =>
             /\ journal'[n].reversedBy \in (n + 1)..Len(journal')
             /\ journal'[n].reversedBy \in 1..Len(journal')
             /\ journal'[journal'[n].reversedBy].lines = Swapped(journal'[n].lines)
        /\ \A m, n \in 1..Len(journal') :
             journal'[m].reversedBy # 0 /\ journal'[m].reversedBy = journal'[n].reversedBy
               => m = n
    <2>1. DOMAIN journal' = 1..Len(journal')
      BY <1>1
    <2>2. \A n \in 1..Len(journal') : journal'[n].reversedBy # 0 =>
            /\ journal'[n].reversedBy \in (n + 1)..Len(journal')
            /\ journal'[journal'[n].reversedBy].reversalOf = n
            /\ journal'[journal'[n].reversedBy].lines = Swapped(journal'[n].lines)
      BY <2>1 DEF BackLinked
    <2>3. \A n \in 1..Len(journal') : \A k \in (n + 1)..Len(journal') : k \in 1..Len(journal')
      BY <1>4
    <2>4. \A m, n \in 1..Len(journal') :
            journal'[m].reversedBy # 0 /\ journal'[m].reversedBy = journal'[n].reversedBy
              => m = n
      <3> SUFFICES ASSUME NEW m \in 1..Len(journal'), NEW n \in 1..Len(journal'),
                          journal'[m].reversedBy # 0,
                          journal'[m].reversedBy = journal'[n].reversedBy
                   PROVE  m = n
        OBVIOUS
      <3>1. journal'[journal'[m].reversedBy].reversalOf = m
        BY <2>2, Zenon
      <3>2. journal'[journal'[n].reversedBy].reversalOf = n
        BY <2>2, Zenon
      <3>3. QED
        BY <3>1, <3>2, Zenon
    <2>5. QED
      BY <2>2, <2>3, <2>4, Zenon
  <1>6. Len(E) <= Len(EE) /\ \A n \in DOMAIN E : EE[n] = E[n]
    BY <1>2, <1>3, <1>4 DEF Contents
  <1>7. /\ Len(TT) = Len(EE)
        /\ \A n \in DOMAIN T :
             IF T[n] # 0 THEN TT[n] = T[n] ELSE TT[n] = 0 \/ TT[n] > Len(E)
    BY <1>2, <1>3, <1>4
  <1>8. \A n \in DOMAIN TT : TT[n] # 0 =>
          TT[n] \in (n + 1)..Len(EE) /\ Undoes(EE[n], EE[TT[n]])
    BY <1>3, <1>5 DEF Undoes, Contents
  <1>9. \A m, n \in DOMAIN TT : TT[m] # 0 /\ TT[m] = TT[n] => m = n
    BY <1>3, <1>5
  <1>10. /\ E = [n \in DOMAIN journal |-> Contents(journal[n])]
         /\ EE = [n \in DOMAIN journal' |-> Contents(journal'[n])]
         /\ T = [n \in DOMAIN journal |-> journal[n].reversedBy]
         /\ TT = [n \in DOMAIN journal' |-> journal'[n].reversedBy]
    BY Zenon DEF E, EE, T, TT, ContentsOf, TakenBackOf
  <1>11. Ledger!KeepEntries
    BY <1>6, <1>10, Zenon DEF Ledger!KeepEntries
  <1>12. Ledger!KeepReversals
    BY <1>7, <1>10, Zenon DEF Ledger!KeepReversals
  <1>13. Ledger!SoundReversals
    BY <1>8, <1>9, <1>10, Zenon DEF Ledger!SoundReversals
  <1>14. QED
    BY <1>11, <1>12, <1>13 DEF Ledger!Commit

(* Posting and reversing through the engine keep every promise of the        *)
(* append-only ledger (AppendOnlyLedger; journal.ts, drizzle/0001 triggers). *)
THEOREM JournalImplementsLedger == Spec => LedgerSpec
  <1>1. Init => Ledger!Init
    BY DEF Init, Ledger!Init
  <1>2. JournalInv /\ JournalInv' /\ [Next]_vars => [Ledger!Commit]_(Ledger!vars)
    <2> SUFFICES ASSUME JournalInv, JournalInv', [Next]_vars PROVE Ledger!Commit
      OBVIOUS
    <2>1. TypeOK /\ TypeOK' /\ BackLinked'
      BY DEF JournalInv, LinksSound, BackLinked
    <2>2. QED
      BY <2>1, NextShape, LinkStep, LedgerStep
  <1>3. QED
    BY <1>1, <1>2, JournalInvariant, PTL DEF Spec, LedgerSpec, Ledger!Spec

------------------------------------------------------------------------------
(* What any step does to the books. *)

\* The entries a step adds: each accepted by the engine, none taken back yet.
NewEntries == (Len(journal) + 1)..Len(journal')

\* A step keeps what is there but for links, and a link it writes names a new
\* entry with the lines exchanged.
BookStep ==
  /\ journal' \in Seq(Entry)
  /\ Len(journal) <= Len(journal')
  /\ \A m \in 1..Len(journal) :
       /\ journal'[m].date = journal[m].date
       /\ journal'[m].source = journal[m].source
       /\ journal'[m].ref = journal[m].ref
       /\ journal'[m].lines = journal[m].lines
       /\ journal'[m].reversalOf = journal[m].reversalOf
       /\ \/ journal'[m].reversedBy = journal[m].reversedBy
          \/ /\ journal[m].reversedBy = 0
             /\ journal'[m].reversedBy \in NewEntries
             /\ journal'[journal'[m].reversedBy].reversalOf = m
             /\ journal'[journal'[m].reversedBy].lines = Swapped(journal[m].lines)
  /\ \A m \in NewEntries :
       /\ journal'[m].reversedBy = 0
       /\ WellFormed(journal'[m].lines) /\ Balanced(journal'[m].lines)

NoOccurrences == \A m \in NewEntries : journal'[m].source # "recurring"

(* A step that leaves the journal alone. *)
LEMMA NothingPosted ==
  ASSUME TypeOK, UNCHANGED journal
  PROVE  BookStep /\ NoOccurrences
  BY DEF TypeOK, BookStep, NoOccurrences, NewEntries

(* postJournalEntry adds one entry, as it was asked for. *)
LEMMA OnePosted ==
  ASSUME TypeOK, NEW d \in Dates, NEW source \in Sources, NEW ref \in Refs,
         NEW lines \in Seq(AskedLine), NEW override \in BOOLEAN,
         PostJournalEntry(d, source, ref, lines, override)
  PROVE  /\ BookStep
         /\ Len(journal') = Len(journal) + 1
         /\ journal'[Len(journal) + 1].source = source
         /\ journal'[Len(journal) + 1].date = d
         /\ overridden' \in SUBSET Nat
  <1>1. PICK y \in YearsCovering(d) :
          journal' = Append(journal, NewEntry(d, y, source, ref, lines))
    BY DEF PostJournalEntry
  <1> DEFINE e == NewEntry(d, y, source, ref, lines)
  <1>2. /\ y \in Years
        /\ Postable(lines)
    BY DEF YearsCovering, Generated, PostJournalEntry
  <1>3. e \in Entry
    <2>1. lines \in Seq(Line)
      BY <1>2, AcceptedLinesType DEF Postable
    <2>2. QED
      BY <1>2, <2>1, NewEntryType
  <1>4. /\ e.date = d /\ e.source = source /\ e.lines = lines /\ e.reversedBy = 0
    BY DEF NewEntry
  <1> HIDE DEF e
  <1>5. journal \in Seq(Entry) /\ journal' = Append(journal, e)
    BY <1>1 DEF TypeOK, e
  <1>6. /\ journal' \in Seq(Entry) /\ Len(journal) \in Nat
        /\ Len(journal') = Len(journal) + 1
        /\ \A m \in 1..Len(journal) : journal'[m] = journal[m]
        /\ journal'[Len(journal) + 1] = e
    BY <1>3, <1>5, AppendProperties
  <1>7. NewEntries = {Len(journal) + 1}
    BY <1>6 DEF NewEntries
  <1>8. WellFormed(e.lines) /\ Balanced(e.lines)
    BY <1>2, <1>4 DEF Postable
  <1>9. BookStep
    BY <1>4, <1>6, <1>7, <1>8 DEF BookStep
  <1>10. overridden' \in SUBSET Nat
    <2>1. Len(journal) + 1 \in Nat
      BY <1>6
    <2>2. QED
      BY <2>1 DEF PostJournalEntry, TypeOK
  <1>11. QED
    BY <1>4, <1>6, <1>9, <1>10

(* reverseJournalEntry adds the opposite of an entry and links the two. *)
LEMMA OneReversed ==
  ASSUME TypeOK, NEW n \in DOMAIN journal, NEW d \in Dates, ReverseJournalEntry(n, d)
  PROVE  BookStep /\ NoOccurrences
  <1> DEFINE lines == Swapped(journal[n].lines)
  <1>1. PICK y \in YearsCovering(d) :
          journal' = Linked(Append(journal, NewEntry(d, y, "reversal", NoRef, lines)), n)
    BY DEF ReverseJournalEntry
  <1> DEFINE e == NewEntry(d, y, "reversal", NoRef, lines)
  <1>2. /\ y \in Years
        /\ Postable(lines) /\ journal[n].reversedBy = 0
    BY DEF YearsCovering, Generated, ReverseJournalEntry
  <1>3. journal \in Seq(Entry) /\ journal[n] \in Entry /\ Len(journal) \in Nat
        /\ n \in 1..Len(journal)
    BY DEF TypeOK
  <1>4. lines \in Seq(Line)
    BY <1>3, SwappedType DEF Entry
  <1> HIDE DEF lines
  <1>5. e \in Entry
    BY <1>2, <1>4, NewEntryType, ConfigurationAssumption
  <1>6. e.source = "reversal" /\ e.lines = lines /\ e.reversedBy = 0
    BY DEF NewEntry
  <1> HIDE DEF e
  <1> DEFINE last == Len(journal) + 1
  <1>7. /\ journal' \in Seq(Entry)
        /\ Len(journal') = last
        /\ journal'[last] = [e EXCEPT !.reversalOf = n]
        /\ journal'[n] = [journal[n] EXCEPT !.reversedBy = last]
        /\ \A m \in 1..Len(journal) : m # n => journal'[m] = journal[m]
    <2>1. journal' = Linked(Append(journal, e), n)
      BY <1>1 DEF e
    <2>2. QED
      BY <1>3, <1>5, <2>1, LinkedEntries
  <1>8. /\ journal'[last].source = "reversal" /\ journal'[last].lines = lines
        /\ journal'[last].reversalOf = n /\ journal'[last].reversedBy = 0
    BY <1>3, <1>5, <1>6, <1>7 DEF Entry
  <1>9. /\ journal'[n].date = journal[n].date /\ journal'[n].source = journal[n].source
        /\ journal'[n].ref = journal[n].ref /\ journal'[n].lines = journal[n].lines
        /\ journal'[n].reversalOf = journal[n].reversalOf /\ journal'[n].reversedBy = last
    BY <1>3, <1>7 DEF Entry
  <1>10. NewEntries = {last}
    BY <1>3, <1>7 DEF NewEntries
  <1>11. WellFormed(lines) /\ Balanced(lines)
    BY <1>2 DEF Postable
  <1>12. Len(journal) <= Len(journal')
    BY <1>3, <1>7
  <1> HIDE DEF last
  <1>13. BookStep
    <2>1. ASSUME NEW m \in 1..Len(journal)
          PROVE  /\ journal'[m].date = journal[m].date
                 /\ journal'[m].source = journal[m].source
                 /\ journal'[m].ref = journal[m].ref
                 /\ journal'[m].lines = journal[m].lines
                 /\ journal'[m].reversalOf = journal[m].reversalOf
                 /\ \/ journal'[m].reversedBy = journal[m].reversedBy
                    \/ /\ journal[m].reversedBy = 0
                       /\ journal'[m].reversedBy \in NewEntries
                       /\ journal'[journal'[m].reversedBy].reversalOf = m
                       /\ journal'[journal'[m].reversedBy].lines = Swapped(journal[m].lines)
      <3>1. CASE m = n
        BY <1>2, <1>8, <1>9, <1>10, <3>1 DEF lines
      <3>2. CASE m # n
        BY <1>7, <3>2
      <3>3. QED
        BY <3>1, <3>2
    <2>2. QED
      BY <1>7, <1>8, <1>10, <1>11, <1>12, <2>1, Zenon DEF BookStep
  <1>14. NoOccurrences
    BY <1>8, <1>10 DEF NoOccurrences
  <1>15. QED
    BY <1>13, <1>14

(* A sequence, from the function it is. *)
LEMMA SeqOfFunction ==
  ASSUME NEW S, NEW n \in Nat, NEW f \in [1..n -> S]
  PROVE  f \in Seq(S) /\ Len(f) = n /\ DOMAIN f = 1..n
  OBVIOUS

(* A batch holds each member of a finite set, once. *)
LEMMA BatchShape ==
  ASSUME NEW S, IsFiniteSet(S), NEW batch,
         batch \in [1..Cardinality(S) -> S],
         \A i, j \in DOMAIN batch : i < j => batch[i] # batch[j]
  PROVE  /\ Len(batch) \in Nat /\ DOMAIN batch = 1..Len(batch)
         /\ \A i \in 1..Len(batch) : batch[i] \in S
         /\ \A i, j \in 1..Len(batch) : batch[i] = batch[j] => i = j
         /\ \A x \in S : \E i \in 1..Len(batch) : batch[i] = x
  <1>1. Cardinality(S) \in Nat
    BY FS_CardinalityType
  <1>2. /\ Len(batch) = Cardinality(S) /\ DOMAIN batch = 1..Cardinality(S)
    BY <1>1, SeqOfFunction
  <1>3. ASSUME NEW i \in 1..Len(batch), NEW j \in 1..Len(batch), batch[i] = batch[j]
        PROVE  i = j
    <2>1. ~(i < j) /\ ~(j < i)
      BY <1>2, <1>3
    <2>2. QED
      BY <1>1, <1>2, <2>1
  <1> DEFINE D == 1..Cardinality(S)
  <1>4. IsFiniteSet(D) /\ Cardinality(D) = Cardinality(S)
    BY <1>1, FS_Interval
  <1>5. batch \in Injection(D, S)
    BY <1>2, <1>3 DEF Injection, IsInjective
  <1> HIDE DEF D
  <1>6. batch \in Surjection(D, S)
    BY <1>4, <1>5, FS_Injection
  <1>7. \A x \in S : \E i \in D : batch[i] = x
    BY <1>6 DEF Surjection
  <1>8. QED
    BY <1>1, <1>2, <1>3, <1>7 DEF D

(* postDueTimingReversals adds the opposite of every adjustment it takes, and *)
(* links the two; nothing that is due and can be taken off is left.           *)
LEMMA BatchReversed ==
  ASSUME TypeOK, TimingTypeOK, IsFiniteSet(timing), NEW upTo \in Dates,
         PostDueTimingReversals(upTo)
  PROVE  /\ BookStep /\ NoOccurrences
         /\ \A t \in Reversible(upTo) : journal'[t.entry].reversedBy # 0
         /\ \A n \in NewEntries : \E t \in DueOff(upTo) : /\ t.entry = journal'[n].reversalOf
                                                          /\ t.due = journal'[n].date
  <1> DEFINE S == Reversible(upTo)
  <1>1. PICK batch :
          /\ batch \in [1..Cardinality(S) -> S]
          /\ \A i, j \in DOMAIN batch : i < j => batch[i] # batch[j]
          /\ \A i \in DOMAIN batch : Postable(Swapped(journal[batch[i].entry].lines))
          /\ journal' = WithReversals(batch)
    BY DEF PostDueTimingReversals, Orderings
  <1>2. S \subseteq timing /\ IsFiniteSet(S)
    BY FS_Subset DEF Reversible, DueOff
  <1>3. /\ Len(batch) \in Nat /\ DOMAIN batch = 1..Len(batch)
        /\ \A i \in 1..Len(batch) : batch[i] \in S
        /\ \A i, j \in 1..Len(batch) : batch[i] = batch[j] => i = j
        /\ \A x \in S : \E i \in 1..Len(batch) : batch[i] = x
    <2> HIDE DEF S
    <2>1. QED
      BY <1>1, <1>2, BatchShape
  <1>4. ASSUME NEW i \in 1..Len(batch)
        PROVE  /\ batch[i].entry \in 1..Len(journal) /\ batch[i].due \in Dates
               /\ journal[batch[i].entry] \in Entry
               /\ journal[batch[i].entry].reversedBy = 0
               /\ PeriodOpen(batch[i].due)
    BY <1>2, <1>3 DEF TypeOK, TimingTypeOK, Adjustment, Reversible, DueOff
  <1>5. /\ journal \in Seq(Entry) /\ Len(journal) \in Nat
        /\ Len(journal) + Len(batch) \in Nat
    BY <1>3 DEF TypeOK
  <1> HIDE DEF S
  <1>6. ASSUME NEW i \in 1..Len(batch)
        PROVE  /\ ReversalEntry(batch[i]) \in Entry
               /\ ReversalEntry(batch[i]).date = batch[i].due
               /\ ReversalEntry(batch[i]).source = "reversal"
               /\ ReversalEntry(batch[i]).reversedBy = 0
               /\ ReversalEntry(batch[i]).reversalOf = batch[i].entry
               /\ ReversalEntry(batch[i]).lines = Swapped(journal[batch[i].entry].lines)
    <2> DEFINE t == batch[i]
               y == OpenYear(t.due)
               e == NewEntry(t.due, y, "reversal", NoRef, Swapped(journal[t.entry].lines))
    <2>1. y \in Years
      BY <1>4 DEF PeriodOpen, OpenYear, YearsCovering, Generated
    <2>2. Swapped(journal[t.entry].lines) \in Seq(Line)
      BY <1>4, SwappedType DEF Entry
    <2>3. t.due \in Dates /\ t.entry \in Nat
      BY <1>4
    <2> HIDE DEF t, y
    <2>4. e \in Entry
      BY <2>1, <2>2, <2>3, NewEntryType, ConfigurationAssumption
    <2>5. /\ e.date = t.due /\ e.source = "reversal" /\ e.reversedBy = 0
          /\ e.lines = Swapped(journal[t.entry].lines)
      BY DEF NewEntry
    <2> HIDE DEF e
    <2>6. ReversalEntry(t) = [e EXCEPT !.reversalOf = t.entry]
      BY DEF ReversalEntry, e, y
    <2>7. /\ ReversalEntry(t) \in Entry /\ ReversalEntry(t).date = t.due
          /\ ReversalEntry(t).source = "reversal" /\ ReversalEntry(t).reversedBy = 0
          /\ ReversalEntry(t).reversalOf = t.entry
          /\ ReversalEntry(t).lines = Swapped(journal[t.entry].lines)
      BY <2>3, <2>4, <2>5, <2>6 DEF Entry
    <2>8. QED
      BY <2>7 DEF t
  <1> DEFINE at(m) == {i \in 1..Len(batch) : batch[i].entry = m}
             link(m) == CHOOSE i \in at(m) : TRUE
  <1>7. journal' = [n \in 1..(Len(journal) + Len(batch)) |->
           IF n > Len(journal) THEN ReversalEntry(batch[n - Len(journal)])
           ELSE IF at(n) = {} THEN journal[n]
                ELSE [journal[n] EXCEPT !.reversedBy = Len(journal) + link(n)]]
    BY <1>1, <1>3 DEF WithReversals
  <1>8. ASSUME NEW m \in 1..Len(journal), at(m) # {}
        PROVE  /\ link(m) \in 1..Len(batch)
               /\ batch[link(m)].entry = m
    BY <1>8
  <1>9. ASSUME NEW n \in (Len(journal) + 1)..(Len(journal) + Len(batch))
        PROVE  /\ n - Len(journal) \in 1..Len(batch)
               /\ journal'[n] = ReversalEntry(batch[n - Len(journal)])
    BY <1>3, <1>5, <1>7
  <1>10. ASSUME NEW m \in 1..Len(journal)
         PROVE  /\ at(m) = {} => journal'[m] = journal[m]
                /\ at(m) # {} =>
                     journal'[m] = [journal[m] EXCEPT !.reversedBy = Len(journal) + link(m)]
    BY <1>3, <1>5, <1>7
  <1> HIDE DEF link, at
  <1>11. ASSUME NEW m \in 1..Len(journal), at(m) # {}
         PROVE  /\ Len(journal) + link(m) \in
                     (Len(journal) + 1)..(Len(journal) + Len(batch))
                /\ (Len(journal) + link(m)) - Len(journal) = link(m)
                /\ Len(journal) + link(m) \in Nat
    BY <1>3, <1>5, <1>8, <1>11
  <1>12. /\ journal' \in Seq(Entry)
         /\ Len(journal') = Len(journal) + Len(batch)
    <2>1. journal' \in [1..(Len(journal) + Len(batch)) -> Entry]
      <3>1. ASSUME NEW n \in 1..(Len(journal) + Len(batch)) PROVE journal'[n] \in Entry
        <4>1. CASE n \in 1..Len(journal)
          <5>1. journal[n] \in Entry
            BY <1>5, <4>1
          <5>2. CASE at(n) = {}
            BY <1>10, <4>1, <5>1, <5>2
          <5>3. CASE at(n) # {}
            BY <1>10, <1>11, <4>1, <5>1, <5>3 DEF Entry
          <5>4. QED
            BY <5>2, <5>3
        <4>2. CASE n \in (Len(journal) + 1)..(Len(journal) + Len(batch))
          BY <1>6, <1>9, <4>2
        <4>3. QED
          BY <1>3, <1>5, <4>1, <4>2
      <3>2. QED
        BY <1>7, <3>1
    <2>2. QED
      BY <1>5, <2>1, SeqOfFunction
  <1>13. NewEntries = (Len(journal) + 1)..(Len(journal) + Len(batch))
    BY <1>12 DEF NewEntries
  <1>14. ASSUME NEW n \in NewEntries
         PROVE  /\ journal'[n].source = "reversal" /\ journal'[n].reversedBy = 0
                /\ WellFormed(journal'[n].lines) /\ Balanced(journal'[n].lines)
    <2>1. /\ n - Len(journal) \in 1..Len(batch)
          /\ journal'[n] = ReversalEntry(batch[n - Len(journal)])
      BY <1>9, <1>13
    <2>2. Postable(Swapped(journal[batch[n - Len(journal)].entry].lines))
      BY <1>1, <1>3, <2>1
    <2>3. QED
      BY <1>6, <2>1, <2>2 DEF Postable
  <1>15. ASSUME NEW m \in 1..Len(journal)
         PROVE  /\ journal'[m].date = journal[m].date
                /\ journal'[m].source = journal[m].source
                /\ journal'[m].ref = journal[m].ref
                /\ journal'[m].lines = journal[m].lines
                /\ journal'[m].reversalOf = journal[m].reversalOf
                /\ \/ journal'[m].reversedBy = journal[m].reversedBy
                   \/ /\ journal[m].reversedBy = 0
                      /\ journal'[m].reversedBy \in NewEntries
                      /\ journal'[journal'[m].reversedBy].reversalOf = m
                      /\ journal'[journal'[m].reversedBy].lines = Swapped(journal[m].lines)
    <2>1. CASE at(m) = {}
      BY <1>10, <2>1
    <2>2. CASE at(m) # {}
      <3> DEFINE k == Len(journal) + link(m)
      <3>1. /\ k \in NewEntries /\ k - Len(journal) = link(m)
            /\ journal'[k] = ReversalEntry(batch[link(m)])
        BY <1>9, <1>11, <1>13, <2>2
      <3>2. /\ link(m) \in 1..Len(batch) /\ batch[link(m)].entry = m
        BY <1>8, <2>2
      <3>3. journal'[k].reversalOf = m /\ journal'[k].lines = Swapped(journal[m].lines)
        BY <1>6, <3>1, <3>2
      <3>4. journal[m] \in Entry /\ journal[m].reversedBy = 0
        BY <1>4, <3>2
      <3>5. journal'[m] = [journal[m] EXCEPT !.reversedBy = k]
        BY <1>10, <2>2
      <3> HIDE DEF k
      <3>6. /\ journal'[m].date = journal[m].date /\ journal'[m].source = journal[m].source
            /\ journal'[m].ref = journal[m].ref /\ journal'[m].lines = journal[m].lines
            /\ journal'[m].reversalOf = journal[m].reversalOf /\ journal'[m].reversedBy = k
        BY <3>4, <3>5 DEF Entry
      <3>7. QED
        BY <3>1, <3>3, <3>4, <3>6
    <2>3. QED
      BY <2>1, <2>2
  <1>16. Len(journal) <= Len(journal')
    BY <1>3, <1>5, <1>12
  <1>17. BookStep
    BY <1>12, <1>14, <1>15, <1>16, Zenon DEF BookStep
  <1>18. NoOccurrences
    BY <1>14 DEF NoOccurrences
  <1>19. ASSUME NEW t \in Reversible(upTo) PROVE journal'[t.entry].reversedBy # 0
    <2>1. PICK i \in 1..Len(batch) : batch[i] = t
      BY <1>3 DEF S
    <2>2. t.entry \in 1..Len(journal) /\ journal[t.entry] \in Entry /\ i \in at(t.entry)
      BY <1>4, <2>1 DEF at
    <2>3. journal'[t.entry] = [journal[t.entry] EXCEPT !.reversedBy = Len(journal) + link(t.entry)]
      BY <1>10, <2>2
    <2>4. Len(journal) + link(t.entry) # 0
      BY <1>5, <1>8, <2>2
    <2>5. QED
      BY <2>2, <2>3, <2>4 DEF Entry
  <1>20. ASSUME NEW n \in NewEntries
         PROVE  \E t \in DueOff(upTo) : t.entry = journal'[n].reversalOf /\ t.due = journal'[n].date
    <2> DEFINE i == n - Len(journal)
    <2>1. i \in 1..Len(batch) /\ journal'[n] = ReversalEntry(batch[i])
      BY <1>9, <1>13
    <2> HIDE DEF i
    <2>2. /\ batch[i] \in DueOff(upTo)
          /\ batch[i].entry = journal'[n].reversalOf /\ batch[i].due = journal'[n].date
      BY <1>3, <1>6, <2>1 DEF S, Reversible
    <2>3. QED
      BY <2>2
  <1>21. QED
    BY <1>17, <1>18, <1>19, <1>20

(* A run has only so many occurrences to post. *)
LEMMA DueOccurrencesFinite ==
  ASSUME NEW upTo \in Dates
  PROVE  IsFiniteSet(DueOccurrences(upTo))
  <1> DEFINE O == DueOccurrences(upTo)
             P == Templates \X (0..upTo)
             f == [o \in O |-> <<o.template, o.date>>]
  <1>1. upTo \in Nat
    BY ConfigurationAssumption
  <1>2. IsFiniteSet(P)
    <2>1. IsFiniteSet(0..upTo)
      BY <1>1, FS_Interval
    <2>2. IsFiniteSet(Templates)
      BY RecurringAssumption
    <2>3. QED
      BY <2>1, <2>2, FS_Product, Zenon
  <1>3. ASSUME NEW o \in O
        PROVE  o \in [template : Templates, date : Dates] /\ o.date \in 0..upTo
    <2>1. o \in [template : Templates, date : Dates] /\ o.date <= upTo
      BY DEF DueOccurrences, DueOccurrenceDates
    <2>2. o.date \in Nat
      BY <2>1, ConfigurationAssumption
    <2>3. QED
      BY <1>1, <2>1, <2>2
  <1>4. f \in [O -> P]
    BY <1>3
  <1>5. \A o, q \in O : f[o] = f[q] => o = q
    BY <1>3
  <1> HIDE DEF O, P, f
  <1>6. f \in Injection(O, P)
    BY <1>4, <1>5 DEF Injection, IsInjective
  <1>7. QED
    BY <1>2, <1>6, FS_Injection DEF O

(* postDueRecurringJournals adds an entry for each occurrence that is due and *)
(* has none, and nothing else.                                                *)
LEMMA BatchPosted ==
  ASSUME TypeOK, RecurringTypeOK, OccurrencePostedOnce, NEW upTo \in Dates,
         PostDueRecurringJournals(upTo)
  PROVE  /\ BookStep /\ OccurrencePostedOnce'
         /\ \A o \in DueOccurrences(upTo) : \E n \in NewEntries :
              /\ journal'[n].source = "recurring"
              /\ journal'[n].ref = TemplateRefs[o.template]
              /\ journal'[n].date = o.date
  <1> DEFINE S == DueOccurrences(upTo)
  <1>1. PICK batch :
          /\ batch \in [1..Cardinality(S) -> S]
          /\ \A i, j \in DOMAIN batch : i < j => batch[i] # batch[j]
          /\ \A i \in DOMAIN batch : Postable(templates[batch[i].template].lines)
          /\ journal' = journal \o [i \in DOMAIN batch |-> OccurrenceEntry(batch[i])]
    BY DEF PostDueRecurringJournals, Orderings
  <1>2. /\ Len(batch) \in Nat /\ DOMAIN batch = 1..Len(batch)
        /\ \A i \in 1..Len(batch) : batch[i] \in S
        /\ \A i, j \in 1..Len(batch) : batch[i] = batch[j] => i = j
        /\ \A x \in S : \E i \in 1..Len(batch) : batch[i] = x
    <2>1. IsFiniteSet(S)
      BY DueOccurrencesFinite
    <2> HIDE DEF S
    <2>2. QED
      BY <1>1, <2>1, BatchShape
  <1>3. ASSUME NEW i \in 1..Len(batch)
        PROVE  /\ batch[i] \in [template : Templates, date : Dates]
               /\ Made(batch[i].template)
               /\ PeriodOpen(batch[i].date)
               /\ batch[i].date \notin AlreadyPosted(batch[i].template)
    BY <1>2 DEF DueOccurrences
  <1> HIDE DEF S
  <1>4. ASSUME NEW i \in 1..Len(batch)
        PROVE  /\ OccurrenceEntry(batch[i]) \in Entry
               /\ OccurrenceEntry(batch[i]).date = batch[i].date
               /\ OccurrenceEntry(batch[i]).source = "recurring"
               /\ OccurrenceEntry(batch[i]).ref = TemplateRefs[batch[i].template]
               /\ OccurrenceEntry(batch[i]).lines = templates[batch[i].template].lines
               /\ OccurrenceEntry(batch[i]).reversedBy = 0
    <2> DEFINE o == batch[i]
    <2>1. o.template \in Templates /\ o.date \in Dates
      BY <1>3
    <2>2. OpenYear(o.date) \in Years
      BY <1>3 DEF PeriodOpen, OpenYear, YearsCovering, Generated
    <2>3. templates[o.template] \in Template
      BY <1>3, <2>1 DEF RecurringTypeOK, Made
    <2>4. templates[o.template].lines \in Seq(Line)
      BY <2>3, RecurringAssumption DEF Template
    <2>5. TemplateRefs[o.template] \in Refs /\ "recurring" \in Sources
      BY <2>1, RecurringAssumption
    <2> HIDE DEF o
    <2>6. OccurrenceEntry(o) \in Entry
      BY <2>1, <2>2, <2>4, <2>5, NewEntryType DEF OccurrenceEntry
    <2>7. QED
      BY <2>6 DEF OccurrenceEntry, NewEntry, o
  <1> DEFINE more == [i \in DOMAIN batch |-> OccurrenceEntry(batch[i])]
  <1>5. /\ more \in Seq(Entry) /\ Len(more) = Len(batch)
        /\ \A i \in 1..Len(batch) : more[i] = OccurrenceEntry(batch[i])
    <2>1. more \in [1..Len(batch) -> Entry]
      BY <1>2, <1>4
    <2>2. \A i \in 1..Len(batch) : more[i] = OccurrenceEntry(batch[i])
      BY <1>2
    <2> HIDE DEF more
    <2>3. QED
      BY <1>2, <2>1, <2>2, SeqOfFunction
  <1>6. journal' = journal \o more
    BY <1>1
  <1> HIDE DEF more
  <1>7. journal \in Seq(Entry) /\ Len(journal) \in Nat
    BY DEF TypeOK
  <1>8. /\ journal' \in Seq(Entry)
        /\ Len(journal') = Len(journal) + Len(batch)
        /\ \A n \in 1..Len(journal) + Len(batch) :
             journal'[n] = IF n <= Len(journal) THEN journal[n] ELSE more[n - Len(journal)]
    <2>1. /\ journal \o more \in Seq(Entry)
          /\ Len(journal \o more) = Len(journal) + Len(more)
          /\ \A n \in 1..Len(journal) + Len(more) :
               (journal \o more)[n] =
                 IF n <= Len(journal) THEN journal[n] ELSE more[n - Len(journal)]
      BY <1>5, <1>7, ConcatProperties
    <2>2. QED
      BY <1>5, <1>6, <2>1
  <1>9. NewEntries = (Len(journal) + 1)..(Len(journal) + Len(batch))
    BY <1>8 DEF NewEntries
  <1>10. \A m \in 1..Len(journal) : journal'[m] = journal[m]
    BY <1>2, <1>7, <1>8
  <1>11. ASSUME NEW n \in NewEntries
         PROVE  /\ n - Len(journal) \in 1..Len(batch)
                /\ journal'[n] = OccurrenceEntry(batch[n - Len(journal)])
    <2>1. n - Len(journal) \in 1..Len(batch) /\ n \in 1..Len(journal) + Len(batch)
          /\ ~(n <= Len(journal))
      BY <1>2, <1>7, <1>9
    <2>2. QED
      BY <1>5, <1>8, <2>1
  <1>12. BookStep
    <2>1. ASSUME NEW n \in NewEntries
          PROVE  /\ journal'[n].reversedBy = 0
                 /\ WellFormed(journal'[n].lines) /\ Balanced(journal'[n].lines)
      <3> DEFINE i == n - Len(journal)
      <3>1. /\ i \in 1..Len(batch)
            /\ journal'[n] = OccurrenceEntry(batch[i])
        BY <1>11
      <3> HIDE DEF i
      <3>2. Postable(templates[batch[i].template].lines)
        BY <1>1, <1>2, <3>1
      <3>3. QED
        BY <1>4, <3>1, <3>2 DEF Postable
    <2>2. Len(journal) <= Len(journal')
      BY <1>2, <1>7, <1>8
    <2>3. QED
      BY <1>8, <1>10, <2>1, <2>2, Zenon DEF BookStep
  <1>13. OccurrencePostedOnce'
    <2> SUFFICES ASSUME NEW m \in DOMAIN journal', NEW n \in DOMAIN journal',
                        journal'[m].source = "recurring", journal'[n].source = "recurring",
                        journal'[m].ref = journal'[n].ref,
                        journal'[m].date = journal'[n].date
                 PROVE  m = n
      BY DEF OccurrencePostedOnce
    <2>1. /\ m \in 1..Len(journal) \/ m \in NewEntries
          /\ n \in 1..Len(journal) \/ n \in NewEntries
      BY <1>2, <1>7, <1>8, <1>9
    <2>2. ASSUME NEW k \in 1..Len(journal), NEW l \in NewEntries,
                 journal'[k].source = "recurring",
                 journal'[k].ref = journal'[l].ref, journal'[k].date = journal'[l].date
          PROVE  FALSE
      <3> DEFINE o == batch[l - Len(journal)]
      <3>1. /\ l - Len(journal) \in 1..Len(batch)
            /\ journal'[l].ref = TemplateRefs[o.template] /\ journal'[l].date = o.date
        BY <1>4, <1>11
      <3>2. o.date \notin AlreadyPosted(o.template)
        BY <1>3, <3>1
      <3> HIDE DEF o
      <3>3. k \in DOMAIN journal /\ journal'[k] = journal[k]
        BY <1>7, <1>10
      <3>4. QED
        BY <2>2, <3>1, <3>2, <3>3 DEF AlreadyPosted
    <2>3. CASE m \in 1..Len(journal) /\ n \in 1..Len(journal)
      <3>1. m \in DOMAIN journal /\ n \in DOMAIN journal
        BY <1>7, <2>3
      <3>2. QED
        BY <1>10, <2>3, <3>1 DEF OccurrencePostedOnce
    <2>4. CASE m \in NewEntries /\ n \in NewEntries
      <3> DEFINE i == m - Len(journal)
                 j == n - Len(journal)
      <3>1. /\ i \in 1..Len(batch) /\ j \in 1..Len(batch)
            /\ journal'[m] = OccurrenceEntry(batch[i])
            /\ journal'[n] = OccurrenceEntry(batch[j])
        BY <1>11, <2>4
      <3>2. m = Len(journal) + i /\ n = Len(journal) + j
        BY <1>7, <1>8
      <3> HIDE DEF i, j
      <3>3. /\ TemplateRefs[batch[i].template] = TemplateRefs[batch[j].template]
            /\ batch[i].date = batch[j].date
        BY <1>4, <3>1
      <3>4. /\ batch[i] \in [template : Templates, date : Dates]
            /\ batch[j] \in [template : Templates, date : Dates]
        BY <1>3, <3>1
      <3>5. batch[i].template = batch[j].template
        BY <3>3, <3>4, RecurringAssumption
      <3>6. batch[i] = batch[j]
        BY <3>3, <3>4, <3>5
      <3>7. QED
        BY <1>2, <3>1, <3>2, <3>6
    <2>5. QED
      BY <2>1, <2>2, <2>3, <2>4
  <1>14. ASSUME NEW o \in DueOccurrences(upTo)
         PROVE  \E n \in NewEntries : /\ journal'[n].source = "recurring"
                                      /\ journal'[n].ref = TemplateRefs[o.template]
                                      /\ journal'[n].date = o.date
    <2>1. PICK i \in 1..Len(batch) : batch[i] = o
      BY <1>2 DEF S
    <2> DEFINE n == Len(journal) + i
    <2>2. n \in NewEntries /\ n - Len(journal) = i
      BY <1>2, <1>7, <1>9
    <2> HIDE DEF n
    <2>3. journal'[n] = OccurrenceEntry(o)
      BY <1>11, <2>1, <2>2
    <2>4. QED
      BY <1>4, <2>1, <2>2, <2>3
  <1>15. QED
    BY <1>12, <1>13, <1>14

------------------------------------------------------------------------------
(* What one step of the workflows comes to. *)

\* The occurrences are told apart, and the books and adjustments stay finite.
SchedulesInv ==
  /\ SchedulesTypeOK
  /\ IsFiniteSet(timing)
  /\ EntriesSound
  /\ BackLinked
  /\ OccurrencePostedOnce

(* The books part of the invariant comes from what a step does to them. *)
LEMMA BooksPreserved ==
  ASSUME TypeOK, EntriesSound, BackLinked, BookStep
  PROVE  EntriesSound' /\ BackLinked' /\ KeepsEntries
  <1>1. /\ journal \in Seq(Entry) /\ journal' \in Seq(Entry)
        /\ Len(journal) \in Nat /\ Len(journal') \in Nat /\ Len(journal) <= Len(journal')
        /\ DOMAIN journal = 1..Len(journal) /\ DOMAIN journal' = 1..Len(journal')
    BY DEF TypeOK, BookStep
  <1>2. \A m \in 1..Len(journal') : m \in 1..Len(journal) \/ m \in NewEntries
    BY <1>1 DEF NewEntries
  <1>3. \A m \in NewEntries : m \in 1..Len(journal') /\ m > Len(journal)
    BY <1>1 DEF NewEntries
  <1>4. EntriesSound'
    <2> SUFFICES ASSUME NEW m \in 1..Len(journal')
                 PROVE  WellFormed(journal'[m].lines) /\ Balanced(journal'[m].lines)
      BY <1>1 DEF EntriesSound
    <2>1. CASE m \in 1..Len(journal)
      <3>1. WellFormed(journal[m].lines) /\ Balanced(journal[m].lines)
        BY <1>1, <2>1 DEF EntriesSound
      <3>2. journal'[m].lines = journal[m].lines
        BY <2>1 DEF BookStep
      <3>3. QED
        BY <3>1, <3>2
    <2>2. CASE m \in NewEntries
      BY <2>2 DEF BookStep
    <2>3. QED
      BY <1>2, <2>1, <2>2
  <1>5. BackLinked'
    <2> SUFFICES ASSUME NEW m \in 1..Len(journal'), journal'[m].reversedBy # 0
                 PROVE  /\ journal'[m].reversedBy \in (m + 1)..Len(journal')
                        /\ journal'[journal'[m].reversedBy].reversalOf = m
                        /\ journal'[journal'[m].reversedBy].lines = Swapped(journal'[m].lines)
      BY <1>1 DEF BackLinked
    <2>1. m \in 1..Len(journal)
      BY <1>2 DEF BookStep
    <2>2. journal'[m].lines = journal[m].lines
      BY <2>1 DEF BookStep
    <2>3. CASE journal'[m].reversedBy = journal[m].reversedBy
      <3> DEFINE k == journal[m].reversedBy
      <3>1. /\ k \in (m + 1)..Len(journal)
            /\ journal[k].reversalOf = m /\ journal[k].lines = Swapped(journal[m].lines)
        BY <1>1, <2>1, <2>3 DEF BackLinked
      <3>2. k \in 1..Len(journal)
        BY <2>1, <3>1
      <3>3. journal'[k].reversalOf = journal[k].reversalOf /\ journal'[k].lines = journal[k].lines
        BY <3>2 DEF BookStep
      <3>4. k \in (m + 1)..Len(journal')
        BY <1>1, <2>1, <3>1
      <3>5. QED
        BY <2>2, <2>3, <3>1, <3>3, <3>4
    <2>4. CASE journal'[m].reversedBy # journal[m].reversedBy
      <3>1. /\ journal'[m].reversedBy \in NewEntries
            /\ journal'[journal'[m].reversedBy].reversalOf = m
            /\ journal'[journal'[m].reversedBy].lines = Swapped(journal[m].lines)
        BY <2>1, <2>4 DEF BookStep
      <3>2. journal'[m].reversedBy \in (m + 1)..Len(journal')
        BY <1>1, <2>1, <3>1 DEF NewEntries
      <3>3. QED
        BY <2>2, <3>1, <3>2
    <2>5. QED
      BY <2>3, <2>4
  <1>6. KeepsEntries
    <2> SUFFICES ASSUME NEW m \in 1..Len(journal)
                 PROVE  /\ journal'[m].date = journal[m].date
                        /\ journal'[m].lines = journal[m].lines
                        /\ \/ journal'[m].reversedBy = journal[m].reversedBy
                           \/ /\ journal[m].reversedBy = 0
                              /\ journal'[m].reversedBy > Len(journal)
      BY <1>1 DEF KeepsEntries
    <2>1. QED
      BY <1>3 DEF BookStep
  <1>7. QED
    BY <1>4, <1>5, <1>6

(* A step that posts no occurrence leaves them told apart. *)
LEMMA OccurrencesKept ==
  ASSUME TypeOK, OccurrencePostedOnce, BookStep, NoOccurrences
  PROVE  OccurrencePostedOnce'
  <1> SUFFICES ASSUME NEW m \in DOMAIN journal', NEW n \in DOMAIN journal',
                      journal'[m].source = "recurring", journal'[n].source = "recurring",
                      journal'[m].ref = journal'[n].ref,
                      journal'[m].date = journal'[n].date
               PROVE  m = n
    BY DEF OccurrencePostedOnce
  <1>1. m \in DOMAIN journal' /\ m \notin NewEntries /\ n \notin NewEntries
    BY DEF NoOccurrences
  <1>2. m \in 1..Len(journal) /\ n \in 1..Len(journal) /\ DOMAIN journal = 1..Len(journal)
    BY <1>1 DEF BookStep, NewEntries, TypeOK
  <1>3. /\ journal[m].source = "recurring" /\ journal[n].source = "recurring"
        /\ journal[m].ref = journal[n].ref /\ journal[m].date = journal[n].date
    BY <1>2 DEF BookStep
  <1>4. QED
    BY <1>2, <1>3 DEF OccurrencePostedOnce

(* The adjustments that were there still name their entries. *)
LEMMA AdjustmentsKept ==
  ASSUME TypeOK, TimingTypeOK, BookStep, NEW t \in timing
  PROVE  /\ t.entry \in DOMAIN journal'
         /\ journal'[t.entry].source \in {"accrual", "prepayment"}
         /\ journal'[t.entry].date < t.due
  <1>1. t.entry \in 1..Len(journal) /\ Len(journal) \in Nat
    BY DEF TimingTypeOK, TypeOK
  <1>2. t.entry \in DOMAIN journal'
    BY <1>1 DEF BookStep
  <1>3. QED
    BY <1>1, <1>2 DEF TimingTypeOK, BookStep

(* Moving a cost between periods: one entry, and the adjustment that names it. *)
LEMMA CostMoved ==
  ASSUME SchedulesInv, NEW d \in Dates, NEW due \in Dates, NEW expense \in CostAccounts,
         NEW amount \in Amounts,
         PostAccrual(d, due, expense, amount) \/ PostPrepayment(d, due, expense, amount)
  PROVE  BookStep /\ NoOccurrences /\ TypeOK' /\ TimingTypeOK' /\ IsFiniteSet(timing')
  <1>1. PICK source \in {"accrual", "prepayment"}, debited \in Accounts, credited \in Accounts :
          /\ due > d
          /\ PostJournalEntry(d, source, NoRef,
               <<BaseLine(debited, amount, 0), BaseLine(credited, 0, amount)>>, FALSE)
          /\ RecordTimingAdjustment(due)
          /\ UNCHANGED <<active, yearStatus>>
    <2>1. /\ expense \in Accounts /\ AccrualsAccount \in Accounts
          /\ PrepaymentsAccount \in Accounts
      BY TimingAssumption, ConfigurationAssumption
    <2>2. CASE PostAccrual(d, due, expense, amount)
      BY <2>1, <2>2 DEF PostAccrual
    <2>3. CASE PostPrepayment(d, due, expense, amount)
      BY <2>1, <2>3 DEF PostPrepayment
    <2>4. QED
      BY <2>2, <2>3
  <1> DEFINE lines == <<BaseLine(debited, amount, 0), BaseLine(credited, 0, amount)>>
             last == Len(journal) + 1
             t == [entry |-> last, due |-> due]
  <1>2. lines \in Seq(AskedLine)
    <2>1. amount \in Int
      BY TimingAssumption
    <2>2. /\ BaseLine(debited, amount, 0) \in AskedLine
          /\ BaseLine(credited, 0, amount) \in AskedLine
      BY <2>1 DEF BaseLine, AskedLine, Currencies, Rates, NoRate
    <2>3. QED
      BY <2>2
  <1>3. source \in Sources /\ NoRef \in Refs
    BY TimingAssumption, ConfigurationAssumption
  <1> HIDE DEF lines
  <1>4. PostJournalEntry(d, source, NoRef, lines, FALSE)
    BY <1>1 DEF lines
  <1>5. /\ TypeOK /\ TimingTypeOK /\ IsFiniteSet(timing)
    BY DEF SchedulesInv, SchedulesTypeOK
  <1>6. /\ BookStep /\ Len(journal') = last
        /\ journal'[last].source = source /\ journal'[last].date = d
        /\ overridden' \in SUBSET Nat
    BY <1>2, <1>3, <1>4, <1>5, OnePosted
  <1>7. NewEntries = {last} /\ last \in Nat /\ last \in DOMAIN journal'
    BY <1>5, <1>6 DEF NewEntries, TypeOK, BookStep
  <1>8. NoOccurrences
    BY <1>6, <1>7 DEF NoOccurrences
  <1>9. TypeOK'
    BY <1>1, <1>5, <1>6 DEF TypeOK, BookStep
  <1>10. timing' = timing \cup {t}
    BY <1>1 DEF RecordTimingAdjustment
  <1>11. t \in Adjustment /\ t.entry = last /\ t.due = due
    BY <1>7 DEF Adjustment
  <1> HIDE DEF t, last
  <1>12. TimingTypeOK'
    <2>1. timing' \subseteq Adjustment
      BY <1>5, <1>10, <1>11 DEF TimingTypeOK
    <2>2. ASSUME NEW u \in timing'
          PROVE  /\ u.entry \in DOMAIN journal'
                 /\ journal'[u.entry].source \in {"accrual", "prepayment"}
                 /\ journal'[u.entry].date < u.due
      <3>1. CASE u \in timing
        BY <1>5, <1>6, <3>1, AdjustmentsKept
      <3>2. CASE u = t
        <4>1. d < due
          BY <1>1, ConfigurationAssumption
        <4>2. QED
          BY <1>6, <1>7, <1>11, <3>2, <4>1
      <3>3. QED
        BY <1>10, <3>1, <3>2
    <2>3. QED
      BY <2>1, <2>2 DEF TimingTypeOK
  <1>13. IsFiniteSet(timing')
    BY <1>5, <1>10, FS_AddElement
  <1>14. QED
    BY <1>6, <1>8, <1>9, <1>12, <1>13

(* Adjustments stay what they are in a step that makes none. *)
LEMMA AdjustmentsStay ==
  ASSUME TypeOK, TimingTypeOK, IsFiniteSet(timing), BookStep, UNCHANGED timing
  PROVE  TimingTypeOK' /\ IsFiniteSet(timing')
  <1>1. TimingTypeOK'
    BY AdjustmentsKept DEF TimingTypeOK
  <1>2. QED
    BY <1>1

(* A step of the workflows, or of what runs beside them. *)
LEMMA SchedulesStep ==
  ASSUME SchedulesInv, [SchedulesNext]_allVars
  PROVE  BookStep /\ SchedulesInv' /\ KeepsEntries
  <1>1. /\ TypeOK /\ TimingTypeOK /\ RecurringTypeOK /\ IsFiniteSet(timing)
        /\ EntriesSound /\ BackLinked /\ OccurrencePostedOnce
    BY DEF SchedulesInv, SchedulesTypeOK
  <1> DEFINE Kept == /\ BookStep /\ OccurrencePostedOnce' /\ TypeOK'
                     /\ TimingTypeOK' /\ IsFiniteSet(timing') /\ RecurringTypeOK'
  <1>2. ASSUME BookStep, Kept PROVE BookStep /\ SchedulesInv' /\ KeepsEntries
    BY <1>1, <1>2, BooksPreserved DEF SchedulesInv, SchedulesTypeOK
  <1>3. ASSUME UNCHANGED templates PROVE RecurringTypeOK'
    BY <1>1, <1>3 DEF RecurringTypeOK
  <1>4. ASSUME NEW d \in Dates, NEW due \in Dates, NEW expense \in CostAccounts,
               NEW amount \in Amounts,
               PostAccrual(d, due, expense, amount) \/ PostPrepayment(d, due, expense, amount),
               UNCHANGED templates
        PROVE  Kept
    BY <1>1, <1>3, <1>4, CostMoved, OccurrencesKept
  <1>5. ASSUME NEW upTo \in Dates, PostDueTimingReversals(upTo), UNCHANGED templates
        PROVE  Kept
    <2>1. BookStep /\ NoOccurrences
      BY <1>1, <1>5, BatchReversed
    <2>2. UNCHANGED <<active, yearStatus, overridden, timing>>
      BY <1>5 DEF PostDueTimingReversals
    <2>3. TypeOK'
      BY <1>1, <2>1, <2>2 DEF TypeOK, BookStep
    <2>4. QED
      BY <1>1, <1>3, <1>5, <2>1, <2>2, <2>3, OccurrencesKept, AdjustmentsStay
  <1>6. ASSUME NEW n \in DOMAIN journal, NEW d \in Dates, ReverseJournalEntry(n, d),
               UNCHANGED <<active, yearStatus, timing, templates>>
        PROVE  Kept
    <2>1. BookStep /\ NoOccurrences
      BY <1>1, <1>6, OneReversed
    <2>2. TypeOK'
      BY <1>1, <1>6, <2>1 DEF TypeOK, BookStep, ReverseJournalEntry
    <2>3. QED
      BY <1>1, <1>3, <1>6, <2>1, <2>2, OccurrencesKept, AdjustmentsStay
  <1>7. ASSUME NEW upTo \in Dates, PostDueRecurringJournals(upTo), UNCHANGED timing
        PROVE  Kept
    <2>1. BookStep /\ OccurrencePostedOnce'
      BY <1>1, <1>7, BatchPosted
    <2>2. UNCHANGED <<active, yearStatus, overridden, templates>>
      BY <1>7 DEF PostDueRecurringJournals
    <2>3. TypeOK'
      BY <1>1, <2>1, <2>2 DEF TypeOK, BookStep
    <2>4. QED
      BY <1>1, <1>3, <1>7, <2>1, <2>2, <2>3, AdjustmentsStay
  <1>8. ASSUME UNCHANGED <<journal, timing>>, TypeOK', RecurringTypeOK'
        PROVE  Kept
    <2>1. BookStep /\ NoOccurrences
      BY <1>1, <1>8, NothingPosted
    <2>2. QED
      BY <1>1, <1>8, <2>1, OccurrencesKept, AdjustmentsStay
  <1>9. CASE TimingStep /\ UNCHANGED templates
    <2>1. \A t \in timing : t.entry \in DOMAIN journal
      BY <1>1 DEF TimingTypeOK
    <2>2. ASSUME NEW t \in timing, NEW d \in Dates, ReverseTimingAdjustment(t, d)
          PROVE  Kept
      BY <1>6, <1>9, <2>1, <2>2 DEF ReverseTimingAdjustment
    <2>3. Kept
      BY <1>4, <1>5, <1>9, <2>2 DEF TimingStep
    <2>4. QED
      BY <1>2, <2>3
  <1>10. CASE RecurringStep /\ UNCHANGED timing
    <2>1. ASSUME NEW t \in Templates, NEW template \in Template,
                 CreateRecurringJournal(t, template) \/ UpdateRecurringJournal(t, template)
          PROVE  Kept
      <3>1. UNCHANGED vars /\ templates' = [templates EXCEPT ![t] = template]
        BY <2>1 DEF CreateRecurringJournal, UpdateRecurringJournal
      <3>2. TypeOK' /\ RecurringTypeOK' /\ UNCHANGED journal
        BY <1>1, <3>1 DEF TypeOK, RecurringTypeOK, vars
      <3>3. QED
        BY <1>8, <1>10, <3>2
    <2>2. Kept
      BY <1>7, <1>10, <2>1 DEF RecurringStep
    <2>3. QED
      BY <1>2, <2>2
  <1>11. CASE ReversingStep /\ UNCHANGED <<timing, templates>>
    <2>1. Kept
      BY <1>6, <1>11 DEF ReversingStep, ReverseEntry
    <2>2. QED
      BY <1>2, <2>1
  <1>12. CASE ConfigurationStep /\ UNCHANGED <<timing, templates>>
    <2>1. /\ UNCHANGED journal /\ UNCHANGED overridden
          /\ active' \in SUBSET Accounts /\ yearStatus' \in [Years -> Statuses]
      BY <1>1, <1>12, ConfigurationAssumption
         DEF ConfigurationStep, ArchiveAccount, RestoreAccount, GenerateFinancialYear,
             SetYearStatus, TypeOK, Statuses
    <2>2. TypeOK'
      BY <1>1, <2>1 DEF TypeOK
    <2>3. QED
      BY <1>2, <1>3, <1>8, <1>12, <2>1, <2>2
  <1>13. CASE UNCHANGED allVars
    <2>1. UNCHANGED <<journal, active, yearStatus, overridden, timing, templates>>
      BY <1>13 DEF allVars, vars
    <2>2. TypeOK'
      BY <1>1, <2>1 DEF TypeOK
    <2>3. QED
      BY <1>2, <1>3, <1>8, <2>1, <2>2
  <1>14. QED
    BY <1>9, <1>10, <1>11, <1>12, <1>13 DEF SchedulesNext
------------------------------------------------------------------------------
(* The theorems. *)

\* The invariant that carries the rest: types, adjustments that name the entry
\* they were made for, entries the engine accepted, links that go both ways and
\* occurrences told apart (timing.ts, recurring.ts, journal.ts).
THEOREM SchedulesInvariant == SchedulesSpec => []SchedulesInv
  <1>1. SchedulesInit => SchedulesInv
    <2> SUFFICES ASSUME SchedulesInit PROVE SchedulesInv
      OBVIOUS
    <2>1. journal = << >> /\ DOMAIN journal = {}
      BY DEF SchedulesInit, Init
    <2>2. TypeOK
      BY ConfigurationAssumption DEF SchedulesInit, Init, TypeOK, Statuses
    <2>3. TimingTypeOK /\ IsFiniteSet(timing)
      BY FS_EmptySet DEF SchedulesInit, TimingTypeOK
    <2>4. RecurringTypeOK
      BY DEF SchedulesInit, RecurringTypeOK
    <2>5. EntriesSound /\ BackLinked /\ OccurrencePostedOnce
      BY <2>1 DEF EntriesSound, BackLinked, OccurrencePostedOnce
    <2>6. QED
      BY <2>2, <2>3, <2>4, <2>5 DEF SchedulesInv, SchedulesTypeOK
  <1>2. SchedulesInv /\ [SchedulesNext]_allVars => SchedulesInv'
    BY SchedulesStep
  <1>3. QED
    BY <1>1, <1>2, PTL DEF SchedulesSpec

\* The books stay well typed, a template is one that could be made, and each
\* adjustment names an entry that is there, of its own kind, dated before the
\* day it is due off (timing.ts, recurring.ts).
THEOREM SchedulesTypes == SchedulesSpec => []SchedulesTypeOK
  <1>1. SchedulesInv => SchedulesTypeOK
    BY DEF SchedulesInv
  <1>2. QED
    BY <1>1, SchedulesInvariant, PTL

\* A template's occurrence is posted at most once, however often and in what
\* order runs, edits, reversals and changes of years come (recurring.ts
\* postDueRecurringJournals).
THEOREM OccurrencesPostedOnce == SchedulesSpec => []OccurrencePostedOnce
  <1>1. SchedulesInv => OccurrencePostedOnce
    BY DEF SchedulesInv
  <1>2. QED
    BY <1>1, SchedulesInvariant, PTL

\* However late the occurrences before it were posted, a run leaves none behind
\* that is due and lies in an open year (recurring.ts postDueRecurringJournals).
THEOREM RunCatchesUp == SchedulesSpec => RecurringRunCatchesUp
  <1>1. ASSUME SchedulesInv, NEW upTo \in Dates, PostDueRecurringJournals(upTo),
               NEW t \in Templates, Made(t), templates[t].active,
               NEW d \in DueOccurrenceDates(templates[t], upTo), PeriodOpen(d)
        PROVE  d \in AlreadyPosted(t)'
    <2>1. TypeOK /\ RecurringTypeOK /\ OccurrencePostedOnce
      BY <1>1 DEF SchedulesInv, SchedulesTypeOK
    <2>2. /\ BookStep
          /\ \A o \in DueOccurrences(upTo) : \E n \in NewEntries :
               /\ journal'[n].source = "recurring"
               /\ journal'[n].ref = TemplateRefs[o.template]
               /\ journal'[n].date = o.date
      BY <1>1, <2>1, BatchPosted
    <2>3. \E n \in DOMAIN journal' : /\ journal'[n].source = "recurring"
                                     /\ journal'[n].ref = TemplateRefs[t]
                                     /\ journal'[n].date = d
      <3>1. CASE d \in AlreadyPosted(t)
        <4>1. PICK n \in DOMAIN journal : /\ journal[n].source = "recurring"
                                          /\ journal[n].ref = TemplateRefs[t]
                                          /\ journal[n].date = d
          BY <3>1 DEF AlreadyPosted
        <4>2. n \in 1..Len(journal) /\ n \in DOMAIN journal'
          BY <2>1, <2>2 DEF TypeOK, BookStep
        <4>3. QED
          BY <2>2, <4>1, <4>2 DEF BookStep
      <3>2. CASE d \notin AlreadyPosted(t)
        <4> DEFINE o == [template |-> t, date |-> d]
        <4>1. /\ o \in [template : Templates, date : Dates]
              /\ o.template = t /\ o.date = d
          BY DEF DueOccurrenceDates
        <4> HIDE DEF o
        <4>2. o \in DueOccurrences(upTo)
          BY <1>1, <3>2, <4>1 DEF DueOccurrences
        <4>3. PICK n \in NewEntries : /\ journal'[n].source = "recurring"
                                      /\ journal'[n].ref = TemplateRefs[t]
                                      /\ journal'[n].date = d
          BY <2>2, <4>1, <4>2
        <4>4. n \in DOMAIN journal'
          BY <2>1, <2>2 DEF NewEntries, BookStep, TypeOK
        <4>5. QED
          BY <4>3, <4>4
      <3>3. QED
        BY <3>1, <3>2
    <2>4. QED
      BY <2>3 DEF AlreadyPosted
  <1>2. SchedulesInv /\ [SchedulesNext]_allVars =>
          [\A upTo \in Dates : PostDueRecurringJournals(upTo) =>
             \A t \in Templates : Made(t) /\ templates[t].active =>
               \A d \in DueOccurrenceDates(templates[t], upTo) :
                 PeriodOpen(d) => d \in AlreadyPosted(t)']_allVars
    BY <1>1
  <1>3. QED
    BY <1>2, SchedulesInvariant, PTL DEF SchedulesSpec, RecurringRunCatchesUp

\* A run takes off everything that is due and can be, each on its own recorded
\* date, and nothing that was taken off before (timing.ts
\* postDueTimingReversals).
THEOREM RunSettles == SchedulesSpec => TimingRunSettles
  <1>1. ASSUME SchedulesInv, NEW upTo \in Dates, PostDueTimingReversals(upTo)
        PROVE  /\ \A t \in DueOff(upTo) : PeriodOpen(t.due) => journal'[t.entry].reversedBy # 0
               /\ \A n \in DOMAIN journal' \ DOMAIN journal :
                    \E t \in timing : /\ journal[t.entry].reversedBy = 0
                                      /\ t.entry = journal'[n].reversalOf
                                      /\ t.due = journal'[n].date
    <2>1. TypeOK /\ TimingTypeOK /\ IsFiniteSet(timing)
      BY <1>1 DEF SchedulesInv, SchedulesTypeOK
    <2>2. /\ BookStep
          /\ \A t \in Reversible(upTo) : journal'[t.entry].reversedBy # 0
          /\ \A n \in NewEntries : \E t \in DueOff(upTo) : /\ t.entry = journal'[n].reversalOf
                                                           /\ t.due = journal'[n].date
      BY <1>1, <2>1, BatchReversed
    <2>3. \A n \in DOMAIN journal' \ DOMAIN journal : n \in NewEntries
      BY <2>1, <2>2 DEF NewEntries, BookStep, TypeOK
    <2>4. QED
      BY <2>2, <2>3 DEF Reversible, DueOff
  <1>2. SchedulesInv /\ [SchedulesNext]_allVars =>
          [\A upTo \in Dates : PostDueTimingReversals(upTo) =>
             /\ \A t \in DueOff(upTo) : PeriodOpen(t.due) => journal'[t.entry].reversedBy # 0
             /\ \A n \in DOMAIN journal' \ DOMAIN journal :
                  \E t \in timing : /\ journal[t.entry].reversedBy = 0
                                    /\ t.entry = journal'[n].reversalOf
                                    /\ t.due = journal'[n].date]_allVars
    BY <1>1
  <1>3. QED
    BY <1>2, SchedulesInvariant, PTL DEF SchedulesSpec, TimingRunSettles

\* Runs that post or reverse many entries in one transaction keep every promise
\* of the append-only ledger (AppendOnlyLedger; timing.ts, recurring.ts).
THEOREM SchedulesImplementLedger == SchedulesSpec => LedgerSpec
  <1>1. SchedulesInit => Ledger!Init
    BY DEF SchedulesInit, Init, Ledger!Init, ContentsOf, TakenBackOf
  <1>2. SchedulesInv /\ [SchedulesNext]_allVars => [Ledger!Commit]_(Ledger!vars)
    <2> SUFFICES ASSUME SchedulesInv, [SchedulesNext]_allVars PROVE Ledger!Commit
      OBVIOUS
    <2>1. SchedulesInv' /\ KeepsEntries
      BY SchedulesStep
    <2>2. TypeOK /\ TypeOK' /\ BackLinked'
      BY <2>1 DEF SchedulesInv, SchedulesTypeOK
    <2>3. QED
      BY <2>1, <2>2, LedgerStep
  <1>3. QED
    BY <1>1, <1>2, SchedulesInvariant, PTL DEF SchedulesSpec, LedgerSpec, Ledger!Spec

------------------------------------------------------------------------------
(* Amounts are whole numbers. *)

(* The entries of the journal, for the sums taken over them. *)
LEMMA LinesType ==
  ASSUME NEW lines \in Seq(Line), WellFormed(lines), NEW a
  PROVE  /\ IsFiniteSet(DOMAIN lines)
         /\ DOMAIN lines = 1..Len(lines) /\ Len(lines) \in Nat
         /\ \A i \in DOMAIN lines :
              /\ lines[i] \in Line
              /\ ToBase(lines[i].debit, lines[i]) \in Int
              /\ ToBase(lines[i].credit, lines[i]) \in Int
         /\ NetOn(a, lines) \in Int
  <1>1. DOMAIN lines = 1..Len(lines) /\ Len(lines) \in Nat
    OBVIOUS
  <1>2. IsFiniteSet(DOMAIN lines)
    BY <1>1, FS_Interval
  <1>3. ASSUME NEW i \in DOMAIN lines
        PROVE  /\ lines[i] \in Line
               /\ ToBase(lines[i].debit, lines[i]) \in Int
               /\ ToBase(lines[i].credit, lines[i]) \in Int
    <2>1. lines[i] \in Line
      BY <1>1
    <2>2. lines[i].debit \in Int /\ lines[i].credit \in Int
      BY <2>1 DEF Line
    <2>3. IsForeign(lines[i]) => lines[i].rate # NoRate
      BY DEF WellFormed
    <2>4. QED
      BY <2>1, <2>2, <2>3, ToBaseInt
  <1> DEFINE f == [i \in DOMAIN lines |->
                     IF lines[i].account = a
                     THEN ToBase(lines[i].debit, lines[i]) - ToBase(lines[i].credit, lines[i])
                     ELSE 0]
  <1>4. f \in [DOMAIN lines -> Int]
    BY <1>3
  <1>5. Total(f) \in Int
    <2> HIDE DEF f
    <2>1. QED
      BY <1>2, <1>4, TotalType
  <1>6. NetOn(a, lines) \in Int
    BY <1>5 DEF NetOn
  <1>7. QED
    BY <1>1, <1>2, <1>3, <1>6

(* Lines that do not name an account move nothing on it. *)
LEMMA NothingOn ==
  ASSUME NEW lines \in Seq(Line), NEW a, \A i \in DOMAIN lines : lines[i].account # a
  PROVE  NetOn(a, lines) = 0
  <1> DEFINE f == [i \in DOMAIN lines |->
                     IF lines[i].account = a
                     THEN ToBase(lines[i].debit, lines[i]) - ToBase(lines[i].credit, lines[i])
                     ELSE 0]
  <1>1. f \in [DOMAIN lines -> Int] /\ \A i \in DOMAIN lines : f[i] = 0
    OBVIOUS
  <1>2. IsFiniteSet(DOMAIN lines)
    BY FS_Interval
  <1>3. Total(f) = 0
    <2> HIDE DEF f
    <2>1. QED
      BY <1>1, <1>2, TotalZero
  <1>4. QED
    BY <1>3 DEF NetOn

(* The lines the close, the loans and their interest are posted with. *)
LEMMA BaseLineFacts ==
  ASSUME NEW a \in Accounts, NEW x \in Int, NEW y \in Int
  PROVE  /\ BaseLine(a, x, y) \in AskedLine
         /\ BaseLine(a, x, y).account = a
         /\ BaseLine(a, x, y).debit = x
         /\ BaseLine(a, x, y).credit = y
         /\ ~IsForeign(BaseLine(a, x, y))
         /\ \A z : ToBase(z, BaseLine(a, x, y)) = z
  BY DEF BaseLine, AskedLine, Currencies, Rates, IsForeign, ToBase

(* Every step, one entry at a time: nothing else of the journal changes. *)
LEMMA EntriesAfter ==
  ASSUME TypeOK, EngineStep
  PROVE  /\ Len(journal) \in Nat /\ Len(journal') \in Nat
         /\ DOMAIN journal = 1..Len(journal) /\ DOMAIN journal' = 1..Len(journal')
         /\ Len(journal') \in {Len(journal), Len(journal) + 1}
         /\ \A m \in DOMAIN journal :
              /\ m \in DOMAIN journal'
              /\ journal'[m].date = journal[m].date
              /\ journal'[m].source = journal[m].source
              /\ journal'[m].ref = journal[m].ref
              /\ journal'[m].lines = journal[m].lines
              /\ journal'[m].reversalOf = journal[m].reversalOf
  <1> DEFINE Claim ==
         /\ Len(journal) \in Nat /\ Len(journal') \in Nat
         /\ DOMAIN journal = 1..Len(journal) /\ DOMAIN journal' = 1..Len(journal')
         /\ Len(journal') \in {Len(journal), Len(journal) + 1}
         /\ \A m \in DOMAIN journal :
              /\ m \in DOMAIN journal'
              /\ journal'[m].date = journal[m].date
              /\ journal'[m].source = journal[m].source
              /\ journal'[m].ref = journal[m].ref
              /\ journal'[m].lines = journal[m].lines
              /\ journal'[m].reversalOf = journal[m].reversalOf
  <1>1. ASSUME NEW e, Posts(e) PROVE Claim
    <2>1. /\ Len(journal) \in Nat /\ Len(journal') = Len(journal) + 1
          /\ DOMAIN journal = 1..Len(journal) /\ DOMAIN journal' = 1..(Len(journal) + 1)
          /\ \A m \in 1..Len(journal) : journal'[m] = journal[m]
      BY <1>1, PostsEntries
    <2>2. QED
      BY <2>1
  <1>2. ASSUME NEW n, NEW e, Reverses(n, e) PROVE Claim
    <2>1. /\ Len(journal) \in Nat /\ Len(journal') = Len(journal) + 1
          /\ DOMAIN journal = 1..Len(journal) /\ DOMAIN journal' = 1..(Len(journal) + 1)
      BY <1>2, ReversesEntries
    <2>2. \A m \in 1..Len(journal) :
              /\ journal'[m].date = journal[m].date
              /\ journal'[m].source = journal[m].source
              /\ journal'[m].ref = journal[m].ref
              /\ journal'[m].lines = journal[m].lines
              /\ journal'[m].reversalOf = journal[m].reversalOf
      BY <1>2, ReversesFields
    <2>3. QED
      BY <2>1, <2>2
  <1>3. ASSUME UNCHANGED journal PROVE Claim
    BY <1>3 DEF TypeOK
  <1>4. QED
    BY <1>1, <1>2, <1>3 DEF EngineStep

------------------------------------------------------------------------------
(* What is divided among partners. *)

\* The partners and shares recorded; no share without its partner, and at most
\* one precedent partner.
PartnersOK ==
  /\ entityType \in EntityTypes
  /\ DOMAIN partners \subseteq Partners
  /\ partners \in [DOMAIN partners -> [joined : Dates, precedent : BOOLEAN, lent : BOOLEAN]]
  /\ \A p, q \in DOMAIN partners : partners[p].precedent /\ partners[q].precedent => p = q
  /\ IsFiniteSet(shares)
  /\ shares \subseteq [partner : DOMAIN partners, bp : 0..Whole, from : Dates,
                      to : Dates \cup {Open}]

(* The least of a set of naturals, as Min gives it. *)
LEMMA MinFacts ==
  ASSUME NEW S, S \subseteq Nat, S # {}
  PROVE  Min(S) \in S /\ \A x \in S : Min(S) <= x
  <1>1. \E n \in S : \A m \in S : n <= m
    BY SmallestNumber
  <1>2. QED
    BY <1>1 DEF Min

(* A financial year's days. *)
LEMMA SpanFacts ==
  ASSUME NEW y \in Years
  PROVE  /\ Span[y].start \in Nat /\ Span[y].end \in Nat /\ Span[y].start <= Span[y].end
         /\ Span[y].start \in Dates /\ Span[y].end \in Dates
         /\ Days(Span[y].start, Span[y].end) \in Nat \ {0}
  <1>1. Span[y] \in [start : Dates, end : Dates] /\ Dates \subseteq Nat
    BY ConfigurationAssumption
  <1>2. Span[y].start <= Span[y].end
    BY YearEndAssumption
  <1>3. Span[y].start \in Dates /\ Span[y].end \in Dates
    BY <1>1
  <1>4. Span[y].start \in Nat /\ Span[y].end \in Nat
    BY <1>1, <1>3
  <1>5. QED
    BY <1>2, <1>3, <1>4 DEF Days

(* The stretches of a year with the same shares are finitely many days of it. *)
LEMMA StretchesFacts ==
  ASSUME PartnersOK, NEW y \in Years
  PROVE  /\ IsFiniteSet(Stretches(Span[y])) /\ Stretches(Span[y]) \subseteq Nat
         /\ \A d \in Stretches(Span[y]) : LastOf(d, Span[y]) \in Nat
  <1>1. Span[y].start \in Nat /\ Span[y].end \in Nat /\ Span[y].start <= Span[y].end
    BY SpanFacts
  <1>2. \A s \in shares : s.from \in Nat /\ s.to \in Nat
    BY ConfigurationAssumption DEF PartnersOK, Open
  <1>3. Stretches(Span[y]) \subseteq Nat
    BY <1>1, <1>2 DEF Stretches
  <1>4. Stretches(Span[y]) \subseteq Span[y].start .. Span[y].end
    BY <1>1, <1>2 DEF Stretches
  <1>5. IsFiniteSet(Stretches(Span[y]))
    <2>1. Span[y].start \in Int /\ Span[y].end \in Int
      BY <1>1
    <2>2. IsFiniteSet(Span[y].start .. Span[y].end)
      BY ONLY <2>1, FS_Interval
    <2>3. QED
      BY ONLY <1>4, <2>2, FS_Subset
  <1>6. ASSUME NEW d \in Stretches(Span[y])
        PROVE  LastOf(d, Span[y]) \in Nat
    <2> DEFINE S == {e - 1 : e \in {f \in Stretches(Span[y]) : f > d}} \cup {Span[y].end}
    <2>1. S \subseteq Nat /\ S # {}
      BY <1>1, <1>3
    <2> HIDE DEF S
    <2>2. Min(S) \in Nat
      BY <2>1, MinFacts
    <2>3. QED
      BY <2>2 DEF LastOf, S
  <1>7. QED
    BY <1>3, <1>5, <1>6

(* What falls to a partner is a whole number. *)
LEMMA RoundedPartInt ==
  ASSUME PartnersOK, NEW y \in Years, NEW amount \in Int, NEW p
  PROVE  RoundedPart(p, Span[y], amount) \in Int
  <1>1. /\ IsFiniteSet(Stretches(Span[y])) /\ Stretches(Span[y]) \subseteq Nat
        /\ \A d \in Stretches(Span[y]) : LastOf(d, Span[y]) \in Nat
    BY StretchesFacts
  <1>2. ASSUME NEW d \in Stretches(Span[y])
        PROVE  Total([s \in {s \in SharesOn(d) : s.partner = p} |->
                        PartOfStretch(s, d, Span[y], amount)]) \in Int
    <2> DEFINE S == {s \in SharesOn(d) : s.partner = p}
               f == [s \in S |-> PartOfStretch(s, d, Span[y], amount)]
    <2>1. S \in SUBSET shares /\ IsFiniteSet(S)
      BY FS_Subset DEF PartnersOK, SharesOn
    <2>2. ASSUME NEW s \in S PROVE PartOfStretch(s, d, Span[y], amount) \in Int
      <3>1. s.bp \in Int /\ Whole \in Nat \ {0}
        <4>1. s \in shares
          BY <2>1
        <4>2. s.bp \in 0..Whole
          BY <4>1 DEF PartnersOK
        <4>3. Whole \in Nat \ {0}
          BY DEF Whole
        <4>4. QED
          BY <4>2, <4>3
      <3>2. Days(d, LastOf(d, Span[y])) \in Int /\ Days(Span[y].start, Span[y].end) \in Nat \ {0}
        BY <1>1, SpanFacts DEF Days
      <3>3. RoundedShare(amount, Days(d, LastOf(d, Span[y])), Days(Span[y].start, Span[y].end)) \in Int
        BY <3>2, RoundedShareInt
      <3>4. QED
        BY <3>1, <3>3, RoundedShareInt DEF PartOfStretch
    <2> HIDE DEF S
    <2>3. f \in [S -> Int]
      BY <2>2
    <2> HIDE DEF f
    <2>4. Total(f) \in Int
      BY <2>1, <2>3, TotalType
    <2>5. QED
      BY <2>4 DEF f, S
  <1> DEFINE g == [d \in Stretches(Span[y]) |->
                     Total([s \in {s \in SharesOn(d) : s.partner = p} |->
                              PartOfStretch(s, d, Span[y], amount)])]
  <1>3. g \in [Stretches(Span[y]) -> Int]
    BY <1>2
  <1> HIDE DEF g
  <1>4. Total(g) \in Int
    BY <1>1, <1>3, TotalType
  <1>5. QED
    BY <1>4 DEF g, RoundedPart

(* Those sharing in a year are finitely many, and recorded. *)
LEMMA SharingFacts ==
  ASSUME PartnersOK, NEW y \in Years
  PROVE  IsFiniteSet(Sharing(Span[y])) /\ Sharing(Span[y]) \subseteq DOMAIN partners
  <1> DEFINE S == UNION {SharesOn(d) : d \in Stretches(Span[y])}
             f == [s \in S |-> s.partner]
  <1>1. S \in SUBSET shares /\ IsFiniteSet(S)
    <2>1. S \in SUBSET shares
      BY DEF SharesOn
    <2> HIDE DEF S
    <2>2. QED
      BY <2>1, FS_Subset DEF PartnersOK
  <1>2. Sharing(Span[y]) = {s.partner : s \in S}
    BY DEF Sharing
  <1>3. \A s \in S : s.partner \in DOMAIN partners
    <2> HIDE DEF S
    <2>1. QED
      BY <1>1 DEF PartnersOK
  <1> HIDE DEF S
  <1>4. f \in Surjection(S, Sharing(Span[y]))
    BY <1>2 DEF Surjection
  <1>5. IsFiniteSet(Sharing(Span[y]))
    BY <1>1, <1>4, FS_Surjection
  <1>6. QED
    BY <1>2, <1>3, <1>5

(* A partner's part of a whole amount is a whole number. *)
LEMMA AllocatedInt ==
  ASSUME PartnersOK, NEW y \in Years, NEW amount \in Int, NEW p
  PROVE  Residue(Span[y], amount) \in Int /\ Allocated(p, Span[y], amount) \in Int
  <1> DEFINE f == [q \in Sharing(Span[y]) |-> RoundedPart(q, Span[y], amount)]
  <1>1. f \in [Sharing(Span[y]) -> Int]
    BY RoundedPartInt
  <1>2. Total(f) \in Int
    <2> HIDE DEF f
    <2>1. QED
      BY <1>1, SharingFacts, TotalType
  <1>3. Residue(Span[y], amount) \in Int
    BY <1>2 DEF Residue
  <1>4. RoundedPart(p, Span[y], amount) \in Int
    BY RoundedPartInt
  <1>5. QED
    BY <1>3, <1>4 DEF Allocated

------------------------------------------------------------------------------
(* The lines composed are ones a caller may ask to post. *)

(* A set made a sequence: each of its members once. *)
LEMMA SetToSeqFacts ==
  ASSUME NEW S, IsFiniteSet(S)
  PROVE  /\ DOMAIN SetToSeq(S) = 1..Len(SetToSeq(S)) /\ Len(SetToSeq(S)) \in Nat
         /\ Len(SetToSeq(S)) = Cardinality(S)
         /\ SetToSeq(S) \in [1..Len(SetToSeq(S)) -> S]
         /\ \A i, j \in DOMAIN SetToSeq(S) : SetToSeq(S)[i] = SetToSeq(S)[j] => i = j
         /\ \A x \in S : \E i \in DOMAIN SetToSeq(S) : SetToSeq(S)[i] = x
  <1> DEFINE k == Cardinality(S)
  <1>1. k \in Nat /\ ExistsBijection(1..k, S)
    BY FS_CardinalityType
  <1>2. PICK b : b \in Bijection(1..k, S)
    BY <1>1 DEF ExistsBijection
  <1>3. b \in [1..k -> S] /\ IsInjective(b)
    BY <1>2 DEF Bijection, Injection
  <1>4. SetToSeq(S) \in [1..k -> S] /\ IsInjective(SetToSeq(S))
    BY <1>3 DEF SetToSeq
  <1> DEFINE f == SetToSeq(S)
  <1> HIDE DEF f, k
  <1>5. f \in Injection(1..k, S)
    BY <1>4 DEF Injection, f
  <1>6. IsFiniteSet(1..k) /\ Cardinality(1..k) = k
    BY <1>1, FS_Interval
  <1>7. f \in Surjection(1..k, S)
    BY <1>5, <1>6, FS_Injection DEF k
  <1>8. Len(f) = k /\ DOMAIN f = 1..k
    BY <1>1, <1>4 DEF f
  <1>9. \A x \in S : \E i \in 1..k : f[i] = x
    BY <1>7 DEF Surjection
  <1>10. QED
    BY <1>1, <1>4, <1>8, <1>9 DEF f, k, IsInjective

(* The journal is finite. *)
LEMMA JournalFinite == ASSUME TypeOK PROVE IsFiniteSet(DOMAIN journal)
  BY FS_Interval DEF TypeOK

(* What stands on an account is a whole number. *)
LEMMA StandingInt ==
  ASSUME TypeOK, EntriesSound, NEW numbers \in SUBSET DOMAIN journal, NEW days, NEW a
  PROVE  Standing(a, numbers, days) \in Int
  <1> DEFINE S == {m \in numbers : journal[m].date \in days}
             f == [n \in S |-> NetOn(a, journal[n].lines)]
  <1>1. S \in SUBSET DOMAIN journal /\ IsFiniteSet(S)
    <2>1. IsFiniteSet(DOMAIN journal)
      BY JournalFinite
    <2>2. QED
      BY <2>1, FS_Subset
  <1>2. ASSUME NEW n \in DOMAIN journal PROVE NetOn(a, journal[n].lines) \in Int
    <2>1. journal[n] \in Entry
      BY DEF TypeOK
    <2>2. journal[n].lines \in Seq(Line) /\ WellFormed(journal[n].lines)
      BY <2>1 DEF Entry, EntriesSound
    <2>3. QED
      BY <2>2, LinesType
  <1>3. f \in [S -> Int]
    BY <1>1, <1>2
  <1> HIDE DEF f, S
  <1>4. Total(f) \in Int
    BY <1>1, <1>3, TotalType
  <1>5. QED
    BY <1>4 DEF Standing, f, S

(* So is what stands on it on a day. *)
LEMMA StandingAtInt ==
  ASSUME TypeOK, EntriesSound, NEW a, NEW d
  PROVE  StandingAt(a, d) \in Int
  BY StandingInt DEF StandingAt

(* The line that empties an account.                                          *)
LEMMA ClosingLineEmpties ==
  ASSUME NEW d, NEW a \in Accounts, StandingAt(a, d) \in Int
  PROVE  /\ ClosingLine(a, d).account = a
         /\ \A z : ToBase(z, ClosingLine(a, d)) = z
         /\ ClosingLine(a, d).debit - ClosingLine(a, d).credit = -StandingAt(a, d)
  <1> DEFINE s == StandingAt(a, d)
  <1>1. ClosingLine(a, d) = IF a \in IncomeAccounts THEN BaseLine(a, -s, 0) ELSE BaseLine(a, 0, s)
    BY DEF ClosingLine
  <1>2. s \in Int /\ -s \in Int /\ 0 \in Int
    OBVIOUS
  <1> HIDE DEF s
  <1>3. /\ BaseLine(a, -s, 0).account = a /\ \A z : ToBase(z, BaseLine(a, -s, 0)) = z
        /\ BaseLine(a, -s, 0).debit = -s /\ BaseLine(a, -s, 0).credit = 0
    BY ONLY <1>2, a \in Accounts, BaseLineFacts
  <1>4. /\ BaseLine(a, 0, s).account = a /\ \A z : ToBase(z, BaseLine(a, 0, s)) = z
        /\ BaseLine(a, 0, s).debit = 0 /\ BaseLine(a, 0, s).credit = s
    BY ONLY <1>2, a \in Accounts, BaseLineFacts
  <1>5. ClosingLine(a, d).debit - ClosingLine(a, d).credit = -s
    <2>1. CASE a \in IncomeAccounts
      BY <1>1, <1>2, <1>3, <2>1
    <2>2. CASE a \notin IncomeAccounts
      BY <1>1, <1>2, <1>4, <2>2
    <2>3. QED
      BY <2>1, <2>2
  <1>6. QED
    BY <1>1, <1>3, <1>4, <1>5 DEF s

(* The accounts a close empties. *)
LEMMA ToCloseFacts ==
  ASSUME TypeOK, EntriesSound, NEW d
  PROVE  /\ IsFiniteSet(ToClose(d)) /\ ToClose(d) \subseteq ProfitAndLoss
         /\ ProfitAndLoss \subseteq Accounts
         /\ Result(d) \in Int
  <1>1. ToClose(d) \in SUBSET ProfitAndLoss
    BY DEF ToClose
  <1>2. IsFiniteSet(ProfitAndLoss) /\ ProfitAndLoss \subseteq Accounts
    BY YearEndAssumption DEF ProfitAndLoss
  <1>3. IsFiniteSet(ToClose(d))
    BY <1>1, <1>2, FS_Subset
  <1> DEFINE f == [a \in ToClose(d) |-> StandingAt(a, d)]
  <1>4. f \in [ToClose(d) -> Int]
    BY StandingAtInt
  <1> HIDE DEF f
  <1>5. Total(f) \in Int
    BY <1>3, <1>4, TotalType
  <1>6. QED
    BY <1>1, <1>2, <1>3, <1>5 DEF Result, f

\* The lines that empty the accounts, and those who take the result.
EmptyingLines(d) ==
  [i \in DOMAIN SetToSeq(ToClose(d)) |-> ClosingLine(SetToSeq(ToClose(d))[i], d)]

Takers(y, result) ==
  SetToSeq({p \in Sharing(Span[y]) : Allocated(p, Span[y], result) # 0})

(* One line for each account to be emptied. *)
LEMMA EmptyingLinesFacts ==
  ASSUME TypeOK, EntriesSound, NEW d
  PROVE  /\ EmptyingLines(d) \in Seq(AskedLine)
         /\ Len(EmptyingLines(d)) = Cardinality(ToClose(d))
         /\ DOMAIN EmptyingLines(d) = DOMAIN SetToSeq(ToClose(d))
         /\ \A i \in DOMAIN EmptyingLines(d) :
              /\ SetToSeq(ToClose(d))[i] \in ToClose(d)
              /\ EmptyingLines(d)[i] = ClosingLine(SetToSeq(ToClose(d))[i], d)
  <1> DEFINE c == SetToSeq(ToClose(d))
  <1>1. /\ DOMAIN c = 1..Len(c) /\ Len(c) \in Nat /\ Len(c) = Cardinality(ToClose(d))
        /\ \A i \in 1..Len(c) : c[i] \in ToClose(d)
    BY ToCloseFacts, SetToSeqFacts
  <1> HIDE DEF c
  <1>2. ASSUME NEW a \in ToClose(d) PROVE ClosingLine(a, d) \in AskedLine
    <2>1. a \in Accounts /\ StandingAt(a, d) \in Int
      BY ToCloseFacts, StandingAtInt
    <2>2. QED
      BY <2>1, BaseLineFacts DEF ClosingLine
  <1>3. EmptyingLines(d) = [i \in 1..Len(c) |-> ClosingLine(c[i], d)]
    BY <1>1, Zenon DEF EmptyingLines, c
  <1>4. EmptyingLines(d) \in Seq(AskedLine) /\ Len(EmptyingLines(d)) = Len(c)
    BY <1>1, <1>2, <1>3, IsASeq
  <1>5. QED
    BY <1>1, <1>3, <1>4 DEF c

(* The owners' lines name owners' accounts alone. *)
LEMMA ResultLinesFacts ==
  ASSUME PartnersOK, NEW y \in Years, NEW result \in Int
  PROVE  /\ ResultLines(y, result) \in Seq(AskedLine)
         /\ \A i \in DOMAIN ResultLines(y, result) :
              /\ ResultLines(y, result)[i].account \notin ProfitAndLoss
              /\ ResultLines(y, result)[i].account \in Owners
  <1>1. ASSUME NEW a \in Owners, NEW x \in Int
        PROVE  /\ OwnerLine(a, x) \in AskedLine /\ OwnerLine(a, x).account = a
               /\ a \notin ProfitAndLoss
    <2>1. a \in Accounts /\ a \notin ProfitAndLoss
      BY YearEndAssumption, PartnersAssumption, ConfigurationAssumption DEF ProfitAndLoss, Owners
    <2>2. QED
      BY <2>1, BaseLineFacts DEF OwnerLine
  <1>2. CASE entityType = "partnership"
    <2> DEFINE S == {p \in Sharing(Span[y]) : Allocated(p, Span[y], result) # 0}
               o == SetToSeq(S)
    <2>1. IsFiniteSet(S) /\ S \subseteq Partners
      BY SharingFacts, FS_Subset DEF PartnersOK
    <2> HIDE DEF S
    <2>2. DOMAIN o = 1..Len(o) /\ Len(o) \in Nat /\ \A i \in 1..Len(o) : o[i] \in Partners
      BY <2>1, SetToSeqFacts
    <2> HIDE DEF o
    <2>3. ResultLines(y, result) =
            [i \in 1..Len(o) |-> OwnerLine(CurrentAccount[o[i]], Allocated(o[i], Span[y], result))]
      BY <1>2, <2>2 DEF ResultLines, o, S
    <2>4. \A i \in 1..Len(o) :
            LET line == OwnerLine(CurrentAccount[o[i]], Allocated(o[i], Span[y], result))
            IN  line \in AskedLine /\ line.account \notin ProfitAndLoss /\ line.account \in Owners
      <3>1. \A i \in 1..Len(o) :
              CurrentAccount[o[i]] \in Owners /\ Allocated(o[i], Span[y], result) \in Int
        BY <2>2, AllocatedInt DEF Owners
      <3>2. QED
        BY <1>1, <3>1
    <2>5. ResultLines(y, result) \in Seq(AskedLine)
      BY <2>2, <2>3, <2>4, IsASeq
    <2>6. QED
      BY <2>3, <2>4, <2>5
  <1>3. CASE entityType # "partnership"
    <2>1. ResultLines(y, result) \in {<<OwnerLine(RetainedEarnings, result)>>, << >>}
      BY <1>3 DEF ResultLines
    <2>2. OwnerLine(RetainedEarnings, result) \in AskedLine
          /\ OwnerLine(RetainedEarnings, result).account \notin ProfitAndLoss
          /\ OwnerLine(RetainedEarnings, result).account \in Owners
      BY <1>1 DEF Owners
    <2>3. ASSUME NEW line \in AskedLine, line.account \notin ProfitAndLoss, line.account \in Owners,
                 NEW lines \in {<<line>>, << >>}
          PROVE  /\ lines \in Seq(AskedLine)
                 /\ \A i \in DOMAIN lines :
                      lines[i].account \notin ProfitAndLoss /\ lines[i].account \in Owners
      <3>1. CASE lines = << >>
        BY <3>1
      <3>2. CASE lines = <<line>>
        <4>1. lines \in Seq(AskedLine) /\ Len(lines) = 1 /\ lines[1] = line
          BY <2>3, <3>2
        <4>2. DOMAIN lines = {1}
          BY <4>1
        <4>3. QED
          BY <2>3, <4>1, <4>2
      <3>3. QED
        BY <2>3, <3>1, <3>2
    <2>4. QED
      BY ONLY <2>1, <2>2, <2>3
  <1>4. QED
    BY <1>2, <1>3

(* The lines of a close: those that empty, then the owners'. *)
LEMMA ClosingLinesFacts ==
  ASSUME TypeOK, EntriesSound, PartnersOK, NEW y \in Years
  PROVE  LET d == Span[y].end
             e == EmptyingLines(d)
             r == ResultLines(y, Result(d))
         IN  /\ ClosingLines(y) = e \o r
             /\ e \in Seq(AskedLine) /\ r \in Seq(AskedLine)
             /\ ClosingLines(y) \in Seq(AskedLine)
  <1>1. ClosingLines(y) = EmptyingLines(Span[y].end) \o ResultLines(y, Result(Span[y].end))
    BY Zenon DEF ClosingLines, EmptyingLines
  <1>2. EmptyingLines(Span[y].end) \in Seq(AskedLine)
    BY EmptyingLinesFacts
  <1>3. ResultLines(y, Result(Span[y].end)) \in Seq(AskedLine)
    BY ToCloseFacts, ResultLinesFacts
  <1>4. QED
    BY <1>1, <1>2, <1>3, ConcatProperties

------------------------------------------------------------------------------
(* What any step does to the books. *)

Closes(y, e) ==
  /\ Posts(e)
  /\ e.source = "year_end_close" /\ e.ref = y
  /\ e.date = Span[y].end /\ e.lines = ClosingLines(y)

Lends(p, e) ==
  /\ Posts(e) /\ e.source = "partner_loan"
  /\ \E money \in MoneyAccounts, amount \in LoanAmounts[p] : e.lines = AdvanceLines(p, money, amount)

Repays(p, e) ==
  /\ Posts(e) /\ e.source = "partner_loan"
  /\ \E money \in MoneyAccounts, amount \in LoanAmounts[p] :
       /\ e.lines = Swapped(AdvanceLines(p, money, amount))
       /\ amount <= Outstanding(p, e.date)

\* An entry that neither closes a year nor is lent or repaid.
Unrelated(e) == e.source \notin {"year_end_close", "partner_loan"}

BooksStep ==
  \/ \E y \in Years : \E e : Closes(y, e)
  \/ \E p \in Partners : \E e : Lends(p, e) \/ Repays(p, e)
  \/ \E e : Posts(e) /\ Unrelated(e)
  \/ \E n, e : Reverses(n, e) /\ Unrelated(e)
  \/ UNCHANGED journal

(* The amounts lent, repaid and charged make lines a caller may ask to post. *)
LEMMA AdvanceLinesType ==
  ASSUME NEW p \in Partners, NEW money \in MoneyAccounts, NEW amount \in LoanAmounts[p]
  PROVE  /\ AdvanceLines(p, money, amount) \in Seq(AskedLine)
         /\ AdvanceLines(p, money, amount) \in Seq(Line)
         /\ Swapped(AdvanceLines(p, money, amount)) \in Seq(AskedLine)
         /\ Len(AdvanceLines(p, money, amount)) = 2
         /\ AdvanceLines(p, money, amount)[1] = BaseLine(money, amount, 0)
         /\ AdvanceLines(p, money, amount)[2] = BaseLine(LoanAccount[p], 0, amount)
         /\ amount \in Nat \ {0} /\ money \in Accounts /\ LoanAccount[p] \in Accounts
         /\ \A q \in Partners : LoanAccount[q] # money
  <1>1. amount \in Nat \ {0} /\ money \in Accounts /\ LoanAccount[p] \in Accounts
    BY LoansAssumption
  <1>2. \A x, y \in Nat : BaseLine(money, x, y) \in Line /\ BaseLine(LoanAccount[p], x, y) \in Line
    BY <1>1 DEF BaseLine, Line, Currencies, Rates
  <1>3. Line \subseteq AskedLine
    BY DEF Line, AskedLine
  <1> DEFINE lines == AdvanceLines(p, money, amount)
  <1>4. lines \in Seq(Line) /\ Len(lines) = 2
        /\ lines[1] = BaseLine(money, amount, 0) /\ lines[2] = BaseLine(LoanAccount[p], 0, amount)
    <2>1. \A a, b \in Line : <<a, b>> \in Seq(Line)
      OBVIOUS
    <2>2. QED
      BY <1>1, <1>2, <2>1 DEF AdvanceLines
  <1>5. \A s \in Seq(Line) : s \in Seq(AskedLine)
    BY <1>3
  <1>6. Swapped(lines) \in Seq(Line)
    BY <1>4, SwappedType
  <1> HIDE DEF lines
  <1>7. \A q \in Partners : LoanAccount[q] # money
    BY LoansAssumption
  <1>8. QED
    BY <1>1, <1>4, <1>5, <1>6, <1>7 DEF lines

(* What is owed, and the interest on it, are whole numbers. *)
LEMMA OwedInt ==
  ASSUME TypeOK, EntriesSound, NEW p, NEW d
  PROVE  Owed(p, d) \in Int
  <1> DEFINE S == {m \in DOMAIN journal : journal[m].date <= d}
             f == [n \in S |-> NetOn(LoanAccount[p], journal[n].lines)]
  <1>1. S \in SUBSET DOMAIN journal /\ IsFiniteSet(S)
    <2>1. IsFiniteSet(DOMAIN journal)
      BY JournalFinite
    <2>2. QED
      BY <2>1, FS_Subset
  <1>2. ASSUME NEW n \in DOMAIN journal PROVE NetOn(LoanAccount[p], journal[n].lines) \in Int
    <2>1. journal[n] \in Entry
      BY DEF TypeOK
    <2>2. journal[n].lines \in Seq(Line) /\ WellFormed(journal[n].lines)
      BY <2>1 DEF Entry, EntriesSound
    <2>3. QED
      BY <2>2, LinesType
  <1>3. f \in [S -> Int]
    BY <1>1, <1>2
  <1> HIDE DEF f, S
  <1>4. Total(f) \in Int
    BY <1>1, <1>3, TotalType
  <1>5. QED
    BY <1>4 DEF Owed, f, S

(* Interest is a whole number. *)
LEMMA InterestOnInt ==
  ASSUME TypeOK, EntriesSound, NEW p, NEW rate \in InterestRates,
         NEW from \in Dates, NEW to \in Dates
  PROVE  InterestOn(p, rate, from, to) \in Int
  <1> DEFINE f == [d \in from .. to |-> Max({Owed(p, d), 0})]
  <1>1. from \in Int /\ to \in Int /\ rate \in Int
    BY ConfigurationAssumption, LoansAssumption
  <1>2. \A x \in Int : Max({x, 0}) \in Int
    <2>1. ASSUME NEW x \in Int PROVE \E m \in {x, 0} : \A z \in {x, 0} : m >= z
      <3>1. CASE x >= 0
        BY <3>1
      <3>2. CASE 0 >= x
        BY <3>2
      <3>3. QED
        BY <3>1, <3>2
    <2>2. QED
      BY <2>1 DEF Max
  <1>3. f \in [from .. to -> Int]
    BY <1>2, OwedInt
  <1> HIDE DEF f
  <1>4. Total(f) \in Int
    BY <1>1, <1>3, FS_Interval, TotalType
  <1>5. 10000 * DaysInYear \in Nat \ {0}
    BY DEF DaysInYear
  <1>6. RoundedShare(Total(f), rate, 10000 * DaysInYear) \in Int
    BY <1>1, <1>4, <1>5, RoundedShareInt
  <1>7. QED
    BY <1>6 DEF InterestOn, f

\* What holds of the books all along, apart from the properties themselves.
BooksOK == JournalInv /\ PartnersOK /\ active = Accounts

(* Any entry but a close or a loan, and the years. *)
LEMMA OtherStepShape ==
  ASSUME TypeOK, OtherStep
  PROVE  BooksStep /\ EngineStep /\ UNCHANGED <<active, partnerVars>>
  <1>1. UNCHANGED partnerVars
    BY DEF OtherStep
  <1>2. ASSUME NEW d \in Dates, NEW lines \in Postings, PostConverted(d, lines)
        PROVE  BooksStep /\ EngineStep /\ UNCHANGED active
    <2>1. "bank_transaction" \in Sources /\ NoRef \in Refs
          /\ WithFxRoundingLine(lines) \in Seq(AskedLine)
      BY ConfigurationAssumption, PostingsAssumption
    <2>2. PICK e : Posts(e) /\ e.source = "bank_transaction" /\ overridden' \in SUBSET Nat
      BY <1>2, <2>1, PostJournalEntryPosts DEF PostConverted
    <2>3. UNCHANGED <<active, yearStatus>>
      BY <1>2 DEF PostConverted
    <2>4. QED
      BY <2>2, <2>3 DEF TypeOK, EngineStep, BooksStep, Unrelated
  <1>3. ASSUME NEW n \in DOMAIN journal, NEW d \in Dates, ReverseEntry(n, d)
        PROVE  BooksStep /\ EngineStep /\ UNCHANGED active
    <2>1. PICK e : Reverses(n, e) /\ e.source = "reversal"
      BY <1>3, ReverseJournalEntryReverses DEF ReverseEntry
    <2>2. UNCHANGED <<active, yearStatus, overridden>>
      BY <1>3 DEF ReverseEntry, ReverseJournalEntry
    <2>3. QED
      BY <2>1, <2>2 DEF TypeOK, EngineStep, BooksStep, Unrelated
  <1>4. ASSUME \/ \E y \in Years : GenerateFinancialYear(y)
               \/ \E y \in Years, s \in ShutStatuses \cup {"open"} : SetYearStatus(y, s)
        PROVE  BooksStep /\ EngineStep /\ UNCHANGED active
    <2>1. UNCHANGED <<journal, active, overridden>> /\ YearsStep
      BY <1>4 DEF YearsStep, GenerateFinancialYear, SetYearStatus
    <2>2. QED
      BY <2>1 DEF TypeOK, EngineStep, BooksStep
  <1>5. QED
    BY <1>1, <1>2, <1>3, <1>4 DEF OtherStep

(* A close, if it happens, posts its lines on the year's last day. *)
LEMMA ClosingStepShape ==
  ASSUME BooksOK, ClosingStep
  PROVE  BooksStep /\ EngineStep /\ UNCHANGED <<active, partnerVars>>
  <1>1. PICK y \in Years, override \in Overrides : CloseFinancialYear(y, override)
    BY DEF ClosingStep
  <1>2. /\ Span[y].end \in Dates /\ "year_end_close" \in Sources /\ y \in Refs
        /\ override \in BOOLEAN
    BY SpanFacts, YearEndAssumption, LoansAssumption
  <1>3. TypeOK /\ EntriesSound /\ PartnersOK
    BY DEF BooksOK, JournalInv
  <1>4. ClosingLines(y) \in Seq(AskedLine)
    BY <1>3, ClosingLinesFacts
  <1>5. PostJournalEntry(Span[y].end, "year_end_close", y, ClosingLines(y), override)
    BY <1>1 DEF CloseFinancialYear
  <1>6. PICK e : Closes(y, e) /\ overridden' \in SUBSET Nat
    <2> HIDE DEF ClosingLines
    <2>1. QED
      BY <1>2, <1>3, <1>4, <1>5, PostJournalEntryPosts DEF Closes
  <1>7. UNCHANGED <<active, yearStatus, partnerVars>>
    BY <1>1 DEF CloseFinancialYear
  <1>8. QED
    BY <1>3, <1>6, <1>7 DEF TypeOK, EngineStep, BooksStep, Closes

(* Lending, repaying and charging interest each post one entry. *)
LEMMA LoansStepShape ==
  ASSUME BooksOK, LoansStep
  PROVE  BooksStep /\ EngineStep /\ UNCHANGED active /\ PartnersOK'
  <1> DEFINE Shape == BooksStep /\ EngineStep /\ UNCHANGED active /\ PartnersOK'
  <1>1. TypeOK /\ EntriesSound /\ PartnersOK
    BY DEF BooksOK, JournalInv
  <1>2. /\ {"partner_loan", "partner_loan_interest"} \subseteq Sources /\ NoRef \in Refs
        /\ Overrides \subseteq BOOLEAN
    BY LoansAssumption, ConfigurationAssumption
  <1>3. ASSUME NEW p, NEW lines \in Seq(AskedLine), NEW d \in Dates, NEW override \in Overrides,
               RecordPartnerLoan(p, lines, d, override)
        PROVE  /\ \E e : /\ Posts(e) /\ e.source = "partner_loan"
                       /\ e.date = d /\ e.lines = lines
               /\ EngineStep /\ UNCHANGED active /\ PartnersOK'
    <2>1. PICK e : /\ Posts(e) /\ e.source = "partner_loan" /\ e.date = d /\ e.lines = lines
                   /\ overridden' \in SUBSET Nat
      BY <1>1, <1>2, <1>3, PostJournalEntryPosts DEF RecordPartnerLoan
    <2>2. UNCHANGED <<active, yearStatus, entityType, shares>>
          /\ partners' = [partners EXCEPT ![p].lent = TRUE]
      BY <1>3 DEF RecordPartnerLoan
    <2>3. EngineStep
      BY <1>1, <2>1, <2>2 DEF EngineStep, TypeOK
    <2>4. /\ DOMAIN partners' = DOMAIN partners
          /\ partners' \in [DOMAIN partners -> [joined : Dates, precedent : BOOLEAN, lent : BOOLEAN]]
          /\ \A q \in DOMAIN partners : partners'[q].precedent = partners[q].precedent
      BY <1>1, <2>2 DEF PartnersOK
    <2>5. PartnersOK'
      BY <1>1, <2>2, <2>4 DEF PartnersOK
    <2>6. QED
      BY <2>1, <2>2, <2>3, <2>5
  <1>4. ASSUME NEW p \in Partners, NEW d \in Dates, NEW override \in Overrides,
               NEW money \in MoneyAccounts, NEW amount \in LoanAmounts[p],
               AdvanceLoan(p, money, amount, d, override)
        PROVE  Shape
    <2>1. AdvanceLines(p, money, amount) \in Seq(AskedLine)
      BY AdvanceLinesType
    <2>2. RecordPartnerLoan(p, AdvanceLines(p, money, amount), d, override)
      BY <1>4 DEF AdvanceLoan
    <2>3. PICK e : /\ Posts(e) /\ e.source = "partner_loan"
                   /\ e.lines = AdvanceLines(p, money, amount)
      BY <1>3, <2>1, <2>2
    <2>4. Lends(p, e)
      BY <2>3 DEF Lends
    <2>5. BooksStep
      BY <2>4 DEF BooksStep
    <2>6. QED
      BY <1>3, <2>1, <2>2, <2>5
  <1>5. ASSUME NEW p \in Partners, NEW d \in Dates, NEW override \in Overrides,
               NEW money \in MoneyAccounts, NEW amount \in LoanAmounts[p],
               RepayLoan(p, money, amount, d, override)
        PROVE  Shape
    <2>1. Swapped(AdvanceLines(p, money, amount)) \in Seq(AskedLine)
      BY AdvanceLinesType
    <2>2. /\ amount <= Outstanding(p, d)
          /\ RecordPartnerLoan(p, Swapped(AdvanceLines(p, money, amount)), d, override)
      BY <1>5 DEF RepayLoan
    <2>3. PICK e : /\ Posts(e) /\ e.source = "partner_loan"
                   /\ e.date = d /\ e.lines = Swapped(AdvanceLines(p, money, amount))
      BY <1>3, <2>1, <2>2
    <2>4. Repays(p, e)
      BY <2>2, <2>3 DEF Repays
    <2>5. BooksStep
      BY <2>4 DEF BooksStep
    <2>6. QED
      BY <1>3, <2>1, <2>2, <2>5
  <1>6. ASSUME NEW p \in Partners, NEW d \in Dates, NEW override \in Overrides,
               NEW rate \in InterestRates, NEW from \in Dates,
               RecordPartnerLoanInterest(p, rate, from, d, override)
        PROVE  Shape
    <2> DEFINE amount == InterestOn(p, rate, from, d)
               lines == <<BaseLine(InterestAccount, amount, 0), BaseLine(LoanAccount[p], 0, amount)>>
    <2>1. amount \in Int
      BY <1>1, InterestOnInt
    <2>2. InterestAccount \in Accounts /\ LoanAccount[p] \in Accounts
      BY LoansAssumption
    <2>3. PostJournalEntry(d, "partner_loan_interest", NoRef, lines, override)
      BY <1>6 DEF RecordPartnerLoanInterest
    <2>4. lines \in Seq(AskedLine)
      <3>1. BaseLine(InterestAccount, amount, 0) \in AskedLine
            /\ BaseLine(LoanAccount[p], 0, amount) \in AskedLine
        BY <2>1, <2>2, BaseLineFacts
      <3>2. \A a, b \in AskedLine : <<a, b>> \in Seq(AskedLine)
        OBVIOUS
      <3>3. QED
        BY <3>1, <3>2
    <2> HIDE DEF lines
    <2>5. PICK e : Posts(e) /\ e.source = "partner_loan_interest" /\ overridden' \in SUBSET Nat
      BY <1>1, <1>2, <2>3, <2>4, PostJournalEntryPosts
    <2>6. UNCHANGED <<active, yearStatus, partnerVars>>
      BY <1>6 DEF RecordPartnerLoanInterest
    <2>7. BooksStep /\ EngineStep
      BY <1>1, <2>5, <2>6 DEF TypeOK, EngineStep, BooksStep, Unrelated
    <2>8. PartnersOK'
      BY <1>1, <2>6 DEF PartnersOK, partnerVars
    <2>9. QED
      BY <2>6, <2>7, <2>8
  <1>7. QED
    BY <1>4, <1>5, <1>6 DEF LoansStep

(* A partner recorded, or a share changed. *)
LEMMA PartnersStepShape ==
  ASSUME BooksOK, PartnersStep
  PROVE  UNCHANGED vars /\ PartnersOK'
  <1> DEFINE Share == [partner : Partners, bp : 0..Whole, from : Dates, to : Dates \cup {Open}]
  <1>1. PartnersOK
    BY DEF BooksOK
  <1>2. ASSUME NEW p \in Partners, NEW bp \in BasisPoints, NEW d \in Dates, NEW precedent \in BOOLEAN,
               AddPartner(p, bp, d, precedent)
        PROVE  UNCHANGED vars /\ PartnersOK'
    <2>1. /\ UNCHANGED vars /\ UNCHANGED entityType /\ p \notin DOMAIN partners
          /\ precedent => \A q \in DOMAIN partners : ~partners[q].precedent
          /\ shares' = shares \cup {NewShare(p, bp, d)}
          /\ partners' = [q \in DOMAIN partners \cup {p} |->
                            IF q = p THEN [joined |-> d, precedent |-> precedent, lent |-> FALSE]
                            ELSE partners[q]]
      BY <1>2 DEF AddPartner
    <2>2. DOMAIN partners' = DOMAIN partners \cup {p} /\ DOMAIN partners' \subseteq Partners
      BY <1>1, <2>1 DEF PartnersOK
    <2>3. partners' \in [DOMAIN partners' -> [joined : Dates, precedent : BOOLEAN, lent : BOOLEAN]]
      BY <1>1, <2>1, <2>2 DEF PartnersOK
    <2>4. \A q, r \in DOMAIN partners' : partners'[q].precedent /\ partners'[r].precedent => q = r
      BY <1>1, <2>1, <2>2 DEF PartnersOK
    <2>5. NewShare(p, bp, d) \in [partner : DOMAIN partners', bp : 0..Whole, from : Dates,
                                  to : Dates \cup {Open}]
      BY <2>2, PartnersAssumption DEF NewShare
    <2>6. shares' \subseteq [partner : DOMAIN partners', bp : 0..Whole, from : Dates,
                             to : Dates \cup {Open}]
      BY <1>1, <2>1, <2>2, <2>5 DEF PartnersOK
    <2>7. IsFiniteSet(shares')
      BY <1>1, <2>1, FS_AddElement DEF PartnersOK
    <2>8. QED
      BY <1>1, <2>1, <2>2, <2>3, <2>4, <2>6, <2>7 DEF PartnersOK
  <1>3. ASSUME NEW p \in Partners, NEW bp \in BasisPoints, NEW d \in Dates,
               SetPartnerShare(p, bp, d)
        PROVE  UNCHANGED vars /\ PartnersOK'
    <2>1. PICK current \in shares :
            /\ current.partner = p
            /\ shares' = (shares \ {current}) \cup {[current EXCEPT !.to = d], NewShare(p, bp, d)}
      BY <1>3 DEF SetPartnerShare
    <2>2. UNCHANGED <<vars, entityType, partners>>
      BY <1>3 DEF SetPartnerShare
    <2>3. /\ [current EXCEPT !.to = d] \in
               [partner : DOMAIN partners, bp : 0..Whole, from : Dates, to : Dates \cup {Open}]
          /\ NewShare(p, bp, d) \in
               [partner : DOMAIN partners, bp : 0..Whole, from : Dates, to : Dates \cup {Open}]
      BY <1>1, <2>1, PartnersAssumption DEF PartnersOK, NewShare
    <2>4. IsFiniteSet(shares')
      <3>1. IsFiniteSet(shares \ {current})
        BY <1>1, FS_RemoveElement DEF PartnersOK
      <3>2. IsFiniteSet((shares \ {current}) \cup {[current EXCEPT !.to = d]})
        BY <3>1, FS_AddElement
      <3>3. IsFiniteSet(((shares \ {current}) \cup {[current EXCEPT !.to = d]}) \cup {NewShare(p, bp, d)})
        BY <3>2, FS_AddElement
      <3>4. shares' = ((shares \ {current}) \cup {[current EXCEPT !.to = d]}) \cup {NewShare(p, bp, d)}
        BY <2>1
      <3>5. QED
        BY <3>3, <3>4
    <2>5. QED
      BY <1>1, <2>1, <2>2, <2>3, <2>4 DEF PartnersOK
  <1>4. QED
    BY <1>2, <1>3 DEF PartnersStep

(* Every step of the books, at the level the properties speak of. *)
LEMMA BooksShape ==
  ASSUME BooksOK, [YearEndNext]_YearEndVars
  PROVE  BooksStep /\ EngineStep /\ BooksOK'
  <1>1. TypeOK /\ JournalInv /\ PartnersOK /\ active = Accounts
    BY DEF BooksOK, JournalInv
  <1>2. BooksStep /\ EngineStep /\ UNCHANGED active /\ PartnersOK'
    <2>1. CASE OtherStep
      BY <1>1, <2>1, OtherStepShape DEF PartnersOK, partnerVars
    <2>2. CASE ClosingStep
      BY <1>1, <2>2, ClosingStepShape DEF PartnersOK, partnerVars
    <2>3. CASE LoansStep
      BY <2>3, LoansStepShape
    <2>4. CASE PartnersStep
      <3>1. UNCHANGED vars /\ PartnersOK'
        BY <2>4, PartnersStepShape
      <3>2. QED
        BY <1>1, <3>1 DEF vars, TypeOK, BooksStep, EngineStep, YearsStep
    <2>5. CASE UNCHANGED YearEndVars
      BY <1>1, <2>5 DEF YearEndVars, vars, partnerVars, TypeOK, BooksStep, EngineStep, YearsStep, PartnersOK
    <2>6. QED
      BY <2>1, <2>2, <2>3, <2>4, <2>5 DEF YearEndNext
  <1>3. JournalInv'
    BY <1>1, <1>2, InvPreserved
  <1>4. QED
    BY <1>1, <1>2, <1>3 DEF BooksOK

(* The types, the soundness of entries and links, and the partners recorded, *)
(* in every reachable state of the books (yearEnd.ts, partners.ts, loans.ts).*)
THEOREM BooksInvariant == YearEndSpec => []BooksOK
  <1>1. YearEndInit => BooksOK
    <2> SUFFICES ASSUME YearEndInit PROVE BooksOK
      OBVIOUS
    <2>1. JournalInv
      BY ConfigurationAssumption
         DEF YearEndInit, Init, JournalInv, TypeOK, EntriesSound, EntriesDated, YearsDisjoint,
             LinksSound, Generated, Statuses
    <2>2. PartnersOK
      BY FS_EmptySet DEF YearEndInit, PartnersInit, PartnersOK
    <2>3. QED
      BY <2>1, <2>2 DEF BooksOK, YearEndInit, Init
  <1>2. BooksOK /\ [YearEndNext]_YearEndVars => BooksOK'
    BY BooksShape
  <1>3. QED
    BY <1>1, <1>2, PTL DEF YearEndSpec

(* Closing years, dividing results and lending keep every promise of the      *)
(* append-only ledger (AppendOnlyLedger; drizzle/0001 triggers).              *)
THEOREM YearEndImplementsLedger == YearEndSpec => LedgerSpec
  <1>1. YearEndInit => Ledger!Init
    BY DEF YearEndInit, Init, Ledger!Init
  <1>2. BooksOK /\ BooksOK' /\ [YearEndNext]_YearEndVars => [Ledger!Commit]_(Ledger!vars)
    <2> SUFFICES ASSUME BooksOK, BooksOK', [YearEndNext]_YearEndVars PROVE Ledger!Commit
      OBVIOUS
    <2>1. TypeOK /\ TypeOK' /\ BackLinked' /\ EngineStep
      BY BooksShape DEF BooksOK, JournalInv, LinksSound, BackLinked
    <2>2. QED
      BY <2>1, LinkStep, LedgerStep
  <1>3. QED
    BY <1>1, <1>2, BooksInvariant, PTL DEF YearEndSpec, LedgerSpec, Ledger!Spec

------------------------------------------------------------------------------
(* A sum over entries of before a step is the same after it. *)
LEMMA StandingKept ==
  ASSUME TypeOK, EngineStep, NEW numbers \in SUBSET DOMAIN journal, NEW days, NEW a
  PROVE  Standing(a, numbers, days)' = Standing(a, numbers, days)
  <1> DEFINE S == {m \in numbers : journal[m].date \in days}
             T == {m \in numbers : journal'[m].date \in days}
             f == [n \in S |-> NetOn(a, journal[n].lines)]
             g == [n \in T |-> NetOn(a, journal'[n].lines)]
  <1>1. \A m \in numbers : journal'[m].date = journal[m].date /\ journal'[m].lines = journal[m].lines
    BY EntriesAfter
  <1>2. S = T
    BY <1>1
  <1>3. f = g
    BY <1>1, <1>2
  <1>4. Standing(a, numbers, days) = Total(f)
    BY DEF Standing
  <1>5. Standing(a, numbers, days)' = Total(g)
    BY DEF Standing
  <1>6. QED
    BY <1>3, <1>4, <1>5

------------------------------------------------------------------------------
(* What partners are owed. *)

\* A step that adds an entry with these contents.
Adds1(e) == Posts(e) \/ \E n : Reverses(n, e)

(* The entry a step adds comes last. *)
LEMMA AddedEntry ==
  ASSUME TypeOK, NEW e, Adds1(e)
  PROVE  /\ Len(journal) \in Nat /\ e \in Entry /\ WellFormed(e.lines)
         /\ DOMAIN journal = 1..Len(journal)
         /\ DOMAIN journal' = 1..(Len(journal) + 1)
         /\ Len(journal) + 1 \notin DOMAIN journal
         /\ DOMAIN journal' = DOMAIN journal \cup {Len(journal) + 1}
         /\ journal'[Len(journal) + 1].date = e.date
         /\ journal'[Len(journal) + 1].source = e.source
         /\ journal'[Len(journal) + 1].lines = e.lines
         /\ \A m \in DOMAIN journal :
              /\ journal'[m].date = journal[m].date
              /\ journal'[m].source = journal[m].source
              /\ journal'[m].ref = journal[m].ref
              /\ journal'[m].lines = journal[m].lines
  <1> DEFINE last == Len(journal) + 1
  <1>1. e \in Entry /\ WellFormed(e.lines)
    BY DEF Adds1, Posts, Reverses, Accepted, Postable
  <1>2. /\ Len(journal) \in Nat /\ DOMAIN journal = 1..Len(journal)
        /\ DOMAIN journal' = 1..last
    BY PostsEntries, ReversesEntries DEF Adds1
  <1>3. /\ journal'[last].date = e.date
        /\ journal'[last].source = e.source
        /\ journal'[last].lines = e.lines
        /\ \A m \in 1..Len(journal) :
             /\ journal'[m].date = journal[m].date
             /\ journal'[m].source = journal[m].source
             /\ journal'[m].ref = journal[m].ref
             /\ journal'[m].lines = journal[m].lines
    BY PostsEntries, ReversesFields DEF Adds1
  <1>4. last \notin 1..Len(journal) /\ 1..last = 1..Len(journal) \cup {last}
    BY <1>2
  <1>5. QED
    BY <1>1, <1>2, <1>3, <1>4

\* What entries with these numbers move on an account.
Moved(a, book, numbers) == Total([n \in numbers |-> NetOn(a, book[n].lines)])

(* A new entry adds what it moves to a sum over the entries that counts it. *)
LEMMA SumAfter ==
  ASSUME TypeOK, EntriesSound, NEW e, Adds1(e), NEW a,
         NEW S \in SUBSET DOMAIN journal, NEW last, last = Len(journal) + 1,
         NEW sum, sum = Moved(a, journal, S), NEW net, net = NetOn(a, e.lines)
  PROVE  /\ Moved(a, journal', S) = sum
         /\ sum \in Int /\ net \in Int
         /\ Moved(a, journal', S \cup {last}) = net + sum
  <1> DEFINE f == [n \in S |-> NetOn(a, journal[n].lines)]
             g == [n \in S |-> NetOn(a, journal'[n].lines)]
             h == [n \in S \cup {last} |-> NetOn(a, journal'[n].lines)]
  <1>1. /\ last \notin S
        /\ \A m \in S : journal'[m].lines = journal[m].lines
        /\ journal'[last].lines = e.lines
        /\ e \in Entry /\ WellFormed(e.lines)
    BY AddedEntry
  <1>2. f = g
    BY <1>1
  <1>3. IsFiniteSet(S) /\ IsFiniteSet(S \cup {last})
    <2>1. IsFiniteSet(DOMAIN journal)
      BY JournalFinite
    <2>2. QED
      BY <2>1, FS_Subset, FS_AddElement
  <1>4. NetOn(a, e.lines) \in Int
    BY <1>1, LinesType DEF Entry
  <1>5. ASSUME NEW n \in S PROVE NetOn(a, journal[n].lines) \in Int
    <2>1. journal[n] \in Entry
      BY DEF TypeOK
    <2>2. journal[n].lines \in Seq(Line) /\ WellFormed(journal[n].lines)
      BY <2>1 DEF Entry, EntriesSound
    <2>3. QED
      BY <2>2, LinesType
  <1>6. /\ DOMAIN h = S \cup {last} /\ DOMAIN g = DOMAIN h \ {last} /\ last \in DOMAIN h
        /\ \A n \in DOMAIN g : g[n] = h[n]
        /\ h[last] = NetOn(a, e.lines)
        /\ \A n \in DOMAIN h : h[n] \in Int
    BY <1>1, <1>4, <1>5
  <1>7. f \in [S -> Int]
    BY <1>5
  <1> HIDE DEF f, g, h
  <1>8. Total(h) = h[last] + Total(g)
    BY <1>3, <1>6, TotalTake
  <1>9. Total(f) \in Int
    BY <1>3, <1>7, TotalType
  <1>10. Total(g) = Total(f) /\ Total(h) = NetOn(a, e.lines) + Total(f)
    BY <1>2, <1>6, <1>8
  <1>11. QED
    BY <1>4, <1>9, <1>10 DEF Moved, f, g, h

(* What is owed on a day changes by what an entry of up to that day moves. *)
LEMMA OwedAfter ==
  ASSUME TypeOK, EntriesSound, NEW e, Adds1(e), NEW p, NEW d
  PROVE  /\ NetOn(LoanAccount[p], e.lines) \in Int
         /\ e.date <= d => Owed(p, d)' = Owed(p, d) - NetOn(LoanAccount[p], e.lines)
         /\ ~(e.date <= d) => Owed(p, d)' = Owed(p, d)
  <1> DEFINE a == LoanAccount[p]
             S == {m \in DOMAIN journal : journal[m].date <= d}
             T == {m \in DOMAIN journal' : journal'[m].date <= d}
             last == Len(journal) + 1
  <1>1. T = IF e.date <= d THEN S \cup {last} ELSE S
    BY AddedEntry
  <1>2. Owed(p, d) = -Moved(a, journal, S)
    BY DEF Owed, Moved
  <1>3. Owed(p, d)' = -Moved(a, journal', T)
    BY DEF Owed, Moved
  <1>4. S \in SUBSET DOMAIN journal
    OBVIOUS
  <1> HIDE DEF S, T, a
  <1>5. /\ Moved(a, journal', S) = Moved(a, journal, S)
        /\ Moved(a, journal, S) \in Int /\ NetOn(a, e.lines) \in Int
        /\ Moved(a, journal', S \cup {last}) = NetOn(a, e.lines) + Moved(a, journal, S)
    <2>1. PICK l, sum, net : /\ l = Len(journal) + 1 /\ sum = Moved(a, journal, S)
                             /\ net = NetOn(a, e.lines)
      OBVIOUS
    <2>2. Moved(a, journal', S) = sum /\ sum \in Int /\ net \in Int
          /\ Moved(a, journal', S \cup {l}) = net + sum
      BY <1>4, <2>1, SumAfter
    <2> QED BY <2>1, <2>2
  <1>6. CASE e.date <= d
    BY <1>1, <1>2, <1>3, <1>5, <1>6 DEF a
  <1>7. CASE ~(e.date <= d)
    BY <1>1, <1>2, <1>3, <1>5, <1>7 DEF a
  <1>8. QED
    BY <1>6, <1>7

(* What an advance and a repayment move on a loan account. *)
LEMMA LoanNets ==
  ASSUME NEW p \in Partners, NEW money \in MoneyAccounts, NEW amount \in LoanAmounts[p],
         NEW q \in Partners
  PROVE  /\ amount \in Nat
         /\ NetOn(LoanAccount[q], AdvanceLines(p, money, amount)) = IF q = p THEN -amount ELSE 0
         /\ NetOn(LoanAccount[q], Swapped(AdvanceLines(p, money, amount))) = IF q = p THEN amount ELSE 0
  <1> DEFINE lines == AdvanceLines(p, money, amount)
             opp == Swapped(lines)
             a == LoanAccount[q]
             Moves(l) == [i \in DOMAIN l |-> IF l[i].account = a
                                              THEN ToBase(l[i].debit, l[i]) - ToBase(l[i].credit, l[i])
                                              ELSE 0]
  <1>1. /\ lines \in Seq(Line) /\ Len(lines) = 2
        /\ lines[1] = BaseLine(money, amount, 0) /\ lines[2] = BaseLine(LoanAccount[p], 0, amount)
        /\ amount \in Nat \ {0} /\ money \in Accounts /\ LoanAccount[p] \in Accounts
        /\ a # money
    BY AdvanceLinesType
  <1>2. a = LoanAccount[p] <=> q = p
    BY LoansAssumption
  <1>3. /\ lines[1].account = money /\ lines[2].account = LoanAccount[p]
        /\ lines[1].debit = amount /\ lines[1].credit = 0
        /\ lines[2].debit = 0 /\ lines[2].credit = amount
        /\ \A i \in {1, 2} : ~IsForeign(lines[i])
    BY <1>1 DEF BaseLine, IsForeign
  <1>4. DOMAIN lines = {1, 2}
    BY <1>1
  <1>5. /\ opp \in Seq(Line) /\ DOMAIN opp = {1, 2}
        /\ \A i \in {1, 2} :
             /\ opp[i].account = lines[i].account
             /\ opp[i].currency = lines[i].currency
             /\ opp[i].debit = lines[i].credit
             /\ opp[i].credit = lines[i].debit
    BY <1>1, <1>4, SwappedType
  <1>6. \A i \in {1, 2} : \A x : ToBase(x, lines[i]) = x /\ ToBase(x, opp[i]) = x
    BY <1>3, <1>5 DEF ToBase, IsForeign
  <1> HIDE DEF lines, opp, a
  <1>7. /\ DOMAIN Moves(lines) = {1, 2} /\ Moves(lines)[1] = 0
        /\ Moves(lines)[2] = (IF q = p THEN -amount ELSE 0)
    BY <1>1, <1>2, <1>3, <1>4, <1>6
  <1>8. /\ DOMAIN Moves(opp) = {1, 2} /\ Moves(opp)[1] = 0
        /\ Moves(opp)[2] = (IF q = p THEN amount ELSE 0)
    BY <1>1, <1>2, <1>3, <1>5, <1>6
  <1>9. Moves(lines) \in [{1, 2} -> Int] /\ Moves(opp) \in [{1, 2} -> Int]
    BY <1>1, <1>7, <1>8
  <1>10. NetOn(a, lines) = Total(Moves(lines)) /\ NetOn(a, opp) = Total(Moves(opp))
    BY DEF NetOn
  <1>11. IsFiniteSet({1, 2})
    <2>1. IsFiniteSet({1})
      BY FS_Singleton
    <2>2. IsFiniteSet({1} \cup {2})
      BY <2>1, FS_AddElement
    <2>3. {1, 2} = {1} \cup {2}
      OBVIOUS
    <2>4. QED
      BY ONLY <2>2, <2>3
  <1> HIDE DEF Moves
  <1>12. ASSUME NEW f \in [{1, 2} -> Int], f[1] = 0 PROVE Total(f) = f[2]
    <2>1. 2 \in {1, 2} /\ \A y \in {1, 2} \ {2} : f[y] = 0
      BY <1>12
    <2>2. QED
      BY <1>11, <2>1, TotalOne
  <1>13. QED
    BY <1>1, <1>7, <1>8, <1>9, <1>10, <1>12 DEF lines, opp, a

\* On no day is a partner's loan account overdrawn.
NeverOverdrawn(p) == \A x \in Dates : Owed(p, x) >= 0

(* What is owed on a day is owed on the day of the last entry up to it that is *)
(* on the account.                                                             *)
LEMMA OwedSince ==
  ASSUME TypeOK, EntriesSound, NEW p \in Partners, NEW t \in Dates, NEW x \in Dates, t <= x,
         \A n \in EntriesOn(LoanAccount[p]) : journal[n].date <= x => journal[n].date <= t
  PROVE  Owed(p, x) = Owed(p, t)
  <1> DEFINE a == LoanAccount[p]
             S == {m \in DOMAIN journal : journal[m].date <= x}
             T == {m \in DOMAIN journal : journal[m].date <= t}
             f == [n \in S |-> NetOn(a, journal[n].lines)]
  <1>1. ASSUME NEW n \in DOMAIN journal
        PROVE  /\ journal[n].date \in Nat
               /\ journal[n].lines \in Seq(Line)
               /\ WellFormed(journal[n].lines)
               /\ NetOn(a, journal[n].lines) \in Int
    <2>1. journal[n] \in Entry
      BY DEF TypeOK
    <2>2. /\ journal[n].date \in Nat
          /\ journal[n].lines \in Seq(Line) /\ WellFormed(journal[n].lines)
      BY <2>1, ConfigurationAssumption DEF Entry, EntriesSound
    <2>3. QED
      BY <2>2, LinesType
  <1>2. t \in Nat /\ x \in Nat
    BY ConfigurationAssumption
  <1>3. T \in SUBSET S /\ S \in SUBSET DOMAIN journal
    BY <1>1, <1>2
  <1>4. IsFiniteSet(S)
    <2>1. IsFiniteSet(DOMAIN journal)
      BY JournalFinite
    <2>2. QED
      BY <1>3, <2>1, FS_Subset
  <1>5. f \in [S -> Int]
    BY <1>1
  <1>6. ASSUME NEW n \in S \ T PROVE f[n] = 0
    <2>1. n \in DOMAIN journal /\ n \notin EntriesOn(a)
      OBVIOUS
    <2>2. \A i \in DOMAIN journal[n].lines : journal[n].lines[i].account # a
      BY <2>1 DEF EntriesOn
    <2>3. NetOn(a, journal[n].lines) = 0
      BY <1>1, <2>1, <2>2, NothingOn
    <2>4. QED
      BY <2>3
  <1>7. Total(f) = Total([n \in T |-> f[n]])
    <2> HIDE DEF f, S, T
    <2>1. QED
      BY <1>3, <1>4, <1>5, <1>6, TotalSupport
  <1>8. [n \in T |-> f[n]] = [n \in T |-> NetOn(a, journal[n].lines)]
    BY <1>3
  <1>9. QED
    BY <1>7, <1>8 DEF Owed

(* What is outstanding is owed on the day and on every later one. *)
LEMMA OutstandingBounds ==
  ASSUME TypeOK, EntriesSound, NEW p \in Partners, NEW d \in Dates, NEW x \in Dates, d <= x,
         NeverOverdrawn(p)
  PROVE  Outstanding(p, d) \in Nat /\ Outstanding(p, d) <= Owed(p, x)
  <1> DEFINE E == {journal[n].date : n \in {m \in EntriesOn(LoanAccount[p]) : journal[m].date >= d}}
             C == {t \in {d} \cup E : t <= x}
             B == {x - t : t \in C}
             V == {Owed(p, e) : e \in {d} \cup E}
  <1>1. d \in Nat /\ x \in Nat /\ Dates \subseteq Nat
    BY ConfigurationAssumption
  <1>2. E \subseteq Dates
    <2>1. \A n \in EntriesOn(LoanAccount[p]) : journal[n] \in Entry
      BY DEF EntriesOn, TypeOK
    <2>2. QED
      BY <2>1 DEF Entry
  <1>3. B \subseteq Nat /\ B # {}
    <2>1. d \in C /\ \A t \in C : t \in Nat /\ t <= x
      BY <1>1, <1>2
    <2> HIDE DEF C
    <2>2. QED
      BY <1>1, <2>1
  <1>4. PICK b \in B : \A c \in B : b <= c
    <2> HIDE DEF B
    <2>1. QED
      BY <1>3, SmallestNumber
  <1>5. PICK t \in C : b = x - t
    OBVIOUS
  <1>6. t \in Dates /\ t \in Nat /\ t <= x /\ d <= t
    BY <1>1, <1>2
  <1>7. ASSUME NEW n \in EntriesOn(LoanAccount[p]), journal[n].date <= x
        PROVE  journal[n].date <= t
    <2>1. journal[n] \in Entry
      BY DEF EntriesOn, TypeOK
    <2>2. journal[n].date \in Nat
      BY <2>1, <1>1 DEF Entry
    <2>3. CASE journal[n].date >= d
      <3>1. journal[n].date \in C
        BY <1>7, <2>3
      <3>2. x - t <= x - journal[n].date
        BY <1>4, <1>5, <3>1
      <3>3. QED
        BY <1>1, <1>6, <2>2, <3>2
    <2>4. CASE ~(journal[n].date >= d)
      BY <1>1, <1>6, <2>2, <2>4
    <2>5. QED
      BY <2>3, <2>4
  <1>8. Owed(p, x) = Owed(p, t)
    BY <1>6, <1>7, OwedSince
  <1>9. V \subseteq Nat
    <2>1. \A e \in {d} \cup E : Owed(p, e) \in Int /\ Owed(p, e) >= 0
      BY <1>2, OwedInt DEF NeverOverdrawn
    <2>2. QED
      BY <2>1
  <1>10. Owed(p, t) \in V
    OBVIOUS
  <1>11. Outstanding(p, d) = Min(V)
    BY DEF Outstanding
  <1> HIDE DEF V
  <1>12. QED
    BY <1>8, <1>9, <1>10, <1>11, MinFacts

(* No step takes more back than was lent. *)
LEMMA LoansPreserved ==
  ASSUME BooksOK, BooksStep, LoansNeverOverdrawn
  PROVE  LoansNeverOverdrawn'
  <1>1. TypeOK /\ EntriesSound /\ Dates \subseteq Nat
    BY ConfigurationAssumption DEF BooksOK, JournalInv
  <1> DEFINE a(p) == LoanAccount[p]
             OnlyRepaid(p) == \A n \in EntriesOn(a(p)) :
               NetOn(a(p), journal[n].lines) > 0 => journal[n].source = "partner_loan"
             OnlyRepaidAfter(p) == \A n \in {n \in DOMAIN journal' :
                                      \E i \in DOMAIN journal'[n].lines : journal'[n].lines[i].account = a(p)} :
               NetOn(a(p), journal'[n].lines) > 0 => journal'[n].source = "partner_loan"
  <1>2. LoansNeverOverdrawn = \A p \in Partners : OnlyRepaid(p) => NeverOverdrawn(p)
    BY DEF LoansNeverOverdrawn, NeverOverdrawn
  <1>3. LoansNeverOverdrawn' = \A p \in Partners : OnlyRepaidAfter(p) => NeverOverdrawn(p)'
    BY DEF LoansNeverOverdrawn, NeverOverdrawn, EntriesOn
  <1>4. ASSUME UNCHANGED journal PROVE LoansNeverOverdrawn'
    BY <1>4 DEF LoansNeverOverdrawn, EntriesOn, Owed
  <1>5. ASSUME NEW e, Adds1(e),
               \/ Unrelated(e)
               \/ \E y \in Years : Closes(y, e)
               \/ \E q \in Partners : Lends(q, e) \/ Repays(q, e)
        PROVE  LoansNeverOverdrawn'
    <2> SUFFICES ASSUME NEW p \in Partners, OnlyRepaidAfter(p), NEW x \in Dates
                 PROVE  Owed(p, x)' >= 0
      BY <1>3 DEF NeverOverdrawn
    <2>1. /\ e \in Entry /\ WellFormed(e.lines) /\ Len(journal) + 1 \in DOMAIN journal'
          /\ journal'[Len(journal) + 1].source = e.source
          /\ journal'[Len(journal) + 1].lines = e.lines
          /\ \A m \in DOMAIN journal :
               /\ m \in DOMAIN journal'
               /\ journal'[m].source = journal[m].source
               /\ journal'[m].lines = journal[m].lines
      BY <1>1, <1>5, AddedEntry
    <2>2. NeverOverdrawn(p)
      <3>1. OnlyRepaid(p)
        BY <2>1 DEF EntriesOn
      <3>2. QED
        BY <1>2, <3>1
    <2>3. e.date \in Dates /\ e.date \in Nat /\ x \in Nat
      BY <1>1, <2>1 DEF Entry
    <2>4. /\ NetOn(a(p), e.lines) \in Int /\ Owed(p, x) \in Int /\ Owed(p, x) >= 0
          /\ e.date <= x => Owed(p, x)' = Owed(p, x) - NetOn(a(p), e.lines)
          /\ ~(e.date <= x) => Owed(p, x)' = Owed(p, x)
      BY <1>1, <1>5, <2>2, OwedAfter, OwedInt DEF NeverOverdrawn
    <2>5. NetOn(a(p), e.lines) > 0 => e.source = "partner_loan"
      <3>1. ASSUME NetOn(a(p), e.lines) > 0
            PROVE  \E i \in DOMAIN e.lines : e.lines[i].account = a(p)
        <4>1. e.lines \in Seq(Line)
          BY <2>1 DEF Entry
        <4>2. ASSUME \A i \in DOMAIN e.lines : e.lines[i].account # a(p)
              PROVE  NetOn(a(p), e.lines) = 0
          BY <4>1, <4>2, NothingOn
        <4>3. QED
          BY <3>1, <4>2
      <3>2. QED
        BY <2>1, <3>1
    <2> HIDE DEF a
    <2>6. CASE ~(NetOn(a(p), e.lines) > 0)
      BY <2>3, <2>4, <2>6
    <2>7. CASE NetOn(a(p), e.lines) > 0
      <3>1. e.source = "partner_loan"
        BY <2>5, <2>7
      <3>2. PICK q \in Partners : Lends(q, e) \/ Repays(q, e)
        BY <1>5, <3>1 DEF Unrelated, Closes
      <3>3. ~Lends(q, e)
        <4>1. ASSUME NEW money \in MoneyAccounts, NEW amount \in LoanAmounts[q],
                     e.lines = AdvanceLines(q, money, amount)
              PROVE  FALSE
          <5>1. /\ amount \in Nat
                /\ NetOn(a(p), e.lines) = IF p = q THEN -amount ELSE 0
            BY <4>1, LoanNets DEF a
          <5>2. QED
            BY <2>7, <5>1
        <4>2. QED
          BY <4>1 DEF Lends
      <3>4. PICK money \in MoneyAccounts, amount \in LoanAmounts[q] :
              /\ e.lines = Swapped(AdvanceLines(q, money, amount))
              /\ amount <= Outstanding(q, e.date)
        BY <3>2, <3>3 DEF Repays
      <3>5. amount \in Nat /\ NetOn(a(p), e.lines) = IF p = q THEN amount ELSE 0
        BY <3>4, LoanNets DEF a
      <3>6. p = q /\ NetOn(a(p), e.lines) = amount
        BY <2>7, <3>5
      <3>7. CASE e.date <= x
        <4>1. Outstanding(p, e.date) \in Nat /\ Outstanding(p, e.date) <= Owed(p, x)
          BY <1>1, <2>2, <2>3, <3>7, OutstandingBounds
        <4>2. QED
          BY <2>4, <3>4, <3>5, <3>6, <3>7, <4>1
      <3>8. CASE ~(e.date <= x)
        BY <2>4, <3>8
      <3>9. QED
        BY <3>7, <3>8
    <2>8. QED
      BY <2>6, <2>7
  <1>6. QED
    BY <1>4, <1>5 DEF BooksStep, Adds1, Closes, Lends, Repays

(* A partner's loan account is overdrawn on no day, whatever the dates of     *)
(* advances, repayments and interest (loans.ts recordPartnerLoan).            *)
THEOREM NoLoanOverdrawn == YearEndSpec => []LoansNeverOverdrawn
  <1>1. YearEndInit => LoansNeverOverdrawn
    <2> SUFFICES ASSUME YearEndInit, NEW p \in Partners, NEW x \in Dates
                 PROVE  Owed(p, x) >= 0
      BY DEF LoansNeverOverdrawn
    <2>1. DOMAIN [n \in {m \in DOMAIN journal : journal[m].date <= x} |->
                    NetOn(LoanAccount[p], journal[n].lines)] = {}
      BY DEF YearEndInit, Init
    <2>2. Owed(p, x) = -0
      BY <2>1, TotalEmpty DEF Owed
    <2>3. QED
      BY <2>2
  <1>2. BooksOK /\ LoansNeverOverdrawn /\ [YearEndNext]_YearEndVars => LoansNeverOverdrawn'
    BY BooksShape, LoansPreserved
  <1>3. QED
    BY <1>1, <1>2, BooksInvariant, PTL DEF YearEndSpec

------------------------------------------------------------------------------
(* What a close leaves behind. *)

(* A closing entry moves on each income and expense account exactly what      *)
(* stood on it, the other way.                                                *)
LEMMA ClosingMoves ==
  ASSUME TypeOK, EntriesSound, PartnersOK, NEW y \in Years,
         ClosingLines(y) \in Seq(Line), WellFormed(ClosingLines(y)),
         NEW a \in ProfitAndLoss
  PROVE  NetOn(a, ClosingLines(y)) = -StandingAt(a, Span[y].end)
  <1> DEFINE d == Span[y].end
             c == SetToSeq(ToClose(d))
             e == EmptyingLines(d)
             r == ResultLines(y, Result(d))
             lines == ClosingLines(y)
             Move(i) == IF lines[i].account = a
                        THEN ToBase(lines[i].debit, lines[i]) - ToBase(lines[i].credit, lines[i])
                        ELSE 0
             f == [i \in DOMAIN lines |-> Move(i)]
  <1>1. /\ lines = e \o r /\ e \in Seq(AskedLine) /\ r \in Seq(AskedLine)
        /\ IsFiniteSet(ToClose(d)) /\ ToClose(d) \subseteq Accounts
    BY ClosingLinesFacts, ToCloseFacts
  <1>2. /\ DOMAIN e = DOMAIN c /\ DOMAIN c = 1..Len(c) /\ Len(c) \in Nat
        /\ \A i \in DOMAIN e : c[i] \in ToClose(d) /\ e[i] = ClosingLine(c[i], d)
        /\ \A i, j \in DOMAIN c : c[i] = c[j] => i = j
        /\ \A x \in ToClose(d) : \E i \in DOMAIN c : c[i] = x
    BY <1>1, EmptyingLinesFacts, SetToSeqFacts
  <1>3. \A i \in DOMAIN r : r[i].account \notin ProfitAndLoss
    BY ToCloseFacts, ResultLinesFacts
  <1>4. \A x : StandingAt(x, d) \in Int
    BY StandingAtInt
  <1>5. \A x \in ToClose(d) :
          /\ ClosingLine(x, d).account = x
          /\ \A z : ToBase(z, ClosingLine(x, d)) = z
          /\ ClosingLine(x, d).debit - ClosingLine(x, d).credit = -StandingAt(x, d)
    <2> HIDE DEF c, e, r, lines, d
    <2>1. QED
      BY <1>1, <1>4, ClosingLineEmpties
  <1> HIDE DEF c, e, r, lines, d
  <1>6. /\ \A i \in DOMAIN e : i \in DOMAIN lines /\ lines[i] = e[i]
        /\ \A i \in DOMAIN lines : i \in DOMAIN e \/ \E j \in DOMAIN r : lines[i] = r[j]
    <2>1. /\ Len(e) \in Nat /\ Len(r) \in Nat /\ DOMAIN e = 1..Len(e) /\ DOMAIN r = 1..Len(r)
          /\ DOMAIN lines = 1..(Len(e) + Len(r))
          /\ \A i \in 1..(Len(e) + Len(r)) : lines[i] = IF i <= Len(e) THEN e[i] ELSE r[i - Len(e)]
      BY <1>1, ConcatProperties
    <2>2. \A i \in 1..(Len(e) + Len(r)) : i \in 1..Len(e) \/ i - Len(e) \in 1..Len(r)
      BY <2>1
    <2>3. QED
      BY <2>1, <2>2
  <1>7. ASSUME NEW i \in DOMAIN lines, lines[i].account = a
        PROVE  i \in DOMAIN c /\ c[i] = a /\ a \in ToClose(d)
    BY <1>2, <1>3, <1>5, <1>6, <1>7
  <1>8. /\ IsFiniteSet(DOMAIN lines)
        /\ \A i \in DOMAIN lines : Move(i) \in Int
        /\ lines \in Seq(Line)
    <2>1. lines \in Seq(Line) /\ WellFormed(lines)
      BY DEF lines
    <2>2. QED
      BY <2>1, LinesType
  <1>9. CASE a \in ToClose(d)
    <2>1. PICK k \in DOMAIN c : c[k] = a
      BY <1>2, <1>9
    <2>2. k \in DOMAIN lines /\ lines[k] = ClosingLine(a, d)
      BY <1>2, <1>6, <2>1
    <2>3. Move(k) = -StandingAt(a, d)
      BY <1>5, <1>9, <2>2
    <2>4. \A i \in DOMAIN lines \ {k} : Move(i) = 0
      BY <1>2, <1>7, <2>1
    <2>5. /\ f \in [DOMAIN lines -> Int] /\ f[k] = -StandingAt(a, d)
          /\ \A i \in DOMAIN lines \ {k} : f[i] = 0
      BY <1>8, <2>2, <2>3, <2>4
    <2>6. NetOn(a, lines) = Total(f)
      BY DEF NetOn
    <2> HIDE DEF f
    <2>7. Total(f) = f[k]
      <3>1. PICK S : S = DOMAIN lines
        OBVIOUS
      <3>2. IsFiniteSet(S) /\ f \in [S -> Int] /\ k \in S /\ \A i \in S \ {k} : f[i] = 0
        BY <1>8, <2>2, <2>5, <3>1
      <3>3. QED
        BY ONLY <3>2, TotalOne
    <2>8. QED
      BY <2>5, <2>6, <2>7 DEF lines, d
  <1>10. CASE a \notin ToClose(d)
    <2>1. NetOn(a, lines) = 0
      BY <1>7, <1>8, <1>10, NothingOn
    <2>2. StandingAt(a, d) = 0
      BY <1>10 DEF ToClose
    <2>3. -StandingAt(a, d) = 0
      <3>1. \A x \in Int : x >= 0 /\ x <= 0 => -x = 0
        OBVIOUS
      <3>2. StandingAt(a, d) >= 0 /\ StandingAt(a, d) <= 0
        BY <2>2
      <3>3. QED
        BY <1>4, <3>1, <3>2, Zenon
    <2>4. QED
      BY <2>1, <2>3 DEF lines, d
  <1>11. QED
    BY <1>9, <1>10

(* The entry a close posts leaves nothing standing. *)
LEMMA ClosesEmpties ==
  ASSUME BooksOK, NEW y \in Years, NEW e, Closes(y, e), NEW a \in ProfitAndLoss,
         NEW last, last = Len(journal) + 1
  PROVE  Standing(a, 1..last, {t \in Dates : t <= Span[y].end})' = 0
  <1> DEFINE days == {t \in Dates : t <= Span[y].end}
             S == {m \in DOMAIN journal : journal[m].date \in days}
             T == {m \in 1..last : journal'[m].date \in days}
  <1>1. TypeOK /\ EntriesSound /\ PartnersOK
    BY DEF BooksOK, JournalInv
  <1>2. Posts(e) /\ Adds1(e) /\ e.lines = ClosingLines(y) /\ e.date = Span[y].end
    BY DEF Closes, Adds1
  <1>3. /\ e \in Entry /\ WellFormed(e.lines) /\ Len(journal) \in Nat
        /\ 1..last = DOMAIN journal \cup {last} /\ last \notin DOMAIN journal
        /\ journal'[last].date = e.date
        /\ \A m \in DOMAIN journal : journal'[m].date = journal[m].date
    BY <1>1, <1>2, AddedEntry
  <1>4. e.date \in days
    BY <1>2, SpanFacts
  <1>5. T = S \cup {last}
    BY <1>3, <1>4
  <1>6. NetOn(a, e.lines) = -StandingAt(a, Span[y].end)
    <2>1. ClosingLines(y) \in Seq(Line) /\ WellFormed(ClosingLines(y))
      BY <1>2, <1>3 DEF Entry
    <2> HIDE DEF ClosingLines
    <2>2. QED
      BY <1>1, <1>2, <2>1, ClosingMoves
  <1>7. StandingAt(a, Span[y].end) = Moved(a, journal, S)
    BY DEF StandingAt, Standing, Moved
  <1>8. Standing(a, 1..last, {t \in Dates : t <= Span[y].end})' = Moved(a, journal', T)
    BY DEF Standing, Moved
  <1>9. PICK sum, net : sum = Moved(a, journal, S) /\ net = NetOn(a, e.lines)
    OBVIOUS
  <1>10. S \in SUBSET DOMAIN journal
    OBVIOUS
  <1> HIDE DEF S, T
  <1>11. sum \in Int /\ net \in Int /\ Moved(a, journal', S \cup {last}) = net + sum
    BY <1>1, <1>2, <1>9, <1>10, SumAfter
  <1>12. net = -sum
    BY <1>6, <1>7, <1>9
  <1>13. net + sum = 0
    BY <1>11, <1>12
  <1>14. QED
    BY <1>5, <1>8, <1>11, <1>13

(* Later entries do not reach back into what a close left. *)
LEMMA ClosesPreserved ==
  ASSUME BooksOK, BooksStep, EngineStep, CloseEmptiesProfitAndLoss
  PROVE  CloseEmptiesProfitAndLoss'
  <1>1. TypeOK
    BY DEF BooksOK, JournalInv
  <1>2. CloseEmptiesProfitAndLoss' =
          \A y \in Years : \A c \in ClosesOf(y)' : \A a \in ProfitAndLoss :
            Standing(a, 1..c, {t \in Dates : t <= Span[y].end})' = 0
    BY DEF CloseEmptiesProfitAndLoss
  <1>3. ASSUME NEW y \in Years, NEW c \in ClosesOf(y), NEW a \in ProfitAndLoss
        PROVE  Standing(a, 1..c, {t \in Dates : t <= Span[y].end})' = 0
    <2>1. 1..c \in SUBSET DOMAIN journal
      <3>1. c \in DOMAIN journal /\ DOMAIN journal = 1..Len(journal) /\ Len(journal) \in Nat
        BY <1>1 DEF ClosesOf, TypeOK
      <3>2. QED
        BY <3>1
    <2>2. Standing(a, 1..c, {t \in Dates : t <= Span[y].end}) = 0
      BY DEF CloseEmptiesProfitAndLoss
    <2>3. PICK numbers, days : numbers = 1..c /\ days = {t \in Dates : t <= Span[y].end}
      OBVIOUS
    <2>4. Standing(a, numbers, days)' = Standing(a, numbers, days)
      BY <1>1, <2>1, <2>3, StandingKept
    <2>5. QED
      BY <2>2, <2>3, <2>4
  <1>4. ASSUME NEW y \in Years, NEW c \in ClosesOf(y)', c \notin ClosesOf(y)
        PROVE  \E e : Closes(y, e) /\ c = Len(journal) + 1
    <2>1. /\ c \in DOMAIN journal' /\ journal'[c].source = "year_end_close"
          /\ journal'[c].ref = y
      BY DEF ClosesOf
    <2>2. c \notin DOMAIN journal
      BY <1>1, <1>4, <2>1, EntriesAfter DEF ClosesOf
    <2>3. PICK e : /\ Adds1(e)
                   /\ \/ Unrelated(e)
                      \/ \E z \in Years : Closes(z, e)
                      \/ \E q \in Partners : Lends(q, e) \/ Repays(q, e)
      BY <2>1, <2>2 DEF BooksStep, Adds1, Closes, Lends, Repays
    <2>4. c = Len(journal) + 1 /\ e.source = "year_end_close"
      BY <1>1, <2>1, <2>2, <2>3, AddedEntry
    <2>5. PICK z \in Years : Closes(z, e)
      BY <2>3, <2>4 DEF Unrelated, Lends, Repays
    <2>6. Posts(e) /\ e.ref = z
      BY <2>5 DEF Closes
    <2>7. journal'[Len(journal) + 1] = e
      BY <1>1, <2>6, PostsEntries
    <2>8. z = y
      BY <2>1, <2>4, <2>6, <2>7
    <2>9. QED
      BY <2>4, <2>5, <2>8
  <1>5. QED
    BY <1>2, <1>3, <1>4, ClosesEmpties

(* A close empties the income and expense accounts up to its day, whatever    *)
(* came before it, in whichever year (yearEnd.ts closeFinancialYear).         *)
THEOREM ClosesEmptyProfitAndLoss == YearEndSpec => []CloseEmptiesProfitAndLoss
  <1>1. YearEndInit => CloseEmptiesProfitAndLoss
    BY DEF YearEndInit, Init, CloseEmptiesProfitAndLoss, ClosesOf
  <1>2. BooksOK /\ CloseEmptiesProfitAndLoss /\ [YearEndNext]_YearEndVars => CloseEmptiesProfitAndLoss'
    BY BooksShape, ClosesPreserved
  <1>3. QED
    BY <1>1, <1>2, BooksInvariant, PTL DEF YearEndSpec

------------------------------------------------------------------------------
(* What a year is reported to have made. *)

(* The accounts results are on, and go to, are finitely many. *)
LEMMA AccountsFinite == IsFiniteSet(ProfitAndLoss \cup Owners) /\ IsFiniteSet(ProfitAndLoss)
  <1>1. IsFiniteSet(ProfitAndLoss) /\ IsFiniteSet(Partners)
    BY YearEndAssumption, PartnersAssumption DEF ProfitAndLoss
  <1> DEFINE T == {CurrentAccount[p] : p \in Partners}
             f == [p \in Partners |-> CurrentAccount[p]]
  <1>2. f \in Surjection(Partners, T)
    BY DEF Surjection
  <1>3. IsFiniteSet(T) /\ IsFiniteSet({RetainedEarnings})
    BY <1>1, <1>2, FS_Surjection, FS_Singleton
  <1>4. IsFiniteSet(Owners)
    BY <1>3, FS_Union DEF Owners
  <1>5. QED
    BY <1>1, <1>4, FS_Union

(* Lines that all lie on some accounts move nothing on them together: what *)
(* balances is only moved between them.                                    *)
LEMMA MovedBetween ==
  ASSUME NEW lines \in Seq(Line), WellFormed(lines), Balanced(lines),
         NEW S, IsFiniteSet(S), \A i \in DOMAIN lines : lines[i].account \in S
  PROVE  Total([a \in S |-> NetOn(a, lines)]) = 0
  <1>1. PICK D, key, debits, credits, moves, minus :
          /\ D = DOMAIN lines
          /\ key = [i \in D |-> lines[i].account]
          /\ debits = [i \in D |-> ToBase(lines[i].debit, lines[i])]
          /\ credits = [i \in D |-> ToBase(lines[i].credit, lines[i])]
          /\ minus = [i \in D |-> -credits[i]]
          /\ moves = [i \in D |-> debits[i] - credits[i]]
    OBVIOUS
  <1>2. /\ IsFiniteSet(D)
        /\ debits \in [D -> Int] /\ credits \in [D -> Int]
        /\ BaseDebits(lines) = Total(debits) /\ BaseCredits(lines) = Total(credits)
    BY <1>1, LinesType DEF BaseDebits, BaseCredits
  <1>3. minus \in [D -> Int] /\ moves \in [D -> Int] /\ \A i \in D : moves[i] = debits[i] + minus[i]
    BY <1>1, <1>2
  <1>4. Total(minus) = -Total(credits)
    BY <1>1, <1>2, TotalMinus
  <1>5. Total(moves) = Total(debits) + Total(minus)
    BY <1>2, <1>3, TotalSum
  <1>6. Total(moves) = 0
    <2>1. Total(debits) = Total(credits)
      BY <1>2 DEF Balanced
    <2>2. Total(debits) \in Int /\ Total(credits) \in Int
      BY <1>2, TotalType
    <2>3. QED
      BY <1>4, <1>5, <2>1, <2>2
  <1>7. ASSUME NEW a \in S PROVE NetOn(a, lines) = OfKey(moves, key, D, a)
    <2>1. PICK T, g : T = {i \in D : key[i] = a}
                      /\ g = [i \in D |-> IF lines[i].account = a THEN moves[i] ELSE 0]
      OBVIOUS
    <2>2. /\ g \in [D -> Int] /\ T \subseteq D /\ \A i \in D \ T : g[i] = 0
          /\ [i \in T |-> g[i]] = [i \in T |-> moves[i]]
      BY <1>1, <1>3, <2>1
    <2>3. NetOn(a, lines) = Total(g)
      <3>1. g = [i \in DOMAIN lines |->
                   IF lines[i].account = a
                   THEN ToBase(lines[i].debit, lines[i]) - ToBase(lines[i].credit, lines[i]) ELSE 0]
        BY <1>1, <2>1
      <3>2. QED
        BY <3>1, Zenon DEF NetOn
    <2>4. Total(g) = Total([i \in T |-> g[i]])
      <3>1. IsFiniteSet(D) /\ g \in [D -> Int] /\ T \subseteq D /\ \A i \in D \ T : g[i] = 0
        BY <1>2, <2>2
      <3>2. QED
        BY ONLY <3>1, TotalSupport
    <2>5. QED
      BY <2>1, <2>2, <2>3, <2>4, Zenon DEF OfKey
  <1>8. PICK by : by = [a \in S |-> NetOn(a, lines)]
    OBVIOUS
  <1>9. Total(by) = Total(moves)
    <2>1. /\ IsFiniteSet(S) /\ IsFiniteSet(D)
          /\ \A i \in D : moves[i] \in Int /\ key[i] \in S
          /\ DOMAIN moves = D
          /\ DOMAIN by = S /\ \A a \in S : by[a] = OfKey(moves, key, D, a)
      BY <1>1, <1>2, <1>3, <1>7, <1>8
    <2>2. QED
      BY ONLY <2>1, TotalGrouped
  <1>10. QED
    BY <1>6, <1>8, <1>9

(* The accounts of a close: those it empties, and the owners'. *)
LEMMA ClosingAccounts ==
  ASSUME TypeOK, EntriesSound, PartnersOK, NEW y \in Years
  PROVE  \A i \in DOMAIN ClosingLines(y) : ClosingLines(y)[i].account \in ProfitAndLoss \cup Owners
  <1> DEFINE d == Span[y].end
             e == EmptyingLines(d)
             r == ResultLines(y, Result(d))
             lines == ClosingLines(y)
  <1>1. lines = e \o r /\ e \in Seq(AskedLine) /\ r \in Seq(AskedLine)
    BY ClosingLinesFacts
  <1>2. \A i \in DOMAIN e : e[i].account \in ProfitAndLoss
    <2>1. \A i \in DOMAIN e : \E a \in ToClose(d) : e[i] = ClosingLine(a, d)
      BY EmptyingLinesFacts
    <2>2. \A a \in ToClose(d) : a \in ProfitAndLoss /\ ClosingLine(a, d).account = a
      <3>1. \A a \in ToClose(d) : a \in ProfitAndLoss /\ a \in Accounts
        BY ToCloseFacts
      <3>2. \A a \in ToClose(d) : StandingAt(a, d) \in Int
        BY StandingAtInt
      <3> HIDE DEF d
      <3>3. QED
        BY <3>1, <3>2, ClosingLineEmpties
    <2>3. QED
      BY <2>1, <2>2
  <1>3. \A i \in DOMAIN r : r[i].account \in Owners
    BY ToCloseFacts, ResultLinesFacts
  <1> HIDE DEF e, r, lines, d
  <1>4. /\ Len(e) \in Nat /\ Len(r) \in Nat /\ DOMAIN e = 1..Len(e) /\ DOMAIN r = 1..Len(r)
        /\ DOMAIN lines = 1..(Len(e) + Len(r))
        /\ \A i \in 1..(Len(e) + Len(r)) : lines[i] = IF i <= Len(e) THEN e[i] ELSE r[i - Len(e)]
    BY <1>1, ConcatProperties
  <1>5. \A i \in 1..(Len(e) + Len(r)) : i \in 1..Len(e) \/ i - Len(e) \in 1..Len(r)
    BY <1>4
  <1>6. \A i \in DOMAIN lines : lines[i].account \in ProfitAndLoss \cup Owners
    BY <1>2, <1>3, <1>4, <1>5
  <1>7. QED
    BY <1>6 DEF lines

\* A close moves money between the income and expense accounts and the owners'.
ClosesStayWithOwners ==
  \A n \in DOMAIN journal : journal[n].source = "year_end_close" =>
    \A i \in DOMAIN journal[n].lines : journal[n].lines[i].account \in ProfitAndLoss \cup Owners

(* Every step keeps it so. *)
LEMMA ClosesStayPreserved ==
  ASSUME BooksOK, BooksStep, EngineStep, ClosesStayWithOwners
  PROVE  ClosesStayWithOwners'
  <1>1. TypeOK /\ EntriesSound /\ PartnersOK
    BY DEF BooksOK, JournalInv
  <1> SUFFICES ASSUME NEW n \in DOMAIN journal', journal'[n].source = "year_end_close"
               PROVE  \A i \in DOMAIN journal'[n].lines :
                        journal'[n].lines[i].account \in ProfitAndLoss \cup Owners
    BY DEF ClosesStayWithOwners, Owners, ProfitAndLoss
  <1>2. CASE n \in DOMAIN journal
    BY <1>1, <1>2, EntriesAfter DEF ClosesStayWithOwners
  <1>3. CASE n \notin DOMAIN journal
    <2>1. PICK e : /\ Adds1(e)
                   /\ \/ Unrelated(e)
                      \/ \E z \in Years : Closes(z, e)
                      \/ \E q \in Partners : Lends(q, e) \/ Repays(q, e)
      BY <1>3 DEF BooksStep, Adds1, Closes, Lends, Repays
    <2>2. n = Len(journal) + 1 /\ e.source = "year_end_close" /\ journal'[n].lines = e.lines
      BY <1>1, <1>3, <2>1, AddedEntry
    <2>3. PICK z \in Years : Closes(z, e)
      BY <2>1, <2>2 DEF Unrelated, Lends, Repays
    <2>4. e.lines = ClosingLines(z)
      BY <2>3 DEF Closes
    <2>5. QED
      BY <1>1, <2>2, <2>4, ClosingAccounts
  <1>4. QED
    BY <1>2, <1>3

(* What a reversal reverses comes before it, and its lines are on the same accounts. *)
LEMMA ReversesEarlier ==
  ASSUME TypeOK, LinksSound, NEW n \in DOMAIN journal, journal[n].reversalOf # 0
  PROVE  LET r == journal[n].reversalOf IN
         /\ r \in DOMAIN journal /\ r < n
         /\ DOMAIN journal[n].lines = DOMAIN journal[r].lines
         /\ \A i \in DOMAIN journal[n].lines :
              journal[n].lines[i].account = journal[r].lines[i].account
  <1> DEFINE r == journal[n].reversalOf
  <1>1. DOMAIN journal = 1..Len(journal) /\ Len(journal) \in Nat
    BY DEF TypeOK
  <1>2. r \in 1..(n - 1) /\ journal[r].reversedBy = n
    BY DEF LinksSound
  <1>3. r \in DOMAIN journal /\ r < n /\ n # 0
    BY <1>1, <1>2
  <1>4. journal[n].lines = Swapped(journal[r].lines)
    BY <1>2, <1>3 DEF LinksSound
  <1>5. journal[r].lines \in Seq(Line)
    <2>1. journal[r] \in Entry
      BY <1>3 DEF TypeOK
    <2>2. QED
      BY <2>1 DEF Entry
  <1>6. QED
    BY <1>3, <1>4, <1>5, SwappedType

(* What the reported result leaves out moves nothing but results. *)
LEMMA LeftOutStays ==
  ASSUME TypeOK, LinksSound, ClosesStayWithOwners,
         NEW n \in DOMAIN journal, IsCloseOrItsReversal(n)
  PROVE  \A i \in DOMAIN journal[n].lines :
           journal[n].lines[i].account \in ProfitAndLoss \cup Owners
  <1>1. CASE journal[n].source = "year_end_close"
    BY <1>1 DEF ClosesStayWithOwners
  <1>2. CASE journal[n].reversalOf # 0 /\ journal[journal[n].reversalOf].source = "year_end_close"
    BY <1>2, ReversesEarlier DEF ClosesStayWithOwners
  <1>3. QED
    BY <1>1, <1>2 DEF IsCloseOrItsReversal

(* What it counts moves nothing on the owners' accounts: the first entry that *)
(* did would have to reverse an earlier one that does, which is then a close, *)
(* or reverses one and so is put back.                                        *)
LEMMA CountedStays ==
  ASSUME TypeOK, LinksSound, OnlyClosesReachOwners,
         \A n \in DOMAIN journal : ~RestoresAClose(n)
  PROVE  \A n \in DOMAIN journal : ~IsCloseOrItsReversal(n) =>
           \A i \in DOMAIN journal[n].lines : journal[n].lines[i].account \notin Owners
  <1> DEFINE Bad == {n \in DOMAIN journal : ~IsCloseOrItsReversal(n) /\
                        \E i \in DOMAIN journal[n].lines : journal[n].lines[i].account \in Owners}
  <1>1. SUFFICES ASSUME Bad # {} PROVE FALSE
    OBVIOUS
  <1>2. Bad \subseteq Nat
    BY DEF TypeOK
  <1>3. PICK n \in Bad : \A m \in Bad : n <= m
    <2> HIDE DEF Bad
    <2>1. QED
      BY <1>1, <1>2, SmallestNumber
  <1>4. n \in DOMAIN journal /\ ~IsCloseOrItsReversal(n) /\ n \in Nat
    BY <1>2, <1>3
  <1>5. PICK i \in DOMAIN journal[n].lines : journal[n].lines[i].account \in Owners
    BY <1>3
  <1>6. journal[n].reversalOf # 0
    BY <1>4, <1>5 DEF OnlyClosesReachOwners, EntriesOn, IsCloseOrItsReversal
  <1>7. PICK r : /\ r = journal[n].reversalOf /\ r \in DOMAIN journal /\ r < n
                 /\ i \in DOMAIN journal[r].lines
                 /\ journal[r].lines[i].account \in Owners
    BY <1>4, <1>5, <1>6, ReversesEarlier
  <1>8. r \notin Bad
    <2>1. r \in Nat
      BY <1>7 DEF TypeOK
    <2> HIDE DEF Bad
    <2>2. QED
      BY <1>3, <1>4, <1>7, <2>1
  <1>9. IsCloseOrItsReversal(r)
    BY <1>7, <1>8
  <1>10. QED
    BY <1>4, <1>6, <1>7, <1>9 DEF IsCloseOrItsReversal, RestoresAClose

(* Of each entry, what the report counts is what it moves in all on the income *)
(* and expense accounts and the owners'.                                       *)
LEMMA EntryReported ==
  ASSUME TypeOK, EntriesSound, LinksSound, ClosesStayWithOwners, OnlyClosesReachOwners,
         \A m \in DOMAIN journal : ~RestoresAClose(m), NEW n \in DOMAIN journal
  PROVE  Total([a \in ProfitAndLoss |->
                  IF IsCloseOrItsReversal(n) THEN 0 ELSE NetOn(a, journal[n].lines)])
           = Total([a \in ProfitAndLoss \cup Owners |-> NetOn(a, journal[n].lines)])
  <1> DEFINE lines == journal[n].lines
             S == ProfitAndLoss \cup Owners
  <1>1. lines \in Seq(Line) /\ WellFormed(lines) /\ Balanced(lines)
    <2>1. journal[n] \in Entry
      BY DEF TypeOK
    <2>2. QED
      BY <2>1 DEF Entry, EntriesSound
  <1>2. IsFiniteSet(S) /\ IsFiniteSet(ProfitAndLoss)
    BY AccountsFinite
  <1>3. \A a : NetOn(a, lines) \in Int
    BY <1>1, LinesType
  <1>4. CASE IsCloseOrItsReversal(n)
    <2>1. \A i \in DOMAIN lines : lines[i].account \in S
      BY <1>4, LeftOutStays
    <2>2. Total([a \in S |-> NetOn(a, lines)]) = 0
      <3> HIDE DEF S, lines
      <3>1. QED
        BY <1>1, <1>2, <2>1, MovedBetween
    <2>3. PICK g : g = [a \in ProfitAndLoss |-> IF IsCloseOrItsReversal(n) THEN 0 ELSE NetOn(a, lines)]
      OBVIOUS
    <2>4. g \in [ProfitAndLoss -> Int] /\ \A a \in ProfitAndLoss : g[a] = 0
      BY <1>4, <2>3
    <2>5. Total(g) = 0
      BY <1>2, <2>4, TotalZero
    <2>6. QED
      BY <2>2, <2>3, <2>5
  <1>5. CASE ~IsCloseOrItsReversal(n)
    <2>1. \A i \in DOMAIN lines : lines[i].account \notin Owners
      BY <1>5, CountedStays
    <2>2. PICK g : g = [a \in S |-> NetOn(a, lines)]
      OBVIOUS
    <2>3. /\ g \in [S -> Int] /\ ProfitAndLoss \subseteq S
          /\ \A a \in S \ ProfitAndLoss : g[a] = 0
      BY <1>1, <1>3, <2>1, <2>2, NothingOn
    <2>4. Total(g) = Total([a \in ProfitAndLoss |-> g[a]])
      <3> HIDE DEF S
      <3>1. QED
        BY <1>2, <2>3, TotalSupport
    <2>5. [a \in ProfitAndLoss |-> g[a]] =
            [a \in ProfitAndLoss |-> IF IsCloseOrItsReversal(n) THEN 0 ELSE NetOn(a, lines)]
      BY <1>5, <2>2
    <2>6. QED
      BY <2>2, <2>4, <2>5
  <1>6. QED
    BY <1>4, <1>5

(* So with the entries of a year together. *)
LEMMA YearReported ==
  ASSUME TypeOK, EntriesSound, LinksSound, ClosesStayWithOwners, OnlyClosesReachOwners,
         \A m \in DOMAIN journal : ~RestoresAClose(m), NEW y \in Years
  PROVE  Total([a \in ProfitAndLoss |-> Reported(a, y)]) = Gained(ProfitAndLoss \cup Owners, y)
  <1>1. PICK S, days, N, C :
          /\ S = ProfitAndLoss \cup Owners
          /\ days = {e \in Dates : Covers(y, e)}
          /\ N = {m \in DOMAIN journal : journal[m].date \in days}
          /\ C = {n \in DOMAIN journal : ~IsCloseOrItsReversal(n)}
    OBVIOUS
  <1>2. PICK f, g :
          /\ f = [a \in ProfitAndLoss |-> [n \in N |->
                    IF IsCloseOrItsReversal(n) THEN 0 ELSE NetOn(a, journal[n].lines)]]
          /\ g = [a \in S |-> [n \in N |-> NetOn(a, journal[n].lines)]]
    OBVIOUS
  <1>3. IsFiniteSet(S) /\ IsFiniteSet(ProfitAndLoss) /\ IsFiniteSet(N) /\ N \subseteq DOMAIN journal
    <2>1. IsFiniteSet(S) /\ IsFiniteSet(ProfitAndLoss)
      BY <1>1, AccountsFinite
    <2>2. N \subseteq DOMAIN journal
      BY <1>1
    <2>3. QED
      BY <2>1, <2>2, JournalFinite, FS_Subset
  <1>4. \A a : \A n \in N : NetOn(a, journal[n].lines) \in Int
    <2>1. \A n \in N : journal[n].lines \in Seq(Line) /\ WellFormed(journal[n].lines)
      <3>1. \A n \in N : journal[n] \in Entry
        BY <1>3 DEF TypeOK
      <3>2. QED
        BY <1>3, <3>1 DEF Entry, EntriesSound
    <2>2. QED
      BY <2>1, LinesType
  <1>5. /\ \A a \in ProfitAndLoss, n \in N : f[a][n] \in Int
        /\ \A a \in S, n \in N : g[a][n] \in Int
    <2>1. ASSUME NEW a \in ProfitAndLoss, NEW n \in N PROVE f[a][n] \in Int
      <3>1. f[a][n] = IF IsCloseOrItsReversal(n) THEN 0 ELSE NetOn(a, journal[n].lines)
        BY <1>2
      <3>2. QED
        BY <1>4, <3>1
    <2>2. ASSUME NEW a \in S, NEW n \in N PROVE g[a][n] \in Int
      BY <1>2, <1>4
    <2>3. QED
      BY <2>1, <2>2
  <1>6. ASSUME NEW a \in ProfitAndLoss PROVE Reported(a, y) = Total([n \in N |-> f[a][n]])
    <2>1. PICK h, T : h = [n \in N |-> f[a][n]] /\ T = {m \in C : journal[m].date \in days}
      OBVIOUS
    <2>2. h \in [N -> Int] /\ T \subseteq N /\ \A n \in N \ T : h[n] = 0
      BY <1>1, <1>2, <1>5, <2>1
    <2>3. Total(h) = Total([n \in T |-> h[n]])
      BY <1>3, <2>2, TotalSupport
    <2>4. [n \in T |-> h[n]] = [n \in T |-> NetOn(a, journal[n].lines)]
      BY <1>1, <1>2, <2>1, <2>2
    <2>5. Reported(a, y) = Total([n \in T |-> NetOn(a, journal[n].lines)])
      <3>1. Reported(a, y) = Standing(a, C, days)
        BY <1>1 DEF Reported
      <3>2. QED
        BY <2>1, <3>1, Zenon DEF Standing
    <2>6. QED
      BY <2>1, <2>3, <2>4, <2>5
  <1>7. ASSUME NEW a \in S
        PROVE  Standing(a, DOMAIN journal, days) = Total([n \in N |-> g[a][n]])
    <2>1. [n \in N |-> g[a][n]] = [n \in N |-> NetOn(a, journal[n].lines)]
      BY <1>2
    <2>2. Standing(a, DOMAIN journal, days) = Total([n \in N |-> NetOn(a, journal[n].lines)])
      BY <1>1, Zenon DEF Standing
    <2>3. QED
      BY <2>1, <2>2
  <1>8. ASSUME NEW n \in N
        PROVE  Total([a \in ProfitAndLoss |-> f[a][n]]) = Total([a \in S |-> g[a][n]])
    <2>1. [a \in ProfitAndLoss |-> f[a][n]] =
            [a \in ProfitAndLoss |-> IF IsCloseOrItsReversal(n) THEN 0 ELSE NetOn(a, journal[n].lines)]
      BY <1>2
    <2>2. [a \in S |-> g[a][n]] = [a \in ProfitAndLoss \cup Owners |-> NetOn(a, journal[n].lines)]
      BY <1>1, <1>2
    <2>3. n \in DOMAIN journal
      BY <1>3
    <2>4. QED
      BY <2>1, <2>2, <2>3, EntryReported
  <1>9. PICK reported, standing, both :
          /\ reported = [a \in ProfitAndLoss |-> Reported(a, y)]
          /\ standing = [a \in S |-> Standing(a, DOMAIN journal, days)]
          /\ both = [n \in N |-> Total([a \in S |-> g[a][n]])]
    OBVIOUS
  <1>10. Total(reported) = Total(both)
    <2>1. /\ IsFiniteSet(ProfitAndLoss) /\ IsFiniteSet(N)
          /\ \A a \in ProfitAndLoss, n \in N : f[a][n] \in Int
          /\ DOMAIN reported = ProfitAndLoss
          /\ \A a \in ProfitAndLoss : reported[a] = Total([n \in N |-> f[a][n]])
          /\ DOMAIN both = N
          /\ \A n \in N : both[n] = Total([a \in ProfitAndLoss |-> f[a][n]])
      BY <1>3, <1>5, <1>6, <1>8, <1>9
    <2>2. QED
      BY ONLY <2>1, TotalSwap
  <1>11. Total(standing) = Total(both)
    <2>1. /\ IsFiniteSet(S) /\ IsFiniteSet(N)
          /\ \A a \in S, n \in N : g[a][n] \in Int
          /\ DOMAIN standing = S
          /\ \A a \in S : standing[a] = Total([n \in N |-> g[a][n]])
          /\ DOMAIN both = N
          /\ \A n \in N : both[n] = Total([a \in S |-> g[a][n]])
      BY <1>3, <1>5, <1>7, <1>9
    <2>2. QED
      BY ONLY <2>1, TotalSwap
  <1>12. Gained(S, y) = Total(standing)
    BY <1>1, <1>9, Zenon DEF Gained
  <1>13. QED
    BY <1>1, <1>9, <1>10, <1>11, <1>12

(* However often years are closed, their closes taken back and closed again,  *)
(* a year's reported result is what its entries left with the business        *)
(* (ledger.ts trialBalance, excludeYearEndClose).                             *)
THEOREM ReportIsWhatWasGained == YearEndSpec => []ReportedIsWhatWasGained
  <1>1. YearEndInit => ClosesStayWithOwners
    BY DEF YearEndInit, Init, ClosesStayWithOwners
  <1>2. BooksOK /\ ClosesStayWithOwners /\ [YearEndNext]_YearEndVars => ClosesStayWithOwners'
    BY BooksShape, ClosesStayPreserved
  <1>3. BooksOK /\ ClosesStayWithOwners => ReportedIsWhatWasGained
    BY YearReported DEF BooksOK, JournalInv, ReportedIsWhatWasGained
  <1>4. QED
    BY <1>1, <1>2, <1>3, BooksInvariant, PTL DEF YearEndSpec

------------------------------------------------------------------------------
(* Nothing of a result is lost in dividing it. *)

(* One partner takes what rounding leaves over. *)
LEMMA OneTakesResidue ==
  ASSUME PartnersOK, NEW y \in Years, Sharing(Span[y]) # {}
  PROVE  \E p \in Sharing(Span[y]) :
           /\ TakesResidue(p, Span[y])
           /\ \A q \in Sharing(Span[y]) : TakesResidue(q, Span[y]) => q = p
  <1> DEFINE G == Sharing(Span[y])
  <1>1. /\ G \subseteq DOMAIN partners /\ G \subseteq Nat
        /\ \A p \in G : partners[p].joined \in Nat
    <2>1. G \subseteq DOMAIN partners
      BY SharingFacts
    <2>2. \A p \in DOMAIN partners :
            p \in Nat /\ partners[p] \in [joined : Dates, precedent : BOOLEAN, lent : BOOLEAN]
      BY PartnersAssumption DEF PartnersOK
    <2>3. Dates \subseteq Nat
      BY ConfigurationAssumption
    <2> HIDE DEF G
    <2>4. QED
      BY <2>1, <2>2, <2>3
  <1>2. CASE \E q \in G : partners[q].precedent
    <2>1. PICK p \in G : partners[p].precedent
      BY <1>2
    <2>2. \A q \in G : TakesResidue(q, Span[y]) <=> partners[q].precedent
      BY <1>2 DEF TakesResidue
    <2> HIDE DEF G
    <2>3. \A q \in G : partners[q].precedent => q = p
      BY <1>1, <2>1 DEF PartnersOK
    <2>4. QED
      BY <2>1, <2>2, <2>3 DEF G
  <1>3. CASE ~\E q \in G : partners[q].precedent
    <2> DEFINE J == {partners[p].joined : p \in G}
    <2>1. J \subseteq Nat /\ J # {}
      BY <1>1
    <2>2. PICK j \in J : \A k \in J : j <= k
      <3> HIDE DEF J
      <3>1. QED
        BY <2>1, SmallestNumber
    <2> DEFINE K == {p \in G : partners[p].joined = j}
    <2>3. K \subseteq Nat /\ K # {}
      BY <1>1
    <2>4. PICK p \in K : \A q \in K : p <= q
      <3> HIDE DEF K
      <3>1. QED
        BY <2>3, SmallestNumber
    <2>5. ASSUME NEW q \in G, q # p PROVE JoinedBefore(p, q) /\ ~JoinedBefore(q, p)
      <3>1. /\ p \in G /\ partners[p].joined = j /\ j \in Nat /\ partners[q].joined \in Nat
            /\ p \in Nat /\ q \in Nat /\ j <= partners[q].joined
            /\ partners[q].joined = j => p <= q
        BY <1>1, <2>2, <2>4
      <3> HIDE DEF G, J, K
      <3>2. QED
        BY <2>5, <3>1 DEF JoinedBefore
    <2>6. \A q \in G : TakesResidue(q, Span[y]) <=> \A r \in G \ {q} : JoinedBefore(q, r)
      BY <1>3 DEF TakesResidue
    <2>7. p \in G
      OBVIOUS
    <2> HIDE DEF G, J, K
    <2>8. TakesResidue(p, Span[y]) /\ \A q \in G : TakesResidue(q, Span[y]) => q = p
      BY <2>5, <2>6, <2>7
    <2>9. QED
      BY <2>7, <2>8 DEF G
  <1>4. QED
    BY <1>2, <1>3

(* When the shares add up through the year, someone shares in it. *)
LEMMA SomeoneShares ==
  ASSUME PartnersOK, NEW y \in Years, SharesAddUp(Span[y])
  PROVE  Sharing(Span[y]) # {}
  <1>1. Span[y].start \in Stretches(Span[y])
    BY DEF Stretches
  <1> DEFINE S == SharesOn(Span[y].start)
  <1>2. Total([s \in S |-> s.bp]) = Whole
    BY <1>1 DEF SharesAddUp, AddUp
  <1>3. S # {}
    <2>1. ASSUME S = {} PROVE FALSE
      <3>1. DOMAIN [s \in S |-> s.bp] = {}
        BY <2>1
      <3>2. Total([s \in S |-> s.bp]) = 0
        BY <3>1, TotalEmpty
      <3>3. QED
        BY <1>2, <3>2 DEF Whole
    <2>2. QED
      BY <2>1
  <1>4. QED
    BY <1>1, <1>3 DEF Sharing

(* However a year divides by days and shares, the parts of the partners add  *)
(* up to the amount exactly (partners.ts allocateByShares).                   *)
THEOREM PartsAddUp ==
  ASSUME PartnersOK, NEW y \in Years, SharesAddUp(Span[y]), NEW amount \in Int
  PROVE  Total([p \in Sharing(Span[y]) |-> Allocated(p, Span[y], amount)]) = amount
  <1> DEFINE G == Sharing(Span[y])
             rounded == [p \in G |-> RoundedPart(p, Span[y], amount)]
             residue == Residue(Span[y], amount)
             taken == [p \in G |-> IF TakesResidue(p, Span[y]) THEN residue ELSE 0]
             parts == [p \in G |-> Allocated(p, Span[y], amount)]
  <1>1. IsFiniteSet(G) /\ G # {}
    BY SharingFacts, SomeoneShares
  <1>2. residue \in Int /\ rounded \in [G -> Int]
    BY AllocatedInt, RoundedPartInt
  <1>3. taken \in [G -> Int]
    BY <1>2
  <1>4. PICK p \in G : /\ TakesResidue(p, Span[y])
                       /\ \A q \in G : TakesResidue(q, Span[y]) => q = p
    BY <1>1, OneTakesResidue
  <1>5. taken[p] = residue /\ \A q \in G \ {p} : taken[q] = 0
    BY <1>4
  <1>6. parts = [q \in G |-> rounded[q] + taken[q]]
    BY DEF Allocated
  <1>7. residue = amount - Total(rounded)
    BY DEF Residue
  <1> HIDE DEF G, rounded, residue, taken, parts
  <1>8. Total(taken) = residue
    BY <1>1, <1>3, <1>5, TotalOne
  <1>9. Total([q \in G |-> rounded[q] + taken[q]]) = Total(rounded) + Total(taken)
    BY <1>1, <1>2, <1>3, TotalPlus
  <1>10. Total(rounded) \in Int
    BY <1>1, <1>2, TotalType
  <1>11. Total(parts) = amount
    BY <1>2, <1>6, <1>7, <1>8, <1>9, <1>10
  <1>12. QED
    BY <1>11 DEF parts, G

------------------------------------------------------------------------------
(* The lines of a close balance. *)

\* A line with one amount, not negative, in the base currency.
OneSided(line) ==
  /\ line \in AskedLine /\ ~IsForeign(line)
  /\ line.debit >= 0 /\ line.credit >= 0
  /\ line.debit = 0 <=> line.credit # 0

\* What each line adds, debits positive.
Nets(lines) == [i \in DOMAIN lines |-> lines[i].debit - lines[i].credit]

(* What a line asked for adds is a whole number. *)
LEMMA NetsType ==
  ASSUME NEW lines \in Seq(AskedLine)
  PROVE  /\ IsFiniteSet(DOMAIN lines) /\ DOMAIN lines = 1..Len(lines) /\ Len(lines) \in Nat
         /\ DOMAIN Nets(lines) = DOMAIN lines
         /\ \A i \in DOMAIN lines : /\ lines[i].debit \in Int /\ lines[i].credit \in Int
                                    /\ Nets(lines)[i] = lines[i].debit - lines[i].credit
                                    /\ Nets(lines)[i] \in Int
         /\ Total(Nets(lines)) \in Int
  <1>1. DOMAIN lines = 1..Len(lines) /\ Len(lines) \in Nat
    OBVIOUS
  <1>2. IsFiniteSet(DOMAIN lines)
    BY <1>1, FS_Interval
  <1>3. ASSUME NEW i \in DOMAIN lines PROVE lines[i].debit \in Int /\ lines[i].credit \in Int
    <2>1. lines[i] \in AskedLine
      OBVIOUS
    <2>2. QED
      BY <2>1 DEF AskedLine
  <1>4. Nets(lines) \in [DOMAIN lines -> Int]
    BY <1>3 DEF Nets
  <1>5. Total(Nets(lines)) \in Int
    BY <1>2, <1>4, TotalType
  <1>6. QED
    BY <1>1, <1>2, <1>3, <1>4, <1>5 DEF Nets

(* Lines in the base currency whose nets come to nothing balance. *)
LEMMA BalancedByNets ==
  ASSUME NEW lines \in Seq(AskedLine), \A i \in DOMAIN lines : OneSided(lines[i]),
         Total(Nets(lines)) = 0
  PROVE  Balanced(lines)
  <1> DEFINE S == DOMAIN lines
             debits == [i \in S |-> lines[i].debit]
             credits == [i \in S |-> lines[i].credit]
             minus == [i \in S |-> -credits[i]]
  <1>1. IsFiniteSet(S)
    BY NetsType
  <1>2. \A i \in S : lines[i].debit \in Int /\ lines[i].credit \in Int
    BY NetsType
  <1>3. debits \in [S -> Int] /\ credits \in [S -> Int] /\ minus \in [S -> Int]
    BY <1>2
  <1>4. \A i \in S : /\ ToBase(lines[i].debit, lines[i]) = lines[i].debit
                     /\ ToBase(lines[i].credit, lines[i]) = lines[i].credit
    BY DEF OneSided, ToBase
  <1>5. BaseDebits(lines) = Total(debits) /\ BaseCredits(lines) = Total(credits)
    <2>1. /\ [i \in DOMAIN lines |-> ToBase(lines[i].debit, lines[i])] = debits
          /\ [i \in DOMAIN lines |-> ToBase(lines[i].credit, lines[i])] = credits
      BY <1>4
    <2>2. QED
      BY <2>1 DEF BaseDebits, BaseCredits
  <1>6. Nets(lines) = [i \in S |-> debits[i] + minus[i]]
    <2>1. \A i \in S : lines[i].debit - lines[i].credit = debits[i] + minus[i]
      BY <1>2
    <2>2. QED
      BY <2>1 DEF Nets
  <1> HIDE DEF S, debits, credits
  <1>7. Total(minus) = -Total(credits)
    BY <1>1, <1>3, TotalMinus
  <1> HIDE DEF minus
  <1>8. Total([i \in S |-> debits[i] + minus[i]]) = Total(debits) + Total(minus)
    BY <1>1, <1>3, TotalPlus
  <1>9. Total(debits) \in Int /\ Total(credits) \in Int
    BY <1>1, <1>3, TotalType
  <1>10. QED
    BY <1>5, <1>6, <1>7, <1>8, <1>9 DEF Balanced

(* The nets of two lists of lines, one after the other. *)
LEMMA NetsOfBoth ==
  ASSUME NEW e \in Seq(AskedLine), NEW r \in Seq(AskedLine)
  PROVE  Total(Nets(e \o r)) = Total(Nets(e)) + Total(Nets(r))
  <1> DEFINE k == Len(e)
             n == Len(r)
             B == (k + 1)..(k + n)
             shift == [i \in B |-> i - k]
             f == Nets(e \o r)
             second == [i \in B |-> f[i]]
  <1>1. /\ e \o r \in Seq(AskedLine) /\ k \in Nat /\ n \in Nat
        /\ DOMAIN (e \o r) = 1..(k + n) /\ DOMAIN e = 1..k /\ DOMAIN r = 1..n
        /\ \A i \in 1..(k + n) : (e \o r)[i] = IF i <= k THEN e[i] ELSE r[i - k]
    BY ConcatProperties
  <1>2. /\ IsFiniteSet(DOMAIN f) /\ DOMAIN f = 1..(k + n) /\ \A i \in DOMAIN f : f[i] \in Int
        /\ DOMAIN Nets(e) = 1..k
        /\ IsFiniteSet(DOMAIN Nets(r)) /\ DOMAIN Nets(r) = 1..n
        /\ \A i \in DOMAIN Nets(r) : Nets(r)[i] \in Int
    BY <1>1, NetsType
  <1>3. /\ DOMAIN Nets(e) \cup DOMAIN second = DOMAIN f
        /\ DOMAIN Nets(e) \cap DOMAIN second = {}
    BY <1>1, <1>2
  <1>4. IsFiniteSet(DOMAIN second)
    BY <1>2, <1>3, FS_Subset
  <1>5. \A i \in DOMAIN Nets(e) : Nets(e)[i] = f[i]
    BY <1>1, <1>2 DEF Nets
  <1>6. \A i \in DOMAIN second : second[i] = f[i]
    OBVIOUS
  <1>7. \A i \in DOMAIN second : shift[i] \in DOMAIN Nets(r) /\ second[i] = Nets(r)[shift[i]]
    BY <1>1, <1>2 DEF Nets
  <1>8. /\ \A i, j \in DOMAIN second : shift[i] = shift[j] => i = j
        /\ \A s \in DOMAIN Nets(r) : \E i \in DOMAIN second : shift[i] = s
    <2>1. \A s \in 1..n : s + k \in B /\ shift[s + k] = s
      BY <1>1
    <2>2. \A i \in B : shift[i] = i - k /\ i \in Int
      BY <1>1
    <2>3. DOMAIN second = B
      OBVIOUS
    <2> HIDE DEF shift, second, B
    <2>4. \A i, j \in B : shift[i] = shift[j] => i = j
      BY <1>1, <2>2
    <2>5. QED
      BY <1>2, <2>1, <2>3, <2>4
  <1> HIDE DEF shift, second, f, B
  <1>9. Total(f) = Total(Nets(e)) + Total(second)
    <2>1. PICK ne : ne = Nets(e)
      OBVIOUS
    <2>2. /\ IsFiniteSet(DOMAIN f) /\ \A i \in DOMAIN f : f[i] \in Int
          /\ DOMAIN ne \cup DOMAIN second = DOMAIN f
          /\ DOMAIN ne \cap DOMAIN second = {}
          /\ \A i \in DOMAIN ne : ne[i] = f[i]
          /\ \A i \in DOMAIN second : second[i] = f[i]
      BY <1>2, <1>3, <1>5, <1>6, <2>1
    <2>3. Total(f) = Total(ne) + Total(second)
      BY ONLY <2>2, TotalOfTwo
    <2>4. QED
      BY <2>1, <2>3
  <1>10. Total(second) = Total(Nets(r))
    BY <1>2, <1>4, <1>7, <1>8, TotalRenamed
  <1>11. QED
    BY <1>9, <1>10 DEF f

(* An owner's line: one amount, their part of the result as a credit. *)
LEMMA OwnerLineFacts ==
  ASSUME NEW a \in Accounts, NEW x \in Int, x # 0
  PROVE  /\ OneSided(OwnerLine(a, x)) /\ OwnerLine(a, x) \in AskedLine
         /\ OwnerLine(a, x).account = a
         /\ OwnerLine(a, x).debit - OwnerLine(a, x).credit = -x
  <1>1. CASE x > 0
    <2>1. OwnerLine(a, x) = BaseLine(a, 0, x)
      BY <1>1 DEF OwnerLine
    <2>2. QED
      BY <1>1, <2>1, BaseLineFacts DEF OneSided
  <1>2. CASE ~(x > 0)
    <2>1. OwnerLine(a, x) = BaseLine(a, -x, 0) /\ -x \in Int /\ -x > 0
      BY <1>2 DEF OwnerLine
    <2>2. QED
      BY <2>1, BaseLineFacts DEF OneSided
  <1>3. QED
    BY <1>1, <1>2

\* Every income and expense account stands on its usual side.
UsualSides(d) ==
  /\ \A a \in IncomeAccounts : StandingAt(a, d) <= 0
  /\ \A a \in ExpenseAccounts : StandingAt(a, d) >= 0

(* The line that empties an account standing on its usual side. *)
LEMMA ClosingLineFacts ==
  ASSUME TypeOK, EntriesSound, NEW d, UsualSides(d), NEW a \in ToClose(d)
  PROVE  /\ OneSided(ClosingLine(a, d)) /\ ClosingLine(a, d) \in AskedLine
         /\ ClosingLine(a, d).account = a /\ a \in Accounts
         /\ ClosingLine(a, d).debit - ClosingLine(a, d).credit = -StandingAt(a, d)
  <1>1. /\ a \in Accounts /\ StandingAt(a, d) \in Int /\ StandingAt(a, d) # 0
        /\ a \in IncomeAccounts \/ a \in ExpenseAccounts
    BY ToCloseFacts, StandingAtInt DEF ToClose, ProfitAndLoss
  <1>2. CASE a \in IncomeAccounts
    <2>1. ClosingLine(a, d) = BaseLine(a, -StandingAt(a, d), 0)
      BY <1>2 DEF ClosingLine
    <2>2. -StandingAt(a, d) \in Int /\ -StandingAt(a, d) > 0
      BY <1>1, <1>2 DEF UsualSides
    <2>3. QED
      BY <1>1, <2>1, <2>2, BaseLineFacts DEF OneSided
  <1>3. CASE a \notin IncomeAccounts
    <2>1. ClosingLine(a, d) = BaseLine(a, 0, StandingAt(a, d))
      BY <1>3 DEF ClosingLine
    <2>2. StandingAt(a, d) > 0
      BY <1>1, <1>3 DEF UsualSides
    <2>3. QED
      BY <1>1, <2>1, <2>2, BaseLineFacts DEF OneSided
  <1>4. QED
    BY <1>2, <1>3

(* The lines that empty the accounts add up to the result. *)
LEMMA EmptyingNets ==
  ASSUME TypeOK, EntriesSound, NEW d, UsualSides(d)
  PROVE  /\ \A i \in DOMAIN EmptyingLines(d) :
              OneSided(EmptyingLines(d)[i]) /\ EmptyingLines(d)[i].account \in Accounts
         /\ Total(Nets(EmptyingLines(d))) = Result(d)
         /\ Cardinality(ToClose(d)) = 1 => Result(d) # 0
  <1> DEFINE S == ToClose(d)
             c == SetToSeq(S)
             e == EmptyingLines(d)
             st == [a \in S |-> StandingAt(a, d)]
             m == [a \in S |-> -st[a]]
             ne == Nets(e)
  <1>1. IsFiniteSet(S) /\ st \in [S -> Int] /\ m \in [S -> Int]
    BY ToCloseFacts, StandingAtInt
  <1>2. /\ DOMAIN e = DOMAIN c /\ e \in Seq(AskedLine)
        /\ \A i \in DOMAIN e : c[i] \in S /\ e[i] = ClosingLine(c[i], d)
        /\ \A i, j \in DOMAIN c : c[i] = c[j] => i = j
        /\ \A x \in S : \E i \in DOMAIN c : c[i] = x
    BY <1>1, EmptyingLinesFacts, SetToSeqFacts
  <1>3. \A a \in S : /\ OneSided(ClosingLine(a, d)) /\ ClosingLine(a, d).account \in Accounts
                     /\ ClosingLine(a, d).debit - ClosingLine(a, d).credit = m[a]
    BY ClosingLineFacts
  <1>4. Result(d) = -Total(st)
    BY DEF Result
  <1>5. \A a \in S : st[a] # 0
    BY DEF ToClose
  <1>6. Total(m) = -Total(st)
    <2> HIDE DEF S, st
    <2>1. QED
      BY <1>1, TotalMinus
  <1> HIDE DEF S, c, e, st, m
  <1>7. /\ IsFiniteSet(DOMAIN ne) /\ DOMAIN ne = DOMAIN e
        /\ \A i \in DOMAIN ne : ne[i] = e[i].debit - e[i].credit
    BY <1>2, NetsType
  <1> HIDE DEF ne
  <1>8. Total(ne) = Total(m)
    <2>1. DOMAIN m = S
      BY DEF m
    <2>2. /\ IsFiniteSet(DOMAIN m) /\ \A a \in DOMAIN m : m[a] \in Int
          /\ \A i \in DOMAIN ne : c[i] \in DOMAIN m /\ ne[i] = m[c[i]]
          /\ \A i, j \in DOMAIN ne : c[i] = c[j] => i = j
          /\ \A a \in DOMAIN m : \E i \in DOMAIN ne : c[i] = a
      BY <1>1, <1>2, <1>3, <1>7, <2>1
    <2>3. QED
      BY ONLY <1>7, <2>2, TotalRenamed
  <1>9. Cardinality(S) = 1 => Total(st) # 0
    <2>1. ASSUME Cardinality(S) = 1 PROVE Total(st) # 0
      <3>1. PICK a : S = {a}
        BY <1>1, <2>1, FS_Singleton
      <3>2. a \in S /\ \A b \in S \ {a} : st[b] = 0
        BY <3>1
      <3>3. Total(st) = st[a]
        BY <1>1, <3>2, TotalOne
      <3>4. QED
        BY <1>5, <3>2, <3>3
    <2>2. QED
      BY <2>1
  <1>10. Total(st) \in Int
    BY <1>1, TotalType
  <1>11. Total(ne) = Result(d) /\ (Cardinality(S) = 1 => Result(d) # 0)
    BY <1>4, <1>6, <1>8, <1>9, <1>10
  <1>12. QED
    BY <1>2, <1>3, <1>11 DEF e, ne, S

(* A company's result, or a sole trader's: all of it on one line, if any. *)
LEMMA ReservesNets ==
  ASSUME NEW y \in Years, NEW result \in Int, entityType # "partnership"
  PROVE  /\ ResultLines(y, result) \in Seq(AskedLine)
         /\ \A i \in DOMAIN ResultLines(y, result) :
              /\ OneSided(ResultLines(y, result)[i])
              /\ ResultLines(y, result)[i].account \in Accounts
         /\ Total(Nets(ResultLines(y, result))) = -result
  <1> DEFINE line == OwnerLine(RetainedEarnings, result)
             none == << >>
             one == <<line>>
  <1>1. RetainedEarnings \in Accounts
    BY YearEndAssumption, ConfigurationAssumption
  <1>2. CASE result = 0
    <2>1. ResultLines(y, result) = none
      BY <1>2 DEF ResultLines
    <2>2. none \in Seq(AskedLine) /\ DOMAIN none = {}
      OBVIOUS
    <2> HIDE DEF none
    <2>3. DOMAIN Nets(none) = {}
      BY <2>2 DEF Nets
    <2>4. Total(Nets(none)) = 0
      BY <2>3, TotalEmpty
    <2>5. -result = 0
      <3>1. \A x \in Int : x >= 0 /\ x <= 0 => -x = 0
        OBVIOUS
      <3>2. result >= 0 /\ result <= 0
        BY <1>2
      <3>3. QED
        BY <3>1, <3>2, Zenon
    <2>6. QED
      BY <2>1, <2>2, <2>4, <2>5
  <1>3. CASE result # 0
    <2>1. ResultLines(y, result) = one
      BY <1>3 DEF ResultLines
    <2>2. /\ OneSided(line) /\ line \in AskedLine /\ line.account \in Accounts
          /\ line.debit - line.credit = -result
      BY <1>1, <1>3, OwnerLineFacts
    <2> HIDE DEF line
    <2>3. one \in Seq(AskedLine) /\ DOMAIN one = {1} /\ one[1] = line
      BY <2>2
    <2> HIDE DEF one
    <2>4. /\ DOMAIN Nets(one) = {1} /\ Nets(one)[1] = -result /\ Nets(one) \in [{1} -> Int]
      BY <2>2, <2>3 DEF Nets
    <2>5. PICK f, x : f = Nets(one) /\ x = 1
      OBVIOUS
    <2>6. IsFiniteSet({x}) /\ f \in [{x} -> Int] /\ x \in {x} /\ \A z \in {x} \ {x} : f[z] = 0
      BY <2>4, <2>5, FS_Singleton
    <2>7. Total(f) = f[x]
      BY ONLY <2>6, TotalOne
    <2>8. QED
      BY <2>1, <2>2, <2>3, <2>4, <2>5, <2>7
  <1>4. QED
    BY <1>2, <1>3

(* A partnership's: the parts of those to whom anything falls. *)
LEMMA PartsNets ==
  ASSUME PartnersOK, NEW y \in Years, NEW result \in Int, entityType = "partnership",
         SharesAddUp(Span[y])
  PROVE  /\ \A i \in DOMAIN ResultLines(y, result) :
              /\ OneSided(ResultLines(y, result)[i])
              /\ ResultLines(y, result)[i].account \in Accounts
         /\ Total(Nets(ResultLines(y, result))) = -result
  <1> DEFINE G == Sharing(Span[y])
             parts == [p \in G |-> Allocated(p, Span[y], result)]
             S == {p \in G : Allocated(p, Span[y], result) # 0}
             some == [p \in S |-> parts[p]]
             m == [p \in S |-> -some[p]]
             o == SetToSeq(S)
             r == ResultLines(y, result)
             nr == Nets(r)
  <1>1. /\ IsFiniteSet(G) /\ G \subseteq Partners /\ S \subseteq G /\ IsFiniteSet(S)
        /\ parts \in [G -> Int] /\ some \in [S -> Int] /\ m \in [S -> Int]
    <2>1. IsFiniteSet(G) /\ G \subseteq Partners
      BY SharingFacts DEF PartnersOK
    <2>2. S \in SUBSET G
      OBVIOUS
    <2>3. IsFiniteSet(S)
      BY <2>1, <2>2, FS_Subset
    <2>4. parts \in [G -> Int]
      BY AllocatedInt
    <2>5. QED
      BY <2>1, <2>2, <2>3, <2>4
  <1>2. Total(parts) = result
    BY PartsAddUp
  <1>3. \A p \in G \ S : parts[p] = 0
    OBVIOUS
  <1>4. \A p \in S : parts[p] # 0
    OBVIOUS
  <1>5. r \in Seq(AskedLine)
    BY ResultLinesFacts
  <1>6. /\ DOMAIN r = DOMAIN o
        /\ \A i \in DOMAIN o : r[i] = OwnerLine(CurrentAccount[o[i]], parts[o[i]])
    <2>1. \A i \in DOMAIN o : o[i] \in S
      <3> HIDE DEF S
      <3>1. QED
        BY <1>1, SetToSeqFacts
    <2>2. r = [i \in DOMAIN o |-> OwnerLine(CurrentAccount[o[i]], Allocated(o[i], Span[y], result))]
      BY DEF ResultLines
    <2>3. \A i \in DOMAIN o : o[i] \in G
      BY <2>1
    <2> HIDE DEF o, r
    <2>4. QED
      BY <2>2, <2>3
  <1> HIDE DEF G, parts, S, o, r
  <1>7. /\ \A i \in DOMAIN o : o[i] \in S
        /\ \A i, j \in DOMAIN o : o[i] = o[j] => i = j
        /\ \A p \in S : \E i \in DOMAIN o : o[i] = p
    BY <1>1, SetToSeqFacts DEF o
  <1>8. ASSUME NEW p \in S
        PROVE  LET line == OwnerLine(CurrentAccount[p], parts[p])
               IN  /\ OneSided(line) /\ line.account \in Accounts
                   /\ line.debit - line.credit = m[p]
    <2>1. CurrentAccount[p] \in Accounts
      BY <1>1, PartnersAssumption
    <2>2. parts[p] \in Int /\ parts[p] # 0 /\ m[p] = -parts[p]
      BY <1>1, <1>4
    <2>3. QED
      BY <2>1, <2>2, OwnerLineFacts
  <1> HIDE DEF m
  <1>9. /\ IsFiniteSet(DOMAIN nr) /\ DOMAIN nr = DOMAIN o
        /\ \A i \in DOMAIN nr : nr[i] = r[i].debit - r[i].credit
    BY <1>5, <1>6, NetsType
  <1>10. /\ IsFiniteSet(DOMAIN m) /\ DOMAIN m = S /\ \A p \in DOMAIN m : m[p] \in Int
    BY <1>1 DEF m
  <1> HIDE DEF nr
  <1>11. Total(nr) = Total(m)
    <2>1. /\ \A i \in DOMAIN nr : o[i] \in DOMAIN m /\ nr[i] = m[o[i]]
          /\ \A i, j \in DOMAIN nr : o[i] = o[j] => i = j
          /\ \A p \in DOMAIN m : \E i \in DOMAIN nr : o[i] = p
      BY <1>6, <1>7, <1>8, <1>9, <1>10
    <2>2. QED
      BY ONLY <1>9, <1>10, <2>1, TotalRenamed
  <1>12. Total(parts) = Total([p \in S |-> parts[p]])
    BY <1>1, <1>3, TotalSupport
  <1> HIDE DEF some
  <1>13. Total(m) = -Total(some)
    BY <1>1, TotalMinus DEF m
  <1>14. Total(some) = result
    BY <1>2, <1>12 DEF some
  <1>15. QED
    BY <1>6, <1>7, <1>8, <1>11, <1>13, <1>14 DEF r, nr

(* The lines of a close in the usual case are ones the engine accepts. *)
LEMMA OrdinaryLines ==
  ASSUME BooksOK, NEW y \in Years, ToClose(Span[y].end) # {}, UsualSides(Span[y].end),
         CanBeAllocated(y)
  PROVE  Postable(ClosingLines(y))
  <1> DEFINE d == Span[y].end
             e == EmptyingLines(d)
             r == ResultLines(y, Result(d))
             lines == ClosingLines(y)
  <1>1. TypeOK /\ EntriesSound /\ PartnersOK /\ active = Accounts
    BY DEF BooksOK, JournalInv
  <1>2. /\ lines = e \o r /\ e \in Seq(AskedLine) /\ r \in Seq(AskedLine)
        /\ lines \in Seq(AskedLine)
    BY <1>1, ClosingLinesFacts
  <1>3. Result(d) \in Int /\ IsFiniteSet(ToClose(d))
    BY <1>1, ToCloseFacts
  <1>4. /\ \A i \in DOMAIN e : OneSided(e[i]) /\ e[i].account \in Accounts
        /\ Total(Nets(e)) = Result(d)
        /\ Cardinality(ToClose(d)) = 1 => Result(d) # 0
        /\ Len(e) = Cardinality(ToClose(d))
    BY <1>1, EmptyingNets, EmptyingLinesFacts
  <1>5. /\ \A i \in DOMAIN r : OneSided(r[i]) /\ r[i].account \in Accounts
        /\ Total(Nets(r)) = -Result(d)
    <2>1. CASE entityType = "partnership"
      BY <1>1, <1>3, <2>1, PartsNets DEF CanBeAllocated
    <2>2. CASE entityType # "partnership"
      BY <1>3, <2>2, ReservesNets
    <2>3. QED
      BY <2>1, <2>2
  <1>6. ToClose(d) # {}
    OBVIOUS
  <1> DEFINE n == Cardinality(ToClose(d))
  <1>7. n \in Nat /\ n >= 1
    BY <1>3, <1>6, FS_CardinalityType, FS_EmptySet
  <1> HIDE DEF d, e, r, lines
  <1>8. /\ Len(e) \in Nat /\ Len(r) \in Nat /\ DOMAIN e = 1..Len(e) /\ DOMAIN r = 1..Len(r)
        /\ Len(lines) = Len(e) + Len(r) /\ DOMAIN lines = 1..(Len(e) + Len(r))
        /\ \A i \in 1..(Len(e) + Len(r)) : lines[i] = IF i <= Len(e) THEN e[i] ELSE r[i - Len(e)]
    BY <1>2, ConcatProperties
  <1>9. \A i \in DOMAIN lines : OneSided(lines[i]) /\ lines[i].account \in Accounts
    <2>1. \A i \in 1..(Len(e) + Len(r)) : i \in 1..Len(e) \/ (~(i <= Len(e)) /\ i - Len(e) \in 1..Len(r))
      BY <1>8
    <2>2. QED
      BY <1>4, <1>5, <1>8, <2>1
  <1>10. Len(lines) >= 2
    <2>1. ASSUME n = 1 PROVE Len(r) # 0
      <3>1. Result(d) # 0 /\ Result(d) \in Int
        BY <1>3, <1>4, <2>1
      <3>2. ASSUME Len(r) = 0 PROVE FALSE
        <4>1. DOMAIN Nets(r) = {}
          BY <1>8, <3>2 DEF Nets
        <4>2. Total(Nets(r)) = 0
          BY <4>1, TotalEmpty
        <4>3. QED
          BY <1>5, <3>1, <4>2
      <3>3. QED
        BY <3>2
    <2> HIDE DEF n
    <2>2. Len(e) = n
      BY <1>4 DEF n
    <2>3. QED
      BY <1>7, <1>8, <2>1, <2>2
  <1>11. WellFormed(lines)
    <2>1. \A i \in DOMAIN lines :
            /\ lines[i].debit = 0 <=> lines[i].credit # 0
            /\ lines[i].debit >= 0 /\ lines[i].credit >= 0
            /\ ~IsForeign(lines[i])
      BY <1>9 DEF OneSided
    <2>2. QED
      BY <1>10, <2>1 DEF WellFormed
  <1>12. AccountsUsable(lines)
    BY <1>1, <1>9 DEF AccountsUsable
  <1>13. Total(Nets(lines)) = 0
    <2>1. Total(Nets(lines)) = Total(Nets(e)) + Total(Nets(r))
      BY <1>2, NetsOfBoth
    <2>2. QED
      BY <1>3, <1>4, <1>5, <2>1
  <1>14. Balanced(lines)
    BY <1>2, <1>9, <1>13, BalancedByNets
  <1>15. QED
    BY <1>11, <1>12, <1>14 DEF Postable, lines

(* A year whose accounts stand on their usual sides can always be closed,     *)
(* with a profit, a loss or neither, and in a partnership however the result  *)
(* divides (yearEnd.ts closeFinancialYear, partners.ts allocateByShares).     *)
THEOREM OrdinaryYearsCanBeClosed == YearEndSpec => []OrdinaryYearCanBeClosed
  <1>1. ASSUME BooksOK PROVE OrdinaryYearCanBeClosed
    <2>1. ASSUME NEW y \in Generated, ToClose(Span[y].end) # {}, UsualSides(Span[y].end),
                 CanBeAllocated(y)
          PROVE  Postable(ClosingLines(y))
      BY <1>1, <2>1, OrdinaryLines DEF Generated
    <2>2. QED
      BY <2>1 DEF OrdinaryYearCanBeClosed, UsualSides
  <1>2. BooksOK => OrdinaryYearCanBeClosed
    BY <1>1
  <1>3. QED
    BY <1>2, BooksInvariant, PTL

=============================================================================
