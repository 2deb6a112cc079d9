------------------------------- MODULE Journal -------------------------------
(***************************************************************************)
(* The posting engine (src/src/domain/accounting/journal.ts) with the two  *)
(* pieces of configuration it reads: the chart of accounts and the         *)
(* financial years.  Every other workflow of the program reaches the       *)
(* ledger through PostJournalEntry or ReverseJournalEntry.                 *)
(*                                                                         *)
(* Each action is one SQLite transaction (journal.ts `atomically`).        *)
(* An entry's number is its place in `journal`.                            *)
(***************************************************************************)
EXTENDS JournalLines

CONSTANTS
  Accounts,          \* account ids of the chart
  SystemAccounts,    \* those the engine addresses by name, never archived
  Dates,             \* days, numbered
  Years,             \* ids of the financial years that can be generated
  Span,              \* their first and last days: Span[y] = [start, end]
  Postings,          \* the sets of lines a caller may ask to post
  Sources,           \* source types an entry can carry
  ShutStatuses,      \* statuses other than open a year can be given
  Refs,              \* ids of the records entries come from
  MaxEntries         \* bound: the books stop at this many entries

NoRef == "none"

ASSUME ConfigurationAssumption ==
  /\ SystemAccounts \subseteq Accounts
  /\ RoundingAccount \in SystemAccounts
  /\ Dates \subseteq Nat
  /\ Span \in [Years -> [start : Dates, end : Dates]]
  /\ MaxEntries \in Nat
  /\ {"manual_adjustment", "bank_transaction", "reversal"} \subseteq Sources
  /\ ShutStatuses \subseteq {"locked", "closed"}
  /\ NoRef \in Refs

VARIABLES
  journal,      \* the posted entries, by entry number
  active,       \* accounts that take new postings
  yearStatus,   \* each financial year: "none" until generated, then its status
  overridden    \* entries whose posting overrode a period lock, from the audit trail

vars == <<journal, active, yearStatus, overridden>>

Rates == [num : Nat, den : Nat \ {0}] \cup {NoRate}
Line == [account : Accounts, debit : Nat, credit : Nat,
         currency : Currencies, rate : Rates]
Statuses == {"none", "open", "locked", "closed"}

\* What a caller may ask to post: amounts need not be positive, or make sense.
AskedLine == [account : Accounts, debit : Int, credit : Int,
              currency : Currencies, rate : Rates]

ASSUME PostingsAssumption ==
  \A lines \in Postings :
    lines \in Seq(AskedLine) /\ WithFxRoundingLine(lines) \in Seq(AskedLine)

Entry ==
  [date : Dates, year : Years, source : Sources, ref : Refs, lines : Seq(Line),
   reversalOf : Nat, reversedBy : Nat]

TypeOK ==
  /\ journal \in Seq(Entry)
  /\ active \in SUBSET Accounts
  /\ yearStatus \in [Years -> Statuses]
  /\ overridden \in SUBSET Nat

------------------------------------------------------------------------------
(* Financial years. *)

Covers(y, d) == Span[y].start <= d /\ d <= Span[y].end

\* Slip: only the first day of the new year is looked at.
StartsInside(y, z) == Covers(z, Span[y].start)

Overlap(y, z) == Span[y].start <= Span[z].end /\ Span[y].end >= Span[z].start
Generated == {y \in Years : yearStatus[y] # "none"}
YearsCovering(d) == {y \in Generated : Covers(y, d)}

\* Slip: locked is taken for open.
AcceptsUnlessClosed(y, override) == yearStatus[y] # "closed" \/ override

\* assertAccountingPeriodOpen: the year it returns may be any that covers d.
AcceptsPosting(y, override) == yearStatus[y] = "open" \/ override

PeriodOpen(d) == \E y \in YearsCovering(d) : AcceptsPosting(y, FALSE)
OpenYear(d) == CHOOSE y \in YearsCovering(d) : AcceptsPosting(y, FALSE)

------------------------------------------------------------------------------
(* Posting and reversing. *)

WellFormed(lines) ==
  /\ Len(lines) >= 2
  /\ \A i \in DOMAIN lines :
       /\ lines[i].debit = 0 <=> lines[i].credit # 0
       /\ lines[i].debit >= 0 /\ lines[i].credit >= 0
       /\ IsForeign(lines[i]) => lines[i].rate # NoRate

AccountsUsable(lines) == \A i \in DOMAIN lines : lines[i].account \in active

Balanced(lines) == BaseDebits(lines) = BaseCredits(lines)

\* Slip: an entry is balanced in its own currencies, not in the base currency.
PostableInItsCurrencies(lines) ==
  WellFormed(lines) /\ AccountsUsable(lines) /\ \A c \in Currencies : NetIn(c, lines) = 0

Postable(lines) == WellFormed(lines) /\ AccountsUsable(lines) /\ Balanced(lines)

NewEntry(d, y, source, ref, lines) ==
  [date |-> d, year |-> y, source |-> source, ref |-> ref, lines |-> lines,
   reversalOf |-> 0, reversedBy |-> 0]

\* Slip: the reversal is taken to be the entry after the original.
LinkedToNext(entries, n) ==
  [entries EXCEPT ![n].reversedBy = n + 1, ![Len(entries)].reversalOf = n]

\* Marks original n as reversed by the entry posted last.
Linked(entries, n) ==
  [entries EXCEPT ![n].reversedBy = Len(entries), ![Len(entries)].reversalOf = n]

\* postJournalEntry.  Its period check admits a locked or closed year only
\* with an override, which leaves an audit event naming the entry.
PostJournalEntry(d, source, ref, lines, override) ==
  /\ Len(journal) < MaxEntries
  /\ Postable(lines)
  /\ \E y \in YearsCovering(d) :
       /\ AcceptsPosting(y, override)
       /\ journal' = Append(journal, NewEntry(d, y, source, ref, lines))
  /\ overridden' = IF override THEN overridden \cup {Len(journal) + 1} ELSE overridden

\* reverseJournalEntry: any entry not yet reversed, a reversal included, on
\* any date.
ReverseJournalEntry(n, d) ==
  LET lines == Swapped(journal[n].lines) IN
  /\ Len(journal) < MaxEntries
  /\ journal[n].reversedBy = 0
  /\ Postable(lines)
  /\ \E y \in YearsCovering(d) :
       /\ AcceptsPosting(y, FALSE)
       /\ journal' = Linked(Append(journal, NewEntry(d, y, "reversal", NoRef, lines)), n)
  /\ UNCHANGED overridden

\* The orders in which a batch may take the members of S.
Orderings(S, before(_, _)) ==
  {o \in [1..Cardinality(S) -> S] :
     \A i, j \in DOMAIN o : i < j => o[i] # o[j] /\ ~before(o[j], o[i])}

\* A manual adjustment: lines in the base currency, balanced as they stand.
PostAdjustment(d, lines, override) ==
  /\ Len(lines) >= 2
  /\ \A i \in DOMAIN lines : ~IsForeign(lines[i])
  /\ PostJournalEntry(d, "manual_adjustment", NoRef, lines, override)
  /\ UNCHANGED <<active, yearStatus>>

\* A document or bank transaction, perhaps in another currency: the caller
\* first absorbs conversion rounding.
PostConverted(d, lines) ==
  /\ PostJournalEntry(d, "bank_transaction", NoRef, WithFxRoundingLine(lines), FALSE)
  /\ UNCHANGED <<active, yearStatus>>

\* The reverse-journal command takes back any entry.
ReverseEntry(n, d) ==
  /\ ReverseJournalEntry(n, d)
  /\ UNCHANGED <<active, yearStatus>>

------------------------------------------------------------------------------
(* The chart of accounts and the years. *)

ArchiveAccount(a) ==
  /\ a \in active \ SystemAccounts
  /\ active' = active \ {a}
  /\ UNCHANGED <<journal, yearStatus, overridden>>

RestoreAccount(a) ==
  /\ a \in Accounts \ active
  /\ active' = active \cup {a}
  /\ UNCHANGED <<journal, yearStatus, overridden>>

GenerateFinancialYear(y) ==
  /\ \A z \in Generated : ~Overlap(y, z)
  /\ yearStatus' = [yearStatus EXCEPT ![y] = "open"]
  /\ UNCHANGED <<journal, active, overridden>>

\* Nothing under src/ changes a generated year's status: its tests write the
\* column directly, and the engine reads it as something that may change.
SetYearStatus(y, s) ==
  /\ y \in Generated
  /\ yearStatus[y] # s
  /\ yearStatus' = [yearStatus EXCEPT ![y] = s]
  /\ UNCHANGED <<journal, active, overridden>>

Init ==
  /\ journal = << >>
  /\ active = Accounts
  /\ yearStatus = [y \in Years |-> "none"]
  /\ overridden = {}

PostingStep ==
  \E d \in Dates, lines \in Postings :
    \/ \E override \in BOOLEAN : PostAdjustment(d, lines, override)
    \/ PostConverted(d, lines)

ReversingStep == \E n \in DOMAIN journal, d \in Dates : ReverseEntry(n, d)

ConfigurationStep ==
  \/ \E a \in Accounts : ArchiveAccount(a) \/ RestoreAccount(a)
  \/ \E y \in Years : GenerateFinancialYear(y)
  \/ \E y \in Years, s \in ShutStatuses \cup {"open"} : SetYearStatus(y, s)

Next == PostingStep \/ ReversingStep \/ ConfigurationStep

Spec == Init /\ [][Next]_vars
------------------------------------------------------------------------------
(* What must hold of the books. *)

\* Every entry balances in the base currency, whatever currencies, rates and
\* roundings its lines were converted with, and so does every reversal, whose
\* base amounts are computed again from the stored amounts and rates
\* (journal.ts "The balancing rule"; reverseJournalEntry).
EveryEntryBalances == \A n \in DOMAIN journal : Balanced(journal[n].lines)

\* A posted entry can always be taken back on a day of an open year while its
\* accounts are in use: exchanging its sides yields lines the engine accepts,
\* converted amounts included, which needs the original's rates on every line
\* (journal.ts reverseJournalEntrySteps).  Not so an entry converted at a rate of
\* nothing, which the engine posts but does not hand to the reversal.
EveryEntryCanBeTakenBack ==
  \A n \in DOMAIN journal : LET lines == journal[n].lines IN
    AccountsUsable(lines) /\ (\A i \in Converted(lines) : lines[i].rate.num # 0)
      => Postable(Swapped(lines))

\* What a converted entry leaves on the rounding account is never more than
\* conversion can explain: half a minor unit per converted line, and only
\* when the other lines balance in their own currencies (journal.ts
\* withFxRoundingLine: "It never covers a real imbalance").
RoundingNeverHidesAnImbalance ==
  \A n \in DOMAIN journal :
    LET lines == journal[n].lines IN
    journal[n].source = "bank_transaction" /\ NetOn(RoundingAccount, lines) # 0 =>
      /\ Abs(NetOn(RoundingAccount, lines)) * 2 <= Cardinality(Converted(lines))
      /\ \A c \in Foreign : NetIn(c, lines) = 0

\* Years generated one by one, in any order and for any year end, never
\* overlap, so an entry belongs to exactly one set of accounts, the one it
\* was posted into (mutations.ts generateFinancialYearPeriod; journal.ts
\* assertAccountingPeriodOpen, which takes whichever row it finds first).
EntryInExactlyOneYear ==
  \A n \in DOMAIN journal : YearsCovering(journal[n].date) = {journal[n].year}

\* What is shut takes no entries: a locked or closed year only one that
\* overrides the lock and is named by the audit trail, and never a reversal,
\* even of an entry that is in it; an archived account none at all, not even
\* the reversal of one posted while it was in use (journal.ts
\* assertAccountingPeriodOpen, reverseJournalEntry; mutations.ts
\* archiveAccount: "History is untouched and new postings are refused").
ShutBooksStayShut ==
  [][\A n \in DOMAIN journal' \ DOMAIN journal :
       /\ AccountsUsable(journal'[n].lines)
       /\ yearStatus[journal'[n].year] \in {"locked", "closed"} =>
            n \in overridden' /\ journal'[n].reversalOf = 0]_vars

Contents(entry) == [date |-> entry.date, lines |-> entry.lines]
Undoes(c, d) == d.lines = Swapped(c.lines)

Ledger == INSTANCE AppendOnlyLedger WITH
  Opposite <- Undoes,
  entries <- [n \in DOMAIN journal |-> Contents(journal[n])],
  takenBackBy <- [n \in DOMAIN journal |-> journal[n].reversedBy]

\* The journal implements the append-only ledger: what is posted stays as it
\* is, and is taken back at most once, by its exact opposite (drizzle/0001
\* triggers; journal.ts reverseJournalEntry).
LedgerSpec == Ledger!Spec
=============================================================================
