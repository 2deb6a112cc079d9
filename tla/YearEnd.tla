------------------------------- MODULE YearEnd -------------------------------
(***************************************************************************)
(* The year-end close (src/src/domain/accounting/yearEnd.ts): one entry on *)
(* the year's last day that empties the income and expense accounts into   *)
(* retained earnings or, in a partnership, into the current accounts of    *)
(* the partners.  Whether a year has been closed is read from the journal: *)
(* the entries with the year as their ref.                                 *)
(***************************************************************************)
EXTENDS PartnerLoans, SequencesExt

CONSTANTS
  IncomeAccounts, ExpenseAccounts,
  RetainedEarnings,         \* the retained_earnings system account
  MaxLoad                   \* bound, for each kind of business: shares recorded,
                            \* and entries, which count twice

ASSUME YearEndAssumption ==
  /\ IncomeAccounts \cup ExpenseAccounts \subseteq Accounts
  /\ IncomeAccounts \cap ExpenseAccounts = {}
  /\ IsFiniteSet(IncomeAccounts \cup ExpenseAccounts)
  /\ RetainedEarnings \in SystemAccounts
  /\ \A a \in {RetainedEarnings} \cup {CurrentAccount[p] : p \in Partners} :
       a \notin IncomeAccounts \cup ExpenseAccounts
  /\ \A y \in Years : Span[y].start <= Span[y].end
  /\ MaxLoad \in [EntityTypes -> Nat]
  /\ Years \subseteq Refs
  /\ "year_end_close" \in Sources

ProfitAndLoss == IncomeAccounts \cup ExpenseAccounts

\* What entries with these numbers and dates leave on an account, debits positive.
Standing(a, numbers, days) ==
  Total([n \in {m \in numbers : journal[m].date \in days} |-> NetOn(a, journal[n].lines)])

\* Slip: a balance counts the year's own entries only.
StandingFromItsStart(a, d) ==
  LET y == CHOOSE z \in Years : Span[z].end = d
  IN  Standing(a, DOMAIN journal, {e \in Dates : Span[y].start <= e /\ e <= d})

\* trialBalance as at d: every entry up to that day, of any year.
StandingAt(a, d) == Standing(a, DOMAIN journal, {e \in Dates : e <= d})

ToClose(d) == {a \in ProfitAndLoss : StandingAt(a, d) # 0}

\* Income is debited with what stands as a credit, an expense credited with
\* what stands as a debit, and the difference is the result.
ClosingLine(a, d) ==
  IF a \in IncomeAccounts
  THEN BaseLine(a, -StandingAt(a, d), 0)
  ELSE BaseLine(a, 0, StandingAt(a, d))

Result(d) == -Total([a \in ToClose(d) |-> StandingAt(a, d)])

\* An owner is credited with their profit, or debited with their loss.
OwnerLine(account, result) ==
  IF result > 0 THEN BaseLine(account, 0, result) ELSE BaseLine(account, -result, 0)

\* Where the result goes: to reserves, or to each partner their share of it;
\* nothing to whom nothing falls.
ResultLines(y, result) ==
  IF entityType = "partnership"
  THEN LET owners == SetToSeq({p \in Sharing(Span[y]) : Allocated(p, Span[y], result) # 0})
       IN  [i \in DOMAIN owners |->
             OwnerLine(CurrentAccount[owners[i]], Allocated(owners[i], Span[y], result))]
  ELSE IF result # 0 THEN <<OwnerLine(RetainedEarnings, result)>> ELSE << >>

ClosingLines(y) ==
  LET d == Span[y].end
      closed == SetToSeq(ToClose(d))
  IN  [i \in DOMAIN closed |-> ClosingLine(closed[i], d)] \o ResultLines(y, Result(d))

ClosesOf(y) ==
  {n \in DOMAIN journal : journal[n].source = "year_end_close" /\ journal[n].ref = y}

\* A partnership's result is not divided while part of it would be no one's.
CanBeAllocated(y) ==
  entityType = "partnership" => DOMAIN partners # {} /\ SharesAddUp(Span[y])

\* A year is closed unless a close of it is found that stands.  Of several,
\* the query takes one; which is not specified.
CloseFinancialYear(y, override) ==
  LET d == Span[y].end IN
  /\ y \in Generated
  /\ ClosesOf(y) = {} \/ \E n \in ClosesOf(y) : journal[n].reversedBy # 0
  /\ ToClose(d) # {}
  /\ CanBeAllocated(y)
  /\ PostJournalEntry(d, "year_end_close", y, ClosingLines(y), override)
  /\ UNCHANGED <<active, yearStatus, partnerVars, accruals>>

IsCloseOrItsReversal(n) ==
  \/ journal[n].source = "year_end_close"
  \/ /\ journal[n].reversalOf # 0
     /\ journal[journal[n].reversalOf].source = "year_end_close"

\* Slip: a close is left out of the reported result, its reversal is not.
ReportedWithReversals(a, y) ==
  Standing(a, {n \in DOMAIN journal : journal[n].source # "year_end_close"},
           {e \in Dates : Covers(y, e)})

\* trialBalance of a year with excludeYearEndClose.
Reported(a, y) ==
  Standing(a, {n \in DOMAIN journal : ~IsCloseOrItsReversal(n)},
           {e \in Dates : Covers(y, e)})

YearEndVars == <<vars, partnerVars, accruals>>

YearEndInit == Init /\ PartnersInit /\ accruals = {}

\* Any other entry of the books: where it comes from, the close does not ask.
OtherStep ==
  /\ \/ \E d \in Dates, lines \in Postings : PostConverted(d, lines)
     \/ \E n \in DOMAIN journal, d \in Dates : ReverseEntry(n, d)
     \/ \E y \in Years : GenerateFinancialYear(y)
     \/ \E y \in Years, s \in ShutStatuses \cup {"open"} : SetYearStatus(y, s)
  /\ UNCHANGED <<partnerVars, accruals>>

ClosingStep == \E y \in Years, override \in Overrides : CloseFinancialYear(y, override)

Load == 2 * Len(journal) + Cardinality(shares)

YearEndNext ==
  \/ Load + 2 <= MaxLoad[entityType] /\ (OtherStep \/ ClosingStep \/ LoansStep)
  \/ Load + 1 <= MaxLoad[entityType] /\ PartnersStep /\ UNCHANGED accruals

YearEndSpec == YearEndInit /\ [][YearEndNext]_YearEndVars
------------------------------------------------------------------------------
\* A close leaves every income and expense account at nothing on the year's
\* last day, whatever was posted, reversed or closed before it, in whichever
\* year: "balances from earlier years that were never closed are included"
\* (yearEnd.ts balancesToClose).
CloseEmptiesProfitAndLoss ==
  \A y \in Years : \A c \in ClosesOf(y), a \in ProfitAndLoss :
    Standing(a, 1..c, {e \in Dates : e <= Span[y].end}) = 0

\* Those a result can go to.
Owners == {RetainedEarnings} \cup {CurrentAccount[p] : p \in Partners}

\* Only closes, and what takes other entries back, post to the owners' accounts.
OnlyClosesReachOwners ==
  \A a \in Owners : \A n \in EntriesOn(a) :
    journal[n].source = "year_end_close" \/ journal[n].reversalOf # 0

\* A close that was taken back, put back by the reversal of its reversal.
RestoresAClose(n) ==
  LET r == journal[n].reversalOf IN
  /\ r # 0
  /\ journal[r].reversalOf # 0
  /\ journal[journal[r].reversalOf].source = "year_end_close"

\* What stood up on these accounts in the year, in all the books' entries.
Gained(S, y) ==
  Total([a \in S |-> Standing(a, DOMAIN journal, {e \in Dates : Covers(y, e)})])

\* The result reported of a year is what its entries left with the business: on
\* the income and expense accounts still, or moved by a close to the owners.
\* However often years are closed, in whichever order, closes are taken back on
\* whatever day and their years closed again, none of the result is counted
\* twice or as nil (ledger.ts trialBalance, excludeYearEndClose: counting the
\* close "would report every closed year as nil").  Not so once the reversal of
\* a close is itself reversed: ledger.ts leaves out closes and what reverses
\* them, "year-end closing entries and their reversals", and counts the close
\* so put back, which reports the year as nil.
ReportedIsWhatWasGained ==
  OnlyClosesReachOwners /\ (\A n \in DOMAIN journal : ~RestoresAClose(n)) =>
    \A y \in Years :
      Total([a \in ProfitAndLoss |-> Reported(a, y)]) = Gained(ProfitAndLoss \cup Owners, y)

\* A year can be closed when its accounts stand on their usual sides, whether
\* it made a profit, a loss or neither, and in a partnership whenever the
\* shares add up through it, however the result divides by days and shares:
\* the lines composed are at least two, each with one amount, on accounts in
\* use, and balance (yearEnd.ts closeFinancialYear; partners.ts
\* allocateByShares: "the parts always add up to the amount exactly").
OrdinaryYearCanBeClosed ==
  \A y \in Generated : LET d == Span[y].end IN
    /\ ToClose(d) # {}
    /\ \A a \in IncomeAccounts : StandingAt(a, d) <= 0
    /\ \A a \in ExpenseAccounts : StandingAt(a, d) >= 0
    /\ CanBeAllocated(y)
    => Postable(ClosingLines(y))

\* What yearEnd.ts says of a close: it "refuses to run twice for the same
\* year"; ADR 0009: "refuses a second close only while the first stands".
NoSecondCloseWhileOneStands ==
  [][\A y \in Years :
       (\E n \in ClosesOf(y) : journal[n].reversedBy = 0) => ClosesOf(y)' = ClosesOf(y)]_YearEndVars
=============================================================================
