----------------------------- MODULE PartnerLoans -----------------------------
(***************************************************************************)
(* Loans of partners to their firm and the interest on them                *)
(* (src/src/domain/partnerships/loans.ts, interest.ts).  Each partner who  *)
(* lends has an account, and what the firm owes them on a day is what the  *)
(* journal has put on it up to that day.  What has been charged is read    *)
(* from the audit trail.                                                   *)
(***************************************************************************)
EXTENDS Partners

CONSTANTS
  LoanAccount,       \* each partner's, brought into the chart by the first loan
  MoneyAccounts,     \* asset accounts the money may move through
  InterestAccount,   \* 6710, Loan interest
  LoanAmounts,       \* what each partner may lend at a time, or be repaid
  InterestRates,
  Overrides          \* whether callers ask to post into a locked year

ASSUME LoansAssumption ==
  /\ LoanAccount \in [Partners -> Accounts \ SystemAccounts]
  /\ \A p, q \in Partners : LoanAccount[p] = LoanAccount[q] => p = q
  /\ MoneyAccounts \cup {InterestAccount} \subseteq Accounts
  /\ \A p \in Partners : LoanAccount[p] \notin MoneyAccounts \cup {InterestAccount}
  /\ LoanAmounts \in [Partners -> SUBSET (Nat \ {0})]
  /\ InterestRates \subseteq Nat \ {0}
  /\ Overrides \subseteq BOOLEAN
  /\ {"partner_loan", "partner_loan_interest"} \subseteq Sources

VARIABLE accruals   \* [partner, from, to, entry], the interest ever charged

DaysInYear == 365

\* accountBalance of a loan account: a liability, credits positive.
Owed(p, d) ==
  -Total([n \in {m \in DOMAIN journal : journal[m].date <= d} |->
            NetOn(LoanAccount[p], journal[n].lines)])

EntriesOn(account) ==
  {n \in DOMAIN journal : \E i \in DOMAIN journal[n].lines : journal[n].lines[i].account = account}

\* Slip: what is owed on the day itself may be repaid.
OwedThatDay(p, d) == Owed(p, d)

\* The least that is owed on the day or on any later one with an entry.
Outstanding(p, d) ==
  Min({Owed(p, e) : e \in {d} \cup {journal[n].date : n \in
        {m \in EntriesOn(LoanAccount[p]) : journal[m].date >= d}}})

AdvanceLines(p, money, amount) ==
  <<BaseLine(money, amount, 0), BaseLine(LoanAccount[p], 0, amount)>>

\* The loan account is made when a first loan is recorded.  The entry's ref,
\* the partner, is read by nothing.
RecordPartnerLoan(p, lines, d, override) ==
  /\ entityType = "partnership"
  /\ p \in DOMAIN partners
  /\ PostJournalEntry(d, "partner_loan", NoRef, lines, override)
  /\ partners' = [partners EXCEPT ![p].lent = TRUE]
  /\ UNCHANGED <<active, yearStatus, entityType, shares, accruals>>

AdvanceLoan(p, money, amount, d, override) ==
  RecordPartnerLoan(p, AdvanceLines(p, money, amount), d, override)

RepayLoan(p, money, amount, d, override) ==
  /\ amount <= Outstanding(p, d)
  /\ RecordPartnerLoan(p, Swapped(AdvanceLines(p, money, amount)), d, override)

\* Days already charged, by an entry that was not reversed.
Charged(p) ==
  UNION {a.from .. a.to : a \in {b \in accruals : b.partner = p /\ journal[b.entry].reversedBy = 0}}

\* Simple interest on what is owed at the end of each day.
InterestOn(p, rate, from, to) ==
  RoundedShare(Total([d \in from .. to |-> Max({Owed(p, d), 0})]),
               rate, 10000 * DaysInYear)

RecordPartnerLoanInterest(p, rate, from, to, override) ==
  LET amount == InterestOn(p, rate, from, to) IN
  /\ entityType = "partnership"
  /\ p \in DOMAIN partners
  /\ from <= to
  /\ partners[p].lent
  /\ Charged(p) \cap (from .. to) = {}
  /\ amount > 0
  /\ PostJournalEntry(to, "partner_loan_interest", NoRef,
       <<BaseLine(InterestAccount, amount, 0), BaseLine(LoanAccount[p], 0, amount)>>, override)
  /\ accruals' = accruals \cup {[partner |-> p, from |-> from, to |-> to, entry |-> Len(journal) + 1]}
  /\ UNCHANGED <<active, yearStatus, partnerVars>>

LoansStep ==
  \E p \in Partners, d \in Dates, override \in Overrides :
    \/ \E money \in MoneyAccounts, amount \in LoanAmounts[p] :
         \/ AdvanceLoan(p, money, amount, d, override)
         \/ RepayLoan(p, money, amount, d, override)
    \/ \E rate \in InterestRates, from \in Dates :
         RecordPartnerLoanInterest(p, rate, from, d, override)
------------------------------------------------------------------------------
\* The firm never takes more back than it was lent: as long as nothing but
\* repayments is debited to a partner's loan account, no entry that lent taken
\* back among them, it is overdrawn on no day, however the dates of advances,
\* repayments and interest run (loans.ts recordPartnerLoan: "a back-dated
\* repayment must not, with repayments already recorded later, take more back
\* than was ever lent").
LoansNeverOverdrawn ==
  \A p \in Partners :
    (\A n \in EntriesOn(LoanAccount[p]) :
       NetOn(LoanAccount[p], journal[n].lines) > 0 => journal[n].source = "partner_loan")
      => \A d \in Dates : Owed(p, d) >= 0
=============================================================================
