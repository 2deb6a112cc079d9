\* Four entries: two closes, or one taken back, around what they close.
SPECIFICATION YearEndSpec
CONSTANTS
  BaseCurrency = "EUR"
  Foreign = {}
  RoundingAccount = "rounding"
  Accounts = {"bank", "sales", "rent", "retained", "rounding",
              "current1", "current2", "loan1", "loan2", "interest"}
  SystemAccounts = {"bank", "sales", "rent", "retained", "rounding"}
  Dates = {1, 2, 3}
  Years = {"fy1", "fy2"}
  Span <- MCSpan
  Postings <- MCPostings
  Sources = {"manual_adjustment", "bank_transaction", "reversal", "year_end_close",
             "partner_loan", "partner_loan_interest"}
  ShutStatuses = {}
  Refs = {"none", "fy1", "fy2"}
  MaxEntries = 4
  IncomeAccounts = {"sales"}
  ExpenseAccounts = {"rent", "interest"}
  RetainedEarnings = "retained"
  MaxLoad <- MCLoad
  EntityTypes = {"company", "partnership"}
  Partners = {1, 2}
  CurrentAccount <- CurrentOf
  LoanAccount <- LoanOf
  BasisPoints = {5000, 10000}
  MoneyAccounts = {"bank"}
  InterestAccount = "interest"
  LoanAmounts <- OneLends
  InterestRates = {10000}
  Overrides = {FALSE}
INVARIANTS
  CloseEmptiesProfitAndLoss
  OrdinaryYearCanBeClosed
  LoansNeverOverdrawn
  ReportedIsWhatWasGained
\* The books stop for good at MaxLoad.
CHECK_DEADLOCK FALSE
