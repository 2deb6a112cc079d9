\* A close, its reversal, a second close, a late sale and the year's third close.
SPECIFICATION YearEndSpec
CONSTANTS
  BaseCurrency = "EUR"
  Foreign = {}
  RoundingAccount = "rounding"
  Accounts = {"bank", "sales", "rent", "retained", "rounding"}
  SystemAccounts = {"bank", "sales", "rent", "retained", "rounding"}
  Dates = {1}
  Years = {"fy1"}
  Span <- OneYear
  Postings <- OneSale
  Sources = {"manual_adjustment", "bank_transaction", "reversal", "year_end_close",
             "partner_loan", "partner_loan_interest"}
  ShutStatuses = {"locked"}
  Refs = {"none", "fy1", "fy2"}
  MaxEntries = 6
  IncomeAccounts = {"sales"}
  ExpenseAccounts = {"rent"}
  RetainedEarnings = "retained"
  MaxLoad <- AnyLoad
  EntityTypes = {"company"}
  Partners = {}
  CurrentAccount <- NoOne
  LoanAccount <- NoOne
  BasisPoints = {}
  MoneyAccounts = {}
  InterestAccount = "rent"
  LoanAmounts <- NoOne
  InterestRates = {}
  Overrides = {FALSE, TRUE}
PROPERTY
  NoSecondCloseWhileOneStands
\* The books stop for good at MaxLoad.
CHECK_DEADLOCK FALSE
