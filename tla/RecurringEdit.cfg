\* A monthly template whose day of the month is edited: two months of two days.
SPECIFICATION SchedulesSpec
CONSTANTS
  BaseCurrency = "EUR"
  Foreign = {}
  RoundingAccount = "rounding"
  Accounts = {"bank", "rent", "accruals", "prepayments", "rounding"}
  SystemAccounts = {"bank", "accruals", "prepayments", "rounding"}
  Dates = {1, 2, 3, 4}
  Years = {"fy1"}
  Span <- MonthsSpan
  Postings = {}
  Sources = {"manual_adjustment", "bank_transaction", "reversal", "recurring", "accrual", "prepayment"}
  ShutStatuses = {"locked"}
  Refs = {"none", "rec1"}
  MaxEntries = 3
  CostAccounts = {}
  AccrualsAccount = "accruals"
  PrepaymentsAccount = "prepayments"
  Amounts = {1}
  Templates = {1}
  TemplateRefs <- MCRefs
  Frequencies = {2}
  TemplateLines <- MCLines
  EndDates = {5}
  TooManyDue = 3
INVARIANT
  EditingChangesOnlyFutureOccurrences
