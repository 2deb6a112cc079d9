SPECIFICATION SchedulesSpec
CONSTANTS
  BaseCurrency = "EUR"
  Foreign = {}
  RoundingAccount = "rounding"
  Accounts = {"bank", "rent", "accruals", "prepayments", "rounding"}
  SystemAccounts = {"bank", "accruals", "prepayments", "rounding"}
  Dates = {1, 2, 3}
  Years = {"fy1", "fy2"}
  Span <- MCSpan
  Postings = {}
  Sources = {"manual_adjustment", "bank_transaction", "reversal", "recurring", "accrual", "prepayment"}
  ShutStatuses = {"locked"}
  Refs = {"none", "rec1"}
  MaxEntries = 3
  CostAccounts = {"rent"}
  AccrualsAccount = "accruals"
  PrepaymentsAccount = "prepayments"
  Amounts = {1}
  Templates = {1}
  TemplateRefs <- MCRefs
  Frequencies = {1}
  TemplateLines <- MCLines
  EndDates = {2, 4}
  TooManyDue = 4
INVARIANTS
  OccurrencePostedOnce
PROPERTIES
  RecurringRunCatchesUp
  TimingRunSettles
