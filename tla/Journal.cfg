\* Three entries: one, its reversal and the reversal of that, with an account
\* archived and a year locked or closed anywhere between.
SPECIFICATION Spec
CONSTANTS
  BaseCurrency = "EUR"
  Foreign = {"USD"}
  RoundingAccount = "rounding"
  Accounts = {"bank", "sales", "rounding"}
  SystemAccounts = {"rounding"}
  Dates = {1, 2, 3}
  Years = {"fy1", "fy2", "shifted"}
  Span <- MCSpan
  Postings <- MCPostings
  Sources = {"manual_adjustment", "bank_transaction", "reversal"}
  ShutStatuses = {"locked", "closed"}
  Refs = {"none"}
  MaxEntries = 3
INVARIANTS
  EveryEntryBalances
  EveryEntryCanBeTakenBack
  RoundingNeverHidesAnImbalance
  EntryInExactlyOneYear
PROPERTIES
  ShutBooksStayShut
  LedgerSpec
