\* Two payments of 1, 2 or 4, matched to one bank line or to none; a document named
\* a second time for 2.
SPECIFICATION PaymentsSpec
CONSTANTS
  inv = inv
  cn = cn
  Invoices = {inv}
  CreditNotes = {cn}
  Gross <- MCGross
  Vat <- MCVat
  ReliefRate <- MCReliefRate
  Amounts = {1, 2, 4}
  NamedAgain = {2}
  BankLines = {l1}
  NoLine = NoLine
  MaxPayments = 2
INVARIANTS
  PaymentsTypeOK
  PaidIsWhatStands
  NothingIsSpentTwice
  ControlsAgree
  TakingBackRestoresTheVat
  DeclaredIsTheShare
CHECK_DEADLOCK FALSE
