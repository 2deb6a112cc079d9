\* Three receipts of 1 or 3 on one invoice.
SPECIFICATION PaymentsSpec
CONSTANTS
  inv = inv
  cn = cn
  Invoices = {inv}
  CreditNotes = {}
  Gross <- MCGrossOfInvoice
  Vat <- MCVatOfInvoice
  ReliefRate <- MCReliefRateOfInvoice
  Amounts = {1, 3}
  NamedAgain = {}
  BankLines = {}
  NoLine = NoLine
  MaxPayments = 3
INVARIANTS
  FullyPaidFullyDeclared
CHECK_DEADLOCK FALSE
