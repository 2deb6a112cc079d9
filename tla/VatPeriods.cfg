\* Up to three journals: a receipt classified and classified again, or an
\* invoice posted and voided beside a receipt, while two periods are moved and filed.
SPECIFICATION VatSpec
CONSTANTS
  Dates = {1, 2, 3}
  Calendars <- MCCalendars
  Treatments = {"standard", "reverse_charge", "outside"}
  Legs <- MCLegs
  Billed = {"reverse_charge"}
  Receipts = {"standard", "outside"}
  Invoices = {"invoice"}
  BankLines = {"receipt"}
  MaxPeriods = 2
  MaxJournals = 3
INVARIANTS
  PeriodsDisjoint
  FiledFiguresAgree
  CorrectionsNetOut
PROPERTIES
  LockedReturnsStand
  RegisterSpec
CHECK_DEADLOCK FALSE
