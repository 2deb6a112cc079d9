\* An invoice of a filed period, declared in the next one, which is then reviewed.
SPECIFICATION VatSpec
CONSTANTS
  Dates = {1, 2, 3}
  Calendars <- MCCalendars
  Treatments = {"standard", "reverse_charge", "outside"}
  Legs <- MCLegs
  Billed = {"reverse_charge"}
  Receipts = {"standard", "outside"}
  Invoices = {"invoice"}
  BankLines = {"receipt"}
  MaxPeriods = 2
  MaxJournals = 1
INVARIANT
  LateDeclarationDoesNotBlock
CHECK_DEADLOCK FALSE
