\* Two documents; three imports and two lines of one print at most.
SPECIFICATION BankSpec
CONSTANTS
  csv = csv
  xlsx = xlsx
  q1 = q1
  d1 = d1
  d2 = d2
  Prints = {p1}
  Files = {csv, xlsx}
  Held <- MCHeld
  Faulty = {csv}
  Workbooks = {xlsx}
  Manual = Manual
  NoFile = NoFile
  Requests = {q1}
  MaxRows = 2
  MaxImports = 3
  Docs = {d1, d2}
  Unlinked = Unlinked
  MaxLoad = 4
SYMMETRY Symmetry
INVARIANTS
  NumbersRunOn
  LinesAgreeWithTheBooks
  WhatIsUsedIsConfirmed
PROPERTIES
  ImportBringsUpToTheFile
  PaidEvidenceStays
