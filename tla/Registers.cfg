SPECIFICATION RegistersSpec
CONSTANTS
  i1 = i1
  i2 = i2
  c1 = c1
  c2 = c2
  ad1 = ad1
  ad2 = ad2
  LastDay = 3
  Assets = {i1, i2}
  CostAccounts = {c1, c2}
  AccumulatedAccounts = {ad1, ad2}
  MainAccumulated = ad1
  NoAccount = NoAccount
  MonthLength = 1
  Plans <- MCPlans
  Amounts = {8}
  MaxLoad = 4
  widget = widget
  shop = shop
  van = van
  s1 = s1
  s2 = s2
  bill1 = bill1
  sale1 = sale1
  Locations = {shop, van}
  Catalogue <- MCCatalogue
  StockAccounts = {s1, s2}
  StockOnHand = s1
  Deliveries = {bill1}
  Billed <- MCBilled
  Sales = {sale1}
  Sold <- MCSold
  NoLine = NoLine
  Quantities = {1, 2}
  Counts = {1}
  UnitCosts = {19}
  NoCost = NoCost
  Whole = 2
  OutsideAmounts = {10}
  StockDays = {1, 3}
  MaxStock = 4
SYMMETRY Symmetry
INVARIANTS
  RegistersTypeOK
  ChargesFollowTheSchedule
  RegisterExplainsTheLedger
  NothingIsLeftAtNil
  WhatComesBackCostsTheSame
  ValuationsStand
  LedgerCarriesTheValuation
CHECK_DEADLOCK FALSE
