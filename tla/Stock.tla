--------------------------------- MODULE Stock ---------------------------------
(***************************************************************************)
(* The stock ledger (src/src/domain/inventory): movements of items between *)
(* locations, stocktakes, and the closing stock valuations that bring the  *)
(* stock accounts to what is on hand.  Every operation is one transaction, *)
(* and what it records is replayed within it (module Costing): an unsound  *)
(* history is refused.  Inactive locations, voided invoices and locked     *)
(* years refuse more than the model does; the account a closing journal    *)
(* takes the other side from, the reasons given, the review items raised   *)
(* and the book quantities a stocktake shows are left out.                 *)
(***************************************************************************)
EXTENDS Costing

CONSTANTS
  Catalogue,          \* the stock items, in the order of their codes
  StockAccounts,      \* current asset accounts
  StockOnHand,        \* 1300, the account an item has unless another is given
  Deliveries,         \* purchase invoice lines
  Billed,             \* each one's invoice date, quantity and net
  Sales,              \* sales invoice lines
  Sold,               \* each one's quantity
  NoLine,
  Quantities,         \* a movement may be of
  Counts,             \* a stocktake may count
  UnitCosts,          \* for a whole unit
  NoCost,
  Whole,              \* a unit, in the quantities' measure: 1000 in the code
  OutsideAmounts,     \* what an entry that is no closing stock may post
  StockDays,          \* bound: the days anything is recorded on
  MaxStock            \* bound: the movements, stocktakes, valuations, items
                      \* given other accounts, and accounts and days with
                      \* entries of others, together: see StockLoad

Items == {Catalogue[n] : n \in DOMAIN Catalogue}
Kinds == {"opening", "purchase", "sale", "customer_return", "supplier_return",
          "adjustment", "transfer_out", "transfer_in", "reversal"}

ASSUME StockAssumption ==
  /\ Catalogue \in Seq(Items)
  /\ StockOnHand \in StockAccounts
  /\ Billed \in [Deliveries -> [date : Days, quantity : Nat \ {0}, net : Nat]]
  /\ Sold \in [Sales -> Nat \ {0}]
  /\ NoLine \notin Deliveries \cup Sales
  /\ Quantities \subseteq Nat \ {0} /\ Counts \subseteq Nat
  /\ UnitCosts \subseteq Nat /\ NoCost \notin UnitCosts
  /\ Whole \in Nat \ {0}
  /\ OutsideAmounts \subseteq Int
  /\ StockDays \subseteq Days
  /\ MaxStock \in Nat

VARIABLES
  catalogued,    \* each item's costing method and stock account
  movements,     \* in the order of recording
  stocktakes,
  valuations,    \* the closing stock posted
  outside,       \* what others posted on each stock account, by day
  closing,       \* and what closing stock did
  since          \* what others posted on each, dated by the last valuation,
                 \* after it was posted

stockVars == <<catalogued, movements, stocktakes, valuations, outside, closing, since>>

Item == [method : CostingMethods, account : StockAccounts]
Movement == [item : Items, location : Locations, date : Days, kind : Kinds, quantity : Int,
             cost : Nat, related : Nat, pair : Nat, line : Deliveries \cup Sales \cup {NoLine}]
Count == [quantity : Counts, unitCost : UnitCosts \cup {NoCost}]
Stocktake == [location : Locations, date : Days, counts : UNION {[S -> Count] : S \in SUBSET Items},
              posted : BOOLEAN]
Position == [quantity : Nat, value : Nat]
Valuation == [date : Days, positions : [Items -> [Locations -> Position]],
              accounts : [Items -> StockAccounts]]

StockInit ==
  /\ catalogued = [i \in Items |-> [method |-> "fifo", account |-> StockOnHand]]
  /\ movements = << >> /\ stocktakes = << >> /\ valuations = << >>
  /\ outside = [a \in StockAccounts |-> [d \in Days |-> 0]]
  /\ closing = [a \in StockAccounts |-> [d \in Days |-> 0]]
  /\ since = [a \in StockAccounts |-> 0]

------------------------------------------------------------------------------
(* Reading the stock ledger. *)

\* The movements of an item by a day.
RowsOf(ms, i, d) ==
  [k \in {n \in DOMAIN ms : ms[n].item = i /\ ms[n].date <= d} |-> ms[k]]

ReplayOf(ms, i, d) == Replay(catalogued[i].method, RowsOf(ms, i, d))

OnHand(pool) == [quantity |-> pool.quantity, value |-> pool.value]

\* quantityOnHand, and its value, at each location.
PositionsOf(i, d) ==
  LET pools == ReplayOf(movements, i, d).pools IN [l \in Locations |-> OnHand(pools[l])]

Positions(d) == [i \in Items |-> PositionsOf(i, d)]

\* assertAfterLastValuation.
AfterLastValuation(d) == \A n \in DOMAIN valuations : d > valuations[n].date

\* costOfQuantity.
CostOf(unitCost, q) == Share(unitCost, q, Whole)

Moving(i, l, d, kind, q) ==
  [item |-> i, location |-> l, date |-> d, kind |-> kind, quantity |-> q,
   cost |-> 0, related |-> 0, pair |-> 0, line |-> NoLine]

\* insertMovement, then the replay that refuses an unsound history.
Record(rows) ==
  LET ms == movements \o rows IN
  /\ \A n \in DOMAIN rows : ReplayOf(ms, rows[n].item, LastDay).sound
  /\ movements' = ms

\* begin: nothing moves by a day whose closing stock is posted.
RecordAfterValuation(rows) ==
  /\ \A n \in DOMAIN rows : AfterLastValuation(rows[n].date)
  /\ Record(rows)
  /\ UNCHANGED <<catalogued, stocktakes, valuations, outside, closing, since>>

Reversed(k) == \E n \in DOMAIN movements : movements[n].kind = "reversal" /\ movements[n].related = k

Magnitude(q) == IF q < 0 THEN -q ELSE q

\* movedAgainstLine: less what was reversed.
MovedAgainst(line, kind) ==
  LET moved == {k \in DOMAIN movements : /\ movements[k].line = line
                                         /\ movements[k].kind = kind /\ ~Reversed(k)}
  IN  Total([k \in moved |-> Magnitude(movements[k].quantity)])

------------------------------------------------------------------------------
(* Recording movements (movements.ts). *)

RecordOpeningStock(i, l, d, q, unitCost) ==
  /\ \A k \in DOMAIN movements :
       movements[k].item = i /\ movements[k].location = l => movements[k].date >= d
  /\ RecordAfterValuation(<< [Moving(i, l, d, "opening", q) EXCEPT !.cost = CostOf(unitCost, q)] >>)

\* A part delivery costs what it adds to the share delivered.
ReceivePurchase(i, l, d, line, q) ==
  LET billed == Billed[line]
      already == MovedAgainst(line, "purchase")
      cost == Share(billed.net, already + q, billed.quantity) - Share(billed.net, already, billed.quantity)
  IN
  /\ d >= billed.date
  /\ already + q <= billed.quantity
  /\ RecordAfterValuation(<< [Moving(i, l, d, "purchase", q) EXCEPT !.cost = cost, !.line = line] >>)

IssueSale(i, l, d, line, q) ==
  /\ MovedAgainst(line, "sale") + q <= Sold[line]
  /\ RecordAfterValuation(<< [Moving(i, l, d, "sale", -q) EXCEPT !.line = line] >>)

\* That no more comes back than was sold is left to the replay.
RecordCustomerReturn(k, l, d, q) ==
  /\ movements[k].kind = "sale"
  /\ d >= movements[k].date
  /\ RecordAfterValuation(<< [Moving(movements[k].item, l, d, "customer_return", q) EXCEPT !.related = k] >>)

RecordSupplierReturn(k, l, d, q) ==
  LET gone == {n \in DOMAIN movements : movements[n].related = k /\ movements[n].kind = "supplier_return"}
  IN
  /\ movements[k].kind = "purchase"
  /\ d >= movements[k].date
  /\ q - Total([n \in gone |-> movements[n].quantity]) <= movements[k].quantity
  /\ RecordAfterValuation(<< [Moving(movements[k].item, l, d, "supplier_return", -q) EXCEPT !.related = k] >>)

\* recordDamagedStock, and an adjustment down: they differ in their names.
RecordStockOut(i, l, d, q) == RecordAfterValuation(<< Moving(i, l, d, "adjustment", -q) >>)

RecordStockIn(i, l, d, q, unitCost) ==
  RecordAfterValuation(<< [Moving(i, l, d, "adjustment", q) EXCEPT !.cost = CostOf(unitCost, q)] >>)

TransferStock(i, from, to, d, q) ==
  LET n == Len(movements) IN
  /\ to # from
  /\ RecordAfterValuation(<< [Moving(i, from, d, "transfer_out", -q) EXCEPT !.pair = n + 2],
                             [Moving(i, to, d, "transfer_in", q) EXCEPT !.pair = n + 1] >>)

\* A movement with returns is not reversed, whether or not these were.
ReverseStockMovement(k, d) ==
  LET m == movements[k] IN
  /\ m.kind \notin {"reversal", "transfer_in", "transfer_out"}
  /\ \A n \in DOMAIN movements : movements[n].related # k
  /\ d >= m.date
  /\ RecordAfterValuation(<< [Moving(m.item, m.location, d, "reversal", -m.quantity) EXCEPT !.related = k] >>)

\* updateItem: the method is fixed once the item has moved, the account is not.
UpdateItem(i, method, account) ==
  /\ method # catalogued[i].method => \A k \in DOMAIN movements : movements[k].item # i
  /\ catalogued' = [catalogued EXCEPT ![i] = [method |-> method, account |-> account]]
  /\ UNCHANGED <<movements, stocktakes, valuations, outside, closing, since>>

------------------------------------------------------------------------------
(* Stocktakes (stocktakes.ts). *)

CreateStocktake(l, d) ==
  /\ stocktakes' = Append(stocktakes, [location |-> l, date |-> d, counts |-> << >>, posted |-> FALSE])
  /\ UNCHANGED <<catalogued, movements, valuations, outside, closing, since>>

\* The counts of a draft are entered and changed; none is taken off.
SetStocktakeCount(t, i, count) ==
  LET counts == stocktakes[t].counts IN
  /\ ~stocktakes[t].posted
  /\ stocktakes' = [stocktakes EXCEPT ![t].counts =
       [j \in DOMAIN counts \cup {i} |-> IF j = i THEN count ELSE counts[j]]]
  /\ UNCHANGED <<catalogued, movements, valuations, outside, closing, since>>

BookQuantity(i, l, d) == PositionsOf(i, d)[l].quantity

\* What each count found over or short of the book quantity on the day.
Over(st) ==
  [i \in DOMAIN st.counts |-> st.counts[i].quantity - BookQuantity(i, st.location, st.date)]

Found(st, i, q) ==
  [Moving(i, st.location, st.date, "adjustment", q)
     EXCEPT !.cost = IF q > 0 THEN CostOf(st.counts[i].unitCost, q) ELSE 0]

\* The items whose count differs, by their place in the order of the codes.
Off(over) == {n \in DOMAIN Catalogue : Catalogue[n] \in DOMAIN over /\ over[Catalogue[n]] # 0}

Differences(st, over) ==
  [k \in 1..Cardinality(Off(over)) |->
     LET i == Catalogue[Nth(Off(over), k)] IN Found(st, i, over[i])]

Countable(st, over) ==
  /\ st.counts # << >>
  /\ \A i \in DOMAIN over : over[i] > 0 => st.counts[i].unitCost # NoCost

\* Slip: whether closing stock was posted since is not asked.
PostStaleStocktake(t) ==
  LET st == stocktakes[t] IN
  \E over \in {Over(st)} :
    /\ ~st.posted
    /\ Countable(st, over)
    /\ Record(Differences(st, over))
    /\ stocktakes' = [stocktakes EXCEPT ![t].posted = TRUE]
    /\ UNCHANGED <<catalogued, valuations, outside, closing, since>>

\* postStocktake: a movement for every difference, and a unit cost for every
\* count over.  A draft of before a valuation is refused by its date.
PostStocktake(t) ==
  LET st == stocktakes[t] IN
  \E over \in {Over(st)} :
    /\ ~st.posted
    /\ AfterLastValuation(st.date)
    /\ Countable(st, over)
    /\ Record(Differences(st, over))
    /\ stocktakes' = [stocktakes EXCEPT ![t].posted = TRUE]
    /\ UNCHANGED <<catalogued, valuations, outside, closing, since>>

------------------------------------------------------------------------------
(* Closing stock (closing.ts). *)

\* accountBalance of a stock account.
StockBalance(a, d) == UpTo(outside, a, d) + UpTo(closing, a, d)

\* The items a valuation has a line for: those with stock, or value, somewhere.
Lined(v) == {i \in Items : \E l \in Locations : v.positions[i][l] # [quantity |-> 0, value |-> 0]}

ItemValue(v, i) == Total([l \in Locations |-> v.positions[i][l].value])
ValueIn(v, a) == Total([i \in {j \in Items : v.accounts[j] = a} |-> ItemValue(v, i)])

\* valueInventory.
ValuationOn(d) ==
  [date |-> d, positions |-> Positions(d), accounts |-> [i \in Items |-> catalogued[i].account]]

OpeningBy(d) == {k \in DOMAIN movements : movements[k].kind = "opening" /\ movements[k].date <= d}

\* What was last booked on an account: by the valuation before, or as opening
\* stock, reversed or not.
Booked(a, d) ==
  IF valuations = << >>
  THEN Total([k \in {n \in OpeningBy(d) : catalogued[movements[n].item].account = a} |-> movements[k].cost])
  ELSE ValueIn(valuations[Len(valuations)], a)

LinedAccounts(v) == {v.accounts[i] : i \in Lined(v)}

\* Slip: only those of the items there are now.
PlannedNow(v) == LinedAccounts(v)

\* The stock accounts a closing looks at.
Planned(v) ==
  LinedAccounts(v)
    \cup IF valuations = << >> THEN {catalogued[movements[k].item].account : k \in OpeningBy(v.date)}
         ELSE LinedAccounts(valuations[Len(valuations)])

\* postClosingStock: refused unless each account holds what was last booked.
PostClosingStock(d) ==
  \E v \in {ValuationOn(d)} :
    /\ AfterLastValuation(d)
    /\ \A a \in Planned(v) : StockBalance(a, d) = Booked(a, d)
    /\ closing' = [a \in StockAccounts |->
         IF a \in Planned(v) THEN [closing[a] EXCEPT ![d] = @ + ValueIn(v, a) - Booked(a, d)] ELSE closing[a]]
    /\ valuations' = Append(valuations, v)
    /\ since' = [a \in StockAccounts |-> 0]
    /\ UNCHANGED <<catalogued, movements, stocktakes, outside>>

\* An opening balance, or any entry posted outside closing stock.
PostOutside(a, d, amount) ==
  /\ outside[a][d] = 0
  /\ outside' = Moved(outside, a, d, amount)
  /\ since' = IF AfterLastValuation(d) THEN since ELSE [since EXCEPT ![a] = @ + amount]
  /\ UNCHANGED <<catalogued, movements, stocktakes, valuations, closing>>

\* A transfer is two movements; adjustments, stocktakes and the entries of
\* others count twice.
StockLoad ==
  Len(movements) + Len(valuations) + Cardinality({i \in Items : catalogued[i].account # StockOnHand})
  + Cardinality({k \in DOMAIN movements : movements[k].kind = "adjustment"})
  + 2 * (Len(stocktakes) + Cardinality({p \in StockAccounts \X Days : outside[p[1]][p[2]] # 0}))

MovementStep ==
  \E d \in StockDays, q \in Quantities :
    \/ \E i \in Items, l \in Locations :
         \/ \E unitCost \in UnitCosts : RecordOpeningStock(i, l, d, q, unitCost)
         \/ \E line \in Deliveries : ReceivePurchase(i, l, d, line, q)
         \/ \E line \in Sales : IssueSale(i, l, d, line, q)
         \/ RecordStockOut(i, l, d, q)
         \/ \E unitCost \in UnitCosts : RecordStockIn(i, l, d, q, unitCost)
         \/ \E to \in Locations : TransferStock(i, l, to, d, q)
    \/ \E k \in DOMAIN movements, l \in Locations :
         RecordCustomerReturn(k, l, d, q) \/ RecordSupplierReturn(k, l, d, q)

StockStep ==
  \/ MovementStep
  \/ \E k \in DOMAIN movements, d \in StockDays : ReverseStockMovement(k, d)
  \/ \E l \in Locations, d \in StockDays : CreateStocktake(l, d)
  \/ \E a \in StockAccounts, d \in StockDays, amount \in OutsideAmounts : PostOutside(a, d, amount)
  \/ \E d \in StockDays : PostClosingStock(d)

StockNext ==
  \/ StockLoad < MaxStock /\ StockStep
  \/ \E i \in Items, method \in CostingMethods, account \in StockAccounts : UpdateItem(i, method, account)
  \/ \E t \in DOMAIN stocktakes, i \in Items, count \in Count : SetStocktakeCount(t, i, count)
  \/ \E t \in DOMAIN stocktakes : PostStocktake(t)

StockSpec == StockInit /\ [][StockNext]_stockVars
------------------------------------------------------------------------------
StockTypeOK ==
  /\ catalogued \in [Items -> Item]
  /\ movements \in Seq(Movement)
  /\ stocktakes \in Seq(Stocktake)
  /\ valuations \in Seq(Valuation)
  /\ outside \in [StockAccounts -> [Days -> Int]] /\ closing \in [StockAccounts -> [Days -> Int]]
  /\ since \in [StockAccounts -> Int]

\* At every location and on every day something moved, whatever was recorded
\* late, brought back, sent back, moved or reversed: what the replay holds is
\* the sum of the movements there, in quantity and in value; neither is below
\* nil; and with the last unit goes the last cent (costing.ts replayItem:
\* "Stock cannot go below nil at a location on any date").
NothingIsLeftAtNil ==
  \A i \in Items, d \in {movements[k].date : k \in DOMAIN movements} :
    LET rows == RowsOf(movements, i, d)
        replay == ReplayOf(movements, i, d)
    IN  /\ replay.sound
        /\ \A l \in Locations :
             LET pool == replay.pools[l]
                 here == {k \in DOMAIN rows : rows[k].location = l}
             IN  /\ pool.quantity = Total([k \in here |-> rows[k].quantity])
                 /\ pool.value = Total([k \in here |-> replay.costs[k]])
                 /\ pool.quantity >= 0 /\ pool.value >= 0
                 /\ pool.quantity = 0 => pool.value = 0

\* An issue that has all come back, in however many returns and wherever
\* to, came back at exactly the cost it left at, also after something recorded
\* late changed that cost; and first in first out, a receipt that has all gone
\* back went at exactly the cost it came in at (costing.ts: "A customer return
\* comes back at the cost its sale left at").
WhatComesBackCostsTheSame ==
  \A i \in Items :
    LET rows == RowsOf(movements, i, LastDay)
        costs == ReplayOf(movements, i, LastDay).costs
    IN  \A k \in DOMAIN rows :
          LET back == {n \in DOMAIN rows : rows[n].related = k}
          IN  /\ rows[k].quantity < 0 \/ catalogued[i].method = "fifo"
              /\ rows[k].quantity + Total([n \in back |-> rows[n].quantity]) = 0
              => costs[k] + Total([n \in back |-> costs[n]]) = 0

\* Nothing recorded after closing stock was posted changes what it was valued
\* at: the same valuation, taken again, finds the same quantities and costs
\* (movements.ts assertAfterLastValuation: "a movement dated then would make
\* that valuation wrong without changing it").
ValuationsStand ==
  \A n \in DOMAIN valuations : valuations[n].positions = Positions(valuations[n].date)

\* The stock accounts with stock in the last valuation, or in the one before,
\* hold on its day what it valued there, and what others have since posted
\* there by that day: also when items were given other accounts between
\* (closing.ts postClosingStock).
LedgerCarriesTheValuation ==
  valuations # << >> =>
    LET n == Len(valuations)
        v == valuations[n]
        covered == LinedAccounts(v) \cup IF n > 1 THEN LinedAccounts(valuations[n - 1]) ELSE {}
    IN  \A a \in covered : StockBalance(a, v.date) = ValueIn(v, a) + since[a]
=============================================================================
