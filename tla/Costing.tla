-------------------------------- MODULE Costing --------------------------------
(***************************************************************************)
(* What an item's stock costs (src/src/domain/inventory/costing.ts): its   *)
(* movements replayed in the order of their days through one pool of cost  *)
(* for each location.  Nothing of an issue's cost is stored.  A movement's *)
(* number is its place in the order of recording; `rows` maps the numbers  *)
(* of an item's movements to them.                                         *)
(***************************************************************************)
EXTENDS DatedPostings, Sequences, FiniteSets

CONSTANT Locations      \* rows of a table: finitely many

ASSUME LocationsAssumption == IsFiniteSet(Locations)

CostingMethods == {"fifo", "weighted_average"}

EmptyPool == [quantity |-> 0, value |-> 0, layers |-> << >>]

QuantityOf(layers) == Total([n \in DOMAIN layers |-> layers[n].quantity])
ValueOf(layers) == Total([n \in DOMAIN layers |-> layers[n].value])

\* The k-th of a set of numbers.
Nth(S, k) == CHOOSE n \in S : Cardinality({m \in S : m < n}) = k - 1

\* The layers with something in them, in their order.
NotEmpty(layers) ==
  LET kept == {n \in DOMAIN layers : layers[n].quantity > 0}
  IN  [k \in 1..Cardinality(kept) |-> layers[Nth(kept, k)]]

\* addToPool.  Only the first-in-first-out method looks at layers.
Put(method, pool, layers) ==
  [quantity |-> pool.quantity + QuantityOf(layers),
   value |-> pool.value + ValueOf(layers),
   layers |-> IF method = "fifo" THEN pool.layers \o layers ELSE << >>]

Split(layer, q) ==
  [layer EXCEPT !.quantity = q, !.value = Share(layer.value, q, layer.quantity)]

\* What each layer gives of a quantity taken from the oldest.
FromOldest(layers, q) ==
  [n \in DOMAIN layers |->
     LET older == QuantityOf(SubSeq(layers, 1, n - 1))
     IN  Split(layers[n], IF older >= q THEN 0 ELSE Least(layers[n].quantity, q - older))]

\* What layers are left of when each has given something.
LeftOf(layers, given) ==
  NotEmpty([n \in DOMAIN layers |->
              [layers[n] EXCEPT !.quantity = @ - given[n].quantity, !.value = @ - given[n].value]])

\* takeFromPool: what is taken, and what is left.
Taken(method, pool, q) ==
  IF method = "fifo" THEN NotEmpty(FromOldest(pool.layers, q))
  ELSE << [receipt |-> 0, quantity |-> q, value |-> Share(pool.value, q, pool.quantity)] >>

Without(method, pool, q) ==
  [quantity |-> pool.quantity - q,
   value |-> pool.value - ValueOf(Taken(method, pool, q)),
   layers |-> LeftOf(pool.layers, FromOldest(pool.layers, q))]

------------------------------------------------------------------------------
(* takeReceiptBack: the goods of a receipt go out at the cost they came in  *)
(* at.  First in first out takes them from the receipt's layer; the average *)
(* loses their cost, and all it has with its last unit.                     *)

First(S) == CHOOSE n \in S : \A m \in S : n <= m
LayersOf(pool, k) == {n \in DOMAIN pool.layers : pool.layers[n].receipt = k}

\* Slip: the last unit out leaves behind what it did not cost itself.
BackAtCost(method, pool, k, quantity, value, q) ==
  IF method = "fifo"
  THEN LET layer == pool.layers[First(LayersOf(pool, k))] IN Share(layer.value, q, layer.quantity)
  ELSE Share(value, q, quantity)

ValueBack(method, pool, k, quantity, value, q) ==
  IF method = "fifo"
  THEN LET layer == pool.layers[First(LayersOf(pool, k))] IN Share(layer.value, q, layer.quantity)
  ELSE IF q = pool.quantity THEN pool.value ELSE Share(value, q, quantity)

GoodsAreThere(method, pool, k, q) ==
  method = "fifo" =>
    /\ LayersOf(pool, k) # {}
    /\ pool.layers[First(LayersOf(pool, k))].quantity >= q

WithoutReceipt(method, pool, k, value, q) ==
  [quantity |-> pool.quantity - q, value |-> pool.value - value,
   layers |-> IF method # "fifo" THEN << >>
              ELSE LET n == First(LayersOf(pool, k))
                   IN  NotEmpty([pool.layers EXCEPT
                          ![n].quantity = @ - q, ![n].value = @ - value])]

------------------------------------------------------------------------------
(* replayItem. *)

\* Where a replay stands: refused or not, the pools, what each movement was
\* worth, in or out, and what has come back of each issue.
Start(rows) ==
  [sound |-> TRUE, pools |-> [l \in Locations |-> EmptyPool],
   costs |-> [k \in DOMAIN rows |-> 0],
   returned |-> [k \in DOMAIN rows |-> [quantity |-> 0, value |-> 0]]]

Refused(s) == [s EXCEPT !.sound = FALSE]

PutIn(s, method, l, k, q, value) ==
  [s EXCEPT !.pools[l] = Put(method, @, << [receipt |-> k, quantity |-> q, value |-> value] >>),
            !.costs[k] = value]

\* Opening stock, a delivery, stock found.
AtItsOwnCost(method, rows, s, k) ==
  LET m == rows[k] IN PutIn(s, method, m.location, k, m.quantity, m.cost)

\* Slip: each return is a share of its own.
EachAtItsShare(method, rows, s, k) ==
  LET m == rows[k]
      issued == -rows[m.related].quantity
      total == s.returned[m.related].quantity + m.quantity
  IN  IF total > issued THEN Refused(s)
      ELSE [PutIn(s, method, m.location, k, m.quantity,
                  Share(-s.costs[m.related], m.quantity, issued))
              EXCEPT !.returned[m.related].quantity = total]

\* A customer's return or the reversal of an issue comes back at the cost the
\* issue left at; the last of it takes what remains.
AtTheCostItLeft(method, rows, s, k) ==
  LET m == rows[k]
      issued == -rows[m.related].quantity
      before == s.returned[m.related]
      total == before.quantity + m.quantity
      value == Share(-s.costs[m.related], total, issued) - before.value
  IN  IF total > issued THEN Refused(s)
      ELSE [PutIn(s, method, m.location, k, m.quantity, value)
              EXCEPT !.returned[m.related] = [quantity |-> total, value |-> before.value + value]]

\* A return to the supplier, or the reversal of a receipt.
AtTheCostItCameInAt(method, rows, s, k) ==
  LET m == rows[k]
      pool == s.pools[m.location]
      value == ValueBack(method, pool, m.related, rows[m.related].quantity, s.costs[m.related], -m.quantity)
  IN  IF ~GoodsAreThere(method, pool, m.related, -m.quantity) \/ value > pool.value THEN Refused(s)
      ELSE [s EXCEPT !.pools[m.location] = WithoutReceipt(method, @, m.related, value, -m.quantity),
                     !.costs[k] = -value]

\* Any other issue; a transfer brings what it takes to the other location.
AtTheMethodsCost(method, rows, s, k) ==
  LET m == rows[k]
      taken == Taken(method, s.pools[m.location], -m.quantity)
      value == ValueOf(taken)
      out == [s EXCEPT !.pools[m.location] = Without(method, @, -m.quantity), !.costs[k] = -value]
      to == rows[m.pair].location
      arrived == IF method = "fifo" THEN taken
                 ELSE << [receipt |-> m.pair, quantity |-> -m.quantity, value |-> value] >>
  IN  IF m.kind # "transfer_out" THEN out
      ELSE [out EXCEPT !.pools[to] = Put(method, @, arrived), !.costs[m.pair] = value]

\* A movement applied.  The one it refers to is earlier in every replay, and a
\* transfer in is applied with its transfer out.
Applied(method, rows, s, k) ==
  LET m == rows[k] IN
  IF ~s.sound \/ m.kind = "transfer_in" THEN s
  ELSE IF m.quantity > 0
  THEN IF m.related = 0 THEN AtItsOwnCost(method, rows, s, k) ELSE AtTheCostItLeft(method, rows, s, k)
  ELSE IF -m.quantity > s.pools[m.location].quantity THEN Refused(s)
  ELSE IF m.related # 0 THEN AtTheCostItCameInAt(method, rows, s, k)
  ELSE AtTheMethodsCost(method, rows, s, k)

Earlier(rows, j, k) == rows[j].date < rows[k].date \/ (rows[j].date = rows[k].date /\ j < k)

\* By date, then in the order of recording.
Latest(rows, S) == CHOOSE k \in S : \A j \in S \ {k} : Earlier(rows, j, k)

Replay(method, rows) ==
  LET after[S \in SUBSET DOMAIN rows] ==
        IF S = {} THEN Start(rows)
        ELSE LET k == Latest(rows, S) IN Applied(method, rows, after[S \ {k}], k)
  IN  after[DOMAIN rows]
=============================================================================
