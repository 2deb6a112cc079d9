-------------------------------- MODULE Assets --------------------------------
(***************************************************************************)
(* The register of fixed assets (src/src/domain/assets/register.ts) and    *)
(* their depreciation and disposal (depreciation.ts).  The ledger is       *)
(* reduced to what is posted on the fixed-asset accounts day by day, what  *)
(* the register's own journals post apart from everything else: purchases, *)
(* corrections, reversals.  The posting engine may refuse any of them, and *)
(* then nothing happens (module Journal).  Capital allowances are only     *)
(* computed, and left out.                                                 *)
(***************************************************************************)
EXTENDS DatedPostings, Sequences, FiniteSetsExt

CONSTANTS
  Assets,                \* ids of the assets
  CostAccounts,          \* the other fixed-asset accounts
  AccumulatedAccounts,   \* isAccumulatedAccount: those of that name, and
  MainAccumulated,       \* the accumulated_depreciation system account
  NoAccount,
  MonthLength,           \* days in a month: months are all of one length
  Plans,                 \* what an asset may be registered with
  Amounts,               \* what an entry not of the register may put on an account
  MaxLoad                \* bound: accounts and days with such entries, assets
                         \* registered, transfers, assets disposed of, together

Methods == {"straight_line", "reducing_balance", "none"}

ASSUME AssetsAssumption ==
  /\ IsFiniteSet(Assets)
  /\ CostAccounts \cap AccumulatedAccounts = {}
  /\ MainAccumulated \in AccumulatedAccounts
  /\ NoAccount \notin CostAccounts \cup AccumulatedAccounts
  /\ MonthLength \in Nat \ {0}
  /\ Plans \subseteq [cost : Nat \ {0}, residual : Nat, months : Nat \ {0}, method : Methods]
  /\ \A p \in Plans : p.residual < p.cost
  /\ Amounts \subseteq Int
  /\ MaxLoad \in Nat

VARIABLES
  assets,       \* each asset's row
  transfers,    \* the history of each asset's accounts
  charges,      \* the depreciation charged, month by month
  others,       \* what entries not of the register put on each account, by day
  journals,     \* and what those of the register did
  disturbed     \* assets whose journals reached behind, or came after, the
                \* end of something: see TransferFixedAsset, PostDepreciation

assetVars == <<assets, transfers, charges, others, journals, disturbed>>

Accounts == CostAccounts \cup AccumulatedAccounts

\* requireCostAccount: all but the system account, whatever their names.
AcceptedForCost == Accounts \ {MainAccumulated}

Never == 0

Asset == [status : {"active", "fully_depreciated", "disposed"}, bought : Days,
          plan : Plans, account : AcceptedForCost, accumulatedIn : AccumulatedAccounts,
          accumulated : Nat, disposedOn : Days \cup {Never}]
Unregistered == [status |-> "none"]
Transfer == [date : Days, from : AcceptedForCost, to : AcceptedForCost,
             fromAccumulated : AccumulatedAccounts \cup {NoAccount},
             toAccumulated : AccumulatedAccounts \cup {NoAccount}]
Charge == [asset : Assets, start : Days, end : Days, amount : Nat \ {0}]

Nothing == [a \in Accounts |-> [d \in Days |-> 0]]

AssetsInit ==
  /\ assets = [i \in Assets |-> Unregistered]
  /\ transfers = [i \in Assets |-> << >>]
  /\ charges = {}
  /\ others = Nothing /\ journals = Nothing
  /\ disturbed = {}

Registered == {i \in Assets : assets[i] # Unregistered}

\* accountBalance.
Balance(a, d) == UpTo(others, a, d) + UpTo(journals, a, d)

------------------------------------------------------------------------------
(* The schedule of an asset: buildDepreciationSchedule. *)

MonthEnd(d) == ((d - 1) \div MonthLength + 1) * MonthLength
PeriodEnd(a, k) == MonthEnd(a.bought) + (k - 1) * MonthLength
PeriodStart(a, k) == IF k = 1 THEN a.bought ELSE PeriodEnd(a, k - 1) + 1

Depreciable(p) == p.cost - p.residual

\* A month's charge: the same each month, or in hundredths of a per cent of
\* what is left.
MonthlyCharge(p, charged) ==
  IF p.method = "reducing_balance"
  THEN Share(Depreciable(p) - charged, Share(10000, 1, p.months), 10000)
  ELSE Share(Depreciable(p), 1, p.months)

\* What is charged by the end of each month: the last takes what is left, and
\* a month with nothing to charge ends the schedule.
ChargedBy(p) ==
  LET charged[k \in 0..p.months] ==
        IF k = 0 \/ p.method = "none" THEN 0
        ELSE LET before == charged[k - 1]
                 left == Depreciable(p) - before
             IN  IF k > 1 /\ before = charged[k - 2] THEN before
                 ELSE before + IF k = p.months THEN left
                               ELSE Least(MonthlyCharge(p, before), left)
  IN  charged

\* What is charged by each month, and in it.
Schedule == [p \in Plans |-> ChargedBy(p)]
AmountOf(p, k) == Schedule[p][k] - Schedule[p][k - 1]
Periods(p) == {k \in 1..p.months : AmountOf(p, k) > 0}

------------------------------------------------------------------------------
(* Where an asset sits: its transfers are in date order. *)

DoneBy(moves, d) == Cardinality({k \in DOMAIN moves : moves[k].date <= d})

AssetAccountOn(i, d) ==
  LET moves == transfers[i]
      done == DoneBy(moves, d)
  IN  IF moves = << >> THEN assets[i].account
      ELSE IF done = 0 THEN moves[1].from ELSE moves[done].to

AccumulatedAccountOn(i, d) ==
  LET moves == transfers[i]
      moving == {k \in DOMAIN moves : moves[k].toAccumulated # NoAccount}
      before == {k \in moving : moves[k].date <= d}
  IN  IF moving = {} THEN assets[i].accumulatedIn
      ELSE IF before = {} THEN moves[Min(moving)].fromAccumulated ELSE moves[Max(before)].toAccumulated

\* Bought by then and not disposed of by then.
HeldOn(i, d) ==
  /\ i \in Registered
  /\ assets[i].bought <= d
  /\ assets[i].disposedOn = Never \/ assets[i].disposedOn > d

RegisteredCostIn(a, d) ==
  Total([i \in {j \in Assets : HeldOn(j, d) /\ AssetAccountOn(j, d) = a} |-> assets[i].plan.cost])

ChargesUntil(i, d) == {c \in charges : c.asset = i /\ c.end <= d}
Sum(cs) == Total([c \in cs |-> c.amount])

------------------------------------------------------------------------------
(* The operations. *)

\* A purchase, a correction, a reversal: whatever else is posted.
PostOther(a, d, amount) ==
  /\ others' = Moved(others, a, d, amount)
  /\ others[a][d] = 0
  /\ UNCHANGED <<assets, transfers, charges, journals, disturbed>>

\* registerFixedAsset posts nothing: the purchase is in the ledger by its date.
RegisterFixedAsset(i, a, d) ==
  LET unregistered == Balance(a, d) - RegisteredCostIn(a, d) IN
  /\ i \notin Registered
  /\ \E plan \in Plans :
       /\ plan.cost <= unregistered
       /\ assets' = [assets EXCEPT ![i] =
            [status |-> "active", bought |-> d, plan |-> plan, account |-> a,
             accumulatedIn |-> MainAccumulated, accumulated |-> 0, disposedOn |-> Never]]
  /\ UNCHANGED <<transfers, charges, others, journals, disturbed>>

\* Slip: what was charged stays where it is.
CostMoved(i, from, to, fromAccumulated, toAccumulated, d) ==
  Moved(Moved(journals, to, d, assets[i].plan.cost), from, d, -assets[i].plan.cost)

\* The cost, and what was charged by that day when its account changes too.
AssetMoved(i, from, to, fromAccumulated, toAccumulated, d) ==
  LET charged == Sum(ChargesUntil(i, d))
      cost == Moved(Moved(journals, to, d, assets[i].plan.cost), from, d, -assets[i].plan.cost)
  IN  IF toAccumulated = NoAccount THEN cost
      ELSE Moved(Moved(cost, fromAccumulated, d, charged), toAccumulated, d, -charged)

\* transferFixedAsset: in date order.  What was already charged for months after
\* that day stays in the old account: the asset is disturbed.
TransferFixedAsset(i, to, asked, d) ==
  LET from == AssetAccountOn(i, d)
      fromAccumulated == AccumulatedAccountOn(i, d)
      toAccumulated == IF asked = fromAccumulated THEN NoAccount ELSE asked
  IN
  /\ i \in Registered
  /\ d >= assets[i].bought
  /\ assets[i].status # "disposed"
  /\ assets[i].disposedOn = Never \/ assets[i].disposedOn > d
  /\ \A k \in DOMAIN transfers[i] : transfers[i][k].date <= d
  /\ to # from
  /\ journals' = AssetMoved(i, from, to, fromAccumulated, toAccumulated, d)
  /\ transfers' = [transfers EXCEPT ![i] = Append(@,
       [date |-> d, from |-> from, to |-> to, toAccumulated |-> toAccumulated,
        fromAccumulated |-> IF toAccumulated = NoAccount THEN NoAccount ELSE fromAccumulated])]
  /\ assets' = [assets EXCEPT ![i].account = to,
                              ![i].accumulatedIn = IF toAccumulated = NoAccount THEN @ ELSE toAccumulated]
  /\ disturbed' = IF toAccumulated # NoAccount /\ \E c \in charges : c.asset = i /\ c.end > d
                  THEN disturbed \cup {i} ELSE disturbed
  /\ UNCHANGED <<charges, others>>

\* Slip: a run charges the month it falls in, and no other.
DueOnTheDay(i, upTo) ==
  {k \in Periods(assets[i].plan) : PeriodEnd(assets[i], k) = upTo}

\* Slip: a run charges months that have not ended.
DueAhead(i, upTo) ==
  {k \in Periods(assets[i].plan) :
     \A c \in charges : c.asset = i => c.start # PeriodStart(assets[i], k)}

\* The months of an asset a run up to a day finds due.  An asset disposed of
\* by that day is left out; one disposed of later is not.
Due(i, upTo) ==
  {k \in Periods(assets[i].plan) :
     /\ PeriodEnd(assets[i], k) <= upTo
     /\ \A c \in charges : c.asset = i => c.start # PeriodStart(assets[i], k)}

DepreciatedUpTo(upTo) ==
  {i \in Registered : /\ assets[i].bought <= upTo
                      /\ ~(assets[i].status = "disposed" /\ assets[i].disposedOn <= upTo)
                      /\ Due(i, upTo) # {}}

ChargeFor(i, k) ==
  [asset |-> i, start |-> PeriodStart(assets[i], k), end |-> PeriodEnd(assets[i], k),
   amount |-> AmountOf(assets[i].plan, k)]

Depreciated(i, months) ==
  LET plan == assets[i].plan
      charged == Schedule[plan][CHOOSE k \in months : \A j \in months : j <= k]
  IN  [assets[i] EXCEPT !.accumulated = charged,
                        !.status = IF charged >= Depreciable(plan) THEN "fully_depreciated" ELSE "active"]

\* postDepreciation: every month due of every asset, in one transaction.  An
\* asset disposed of on a later day is active again, and is disturbed.
PostDepreciation(upTo) ==
  LET due == [i \in DepreciatedUpTo(upTo) |-> Due(i, upTo)]
      new == UNION {{ChargeFor(i, k) : k \in due[i]} : i \in DOMAIN due}
  IN
  /\ new # {}
  /\ charges' = charges \cup new
  /\ journals' = [a \in Accounts |-> [d \in Days |->
       journals[a][d] - Sum({c \in new : assets[c.asset].accumulatedIn = a /\ c.end = d})]]
  /\ assets' = [i \in Assets |-> IF i \in DOMAIN due THEN Depreciated(i, due[i]) ELSE assets[i]]
  /\ disturbed' = disturbed \cup {i \in DOMAIN due : assets[i].disposedOn # Never}
  /\ UNCHANGED <<transfers, others>>

\* disposeAsset, from the account the asset is in now.  The proceeds and the
\* profit or loss are on other accounts.
DisposeAsset(i, d) ==
  /\ i \in Registered
  /\ assets[i].status # "disposed"
  /\ journals' = Moved(Moved(journals, assets[i].accumulatedIn, d, assets[i].accumulated),
                       assets[i].account, d, -assets[i].plan.cost)
  /\ assets' = [assets EXCEPT ![i].status = "disposed", ![i].disposedOn = d]
  /\ UNCHANGED <<transfers, charges, others, disturbed>>

Load == Cardinality({p \in Accounts \X Days : others[p[1]][p[2]] # 0})
        + Cardinality(Registered) + Total([i \in Assets |-> Len(transfers[i])])
        + Cardinality({i \in Registered : assets[i].disposedOn # Never})

RegisterStep ==
  \/ \E a \in Accounts, d \in Days, amount \in Amounts : PostOther(a, d, amount)
  \/ \E i \in Assets, a \in AcceptedForCost, d \in Days : RegisterFixedAsset(i, a, d)
  \/ \E i \in Assets, to \in AcceptedForCost, asked \in AccumulatedAccounts, d \in Days :
       TransferFixedAsset(i, to, asked, d)
  \/ \E i \in Assets, d \in Days : DisposeAsset(i, d)

AssetsNext ==
  \/ Load < MaxLoad /\ RegisterStep
  \/ \E upTo \in Days : PostDepreciation(upTo)

AssetsSpec == AssetsInit /\ [][AssetsNext]_assetVars
------------------------------------------------------------------------------
AssetsTypeOK ==
  /\ assets \in [Assets -> Asset \cup {Unregistered}]
  /\ transfers \in [Assets -> Seq(Transfer)]
  /\ charges \subseteq Charge
  /\ others \in [Accounts -> [Days -> Int]] /\ journals \in [Accounts -> [Days -> Int]]
  /\ disturbed \subseteq Assets

\* However late, early or often depreciation is run, an asset is charged the
\* first months of its schedule, each once and none skipped; its row says what
\* they come to; and once every month is charged it stands at its residual
\* value, unless a month's share rounded to nothing ended the schedule before
\* (depreciation.ts buildDepreciationSchedule, postDepreciation: "Idempotent
\* by period"; "the asset depreciates to exactly its residual value").
ChargesFollowTheSchedule ==
  \A i \in Registered :
    LET a == assets[i]
        mine == {c \in charges : c.asset = i}
        n == Cardinality(mine)
    IN  /\ mine = {ChargeFor(i, k) : k \in 1..n}
        /\ a.accumulated = Sum(mine)
        /\ a.status = "fully_depreciated" => Sum(mine) = Depreciable(a.plan)
        /\ n > 0 /\ n = a.plan.months => Sum(mine) = Depreciable(a.plan)

\* What the register has charged against an account by a day.
ChargedIn(a, d) ==
  Sum({c \in charges : HeldOn(c.asset, d) /\ c.end <= d /\ AccumulatedAccountOn(c.asset, d) = a})

\* What reconcileFixedAssets reports of an account on a day: it takes those
\* with the name for accumulated depreciation, whatever was put on them.
Difference(a, d) ==
  IF a \in CostAccounts THEN Balance(a, d) - RegisteredCostIn(a, d)
  ELSE -Balance(a, d) - ChargedIn(a, d)

\* The account an asset was registered in, and the cost registered in one.
FirstAccount(i) == IF transfers[i] = << >> THEN assets[i].account ELSE transfers[i][1].from
FirstRegisteredIn(a) ==
  Total([i \in {j \in Registered : FirstAccount(j) = a} |-> assets[i].plan.cost])

\* On a day after everything recorded, the differences between the ledger and
\* the register are those the person is told to look for, purchases not yet
\* registered and entries the register did not post, in whatever order assets
\* were charged, moved and disposed of and whatever days these were dated,
\* while no asset is disturbed (register.ts reconcileFixedAssets: "Register
\* the purchases posted to the account, or correct a posting that does not
\* belong there").  The register's own journals cause no difference on a cost
\* account.  On an accumulated depreciation account they cause one exactly
\* where assets' cost was put there: requireCostAccount refuses the system
\* account only, and reconcileFixedAssets then takes cost for depreciation.
RegisterExplainsTheLedger ==
  disturbed = {} => \A a \in Accounts :
    LET unregistered == UpTo(others, a, LastDay) - FirstRegisteredIn(a)
    IN  Difference(a, LastDay) = IF a \in CostAccounts THEN unregistered
                                 ELSE -(unregistered + RegisteredCostIn(a, LastDay))
=============================================================================
