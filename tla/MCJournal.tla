------------------------------ MODULE MCJournal ------------------------------
(***************************************************************************)
(* A small set of books: three accounts, three days, two adjoining         *)
(* financial years and a third overlapping both, euro and dollar postings. *)
(***************************************************************************)
EXTENDS Journal

MCSpan ==
  [y \in {"fy1", "fy2", "shifted"} |->
     CASE y = "fy1"     -> [start |-> 1, end |-> 2]
       [] y = "fy2"     -> [start |-> 3, end |-> 3]
       [] y = "shifted" -> [start |-> 2, end |-> 3]]

Half == [num |-> 1, den |-> 2]
Par  == [num |-> 1, den |-> 1]

L(account, debit, credit, currency, rate) ==
  [account |-> account, debit |-> debit, credit |-> credit,
   currency |-> currency, rate |-> rate]
Euro(account, debit, credit) == L(account, debit, credit, "EUR", NoRate)
Dollar(account, debit, credit, rate) == L(account, debit, credit, "USD", rate)

Sale         == <<Euro("bank", 2, 0), Euro("sales", 0, 2)>>
Unbalanced   == <<Euro("bank", 2, 0), Euro("sales", 0, 1)>>
TwoSided     == <<Euro("bank", 1, 1), Euro("sales", 1, 1)>>
\* 2 dollars at a half are 1, but 1 + 1 dollars are 1 + 1.
DollarSale   == <<Dollar("bank", 2, 0, Half), Dollar("sales", 0, 1, Half), Dollar("sales", 0, 1, Half)>>
\* Balanced in dollars and apart by more than rounding in euro.
TwoRates     == <<Dollar("bank", 4, 0, Half), Dollar("sales", 0, 4, Par)>>
\* One apart in dollars and, after conversion, one apart in euro.
ShortDollars == <<Dollar("bank", 3, 0, Half), Dollar("sales", 0, 2, Half)>>
Negative     == <<Euro("bank", -1, 0), Euro("sales", 0, -1)>>
\* Both sides being nothing in euro, and beyond taking back.
Worthless    == <<Dollar("bank", 1, 0, [num |-> 0, den |-> 1]), Dollar("sales", 0, 1, [num |-> 0, den |-> 1])>>
NoRateGiven  == <<Dollar("bank", 2, 0, NoRate), Dollar("sales", 0, 2, NoRate)>>

MCPostings == {Sale, Unbalanced, TwoSided, DollarSale, TwoRates, ShortDollars, Worthless,
               Negative, NoRateGiven}
=============================================================================
