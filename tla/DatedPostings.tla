----------------------------- MODULE DatedPostings -----------------------------
(***************************************************************************)
(* What the registers of assets and of stock have in common: days, what is *)
(* posted on accounts day by day, and shares of an amount.                 *)
(***************************************************************************)
EXTENDS Totals

CONSTANT LastDay         \* days are 1 .. LastDay

ASSUME LastDayAssumption == LastDay \in Nat \ {0}

Days == 1..LastDay

\* accountBalance of what `postings` holds.
UpTo(postings, a, d) == Total([e \in 1..d |-> postings[a][e]])

Moved(postings, a, d, amount) == [postings EXCEPT ![a][d] = @ + amount]

\* multiplyRational of an amount that is not negative.
Share(amount, num, den) == (2 * amount * num + den) \div (2 * den)

Least(m, n) == IF m < n THEN m ELSE n
=============================================================================
