------------------------------ MODULE MCRegisters ------------------------------
(***************************************************************************)
(* A small instance of the registers: assets, two that may be moved        *)
(* between two cost accounts and two accumulated depreciation accounts,    *)
(* over three months of a day; or stock, of one item, in two places, on a  *)
(* day in the first and one in the last of these months.                   *)
(***************************************************************************)
EXTENDS Registers, TLC

CONSTANTS i1, i2, c1, c2, ad1, ad2, widget, shop, van, s1, s2, bill1, sale1

\* Three in two months, by shares of what is left; four of five in three months,
\* in even shares that do not divide it.
MCPlans == {[cost |-> 3, residual |-> 0, months |-> 2, method |-> "reducing_balance"],
            [cost |-> 5, residual |-> 1, months |-> 3, method |-> "straight_line"]}

MCCatalogue == <<widget>>

\* Three billed at ten: a part delivery does not divide it.
MCBilled == [line \in {bill1} |-> [date |-> 3, quantity |-> 3, net |-> 10]]
MCSold == [line \in {sale1} |-> 2]

Symmetry == Permutations({i1, i2}) \cup Permutations({c1, c2}) \cup Permutations({shop, van})
=============================================================================
