-------------------------------- MODULE Totals --------------------------------
(***************************************************************************)
(* SUM as the queries of the program use it.                               *)
(***************************************************************************)
EXTENDS Integers, Functions

\* SUM over a function's values; an empty function sums to 0.
Total(f) == FoldFunction(LAMBDA a, b : a + b, 0, f)
=============================================================================
