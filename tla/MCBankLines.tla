----------------------------- MODULE MCBankLines -----------------------------
(***************************************************************************)
(* One print; a statement with one line of it, and a row that cannot be    *)
(* read, and a workbook with two.                                          *)
(***************************************************************************)
EXTENDS BankLines, TLC

CONSTANTS csv, xlsx, q1, d1, d2

MCHeld == (csv :> [p \in Prints |-> 1]) @@ (xlsx :> [p \in Prints |-> 2])
Symmetry == Permutations({d1, d2})
=============================================================================
