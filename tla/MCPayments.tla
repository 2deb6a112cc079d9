----------------------------- MODULE MCPayments -----------------------------
(***************************************************************************)
(* One customer: an invoice of 4 with 1 of VAT, due by rounding when 2 are  *)
(* paid, and a credit note of 2 with 1 of VAT.                         *)
(***************************************************************************)
EXTENDS Payments, TLC

CONSTANTS inv, cn

MCGross == (inv :> 4) @@ (cn :> -2)
MCVat == (inv :> 1) @@ (cn :> -1)
MCReliefRate == (inv :> 3333) @@ (cn :> 10000)

\* The invoice alone.
MCGrossOfInvoice == inv :> 4
MCVatOfInvoice == inv :> 1
MCReliefRateOfInvoice == inv :> 3333
=============================================================================
