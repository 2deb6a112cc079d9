----------------------------- MODULE MCVatPeriods -----------------------------
(***************************************************************************)
(* Three days, generated as two periods of a day or one of two; the third  *)
(* day is in none until a period is moved to it.                           *)
(***************************************************************************)
EXTENDS VatPeriods

Span(first, last) == [start |-> first, end |-> last]
MCCalendars == {{Span(1, 1), Span(2, 2)}, {Span(1, 2)}}

MCLegs ==
  [t \in {"standard", "reverse_charge", "outside"} |->
     CASE t = "standard"       -> {[box |-> "T1", vat |-> 1]}
       [] t = "reverse_charge" -> {[box |-> "T1", vat |-> 1], [box |-> "T2", vat |-> 1]}
       [] t = "outside"        -> {}]
=============================================================================
