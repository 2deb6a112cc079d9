---------------------------- MODULE FilingRegister ----------------------------
(***************************************************************************)
(* What a company's VAT returns promise, however they are prepared: a      *)
(* return once filed stands as it was filed, and no day is in two returns. *)
(***************************************************************************)
EXTENDS Integers

VARIABLE returns    \* the filed returns, each with its first and last day and its figures

Init == returns = {}

\* Every return names at least one day, and none that a filed return names.
File(r) ==
  /\ r.start <= r.end
  /\ \A s \in returns : r.end < s.start \/ s.end < r.start
  /\ returns' = returns \cup {r}

Spec == Init /\ [][\E r \in returns' : File(r)]_returns
=============================================================================
