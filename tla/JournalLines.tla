---------------------------- MODULE JournalLines ----------------------------
(***************************************************************************)
(* The arithmetic of journal lines: conversion to the base currency, the   *)
(* totals an entry must balance on, the exchanged lines of a reversal and  *)
(* the line that absorbs conversion rounding.                              *)
(*                                                                         *)
(* A line is a record [account, debit, credit, currency, rate]; a rate is  *)
(* a record [num, den], NoRate when the caller supplied none.              *)
(***************************************************************************)
EXTENDS Totals, Sequences, FiniteSets

CONSTANTS
  BaseCurrency,      \* the company's base currency
  Foreign,           \* the other currencies a line may be in
  RoundingAccount    \* the rounding_difference system account

ASSUME CurrenciesAssumption == BaseCurrency \notin Foreign

Currencies == Foreign \cup {BaseCurrency}
NoRate == [num |-> 0, den |-> 0]

Abs(x) == IF x < 0 THEN -x ELSE x

\* Half a unit rounds away from zero.
RoundedShare(amount, num, den) ==
  LET sign == IF amount * num < 0 THEN -1 ELSE 1
  IN  sign * ((2 * Abs(amount * num) + den) \div (2 * den))

IsForeign(line) == line.currency # BaseCurrency

\* Each side of a line is converted on its own, at the line's own rate.
ToBase(amount, line) ==
  IF IsForeign(line) /\ amount # 0
  THEN RoundedShare(amount, line.rate.num, line.rate.den)
  ELSE amount

BaseDebits(lines)  == Total([i \in DOMAIN lines |-> ToBase(lines[i].debit, lines[i])])
BaseCredits(lines) == Total([i \in DOMAIN lines |-> ToBase(lines[i].credit, lines[i])])
BaseNet(lines) == BaseDebits(lines) - BaseCredits(lines)

NetIn(currency, lines) ==
  Total([i \in DOMAIN lines |->
          IF lines[i].currency = currency
          THEN lines[i].debit - lines[i].credit ELSE 0])

\* The base amount the lines move on one account, debits positive.
NetOn(account, lines) ==
  Total([i \in DOMAIN lines |->
          IF lines[i].account = account
          THEN ToBase(lines[i].debit, lines[i]) - ToBase(lines[i].credit, lines[i])
          ELSE 0])

\* Slip: a reversal that forgets the rate its line was converted at.
SwappedWithoutRate(lines) ==
  [i \in DOMAIN lines |->
     [lines[i] EXCEPT !.debit = lines[i].credit, !.credit = lines[i].debit,
                      !.rate = NoRate]]

\* A rate that comes to nothing is handed on as none.
KeptRate(rate) == IF rate.num = 0 THEN NoRate ELSE rate

\* The reversal of an entry: every line, its two sides exchanged.
Swapped(lines) ==
  [i \in DOMAIN lines |->
     [lines[i] EXCEPT !.debit = lines[i].credit, !.credit = lines[i].debit,
                      !.rate = KeptRate(lines[i].rate)]]

Converted(lines) == {i \in DOMAIN lines : IsForeign(lines[i])}

BaseLine(account, debit, credit) ==
  [account |-> account, debit |-> debit, credit |-> credit,
   currency |-> BaseCurrency, rate |-> NoRate]

RoundingLine(net) ==
  BaseLine(RoundingAccount, IF net < 0 THEN -net ELSE 0, IF net > 0 THEN net ELSE 0)

\* Slip: any difference is absorbed, however large.
WithAnyRoundingLine(lines) ==
  IF /\ \A i \in Converted(lines) : lines[i].rate # NoRate
     /\ Converted(lines) # {}
     /\ BaseNet(lines) # 0
  THEN Append(lines, RoundingLine(BaseNet(lines)))
  ELSE lines

\* The lines with one more that absorbs what separate conversions left over,
\* or the lines as they are when there is nothing to absorb or more than
\* conversion can explain: half a minor unit for each converted line.
WithFxRoundingLine(lines) ==
  IF /\ \A i \in Converted(lines) : lines[i].rate # NoRate
     /\ Converted(lines) # {}
     /\ BaseNet(lines) # 0
     /\ \A c \in Currencies : NetIn(c, lines) = 0
     /\ Abs(BaseNet(lines)) * 2 <= Cardinality(Converted(lines))
  THEN Append(lines, RoundingLine(BaseNet(lines)))
  ELSE lines
=============================================================================
