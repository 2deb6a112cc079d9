------------------------------- MODULE Timing -------------------------------
(***************************************************************************)
(* Accruals and prepayments (src/src/domain/accounting/timing.ts): a cost  *)
(* is moved between periods by an entry that is to come off on a recorded  *)
(* date.  Whether it has come off is read from the entry, never recorded.  *)
(***************************************************************************)
EXTENDS Journal

CONSTANTS
  CostAccounts,       \* accounts a cost can be moved out of or into
  AccrualsAccount,       \* the accruals system account
  PrepaymentsAccount,    \* the prepayments system account
  Amounts                \* amounts an adjustment can have

ASSUME TimingAssumption ==
  /\ CostAccounts \subseteq Accounts
  /\ {AccrualsAccount, PrepaymentsAccount} \subseteq SystemAccounts
  /\ Amounts \subseteq Nat \ {0}
  /\ {"accrual", "prepayment"} \subseteq Sources

VARIABLE timing    \* the timing adjustments: the entry of each and when it is due off

Adjustment == [entry : Nat, due : Dates]

RecordTimingAdjustment(due) ==
  timing' = timing \cup {[entry |-> Len(journal) + 1, due |-> due]}

PostAccrual(d, due, expense, amount) ==
  /\ due > d
  /\ PostJournalEntry(d, "accrual", NoRef,
       <<BaseLine(expense, amount, 0), BaseLine(AccrualsAccount, 0, amount)>>, FALSE)
  /\ RecordTimingAdjustment(due)
  /\ UNCHANGED <<active, yearStatus>>

PostPrepayment(d, due, expense, amount) ==
  /\ due > d
  /\ PostJournalEntry(d, "prepayment", NoRef,
       <<BaseLine(PrepaymentsAccount, amount, 0), BaseLine(expense, 0, amount)>>, FALSE)
  /\ RecordTimingAdjustment(due)
  /\ UNCHANGED <<active, yearStatus>>

\* Slip: what was taken off early is due still.
DueAgain(upTo) == {t \in timing : t.due <= upTo}
\* Due on or before upTo and still standing.
DueOff(upTo) == {t \in timing : t.due <= upTo /\ journal[t.entry].reversedBy = 0}

\* Those whose day is in no open year are skipped, to be found again later.
Reversible(upTo) == {t \in DueOff(upTo) : PeriodOpen(t.due)}

ReversalEntry(t) ==
  [NewEntry(t.due, OpenYear(t.due), "reversal", NoRef, Swapped(journal[t.entry].lines))
     EXCEPT !.reversalOf = t.entry]

\* The journal with the adjustments in batch reversed one after the other.
WithReversals(batch) ==
  [n \in 1..(Len(journal) + Len(batch)) |->
     IF n > Len(journal)
     THEN ReversalEntry(batch[n - Len(journal)])
     ELSE LET at == {i \in DOMAIN batch : batch[i].entry = n} IN
          IF at = {} THEN journal[n]
          ELSE [journal[n] EXCEPT !.reversedBy = Len(journal) + CHOOSE i \in at : TRUE]]

DueBefore(s, t) == s.due < t.due

\* postDueTimingReversals: one transaction, oldest first, on the recorded
\* dates; an account archived since makes the whole run fail.
PostDueTimingReversals(upTo) ==
  /\ \E batch \in Orderings(Reversible(upTo), DueBefore) :
       /\ Len(journal) + Len(batch) <= MaxEntries
       /\ \A i \in DOMAIN batch : Postable(Swapped(journal[batch[i].entry].lines))
       /\ journal' = WithReversals(batch)
  /\ UNCHANGED <<active, yearStatus, overridden, timing>>

\* One adjustment taken off early, or late, but not before its own date.
ReverseTimingAdjustment(t, d) ==
  /\ d >= journal[t.entry].date
  /\ ReverseJournalEntry(t.entry, d)
  /\ UNCHANGED <<active, yearStatus, timing>>

TimingStep ==
  \/ \E d, due \in Dates, expense \in CostAccounts, amount \in Amounts :
       PostAccrual(d, due, expense, amount) \/ PostPrepayment(d, due, expense, amount)
  \/ \E upTo \in Dates : PostDueTimingReversals(upTo)
  \/ \E t \in timing, d \in Dates : ReverseTimingAdjustment(t, d)

TimingTypeOK ==
  /\ timing \subseteq Adjustment
  /\ \A t \in timing :
       /\ t.entry \in DOMAIN journal
       /\ journal[t.entry].source \in {"accrual", "prepayment"}
       /\ journal[t.entry].date < t.due
=============================================================================
