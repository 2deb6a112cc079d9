------------------------------ MODULE Schedules ------------------------------
(***************************************************************************)
(* The two workflows that post what falls due, on one set of books, with   *)
(* everything that can come between two runs: entries taken back by hand,  *)
(* years generated, locked and opened, accounts archived.                  *)
(* ADR 0009: workflows own the schedule, the ledger owns the facts.        *)
(***************************************************************************)
EXTENDS Timing, Recurring

allVars == <<vars, timing, templates>>

SchedulesInit ==
  /\ Init
  /\ timing = {}
  /\ templates = [t \in Templates |-> NoTemplate]

\* Entries are taken back, and the configuration edited, under both workflows.
SchedulesNext ==
  \/ TimingStep /\ UNCHANGED templates
  \/ RecurringStep /\ UNCHANGED timing
  \/ (ReversingStep \/ ConfigurationStep) /\ UNCHANGED <<timing, templates>>

SchedulesSpec == SchedulesInit /\ [][SchedulesNext]_allVars

SchedulesTypeOK == TypeOK /\ TimingTypeOK /\ RecurringTypeOK
------------------------------------------------------------------------------
\* An occurrence is posted at most once, for ever: not again by a later run,
\* nor after it was taken back, nor after its template was edited or made
\* inactive and active again (recurring.ts postDueRecurringJournals:
\* "Idempotent"; ADR 0009: "a run posts nothing that is already there").
OccurrencePostedOnce ==
  \A m, n \in DOMAIN journal :
    /\ journal[m].source = "recurring" /\ journal[n].source = "recurring"
    /\ journal[m].ref = journal[n].ref /\ journal[m].date = journal[n].date
    => m = n

\* A run catches up: every occurrence due is posted after it, but for those in
\* a year that is not open, however late those before it were posted
\* (recurring.ts postDueRecurringJournals).
RecurringRunCatchesUp ==
  [][\A upTo \in Dates : PostDueRecurringJournals(upTo) =>
       \A t \in Templates : Made(t) /\ templates[t].active =>
         \A d \in DueOccurrenceDates(templates[t], upTo) :
           PeriodOpen(d) => d \in AlreadyPosted(t)']_allVars

\* A run takes off everything that is due and can be, each on its own recorded
\* date and never on another, and nothing that was taken off before, early or by
\* hand (timing.ts postDueTimingReversals).
TimingRunSettles ==
  [][\A upTo \in Dates : PostDueTimingReversals(upTo) =>
       /\ \A t \in DueOff(upTo) : PeriodOpen(t.due) => journal'[t.entry].reversedBy # 0
       /\ \A n \in DOMAIN journal' \ DOMAIN journal :
            \E t \in timing : /\ journal[t.entry].reversedBy = 0
                              /\ t.entry = journal'[n].reversalOf
                              /\ t.due = journal'[n].date]_allVars

Month(frequency, d) == (d - 1) \div frequency

\* What recurring.ts says of editing a template: it "changes only future
\* occurrences", so a month that has its occurrence is not given another.
EditingChangesOnlyFutureOccurrences ==
  \A m, n \in DOMAIN journal :
    /\ journal[m].source = "recurring" /\ journal[n].source = "recurring"
    /\ journal[m].ref = journal[n].ref
    /\ \E f \in Frequencies : Month(f, journal[m].date) = Month(f, journal[n].date)
    => m = n
=============================================================================
