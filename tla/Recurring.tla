------------------------------ MODULE Recurring ------------------------------
(***************************************************************************)
(* Recurring journals (src/src/domain/accounting/recurring.ts): a template *)
(* whose occurrences a run posts when they fall due.  Which ones have been *)
(* posted is read from the journal: the entries with the template's id as  *)
(* their ref, by date.  Months are all of one length here, so the clamping *)
(* to a month's last day does not arise.                                   *)
(***************************************************************************)
EXTENDS Journal

CONSTANTS
  Templates,        \* ids of the templates, numbered as created
  TemplateRefs,     \* the ref that entries of each template carry
  Frequencies,      \* days from one occurrence to the next
  TemplateLines,    \* the sets of lines a template can be given
  EndDates,         \* the last days a template may be given; one after every
                    \* date is no end
  TooManyDue        \* as many occurrences due as a template's date must be wrong for

ASSUME RecurringAssumption ==
  /\ Templates \subseteq Nat /\ IsFiniteSet(Templates)
  /\ TemplateRefs \in [Templates -> Refs]
  /\ \A s, t \in Templates : TemplateRefs[s] = TemplateRefs[t] => s = t
  /\ Frequencies \subseteq Nat \ {0}
  /\ EndDates \subseteq Nat /\ TooManyDue \in Nat
  /\ \A lines \in TemplateLines : lines \in Seq(Line)
  /\ "recurring" \in Sources

VARIABLE templates    \* each template as last edited; NoTemplate before it is made

Template == [start : Dates, frequency : Frequencies, end : EndDates,
             active : BOOLEAN, lines : TemplateLines]
NoTemplate == [start |-> 0, frequency |-> 0, end |-> 0, active |-> FALSE, lines |-> << >>]

Made(t) == templates[t] # NoTemplate

\* validateLines: what the engine will ask of every occurrence.
ValidLines(lines) ==
  /\ \A i \in DOMAIN lines : ~IsForeign(lines[i])
  /\ Postable(lines)

CreateRecurringJournal(t, template) ==
  /\ ~Made(t)
  /\ template.active
  /\ template.start <= template.end
  /\ ValidLines(template.lines)
  /\ templates' = [templates EXCEPT ![t] = template]
  /\ UNCHANGED vars

\* Lines are checked again only when they are edited.  Deactivating a template
\* is the edit that changes `active` alone.
UpdateRecurringJournal(t, template) ==
  /\ Made(t)
  /\ template.start <= template.end
  /\ template.lines # templates[t].lines => ValidLines(template.lines)
  /\ templates' = [templates EXCEPT ![t] = template]
  /\ UNCHANGED vars

DueOccurrenceDates(template, upTo) ==
  {d \in Dates : /\ d >= template.start
                 /\ (d - template.start) % template.frequency = 0
                 /\ d <= upTo /\ d <= template.end}

\* Slip: an occurrence taken back by a reversal is posted again.
StandingOn(t) ==
  {journal[n].date : n \in {m \in DOMAIN journal :
     /\ journal[m].source = "recurring" /\ journal[m].ref = TemplateRefs[t]
     /\ journal[m].reversedBy = 0}}

AlreadyPosted(t) ==
  {journal[n].date : n \in {m \in DOMAIN journal :
     journal[m].source = "recurring" /\ journal[m].ref = TemplateRefs[t]}}

\* Slip: a template is looked at only from its latest posted occurrence on.
DueAfterLatest(upTo) ==
  {o \in [template : Templates, date : Dates] :
     LET t == o.template IN
     /\ Made(t) /\ templates[t].active
     /\ o.date \in DueOccurrenceDates(templates[t], upTo)
     /\ \A d \in AlreadyPosted(t) : o.date > d
     /\ PeriodOpen(o.date)}

\* What a run posts; an occurrence in no open year is skipped.
DueOccurrences(upTo) ==
  {o \in [template : Templates, date : Dates] :
     LET t == o.template IN
     /\ Made(t) /\ templates[t].active
     /\ o.date \in DueOccurrenceDates(templates[t], upTo) \ AlreadyPosted(t)
     /\ PeriodOpen(o.date)}

\* Templates that start first come first, then those made first.
ComesBefore(o, p) ==
  LET s == templates[o.template].start
      u == templates[p.template].start
  IN  \/ s < u
      \/ s = u /\ o.template < p.template
      \/ o.template = p.template /\ o.date < p.date

OccurrenceEntry(o) ==
  NewEntry(o.date, OpenYear(o.date), "recurring", TemplateRefs[o.template],
           templates[o.template].lines)

\* dueOccurrenceDates counts what is posted already as well, and an error in one
\* template stops the whole run.
NoneHasTooManyDue(upTo) ==
  \A t \in Templates :
    Made(t) /\ templates[t].active =>
      Cardinality(DueOccurrenceDates(templates[t], upTo)) < TooManyDue

\* postDueRecurringJournals: every occurrence in one transaction, or none.
PostDueRecurringJournals(upTo) ==
  /\ NoneHasTooManyDue(upTo)
  /\ \E batch \in Orderings(DueOccurrences(upTo), ComesBefore) :
       /\ Len(journal) + Len(batch) <= MaxEntries
       /\ \A i \in DOMAIN batch : Postable(templates[batch[i].template].lines)
       /\ journal' = journal \o [i \in DOMAIN batch |-> OccurrenceEntry(batch[i])]
  /\ UNCHANGED <<active, yearStatus, overridden, templates>>

RecurringStep ==
  \/ \E t \in Templates, template \in Template :
       CreateRecurringJournal(t, template) \/ UpdateRecurringJournal(t, template)
  \/ \E upTo \in Dates : PostDueRecurringJournals(upTo)

RecurringTypeOK == templates \in [Templates -> Template \cup {NoTemplate}]
=============================================================================
