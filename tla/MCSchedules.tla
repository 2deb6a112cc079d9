----------------------------- MODULE MCSchedules -----------------------------
(***************************************************************************)
(* One template, one expense account that may be archived, three days in   *)
(* two financial years.                                                    *)
(***************************************************************************)
EXTENDS Schedules

MCSpan == [y \in {"fy1", "fy2"} |->
             IF y = "fy1" THEN [start |-> 1, end |-> 2] ELSE [start |-> 3, end |-> 3]]
MCRefs == [t \in {1} |-> "rec1"]
Rent == <<BaseLine("rent", 1, 0), BaseLine("bank", 0, 1)>>
MCLines == {Rent}

\* Two months of two days in one financial year.
MonthsSpan == [y \in {"fy1"} |-> [start |-> 1, end |-> 4]]
=============================================================================
