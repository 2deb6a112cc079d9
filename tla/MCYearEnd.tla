------------------------------ MODULE MCYearEnd ------------------------------
(***************************************************************************)
(* Two financial years, the first of two days, an income and an expense    *)
(* account, and postings that leave a profit or a loss standing; two       *)
(* partners, when the books are a partnership's.                           *)
(***************************************************************************)
EXTENDS YearEnd

MCSpan == [y \in {"fy1", "fy2"} |->
             IF y = "fy1" THEN [start |-> 1, end |-> 2] ELSE [start |-> 3, end |-> 3]]
OneYear == [y \in {"fy1"} |-> [start |-> 1, end |-> 1]]

Sale   == <<BaseLine("bank", 1, 0), BaseLine("sales", 0, 1)>>
Cost   == <<BaseLine("rent", 1, 0), BaseLine("bank", 0, 1)>>

MCPostings == {Sale, Cost}
OneSale == {Sale}

CurrentOf == <<"current1", "current2">>
LoanOf == <<"loan1", "loan2">>
OneLends == <<{365}, {}>>
NoOne == << >>

\* A company's four entries; three and the share of one partner, or two and
\* three shares.
MCLoad == [t \in EntityTypes |-> IF t = "partnership" THEN 7 ELSE 8]
AnyLoad == [t \in {"company"} |-> 2 * MaxEntries]
=============================================================================
