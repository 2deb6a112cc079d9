------------------------------ MODULE Statements ------------------------------
(***************************************************************************)
(* Bank lines and the statement files they come from, for one bank account *)
(* (src/src/domain/banking/import.ts).  Lines that look alike - same date, *)
(* amount, description and reference - have the same fingerprint, here a   *)
(* print, and are told apart by an occurrence number.  A line is never     *)
(* deleted: undoing its import marks it rolled_back, and its number stays  *)
(* taken.                                                                  *)
(***************************************************************************)
EXTENDS Naturals, Sequences, FiniteSets

CONSTANTS
  Prints,        \* fingerprints
  Files,         \* statement files that may be imported, told apart by hash
  Held,          \* how many lines of each print a file holds
  Faulty,        \* the files with a row that cannot be read
  Workbooks,     \* the XLSX files: reading one awaits
  Manual,        \* what the import of a line typed in by hand has for a file
  NoFile,        \* no file is being read
  Requests,      \* the server's requests that may be waiting for a workbook
  MaxRows,       \* bound: lines of one print
  MaxImports     \* bound: imports

ASSUME StatementsAssumption ==
  /\ Held \in [Files -> [Prints -> Nat]]
  /\ Faulty \subseteq Files /\ Workbooks \subseteq Files
  /\ Manual \notin Files /\ NoFile \notin Files
  /\ MaxRows \in Nat /\ MaxImports \in Nat

VARIABLES
  imports,       \* every import made, in order
  lines,         \* the row of each print and occurrence number
  reading        \* the workbook each request awaits

Numbers == 0 .. MaxRows - 1
Rows == Prints \X Numbers
Statuses == {"unclassified", "posted", "reconciled", "rolled_back"}
Entries == {"none", "own", "payment"}      \* what the line's journal entry is
Line == [import : 1 .. MaxImports, status : Statuses, entry : Entries, agreed : BOOLEAN]
NoLine == [import |-> 0, status |-> "none", entry |-> "none", agreed |-> FALSE]
Import == [file : Files \cup {Manual}, status : {"completed", "completed_with_errors", "reversed"}]

StatementsInit ==
  /\ imports = << >>
  /\ lines = [r \in Rows |-> NoLine]
  /\ reading = [q \in Requests |-> NoFile]

Made(r) == lines[r] # NoLine
NumbersOf(p) == {n \in Numbers : Made(<<p, n>>)}
TakenBack(p) == {n \in Numbers : lines[<<p, n>>].status = "rolled_back"}
LiveNumbers(p) == NumbersOf(p) \ TakenBack(p)

\* The slip of counting from 1.
NumbersFromOne(p, count) ==
  {n \in 1 .. MaxRows + count :
     n \notin TakenBack(p) /\ Cardinality((1 .. n) \ TakenBack(p)) <= count}
\* skipRolledBackIndices: the k-th line of a print in a file takes the k-th
\* number that no line taken back holds.
GivenNumbers(p, count) ==
  {n \in 0 .. MaxRows + count :
     n \notin TakenBack(p) /\ Cardinality((0 .. n) \ TakenBack(p)) <= count}

\* The slip of looking for the lines already there by print alone.
UnseenPrints(f) ==
  UNION {{p} \X GivenNumbers(p, Held[f][p]) : p \in {q \in Prints : LiveNumbers(q) = {}}}
\* The lines of a file that are not there yet.
NewLines(f) ==
  UNION {{p} \X (GivenNumbers(p, Held[f][p]) \ LiveNumbers(p)) : p \in Prints}

FreshLine == [import |-> Len(imports) + 1, status |-> "unclassified",
              entry |-> "none", agreed |-> FALSE]

\* From the read of the existing lines on, nothing awaits: one step.
TakeIn(f) ==
  /\ Len(imports) < MaxImports
  /\ NewLines(f) \subseteq Rows
  /\ \A r \in NewLines(f) : ~Made(r)      \* the unique index of the table
  /\ imports' = Append(imports,
       [file |-> f, status |-> IF f \in Faulty THEN "completed_with_errors" ELSE "completed"])
  /\ lines' = [r \in Rows |-> IF r \in NewLines(f) THEN FreshLine ELSE lines[r]]

ImportedBefore(f) ==
  \E i \in DOMAIN imports : imports[i].file = f /\ imports[i].status = "completed"

ImportStatement(f) ==
  /\ f \notin Workbooks
  /\ ~ImportedBefore(f)
  /\ TakeIn(f)
  /\ UNCHANGED reading

\* A workbook is asked for by its hash before it is read; the lines of the
\* file are compared with those on record after.
BeginWorkbook(q, f) ==
  /\ reading[q] = NoFile
  /\ f \in Workbooks
  /\ ~ImportedBefore(f)
  /\ reading' = [reading EXCEPT ![q] = f]
  /\ UNCHANGED <<imports, lines>>

FinishWorkbook(q) ==
  /\ reading[q] # NoFile
  /\ TakeIn(reading[q])
  /\ reading' = [reading EXCEPT ![q] = NoFile]

\* The workbook could not be read.
AbandonWorkbook(q) ==
  /\ reading[q] # NoFile
  /\ reading' = [reading EXCEPT ![q] = NoFile]
  /\ UNCHANGED <<imports, lines>>

\* A line typed in by hand is numbered after every line of its print, those
\* taken back included.
NextNumber(p) == Cardinality(NumbersOf(p))

RecordManual(p) ==
  /\ Len(imports) < MaxImports
  /\ NextNumber(p) \in Numbers
  /\ ~Made(<<p, NextNumber(p)>>)
  /\ imports' = Append(imports, [file |-> Manual, status |-> "completed"])
  /\ lines' = [lines EXCEPT ![<<p, NextNumber(p)>>] = FreshLine]
  /\ UNCHANGED reading

LinesOf(i) == {r \in Rows : lines[r].import = i}

\* Refused while one of the lines is posted or agreed; what else may rest on
\* a line is asked where documents and payments are known.
UndoImport(i) ==
  /\ imports[i].status # "reversed"
  /\ \A r \in LinesOf(i) : /\ lines[r].status \notin {"posted", "reconciled"}
                           /\ lines[r].entry = "none"
                           /\ ~lines[r].agreed
  /\ imports' = [imports EXCEPT ![i].status = "reversed"]
  /\ lines' = [r \in Rows |->
       IF r \in LinesOf(i) THEN [lines[r] EXCEPT !.status = "rolled_back"] ELSE lines[r]]
  /\ UNCHANGED reading

StatementsStep ==
  \/ \E f \in Files : ImportStatement(f)
  \/ \E q \in Requests : \/ \E f \in Files : BeginWorkbook(q, f)
                         \/ FinishWorkbook(q)
                         \/ AbandonWorkbook(q)
  \/ \E p \in Prints : RecordManual(p)

StatementsTypeOK ==
  /\ imports \in Seq(Import) /\ Len(imports) <= MaxImports
  /\ lines \in [Rows -> Line \cup {NoLine}]
  /\ \A r \in Rows : lines[r].import <= Len(imports)
  /\ reading \in [Requests -> Files \cup {NoFile}]
=============================================================================
