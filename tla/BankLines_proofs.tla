--------------------------- MODULE BankLines_proofs ---------------------------
(***************************************************************************)
(* Proofs about bank lines, for any prints, files, documents and bounds.   *)
(***************************************************************************)
EXTENDS BankLines, FiniteSetTheorems, TLAPS

------------------------------------------------------------------------------
(* Intervals *)

\* A set of numbers that holds with a number all smaller ones.
RunsOn(S) == \A n \in S : \A m \in 0 .. n : m \in S

\* Such a set, if it is finite, counts its way through its members.
LEMMA RunsOnIsInterval ==
  ASSUME NEW S \in SUBSET Nat, IsFiniteSet(S), RunsOn(S)
  PROVE  S = 0 .. Cardinality(S) - 1
<1> DEFINE c == Cardinality(S)
<1>1. c \in Nat  BY FS_CardinalityType
<1>2. ASSUME NEW n \in S  PROVE n < c
  <2>1. n \in Nat /\ 0 .. n \in SUBSET S  BY DEF RunsOn
  <2>2. Cardinality(0 .. n) <= c  BY <2>1, FS_Subset
  <2>3. Cardinality(0 .. n) = n + 1  BY <2>1, FS_Interval
  <2> QED  BY <1>1, <2>1, <2>2, <2>3
<1>3. ASSUME NEW n \in Nat, n < c  PROVE n \in S
  <2>1. SUFFICES ASSUME n \notin S  PROVE FALSE  OBVIOUS
  <2>2. ASSUME NEW m \in S  PROVE m \in 0 .. n - 1
    <3>1. m \in Nat  OBVIOUS
    <3>2. m >= n => n \in S  BY <3>1 DEF RunsOn
    <3> QED  BY <2>1, <3>1, <3>2
  <2>3. S \in SUBSET (0 .. n - 1)  BY <2>2
  <2>4. IsFiniteSet(0 .. n - 1) /\ Cardinality(0 .. n - 1) = n
    <3>1. 0 \in Int /\ n - 1 \in Int  OBVIOUS
    <3>2. /\ IsFiniteSet(0 .. n - 1)
          /\ Cardinality(0 .. n - 1) = IF 0 > n - 1 THEN 0 ELSE (n - 1) - 0 + 1
      BY <3>1, FS_Interval
    <3> QED  BY <3>2
  <2>5. c <= Cardinality(0 .. n - 1)  BY <2>3, <2>4, FS_Subset
  <2> QED  BY <1>1, <1>3, <2>4, <2>5
<1>4. ASSUME NEW n \in S  PROVE n \in 0 .. c - 1
  <2>1. n \in Nat  OBVIOUS
  <2>2. n < c  BY <1>2
  <2> HIDE DEF c
  <2> QED  BY <1>1, <2>1, <2>2
<1>5. ASSUME NEW n \in 0 .. c - 1  PROVE n \in S
  <2> HIDE DEF c
  <2>1. n \in Nat /\ n < c  BY <1>1
  <2> QED  BY <1>3, <2>1
<1> QED  BY <1>4, <1>5

\* The numbers given to the lines of a print run on past those of lines taken
\* back, and skip no others (import.ts skipRolledBackIndices).
LEMMA GivenNumbersRunOn ==
  ASSUME StatementsAssumption, NEW p, NEW c \in Nat,
         NEW n \in GivenNumbers(p, c), NEW m \in 0 .. n, m \notin TakenBack(p)
  PROVE  m \in GivenNumbers(p, c)
<1>1. n \in Nat /\ m \in Nat /\ m <= n /\ n <= MaxRows + c /\ MaxRows \in Nat
  BY DEF GivenNumbers, StatementsAssumption
<1>2. (0 .. m) \ TakenBack(p) \in SUBSET ((0 .. n) \ TakenBack(p))  BY <1>1
<1>3. IsFiniteSet((0 .. n) \ TakenBack(p))
  <2>1. IsFiniteSet(0 .. n)  BY <1>1, FS_Interval
  <2> QED  BY <2>1, FS_Subset
<1>4. /\ Cardinality((0 .. m) \ TakenBack(p)) <= Cardinality((0 .. n) \ TakenBack(p))
      /\ Cardinality((0 .. m) \ TakenBack(p)) \in Nat
      /\ Cardinality((0 .. n) \ TakenBack(p)) \in Nat
  <2>1. IsFiniteSet((0 .. m) \ TakenBack(p))  BY <1>2, <1>3, FS_Subset
  <2> QED  BY <1>2, <1>3, <2>1, FS_Subset, FS_CardinalityType
<1>5. Cardinality((0 .. n) \ TakenBack(p)) <= c  BY DEF GivenNumbers
<1>6. Cardinality((0 .. m) \ TakenBack(p)) <= c  BY <1>4, <1>5
<1>7. m \in 0 .. MaxRows + c  BY <1>1
<1> QED  BY <1>6, <1>7 DEF GivenNumbers
------------------------------------------------------------------------------
(* Types *)

LEMMA RowIsALine ==
  ASSUME StatementsTypeOK, NEW r \in Rows
  PROVE  /\ Made(r) => lines[r] \in Line
         /\ ~Made(r) => lines[r] = NoLine
         /\ lines[r].import \in 0 .. MaxImports
         /\ lines[r].import = 0 <=> ~Made(r)
<1>1. lines[r] \in Line \cup {NoLine}  BY DEF StatementsTypeOK
<1>2. \A l \in Line : l.import \in 1 .. MaxImports  BY DEF Line
<1>3. NoLine.import = 0  BY DEF NoLine
<1>4. MaxImports \in Nat  BY StatementsAssumption DEF StatementsAssumption
<1> QED  BY <1>1, <1>2, <1>3, <1>4 DEF Made

LEMMA FreshLineType ==
  ASSUME StatementsTypeOK, Len(imports) < MaxImports
  PROVE  FreshLine \in Line /\ FreshLine.import = Len(imports) + 1
<1>1. Len(imports) \in Nat  BY DEF StatementsTypeOK
<1>2. MaxImports \in Nat  BY StatementsAssumption DEF StatementsAssumption
<1> QED  BY <1>1, <1>2 DEF FreshLine, Line, Statuses, Entries

LEMMA TakeInType ==
  ASSUME StatementsTypeOK, NEW f \in Files, TakeIn(f)
  PROVE  /\ imports' \in Seq(Import) /\ Len(imports') = Len(imports) + 1
         /\ \A i \in DOMAIN imports : imports'[i] = imports[i]
         /\ imports'[Len(imports')].file = f
         /\ imports'[Len(imports')].status # "reversed"
         /\ Len(imports') <= MaxImports
         /\ lines' \in [Rows -> Line \cup {NoLine}]
         /\ \A r \in Rows : lines'[r].import <= Len(imports')
<1> DEFINE new == [file |-> f, status |-> IF f \in Faulty THEN "completed_with_errors"
                                          ELSE "completed"]
<1>1. /\ imports \in Seq(Import) /\ Len(imports) \in Nat /\ MaxImports \in Nat
      /\ Len(imports) < MaxImports
  BY StatementsAssumption DEF StatementsTypeOK, StatementsAssumption, TakeIn
<1>2. new \in Import /\ new.file = f /\ new.status # "reversed"  BY DEF Import
<1>3. imports' = Append(imports, new)  BY DEF TakeIn
<1>4. /\ imports' \in Seq(Import) /\ Len(imports') = Len(imports) + 1
      /\ \A i \in DOMAIN imports : imports'[i] = imports[i]
      /\ imports'[Len(imports')] = new
  <2> HIDE DEF new
  <2> QED  BY <1>1, <1>2, <1>3
<1>5. lines' = [r \in Rows |-> IF r \in NewLines(f) THEN FreshLine ELSE lines[r]]
  BY DEF TakeIn
<1>6. FreshLine \in Line /\ FreshLine.import = Len(imports) + 1  BY <1>1, FreshLineType
<1>7. ASSUME NEW r \in Rows
      PROVE  lines'[r] \in Line \cup {NoLine} /\ lines'[r].import <= Len(imports')
  <2>1. lines[r] \in Line \cup {NoLine} /\ lines[r].import <= Len(imports)
    BY DEF StatementsTypeOK
  <2>2. lines[r].import \in 0 .. MaxImports  BY RowIsALine
  <2>3. lines'[r] = FreshLine \/ lines'[r] = lines[r]  BY <1>5
  <2> QED  BY <1>1, <1>4, <1>6, <2>1, <2>2, <2>3
<1>8. lines' \in [Rows -> Line \cup {NoLine}]  BY <1>5, <1>7
<1> QED  BY <1>1, <1>2, <1>4, <1>7, <1>8

LEMMA RecordManualType ==
  ASSUME StatementsTypeOK, NEW p \in Prints, RecordManual(p)
  PROVE  /\ imports' \in Seq(Import) /\ Len(imports') = Len(imports) + 1
         /\ \A i \in DOMAIN imports : imports'[i] = imports[i]
         /\ imports'[Len(imports')].file = Manual
         /\ imports'[Len(imports')].status # "reversed"
         /\ Len(imports') <= MaxImports
         /\ <<p, NextNumber(p)>> \in Rows
         /\ lines' = [lines EXCEPT ![<<p, NextNumber(p)>>] = FreshLine]
         /\ lines' \in [Rows -> Line \cup {NoLine}]
         /\ \A r \in Rows : lines'[r].import <= Len(imports')
<1> DEFINE new == [file |-> Manual, status |-> "completed"]
<1>1. /\ imports \in Seq(Import) /\ Len(imports) \in Nat /\ MaxImports \in Nat
      /\ Len(imports) < MaxImports
  BY StatementsAssumption DEF StatementsTypeOK, StatementsAssumption, RecordManual
<1>2. new \in Import /\ new.file = Manual /\ new.status # "reversed"  BY DEF Import
<1>3. imports' = Append(imports, new)  BY DEF RecordManual
<1>4. /\ imports' \in Seq(Import) /\ Len(imports') = Len(imports) + 1
      /\ \A i \in DOMAIN imports : imports'[i] = imports[i]
      /\ imports'[Len(imports')] = new
  <2> HIDE DEF new
  <2> QED  BY <1>1, <1>2, <1>3
<1>5. /\ <<p, NextNumber(p)>> \in Rows
      /\ lines' = [lines EXCEPT ![<<p, NextNumber(p)>>] = FreshLine]
  BY DEF RecordManual, Rows
<1>6. FreshLine \in Line /\ FreshLine.import = Len(imports) + 1  BY <1>1, FreshLineType
<1>7. lines \in [Rows -> Line \cup {NoLine}]  BY DEF StatementsTypeOK
<1>8. ASSUME NEW r \in Rows
      PROVE  lines'[r] \in Line \cup {NoLine} /\ lines'[r].import <= Len(imports')
  <2>1. lines[r] \in Line \cup {NoLine} /\ lines[r].import <= Len(imports)
    BY DEF StatementsTypeOK
  <2>2. lines[r].import \in 0 .. MaxImports  BY RowIsALine
  <2>3. lines'[r] = FreshLine \/ lines'[r] = lines[r]  BY <1>5, <1>7
  <2> QED  BY <1>1, <1>4, <1>6, <2>1, <2>2, <2>3
<1>9. lines' \in [Rows -> Line \cup {NoLine}]  BY <1>5, <1>6, <1>7
<1> QED  BY <1>1, <1>2, <1>4, <1>5, <1>8, <1>9

LEMMA StatementsStepType ==
  ASSUME StatementsTypeOK, StatementsStep  PROVE StatementsTypeOK'
<1> USE DEF StatementsTypeOK
<1>1. ASSUME NEW f \in Files, ImportStatement(f)  PROVE StatementsTypeOK'
  <2>1. TakeIn(f) /\ reading' = reading  BY <1>1 DEF ImportStatement
  <2> QED  BY <2>1, TakeInType
<1>2. ASSUME NEW q \in Requests, NEW f \in Files, BeginWorkbook(q, f)
      PROVE  StatementsTypeOK'
  BY <1>2 DEF BeginWorkbook
<1>3. ASSUME NEW q \in Requests, FinishWorkbook(q)  PROVE StatementsTypeOK'
  <2>1. TakeIn(reading[q]) /\ reading' = [reading EXCEPT ![q] = NoFile]
    BY <1>3 DEF FinishWorkbook
  <2>2. reading[q] \in Files  BY <1>3 DEF FinishWorkbook
  <2>3. reading' \in [Requests -> Files \cup {NoFile}]  BY <2>1
  <2> QED  BY <2>1, <2>2, <2>3, TakeInType
<1>4. ASSUME NEW q \in Requests, AbandonWorkbook(q)  PROVE StatementsTypeOK'
  BY <1>4 DEF AbandonWorkbook
<1>5. ASSUME NEW p \in Prints, RecordManual(p)  PROVE StatementsTypeOK'
  <2>1. reading' = reading  BY <1>5 DEF RecordManual
  <2> QED  BY <1>5, <2>1, RecordManualType
<1> QED  BY <1>1, <1>2, <1>3, <1>4, <1>5 DEF StatementsStep

LEMMA DocumentsStepType ==
  ASSUME docs \in [Docs -> Document(Links)], DocumentsStep
  PROVE  docs' \in [Docs -> Document(Links)]
<1> USE DEF Document, Reviews, Readings
<1>1. ASSUME NEW d \in Docs, BeginReading(d)  PROVE docs' \in [Docs -> Document(Links)]
  BY <1>1 DEF BeginReading
<1>2. ASSUME NEW d \in Docs, EndReading(d)  PROVE docs' \in [Docs -> Document(Links)]
  <2> DEFINE Kept(failed) == failed \/ docs[d].reading = "asked_confirmed" \/ DraftRefused(d)
  <2>1. PICK failed \in BOOLEAN :
          docs' = [docs EXCEPT ![d].reading = "none",
                               ![d].values = IF Kept(failed) THEN @ ELSE "draft"]
    BY <1>2 DEF EndReading
  <2> HIDE DEF Kept
  <2>2. CASE Kept(failed)
    <3>1. docs' = [docs EXCEPT ![d] = [docs[d] EXCEPT !.reading = "none",
                                                      !.values = docs[d].values]]
      BY <2>1, <2>2
    <3>2. [docs[d] EXCEPT !.reading = "none", !.values = docs[d].values] \in Document(Links)
      OBVIOUS
    <3> HIDE DEF Document
    <3> QED  BY <3>1, <3>2
  <2>3. CASE ~Kept(failed)
    <3>1. docs' = [docs EXCEPT ![d] = [docs[d] EXCEPT !.reading = "none", !.values = "draft"]]
      BY <2>1, <2>3
    <3>2. [docs[d] EXCEPT !.reading = "none", !.values = "draft"] \in Document(Links)
      OBVIOUS
    <3> HIDE DEF Document
    <3> QED  BY <3>1, <3>2
  <2> QED  BY <2>2, <2>3
<1>3. ASSUME NEW d \in Docs, ReadText(d)  PROVE docs' \in [Docs -> Document(Links)]
  <2>1. \/ docs' = [docs EXCEPT ![d] = [docs[d] EXCEPT !.values = "draft"]]
        \/ docs' = [docs EXCEPT ![d] = [docs[d] EXCEPT !.values = docs[d].values]]
    BY <1>3 DEF ReadText
  <2>2. /\ [docs[d] EXCEPT !.values = "draft"] \in Document(Links)
        /\ [docs[d] EXCEPT !.values = docs[d].values] \in Document(Links)
    OBVIOUS
  <2> HIDE DEF Document
  <2> QED  BY <2>1, <2>2
<1>4. ASSUME NEW d \in Docs, ConfirmDocument(d)  PROVE docs' \in [Docs -> Document(Links)]
  <2>1. docs' = [docs EXCEPT ![d] = [docs[d] EXCEPT !.review = "confirmed",
                                                    !.values = "person"]]
    BY <1>4 DEF ConfirmDocument
  <2>2. [docs[d] EXCEPT !.review = "confirmed", !.values = "person"] \in Document(Links)
    OBVIOUS
  <2> HIDE DEF Document
  <2> QED  BY <2>1, <2>2
<1>5. ASSUME NEW d \in Docs, RejectDocument(d)  PROVE docs' \in [Docs -> Document(Links)]
  BY <1>5 DEF RejectDocument
<1>6. ASSUME NEW d \in Docs, ReopenDocument(d)  PROVE docs' \in [Docs -> Document(Links)]
  BY <1>6 DEF ReopenDocument
<1>7. ASSUME NEW d \in Docs, PostInvoice(d)  PROVE docs' \in [Docs -> Document(Links)]
  BY <1>7 DEF PostInvoice
<1>8. ASSUME NEW d \in Docs, RestoreDocument(d)  PROVE docs' \in [Docs -> Document(Links)]
  BY <1>8 DEF RestoreDocument
<1> QED  BY <1>1, <1>2, <1>3, <1>4, <1>5, <1>6, <1>7, <1>8 DEF DocumentsStep

LEMMA DecidedType ==
  ASSUME NEW records \in SUBSET Match, NEW decision \in Decisions
  PROVE  Decided(records, decision) \in SUBSET Match
BY DEF Decided, Match

LEMMA LinkType ==
  ASSUME docs \in [Docs -> Document(Links)], NEW d \in Docs, NEW to \in Links, Link(d, to)
  PROVE  docs' \in [Docs -> Document(Links)]
BY DEF Link, Document

LEMMA PostType ==
  ASSUME StatementsTypeOK, NEW r \in Rows, Made(r), NEW entry \in Entries,
         Post(r, entry), imports' = imports, reading' = reading
  PROVE  StatementsTypeOK'
<1>1. lines \in [Rows -> Line \cup {NoLine}] /\ lines[r] \in Line
  BY RowIsALine DEF StatementsTypeOK
<1>2. [lines[r] EXCEPT !.status = "posted", !.entry = entry] \in Line
  BY <1>1 DEF Line, Statuses
<1>3. lines' = [lines EXCEPT ![r] = [lines[r] EXCEPT !.status = "posted", !.entry = entry]]
  BY DEF Post
<1>4. lines' \in [Rows -> Line \cup {NoLine}]  BY <1>1, <1>2, <1>3
<1>5. \A s \in Rows : lines'[s].import = lines[s].import  BY <1>1, <1>3 DEF Line
<1> QED  BY <1>4, <1>5 DEF StatementsTypeOK

LEMMA MatchingStepType ==
  ASSUME BankTypeOK, MatchingStep  PROVE BankTypeOK'
<1>1. /\ matches \in SUBSET Match
      /\ docs \in [Docs -> Document(Links)]
      /\ \A records \in SUBSET matches, decision \in Decisions :
           Decided(records, decision) \in SUBSET Match
      /\ \A d \in Docs, to \in Links : Link(d, to) => docs' \in [Docs -> Document(Links)]
  BY DecidedType, LinkType DEF BankTypeOK
<1>2. /\ imports' = imports /\ lines' = lines /\ reading' = reading /\ payments' = payments
      => StatementsTypeOK' /\ payments' \subseteq Payment
  BY DEF BankTypeOK, StatementsTypeOK
<1>3. {"pending", "accepted", "refused", "past"} = Decisions  BY DEF Decisions
<1>4. Rows \subseteq Links /\ Unlinked \in Links  BY DEF Links
<1>5. ASSUME NEW d \in Docs, FindMatches(d)  PROVE BankTypeOK'
  <2> DEFINE Found(candidates, accepted) ==
               /\ matches' = (matches \ Pending(d)) \cup Decided(Pending(d), "past")
                    \cup [doc : {d}, line : candidates \ accepted, decision : {"pending"}]
                    \cup [doc : {d}, line : accepted, decision : {"accepted"}]
               /\ IF accepted = {} THEN UNCHANGED docs ELSE \E r \in accepted : Link(d, r)
               /\ UNCHANGED <<imports, lines, reading, payments>>
  <2>0. PICK candidates \in SUBSET Eligible(d) :
          \E accepted \in {{}} \cup {{r} : r \in candidates} : Found(candidates, accepted)
    BY <1>5 DEF FindMatches
  <2>1. PICK accepted \in {{}} \cup {{r} : r \in candidates} : Found(candidates, accepted)
    BY <2>0
  <2>2. candidates \subseteq Rows /\ accepted \subseteq Rows  BY <2>1 DEF Eligible
  <2>3. docs' \in [Docs -> Document(Links)]  BY <1>1, <1>4, <2>1, <2>2
  <2>4. Decided(Pending(d), "past") \in SUBSET Match  BY <1>1, <1>3 DEF Pending
  <2>5. /\ [doc : {d}, line : candidates \ accepted, decision : {"pending"}] \in SUBSET Match
        /\ [doc : {d}, line : accepted, decision : {"accepted"}] \in SUBSET Match
    BY <1>3, <2>2 DEF Match
  <2>6. matches' \subseteq Match  BY <1>1, <2>1, <2>4, <2>5
  <2> QED  BY <1>2, <2>1, <2>3, <2>6 DEF BankTypeOK
<1>6. ASSUME NEW d \in Docs, UnmatchDocument(d)  PROVE BankTypeOK'
  BY <1>1, <1>2, <1>4, <1>6 DEF UnmatchDocument, BankTypeOK
<1>7. ASSUME NEW d \in Docs, NEW r \in Rows, AcceptMatch(d, r)  PROVE BankTypeOK'
  <2>1. /\ Decided(OfPair(d, r), "accepted") \in SUBSET Match
        /\ Decided(Pending(d) \ OfPair(d, r), "past") \in SUBSET Match
    BY <1>1, <1>3 DEF OfPair, Pending
  <2>2. matches' \subseteq Match  BY <1>1, <1>7, <2>1 DEF AcceptMatch
  <2> QED  BY <1>1, <1>2, <1>4, <1>7, <2>2 DEF AcceptMatch, BankTypeOK
<1>8. ASSUME NEW d \in Docs, NEW r \in Rows, LinkDocument(d, r)  PROVE BankTypeOK'
  <2>1. /\ Decided(Pending(d), "past") \in SUBSET Match
        /\ [doc |-> d, line |-> r, decision |-> "accepted"] \in Match
    BY <1>1, <1>3 DEF Pending, Match
  <2>2. matches' \subseteq Match  BY <1>1, <1>8, <2>1 DEF LinkDocument
  <2> QED  BY <1>1, <1>2, <1>4, <1>8, <2>2 DEF LinkDocument, BankTypeOK
<1>9. ASSUME NEW d \in Docs, NEW r \in Rows, RejectMatch(d, r)  PROVE BankTypeOK'
  <2>1. Decided(OfPair(d, r), "refused") \in SUBSET Match  BY <1>1, <1>3 DEF OfPair
  <2> QED  BY <1>1, <1>2, <1>9, <2>1 DEF RejectMatch, BankTypeOK
<1>10. ASSUME NEW d \in Docs, NEW r \in Rows, WithdrawMatchRejection(d, r)  PROVE BankTypeOK'
  <2> DEFINE refused == {m \in OfPair(d, r) : m.decision = "refused"}
  <2>1. Decided(refused, "past") \in SUBSET Match  BY <1>1, <1>3 DEF OfPair
  <2>2. /\ matches' = (matches \ refused) \cup Decided(refused, "past")
        /\ UNCHANGED <<imports, lines, reading, docs, payments>>
    BY <1>10 DEF WithdrawMatchRejection
  <2> QED  BY <1>1, <1>2, <2>1, <2>2 DEF BankTypeOK
<1> QED  BY <1>5, <1>6, <1>7, <1>8, <1>9, <1>10 DEF MatchingStep

LEMMA PayType ==
  ASSUME BankTypeOK, NEW r \in Rows, NEW invoices \in (SUBSET Docs) \ {{}},
         Pay(r, invoices), imports' = imports, reading' = reading
  PROVE  StatementsTypeOK' /\ payments' \subseteq Payment
<1>1. /\ Made(r) /\ Post(r, "payment") /\ "payment" \in Entries
      /\ payments' = payments \cup {[line |-> r, invoices |-> invoices, reversed |-> FALSE]}
  BY DEF Pay, Entries
<1>2. StatementsTypeOK'  BY <1>1, PostType DEF BankTypeOK
<1>3. [line |-> r, invoices |-> invoices, reversed |-> FALSE] \in Payment  BY DEF Payment
<1> QED  BY <1>1, <1>2, <1>3 DEF BankTypeOK

\* Payments are recorded against lines there are.
PaymentsJoined == \A y \in payments : Made(y.line)

LEMMA PostingStepType ==
  ASSUME BankTypeOK, PaymentsJoined, PostingStep  PROVE BankTypeOK'
<1>1. /\ StatementsTypeOK
      /\ matches \in SUBSET Match
      /\ payments \in SUBSET Payment
      /\ docs \in [Docs -> Document(Links)]
      /\ \A records \in SUBSET matches, decision \in Decisions :
           Decided(records, decision) \in SUBSET Match
  BY DecidedType DEF BankTypeOK
<1>2. {"past", "accepted"} \subseteq Decisions /\ {"own", "payment"} \subseteq Entries
  BY DEF Decisions, Entries
<1>3. \A r \in Rows : Made(r) <=> lines[r] \in Line
  BY <1>1, RowIsALine DEF Line, NoLine, Made
<1>4. /\ NoLine.entry = "none" /\ NoLine.status = "none"  BY DEF NoLine
<1>5. ASSUME NEW r \in Rows, PostLine(r)  PROVE BankTypeOK'
  <2>1. Made(r) /\ Post(r, "own")  BY <1>5 DEF PostLine, InTheBooks
  <2>2. UNCHANGED <<imports, reading, docs, matches, payments>>  BY <1>5 DEF PostLine
  <2>3. StatementsTypeOK'  BY <1>1, <1>2, <2>1, <2>2, PostType
  <2> QED  BY <2>2, <2>3 DEF BankTypeOK
<1>6. ASSUME NEW r \in Rows, ReclassifyTransaction(r)  PROVE BankTypeOK'
  <2>1. Made(r) /\ Post(r, "own")
    BY <1>1, <1>4, <1>6, RowIsALine DEF ReclassifyTransaction
  <2>2. UNCHANGED <<imports, reading, docs, matches, payments>>
    BY <1>6 DEF ReclassifyTransaction
  <2>3. StatementsTypeOK'  BY <1>1, <1>2, <2>1, <2>2, PostType
  <2> QED  BY <2>2, <2>3 DEF BankTypeOK
<1>7. ASSUME NEW r \in Rows, NEW invoices \in (SUBSET Docs) \ {{}}, RecordPayment(r, invoices)
      PROVE  BankTypeOK'
  BY <1>7, PayType DEF RecordPayment, BankTypeOK
<1>8. ASSUME NEW r \in Rows, NEW invoices \in (SUBSET Docs) \ {{}},
             SettleBankTransaction(r, invoices)
      PROVE  BankTypeOK'
  <2> DEFINE pending == UNION {Pending(d) : d \in invoices}
             here == {m \in pending : m.line = r}
  <2>1. /\ matches' = (matches \ pending) \cup Decided(here, "accepted")
                      \cup Decided(pending \ here, "past")
        /\ docs' = [d \in Docs |-> IF d \in invoices /\ ~Linked(d)
                                   THEN [docs[d] EXCEPT !.link = r] ELSE docs[d]]
        /\ Pay(r, invoices) /\ imports' = imports /\ reading' = reading
    BY <1>8 DEF SettleBankTransaction
  <2>2. pending \in SUBSET matches  BY DEF Pending
  <2>3. /\ Decided(here, "accepted") \in SUBSET Match
        /\ Decided(pending \ here, "past") \in SUBSET Match
    <3>1. here \in SUBSET matches /\ pending \ here \in SUBSET matches  BY <2>2
    <3> HIDE DEF here, pending
    <3> QED  BY <1>1, <1>2, <3>1
  <2>4. matches' \subseteq Match
    <3> HIDE DEF here, pending
    <3> QED  BY <1>1, <2>1, <2>3
  <2>5. docs' \in [Docs -> Document(Links)]
    <3>1. r \in Links  BY DEF Links
    <3>2. \A d \in Docs : docs'[d] = [docs[d] EXCEPT !.link = r] \/ docs'[d] = docs[d]
      BY <2>1
    <3>3. \A d \in Docs : [docs[d] EXCEPT !.link = r] \in Document(Links)
      BY <1>1, <3>1 DEF Document
    <3>4. \A d \in Docs : docs'[d] \in Document(Links)  BY <1>1, <3>2, <3>3
    <3> QED  BY <2>1, <3>4
  <2>6. StatementsTypeOK' /\ payments' \subseteq Payment  BY <2>1, PayType
  <2> QED  BY <2>4, <2>5, <2>6 DEF BankTypeOK
<1>9. ASSUME NEW y \in payments, ReversePayment(y)  PROVE BankTypeOK'
  <2>1. /\ y \in Payment /\ y.line \in Rows  BY <1>1 DEF Payment
  <2>2. /\ payments' = (payments \ {y}) \cup {[y EXCEPT !.reversed = TRUE]}
        /\ lines' = [lines EXCEPT ![y.line] =
                       [lines[y.line] EXCEPT !.status = "unclassified", !.entry = "none"]]
        /\ UNCHANGED <<imports, reading, docs, matches>>
    BY <1>9 DEF ReversePayment
  <2>3. [y EXCEPT !.reversed = TRUE] \in Payment  BY <2>1 DEF Payment
  <2>4. payments' \subseteq Payment  BY <1>1, <2>2, <2>3
  <2>5. lines[y.line] \in Line  BY <1>3, <2>1 DEF PaymentsJoined
  <2>6. [lines[y.line] EXCEPT !.status = "unclassified", !.entry = "none"] \in Line
    BY <2>5 DEF Line, Statuses, Entries
  <2>7. lines \in [Rows -> Line \cup {NoLine}]  BY <1>1 DEF StatementsTypeOK
  <2>8. lines' \in [Rows -> Line \cup {NoLine}]  BY <2>1, <2>2, <2>6, <2>7
  <2>9. \A s \in Rows : lines'[s].import = lines[s].import
    BY <2>1, <2>2, <2>5, <2>7 DEF Line
  <2>10. StatementsTypeOK'  BY <1>1, <2>2, <2>8, <2>9 DEF StatementsTypeOK
  <2> QED  BY <1>1, <2>2, <2>4, <2>10 DEF BankTypeOK
<1>10. ASSUME NEW period \in SUBSET Prints, CompleteReconciliation(period)  PROVE BankTypeOK'
  <2>1. /\ lines' = [r \in Rows |->
             IF r[1] \in period /\ lines[r].status = "posted"
             THEN [lines[r] EXCEPT !.status = "reconciled", !.agreed = TRUE] ELSE lines[r]]
        /\ UNCHANGED <<imports, reading, docs, matches, payments>>
    BY <1>10 DEF CompleteReconciliation
  <2>2. ASSUME NEW r \in Rows
        PROVE  lines'[r] \in Line \cup {NoLine} /\ lines'[r].import = lines[r].import
    <3>1. lines[r] \in Line \cup {NoLine}  BY <1>1 DEF StatementsTypeOK
    <3>2. CASE lines'[r] = lines[r]  BY <3>1, <3>2
    <3>3. CASE /\ lines[r].status = "posted"
               /\ lines'[r] = [lines[r] EXCEPT !.status = "reconciled", !.agreed = TRUE]
      <4>1. lines[r] \in Line  BY <1>4, <3>1, <3>3
      <4> QED  BY <3>3, <4>1 DEF Line, Statuses
    <3> QED  BY <2>1, <3>2, <3>3
  <2>3. StatementsTypeOK'  BY <1>1, <2>1, <2>2 DEF StatementsTypeOK
  <2> QED  BY <2>1, <2>3 DEF BankTypeOK
<1>11. \A r \in Rows : ClassifyTransaction(r) => PostLine(r)  BY DEF ClassifyTransaction
<1>12. ASSUME NEW d \in Docs, VoidInvoice(d)  PROVE BankTypeOK'
  <2>1. /\ docs' = [docs EXCEPT ![d] = [docs[d] EXCEPT !.voided = TRUE]]
        /\ UNCHANGED <<imports, lines, reading, matches, payments>>
    BY <1>12 DEF VoidInvoice
  <2>2. [docs[d] EXCEPT !.voided = TRUE] \in Document(Links)  BY <1>1 DEF Document
  <2>3. docs' \in [Docs -> Document(Links)]  BY <1>1, <2>1, <2>2
  <2> QED  BY <1>1, <2>1, <2>3 DEF BankTypeOK, StatementsTypeOK
<1> QED  BY <1>5, <1>6, <1>7, <1>8, <1>9, <1>10, <1>11, <1>12 DEF PostingStep

LEMMA RetiringStepType ==
  ASSUME BankTypeOK, RetiringStep  PROVE BankTypeOK'
<1>1. ASSUME NEW d \in Docs, ArchiveDocument(d) \/ DeleteDocument(d)  PROVE BankTypeOK'
  <2>1. docs \in [Docs -> Document(Links)] /\ docs[d] \in Document(Links)  BY DEF BankTypeOK
  <2>2. /\ [docs[d] EXCEPT !.kept = "archived"] \in Document(Links)
        /\ [docs[d] EXCEPT !.kept = "deleted", !.review = "unreviewed", !.values = "draft"]
             \in Document(Links)
    BY <2>1 DEF Document, Reviews
  <2>3. \/ docs' = [docs EXCEPT ![d] = [docs[d] EXCEPT !.kept = "archived"]]
        \/ docs' = [docs EXCEPT ![d] = [docs[d] EXCEPT !.kept = "deleted",
                                          !.review = "unreviewed", !.values = "draft"]]
    BY <1>1 DEF ArchiveDocument, DeleteDocument
  <2>4. docs' \in [Docs -> Document(Links)]  BY <2>1, <2>2, <2>3
  <2>5. UNCHANGED <<imports, lines, reading, payments>> /\ matches' \subseteq matches
    BY <1>1 DEF ArchiveDocument, DeleteDocument
  <2> QED  BY <2>4, <2>5 DEF BankTypeOK, StatementsTypeOK
<1> QED  BY <1>1 DEF RetiringStep

LEMMA RollbackType ==
  ASSUME BankTypeOK, NEW i \in DOMAIN imports, RollbackStatementImport(i)
  PROVE  /\ BankTypeOK'
         /\ Len(imports') = Len(imports)
         /\ \A j \in DOMAIN imports :
              imports'[j] = [imports[j] EXCEPT !.status = IF j = i THEN "reversed" ELSE @]
<1>1. /\ UndoImport(i)
      /\ UNCHANGED <<docs, payments>>
      /\ LET pending == {m \in matches : m.line \in LinesOf(i) /\ m.decision = "pending"} IN
           matches' = (matches \ pending) \cup Decided(pending, "past")
  BY DEF RollbackStatementImport
<1>2. /\ imports \in Seq(Import) /\ lines \in [Rows -> Line \cup {NoLine}]
      /\ i \in 1 .. Len(imports)
  BY DEF BankTypeOK, StatementsTypeOK
<1>3. /\ imports' = [imports EXCEPT ![i].status = "reversed"]
      /\ lines' = [r \in Rows |-> IF r \in LinesOf(i)
                                  THEN [lines[r] EXCEPT !.status = "rolled_back"] ELSE lines[r]]
      /\ reading' = reading
  BY <1>1 DEF UndoImport
<1>4. /\ imports' \in Seq(Import) /\ Len(imports') = Len(imports)
      /\ \A j \in DOMAIN imports :
           imports'[j] = [imports[j] EXCEPT !.status = IF j = i THEN "reversed" ELSE @]
  <2>1. imports[i] \in Import  BY <1>2
  <2>2. [imports[i] EXCEPT !.status = "reversed"] \in Import  BY <2>1 DEF Import
  <2>3. imports' = [imports EXCEPT ![i] = [imports[i] EXCEPT !.status = "reversed"]]
    BY <1>3
  <2>4. \A j \in DOMAIN imports : imports[j] \in Import  BY <1>2
  <2>5. \A j \in DOMAIN imports :
          imports'[j] = IF j = i THEN [imports[i] EXCEPT !.status = "reversed"] ELSE imports[j]
    BY <2>3
  <2>6. imports' \in Seq(Import) /\ Len(imports') = Len(imports)
    BY <1>2, <2>2, <2>3
  <2>7. \A j \in DOMAIN imports : [imports[j] EXCEPT !.status = @] = imports[j]
    BY <2>4 DEF Import
  <2> QED  BY <2>5, <2>6, <2>7
<1>5. ASSUME NEW r \in Rows
      PROVE  lines'[r] \in Line \cup {NoLine} /\ lines'[r].import = lines[r].import
  <2>1. lines[r] \in Line \cup {NoLine}  BY <1>2
  <2>2. CASE r \in LinesOf(i)
    <3>1. lines[r] \in Line  BY <1>2, <2>1, <2>2 DEF LinesOf, NoLine
    <3>2. lines'[r] = [lines[r] EXCEPT !.status = "rolled_back"]  BY <1>3, <2>2
    <3> QED  BY <3>1, <3>2 DEF Line, Statuses
  <2>3. CASE r \notin LinesOf(i)  BY <1>3, <2>1, <2>3
  <2> QED  BY <2>2, <2>3
<1>6. StatementsTypeOK'
  <2>1. lines' \in [Rows -> Line \cup {NoLine}]  BY <1>3, <1>5
  <2>2. \A r \in Rows : lines'[r].import <= Len(imports')
    BY <1>4, <1>5 DEF BankTypeOK, StatementsTypeOK
  <2> QED  BY <1>3, <1>4, <2>1, <2>2 DEF BankTypeOK, StatementsTypeOK
<1>7. matches' \subseteq Match
  <2> DEFINE pending == {m \in matches : m.line \in LinesOf(i) /\ m.decision = "pending"}
  <2>1. pending \in SUBSET Match /\ matches \subseteq Match  BY DEF BankTypeOK
  <2>2. "past" \in Decisions  BY DEF Decisions
  <2>3. matches' = (matches \ pending) \cup Decided(pending, "past")  BY <1>1
  <2> HIDE DEF pending
  <2>4. Decided(pending, "past") \in SUBSET Match  BY <2>1, <2>2, DecidedType
  <2> QED  BY <2>1, <2>3, <2>4
<1> QED  BY <1>1, <1>4, <1>6, <1>7 DEF BankTypeOK

LEMMA BankInitType == BankInit => BankTypeOK
<1> SUFFICES ASSUME BankInit  PROVE BankTypeOK  OBVIOUS
<1>1. StatementsTypeOK
  <2>1. imports = << >> /\ lines = [r \in Rows |-> NoLine]
        /\ reading = [q \in Requests |-> NoFile]
    BY DEF BankInit, StatementsInit
  <2>2. MaxImports \in Nat  BY StatementsAssumption DEF StatementsAssumption
  <2>3. \A r \in Rows : lines[r].import = 0  BY <2>1 DEF NoLine
  <2> QED  BY <2>1, <2>2, <2>3 DEF StatementsTypeOK
<1>2. docs \in [Docs -> Document(Links)]
  BY DEF BankInit, DocumentsInit, Document, Reviews, Readings, Links
<1>3. matches = {} /\ payments = {}  BY DEF BankInit
<1> QED  BY <1>1, <1>2, <1>3 DEF BankTypeOK

LEMMA BankStepType ==
  ASSUME BankTypeOK, PaymentsJoined, BankStep  PROVE BankTypeOK'
<1>1. CASE StatementsStep /\ UNCHANGED <<docs, matches, payments>>
  BY <1>1, StatementsStepType DEF BankTypeOK
<1>2. CASE \E i \in DOMAIN imports : RollbackStatementImport(i)
  BY <1>2, RollbackType
<1>3. CASE DocumentsStep /\ UNCHANGED <<imports, lines, reading, matches, payments>>
  BY <1>3, DocumentsStepType DEF BankTypeOK, StatementsTypeOK
<1>4. CASE MatchingStep  BY <1>4, MatchingStepType
<1>5. CASE PostingStep  BY <1>5, PostingStepType
<1>6. CASE RetiringStep  BY <1>6, RetiringStepType
<1> QED  BY <1>1, <1>2, <1>3, <1>4, <1>5, <1>6 DEF BankStep
------------------------------------------------------------------------------
(* Which lines there are *)

LEMMA LineByImport ==
  ASSUME NEW l \in Line \cup {NoLine}  PROVE l.import = 0 <=> l = NoLine
<1>1. \A k \in Line : k.import \in 1 .. MaxImports  BY DEF Line
<1>2. MaxImports \in Nat  BY StatementsAssumption DEF StatementsAssumption
<1>3. \A k \in Line : k.import # 0  BY <1>1, <1>2
<1> QED  BY <1>3 DEF NoLine

\* A step that imports nothing makes no line and removes none.
NoLineMade == \A r \in Rows : lines'[r].import = lines[r].import

LEMMA PostKeepsLines ==
  ASSUME StatementsTypeOK, NEW r \in Rows, Made(r), NEW entry, Post(r, entry)
  PROVE  NoLineMade
<1>1. lines \in [Rows -> Line \cup {NoLine}] /\ lines[r] \in Line
  BY RowIsALine DEF StatementsTypeOK
<1>2. lines' = [lines EXCEPT ![r] = [lines[r] EXCEPT !.status = "posted", !.entry = entry]]
  BY DEF Post
<1>3. [lines[r] EXCEPT !.status = "posted", !.entry = entry].import = lines[r].import
  BY <1>1 DEF Line
<1> QED  BY <1>1, <1>2, <1>3 DEF NoLineMade

LEMMA LinesStay ==
  ASSUME BankTypeOK, PaymentsJoined,
         \/ \E i \in DOMAIN imports : RollbackStatementImport(i)
         \/ DocumentsStep /\ UNCHANGED <<imports, lines, reading, matches, payments>>
         \/ MatchingStep
         \/ RetiringStep
         \/ PostingStep
  PROVE  NoLineMade
<1>1. /\ StatementsTypeOK /\ lines \in [Rows -> Line \cup {NoLine}]
      /\ payments \subseteq Payment
  BY DEF BankTypeOK, StatementsTypeOK
<1>2. lines' = lines => NoLineMade  BY DEF NoLineMade
<1>3. ASSUME NEW i \in DOMAIN imports, RollbackStatementImport(i)  PROVE NoLineMade
  <2>1. lines' = [r \in Rows |-> IF r \in LinesOf(i)
                                 THEN [lines[r] EXCEPT !.status = "rolled_back"] ELSE lines[r]]
    BY <1>3 DEF RollbackStatementImport, UndoImport
  <2>2. \A r \in Rows : [lines[r] EXCEPT !.status = "rolled_back"].import = lines[r].import
    BY <1>1 DEF Line, NoLine
  <2> QED  BY <2>1, <2>2 DEF NoLineMade
<1>4. ASSUME MatchingStep  PROVE NoLineMade
  BY <1>2, <1>4 DEF MatchingStep, FindMatches, UnmatchDocument, AcceptMatch, LinkDocument,
                    RejectMatch, WithdrawMatchRejection
<1>5. ASSUME PostingStep  PROVE NoLineMade
  <2>1. ASSUME NEW r \in Rows, PostLine(r)  PROVE NoLineMade
    <3>1. Made(r) /\ Post(r, "own")  BY <2>1 DEF PostLine, InTheBooks
    <3> QED  BY <1>1, <3>1, PostKeepsLines
  <2>2. ASSUME NEW r \in Rows, ReclassifyTransaction(r)  PROVE NoLineMade
    <3>1. NoLine.entry = "none"  BY DEF NoLine
    <3>2. Made(r) /\ Post(r, "own")
      BY <1>1, <2>2, <3>1, RowIsALine DEF ReclassifyTransaction
    <3> QED  BY <1>1, <3>2, PostKeepsLines
  <2>3. ASSUME NEW r \in Rows, NEW invoices, Pay(r, invoices)  PROVE NoLineMade
    <3>1. Made(r) /\ Post(r, "payment")  BY <2>3 DEF Pay
    <3> QED  BY <1>1, <3>1, PostKeepsLines
  <2>4. ASSUME NEW y \in payments, ReversePayment(y)  PROVE NoLineMade
    <3>1. lines' = [lines EXCEPT ![y.line] =
                      [lines[y.line] EXCEPT !.status = "unclassified", !.entry = "none"]]
      BY <2>4 DEF ReversePayment
    <3>2. y.line \in Rows  BY <1>1 DEF Payment
    <3>3. lines[y.line] \in Line  BY <1>1, <3>2, RowIsALine DEF PaymentsJoined
    <3>4. [lines[y.line] EXCEPT !.status = "unclassified", !.entry = "none"].import
            = lines[y.line].import
      BY <3>3 DEF Line
    <3> QED  BY <1>1, <3>1, <3>2, <3>4 DEF NoLineMade
  <2>5. ASSUME NEW period, CompleteReconciliation(period)  PROVE NoLineMade
    <3>1. lines' = [r \in Rows |->
            IF r[1] \in period /\ lines[r].status = "posted"
            THEN [lines[r] EXCEPT !.status = "reconciled", !.agreed = TRUE] ELSE lines[r]]
      BY <2>5 DEF CompleteReconciliation
    <3>2. \A r \in Rows : [lines[r] EXCEPT !.status = "reconciled", !.agreed = TRUE].import
                            = lines[r].import
      BY <1>1 DEF Line, NoLine
    <3>3. \A r \in Rows :
            \/ lines'[r] = [lines[r] EXCEPT !.status = "reconciled", !.agreed = TRUE]
            \/ lines'[r] = lines[r]
      BY <3>1
    <3> QED  BY <3>2, <3>3 DEF NoLineMade
  <2> QED  BY <1>2, <1>5, <2>1, <2>2, <2>3, <2>4, <2>5
           DEF PostingStep, ClassifyTransaction, RecordPayment, SettleBankTransaction,
               VoidInvoice
<1>6. ASSUME RetiringStep  PROVE NoLineMade
  BY <1>2, <1>6 DEF RetiringStep, ArchiveDocument, DeleteDocument
<1> QED  BY <1>2, <1>3, <1>4, <1>5, <1>6

LEMMA MadeStays ==
  ASSUME BankTypeOK, BankTypeOK', NoLineMade
  PROVE  \A r \in Rows : Made(r)' <=> Made(r)
<1>1. /\ lines \in [Rows -> Line \cup {NoLine}]
      /\ lines' \in [Rows -> Line \cup {NoLine}]
  BY DEF BankTypeOK, StatementsTypeOK
<1>2. ASSUME NEW r \in Rows  PROVE Made(r)' <=> Made(r)
  <2>1. lines[r].import = 0 <=> lines[r] = NoLine  BY <1>1, LineByImport
  <2>2. lines'[r].import = 0 <=> lines'[r] = NoLine  BY <1>1, LineByImport
  <2> QED  BY <2>1, <2>2 DEF Made, NoLineMade
<1> QED  BY <1>2

\* What is imported and typed in.
LEMMA ImportMakes ==
  ASSUME StatementsTypeOK, NEW f \in Files, TakeIn(f), NEW r \in Rows
  PROVE  /\ Made(r)' <=> Made(r) \/ r \in NewLines(f)
         /\ r \in NewLines(f) => lines'[r] = FreshLine /\ ~Made(r)
         /\ r \notin NewLines(f) => lines'[r] = lines[r]
<1>1. FreshLine \in Line  BY FreshLineType DEF TakeIn
<1>2. FreshLine # NoLine  BY <1>1, StatementsAssumption DEF Line, NoLine, StatementsAssumption
<1> QED  BY <1>2 DEF TakeIn, Made

LEMMA TypingMakes ==
  ASSUME StatementsTypeOK, NEW p \in Prints, RecordManual(p), NEW r \in Rows
  PROVE  /\ Made(r)' <=> Made(r) \/ r = <<p, NextNumber(p)>>
         /\ r = <<p, NextNumber(p)>> => lines'[r] = FreshLine /\ ~Made(r)
         /\ r # <<p, NextNumber(p)>> => lines'[r] = lines[r]
<1>1. FreshLine \in Line  BY FreshLineType DEF RecordManual
<1>2. FreshLine # NoLine  BY <1>1, StatementsAssumption DEF Line, NoLine, StatementsAssumption
<1>3. lines \in [Rows -> Line \cup {NoLine}]  BY DEF StatementsTypeOK
<1> QED  BY <1>2, <1>3, RecordManualType DEF RecordManual, Made
------------------------------------------------------------------------------
(* The numbers of a print *)

LEMMA NumbersCount ==
  ASSUME NEW S \in SUBSET Numbers
  PROVE  /\ IsFiniteSet(S) /\ S \in SUBSET Nat
         /\ RunsOn(S) <=> S = 0 .. Cardinality(S) - 1
<1>1. MaxRows \in Nat  BY StatementsAssumption DEF StatementsAssumption
<1>2. IsFiniteSet(Numbers)  BY <1>1, FS_Interval DEF Numbers
<1>3. IsFiniteSet(S) /\ S \in SUBSET Nat
  <2>1. Numbers \subseteq Nat  BY DEF Numbers
  <2> QED  BY <1>2, <2>1, FS_Subset
<1>4. RunsOn(S) => S = 0 .. Cardinality(S) - 1  BY <1>3, RunsOnIsInterval
<1>5. S = 0 .. Cardinality(S) - 1 => RunsOn(S)
  <2>1. Cardinality(S) \in Nat  BY <1>3, FS_CardinalityType
  <2>2. ASSUME NEW c \in Nat, S = 0 .. c - 1  PROVE RunsOn(S)  BY <2>2 DEF RunsOn
  <2> QED  BY <2>1, <2>2
<1> QED  BY <1>3, <1>4, <1>5

LEMMA NumbersInRows ==
  ASSUME NEW p \in Prints, NEW n
  PROVE  /\ n \in Numbers <=> <<p, n>> \in Rows
         /\ n \in NumbersOf(p) <=> <<p, n>> \in Rows /\ Made(<<p, n>>)
         /\ n \in NumbersOf(p)' <=> <<p, n>> \in Rows /\ Made(<<p, n>>)'
BY DEF Rows, NumbersOf

LEMMA InNewLines ==
  ASSUME NEW f, NEW p \in Prints, NEW n
  PROVE  <<p, n>> \in NewLines(f)
           <=> n \in GivenNumbers(p, Held[f][p]) /\ n \notin LiveNumbers(p)
BY DEF NewLines

LEMMA TakenBackIsMade ==
  ASSUME NEW p \in Prints  PROVE TakenBack(p) \subseteq NumbersOf(p)
BY DEF TakenBack, NumbersOf, Made, NoLine

LEMMA ImportRunsOn ==
  ASSUME StatementsTypeOK, NEW f \in Files, TakeIn(f), NEW p \in Prints,
         RunsOn(NumbersOf(p))
  PROVE  RunsOn(NumbersOf(p)')
<1> DEFINE c == Held[f][p]
<1>1. c \in Nat  BY StatementsAssumption DEF StatementsAssumption
<1>2. NewLines(f) \subseteq Rows  BY DEF TakeIn
<1> SUFFICES ASSUME NEW n \in NumbersOf(p)', NEW m \in 0 .. n  PROVE m \in NumbersOf(p)'
  BY DEF RunsOn
<1>3. MaxRows \in Nat  BY StatementsAssumption DEF StatementsAssumption
<1>4. n \in Numbers /\ m \in Numbers /\ <<p, n>> \in Rows /\ <<p, m>> \in Rows
  <2>1. n \in Numbers  BY DEF NumbersOf
  <2>2. m \in Numbers  BY <1>3, <2>1 DEF Numbers
  <2> QED  BY <2>1, <2>2 DEF Rows
<1>5. Made(<<p, n>>) \/ <<p, n>> \in NewLines(f)
  BY <1>4, ImportMakes, NumbersInRows
<1>6. Made(<<p, m>>) => m \in NumbersOf(p)'  BY <1>4, ImportMakes, NumbersInRows
<1>7. CASE Made(<<p, n>>)
  <2>1. n \in NumbersOf(p)  BY <1>4, <1>7, NumbersInRows
  <2>2. m \in NumbersOf(p)  BY <2>1 DEF RunsOn
  <2> QED  BY <1>4, <1>6, <2>2, NumbersInRows
<1>8. CASE <<p, n>> \in NewLines(f)
  <2>1. n \in GivenNumbers(p, c)  BY <1>8, InNewLines
  <2>2. CASE m \in TakenBack(p)  BY <1>4, <1>6, <2>2, TakenBackIsMade, NumbersInRows
  <2>3. CASE m \notin TakenBack(p)
    <3>1. m \in GivenNumbers(p, c)
      <4> HIDE DEF c
      <4> QED  BY <1>1, <2>1, <2>3, GivenNumbersRunOn, StatementsAssumption
    <3>2. CASE m \in LiveNumbers(p)
      BY <1>4, <1>6, <3>2, NumbersInRows DEF LiveNumbers
    <3>3. CASE m \notin LiveNumbers(p)
      <4>1. <<p, m>> \in NewLines(f)  BY <3>1, <3>3, InNewLines
      <4> QED  BY <1>4, <4>1, ImportMakes, NumbersInRows
    <3> QED  BY <3>2, <3>3
  <2> QED  BY <2>2, <2>3
<1> QED  BY <1>5, <1>7, <1>8

LEMMA TypingRunsOn ==
  ASSUME StatementsTypeOK, NEW q \in Prints, RecordManual(q), NEW p \in Prints,
         RunsOn(NumbersOf(p))
  PROVE  RunsOn(NumbersOf(p)')
<1>1. \A n : n \in NumbersOf(p)' <=> n \in NumbersOf(p) \/ (p = q /\ n = NextNumber(q))
  <2> SUFFICES ASSUME NEW n
               PROVE n \in NumbersOf(p)' <=> n \in NumbersOf(p) \/ (p = q /\ n = NextNumber(q))
    OBVIOUS
  <2>1. <<q, NextNumber(q)>> \in Rows  BY RecordManualType
  <2>2. <<p, n>> = <<q, NextNumber(q)>> <=> p = q /\ n = NextNumber(q)  OBVIOUS
  <2> QED  BY <2>1, <2>2, TypingMakes, NumbersInRows
<1>2. /\ NumbersOf(p) = 0 .. NextNumber(p) - 1
      /\ NextNumber(p) \in Nat
  <2>1. NumbersOf(p) \in SUBSET Numbers  BY DEF NumbersOf
  <2> QED  BY <2>1, NumbersCount, FS_CardinalityType DEF NextNumber
<1>3. CASE p # q
  <2>1. NumbersOf(p)' = NumbersOf(p)  BY <1>1, <1>3
  <2> QED  BY <2>1 DEF RunsOn
<1>4. CASE p = q
  <2>1. NumbersOf(p)' = 0 .. NextNumber(p)
    <3>1. \A n : n \in 0 .. NextNumber(p) <=> n \in 0 .. NextNumber(p) - 1 \/ n = NextNumber(p)
      BY <1>2
    <3> QED  BY <1>1, <1>2, <1>4, <3>1
  <2> QED  BY <1>2, <2>1 DEF RunsOn
<1> QED  BY <1>3, <1>4

NumbersInv == \A p \in Prints : RunsOn(NumbersOf(p))

LEMMA NumbersInvMeans == NumbersInv => NumbersRunOn
<1>1. \A p \in Prints : NumbersOf(p) \in SUBSET Numbers  BY DEF NumbersOf
<1> QED  BY <1>1, NumbersCount DEF NumbersInv, NumbersRunOn

LEMMA StatementsStepNumbers ==
  ASSUME StatementsTypeOK, StatementsStep, NumbersInv  PROVE NumbersInv'
<1> SUFFICES ASSUME NEW p \in Prints  PROVE RunsOn(NumbersOf(p)')
  BY DEF NumbersInv, RunsOn
<1>1. RunsOn(NumbersOf(p))  BY DEF NumbersInv
<1>2. ASSUME NEW f \in Files, ImportStatement(f)  PROVE RunsOn(NumbersOf(p)')
  BY <1>1, <1>2, ImportRunsOn DEF ImportStatement
<1>3. ASSUME NEW q \in Requests, FinishWorkbook(q)  PROVE RunsOn(NumbersOf(p)')
  <2>1. reading[q] \in Files /\ TakeIn(reading[q])  BY <1>3 DEF FinishWorkbook, StatementsTypeOK
  <2> QED  BY <1>1, <2>1, ImportRunsOn
<1>4. ASSUME NEW q \in Prints, RecordManual(q)  PROVE RunsOn(NumbersOf(p)')
  BY <1>1, <1>4, TypingRunsOn
<1>5. ASSUME lines' = lines  PROVE RunsOn(NumbersOf(p)')
  <2>1. NumbersOf(p)' = NumbersOf(p)  BY <1>5 DEF NumbersOf, Made
  <2> QED  BY <1>1, <2>1 DEF RunsOn
<1> QED  BY <1>2, <1>3, <1>4, <1>5 DEF StatementsStep, BeginWorkbook, AbandonWorkbook
------------------------------------------------------------------------------
(* Lines and the books *)

\* What LinesAgreeWithTheBooks says of one line.
Agrees(r) ==
  /\ lines[r].status \in {"posted", "reconciled"} <=> lines[r].entry # "none"
  /\ lines[r].agreed => lines[r].entry # "none"
  /\ lines[r].entry = "payment" <=> Standing(r) # {}
  /\ \A y, z \in Standing(r) : y = z
  /\ lines[r].status = "rolled_back" => imports[lines[r].import].status = "reversed"
  /\ imports[lines[r].import].status = "reversed" =>
       lines[r].status = "rolled_back" \/ \E y \in payments : y.line = r

LEMMA AgreesMeans ==
  /\ LinesAgreeWithTheBooks <=> \A r \in Rows : Made(r) => Agrees(r)
  /\ LinesAgreeWithTheBooks' <=> \A r \in Rows : Made(r)' => Agrees(r)'
BY DEF LinesAgreeWithTheBooks, LinesMade, Agrees

LEMMA ImportOfALine ==
  ASSUME StatementsTypeOK, NEW r \in Rows, Made(r)
  PROVE  lines[r].import \in DOMAIN imports
<1>1. /\ Len(imports) \in Nat /\ DOMAIN imports = 1 .. Len(imports)
      /\ lines[r].import <= Len(imports)
  BY DEF StatementsTypeOK
<1>2. lines[r] \in Line  BY RowIsALine
<1>3. MaxImports \in Nat  BY StatementsAssumption DEF StatementsAssumption
<1>4. lines[r].import \in 1 .. MaxImports  BY <1>2 DEF Line
<1> QED  BY <1>1, <1>3, <1>4

LEMMA Untouched ==
  ASSUME NEW r, Agrees(r), lines'[r] = lines[r],
         imports'[lines[r].import].status = imports[lines[r].import].status,
         Standing(r)' = Standing(r),
         (\E y \in payments : y.line = r) => \E y \in payments' : y.line = r
  PROVE  Agrees(r)'
BY DEF Agrees

LEMMA FreshAgrees ==
  ASSUME StatementsTypeOK, PaymentsJoined, NEW r \in Rows, ~Made(r), lines'[r] = FreshLine,
         payments' = payments, imports'[Len(imports) + 1].status # "reversed"
  PROVE  Agrees(r)'
<1>1. Standing(r)' = {}  BY DEF Standing, PaymentsJoined
<1>2. /\ lines'[r].status = "unclassified" /\ lines'[r].entry = "none"
      /\ lines'[r].agreed = FALSE /\ lines'[r].import = Len(imports) + 1
  BY DEF FreshLine
<1> QED  BY <1>1, <1>2 DEF Agrees

LEMMA OldAgrees ==
  ASSUME StatementsTypeOK, NEW r \in Rows, Made(r), Agrees(r), lines'[r] = lines[r],
         payments' = payments, \A i \in DOMAIN imports : imports'[i] = imports[i]
  PROVE  Agrees(r)'
<1>1. imports'[lines[r].import] = imports[lines[r].import]  BY ImportOfALine
<1>2. Standing(r)' = Standing(r)  BY DEF Standing
<1> QED  BY <1>1, <1>2, Untouched

LEMMA StatementsStepAgrees ==
  ASSUME StatementsTypeOK, PaymentsJoined, LinesAgreeWithTheBooks,
         StatementsStep, payments' = payments
  PROVE  LinesAgreeWithTheBooks'
<1> SUFFICES ASSUME NEW r \in Rows, Made(r)'  PROVE Agrees(r)'  BY AgreesMeans
<1>1. Made(r) => Agrees(r)  BY AgreesMeans
<1>2. Len(imports) \in Nat  BY DEF StatementsTypeOK
<1>3. ASSUME NEW f \in Files, TakeIn(f)  PROVE Agrees(r)'
  <2>1. /\ \A i \in DOMAIN imports : imports'[i] = imports[i]
        /\ imports'[Len(imports) + 1].status # "reversed"
    <3>1. /\ Len(imports') = Len(imports) + 1
          /\ imports'[Len(imports')].status # "reversed"
          /\ \A i \in DOMAIN imports : imports'[i] = imports[i]
      BY <1>3, TakeInType
    <3> QED  BY <3>1
  <2>2. CASE r \in NewLines(f)
    <3>1. ~Made(r) /\ lines'[r] = FreshLine  BY <1>3, <2>2, ImportMakes
    <3> QED  BY <2>1, <3>1, FreshAgrees
  <2>3. CASE r \notin NewLines(f)
    <3>1. Made(r) /\ lines'[r] = lines[r]  BY <1>3, <2>3, ImportMakes
    <3> QED  BY <1>1, <2>1, <3>1, OldAgrees
  <2> QED  BY <2>2, <2>3
<1>4. ASSUME NEW p \in Prints, RecordManual(p)  PROVE Agrees(r)'
  <2>1. /\ \A i \in DOMAIN imports : imports'[i] = imports[i]
        /\ imports'[Len(imports) + 1].status # "reversed"
    <3>1. /\ Len(imports') = Len(imports) + 1
          /\ imports'[Len(imports')].status # "reversed"
          /\ \A i \in DOMAIN imports : imports'[i] = imports[i]
      BY <1>4, RecordManualType
    <3> QED  BY <3>1
  <2>2. CASE r = <<p, NextNumber(p)>>
    <3>1. ~Made(r) /\ lines'[r] = FreshLine  BY <1>4, <2>2, TypingMakes
    <3> QED  BY <2>1, <3>1, FreshAgrees
  <2>3. CASE r # <<p, NextNumber(p)>>
    <3>1. Made(r) /\ lines'[r] = lines[r]  BY <1>4, <2>3, TypingMakes
    <3> QED  BY <1>1, <2>1, <3>1, OldAgrees
  <2> QED  BY <2>2, <2>3
<1>5. ASSUME lines' = lines, imports' = imports  PROVE Agrees(r)'
  <2>1. Made(r)  BY <1>5 DEF Made
  <2> QED  BY <1>1, <1>5, <2>1, OldAgrees
<1>6. \A q \in Requests : FinishWorkbook(q) => reading[q] \in Files /\ TakeIn(reading[q])
  BY DEF FinishWorkbook, StatementsTypeOK
<1> QED  BY <1>3, <1>4, <1>5, <1>6 DEF StatementsStep, ImportStatement, BeginWorkbook,
                                       AbandonWorkbook

LEMMA RollbackAgrees ==
  ASSUME BankTypeOK, LinesAgreeWithTheBooks,
         NEW i \in DOMAIN imports, RollbackStatementImport(i),
         NEW r \in Rows, Made(r)
  PROVE  Agrees(r)'
<1>1. Agrees(r) /\ lines[r] \in Line
  BY AgreesMeans, RowIsALine DEF BankTypeOK
<1>2. /\ payments' = payments
      /\ \A s \in LinesOf(i) : /\ lines[s].status \notin {"posted", "reconciled"}
                               /\ lines[s].entry = "none"
                               /\ ~lines[s].agreed
      /\ lines' = [s \in Rows |-> IF s \in LinesOf(i)
                                  THEN [lines[s] EXCEPT !.status = "rolled_back"] ELSE lines[s]]
  BY DEF RollbackStatementImport, UndoImport
<1>3. Standing(r)' = Standing(r)  BY <1>2 DEF Standing
<1>4. CASE r \in LinesOf(i)
  <2>1. lines'[r] = [lines[r] EXCEPT !.status = "rolled_back"]  BY <1>2, <1>4
  <2>2. /\ lines'[r].status = "rolled_back" /\ lines'[r].entry = "none"
        /\ lines'[r].agreed = FALSE /\ lines'[r].import = i
    BY <1>1, <1>2, <1>4, <2>1 DEF Line, LinesOf
  <2>3. imports'[i].status = "reversed"
    <3>1. imports'[i] = [imports[i] EXCEPT !.status = "reversed"]  BY RollbackType
    <3>2. imports[i] \in Import  BY DEF BankTypeOK, StatementsTypeOK
    <3> QED  BY <3>1, <3>2 DEF Import
  <2>4. lines[r].entry = "none"  BY <1>2, <1>4
  <2> QED  BY <1>1, <1>3, <2>2, <2>3, <2>4 DEF Agrees
<1>5. CASE r \notin LinesOf(i)
  <2>1. lines'[r] = lines[r]  BY <1>2, <1>5
  <2>2. lines[r].import \in DOMAIN imports /\ lines[r].import # i
    BY <1>5, ImportOfALine DEF BankTypeOK, LinesOf
  <2>3. imports'[lines[r].import] = [imports[lines[r].import] EXCEPT !.status = @]
    BY <2>2, RollbackType
  <2>4. imports[lines[r].import] \in Import  BY <2>2 DEF BankTypeOK, StatementsTypeOK
  <2>5. imports'[lines[r].import].status = imports[lines[r].import].status
    BY <2>3, <2>4 DEF Import
  <2> QED  BY <1>1, <1>2, <1>3, <2>1, <2>5, Untouched
<1> QED  BY <1>4, <1>5

LEMMA PostOwnAgrees ==
  ASSUME BankTypeOK, LinesAgreeWithTheBooks, NEW r \in Rows, Made(r), Post(r, "own"),
         Standing(r) = {}, lines[r].status # "rolled_back",
         imports' = imports, payments' = payments,
         NEW s \in Rows, Made(s)
  PROVE  Agrees(s)'
<1>1. Agrees(s) /\ Agrees(r) /\ lines[r] \in Line /\ lines \in [Rows -> Line \cup {NoLine}]
  BY AgreesMeans, RowIsALine DEF BankTypeOK, StatementsTypeOK
<1>2. lines' = [lines EXCEPT ![r] = [lines[r] EXCEPT !.status = "posted", !.entry = "own"]]
  BY DEF Post
<1>3. Standing(s)' = Standing(s)  BY DEF Standing
<1>4. CASE s = r
  <2>1. /\ lines'[r].status = "posted" /\ lines'[r].entry = "own"
        /\ lines'[r].import = lines[r].import
    BY <1>1, <1>2 DEF Line
  <2> QED  BY <1>1, <1>3, <1>4, <2>1 DEF Agrees
<1>5. CASE s # r
  <2>1. lines'[s] = lines[s]  BY <1>1, <1>2, <1>5
  <2> QED  BY <1>1, <1>3, <2>1, Untouched
<1> QED  BY <1>4, <1>5

LEMMA PayAgrees ==
  ASSUME BankTypeOK, LinesAgreeWithTheBooks, NEW r \in Rows, NEW invoices, Pay(r, invoices),
         imports' = imports, NEW s \in Rows, Made(s)
  PROVE  Agrees(s)'
<1> DEFINE new == [line |-> r, invoices |-> invoices, reversed |-> FALSE]
<1>1. /\ Made(r) /\ lines[r].entry = "none" /\ payments' = payments \cup {new}
      /\ lines' = [lines EXCEPT ![r] = [lines[r] EXCEPT !.status = "posted",
                                                         !.entry = "payment"]]
  BY DEF Pay, Post
<1>2. Agrees(s) /\ Agrees(r) /\ lines[r] \in Line /\ lines \in [Rows -> Line \cup {NoLine}]
  BY <1>1, AgreesMeans, RowIsALine DEF BankTypeOK, StatementsTypeOK
<1>3. new.line = r /\ new.reversed = FALSE  OBVIOUS
<1> HIDE DEF new
<1>4. CASE s = r
  <2>1. /\ lines'[r].status = "posted" /\ lines'[r].entry = "payment"
        /\ lines'[r].import = lines[r].import
    BY <1>1, <1>2 DEF Line
  <2>2. Standing(r) = {}  BY <1>1, <1>2 DEF Agrees
  <2>3. Standing(r)' = {new}  BY <1>1, <1>3, <2>2 DEF Standing
  <2>4. \E y \in payments' : y.line = r  BY <1>1, <1>3
  <2> QED  BY <1>4, <2>1, <2>3, <2>4 DEF Agrees
<1>5. CASE s # r
  <2>1. lines'[s] = lines[s]  BY <1>1, <1>2, <1>5
  <2>2. Standing(s)' = Standing(s)  BY <1>1, <1>3, <1>5 DEF Standing
  <2> QED  BY <1>1, <1>2, <2>1, <2>2, Untouched
<1> QED  BY <1>4, <1>5

LEMMA ReversePaymentAgrees ==
  ASSUME BankTypeOK, PaymentsJoined, LinesAgreeWithTheBooks, NEW y \in payments,
         ReversePayment(y), NEW s \in Rows, Made(s)
  PROVE  Agrees(s)'
<1> DEFINE new == [y EXCEPT !.reversed = TRUE]
           r == y.line
<1>1. /\ y \in Payment /\ r \in Rows /\ Made(r)
      /\ new.line = r /\ new.reversed = TRUE
  BY DEF BankTypeOK, Payment, PaymentsJoined
<1>2. /\ ~y.reversed /\ ~lines[r].agreed /\ imports' = imports
      /\ payments' = (payments \ {y}) \cup {new}
      /\ lines' = [lines EXCEPT ![r] = [lines[r] EXCEPT !.status = "unclassified",
                                                         !.entry = "none"]]
  BY DEF ReversePayment, MayReverse
<1> HIDE DEF new, r
<1>3. Agrees(s) /\ Agrees(r) /\ lines[r] \in Line /\ lines \in [Rows -> Line \cup {NoLine}]
  BY <1>1, AgreesMeans, RowIsALine DEF BankTypeOK, StatementsTypeOK
<1>4. (\E z \in payments : z.line = s) => \E z \in payments' : z.line = s
  BY <1>1, <1>2 DEF r
<1>5. y.line = r  BY DEF r
<1>6. CASE s = r
  <2>1. /\ lines'[r].status = "unclassified" /\ lines'[r].entry = "none"
        /\ lines'[r].agreed = lines[r].agreed
    BY <1>2, <1>3, <1>1 DEF Line
  <2>2. y \in Standing(r)  BY <1>2, <1>5 DEF Standing
  <2>3. Standing(r) = {y}  BY <1>3, <2>2 DEF Agrees
  <2>4. Standing(r)' = {}  BY <1>1, <1>2, <2>3 DEF Standing
  <2>5. \E z \in payments' : z.line = s  BY <1>1, <1>2, <1>6
  <2> QED  BY <1>2, <1>6, <2>1, <2>4, <2>5 DEF Agrees
<1>7. CASE s # r
  <2>1. lines'[s] = lines[s]  BY <1>2, <1>3, <1>7
  <2>2. Standing(s)' = Standing(s)  BY <1>1, <1>2, <1>5, <1>7 DEF Standing
  <2> QED  BY <1>2, <1>3, <1>4, <2>1, <2>2, Untouched
<1> QED  BY <1>6, <1>7

LEMMA ReconciliationAgrees ==
  ASSUME BankTypeOK, LinesAgreeWithTheBooks, NEW period, CompleteReconciliation(period),
         NEW s \in Rows, Made(s)
  PROVE  Agrees(s)'
<1>1. Agrees(s) /\ lines[s] \in Line
  BY AgreesMeans, RowIsALine DEF BankTypeOK
<1>2. /\ imports' = imports /\ payments' = payments
      /\ \/ lines'[s] = lines[s]
         \/ /\ lines[s].status = "posted"
            /\ lines'[s] = [lines[s] EXCEPT !.status = "reconciled", !.agreed = TRUE]
  BY DEF CompleteReconciliation
<1>3. Standing(s)' = Standing(s)  BY <1>2 DEF Standing
<1>4. CASE lines'[s] = lines[s]  BY <1>1, <1>2, <1>3, <1>4, Untouched
<1>5. CASE /\ lines[s].status = "posted"
           /\ lines'[s] = [lines[s] EXCEPT !.status = "reconciled", !.agreed = TRUE]
  <2>1. /\ lines'[s].status = "reconciled" /\ lines'[s].entry = lines[s].entry
        /\ lines'[s].import = lines[s].import
    BY <1>1, <1>5 DEF Line
  <2> QED  BY <1>1, <1>2, <1>3, <1>5, <2>1 DEF Agrees
<1> QED  BY <1>2, <1>4, <1>5

LEMMA OtherStepAgrees ==
  ASSUME BankTypeOK, LinesAgreeWithTheBooks, UNCHANGED <<imports, lines, payments>>,
         NEW s \in Rows, Made(s)
  PROVE  Agrees(s)'
<1>1. Agrees(s)  BY AgreesMeans
<1>2. Standing(s)' = Standing(s)  BY DEF Standing
<1> QED  BY <1>1, <1>2, Untouched

LEMMA PostingStepAgrees ==
  ASSUME BankTypeOK, PaymentsJoined, LinesAgreeWithTheBooks, PostingStep,
         NEW s \in Rows, Made(s)
  PROVE  Agrees(s)'
<1>1. \A r \in Rows : Made(r) => Agrees(r)  BY AgreesMeans
<1>2. ASSUME NEW r \in Rows, PostLine(r)  PROVE Agrees(s)'
  <2>1. /\ Made(r) /\ Post(r, "own") /\ lines[r].status # "rolled_back"
        /\ lines[r].entry = "none" /\ imports' = imports /\ payments' = payments
    BY <1>2 DEF PostLine, InTheBooks
  <2>2. Standing(r) = {}  BY <1>1, <2>1 DEF Agrees
  <2> QED  BY <2>1, <2>2, PostOwnAgrees
<1>3. ASSUME NEW r \in Rows, ReclassifyTransaction(r)  PROVE Agrees(s)'
  <2>1. /\ lines[r].entry # "none" /\ Post(r, "own") /\ Standing(r) = {}
        /\ imports' = imports /\ payments' = payments
    BY <1>3 DEF ReclassifyTransaction
  <2>2. Made(r)  BY <2>1, RowIsALine DEF NoLine, BankTypeOK
  <2>3. lines[r].status # "rolled_back"  BY <1>1, <2>1, <2>2 DEF Agrees
  <2> QED  BY <2>1, <2>2, <2>3, PostOwnAgrees
<1>4. ASSUME NEW r \in Rows, NEW invoices, RecordPayment(r, invoices)  PROVE Agrees(s)'
  BY <1>4, PayAgrees DEF RecordPayment
<1>5. ASSUME NEW r \in Rows, NEW invoices, SettleBankTransaction(r, invoices)
      PROVE  Agrees(s)'
  BY <1>5, PayAgrees DEF SettleBankTransaction
<1>6. ASSUME NEW y \in payments, ReversePayment(y)  PROVE Agrees(s)'
  BY <1>6, ReversePaymentAgrees
<1>7. ASSUME NEW period, CompleteReconciliation(period)  PROVE Agrees(s)'
  BY <1>7, ReconciliationAgrees
<1>8. \A r \in Rows : ClassifyTransaction(r) => PostLine(r)  BY DEF ClassifyTransaction
<1>9. ASSUME NEW d \in Docs, VoidInvoice(d)  PROVE Agrees(s)'
  BY <1>9, OtherStepAgrees DEF VoidInvoice
<1> QED  BY <1>2, <1>3, <1>4, <1>5, <1>6, <1>7, <1>8, <1>9 DEF PostingStep

LEMMA MatchingLeaves ==
  ASSUME MatchingStep  PROVE UNCHANGED <<imports, lines, reading, payments>>
BY DEF MatchingStep, FindMatches, UnmatchDocument, AcceptMatch, LinkDocument, RejectMatch,
       WithdrawMatchRejection

LEMMA RetiringLeaves ==
  ASSUME RetiringStep  PROVE UNCHANGED <<imports, lines, reading, payments>>
BY DEF RetiringStep, ArchiveDocument, DeleteDocument

LEMMA BankStepAgrees ==
  ASSUME BankTypeOK, BankTypeOK', PaymentsJoined, LinesAgreeWithTheBooks, BankStep
  PROVE  LinesAgreeWithTheBooks'
<1>1. CASE StatementsStep /\ UNCHANGED <<docs, matches, payments>>
  BY <1>1, StatementsStepAgrees DEF BankTypeOK
<1>2. ASSUME NoLineMade, \A s \in Rows : Made(s) => Agrees(s)'
      PROVE  LinesAgreeWithTheBooks'
  BY <1>2, MadeStays, AgreesMeans
<1>3. CASE \E i \in DOMAIN imports : RollbackStatementImport(i)
  BY <1>2, <1>3, LinesStay, RollbackAgrees
<1>4. CASE DocumentsStep /\ UNCHANGED <<imports, lines, reading, matches, payments>>
  BY <1>2, <1>4, LinesStay, OtherStepAgrees
<1>5. CASE MatchingStep  BY <1>2, <1>5, LinesStay, MatchingLeaves, OtherStepAgrees
<1>6. CASE PostingStep  BY <1>2, <1>6, LinesStay, PostingStepAgrees
<1>7. CASE RetiringStep  BY <1>2, <1>7, LinesStay, RetiringLeaves, OtherStepAgrees
<1> QED  BY <1>1, <1>3, <1>4, <1>5, <1>6, <1>7 DEF BankStep
------------------------------------------------------------------------------
(* Documents and what uses them *)

\* Only an invoice that was posted is paid.
InvoicesJoined == \A y \in payments : ~y.reversed => \A d \in y.invoices : docs[d].invoiced

\* What WhatIsUsedIsConfirmed says of one document.
Sound(d) == /\ InUse(d) => Confirmed(d)
            /\ Confirmed(d) => OnFile(d) /\ docs[d].values = "person"

MatchesOnFile == \A m \in matches : OnFile(m.doc)

\* What a step does to the documents: those it does not touch stay, and the
\* one it touches stays sound and keeps its invoice.
Soundly(d) == (Sound(d) => Sound(d)') /\ (docs[d].invoiced => docs'[d].invoiced)

LEMMA SoundMeans ==
  /\ WhatIsUsedIsConfirmed <=> (\A d \in Docs : Sound(d)) /\ MatchesOnFile
  /\ WhatIsUsedIsConfirmed' <=> (\A d \in Docs : Sound(d)') /\ MatchesOnFile'
BY DEF WhatIsUsedIsConfirmed, Sound, MatchesOnFile

LEMMA SameDocument ==
  ASSUME NEW d, docs'[d] = docs[d]  PROVE Soundly(d)
BY DEF Soundly, Sound, InUse, Linked, Confirmed, OnFile

LEMMA LinkSoundly ==
  ASSUME docs \in [Docs -> Document(Links)], NEW d \in Docs, NEW to, Link(d, to),
         Confirmed(d) \/ to = Unlinked, NEW e \in Docs
  PROVE  Soundly(e)
<1>1. CASE e = d
  <2>1. docs[d] \in Document(Links) /\ docs' = [docs EXCEPT ![d].link = to]  BY DEF Link
  <2>2. /\ docs'[d].review = docs[d].review /\ docs'[d].values = docs[d].values
        /\ docs'[d].kept = docs[d].kept /\ docs'[d].invoiced = docs[d].invoiced /\ docs'[d].link = to
    BY <2>1 DEF Document
  <2> QED  BY <1>1, <2>2 DEF Soundly, Sound, InUse, Linked, Confirmed, OnFile
<1>2. CASE e # d
  <2>1. docs'[e] = docs[e]  BY <1>2 DEF Link
  <2> QED  BY <2>1, SameDocument
<1> QED  BY <1>1, <1>2

LEMMA DocumentsStepSoundly ==
  ASSUME docs \in [Docs -> Document(Links)], DocumentsStep, NEW e \in Docs
  PROVE  Soundly(e)
<1> USE DEF Document
<1>1. PICK d \in Docs : \/ BeginReading(d) \/ EndReading(d) \/ ReadText(d)
                        \/ ConfirmDocument(d) \/ RejectDocument(d) \/ ReopenDocument(d)
                        \/ PostInvoice(d) \/ RestoreDocument(d)
  BY DEF DocumentsStep
<1>2. CASE e # d
  <2>1. docs'[e] = docs[e]
    BY <1>1, <1>2 DEF BeginReading, EndReading, ReadText, ConfirmDocument, RejectDocument,
                      ReopenDocument, PostInvoice, RestoreDocument
  <2> QED  BY <2>1, SameDocument
<1> SUFFICES ASSUME e = d  PROVE Soundly(d)  BY <1>2
<1>3. docs[d] \in Document(Links)  OBVIOUS
<1>4. CASE BeginReading(d)
  <2>1. /\ docs'[d].review = docs[d].review /\ docs'[d].values = docs[d].values
        /\ docs'[d].kept = docs[d].kept /\ docs'[d].invoiced = docs[d].invoiced /\ docs'[d].link = docs[d].link
    BY <1>3, <1>4 DEF BeginReading
  <2> QED  BY <2>1 DEF Soundly, Sound, InUse, Linked, Confirmed, OnFile
<1>5. CASE EndReading(d)
  <2> DEFINE Kept(failed) == failed \/ docs[d].reading = "asked_confirmed" \/ DraftRefused(d)
  <2>1. PICK failed \in BOOLEAN :
          docs' = [docs EXCEPT ![d].reading = "none",
                               ![d].values = IF Kept(failed) THEN @ ELSE "draft"]
    BY <1>5 DEF EndReading
  <2>2. Confirmed(d) => Kept(failed)  BY DEF DraftRefused
  <2> HIDE DEF Kept
  <2>3. /\ docs'[d].review = docs[d].review
        /\ docs'[d].values = IF Kept(failed) THEN docs[d].values ELSE "draft"
        /\ docs'[d].kept = docs[d].kept /\ docs'[d].invoiced = docs[d].invoiced /\ docs'[d].link = docs[d].link
    BY <1>3, <2>1
  <2> QED  BY <2>2, <2>3 DEF Soundly, Sound, InUse, Linked, Confirmed, OnFile
<1>6. CASE ReadText(d)
  <2>1. /\ docs'[d].review = docs[d].review
        /\ docs'[d].values = IF Confirmed(d) THEN docs[d].values ELSE "draft"
        /\ docs'[d].kept = docs[d].kept /\ docs'[d].invoiced = docs[d].invoiced /\ docs'[d].link = docs[d].link
    BY <1>3, <1>6 DEF ReadText
  <2> QED  BY <2>1 DEF Soundly, Sound, InUse, Linked, Confirmed, OnFile
<1>7. CASE ConfirmDocument(d)
  <2>1. /\ docs'[d].review = "confirmed" /\ docs'[d].values = "person"
        /\ docs'[d].kept = docs[d].kept /\ docs'[d].invoiced = docs[d].invoiced
          /\ OnFile(d)
    BY <1>3, <1>7 DEF ConfirmDocument
  <2> QED  BY <2>1 DEF Soundly, Sound, Confirmed, OnFile
<1>8. CASE RejectDocument(d)
  <2>1. /\ docs'[d].review = "rejected" /\ ~InUse(d)
        /\ docs'[d].kept = docs[d].kept /\ docs'[d].invoiced = docs[d].invoiced /\ docs'[d].link = docs[d].link
    BY <1>3, <1>8 DEF RejectDocument
  <2> QED  BY <2>1 DEF Soundly, Sound, InUse, Linked, Confirmed, OnFile
<1>9. CASE ReopenDocument(d)
  <2>1. /\ docs'[d].review = "unreviewed" /\ ~InUse(d)
        /\ docs'[d].kept = docs[d].kept /\ docs'[d].invoiced = docs[d].invoiced /\ docs'[d].link = docs[d].link
    BY <1>3, <1>9 DEF ReopenDocument
  <2> QED  BY <2>1 DEF Soundly, Sound, InUse, Linked, Confirmed, OnFile
<1>10. CASE PostInvoice(d)
  <2>1. /\ docs'[d].review = docs[d].review /\ docs'[d].values = docs[d].values
        /\ docs'[d].invoiced = TRUE /\ docs'[d].kept = docs[d].kept /\ Confirmed(d)
    BY <1>3, <1>10 DEF PostInvoice
  <2> QED  BY <2>1 DEF Soundly, Sound, Confirmed, OnFile
<1>11. CASE RestoreDocument(d)
  <2>1. /\ docs'[d].review = docs[d].review /\ docs'[d].values = docs[d].values
        /\ docs'[d].invoiced = docs[d].invoiced /\ docs'[d].link = docs[d].link
        /\ docs'[d].kept = "filed"
    BY <1>3, <1>11 DEF RestoreDocument
  <2> QED  BY <2>1 DEF Soundly, Sound, InUse, Linked, Confirmed, OnFile
<1> QED  BY <1>1, <1>4, <1>5, <1>6, <1>7, <1>8, <1>9, <1>10, <1>11

LEMMA MatchingStepSoundly ==
  ASSUME docs \in [Docs -> Document(Links)], MatchingStep, NEW e \in Docs
  PROVE  Soundly(e)
<1>1. ASSUME NEW d \in Docs, FindMatches(d)  PROVE Soundly(e)
  <2>1. docs' = docs \/ \E r : Link(d, r)
    <3> DEFINE Linking(accepted) ==
                 IF accepted = {} THEN UNCHANGED docs ELSE \E r \in accepted : Link(d, r)
    <3>1. \E candidates \in SUBSET Eligible(d) :
            \E accepted \in {{}} \cup {{r} : r \in candidates} : Linking(accepted)
      BY <1>1 DEF FindMatches
    <3> QED  BY <3>1
  <2>2. Confirmed(d)  BY <1>1 DEF FindMatches
  <2> QED  BY <2>1, <2>2, LinkSoundly, SameDocument
<1>2. ASSUME NEW d \in Docs, UnmatchDocument(d)  PROVE Soundly(e)
  BY <1>2, LinkSoundly DEF UnmatchDocument
<1>3. ASSUME NEW d \in Docs, NEW r, AcceptMatch(d, r) \/ LinkDocument(d, r)
      PROVE  Soundly(e)
  BY <1>3, LinkSoundly DEF AcceptMatch, LinkDocument
<1>4. ASSUME docs' = docs  PROVE Soundly(e)  BY <1>4, SameDocument
<1> QED  BY <1>1, <1>2, <1>3, <1>4 DEF MatchingStep, RejectMatch, WithdrawMatchRejection

LEMMA PostingStepSoundly ==
  ASSUME docs \in [Docs -> Document(Links)], PostingStep, NEW e \in Docs
  PROVE  Soundly(e)
<1>1. ASSUME NEW r \in Rows, NEW invoices, SettleBankTransaction(r, invoices)
      PROVE  Soundly(e)
  <2>1. /\ docs'[e] = IF e \in invoices /\ ~Linked(e)
                      THEN [docs[e] EXCEPT !.link = r] ELSE docs[e]
        /\ e \in invoices => Confirmed(e)
    BY <1>1 DEF SettleBankTransaction
  <2>2. CASE docs'[e] = docs[e]  BY <2>2, SameDocument
  <2>3. CASE Confirmed(e) /\ docs'[e] = [docs[e] EXCEPT !.link = r]
    <3>1. /\ docs'[e].review = docs[e].review /\ docs'[e].values = docs[e].values
          /\ docs'[e].kept = docs[e].kept /\ docs'[e].invoiced = docs[e].invoiced
      BY <2>3 DEF Document
    <3> QED  BY <2>3, <3>1 DEF Soundly, Sound, Confirmed, OnFile
  <2> QED  BY <2>1, <2>2, <2>3
<1>2. ASSUME docs' = docs  PROVE Soundly(e)  BY <1>2, SameDocument
<1>3. ASSUME NEW d \in Docs, VoidInvoice(d)  PROVE Soundly(e)
  <2>1. /\ docs'[e].review = docs[e].review /\ docs'[e].values = docs[e].values
        /\ docs'[e].kept = docs[e].kept /\ docs'[e].invoiced = docs[e].invoiced
        /\ docs'[e].link = docs[e].link
    BY <1>3 DEF VoidInvoice, Document
  <2> QED  BY <2>1 DEF Soundly, Sound, InUse, Linked, Confirmed, OnFile
<1> QED  BY <1>1, <1>2, <1>3
         DEF PostingStep, PostLine, ClassifyTransaction, ReclassifyTransaction, RecordPayment,
             ReversePayment, CompleteReconciliation

LEMMA RetiringStepSoundly ==
  ASSUME docs \in [Docs -> Document(Links)], RetiringStep, NEW e \in Docs
  PROVE  Soundly(e)
<1>1. ASSUME NEW d \in Docs, ArchiveDocument(d)  PROVE Soundly(e)
  <2>1. /\ docs'[e].review = docs[e].review /\ docs'[e].values = docs[e].values
        /\ docs'[e].invoiced = docs[e].invoiced /\ docs'[e].link = docs[e].link
        /\ OnFile(e) => docs'[e].kept # "deleted"
    BY <1>1 DEF ArchiveDocument, Document, OnFile
  <2> QED  BY <2>1 DEF Soundly, Sound, InUse, Linked, Confirmed, OnFile
<1>2. ASSUME NEW d \in Docs, DeleteDocument(d)  PROVE Soundly(e)
  <2>1. CASE e = d
    <3>1. /\ docs'[d].review = "unreviewed" /\ docs'[d].invoiced = docs[d].invoiced
          /\ docs'[d].link = docs[d].link /\ ~InUse(d)
      BY <1>2 DEF DeleteDocument, DependedOn, Document
    <3> QED  BY <2>1, <3>1 DEF Soundly, Sound, InUse, Linked, Confirmed
  <2>2. CASE e # d
    <3>1. docs'[e] = docs[e]  BY <1>2, <2>2 DEF DeleteDocument
    <3> QED  BY <3>1, SameDocument
  <2> QED  BY <2>1, <2>2
<1> QED  BY <1>1, <1>2 DEF RetiringStep

LEMMA BankStepSoundly ==
  ASSUME BankTypeOK, BankStep, NEW e \in Docs  PROVE Soundly(e)
<1>1. docs \in [Docs -> Document(Links)]  BY DEF BankTypeOK
<1>2. docs' = docs => Soundly(e)  BY SameDocument
<1> QED  BY <1>1, <1>2, DocumentsStepSoundly, MatchingStepSoundly, PostingStepSoundly,
            RetiringStepSoundly
         DEF BankStep, RollbackStatementImport

\* How payments come about: one at a time, against a line there is and for
\* invoices that were posted; or one that stood is reversed.
LEMMA PaymentsStep ==
  ASSUME BankTypeOK, BankStep
  PROVE  \/ payments' = payments
         \/ \E r \in Rows, invoices \in SUBSET Docs :
              /\ Made(r) /\ \A d \in invoices : docs[d].invoiced
              /\ payments' = payments \cup
                   {[line |-> r, invoices |-> invoices, reversed |-> FALSE]}
         \/ \E y \in payments : payments' = (payments \ {y}) \cup {[y EXCEPT !.reversed = TRUE]}
<1>1. ASSUME NEW r \in Rows, NEW invoices \in (SUBSET Docs) \ {{}}, Pay(r, invoices)
      PROVE  \E t \in Rows, u \in SUBSET Docs :
               /\ Made(t) /\ \A d \in u : docs[d].invoiced
               /\ payments' = payments \cup {[line |-> t, invoices |-> u, reversed |-> FALSE]}
  BY <1>1 DEF Pay
<1>2. CASE PostingStep
  BY <1>1, <1>2 DEF PostingStep, PostLine, ClassifyTransaction, ReclassifyTransaction,
       RecordPayment, SettleBankTransaction, ReversePayment, VoidInvoice,
       CompleteReconciliation
<1>3. CASE MatchingStep  BY <1>3, MatchingLeaves
<1>4. CASE RetiringStep  BY <1>4, RetiringLeaves
<1> QED  BY <1>2, <1>3, <1>4 DEF BankStep, RollbackStatementImport

\* What a step does to the documents on file, and where matches come from.
LEMMA OnFileStays ==
  ASSUME BankTypeOK, BankStep, NEW e \in Docs, OnFile(e), ~OnFile(e)'
  PROVE  DeleteDocument(e)
<1>1. docs \in [Docs -> Document(Links)] /\ docs[e] \in Document(Links)  BY DEF BankTypeOK
<1>2. docs' # docs  BY DEF OnFile
<1>3. ~\E d \in Docs : \E to : Link(d, to)  BY <1>1 DEF Link, OnFile, Document
<1>4. ~DocumentsStep
  <2> SUFFICES ASSUME NEW d \in Docs,
                      \/ BeginReading(d) \/ EndReading(d) \/ ReadText(d)
                      \/ ConfirmDocument(d) \/ RejectDocument(d) \/ ReopenDocument(d)
                      \/ PostInvoice(d) \/ RestoreDocument(d)
               PROVE  FALSE
    BY DEF DocumentsStep
  <2>1. ~EndReading(d)  BY <1>1 DEF EndReading, OnFile, Document
  <2> QED  BY <1>1, <2>1
           DEF BeginReading, ReadText, ConfirmDocument, RejectDocument, ReopenDocument,
               PostInvoice, RestoreDocument, OnFile, Document
<1>5. ~MatchingStep
  <2>1. ASSUME NEW d \in Docs, FindMatches(d)  PROVE FALSE
    <3> DEFINE Linking(accepted) ==
                 IF accepted = {} THEN UNCHANGED docs ELSE \E r \in accepted : Link(d, r)
    <3>1. \E candidates \in SUBSET Eligible(d) :
            \E accepted \in {{}} \cup {{r} : r \in candidates} : Linking(accepted)
      BY <2>1 DEF FindMatches
    <3> QED  BY <1>2, <1>3, <3>1
  <2> QED  BY <1>2, <1>3, <2>1
           DEF MatchingStep, UnmatchDocument, AcceptMatch, LinkDocument, RejectMatch,
               WithdrawMatchRejection
<1>6. ~PostingStep
  <2>1. ASSUME NEW r \in Rows, NEW invoices, SettleBankTransaction(r, invoices)  PROVE FALSE
    BY <1>1, <2>1 DEF SettleBankTransaction, OnFile, Document
  <2>2. ASSUME NEW d \in Docs, VoidInvoice(d)  PROVE FALSE
    BY <1>1, <2>2 DEF VoidInvoice, OnFile, Document
  <2> QED  BY <1>2, <2>1, <2>2
           DEF PostingStep, PostLine, ClassifyTransaction, ReclassifyTransaction,
               RecordPayment, ReversePayment, CompleteReconciliation
<1>7. RetiringStep  BY <1>2, <1>4, <1>5, <1>6 DEF BankStep, RollbackStatementImport
<1>8. PICK d \in Docs : ArchiveDocument(d) \/ DeleteDocument(d)  BY <1>7 DEF RetiringStep
<1>9. ~ArchiveDocument(d)  BY <1>1 DEF ArchiveDocument, OnFile, Document
<1>10. e = d  BY <1>1, <1>8, <1>9 DEF DeleteDocument, OnFile
<1> QED  BY <1>8, <1>9, <1>10

LEMMA DecidedDocs ==
  ASSUME NEW records \in SUBSET Match, NEW decision, NEW m \in Decided(records, decision)
  PROVE  \E n \in records : n.doc = m.doc
BY DEF Decided, Match

\* What is recorded of a match after a step is of a document of which there was
\* a record, or of one that is confirmed.
Known(d) == (\E n \in matches : n.doc = d) \/ (d \in Docs /\ Confirmed(d))

LEMMA MatchesCome ==
  ASSUME BankTypeOK, BankStep, NEW m \in matches'
  PROVE  Known(m.doc)
<1>1. matches \in SUBSET Match  BY DEF BankTypeOK
<1>2. ASSUME NEW records \in SUBSET matches, NEW decision, m \in Decided(records, decision)
      PROVE  Known(m.doc)
  BY <1>1, <1>2, DecidedDocs DEF Known
<1>3. m \in matches => Known(m.doc)  BY DEF Known
<1>4. ASSUME NEW d \in Docs, FindMatches(d)  PROVE Known(m.doc)
  <2>1. Confirmed(d) => Known(d)  BY DEF Known
  <2>2. Pending(d) \in SUBSET matches  BY DEF Pending
  <2> QED  BY <1>2, <1>3, <1>4, <2>1, <2>2 DEF FindMatches
<1>5. ASSUME NEW d \in Docs, NEW r \in Rows,
             \/ AcceptMatch(d, r) \/ LinkDocument(d, r) \/ RejectMatch(d, r)
             \/ WithdrawMatchRejection(d, r)
      PROVE  Known(m.doc)
  <2>1. Confirmed(d) => Known(d)  BY DEF Known
  <2>2. /\ Pending(d) \in SUBSET matches /\ OfPair(d, r) \in SUBSET matches
        /\ Pending(d) \ OfPair(d, r) \in SUBSET matches
        /\ {n \in OfPair(d, r) : n.decision = "refused"} \in SUBSET matches
    BY DEF Pending, OfPair
  <2>3. CASE AcceptMatch(d, r)  BY <1>2, <1>3, <2>2, <2>3 DEF AcceptMatch
  <2>4. CASE LinkDocument(d, r)  BY <1>2, <1>3, <2>1, <2>2, <2>4 DEF LinkDocument
  <2>5. CASE RejectMatch(d, r)  BY <1>2, <1>3, <2>2, <2>5 DEF RejectMatch
  <2>6. CASE WithdrawMatchRejection(d, r)
    BY <1>2, <1>3, <2>2, <2>6 DEF WithdrawMatchRejection
  <2> QED  BY <1>5, <2>3, <2>4, <2>5, <2>6
<1>6. CASE MatchingStep  BY <1>3, <1>4, <1>5, <1>6 DEF MatchingStep, UnmatchDocument
<1>7. ASSUME NEW r \in Rows, NEW invoices, SettleBankTransaction(r, invoices)
      PROVE  Known(m.doc)
  <2> DEFINE pending == UNION {Pending(d) : d \in invoices}
             here == {n \in pending : n.line = r}
  <2>1. matches' = (matches \ pending) \cup Decided(here, "accepted")
                   \cup Decided(pending \ here, "past")
    BY <1>7 DEF SettleBankTransaction
  <2>2. pending \in SUBSET matches  BY DEF Pending
  <2>3. here \in SUBSET matches /\ pending \ here \in SUBSET matches  BY <2>2
  <2> HIDE DEF pending, here
  <2> QED  BY <1>2, <1>3, <2>1, <2>3
<1>8. CASE PostingStep
  BY <1>3, <1>7, <1>8
     DEF PostingStep, PostLine, ClassifyTransaction, ReclassifyTransaction, RecordPayment,
         ReversePayment, VoidInvoice, CompleteReconciliation
<1>9. CASE RetiringStep
  BY <1>3, <1>9 DEF RetiringStep, ArchiveDocument, DeleteDocument
<1>10. ASSUME NEW i \in DOMAIN imports, RollbackStatementImport(i)  PROVE Known(m.doc)
  <2> DEFINE pending == {n \in matches : n.line \in LinesOf(i) /\ n.decision = "pending"}
  <2>1. matches' = (matches \ pending) \cup Decided(pending, "past")
    BY <1>10 DEF RollbackStatementImport
  <2>2. pending \in SUBSET matches  OBVIOUS
  <2> HIDE DEF pending
  <2> QED  BY <1>2, <1>3, <2>1, <2>2
<1> QED  BY <1>3, <1>6, <1>8, <1>9, <1>10 DEF BankStep

LEMMA BankStepOnFile ==
  ASSUME BankTypeOK, BankStep, MatchesOnFile, \A d \in Docs : Sound(d)
  PROVE  MatchesOnFile'
<1> SUFFICES ASSUME NEW m \in matches'  PROVE OnFile(m.doc)'  BY DEF MatchesOnFile
<1>1. m.doc \in Docs /\ OnFile(m.doc)
  <2>1. Known(m.doc)  BY MatchesCome
  <2> QED  BY <2>1 DEF Known, Sound, MatchesOnFile, BankTypeOK, Match
<1>2. ASSUME ~OnFile(m.doc)'  PROVE FALSE
  <2>1. DeleteDocument(m.doc)  BY <1>1, <1>2, OnFileStays
  <2> QED  BY <2>1 DEF DeleteDocument
<1> QED  BY <1>2

LEMMA BankStepJoins ==
  ASSUME BankTypeOK, BankStep, PaymentsJoined, InvoicesJoined,
         \A r \in Rows : Made(r) => Made(r)'
  PROVE  PaymentsJoined' /\ InvoicesJoined'
<1>1. /\ \A d \in Docs : docs[d].invoiced => docs'[d].invoiced
      /\ \A y \in payments : y.line \in Rows /\ y.invoices \subseteq Docs
  BY BankStepSoundly DEF Soundly, BankTypeOK, Payment
<1>2. ASSUME NEW z \in payments'
      PROVE  \/ z \in payments
             \/ \E r \in Rows, invoices \in SUBSET Docs :
                  /\ Made(r) /\ \A d \in invoices : docs[d].invoiced
                  /\ z.line = r /\ z.invoices = invoices
             \/ \E y \in payments : z.line = y.line /\ z.reversed = TRUE
  <2>1. CASE \E r \in Rows, invoices \in SUBSET Docs :
               /\ Made(r) /\ \A d \in invoices : docs[d].invoiced
               /\ payments' = payments \cup
                    {[line |-> r, invoices |-> invoices, reversed |-> FALSE]}
    BY <2>1
  <2>2. CASE \E y \in payments : payments' = (payments \ {y}) \cup {[y EXCEPT !.reversed = TRUE]}
    <3>1. PICK y \in payments : payments' = (payments \ {y}) \cup {[y EXCEPT !.reversed = TRUE]}
      BY <2>2
    <3>2. z \in payments \/ z = [y EXCEPT !.reversed = TRUE]  BY <3>1
    <3>3. y \in Payment  BY DEF BankTypeOK
    <3> QED  BY <3>2, <3>3 DEF Payment
  <2> QED  BY <2>1, <2>2, PaymentsStep
<1>3. ASSUME NEW z \in payments'  PROVE Made(z.line)'
  BY <1>1, <1>2 DEF PaymentsJoined
<1>4. ASSUME NEW z \in payments', ~z.reversed, NEW d \in z.invoices  PROVE docs'[d].invoiced
  BY <1>1, <1>2, <1>4 DEF InvoicesJoined
<1> QED  BY <1>3, <1>4 DEF PaymentsJoined, InvoicesJoined
------------------------------------------------------------------------------
(* The inductive invariant *)

BankInv ==
  /\ BankTypeOK
  /\ PaymentsJoined
  /\ InvoicesJoined
  /\ NumbersInv
  /\ LinesAgreeWithTheBooks
  /\ WhatIsUsedIsConfirmed

LEMMA BankInvInit == BankInit => BankInv
<1> SUFFICES ASSUME BankInit  PROVE BankInv  OBVIOUS
<1>1. BankTypeOK  BY BankInitType
<1>2. PaymentsJoined /\ InvoicesJoined  BY DEF BankInit, PaymentsJoined, InvoicesJoined
<1>3. \A r \in Rows : ~Made(r)  BY DEF BankInit, StatementsInit, Made
<1>4. NumbersInv
  <2>1. \A p \in Prints : NumbersOf(p) = {}  BY <1>3 DEF NumbersOf, Rows
  <2> QED  BY <2>1 DEF NumbersInv, RunsOn
<1>5. LinesAgreeWithTheBooks  BY <1>3, AgreesMeans
<1>6. WhatIsUsedIsConfirmed
  BY DEF BankInit, DocumentsInit, WhatIsUsedIsConfirmed, InUse, Linked, Confirmed
<1> QED  BY <1>1, <1>2, <1>4, <1>5, <1>6 DEF BankInv

LEMMA BankInvStep == BankInv /\ [BankNext]_bankVars => BankInv'
<1> SUFFICES ASSUME BankInv, [BankNext]_bankVars  PROVE BankInv'  OBVIOUS
<1>1. CASE UNCHANGED bankVars
  <2>1. BankTypeOK'  BY <1>1 DEF BankInv, BankTypeOK, StatementsTypeOK, bankVars
  <2>2. PaymentsJoined' /\ InvoicesJoined' /\ NumbersInv'
    BY <1>1 DEF BankInv, PaymentsJoined, InvoicesJoined, NumbersInv, RunsOn, NumbersOf, Made,
                bankVars
  <2>3. LinesAgreeWithTheBooks' /\ WhatIsUsedIsConfirmed'
    BY <1>1 DEF BankInv, LinesAgreeWithTheBooks, LinesMade, Made, Standing,
                WhatIsUsedIsConfirmed, InUse, Linked, Confirmed, OnFile, bankVars
  <2> QED  BY <2>1, <2>2, <2>3 DEF BankInv
<1>2. CASE BankStep
  <2>1. BankTypeOK'  BY <1>2, BankStepType DEF BankInv
  <2>2. NumbersInv' /\ \A r \in Rows : Made(r) => Made(r)'
    <3>1. CASE StatementsStep /\ UNCHANGED <<docs, matches, payments>>
      <4>1. StatementsTypeOK  BY DEF BankInv, BankTypeOK
      <4>2. NumbersInv'  BY <3>1, <4>1, StatementsStepNumbers DEF BankInv
      <4>3. \A q \in Requests : FinishWorkbook(q) => reading[q] \in Files /\ TakeIn(reading[q])
        BY <4>1 DEF FinishWorkbook, StatementsTypeOK
      <4>4. \A r \in Rows : Made(r) => Made(r)'
        BY <3>1, <4>1, <4>3, ImportMakes, TypingMakes
           DEF StatementsStep, ImportStatement, BeginWorkbook, AbandonWorkbook, Made
      <4> QED  BY <4>2, <4>4
    <3>2. CASE ~(StatementsStep /\ UNCHANGED <<docs, matches, payments>>)
      <4>1. NoLineMade  BY <1>2, <3>2, LinesStay DEF BankStep, BankInv
      <4>2. \A r \in Rows : Made(r)' <=> Made(r)  BY <2>1, <4>1, MadeStays DEF BankInv
      <4>3. \A p \in Prints : NumbersOf(p)' = NumbersOf(p)
        BY <4>2 DEF NumbersOf, Rows
      <4> QED  BY <4>2, <4>3 DEF BankInv, NumbersInv, RunsOn
    <3> QED  BY <3>1, <3>2
  <2>3. PaymentsJoined' /\ InvoicesJoined'  BY <1>2, <2>2, BankStepJoins DEF BankInv
  <2>4. LinesAgreeWithTheBooks'  BY <1>2, <2>1, BankStepAgrees DEF BankInv
  <2>5. WhatIsUsedIsConfirmed'
    <3>1. (\A d \in Docs : Sound(d)) /\ MatchesOnFile  BY SoundMeans DEF BankInv
    <3>2. \A d \in Docs : Sound(d)'  BY <1>2, <3>1, BankStepSoundly DEF BankInv, Soundly
    <3>3. MatchesOnFile'  BY <1>2, <3>1, BankStepOnFile DEF BankInv
    <3> QED  BY <3>2, <3>3, SoundMeans
  <2> QED  BY <2>1, <2>2, <2>3, <2>4, <2>5 DEF BankInv
<1> QED  BY <1>1, <1>2 DEF BankNext

\* The inductive invariant: types, payments against lines there are and for
\* invoices that were posted, numbers without a gap, lines that agree with the
\* books, and documents used as they were confirmed (all of the actions).
THEOREM BankInvariant == BankSpec => []BankInv
BY BankInvInit, BankInvStep, PTL DEF BankSpec

\* Types: a line that was imported has a status of its own and an import that
\* was made, and a payment is recorded against a line (all of the actions).
THEOREM BankTypeInvariant == BankSpec => []BankTypeOK
<1>1. BankInv => BankTypeOK  BY DEF BankInv
<1> QED  BY <1>1, BankInvariant, PTL

\* The numbers of a print run from 0 without a gap, whatever is imported,
\* typed in and undone (import.ts skipRolledBackIndices,
\* recordManualTransaction).
THEOREM NumbersAlwaysRunOn == BankSpec => []NumbersRunOn
<1>1. BankInv => NumbersRunOn  BY NumbersInvMeans DEF BankInv
<1> QED  BY <1>1, BankInvariant, PTL

\* What a line says of itself is what the books and its import hold
\* (classify.ts, settle.ts, payments.ts, reversal.ts, import.ts).
THEOREM LinesAlwaysAgree == BankSpec => []LinesAgreeWithTheBooks
<1>1. BankInv => LinesAgreeWithTheBooks  BY DEF BankInv
<1> QED  BY <1>1, BankInvariant, PTL

\* Nothing uses a document but with the values a person confirmed (review.ts,
\* extraction/service.ts).
THEOREM UsedIsConfirmed == BankSpec => []WhatIsUsedIsConfirmed
<1>1. BankInv => WhatIsUsedIsConfirmed  BY DEF BankInv
<1> QED  BY <1>1, BankInvariant, PTL
------------------------------------------------------------------------------
(* What a step may not do *)

\* What PaidEvidenceStays says of one document.
EvidenceStays(d) ==
  LET r == docs[d].link IN
  /\ r \in Rows
  /\ \E y \in payments \cap payments' : y.line = r /\ d \in y.invoices /\ ~y.reversed
  => docs'[d].link = r \/ \E s \in Rows \ {r} : AcceptMatch(d, s)

LEMMA RelinkedKeeps ==
  ASSUME NEW d, NEW to, Link(d, to), NEW e, e # d  PROVE docs'[e] = docs[e]
BY DEF Link

LEMMA LinkedTo ==
  ASSUME docs \in [Docs -> Document(Links)], NEW d \in Docs, NEW to, Link(d, to)
  PROVE  docs'[d].link = to
BY DEF Link, Document

\* While the payment of an invoice by a bank line stands, the invoice's
\* document stays on that line, and nothing but accepting a match to another
\* line takes it off (service.ts unmatchDocument, linkDocument).
THEOREM PaidEvidenceAlwaysStays == BankSpec => PaidEvidenceStays
<1>1. ASSUME BankInv, [BankNext]_bankVars, NEW d \in Docs  PROVE EvidenceStays(d)
  <2> SUFFICES ASSUME docs[d].link \in Rows,
                      NEW y \in payments, y.line = docs[d].link, d \in y.invoices, ~y.reversed,
                      \A s \in Rows \ {docs[d].link} : ~AcceptMatch(d, s)
               PROVE  docs'[d].link = docs[d].link
    BY DEF EvidenceStays
  <2>1. docs \in [Docs -> Document(Links)]  BY <1>1 DEF BankInv, BankTypeOK
  <2>2. Linked(d)  BY UnlinkedAssumption DEF Linked
  <2>3. EvidencePaid(d)
    <3>1. docs[d].invoiced  BY <1>1 DEF BankInv, InvoicesJoined
    <3> QED  BY <3>1 DEF EvidencePaid, Standing
  <2>4. docs' = docs => docs'[d].link = docs[d].link  OBVIOUS
  <2>5. ASSUME DocumentsStep  PROVE docs'[d].link = docs[d].link
    <3>1. PICK e \in Docs : \/ BeginReading(e) \/ EndReading(e) \/ ReadText(e)
                            \/ ConfirmDocument(e) \/ RejectDocument(e) \/ ReopenDocument(e)
                            \/ PostInvoice(e) \/ RestoreDocument(e)
      BY <2>5 DEF DocumentsStep
    <3>2. docs[d] \in Document(Links)  BY <2>1
    <3> QED  BY <2>1, <3>1, <3>2
             DEF BeginReading, EndReading, ReadText, ConfirmDocument, RejectDocument,
                 ReopenDocument, PostInvoice, RestoreDocument, Document
  <2>6. ASSUME NEW e \in Docs, FindMatches(e)  PROVE docs'[d].link = docs[d].link
    <3> DEFINE Linking(accepted) ==
                 IF accepted = {} THEN UNCHANGED docs ELSE \E r \in accepted : Link(e, r)
    <3>1. \E candidates \in SUBSET Eligible(e) :
            \E accepted \in {{}} \cup {{r} : r \in candidates} : Linking(accepted)
      BY <2>6 DEF FindMatches
    <3>2. docs' = docs \/ \E r : Link(e, r)  BY <3>1
    <3>3. e # d  BY <2>2, <2>6 DEF FindMatches
    <3> QED  BY <3>2, <3>3, RelinkedKeeps
  <2>7. ASSUME NEW e \in Docs, UnmatchDocument(e)  PROVE docs'[d].link = docs[d].link
    <3>1. e # d /\ Link(e, Unlinked)  BY <2>3, <2>7 DEF UnmatchDocument
    <3> QED  BY <3>1, RelinkedKeeps
  <2>8. ASSUME NEW e \in Docs, NEW r \in Rows, AcceptMatch(e, r)
        PROVE  docs'[d].link = docs[d].link
    <3>1. Link(e, r)  BY <2>8 DEF AcceptMatch
    <3>2. e = d => r = docs[d].link  BY <2>8
    <3> QED  BY <2>1, <3>1, <3>2, RelinkedKeeps, LinkedTo
  <2>9. ASSUME NEW e \in Docs, NEW r \in Rows, LinkDocument(e, r)
        PROVE  docs'[d].link = docs[d].link
    <3>1. Link(e, r)  BY <2>9 DEF LinkDocument
    <3>2. e = d => r = docs[d].link  BY <2>2, <2>3, <2>9 DEF LinkDocument
    <3> QED  BY <2>1, <3>1, <3>2, RelinkedKeeps, LinkedTo
  <2>10. ASSUME NEW r \in Rows, NEW invoices, SettleBankTransaction(r, invoices)
         PROVE  docs'[d].link = docs[d].link
    BY <2>2, <2>10 DEF SettleBankTransaction
  <2>11. CASE MatchingStep
    BY <2>4, <2>6, <2>7, <2>8, <2>9, <2>11
       DEF MatchingStep, RejectMatch, WithdrawMatchRejection
  <2>13. ASSUME NEW e \in Docs, VoidInvoice(e) \/ ArchiveDocument(e) \/ DeleteDocument(e)
         PROVE  docs'[d].link = docs[d].link
    BY <2>1, <2>13 DEF VoidInvoice, ArchiveDocument, DeleteDocument, Document
  <2>14. CASE RetiringStep  BY <2>13, <2>14 DEF RetiringStep
  <2>12. CASE PostingStep
    BY <2>4, <2>10, <2>12, <2>13 DEF PostingStep, PostLine, ClassifyTransaction,
       ReclassifyTransaction, RecordPayment, ReversePayment, CompleteReconciliation
  <2> QED  BY <1>1, <2>4, <2>5, <2>11, <2>12, <2>14
           DEF BankNext, BankStep, RollbackStatementImport, bankVars
<1>2. BankInv /\ [BankNext]_bankVars => [\A d \in Docs : EvidenceStays(d)]_bankVars
  BY <1>1
<1>3. BankInv /\ [BankNext]_bankVars =>
        [\A d \in Docs :
           LET r == docs[d].link IN
           /\ r \in Rows
           /\ \E y \in payments \cap payments' : y.line = r /\ d \in y.invoices /\ ~y.reversed
           => docs'[d].link = r \/ \E s \in Rows \ {r} : AcceptMatch(d, s)]_bankVars
  BY <1>2 DEF EvidenceStays
<1> QED  BY <1>3, BankInvariant, PTL DEF BankSpec, PaidEvidenceStays

\* How many numbers a file's lines of a print take up that no live line holds.
LEMMA GivenCount ==
  ASSUME NEW p \in Prints, NumbersInv, NEW c \in Nat
  PROVE  LET live == LiveNumbers(p)
             new == GivenNumbers(p, c) \ live IN
         /\ IsFiniteSet(live \cup new)
         /\ Cardinality(live \cup new) =
              IF Cardinality(live) < c THEN c ELSE Cardinality(live)
<1> DEFINE N == NumbersOf(p)  H == TakenBack(p)  L == LiveNumbers(p)
           k == Cardinality(N)  h == Cardinality(H)  l == Cardinality(L)
           new == GivenNumbers(p, c) \ L
<1>1. MaxRows \in Nat  BY StatementsAssumption DEF StatementsAssumption
<1>2. /\ N \in SUBSET Numbers /\ H \in SUBSET N /\ L = N \ H
  BY TakenBackIsMade DEF NumbersOf, LiveNumbers
<1>3. /\ IsFiniteSet(N) /\ N = 0 .. k - 1 /\ k \in Nat
      /\ IsFiniteSet(H) /\ h \in Nat /\ IsFiniteSet(L) /\ l \in Nat
  <2>1. IsFiniteSet(N) /\ RunsOn(N)  BY <1>2, NumbersCount DEF NumbersInv
  <2>2. N = 0 .. k - 1  BY <1>2, <2>1, NumbersCount
  <2>3. L \in SUBSET N  BY <1>2
  <2>4. IsFiniteSet(H) /\ IsFiniteSet(L)  BY <1>2, <2>1, <2>3, FS_Subset
  <2> QED  BY <2>1, <2>2, <2>4, FS_CardinalityType
<1>4. l = k - h
  <2>1. N \cap H = H  BY <1>2
  <2>2. Cardinality(N \ H) = Cardinality(N) - Cardinality(N \cap H)
    BY <1>3, FS_Difference
  <2> QED  BY <1>2, <2>1, <2>2
<1>5. k <= MaxRows
  <2>1. k = 0 \/ k - 1 \in N
    <3> HIDE DEF k, N
    <3> QED  BY <1>3
  <2>2. \A n \in N : n \in Nat /\ n <= MaxRows - 1  BY <1>1, <1>2 DEF Numbers
  <2> HIDE DEF k, N
  <2> QED  BY <1>1, <1>3, <2>1, <2>2
<1>6. ASSUME NEW n \in Nat, n >= k  PROVE Cardinality((0 .. n) \ H) = n + 1 - h
  <2>1. /\ IsFiniteSet(0 .. n) /\ Cardinality(0 .. n) = n + 1
    BY FS_Interval
  <2>2. (0 .. n) \cap H = H
    <3> HIDE DEF k, N, H
    <3>1. N \subseteq 0 .. n  BY <1>3, <1>6
    <3> QED  BY <1>2, <3>1
  <2>3. Cardinality((0 .. n) \ H) = Cardinality(0 .. n) - Cardinality((0 .. n) \cap H)
    BY <2>1, FS_Difference
  <2>4. Cardinality((0 .. n) \ H) = (n + 1) - h  BY <2>1, <2>2, <2>3
  <2> HIDE DEF h, H
  <2> QED  BY <1>3, <2>4
<1>7. h <= k
  <2> HIDE DEF l, k, h
  <2> QED  BY <1>3, <1>4
<1>8. \A n : n \in new <=> n \in k .. c + h - 1
  <2> SUFFICES ASSUME NEW n  PROVE n \in new <=> n \in k .. c + h - 1  OBVIOUS
  <2>1. n \in new <=> /\ n \in 0 .. MaxRows + c /\ n \notin H
                      /\ Cardinality((0 .. n) \ H) <= c /\ n \notin N
    BY <1>2 DEF GivenNumbers
  <2> HIDE DEF new
  <2>2. ASSUME n \in Nat, n >= k
        PROVE  /\ n \notin H /\ n \notin N
               /\ Cardinality((0 .. n) \ H) <= c <=> n <= c + h - 1
    <3>1. Cardinality((0 .. n) \ H) = n + 1 - h  BY <1>6, <2>2
    <3>2. n \notin N
      <4> HIDE DEF k, N
      <4> QED  BY <1>3, <2>2
    <3>3. n \notin H  BY <1>2, <3>2
    <3> HIDE DEF h, H, N
    <3> QED  BY <1>3, <2>2, <3>1, <3>2, <3>3
  <2>3. n \in Nat /\ n \notin N => n >= k
    <3> HIDE DEF k, N
    <3> QED  BY <1>3
  <2> HIDE DEF h, H, N, k
  <2>4. CASE n \in new
    <3>1. n \in Nat /\ n \notin N  BY <1>1, <2>1, <2>4
    <3> QED  BY <1>3, <2>1, <2>2, <2>3, <2>4, <3>1
  <2>5. CASE n \in k .. c + h - 1
    <3>1. n \in Nat /\ n >= k /\ n <= c + h - 1  BY <1>3, <2>5
    <3>2. n \in 0 .. MaxRows + c  BY <1>1, <1>3, <1>5, <1>7, <3>1
    <3> QED  BY <2>1, <2>2, <2>5, <3>1, <3>2
  <2> QED  BY <2>4, <2>5
<1>9. new = k .. c + h - 1  BY <1>8
<1>10. /\ IsFiniteSet(new)
       /\ Cardinality(new) = IF l < c THEN c - l ELSE 0
  <2>1. /\ IsFiniteSet(k .. c + h - 1)
        /\ Cardinality(k .. c + h - 1) = IF k > c + h - 1 THEN 0 ELSE c + h - 1 - k + 1
    <3> DEFINE b == c + h - 1
    <3> HIDE DEF k, h
    <3>1. k \in Int /\ b \in Int  BY <1>3
    <3> HIDE DEF b
    <3>2. /\ IsFiniteSet(k .. b)
          /\ Cardinality(k .. b) = IF k > b THEN 0 ELSE b - k + 1
      BY <3>1, FS_Interval
    <3> QED  BY <1>3, <3>2 DEF b
  <2> HIDE DEF k, h, l, new
  <2> QED  BY <1>3, <1>4, <1>9, <2>1
<1>11. L \cap new = {}  OBVIOUS
<1>12. /\ IsFiniteSet(L \cup new)
       /\ Cardinality(L \cup new) = Cardinality(L) + Cardinality(new) - Cardinality(L \cap new)
  BY <1>3, <1>10, FS_Union
<1>13. Cardinality(L \cap new) = 0  BY <1>11, FS_EmptySet
<1>14. Cardinality(L \cup new) = IF l < c THEN c ELSE l
  <2>1. Cardinality(L \cup new) = l + Cardinality(new) - 0  BY <1>12, <1>13
  <2> HIDE DEF l, new
  <2> QED  BY <1>3, <1>10, <2>1
<1> QED  BY <1>12, <1>14

LEMMA TakenInLive ==
  ASSUME StatementsTypeOK, NEW f \in Files, TakeIn(f), NEW p \in Prints
  PROVE  LiveNumbers(p)' = LiveNumbers(p) \cup (GivenNumbers(p, Held[f][p]) \ LiveNumbers(p))
<1>1. \A n : n \in LiveNumbers(p)' <=>
               n \in Numbers /\ Made(<<p, n>>)' /\ lines'[<<p, n>>].status # "rolled_back"
  BY DEF LiveNumbers, NumbersOf, TakenBack
<1>2. \A n : n \in LiveNumbers(p) <=>
               n \in Numbers /\ Made(<<p, n>>) /\ lines[<<p, n>>].status # "rolled_back"
  BY DEF LiveNumbers, NumbersOf, TakenBack
<1>3. FreshLine.status = "unclassified"  BY DEF FreshLine
<1>4. \A n : <<p, n>> \in NewLines(f) => n \in Numbers  BY DEF TakeIn, Rows
<1>5. ASSUME NEW n \in Numbers
      PROVE  n \in LiveNumbers(p)' <=> n \in LiveNumbers(p) \/ <<p, n>> \in NewLines(f)
  <2>1. <<p, n>> \in Rows  BY DEF Rows
  <2>2. CASE <<p, n>> \in NewLines(f)
    <3>1. Made(<<p, n>>)' /\ lines'[<<p, n>>] = FreshLine  BY <2>1, <2>2, ImportMakes
    <3> QED  BY <1>1, <1>3, <2>2, <3>1
  <2>3. CASE <<p, n>> \notin NewLines(f)
    <3>1. (Made(<<p, n>>)' <=> Made(<<p, n>>)) /\ lines'[<<p, n>>] = lines[<<p, n>>]
      BY <2>1, <2>3, ImportMakes
    <3> QED  BY <1>1, <1>2, <2>3, <3>1
  <2> QED  BY <2>2, <2>3
<1>6. \A n : n \in LiveNumbers(p)' <=> n \in LiveNumbers(p) \/ <<p, n>> \in NewLines(f)
  BY <1>1, <1>2, <1>4, <1>5
<1> QED  BY <1>6, InNewLines

\* Importing a file leaves as many live lines of each print as there were, or
\* as many as the file holds if that is more (import.ts importStatement).
THEOREM ImportsBringUpToTheFile == BankSpec => ImportBringsUpToTheFile
<1> DEFINE BroughtUp(f) ==
      \A p \in Prints :
        LET before == Cardinality(LiveNumbers(p)) IN
        Cardinality(LiveNumbers(p)') = IF before < Held[f][p] THEN Held[f][p] ELSE before
<1>1. ASSUME BankInv, [BankNext]_bankVars, NEW f \in Files,
             Len(imports') > Len(imports), imports'[Len(imports')].file = f
      PROVE  BroughtUp(f)
  <2>1. StatementsTypeOK /\ Len(imports) \in Nat
    BY <1>1 DEF BankInv, BankTypeOK, StatementsTypeOK
  <2>2. imports' # imports  BY <1>1, <2>1
  <2>3. ASSUME NEW g \in Files, TakeIn(g)  PROVE BroughtUp(f)
    <3>1. g = f  BY <1>1, <2>1, <2>3, TakeInType
    <3>2. ASSUME NEW p \in Prints
          PROVE  LET before == Cardinality(LiveNumbers(p)) IN
                 Cardinality(LiveNumbers(p)') =
                   IF before < Held[f][p] THEN Held[f][p] ELSE before
      <4>1. Held[f][p] \in Nat  BY StatementsAssumption DEF StatementsAssumption
      <4>2. LiveNumbers(p)' =
              LiveNumbers(p) \cup (GivenNumbers(p, Held[f][p]) \ LiveNumbers(p))
        BY <2>1, <2>3, <3>1, TakenInLive
      <4>3. NumbersInv  BY <1>1 DEF BankInv
      <4>4. Cardinality(LiveNumbers(p)
                        \cup (GivenNumbers(p, Held[f][p]) \ LiveNumbers(p))) =
              IF Cardinality(LiveNumbers(p)) < Held[f][p]
              THEN Held[f][p] ELSE Cardinality(LiveNumbers(p))
        BY <4>1, <4>3, GivenCount
      <4> QED  BY <4>2, <4>4
    <3> QED  BY <3>2
  <2>4. ASSUME NEW p \in Prints, RecordManual(p)  PROVE FALSE
    <3>1. imports'[Len(imports')].file = Manual  BY <2>1, <2>4, RecordManualType
    <3> QED  BY <1>1, <3>1, StatementsAssumption DEF StatementsAssumption
  <2>5. ASSUME StatementsStep  PROVE BroughtUp(f)
    <3>1. \A q \in Requests : FinishWorkbook(q) => reading[q] \in Files /\ TakeIn(reading[q])
      BY <2>1 DEF FinishWorkbook, StatementsTypeOK
    <3> HIDE DEF BroughtUp
    <3> QED  BY <2>2, <2>3, <2>4, <2>5, <3>1
             DEF StatementsStep, ImportStatement, BeginWorkbook, AbandonWorkbook
  <2>6. ASSUME NEW i \in DOMAIN imports, RollbackStatementImport(i)  PROVE FALSE
    <3>1. Len(imports') = Len(imports)  BY <1>1, <2>6, RollbackType DEF BankInv
    <3> QED  BY <1>1, <2>1, <3>1
  <2>7. ~MatchingStep  BY <2>2, MatchingLeaves
  <2>8. ~PostingStep
    BY <2>2 DEF PostingStep, PostLine, ClassifyTransaction, ReclassifyTransaction,
       RecordPayment, SettleBankTransaction, ReversePayment, VoidInvoice,
       CompleteReconciliation
  <2>9. ~RetiringStep  BY <2>2, RetiringLeaves
  <2> HIDE DEF BroughtUp
  <2> QED  BY <1>1, <2>2, <2>5, <2>6, <2>7, <2>8, <2>9 DEF BankNext, BankStep, bankVars
<1>2. BankInv /\ [BankNext]_bankVars =>
        [\A f \in Files :
           /\ Len(imports') > Len(imports) /\ imports'[Len(imports')].file = f
           => \A p \in Prints :
                LET before == Cardinality(LiveNumbers(p)) IN
                Cardinality(LiveNumbers(p)') =
                  IF before < Held[f][p] THEN Held[f][p] ELSE before]_bankVars
  BY <1>1
<1> QED  BY <1>2, BankInvariant, PTL DEF BankSpec, ImportBringsUpToTheFile
=============================================================================
