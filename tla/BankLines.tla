------------------------------ MODULE BankLines ------------------------------
(***************************************************************************)
(* What is done with bank lines: documents are matched to them, they are   *)
(* posted on their own or by settling invoices, agreed in a reconciliation *)
(* and taken back with their import.  Composes Statements and Documents;   *)
(* matching is src/src/domain/matching/service.ts, posting                 *)
(* src/src/domain/banking/classify.ts and journalLink.ts, settling         *)
(* src/src/domain/consolidation/settle.ts and invoicing/payments.ts.       *)
(* An invoice is its document's; how much of it a payment pays is left     *)
(* open (module Payments).  The ledger may refuse any entry, and then      *)
(* nothing happens (module Journal).                                       *)
(***************************************************************************)
EXTENDS Statements, Documents

CONSTANT MaxLoad         \* bound: imports, match records, payments, documents
                         \* reviewed and readings under way, counted together

ASSUME UnlinkedAssumption == Unlinked \notin Rows

VARIABLES
  matches,      \* documentMatches: the proposals and what was decided of each
  payments      \* the payments recorded against bank lines

bankVars == <<imports, lines, reading, docs, matches, payments>>

Links == Rows \cup {Unlinked}

\* A record rejected by implication, superseded or withdrawn decides nothing
\* any more ("past"); one a person rejected keeps the pair from being
\* proposed ("refused").
Decisions == {"pending", "accepted", "refused", "past"}
Match == [doc : Docs, line : Rows, decision : Decisions]
Payment == [line : Rows, invoices : (SUBSET Docs) \ {{}}, reversed : BOOLEAN]

BankInit ==
  /\ StatementsInit /\ DocumentsInit
  /\ matches = {} /\ payments = {}

LinesMade == {r \in Rows : Made(r)}

InTheBooks(r) == Made(r) /\ lines[r].status # "rolled_back"

Standing(r) == {y \in payments : y.line = r /\ ~y.reversed}

OfPair(d, r) == {m \in matches : m.doc = d /\ m.line = r}
Pending(d) == {m \in matches : m.doc = d /\ m.decision = "pending"}
Decided(records, decision) == {[m EXCEPT !.decision = decision] : m \in records}

Link(d, to) == docs' = [docs EXCEPT ![d].link = to]
------------------------------------------------------------------------------
(* Matching *)

\* Where a document may be proposed: not on a line taken back, nor on one that
\* has another document, nor on one a person has said no to.
Eligible(d) ==
  {r \in Rows :
     /\ InTheBooks(r)
     /\ \A e \in Docs \ {d} : docs[e].link # r
     /\ \A m \in OfPair(d, r) : m.decision # "refused"}

\* findMatchesForDocument, which both its callers run for a document no line is
\* matched to: matchAllUnmatched picks those out, and confirmDocumentAction has
\* just confirmed one, which was not matched before.  What was
\* pending is superseded by the candidates of this run, and the best of them
\* is accepted on the spot when it is good enough and not ambiguous.  The
\* score is not modelled.
FindMatches(d) ==
  \E candidates \in SUBSET Eligible(d) :
  \E accepted \in {{}} \cup {{r} : r \in candidates} :
    /\ Confirmed(d) /\ ~Linked(d)
    /\ matches' = (matches \ Pending(d)) \cup Decided(Pending(d), "past")
                  \cup [doc : {d}, line : candidates \ accepted, decision : {"pending"}]
                  \cup [doc : {d}, line : accepted, decision : {"accepted"}]
    /\ IF accepted = {} THEN UNCHANGED docs ELSE \E r \in accepted : Link(d, r)
    /\ UNCHANGED <<imports, lines, reading, payments>>

\* Whatever was decided of the pair before, and whatever line the document is
\* matched to, it is now matched to this one.
AcceptMatch(d, r) ==
  /\ Confirmed(d)
  /\ Made(r)
  /\ matches' = (matches \ (OfPair(d, r) \cup Pending(d)))
                \cup Decided(OfPair(d, r), "accepted")
                \cup Decided(Pending(d) \ OfPair(d, r), "past")
  /\ Link(d, r)
  /\ UNCHANGED <<imports, lines, reading, payments>>

\* The slip of finding a payment only when it pays this invoice alone.
PaidAlone(d) == \E y \in Standing(docs[d].link) : y.invoices = {d}
\* A document whose invoice its line has paid is not unlinked from it.
EvidencePaid(d) ==
  docs[d].invoiced /\ \E y \in Standing(docs[d].link) : d \in y.invoices

UnmatchDocument(d) ==
  /\ Linked(d)
  /\ ~EvidencePaid(d)
  /\ Link(d, Unlinked)
  /\ UNCHANGED <<imports, lines, reading, matches, payments>>

\* By hand: the document is unmatched first if it is linked elsewhere.
LinkDocument(d, r) ==
  /\ Confirmed(d)
  /\ Made(r)
  /\ Linked(d) /\ docs[d].link # r => ~EvidencePaid(d)
  /\ matches' = (matches \ Pending(d)) \cup Decided(Pending(d), "past")
                \cup {[doc |-> d, line |-> r, decision |-> "accepted"]}
  /\ Link(d, r)
  /\ UNCHANGED <<imports, lines, reading, payments>>

RejectMatch(d, r) ==
  /\ matches' = (matches \ OfPair(d, r)) \cup Decided(OfPair(d, r), "refused")
  /\ UNCHANGED <<imports, lines, reading, docs, payments>>

WithdrawMatchRejection(d, r) ==
  /\ LET refused == {m \in OfPair(d, r) : m.decision = "refused"} IN
       /\ refused # {}
       /\ matches' = (matches \ refused) \cup Decided(refused, "past")
  /\ UNCHANGED <<imports, lines, reading, docs, payments>>
------------------------------------------------------------------------------
(* Retiring documents: lifecycle.ts *)

\* documentDependencies: once accepted, a match is in the way though the
\* document was unmatched since.  Evidence for an asset or an expense claim
\* is not modelled.
DependedOn(d) == InUse(d) \/ \E m \in matches : m.doc = d /\ m.decision = "accepted"

ArchiveDocument(d) ==
  /\ docs[d].kept = "filed"
  /\ ~DependedOn(d)
  /\ docs' = [docs EXCEPT ![d].kept = "archived"]
  /\ UNCHANGED <<imports, lines, reading, matches, payments>>

\* An archived document may have been matched, or posted, since.
DeleteDocument(d) ==
  /\ docs[d].kept = "archived"
  /\ ~DependedOn(d)
  /\ docs' = [docs EXCEPT ![d].kept = "deleted", ![d].review = "unreviewed",
                          ![d].values = "draft"]
  /\ matches' = {m \in matches : m.doc # d}
  /\ UNCHANGED <<imports, lines, reading, payments>>

RetiringStep == \E d \in Docs : ArchiveDocument(d) \/ DeleteDocument(d)
------------------------------------------------------------------------------
(* Posting, settling, agreeing *)

Post(r, entry) == lines' = [lines EXCEPT ![r].status = "posted", ![r].entry = entry]

ConfirmedDocumentOn(r) == \E d \in Docs : docs[d].link = r /\ Confirmed(d)

\* postBankTransactionJournal, linkBankTransactionToJournal
PostLine(r) ==
  /\ InTheBooks(r)
  /\ lines[r].entry = "none"
  /\ Post(r, "own")
  /\ UNCHANGED <<imports, reading, docs, matches, payments>>

\* A line with a confirmed document behind it is settled instead.
ClassifyTransaction(r) == ~ConfirmedDocumentOn(r) /\ PostLine(r)

\* Takes back the entry and posts another; a line that is agreed is not
\* refused, and stays marked as agreed.
ReclassifyTransaction(r) ==
  /\ lines[r].entry # "none"
  /\ Standing(r) = {}
  /\ ~ConfirmedDocumentOn(r)
  /\ Post(r, "own")
  /\ UNCHANGED <<imports, reading, docs, matches, payments>>

\* recordPayment, with a bank line: refused of a posted line, and of that alone.
Pay(r, invoices) ==
  /\ Made(r)
  /\ lines[r].entry = "none"
  /\ \A d \in invoices : docs[d].invoiced /\ ~docs[d].voided
  /\ payments' = payments \cup {[line |-> r, invoices |-> invoices, reversed |-> FALSE]}
  /\ Post(r, "payment")

RecordPayment(r, invoices) ==
  Pay(r, invoices) /\ UNCHANGED <<imports, reading, docs, matches>>

\* A purchase invoice is settled only with its document confirmed.
SettleBankTransaction(r, invoices) ==
  /\ InTheBooks(r)
  /\ \A d \in invoices : Confirmed(d)
  /\ Pay(r, invoices)
  /\ docs' = [d \in Docs |-> IF d \in invoices /\ ~Linked(d)
                             THEN [docs[d] EXCEPT !.link = r] ELSE docs[d]]
  /\ LET pending == UNION {Pending(d) : d \in invoices}
         here == {m \in pending : m.line = r}
     IN  matches' = (matches \ pending)
                    \cup Decided(here, "accepted") \cup Decided(pending \ here, "past")
  /\ UNCHANGED <<imports, reading>>

\* The slip of asking the payment alone.
NotYetReversed(y) == ~y.reversed
MayReverse(y) == ~y.reversed /\ ~lines[y.line].agreed

\* The line is unposted, to be settled again.
ReversePayment(y) ==
  /\ MayReverse(y)
  /\ payments' = (payments \ {y}) \cup {[y EXCEPT !.reversed = TRUE]}
  /\ lines' = [lines EXCEPT ![y.line].status = "unclassified", ![y.line].entry = "none"]
  /\ UNCHANGED <<imports, reading, docs, matches>>

\* voidInvoice: refused while anything is paid of it.
VoidInvoice(d) ==
  /\ docs[d].invoiced /\ ~docs[d].voided
  /\ \A y \in payments : d \in y.invoices => y.reversed
  /\ docs' = [docs EXCEPT ![d].voided = TRUE]
  /\ UNCHANGED <<imports, lines, reading, matches, payments>>

\* completeReconciliation of a period, that is of the lines of some prints:
\* lines taken back or not posted are left out.
CompleteReconciliation(period) ==
  /\ lines' = [r \in Rows |->
       IF r[1] \in period /\ lines[r].status = "posted"
       THEN [lines[r] EXCEPT !.status = "reconciled", !.agreed = TRUE] ELSE lines[r]]
  /\ UNCHANGED <<imports, reading, docs, matches, payments>>

\* rollbackStatementImport.  A payment counts though it was reversed, and so
\* does a match accepted once though the document was unmatched since.
NothingRestsOn(taken) ==
  /\ \A y \in payments : y.line \notin taken
  /\ \A d \in Docs : docs[d].link \notin taken
  /\ \A m \in matches : m.line \in taken => m.decision # "accepted"

RollbackStatementImport(i) ==
  /\ NothingRestsOn(LinesOf(i))
  /\ UndoImport(i)
  /\ LET pending == {m \in matches : m.line \in LinesOf(i) /\ m.decision = "pending"} IN
       matches' = (matches \ pending) \cup Decided(pending, "past")
  /\ UNCHANGED <<docs, payments>>
------------------------------------------------------------------------------
MatchingStep ==
  \E d \in Docs :
    \/ FindMatches(d)
    \/ UnmatchDocument(d)
    \/ \E r \in Rows : \/ AcceptMatch(d, r) \/ LinkDocument(d, r)
                       \/ RejectMatch(d, r) \/ WithdrawMatchRejection(d, r)

PostingStep ==
  \/ \E r \in Rows :
       \/ PostLine(r) \/ ClassifyTransaction(r) \/ ReclassifyTransaction(r)
       \/ \E invoices \in (SUBSET Docs) \ {{}} :
            RecordPayment(r, invoices) \/ SettleBankTransaction(r, invoices)
  \/ \E y \in payments : ReversePayment(y)
  \/ \E d \in Docs : VoidInvoice(d)
  \/ \E period \in SUBSET Prints : CompleteReconciliation(period)

Load == Len(imports) + Cardinality(matches) + Cardinality(payments)
        + Cardinality({d \in Docs : docs[d].review # "unreviewed"})
        + Cardinality({d \in Docs : docs[d].reading # "none"})
        + Cardinality({d \in Docs : docs[d].kept # "filed"})
        + Cardinality({q \in Requests : reading[q] # NoFile})

BankStep ==
  \/ StatementsStep /\ UNCHANGED <<docs, matches, payments>>
  \/ \E i \in DOMAIN imports : RollbackStatementImport(i)
  \/ DocumentsStep /\ UNCHANGED <<imports, lines, reading, matches, payments>>
  \/ MatchingStep
  \/ RetiringStep
  \/ PostingStep

BankNext == BankStep /\ Load' <= MaxLoad

BankSpec == BankInit /\ [][BankNext]_bankVars
------------------------------------------------------------------------------
BankTypeOK ==
  /\ StatementsTypeOK
  /\ docs \in [Docs -> Document(Links)]
  /\ matches \subseteq Match
  /\ payments \subseteq Payment

\* The numbers of a print run from 0 without a gap, however imports, lines
\* typed in and undone imports are mixed: the unique index of (fingerprint,
\* occurrence) is never hit and a line typed in can count its way to a free
\* number (import.ts skipRolledBackIndices, recordManualTransaction).
NumbersRunOn ==
  \A p \in Prints : NumbersOf(p) = 0 .. Cardinality(NumbersOf(p)) - 1

\* Importing a file leaves as many live lines of each print as there were, or
\* as many as the file holds if that is more: lines two files share come once,
\* lines that look alike in one file all come, and what was undone since the
\* file was asked for comes again (import.ts importStatement).
ImportBringsUpToTheFile ==
  [][\A f \in Files :
       /\ Len(imports') > Len(imports) /\ imports'[Len(imports')].file = f
       => \A p \in Prints :
            LET before == Cardinality(LiveNumbers(p)) IN
            Cardinality(LiveNumbers(p)') =
              IF before < Held[f][p] THEN Held[f][p] ELSE before]_bankVars

\* What a line says of itself is what the books and its import hold, whatever
\* is reclassified, reversed or undone: it is posted if and only if it has an
\* entry, which is a payment's if and only if one payment against it stands; a
\* line agreed in a reconciliation is never left without one; and a line is
\* out of the books if and only if its import was undone, unless a payment was
\* recorded against it directly, which brings it back (classify.ts,
\* journalLink.ts, settle.ts, payments.ts, reversal.ts, import.ts).
LinesAgreeWithTheBooks ==
  \A r \in LinesMade :
    /\ lines[r].status \in {"posted", "reconciled"} <=> lines[r].entry # "none"
    /\ lines[r].agreed => lines[r].entry # "none"
    /\ lines[r].entry = "payment" <=> Standing(r) # {}
    /\ \A y, z \in Standing(r) : y = z
    /\ lines[r].status = "rolled_back" => imports[lines[r].import].status = "reversed"
    /\ imports[lines[r].import].status = "reversed" =>
         lines[r].status = "rolled_back" \/ \E y \in payments : y.line = r

\* Nothing uses a document but one still on file, with the values a person
\* confirmed, though a reading asked for earlier may end, a review be reopened
\* or rejected, and a document be archived, put to use and deleted at any time;
\* and no match is left of one that was deleted (review.ts; lifecycle.ts;
\* extraction/service.ts recordExtraction).
WhatIsUsedIsConfirmed ==
  /\ \A d \in Docs :
       /\ InUse(d) => Confirmed(d)
       /\ Confirmed(d) => OnFile(d) /\ docs[d].values = "person"
  /\ \A m \in matches : OnFile(m.doc)

\* While the payment of an invoice by a bank line stands, the invoice's
\* document stays on that line, and nothing but accepting a match to another
\* line takes it off (service.ts unmatchDocument: "Unlinking it would leave
\* the payment in the books with its evidence apparently gone").
PaidEvidenceStays ==
  [][\A d \in Docs :
       LET r == docs[d].link IN
       /\ r \in Rows
       /\ \E y \in payments \cap payments' : y.line = r /\ d \in y.invoices /\ ~y.reversed
       => docs'[d].link = r \/ \E s \in Rows \ {r} : AcceptMatch(d, s)]_bankVars
=============================================================================
