------------------------------ MODULE Documents ------------------------------
(***************************************************************************)
(* Documents and their review (src/src/domain/documents/review.ts and      *)
(* lifecycle.ts, src/src/domain/extraction/service.ts).  What a machine    *)
(* reads from a document is a draft; a person checks it against the page   *)
(* and confirms it with values of their own, and only then is it used.     *)
(* Reading one awaits a provider, and the review goes on meanwhile.        *)
(***************************************************************************)
EXTENDS Naturals

CONSTANTS
  Docs,          \* documents, stored
  Unlinked       \* what a document that is linked to no bank line is linked to

VARIABLE docs

Reviews == {"unreviewed", "confirmed", "rejected"}
Readings == {"none", "asked", "asked_confirmed"}   \* a reading under way, and
                          \* whether the document was confirmed when asked

Document(links) ==
  [review : Reviews,
   values : {"draft", "person"},               \* whose values it carries
   reading : Readings,
   kept : {"filed", "archived", "deleted"},
   invoiced : BOOLEAN,                         \* an invoice was posted from it
   voided : BOOLEAN,                           \* and has been voided
   link : links]                               \* the bank line it is matched to

DocumentsInit ==
  docs = [d \in Docs |-> [review |-> "unreviewed", values |-> "draft", reading |-> "none",
                          kept |-> "filed", invoiced |-> FALSE, voided |-> FALSE,
                          link |-> Unlinked]]

OnFile(d) == docs[d].kept # "deleted"
Confirmed(d) == docs[d].review = "confirmed"
Linked(d) == docs[d].link # Unlinked

\* assertNotInUse.  Voiding the invoice does not free its document.
InUse(d) == docs[d].invoiced \/ Linked(d)

\* extractDocument, as far as its await.
BeginReading(d) ==
  /\ OnFile(d)
  /\ docs[d].reading = "none"
  /\ docs' = [docs EXCEPT ![d].reading = IF Confirmed(d) THEN "asked_confirmed" ELSE "asked"]

\* The slip of trusting the review as it was when the reading began.
DraftNeverRefused(d) == FALSE

\* recordExtraction: a reading asked for when the document was not confirmed
\* is written on it as a draft; one that failed, or was asked of a confirmed
\* document, is only filed.  A document confirmed meanwhile refuses the draft
\* (writeDocumentDraft), one deleted meanwhile the reading, and either the
\* whole recording with it.
DraftRefused(d) == Confirmed(d) \/ ~OnFile(d)

EndReading(d) ==
  \E failed \in BOOLEAN :
    /\ docs[d].reading # "none"
    /\ docs' = [docs EXCEPT
         ![d].reading = "none",
         ![d].values = IF failed \/ docs[d].reading = "asked_confirmed" \/ DraftRefused(d)
                       THEN @ ELSE "draft"]

\* extractDocumentFromText: text recognised in the browser, recorded at once.
ReadText(d) ==
  /\ OnFile(d)
  /\ docs' = [docs EXCEPT ![d].values = IF Confirmed(d) THEN @ ELSE "draft"]

ConfirmDocument(d) ==
  /\ OnFile(d) /\ ~Confirmed(d)
  /\ docs' = [docs EXCEPT ![d].review = "confirmed", ![d].values = "person"]

RejectDocument(d) ==
  /\ OnFile(d) /\ ~InUse(d)
  /\ docs' = [docs EXCEPT ![d].review = "rejected"]

ReopenDocument(d) ==
  /\ docs[d].review # "unreviewed"
  /\ ~InUse(d)
  /\ docs' = [docs EXCEPT ![d].review = "unreviewed"]

\* postDocumentAsInvoice
PostInvoice(d) ==
  /\ Confirmed(d)
  /\ ~docs[d].invoiced
  /\ docs' = [docs EXCEPT ![d].invoiced = TRUE]

\* Only archiving is undone; what rests on a document is asked of archiving
\* and of deleting it where matches are known.
RestoreDocument(d) ==
  /\ docs[d].kept = "archived"
  /\ docs' = [docs EXCEPT ![d].kept = "filed"]

DocumentsStep ==
  \E d \in Docs :
    \/ BeginReading(d) \/ EndReading(d) \/ ReadText(d)
    \/ ConfirmDocument(d) \/ RejectDocument(d) \/ ReopenDocument(d)
    \/ PostInvoice(d) \/ RestoreDocument(d)
=============================================================================
