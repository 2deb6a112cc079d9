# Leabhar: models and proofs of the books

TLA+ modules for the core of Leabhar, the bookkeeping program of this
repository, with the TLC configurations that model-check them and the proofs
TLAPS checks. `PROJECT.json` lists the components, the runs, the source lines
each definition stands for, the hazards and the theorems.

To check a run: `tlc -config Journal.cfg MCJournal.tla`; `PROJECT.json` names the
module of each. To check the proofs: `tlapm Books_proofs.tla`, and likewise
`Totals_proofs.tla`, `VatPeriods_proofs.tla`, `Costing_proofs.tla`,
`Payments_proofs.tla`, `BankLines_proofs.tla`, `Registers_proofs.tla` and
`VaultSession_proofs.tla`.

## The system

Leabhar keeps one SQLite database of double-entry books. A Next.js server, a
command line and an agent interface call the same functions under
`src/src/domain`. The database driver is synchronous, so inside one process a
domain function that does not `await` runs to its end before another starts;
those that write do so in one transaction (`atomically`, journal.ts). Two
processes may have the database open at once (WAL, busy timeout); then a
function is atomic only from the start of its transaction. A separate browser
portal (`src/src/browser`) keeps its own small books in an encrypted vault.

| Component | State | Operations | Correct when |
|---|---|---|---|
| Posting engine (`accounting/journal.ts`) | entries, lines, reversal links | post, reverse, absorb conversion rounding | every entry balances, is in one year, can be taken back once, and stands for ever |
| Chart and years (`config/mutations.ts`, `config/setup.ts`) | active accounts, years, VAT periods' dates | archive, restore, generate, move | years and periods never overlap; archived balances stand |
| Adjustments (`accounting/adjustments.ts`) | - | post with a reason, perhaps over a lock | an override leaves its trace |
| Accruals, prepayments (`accounting/timing.ts`) | when each entry is due off | post, take off when due, take off early | each comes off once, on its date |
| Recurring journals (`accounting/recurring.ts`) | templates | create, edit, deactivate, post what is due | each occurrence is posted exactly once |
| Year end (`accounting/yearEnd.ts`) | none: read from the journal | close | profit and loss accounts end empty, the reported result does not change |
| VAT engine (`vat/engine.ts`) | VAT entries | declare, find the period, refuse a shut one | nothing enters a shut period |
| VAT periods and returns (`vat/periodClose.ts`, `vat/report.ts`) | status, filed figures | validate, lock, file, unlock | a filed return stands |
| Bank classification (`banking/classify.ts`) | status and live journal of each line | classify, reclassify | corrections net out over all periods |
| Invoices (`invoicing/invoices.ts`) | invoices, lines | post, void | a void takes everything back |
| Payments (`invoicing/payments.ts`, `onAccount.ts`, `reversal.ts`, `customerCredit.ts`, `badDebts.ts`) | payments, allocations, documents' paid amounts, VAT released | settle, hold and apply money on account, refund, apply credit notes, write off, reverse | money is spent once; control accounts and VAT agree with what stands |
| Statement import (`banking/import.ts`, `fingerprint.ts`) | imports, bank lines, occurrence numbers | import, record by hand, undo | each line of a statement is in the books once |
| Browser vault (`browser/vault/session.ts`) | books in memory, sealed copy | create, unlock, change, import, download, lock, forget | no saved change is lost, every change is backed up or asked to be |
| Documents (`documents`, `extraction`) | documents: review, whose values, what uses them | read, confirm, reject, reopen, post as an invoice, archive, restore, delete | what is used is as a person confirmed it, a late reading changes nothing |
| Matching (`matching/service.ts`, `consolidation/settle.ts`) and reconciliation | match records, links, agreed lines | propose, accept, reject, link, unmatch, settle, complete | the evidence of a payment stays on its line |
| Fixed assets (`assets/register.ts`, `depreciation.ts`) | the register, transfers, charges | register, transfer, depreciate, dispose, reconcile | charges follow the schedule, the register explains the ledger |
| Partnerships (`config/partners.ts`, `partnerships/loans.ts`, `interest.ts`) | partners, shares by day, loan accounts, interest charged | add a partner, change a share, divide an amount, lend, repay, charge interest | the parts add up to the amount; no loan account is overdrawn on any day |
| Stock (`inventory/movements.ts`, `costing.ts`, `stocktakes.ts`, `closing.ts`, `items.ts`) | items, movements, stocktakes, valuations | open, receive, issue, return, adjust, transfer, reverse, count, value | no history goes below nil, no cent is lost, what was valued stands, the stock accounts hold it |
| Livestock, payroll, expenses, construction, recurring invoices | records that post journals | | each posts through the engine |
| Users, backup, search, rules, tax computations | | | |

**How they interact.** Every workflow posts through `postJournalEntry` and
takes back through `reverseJournalEntry`; VAT comes beside the journal as VAT
entries through `createVatEntries`, or as negated copies. What a workflow has
already done is read back from the entries it posted (ADR 0009), never
recorded a second time. Configuration is read at the moment of posting.

**What is hard here.** Not threads: one call at a time runs. The difficulty
is in long sequences: a run repeated late, a reversal of a reversal, a close
taken back and taken again, a template or a period edited between two runs, a
year or a return locked between an entry and its correction. Two processes on
one database, and the browser's awaits, are the exceptions, with the two
readings the server waits for, a workbook and a document. The hazards are in
`PROJECT.json`, each at its line.

## The modules

| Module | Models |
|---|---|
| `Totals` | SUM |
| `JournalLines` | the arithmetic of lines: conversion and its rounding (`money.ts` multiplyRational), balance, exchanged lines, the line `withFxRoundingLine` adds |
| `Journal` | `journal.ts` with the accounts and years it reads; manual adjustments; entries converted from another currency; archiving, restoring, generating years |
| `AppendOnlyLedger` | what the books promise: a numbered list that only grows, whose entries are taken back at most once, by a later exact opposite |
| `Timing`, `Recurring` | `timing.ts`, `recurring.ts`, both extending `Journal` |
| `Schedules` | the two on one set of books, with everything that can come between two runs |
| `Partners` | `config/partners.ts`: partners, their shares by day, and the division of an amount among them |
| `PartnerLoans` | `partnerships/loans.ts`, `interest.ts`: loans of partners, repayments and interest, extending `Partners` |
| `YearEnd` | `yearEnd.ts` and the trial balance of `ledger.ts`, composing `Journal` with the two before |
| `VatPeriods` | VAT entries and the periods they are declared in: `engine.ts`, `periodClose.ts`, `report.ts`, the period dates of `mutations.ts`; invoices and bank receipts as sources |
| `FilingRegister` | what filed returns promise: a return stands, no day is in two |
| `Payments` | a customer's documents and money: `payments.ts`, `onAccount.ts`, `customerCredit.ts`, `badDebts.ts`, `reversal.ts`, with the accounts they move and the VAT they release (`vat/basis.ts`) |
| `Statements` | `import.ts`: statement files, the numbers that tell identical lines apart, lines typed in, what undoing an import does to its lines |
| `Documents` | `review.ts`, `lifecycle.ts`, `extraction/service.ts`: drafts and their review, each reading in two halves around its await |
| `BankLines` | the two composed: matching, posting, settling, unmatching, reconciling, undoing an import |
| `DatedPostings` | days, amounts posted by account and day, shares of an amount: what the next three build on |
| `Assets` | `assets/register.ts`, `depreciation.ts`: the register, its journals and everything else posted on its accounts |
| `Costing` | `inventory/costing.ts`: an item's movements replayed through pools of cost, by both methods |
| `Stock` | `movements.ts`, `stocktakes.ts`, `closing.ts`, `updateItem`: movements, counts and closing stock, extending `Costing` |
| `Registers` | the two registers, `Assets` and `Stock`, of which a behaviour keeps one |
| `VaultSession` | `browser/vault/session.ts` and `idb.ts`: each operation in its steps between awaits |
| `Books_proofs` | theorems of `Journal`, `Schedules` and `YearEnd` |
| `Costing_proofs` | what a replay comes to, for `Registers_proofs` |
| `Registers_proofs` | theorems of `Assets`, `Stock` and `Registers` |
| `VatPeriods_proofs`, `Payments_proofs`, `BankLines_proofs`, `VaultSession_proofs` | theorems of each |
| `Totals_proofs` | what sums over finite sets do, for the other proofs |
| `MC*` | the instances TLC checks |

**State.** An entry's number is its index in `journal`, so "gapless" is by
construction and is not claimed as a result. `reversalOf` and `reversedBy` are
the two link columns. `yearStatus` merges whether a year exists with its
status; a status `review` is treated by the code as open and never written, so
it is left out. `overridden` is the audit trail of lock overrides, by entry.
A company may be set up with years and VAT periods; the same state is reached
by generating them. The VAT entries posted beside a manual adjustment are not
kept. A reversal takes an entry's rates over, but for one of nothing, which
`reverseJournalEntry` reads as none (`KeptRate`).

**Actions.** One per operation, with its guards in one conjunction where the
code throws. A batch run is one action that posts everything due in one of the
orders the query may return; a run for which one template has too many
occurrences due posts nothing (`NoneHasTooManyDue`). `SetYearStatus` is
external: no code here sets the status of a financial year, though the engine
reads it and tests set it.

**Partnerships.** `shares` are the rows of the table, each up to the day it was
replaced on; a new share ends the one in force. `Allocated` is
`allocateByShares`: the year is cut into stretches over which no share changed,
each stretch's part of the amount by days is rounded, then each partner's share
of that, and what rounding leaves goes to the precedent partner or to who joined
first. A loan account is a flag of its partner (`lent`); what is owed on a day is
read from the journal, as `accountBalance` reads it, and what interest was
charged (`accruals`) is the audit trail that `interestPeriods` reads. The close
of a partnership's year posts one line per partner to whom anything falls.
Accounts are not archived in `YearEnd`, and a partner never leaves: no code
writes the day they do.

**VAT.** An entry has the box it goes to, its VAT, its tax point, and the
period it was declared in. What a treatment declares is a set of legs, two for
a reverse charge. Periods may be generated from any calendar and moved while
open; a date between periods belongs to none. The journals beside the entries
are reduced to their numbers, with the financial year open throughout. The
findings of `validateVatPeriod` kept are those a period's history can produce
(unclassified lines, entries dated outside, entries in no period); those about
a single entry's fields are left out, so the model marks ready at least as
often as the code does. `filed` holds the figures snapshotted at filing.

**Payments.** A document's row is kept as the table has it, `paid`,
`outstanding` and `status` written by each operation from what it read, so that
agreeing with the allocations that stand is a result. A payment keeps its
allocations signed as the document moved (`settled`), what was written off with
it (`shortfall`), the VAT in its entries (`released`), and what its own journal
(`moved`) and those posted when it was applied from account (`later`) moved on
each account; a journal is reduced to that. `declared` is the VAT register, by
document. VAT is one line to a document and may be deferred or not, whichever
basis is in force on its date. Each operation is one step; the database
refuses a transaction that read what another has changed since, but three of
them (`allocatePaymentOnAccount`, `applyCreditNote`, `unapplyCreditNote`) read
before their transaction begins, which this module does not show. A payment may name a
document in two of its allocations (`Repeats`): each is held to what was
outstanding before the payment, and releases VAT from what was paid before it,
as `recordPaymentSteps` and `computeVatReleases` do, so the document may be paid
beyond what it is for. `twice` remembers of a payment which documents it named
so. The portal's form offers each invoice once; the command line
(`record-payment`) and the agent pass on the list they were given. Relief on a
bad debt is computed from the rate on the document and what was written off.

**Bank lines.** A line is a fingerprint (`Prints`) and an occurrence number;
`imports` are the files in the order they came, `Held` how many lines of each
print a file has. Reading a workbook awaits: `reading` is what each request
waits for, and the import it ends with is one transaction that reads again what
lines there are (the code reads them after its last await, so nothing runs
between that and the transaction). Importing a file again on purpose
(`allowReimport`) is left out: nothing but tests asks for it. Matches are looked
for (`FindMatches`) for documents on no line: `matchAllUnmatched` takes only
those, and the other caller, confirming a document in `actions.ts`, does so at
once after the confirmation, for which the document had to be unconfirmed and so
unlinked. Scores and amounts are abstract: a proposal may name any eligible
line, and a payment any of the invoices posted. A line's entry is its own
(posted by classifying it, by linking it to an entry that is there, by an
expense claim's reimbursement, a payroll payment or a refund, all of which leave
the line as `PostLine` does) or a payment's. What else may refuse a step is left
to chance, so that the model takes every step the code takes: the ledger,
retention, duplicates, and evidence for assets and expense claims. Not shown:
the reverse-journal command of the agent (`agent/books.ts`), which reverses any
entry and leaves its bank line alone, and invoices made directly with a
document's id.

**Assets.** The ledger is reduced to amounts by account and day, `journals`
those of the register's own entries and `others` all the rest, so that the
register can be held against the ledger as `reconcileFixedAssets` does, on every
day. `Schedule` is `buildDepreciationSchedule` as a function, months counted
from the month of purchase. `disturbed` names the assets for which the code
itself breaks the agreement (a transfer dated before months already charged
leaves those in the old accounts; an asset disposed of at a later date may still
be charged), and the properties are of the others. `AcceptedForCost` are the
accounts `requireCostAccount` lets an asset be registered in or moved to: the
accumulated ones too, all but the system's own. The status `pending_review` is
reached by no operation of the register, and is left out.

**Stock.** `movements` are the rows of the table in the order of recording, each
naming the movement it returns or reverses (`related`) or the other half of a
transfer (`pair`). `Replay` is `replayItem` as a function of an item's method and
rows: one pool of cost for each place, with the receipts it is made of under
first in first out, and for each movement what it was worth. Every operation
records its rows and then replays the item; `sound` is that the replay did not
throw. A stocktake records a movement for every difference, in one step.
Damaged stock, adjustments and differences of a count have names of their own in
the table and are one kind here. A valuation keeps each item's quantity and value
at each place and its stock account; what it posts is reduced to the stock
accounts (`closing`), for the other side may be any expense account; `outside` is
what anything else posts on them, opening balances among it. Not shown:
places that are inactive, invoices that are void, locked years (each only
refuses more), and the review item raised by a refused closing. Assets and
stock share no state, so `Registers` keeps one of them in a behaviour.

**The browser's session.** `tasks` are the operations under way, each with what
it read when it began (the books and the key) and how far it is: `Commit`,
`Refuse` and `Abort` are the three ways a write to storage ends. The buttons
decide which may begin while others run (`AtGate`, `InBooks`): all but Lock and
Remove are disabled while the session is busy, and a download does not make it
busy, so changes and downloads overlap freely. Where Lock or Remove overtake an
operation, or one begins while the vault is being removed (`interrupted`), the
code promises nothing, and the properties of the session's contents are of
sessions in which that did not happen. `beside` remembers the changes begun
while a download was under way: its end stores the older copy and lowers the
reminder, so of these changes, and of no others, the properties promise less.
Books are the set they were created as and the changes made to them.

## The runs

| Run | Instance | Shows |
|---|---|---|
| `journal` | 3 accounts, 3 days, 3 years of which one overlaps the others, euro and dollar, 8 postings of which half must be refused, 3 entries | balance, reversibility, rounding, one year, locks, archived balances; implements `AppendOnlyLedger`, which says that a reversal is the exact opposite |
| `schedules` | 1 template, 1 expense account, 3 days, 2 years, 3 entries | occurrences once, runs catch up, timing runs settle |
| `year_end` | a company or a partnership of 2; 2 years, of two days and of one; income, rent and interest; shares of a half and all; one partner lends; load 8 for a company and 7 for a partnership | closes empty the accounts, and what a year is reported to have earned is what its entries gained; an ordinary year can be closed, however it divides; no loan account is overdrawn |
| `vat_periods` | 3 days, 2 periods, an invoice under reverse charge, a receipt, 3 journals | filed and locked returns stand, corrections net out, periods disjoint; implements `FilingRegister` |
| `payments` | an invoice of 4 with 1 of VAT, a credit note of 2 with 1, payments of 1, 2 or 4, a document named again for 2, one bank line, 2 payments | documents, control accounts, money held and VAT follow the payments that stand; taking everything back restores the VAT |
| `bank_lines` | 2 documents, interchangeable; lines of one print; a CSV file with one of them and a faulty row, a workbook with two; 3 imports, 2 numbers, load 4 | numbers run on, an import brings up to the file, lines agree with the books, what is used is confirmed, the evidence of a payment stays |
| `registers` | assets: 2, with 2 cost and 2 accumulated accounts, interchangeable but for the main one, 3 months of a day, a straight-line plan whose shares do not divide, and a reducing-balance one; load 4. Or stock: an item, 2 places, 2 stock accounts, quantities 1 and 2, 3 units billed at 10, 2 sold, a unit cost that does not divide, 2 days of 3; load 4 | charges follow the schedule, the register explains the ledger; no history goes below nil or loses a cent, what comes back costs the same, valuations stand, the ledger carries them |
| `vault` | 2 sets of books, 2 changes (3 in all), 1 file, 2 operations at once | no saved change is lost, the reminder tells of every change, but for changes begun during a download; the key goes with its books, the buttons come back |
| `recurring_edit` | two months of two days | **violated**: an edited start date posts past months again |
| `close_twice` | one year, 6 entries | **violated**: a third close while the second stands |
| `late_declaration` | as `vat_periods`, 1 journal | **violated**: VAT declared late, as the engine proposes, blocks the return |
| `vat_releases` | the invoice alone, 3 receipts of 1 or 3 | **violated**: fully paid, it has declared twice its VAT |

**Bounds.** `MaxEntries`, `MaxPeriods`, `MaxJournals` stop the books growing.
Three entries are an entry, its reversal and the reversal of that, with a lock
or an archived account anywhere between; three days and years of unequal length
give every relation two spans can have, overlap, adjoin, contain and apart. The
rates (a half, and par) make separate conversions differ by one, and by more.
Four entries admit two closes, or one taken back, around what they close; six
are needed for the third close. Three journals admit a classification and its
replacement (two journals) beside an invoice, or an invoice and its void beside
a receipt. A template's months all have one length, so the clamping to a month's
last day does not arise. Two payments (`MaxPayments`) are a receipt and its
refund, a receipt and a credit note, or two instalments, with any number of
applications and reversals of them; half of the invoice's VAT is half a unit, so
that instalments round; naming the invoice twice for 2 pays it in
full, or beyond after a payment of 1. The limit of occurrences due (`TooManyDue`, 1,000
in the code) is four in `schedules`, where three days never reach it, and the
theorems hold for any. Two operations at once (`Tasks`) are every pair that can
overtake one another; `MaxMade` allows a set of books with two changes or two
sets with one, `MaxFiles` one download. `MaxLoad` counts, of bank lines,
imports, match records, payments, documents reviewed or being read and workbooks
awaited: four are, say, two imports, a match and a payment on it, or a confirmed
document, an import, a payment and a reading still under way; two numbers
(`MaxRows`) are a line and its twin, a line undone and imported again, or the
second line of the workbook after the first came from the CSV file. At year end
it counts entries twice and shares once: eight are a company's four entries;
seven a partnership's three and the share of one partner, or two and three
shares, of two partners, one changed within a year of two days. Of assets it
counts accounts and days with other postings, assets, transfers and disposals:
four are two purchases and two assets, or a purchase, an asset, a transfer and a
disposal, with any number of runs between them. Of stock it counts movements, a
transfer as two and an adjustment as two, valuations, items given another
account, and twice each stocktake and each account and day with other postings
(`MaxStock`): four are a receipt, an issue and two returns or the reversal of
one, a receipt moved and sold, two receipts and two issues recorded in any order
of their days, a draft counted before a valuation and posted after one, or
receipts valued twice with the account changed between.

The type invariants of `Journal`, `Schedules`, `VatPeriods`, `BankLines` and
`VaultSession` are proved, and not checked again by their runs.

**Deadlock** is not checked for `year_end`, `close_twice`, `vat_periods`,
`late_declaration`, `payments`, `vat_releases` and `registers`: at their bound,
with nothing left to configure, the books really stop.

**Fairness and liveness.** In the books none is assumed and no liveness is
claimed: nothing in this repository schedules the due runs, or files a return;
a person does, or does not. What a run must achieve is stated of the run itself
(`RecurringRunCatchesUp`, `TimingRunSettles`). In the browser each operation
under way is weakly fair (`FairVaultSpec`): a promise of the cipher or of the
storage settles, and what awaits it runs. Nothing is assumed of the user. An
aborted storage transaction settles nothing (`Abort`), and `ButtonsComeBack`
says that it is the only way to a page that stays busy.

## The findings

* `recurring.ts` says "Editing a template changes only future occurrences".
  What is posted is recognised by its exact date, so after the start date is
  edited the next run posts every past month again, on the new day.
* `yearEnd.ts` says a close "Refuses to run twice for the same year", ADR 0009
  that it "refuses a second close only while the first stands". The query
  takes one of the year's closes; with a reversed one there, it may be that.
* `engine.ts` offers to declare a late document in an open period;
  `periodClose.ts` then holds the entry against that period as dated outside
  it. Nothing reassigns an entry, so the period can never be marked ready.
* `payments.ts` says that with cumulative shares "the releases always sum to
  exactly the invoice's VAT once it is fully paid". What was released before is
  taken from the amount paid; a reversal takes back what that payment released.
  Pay 1 of 4 (releases none of 1 by rounding), 1 more (releases it), reverse
  the first, pay the other 3: it is released a second time. While only receipts
  that stand have settled the invoice, none of them naming it twice, the claim
  holds (`DeclaredIsTheShare`), and when everything is taken back
  `TakingBackRestoresTheVat` does; between them a unit can be declared twice, or not.

Seen and not stated as properties: an entry posted before its VAT period is
generated stays in none, and blocks the period generated over it (`Orphaned`); a
financial year's overlap is checked outside the transaction that inserts it; an
income account standing in debit composes a negative closing line, which the
engine refuses, so such a year cannot be closed; an invoice named twice in one
payment may be overpaid, against "Overpayments must be recorded deliberately,
not absorbed into an allocation" (payments.ts 245-246), and its VAT released
twice or not at all (2 and 2 of 4 with 1 of VAT release 1 each; 1 and 1 release
nothing); the reversal of a close's reversal puts the close back, and the profit
and loss account, which leaves out closes and what reverses them only (ledger.ts
78-82), then reports the year as nil; a change made while the vault is being
downloaded is saved, then overwritten in the browser's storage by the older copy
(session.ts 219), while the reminder to download is lowered (session.ts 223), so
that closing the page loses it; "More than 1,000 occurrences are due" is said of
exactly 1,000 (recurring.ts 350-352); Lock pressed while a change is being saved
is undone by its end, which puts the books back, locked and without their key;
`export.tsx` says the vault "stays in this browser until you remove it", and
creating a second set of books at the gate stores it over the first. Of bank
lines: an import is refused with "Undo those first" (import.ts 649-650), but a
payment that was reversed and a match that was accepted, and undone since, still
hold it back; rejecting a document in use says "Void or unlink the invoice
first" (review.ts 448), and voiding does not free it; accepting a match takes a
document off the line it paid; a payment may be recorded against a line that was
rolled back and posts it again (payments.ts 313); an agreed line can be
reclassified; a document confirmed while it is being read keeps the extraction
status `extracting`. Of assets: a purchase is looked for as of its own date
only, so that assets of later dates together may claim more than the books show,
against register.ts 113-114; a transfer dated before months already charged
leaves them in the old account; a run up to a day before the disposal makes an
asset active again (depreciation.ts 189, 258-262); a share that rounds to
nothing ends the schedule short of the residual value; an account named for
accumulated depreciation, other than the system's own, is accepted for an
asset's cost (register.ts 40) and then reported by the reconciliation, which
goes by the name (register.ts 49), to differ by that cost; nothing but the tests
calls `disposeAsset`. Of partnerships: with amounts of a few cents and many
partners what rounding leaves is more than "a cent" (partners.ts), and may turn
the part of who takes it negative; interest whose reversal was itself reversed
stands again, and its days may be charged again, for `interestPeriods` asks only
whether the entry was reversed; that the days of interest do not overlap is
asked outside the transaction that posts it; a share may be changed from a day
in a closed year, and the tax allocation of it, which "cannot disagree" with the
books, then does; a year left unclosed is divided by the shares of the later
year that closes it. Of stock: reversing a movement with returns is refused with
"reverse them first" (movements.ts 354), and a return that was reversed still
counts as one, as it does towards what has gone back to the supplier; opening
stock that was reversed and recorded again counts twice in what the first
closing expects of the ledger (closing.ts 101-105), and the refusal asks for
opening stock that cannot be taken off; deliveries against a line, of which one
was reversed and received again in other parts, need not cost its net together;
under weighted average, a supplier return in parts rounds each part, and the
reversal of a receipt takes all the pool holds when it takes its last unit;
closing stock is planned outside the transaction that posts it.

## What is proved

For every value of the constants that meets the ASSUMEs of the modules
(`CurrenciesAssumption`, `ConfigurationAssumption`, `PostingsAssumption`,
`TimingAssumption`, `RecurringAssumption`, `PartnersAssumption`,
`LoansAssumption`, `YearEndAssumption`, `VatAssumption`, `DocumentsAssumption`,
`StatementsAssumption`, `UnlinkedAssumption`, `LastDayAssumption`,
`AssetsAssumption`, `LocationsAssumption`, `StockAssumption`, `VaultAssumption`,
`NoneAssumption`: types, the rounding account is a system account, templates,
documents, assets, places and partners are finitely many, as rows of a table
are, templates carry different references, rates have a denominator, the
accounts of owners and of loans are not income or expense accounts, each
partner's loan account is their own, spans of a calendar are disjoint, legs of a
treatment go to different boxes, and the absence of a thing is not one of the
things).

* `Books_proofs`, of `Journal`. `TypeInvariant`, then `JournalInvariant`: type
  correctness, `EntriesSound` (each entry's lines are well formed and balanced),
  `EntriesDated` (each lies in its own, generated year), `YearsDisjoint`,
  `LinksSound` (links point at each other, forward in time). The properties
  alone are not inductive: that an entry is in one year needs the years to be
  disjoint, that a reversal is accepted needs the original's lines to be well
  formed with their rates, and that exchanging sides exchanges the totals (a
  lemma about the sums). From it `EntriesBalance`, `EntriesCanBeTakenBack`,
  `EntriesInOneYear`, `BooksStayShut` and `JournalImplementsLedger`, the
  refinement to `AppendOnlyLedger`. `RoundingHidesNoImbalance` remembers of an
  entry that was converted what was asked (`AskedAndRounded`):
  `withFxRoundingLine` adds its line only within half a unit for each line
  converted. It has a hypothesis of its own, `LeaveRoundingToTheEngine`: no
  caller posts to the rounding account itself. Of a caller who does the property
  says nothing that is true, for what they post there is not rounding.
* `Books_proofs`, of `Schedules`. `BookStep` says what any step does to the
  books: it adds entries the engine accepted, keeps the others but for their
  links, and a link it writes names a new entry with the lines exchanged. A
  batch is a bijection from 1..n to a finite set (`BatchShape`), which is why a
  run leaves nothing out and does nothing twice. `SchedulesInv` adds to the
  types that adjustments are finitely many, that entries are sound and that
  links are matched (`BackLinked`). From it `SchedulesTypes`,
  `OccurrencesPostedOnce` (an old entry with the reference and the day keeps the
  occurrence out of the batch, and in a batch no two are alike), `RunCatchesUp`,
  `RunSettles` (each entry of a run takes off an adjustment that was due and
  stood before the run, so none is taken off a second time) and
  `SchedulesImplementLedger`, by the same lemma as for the journal.
* `Totals_proofs`. A sum is defined by the recursion of the community modules'
  folds, which takes elements out in an order nobody knows. No induction over
  sets is needed: of the subsets of a finite set on which a fact about sums
  fails, one contains no other (`SmallestSubset`, from the library's order on
  finite subsets), and taking one element out of that gives the contradiction.
  So: any element may be taken out first, sums add up term by term, split, and
  do not depend on what their terms are indexed by.
* `Books_proofs`, of `YearEnd`. `BooksInvariant`: `JournalInv`, every share of a
  recorded partner, finitely many shares, one precedent partner at most, every
  account in use. `BooksStep` says what any step does to the journal: it closes
  a year, lends, repays, posts or reverses something else, or leaves it alone.
  `ClosesEmptyProfitAndLoss`: a closing entry moves on each account exactly what
  stood on it, and a later entry does not change what the earlier ones left.
  `ReportIsWhatWasGained`: entry by entry, one the report counts moves on the
  income and expense accounts what it leaves with the business, and one it
  leaves out, a close or the reversal of one, moves there the opposite of what
  it moves on the owners' accounts. Two premises: only closes and what reverses
  them reach the owners' accounts in which results end
  (`OnlyClosesReachOwners`), and no reversal of a close was itself reversed
  (`RestoresAClose`), which the report does count. `NoLoanOverdrawn`: an advance
  or interest only adds to what is owed, and a repayment is at most the least
  that is owed on any day it counts on. `PartsAddUp`: one partner, and one only,
  takes what rounding leaves. From it `OrdinaryYearsCanBeClosed`: the emptying
  lines net to the result and the owners' lines to its opposite, whatever the
  order of either; and there are two lines, because one account alone leaves a
  result. `YearEndImplementsLedger`: the refinement, by the lemma of the
  journal.
* `VatPeriods_proofs`. `VatTypeInvariant`; `PeriodsNeverOverlap`;
  `LockedReturns`, from the lemma that each step adds entries only to writable
  periods; `FiledFigures`, from the two before it; and `FilingIsARegister`, the
  refinement to `FilingRegister`. `Corrections`, from `CorrectionsInv`: the VAT
  entries are finitely many and carry numbers already given; a posted invoice's
  are what one journal declared; of a bank line those of the journal that stands
  are what one journal declared, and all the others net out. The property itself
  speaks of the sum only and is not inductive: a void or a reclassification
  negates the entries of one journal, and it has to be known what those alone
  come to.
* `Payments_proofs`. `PaymentsInvariant`: besides the types, of each payment by
  itself that its journals balance on the control accounts with what it settled,
  wrote off and released (`Sound`); of those that stand together, that a refund
  is of one that stands and went the other way, that what is left of each after
  its refunds is not negative and that no two have a bank line in common
  (`BookSound`); that only posted documents are settled, and the posted bank
  lines are theirs (`PostedLines`); and that the rows of the documents, the VAT
  register and the accounts are sums over those that stand (`DocsSound`,
  `Controlled`). None of the properties is inductive alone. That the debtors
  account agrees after a reversal, say, needs what each payment moved on it to
  be what it did to the documents, and that no row goes against its sign needs
  all that settle a document to settle it the same way; that none but a document
  named twice is paid beyond what it is for is `PaidWithin`, kept by itself. One
  lemma says what adding a payment to the book changes of every sum, one what
  taking one off it does, and one what replacing one by itself applied further
  does; every operation is one of the three. From it `PaymentsStayTyped`,
  `PaidFollowsWhatStands`, `MoneyIsSpentOnce`, `ControlAccountsAgree`,
  `TakenBackTheVatIsRestored` and `NoCentLeftDeferred`.
* `BankLines_proofs`. `BankInvariant`: types, payments against lines there are
  and for invoices that were posted (`PaymentsJoined`, `InvoicesJoined`),
  numbers without a gap, lines that agree with the books, documents used as they
  were confirmed. That numbers run on needs a lemma about counting: the k-th
  number that no line taken back holds leaves none below it free (`RunsOn`).
  From it `BankTypeInvariant`, `NumbersAlwaysRunOn`, `LinesAlwaysAgree`,
  `UsedIsConfirmed`, and of steps `PaidEvidenceAlwaysStays` and
  `ImportsBringUpToTheFile`.
* `Registers_proofs`, of `Assets`. What the recursion of a schedule computes is
  taken apart first: it has a solution over any number of months, each month
  adds nothing or more, it never exceeds what is depreciable, and the last month
  takes what is left. `AssetsInvariant`: the charges of an asset are the first n
  months of its schedule, and its row has their sum (`ChargesInv`); the accounts
  in its row are those its last transfers led to (`Placed`); and the register's
  journals come, account by account, to the sum over the assets of what each
  one's row and first account say (`PostingsInv`), the cost and the depreciation
  of assets kept apart where one account takes both. Asset by asset, because a
  run posts for several in one journal, and the ledger keeps one figure for an
  account and a day. From it `DepreciationFollowsTheSchedule` and
  `TheRegisterExplainsTheLedger`.
* `Costing_proofs`. What a replay comes to. The recursion of `Replay` is over
  the sets of movements done so far, each from the set without its latest: it
  has a solution over a finite history, by counting up the size of the sets.
  Then what every replay that is not refused is after each movement (`Good`,
  shown for each kind of movement by `AppliedGood`): what a place holds is the
  sum of what moved there and of what it cost; its layers come to that, and what
  holds no quantity has no value; what has come back of an issue is its
  quantity's share of what the issue took (`Accounted`); and first in first out
  the layers of a receipt hold together no more than has not gone back, and
  while they hold all of that, all it cost (`Receipts`). The last is needed
  because a transfer spreads a receipt over places and a return may take it back
  from any of them. And a replay of fewer movements does the same to those it
  replays, when no transfer is cut in half (`SegmentReplays`): so a history that
  is not refused is not refused on an earlier day.
* `Registers_proofs`, of `Stock`. `StockInvariant`: a movement refers to earlier
  ones, of its item and the other way, and the halves of a transfer follow one
  another (`MovesSound`); no item's replay is refused (`EveryReplaySound`), and
  so each is `Good`, because every operation replays what it records, and an
  item's method may change only while it has not moved; the valuations are in
  the order of their days, and the stock accounts hold what the last of them
  left (`LedgerInv`). From it `NoHistoryGoesBelowNil`,
  `WhatComesBackCostsWhatItDid`, and `TheLedgerCarriesTheValuation`: a closing
  posts, account by account, what it values less what the ledger already holds,
  on the accounts of the valuation before it as well, and posts only after that
  one's day. `PostedValuationsStand`: a step that records anything is after the
  last valuation, so the rows a valuation was computed from are the same ones,
  under the same numbers; this needs nothing of what the methods compute.
  `RegistersAreBoth` carries everything shown of either register to the two
  together, and with it `RegistersAreTyped`.
* `VaultSession_proofs`. `VaultTypes`, which needs that an operation that saves
  carries books and their key (`CarriesBooks`); `SessionUndisturbed`, the
  inductive invariant of a session in which Lock and Remove overtook nothing.
  Which operations may then be under way together (`OverlapsFit`): the first
  reading of the storage beside anything, downloads beside one another, and a
  download beside a change that knows of it, in whichever order they began. What
  each carries (`TasksFit`): a change the books in memory and itself; a download
  the books in memory but for changes begun beside it, and its file once
  delivered; what was written is what is stored, where no download may come
  after. That is why what `mutate` and `importFiles` read before they wait is
  current when they end, and why `beside` is the whole of what a download may
  lose. The properties alone are not inductive: they say nothing of what waits
  to be written or put back. From it `SavedChangesKept`, `ReminderIsHonest` and
  `KeyStaysWithItsBooks`.

**Only model-checked:** `ButtonsComeBack`, which is liveness, and the four runs that
expect a violation. Every other property of a run is a theorem.

## What is not modelled, and the plan

In this order:

1. `Payments` in two processes, the operations that read before their
   transaction split in two; suppliers' bills.
2. Recurring invoices, which post like `Recurring`, and expected bills.
3. Livestock, payroll and expense claims: records that post, and are read back.
4. The watched folder, and the retention of documents.

Left out: parsing and formatting, tax computations and the rules knowledge base
(pure functions over large tables), reports, search, backup, and the callers
(server actions, command line, agent), which add no state of their own.
