# Finacc: specifications, model checks and proofs

Finacc is a multi-tenant accounting system: a Django/DRF backend on PostgreSQL,
served by several gunicorn worker processes. Users of one entity (a company,
with branches called subentities, and financial years) enter documents —
invoices, credit notes, receipts, payments, journals — and move them through a
life cycle (draft, confirmed, posted, reversed or cancelled). Posting writes the
general ledger through one engine; sales and purchases also keep a subledger of
open items, settlements and advances. The specifications here are about that
core: what concurrent requests, repeated requests and long sequences of legal
requests may do to the ledger, the receivables, the receipts, the numbers, the
ends of years, the reconciliation with the bank, and the payments of vendors.

1. [Inventory](#1-inventory)
2. [Plan](#2-plan)
3. [Modules](#3-modules)
4. [Runs](#4-runs)
5. [Bounds and fairness](#5-bounds-and-fairness)
6. [Proofs](#6-proofs)
7. [What the runs found](#7-what-the-runs-found)
8. [Not modelled](#8-not-modelled)

## 1. Inventory

### 1.1 Components

| Component | State | Operations | What makes it correct |
|---|---|---|---|
| **posting** (`posting/`) | `PostingBatch` (revision, `is_active`), `Entry`, `JournalLine`, `InventoryMove`, all under the locator (entity, year, branch, type, id) | `PostingService.post`: lock, check the year, number, deactivate, create batch, delete, upsert entry, insert, check balance | one active batch per document; the ledger shows exactly that batch's lines under one entry; what is stored balances; revisions order the batches; a closed year is frozen; every posting ends |
| **year-end close** (`reports/services/controls/`: `year_end_close.py`, `opening_generation.py`, `opening_preview.py`, `posting_rollback.py`) | rows of `EntityFinancialYear` with flags, lock dates and the metadata of close, opening and review; the closing and opening journals | close, review, generate and lock the opening of the next year, roll back either | the closing journal covers every posting of the year; an opening rests on a closed year; what is on record has its journal; an opening is not made twice |
| **receivables** (`sales/services/sales_ar_service.py`) | `CustomerBillOpenItem`, `CustomerSettlement` with lines, `CustomerAdvanceBalance` | sync, repair and close open items; create, post and cancel settlements; create advances; automatic credit-note adjustment | what an item or advance shows is what posted settlements did to it; nothing is overdrawn or over-settled; open means owing |
| **sales invoices** (`sales/services/sales_invoice_service.py`) | `SalesInvoiceHeader` (status, amounts, settlement mirror) | create, edit, confirm, post, reverse, cancel, apply_settlement | a posted invoice is not edited; its mirror agrees with its open item |
| **receipts** (`receipts/`) | `ReceiptVoucherHeader` with allocations, advance adjustments, and links to settlements and an advance | edit, confirm, post, unpost, cancel, workflow | a receipt is applied once; unposting undoes it; no money is lost or counted twice |
| **payments** (`payments/`) | the payable twin of receipts | the same, with an earlier number retry | the same |
| **document numbering** (`numbering/`) | `DocumentNumberSeries` per scope, type and year | allocate, preview; the settings screens of each module | numbers are unique, kept, not skipped, and found when there is one |
| **journal vouchers** (`vouchers/`) | `VoucherHeader`, lines | edit, delete, confirm, post, unpost, cancel | balanced journals, posted once |
| **purchases, payables** (`purchase/`) | vendor invoices, open items, settlements, advances | as for sales; settlements also on behalf of treasury batches | as for sales |
| **inventory, manufacturing, opening stock** | stock moves, work orders | transfers, adjustments, production | stock and its value agree with the moves |
| **bank reconciliation** (`bank_reco/`, and the first generation in `bank_reconciliation/`) | runs, imported statement lines, matches with their two sides, vouchers made from lines | import, match by the engine or by hand, unmatch, put lines aside, make a voucher, mark, lock and unlock a run | a line on either side is matched for good once; its status says so; the sides agree; a locked run rests |
| **treasury** (`treasury/`) | payment batches, instruments with their links to matches, cheque books and leaves, cash movements | batch, validate, approve, export, pay, fail, cancel; issue, clear, bounce | a bill is paid once and to its amount; a paid batch was paid in full; a leaf is used once |
| **payroll, hrms** | runs, components, attendance, leave | compute, approve, post | a run is posted once |
| **assets, capital distribution, withholding, GST** | schedules, shares, thresholds, return lines | compute, post, reconcile | arithmetic agrees with the rules |
| **entity, financial, rbac, subscriptions, Authentication, platform_ops** | master data, permissions | CRUD | — |
| **reports, dashboard, cfo** | none | reads | totals agree with the ledger |

### 1.2 How they interact

Every service runs inside the worker's request, in `transaction.atomic` at
PostgreSQL's READ COMMITTED. There are no messages between components: they call
each other and share rows.

* Document services call `PostingService.post` in their own transaction, most of
  them after `select_for_update` on the document's header.
* `SalesInvoiceService.post` calls `SalesArService.sync_open_item_for_header`;
  `reverse_posting` and `cancel` close the item.
* `ReceiptVoucherService.post_voucher` creates and posts settlements and an
  advance in the receivables; `unpost_voucher` cancels them. The settlement
  endpoints act on the same rows.
* Confirmations draw numbers from `DocumentNumberService.allocate_final`, which
  locks the series row; the settings screens write that row without a lock.
* Year-end close sets the flags that `PostingService` reads without a lock, and
  posts its closing and opening journals through it.
* Bank reconciliation matches journal lines that `PostingService` wrote, creates
  and posts bank vouchers for statement lines, and links the treasury's
  instruments. Its matches protect their journal lines from being deleted, so that
  a matched voucher cannot be unposted.
* Paying a treasury batch creates and posts a settlement through
  `PurchaseApService`, whose settlements users also make by hand.

### 1.3 What is hard

Concurrent requests for one document; rows read before a lock is taken and saved
after (`update_with_lines`, `update_voucher`, `confirm_voucher`, the repair of open
items, the settings screens), or used after (the automatic adjustment of a credit
note); sequences
such as post – settle – reverse – edit – post, or post – unpost – post; reads that decide and are repeated under the lock, or
not (closing a year, generating an opening, paying a batch); automatic
work that must happen once (credit-note adjustment, resumed settlements);
tolerances and boundaries; bounded retries for numbers; unique constraints that
ignore NULL. `PROJECT.json` lists every such hazard at its line, with the
properties aimed at it. There are no queues, no background retries and no lost
messages: a failed request rolls its transaction back.

## 2. Plan

Done, in the order of the plan: `Posting` with its abstract `Ledger` and
`PostingProofs`; `Receivables`; `Receipts` over it; `Numbering` with
`NumberingProofs`; `YearEnd` with `YearEndProofs`; `Reconciliation`; `Treasury`
over the settlements of the payables, with its abstract `Allocation` and
`TreasuryProofs`.

Next, models:

1. `Allocation`, which `Treasury` implements, for `Receivables` as well: there a
   reversal changes what a document is worth, and one step may settle several.
2. The rest of `Receipts`: `update_voucher`, approval workflow, the relaxed match
   rule, auto-FIFO allocation; the rest of the payables (advances, credit notes,
   synchronisation with invoices) and `Payments`, whose code differs from the
   receivable side in what they lock and what they refuse.
3. `Vouchers`: the journal's life cycle with its approval workflow.
4. Overlapping requests of bank reconciliation; the first generation of it.
5. `Cheques` (books, leaves and instruments), `PayrollRun`; stock moves and
   product locks.

Theorems done: every safety property a passing run checks, with the refinements of
`Ledger` by `Posting` and of `Allocation` by `Treasury`; and of some of the
violations what must not happen for a property to hold (`ClosesCover`,
`OnlyEngineBreaksLocks`), or what depends on it (`Protected` in `PostingProofs`).
Two theorems about receivables assume `SelfHeal`, which the code does not ensure.

## 3. Modules

| Module | Models |
|---|---|
| `Ledger` | What posting promises: each document shows one posting or none, and a step replaces the whole of it. |
| `Posting` | `PostingService.post`, one action per SQL statement, for any number of concurrent runs. |
| `PostingProofs` | Proofs about `Posting`. |
| `Allocation` | What settling promises of the bills: a settlement takes of them once, within what the others have left, and gives back all or nothing. |
| `Receivables` | `SalesArService` and the invoice life cycle around it. |
| `Receipts` | `ReceiptVoucherService` over `Receivables`. |
| `Numbering` | Series, allocation, the life of the payments, receipts and journals that draw numbers, settings screens. |
| `NumberingProofs` | Proofs about `Numbering`. |
| `SumTheorems` | Facts about sums over finite sets and about loops, for the proofs. |
| `ReceivablesProofs`, `ReceiptsProofs` | Proofs about `Receivables`, and about `Receipts` over them. |
| `YearEnd` | Closing a year, opening the next, rolling back, against postings under way. |
| `YearEndProofs` | Proofs about `YearEnd`. |
| `Reconciliation` | Matching statement lines with journal lines, in several runs over one account. |
| `ReconciliationProofs` | Proofs about `Reconciliation`. |
| `Treasury` | Payment batches and the vendor settlements they and users post. |
| `TreasuryProofs` | Proofs about `Treasury`. |
| `MCPosting`, `MCReceivables`, `MCReceipts`, `MCNumbering`, `MCYearEnd`, `MCReconciliation`, `MCTreasury` | The instances TLC checks. |

### Posting

A *run* is one call of `post`, with its worker process, its document and its
lines. `stage` is the statement it has reached. Rows are named by the run that
wrote them: `active` holds the committed active batches, `rows` the runs whose
lines are in the ledger, `entryBatch` the entries and the batch each refers to.
What a transaction has done and not committed is in `off` (batches deactivated),
`del` (rows deleted), `ent` (the entry written) and becomes visible in `Commit`.

READ COMMITTED is modelled where it matters: an UPDATE or DELETE takes its
snapshot when it starts (`FindPreviousBatch`, `FindExistingRows`; `seen`), then
waits for locked rows and re-examines only those it had found
(`DeactivatePreviousBatch`, `DeleteExistingRows`). A row inserted and committed
meanwhile is missed, as in PostgreSQL. A unique index makes an insert wait for a
pending rival and fail on a committed one, but only for documents in
`ScopedDocs`: NULLs are distinct, so the index does not see entity-level
documents. `KeyOf` is the advisory key a process computes: Python salts the hash
of strings per process. `HeaderLocked` are the documents whose callers hold the
header's lock. `Rollback` is any failure or a crash, at any statement.

Inventory moves are deleted and inserted next to the journal lines and share
their fate, so they are not told apart.

### Receivables

`header` (status, amount and the settlement mirror of an invoice or note), `item`
(open items), `advance`, `settlement` (with lines; `marker` stands for the
reference number that ties it to a credit note or a voucher). Most operations lock
the settlement, its lines' open items and the advance, or the invoice header,
before they read them, and until they commit: each is one action, computed on a
record of the books (`Books`, `Become`) so that operations that call others compose
as the code does. The others read first and write later, and are split:

* `update_with_lines` checks and saves a header that was read before any lock
  (`BeginEdit`, `SaveEdit`; `editing` is the copy). `apply_settlement` works on such
  a copy too, or on the current header, but writes two columns only.
* `repair_open_item_if_drifted` computes what the document is worth from the rows of
  a list, and writes it when it has locked the item (`BeginRepair`, `FinishRepair`;
  `repairing` is what it computed).
* The posting of a credit note reads without a lock what the invoice it corrects
  owes, makes a settlement of that, and locks the invoice's item when it posts the
  settlement (`SeeOriginal`, then `PostInvoice`, or `GiveUpPost` if it is refused;
  `adjusting` is what was read). The note's own header and item stay locked between
  the two, so what needs them waits (`Unlocked`, `LinesFree`), while the invoice may
  be settled, edited or reversed.

Amounts are paise; `TOL` is the code's 0.01.

Policy controls: `BlockOver` is `over_settlement_rule = block`; FALSE is the rule
that clips a line to what is left. `AutoAdjust` is `auto_adjust_credit_notes`.

### Receipts

`voucher` is the status of each receipt and its links to settlements (the
header's `ap_settlement` and one per advance adjustment); `confirming` are the
calls of `confirm_voucher` that have read a draft and not yet written. Amounts
and allocations of a voucher are constants. Policies are the defaults:
confirmation required before posting, allocations required and matched exactly,
settlements and advances synchronised, residuals made advances, unposting back to
confirmed. Beside the vouchers, users create, post and cancel settlements
directly — including those a voucher made.

### Numbering

`setup` is what the vouchers of a behaviour are, chosen at the start: payments
(which try up to 25 numbers, `PaymentTries`), receipts or journals (which try one);
whether their series restart, whether somebody opens their settings screen, and the
counters that may be typed on it. `series` of each scope holds the next number and
the period of the last reset; `voucher` the status and number of each voucher;
`form` the counter an open screen was loaded with; `given` is a history variable,
the numbers vouchers of each scope ever had.

Drawing a number and saving the voucher is one action, since the series row stays
locked until the transaction ends. `ConfirmVoucher`, for payments and journals, and
`MoveVoucher` (posting, unposting to draft or confirmed, cancelling) lock the
voucher before they read it. `update_voucher`, the deletion of a draft and the
confirmation of a receipt do not: `opened` holds the copies that slow requests have
read (`OpenVoucher`), and `SaveEdit`, `DeleteVoucher` and `ConfirmReceipt` work on
any of these or on the voucher as it stands. An edit saves every column of the
copy, so it may take a number away, give an old one back, or insert a deleted row
again; the unique constraint (`Free`) is all that stops it. A draft has a number
after it was unposted to draft, or after such an edit.

The date that decides on a restart is any (`Numbered`): a payment's or a receipt's
can be edited, a journal is numbered for the day of its confirmation. Left out are
edits of the document code and of the starting number, which lead to a series of
their own or to the counters that `typed` stands for, and policies that let a draft
be posted unconfirmed; by default they do not.

### YearEnd

`years`, `active` and `closed` are the rows of `EntityFinancialYear` and their
flags; `closing`, `opening`, `lifecycle` and `rolledBack` are what the metadata of
each year records; `ledger` holds the closing and opening journals by year and
scope, and `posted` the documents. A close, a generation and a posting each read
first (`BeginClose`, `BeginGenerate`, `BeginPost`; the call with what it read is in
`calls`) and write later in a transaction that locks the years' rows and repeats
the checks the code repeats. Rollbacks, the review of an opening and its lock
decide under the lock and are one action. A journal is the set of documents whose
income it closes or whose balances it carries: amounts are left out. A generation
creates the next year when there is none, makes it the only active one and
remembers those that were; rolling it back restores them, and deletes the year it
created when nothing uses it.

### Reconciliation

`matches` are the rows of `BankReconciliationMatch`, in the order they were made,
with the allocation of either side; `shown` and `exception` are the two statuses
of each statement line, `status` and `lockedBy` those of the runs; `book` says
whether a journal line is posted, `voucher` which one was made for a statement
line; `link` is what an instrument is linked to. A request is one action that
computes on the tables (`Created`, `Withdraw`, `Refresh`) and commits them with
the recalculated status of its run (`Commit`). `AutoMatch` is the whole engine,
line by line, with confirmations, suggestions and what each makes unavailable to
the next. Scores are a constant: what the engine computes from amounts, dates and
texts is reduced to their order and the gap that makes a match safe. `cl`, the
instruments cleared at the moment, is any set: they clear and bounce elsewhere.

### Treasury

`status`, `line` and `failed` are a batch, its items with the amounts taken when
it was made, and whether it has `failed_at`; `settled` is that of each vendor open
item, `voucher`, `asked` and `applied` are settlements — one for each batch, named
as it, and those of users. Every operation of a batch locks it, so it is an action;
`mark_paid` checks what the items owe without locking them and posts its
settlement afterwards, and is two (`BeginPay`, `FinishPay`). `rule` is the
over-settlement rule of the purchase policy. `Allocation` is its abstract
specification: `taken` is what settlements have applied, and `over` those that were
posted or cancelled, which is final.

## 4. Runs

Passing:

| Run | Shows | States |
|---|---|---|
| `posting_serialised` | With an agreed lock (the header's, or one advisory key), any interleaving of three postings keeps one active batch, a ledger that is that batch, balance, ordered revisions — and implements `Ledger`. | 166,720 |
| `posting_scoped` | Without any agreed lock, the unique index alone keeps one active batch of a branch document (that the ledger shows it is `LedgerCurrent`, section 6); every posting that begins commits or aborts, so the waits for rows and indexes close no cycle. | 124,728 |
| `receivables_settle` | Two invoices, one of them also saved from a stale header, an advance and two settlements around every boundary, clipped to what is left: what items, headers, advances and settlements say agrees; nothing is over-settled or overdrawn. | 414,368 |
| `receivables_adjust` | A credit note that is adjusted against its invoice automatically, while users settle both between the read and the lock, edit the invoice (also from a stale header), type settled amounts and repair open items late: the adjustment takes the same off either but for the tolerance, never more off the invoice, and items are what settlements made them. | 218,960 |
| `receipts_lifecycle` | Receipts posted, unposted, reopened by a stalled confirmation, re-posted and interfered with by hand: never applied twice, never in effect without standing behind it, every rupee accounted for. | 11,934 |
| `numbering_confirm` | Vouchers of each kind confirmed, moved, edited and deleted, also from old copies, over series that restart, are inherited or set on a screen: numbers are not skipped, only an overtaken request or a deletion takes one from a voucher, and the next is free where nothing sets the series back. | 1,628,472 |
| `year_end_lifecycle` | Closes, generations, reviews, rollbacks and postings of three years, for the entity and for a branch, any two of them at once: an opening stands on a closed year and is not generated over, and what is on record is in the ledger. | 519,992 |
| `reconciliation_match` | Two runs over the same account, by engine and by hand, with lines put aside, vouchers made from lines, unposted vouchers and instruments: no line is matched for good twice, statuses and links follow the matches, the sides agree. | 380,127 |
| `treasury_batches` | Two batches made, approved, paid, failed and brought back while users settle the same bills and cancel settlements, under both rules: no bill is overpaid, a paid batch has paid all its lines, only a failed batch shares items — and what settlements take of the bills implements `Allocation`. | 487,528 |

`receivables_settle` uses the clipping rule because its behaviours include those
of the block rule, which differs from it only in refusing a posting that would
clip. `receivables_adjust` uses the block rule, under which the adjustment is exact
but for the tolerance.

Violations, each of one property and each a finding (section 7):
`posting_null`, `year_end_stale`, `reconciliation_locked`.

Every property of a passing run has a mutant: a definition of the model changed
as a plausible mistake in the code would change it (the operators commented
*Faulty*), under which TLC finds the property violated.

`CHECK_DEADLOCK` is off except for the reconciliation, where a run can always be
marked. The other models have a finite number of runs, documents, vouchers or
batches, so the system stops when all of them are finished; the program does not,
it just has nothing to do. That no posting is stuck while
others wait is `EveryPostEnds`, not the absence of deadlock.

## 5. Bounds and fairness

* *Posting*: three runs on at most two documents. A re-post needs one committed
  batch and one rival; three runs give a first posting and two rivals. The
  interference between transactions is pairwise (a row lock, an index entry), and
  the proofs remove the bound. Lines are a balanced
  sale with a split debit and a line of zero, and a lopsided one.
* *Receivables*: amounts of 2 to 7 against a tolerance of 1 give every case of the
  comparisons (within tolerance, partial, exact, excess by the tolerance and by
  more). Two settlements are enough for one to be posted while another was drafted
  against the same balance. In `receivables_adjust` one of the two, or both one after
  the other, are automatic: a note of 4 meets an invoice of 5 or 2, edited, and of
  which a user pays 2 or 3 before or after the note's posting has read it: what was
  read covers the note or not, and what is left when the item is locked is as much,
  less by the tolerance (which clips the line), or less by more (which refuses it).
  The note's price is fixed, as `AdjustmentsNet` assumes; the invoice's is not, so that
  items drift from their headers, and repairs begin, end late and fail to heal. In
  `receivables_settle` the second invoice is also saved from a stale header
  (`SlowEdits`), over a posted and settled document, but amounts are fixed,
  so that no repair begins and no amount changes
  between a reversal and the next posting: of `OpenMeansOwing`, `HeaderMirrorsItem`
  and `SettledWithinOriginal` the run says nothing for changed amounts. The views
  `Mirrors` and `Essence` join states that differ in what nothing depends on: the
  settlement figures of the header of an unposted document, which no guard reads and
  posting writes anew, copies of headers that can no longer be saved, and, in
  `receivables_adjust`, of which no property speaks of them, those of posted documents
  (of `TypeOK` it checks them on one of the joined states).
* *Receipts*: one bill of 16, a receipt of 8 on account, and one of 10 that pays 5
  with cash and draws 5 from the first one's advance. Users settle 4 at a time by
  hand, so that a payment meets a bill that owes enough, too little by the
  tolerance (which applies a part), or too little by more (which refuses it). Four
  settlements leave room for one posting of each voucher, a re-posting and a
  hand-made one. Settlement names are never reused, so a history ends when they are
  used up.
* *Numbering*: two vouchers of a branch, which inherits the entity's series until a
  screen gives it one of its own; two calendar years; one request working on an old
  copy of one voucher (`Slow`, `OpenCopies`); numbers up to three (`TopNumber`), which
  is past what the two vouchers use at one time. Eight setups of kind, restart and
  screen. A payment tries twice, which stands for 25: enough to skip the other
  voucher's number. No property of the run speaks of whether a try succeeds where
  series restart or are set, since with as many tries as vouchers it always does; in
  the code it need not (section 7). The proofs remove these bounds.
* *Year end*: three years, so that one can be carried from, carried into and carried
  on; the entity and one branch, so that a request can name another scope than an
  earlier one did; one document, which is in the books or not; two requests between
  their reads and their writes, since what one may do to another is pairwise. The
  branch closes the first year only, and openings of the whole entity are the ones
  reviewed. The proofs remove these bounds.
* *Reconciliation*: two statement lines of one amount, and journal lines that fit
  both, none alone (twice the amount) and one not yet written: every outcome of the
  engine, groups and partial matches occur. The earlier run sees one line of each
  side. Three matches (`MaxMatches`) are two on the same lines and one that was
  undone or withdrawn before; two instruments, of which one is quoted by both
  lines. Only the earlier run is locked. The view `Essence` joins states that
  differ in which unlocked status a run has, and in who holds the lock's stamp: no
  guard tells them apart, and none of the run's properties mentions either.
* *Treasury*: two batches of two bills of different size, and two settlements of
  users for up to one unit more than the bill: two batches can compete for one bill
  with a user. A unit is more than the code's tolerance of a paisa.

Symmetry is used over names that no definition orders: those of runs, settlements
and batches; and not in `posting_scoped`, which checks liveness.
`posting_serialised` checks the refinement, which is a box of steps, under symmetry
of the runs.

Requests of bank reconciliation are taken one at a time. Nothing in its code locks
a line, a match or a run, and no constraint spans matches: two requests that
overlap can match one line for good twice. What the run shows is that no sequence
of whole requests does.

Fairness is assumed only in `posting_scoped`: weak fairness of a run's next
statement, or of its failure when the program is certain to raise. A request that
has begun is driven by its worker, and PostgreSQL's lock queues wake a waiter
when the row is free. Beginning a posting is not fair: users need not. A run that
only waits on itself would violate the property; a cycle of waits would be broken
by PostgreSQL's deadlock detector, which the model leaves out, so the run shows
that it is not needed here.

## 6. Proofs

### Posting

`PostingProofs` proves, for any number of runs, workers, documents and lines:

| Theorem | Says |
|---|---|
| `TypeCorrect` | `Spec => []TypeOK` |
| `AtMostOneBatch` | under `Protected`, at most one active batch per document |
| `LedgerCurrent` | under `Protected`, the ledger is the lines of the active batches, one entry each |
| `RevisionsOrdered` | under `Serialised`, revisions are distinct and the active batch has the highest |
| `Refinement` | under `Protected`, `Posting` implements `Ledger` |
| `LedgerBalances` | the lines of each document in the ledger balance, locks or not |
| `SecondCheckNeverFails` | the balance check after the insertion refuses nothing that the one before it let through, locks or not |

A document is *serialised* (`SerialisedDoc`) if its callers hold its header's lock
or all processes compute the same advisory key for it; `Serialised` says that all
are. `Protected` asks less: each document is serialised, or its locator has no NULL
and the unique constraints see it (`ScopedDocs`). That covers `posting_serialised`,
`posting_scoped` and any mixture of the two. The documents that are neither are
those of `posting_null` (section 7), so the hypothesis is what the code needs.

The invariants are not inductive alone: that a commit leaves one active batch
depends on the transaction having deactivated what is *still* active. `IInv` adds

* `Exclusive`: two runs in flight are never of one serialised document;
* `OneBatched`: of any document, at most one run in flight has inserted its batch —
  of a serialised one because of `Exclusive`, of a scoped one because the unique
  index makes the second insert wait or fail;
* `OffApart`: no two runs in flight have deactivated the same batch, which is what
  a row lock is for;
* `PendingIsCurrent`: what a run has found or written is what is still committed
  about its document — from the batch it inserts on for any document, and from its
  first UPDATE on for a serialised one. Before the insert, an unlocked run may
  hold less than what is active; the index is what stops it then.

Each action is one step of the proof; the insert of the batch is where the index
turns the weak form of `PendingIsCurrent` into the strong one, and `Commit` uses all
parts. `RevisionsOrdered` needs one more invariant, that a run in flight past its
numbering is above every committed revision of its document; numbers are drawn
before the index is met, so it stays with `Serialised`. The refinement uses `IInv`
to show that `Commit` replaces one whole posting and that every other action is a
stutter.

`LedgerBalances` needs neither: whatever runs leave behind of a
document is a set of whole postings, each of which balances (`BInv`). For the same
reason the second check is a safeguard against faults of the database, not against
other runs.

### Numbering

`NumberingProofs` proves, for any vouchers, scopes, periods and tries:

| Theorem | Says |
|---|---|
| `TypeCorrect` | `Spec => []TypeOK`: among others, one number at most for a voucher |
| `NoneEverSkipped` | `NoneSkipped`: a series passes no number that was not given to a voucher, unless a user types a counter |
| `NumbersKept` | `NumberIsKept`: only a request that was overtaken, or a deletion, takes a number from a voucher |
| `NumbersRemain` | `NextIsFree`: without restarts and screens, the number drawn next is free, one try is enough |

`NoneSkipped` is not inductive alone, because a settings screen writes an old counter
back: `IInv` adds that no screen in use holds a counter past a number that was never
given (`FormsCovered`), that the numbers of vouchers and of copies under way were
given (`NumbersGiven`), and the types. It is about numbers given, not about
numbers that vouchers have: deletions and stale edits leave holes among those, in
every kind (section 7). The step that draws a number needs what `Min` returns;
`LeastOfNaturals` derives it from the well-foundedness of `<`.

For `NextIsFree` the invariant `Ahead` says that the entity's series, the only one
then, is past every number ever given, hence also past every number of a copy that a
request may still write back: an old number comes back at most where it was. The
bound of 25 tries plays no part there; where series restart or are set it does
(section 7), and no theorem says that a number is found.

### Year end

`YearEndProofs` proves, for any years, scopes, documents and requests under way:

| Theorem | Says |
|---|---|
| `TypeCorrect` | `Spec => []TypeOK` |
| `SourceClosed` | the year an opening was carried from exists and is closed |
| `RecordsHaveJournals` | a close or opening on record has its journal in the ledger |
| `OpeningsKept` | an opening is not generated over, and a locked one never changes |
| `ClosesCover` | without postings that overtake a close, `ClosingCoversYear` |

`SourceStaysClosed` depends on where an opening can be: `RollbackClose` asks only
the *next* year whether it was opened from this one. `IInv` therefore adds
`Adjacent`, that an opening is carried from the year before, which `FinishGenerate`
keeps because years are entered in order. For `RecordHasJournal` the invariant
`GenerationCarries` adds that what a generation under way is about to carry is
not empty, so its journal is posted.

`ClosingCoversYear` is violated (section 7). `ClosesCover` says that one thing only
can violate it: a posting that has read the year open and commits when the year is
closed, or when a close of it has read the books (`Overtakes`). In behaviours
without such steps, whatever else the requests do, what a close under way has read
is all there is (`ReadInFull`), and no document joins a closed year. So a lock that
the close takes before it reads, and a posting until it commits, would be enough.

### Treasury

`TreasuryProofs` proves, for any bills, batches, amounts and both rules:

| Theorem | Says |
|---|---|
| `TypeCorrect` | `Spec => []TypeOK` |
| `NeverBeyondBill` | no bill is settled for more than its amount |
| `SharedOnlyAfterFailure` | two active batches share an item only if one has failed |
| `ItemsNeverOverpaid` | a bill shows as settled what posted settlements applied to it, and no more than its amount |
| `BatchesPaidInFull` | the standing settlement of a paid batch has settled every line in full |
| `Refinement` | `Treasury` implements `Allocation` |

The first two come from `Bounded` (types, and settled within the bill: a
settlement applies at most what is owed, which is then not negative); the third
from `Shared`, which adds that a batch whose status is FAILED is among those that
failed. The last two come from `Accounted`, which adds that what is settled is the
sum of what was applied, that only posted settlements apply anything, and that a
paid batch has its settlement: it is paid when the totals of what was asked and
what was applied agree, and since no line gets more than was asked, they agree
only line by line. The refinement needs no more than `Accounted`: what the others
have left of a bill is what it owes, and a batch that is being paid has no
settlement yet, so that a batch paid, failed and paid again takes once.

### Receivables

`ReceivablesProofs` proves, for any documents, advances, settlements, lines and
amounts, and for both rules:

| Theorem | Says |
|---|---|
| `TypeCorrect` | `Spec => []TypeOK` |
| `NothingSettledTwice` | `SettledIsApplied` |
| `NothingDrawnTwice` | `AdvanceIsApplied` |
| `NeverOverdrawn` | `AdvanceNeverOverdrawn` |
| `OpenWhileOwing` | `OpenMeansOwing`, if every repair heals (`SelfHeal`) |
| `MirrorsKept` | `HeaderMirrorsItem`, if every repair heals and nobody types a settled amount (`TypedAmounts = {}`) |
| `NeverOversettled` | `SettledWithinOriginal`, if every document has one price |
| `AdjustmentsNet` | `AutoAdjustmentNets`, if every credit note has one price |

Everything is said of a value `b` of the tables (as the model's operators
compute on `Books`), so that what `post_settlement` does to the tables is proved
once (`GoodPost`) and used for a user's settlement, an automatic adjustment and a
receipt. The inductive invariant is `GoodState`: the types, also of what requests
under way have read (`ReadsOk`); `Sound` — settled and adjusted are the sums of what
posted settlements hold, an open item owes more than the tolerance and shows what it
owes, an advance offers no more than it has; and `PostedSound`, that a closed item of
a posted document owes no more than the tolerance. The second theorem needs nothing
else; the third and the fourth need in addition that a settlement draws no more than
what the advance offers, line by line (`TotalDrawn`).

`Sound` speaks of an item alone. That it is of the amount of its document's header
(`AllWorth`) is *not* an invariant of the code: a repair that was computed before an
edit and a posting writes the old amount after them (section 7).
`SelfHeal` says that no repair does so: whatever step changes what an item is worth
writes what its document is worth. It is an assumption about behaviours, not about
the code; `OpenWhileOwing` and `MirrorsKept` say that the late repair is the only way
in which these two properties can fail. Every other step, an edit saved late
included, keeps `AllWorth` and, unless a settled amount is typed, `AllMirrored`
(`KeepsIfHealed`). Where documents have one price a repair has nothing old to write,
which is why `receivables_settle` can check both.

The other hypotheses are what the code needs as well. `apply_settlement`
writes an amount a user types into the header alone, and the item keeps its own.
A document that is settled, reversed, edited down and posted again is settled
beyond its amount (section 7), and the automatic settlement of a note in that state
need not take the same off both its documents.

`AdjustmentsNet` covers a user who settles, edits or reverses the invoice between the
read of what it owes and the lock of its item: the note's own rows are locked, so it
takes what was asked, and the invoice takes at most that; under the block rule the
line is refused if the invoice owes less than that by more than the tolerance, so it
takes no less than that but for a paisa. Under the clipping rule nothing bounds the
difference (section 7). `Tracked` is the invariant for the last two theorems: where a
document stands between nothing and its one price (`Towards`), that a settlement
names each item once, and that a marked settlement nets (`Netting`).

### Receipts

`ReceiptsProofs` proves, for any vouchers, allocations and draws, under both rules:

| Theorem | Says |
|---|---|
| `ReceiptsTypeCorrect` | `ReceiptsSpec => []ReceiptsTypeOK` |
| `StandingLinked` | `StandingIsLinked` |
| `SubledgerKept` | `SettledIsApplied`, `AdvanceIsApplied`, `AdvanceNeverOverdrawn`, `OpenMeansOwing`, `HeaderMirrorsItem` hold of the receivables under receipts |
| `AppliedOnce` | `NeverAppliedTwice` |
| `ReceiptsAccountedFor` | under the block rule, `ReceiptAccountedFor` |

The inductive invariant `RInv` keeps the receivables' `GoodState`, with the worth and
the mirrors of all documents (none is repaired or edited there, so `SubledgerKept`
needs no `SelfHeal`), and says of each voucher (`Vouched`) that its links are distinct settlements made for it with the
lines of the payment they stand for, that a settlement of the voucher in effect is
among them, and that its draws fit its allocations once it has made a settlement.
A step of a user on a settlement leaves all that alone (`Steady`); posting and
unposting go through the payments one by one (`PaymentsMade`, `AllUnpaid`). TLC
checked `RInv` on the instance of `receipts_lifecycle` first.

`NeverAppliedTwice` then adds up: the settlements in effect are among the
payments, each takes at most what was asked (`TakesNoMore`), and the payments ask
for the allocations. `_validate_advance_adjustments` lets the draws for a bill
exceed what is allocated to it by a paisa, hence the tolerance in the property;
that a bill is allocated once per voucher is the constraint
`uq_receipt_alloc_voucher_openitem` (`receipt_core.py:165`).

`ReceiptAccountedFor` bounds the loss as well, and needs three more parts of `RInv`.
`AllMeasured`: what a posted settlement has applied is no more than its lines ask,
and short of it by at most `TOL` for a line paid with cash, twice that for one that
draws on an advance, which is checked against the bill and against the advance
(`TakesEnough`). `OwnFits`: a voucher's advance, whenever it was made, is of its
residual. `Checked`: a posted voucher has passed the checks of its amounts and draws,
is linked to a settlement for each payment, and has its advance if it needs one.
The bounds then follow by adding up (`Shortfall`, `AppliedAtLeast`). The rule must be
to refuse what a bill does not owe: where it is clipped instead, what a payment is
short of is recorded nowhere, so that no bound holds.

### Bank reconciliation

`ReconciliationProofs` proves, for any lines, journal lines, runs, instruments,
scores and number of matches:

| Theorem | Says |
|---|---|
| `TypeCorrect` | `Spec => []TypeOK` |
| `MatchedOnce` | `OneFinalMatch` |
| `ShownAsMatched` | `FinalIsShown` |
| `AllocationsAgree` | `SidesAgree` |
| `LinkedWhileMatched` | `LinksAreFinal` |
| `VouchersStand` | `VoucherStands` |
| `OnlyEngineBreaksLocks` | if the engine left locked runs alone, `LockHolds` |

The inductive invariant is `Sound` of the tables (rows typed and `Even`, final
matches `Apart`, statuses `Right` for lines not ignored, links `LinksOk`), the
types of the other columns, and `Vouched`: a line's voucher is posted and its
journal line was in a match at some time, which protects it. The engine is a loop
over the lines of a run; one round keeps `Sound` (`MatchLine`), hence the loop.

`LockHolds` is violated by the engine (section 7). `OnlyEngineBreaksLocks` says that
it is alone in that: in the behaviours `SpecAsking`, in which the engine is not run on
a locked run, no match, exception, voucher or action on that run or another, and no
recalculated status, takes a run out of its lock before it is unlocked.

### Sums and loops

`SumTheorems` is what the proofs about balances rest on. The community modules
define a sum over a set (`SumFunctionOnSet`) as a fold, and the models write the
loops of the code (the lines of a settlement, the payments of a receipt, the
open items in order of their due dates) as recursive functions. Either is whatever
`CHOOSE` finds to satisfy an equation, so the first lemmas show that such a
function exists, by induction on sizes. The theorems of the library that take a
predicate cannot be instantiated by the provers here; the induction is on a *set*
of numbers instead (`InductiveSetOfNaturals`), which serves wherever the claim can
be written as membership. `SumWith`, `SumChanges`, `SumOfParts` and `LoopTyped`
are the facts the other modules cite most.

### Only model-checked

* `EveryPostEnds`: the prover does not handle fairness or ENABLED.
* The violations of section 7: what the theorems say of them are conditions under
  which the property holds. TLC shows that the code does not meet the conditions.

No module declares a RECURSIVE operator.

## 7. What the runs found

| Run | Property | The code |
|---|---|---|
| `posting_null` | `OneActiveBatch` | An entity-level document posted by two workers without a header lock keeps two active batches: salted keys, and an index that ignores NULL. |
| `year_end_stale` | `ClosingCoversYear` | The closing journal is computed before the year is locked, and postings read the year without a lock: one in between keeps its income out of the transfer. |
| `reconciliation_locked` | `LockHolds` | The engine's endpoint does not ask whether the run is locked: it matches, and overwrites the status LOCKED. |

The models contain more that is surprising, and that no run reports, because no
line of the repository promises otherwise or because a passing run excepts it.
All of it follows from the actions named. Three of them do contradict a line of the
repository, which is quoted there (*Repair*, *Stale edits*, *Yearly series*):

* *Revisions.* Two re-postings without an agreed lock can take the same revision
  (`NextRevision`); `RevisionsOrderBatches` is checked and proved under
  `Serialised` only.
* *Settle, reverse, edit down, post.* A reversed invoice keeps what was settled;
  posted again for less, its item is settled for more than it is worth.
  `SettledWithinOriginal` is checked where amounts are fixed.
* *Repair.* Listing the open items recomputes the drifted ones from their headers,
  and so reopens the item of an invoice that was reversed and edited. It computes the
  worth of the document from the rows of the list, then waits for the item, and
  writes it without another look (`sales_ar_service.py:380`): if the invoice is
  edited and posted meanwhile, its item shows the balance of the earlier total, and
  its header another. The docstring (`sales_ar_service.py:373`) promises to "self-heal
  stale AR snapshots". `OpenMeansOwing` and `HeaderMirrorsItem` are checked where
  totals do not change and proved under `SelfHeal`, which excludes just this.
* *Automatic adjustment.* The settlement of a credit note asks for what the invoice
  owed before its item was locked. If a user pays the invoice meanwhile, the block
  rule lets a difference of a paisa between the two lines pass, and the warning rule
  any difference: the note is used up, the invoice gets the rest only
  (`sales_ar_service.py:260`). `AutoAdjustmentNets` states what remains true.
* *Cancelled invoices.* Cancelling a settlement reopens the item it had settled,
  also when the invoice has been cancelled meanwhile.
* *Stalled confirmations.* A confirmation that read a draft writes CONFIRMED over
  POSTED; the receipt can then be cancelled with its settlements in effect.
  `StandingIsLinked` says what remains true: such settlements are still linked
  from the voucher.
* *On account and allocated.* An on-account receipt that is allocated to bills
  makes an advance of its whole amount as well. `ReceiptAccountedFor` excepts
  exactly this case.
* *Double confirmation.* Two confirmations of one receipt both allocate, and the
  second number replaces the first. `NumberIsKept` excepts such overtaken requests,
  and deletions, for every kind, and nothing else.
* *Stale edits.* `update_with_lines` saves the header it read before its lock over
  one that has been posted meanwhile (`sales_invoice_service.py:2035`). The edits of
  payments and journals do the same (`payment_voucher_service.py:934`,
  `voucher_service.py:272`): one that read the draft makes a voucher that was
  confirmed and posted meanwhile a draft without its number, although "Posted/Cancelled
  payment voucher cannot be edited." (`payment_voucher_service.py:938`). `NumberIsKept`
  excepts it as an overtaken request.
* *Numbered drafts.* A voucher that was unposted to draft keeps its number and can be
  deleted with it (`payments/views/payment_voucher.py:389`,
  `vouchers/views/voucher.py:247`). The number leaves a hole in the series, so
  that `NoneSkipped` is about the numbers given, not about those still in use.
* *Receipts taken back.* The test that an advance is unused lets one that is partly
  drawn pass (`receipt_voucher_service.py:2325`), and a receipt that is posted again
  keeps its advance closed (line 2207).
* *Yearly series.* A series that restarts yearly does so in January, inside the
  financial year (`document_number_service.py:34`), and meets the numbers of
  before: payments try 25 numbers (`payment_voucher_service.py:1226`), receipts and
  journals one. If none is free the attempt is rolled back with the restart, so that
  every further attempt meets the same numbers; of a conflict,
  `docs/qa/performance/phase2a-financial-write-concurrency-certification.md:368` says
  "Already-used doc number is skipped and next number allocated".
* *Settings.* Saving the numbering settings writes back the counter the screen was
  loaded with, undoing allocations made since, or the one the user types
  (`receipts/views/receipt_settings.py:280`). `NoneSkipped` holds in spite of the
  first; a counter typed ahead skips numbers, which is what the user asked for.
* *Year end.* A close is rolled back in the scope of the rollback's request: a
  journal that was posted for another scope stays in the ledger without a record.
  A close for a branch closes the year of the whole entity. Rolling back an opening
  asks neither whether the destination is open nor whether it was itself carried
  forward, and the approval of the opening outlives the rollback.
* *Reconciliation.* The recalculation after a match reports a run RECONCILED that
  `mark_reconciled` would refuse, when only suggestions are left, and unmatching
  its only match leaves it so. Withdrawn suggestions do not refresh the other lines
  they held. A line that another run has matched can be ignored (`FinalIsShown`
  excepts ignored lines), and an ignored line never comes back. The lines of a
  group match that the total does not reach are dropped from it in silence. A
  matched voucher cannot be unposted even after the match is undone (`Protected`),
  so that a statement line gets a voucher once (`VoucherStands`), although
  `voucher_creation.py:222` advises to cancel the first before making another.
* *Batches.* A failed batch can be validated again after its items went to another
  batch (`SharedAfterFailure` says when); the payment of the second is then refused
  by the amounts. An exported batch is validated again and cancelled, although
  `cancel` refuses an exported one. Cancelling the settlement of a paid batch
  leaves the batch PAID.

## 8. Not modelled

Tax computation, TCS/TDS amounts, currencies, formatting of numbers, attachments,
approval workflow, period lock dates finer than the year, and GST return rows:
data that the properties do not tell apart, or guards that only forbid more.
Reports and dashboards only read.

Of posting: negative lines in the runs (`LedgerBalances` is proved for all integers,
but its run posts one line of each sort), and the duplicate entries that a NULL in the
locator allows; `EveryPostEnds` is checked for documents whose locators have none, so
it says nothing of the calls that would find two entries
(`PROJECT.json`, the hazards without properties).

Of the receivables: the order in which the rows of one call are locked. A settlement
and the posting of its invoice take header and item in opposite order; the deadlock
ends in an aborted transaction and a request to repeat, which is why a call that
locks what it writes before it reads it is one action. Reads before a lock are
modelled, with one exception: `apply_settlement` works on any copy of the header, but
the check of its status and its write are one action.

Of the year end: beside the component, the entity's settings insert, update and
delete financial years without the locks that closing and opening take
(`entity/onboarding_services.py:1054`). A year that is edited there between two steps
of a close can be active, closed or gone against what `SourceClosed` and the other
properties say; they hold of the requests of the component among themselves.

Of the year end: amounts, carry-forward controls, and recurring journals. Of bank
reconciliation: imports and their validation, contra lines (a run's lines here are
of one direction), the limit of 400 candidates, reports, and the automatic posting
rules. Of the treasury: instruments other than as reconciliation links them, cheque
books and leaves, cash movements, batches with a paid_from account (which create a
payment voucher instead of a settlement), batches of several vendors or of payroll,
and credit notes, which lower what a bill allows below what it owes. The amount of a
bill is constant: a bill reversed, edited down and posted again after it was settled is
settled beyond its amount, as on the receivable side, and `NeverBeyondBill` does not
speak of it.

The components marked `not_modelled` in `PROJECT.json` are listed there with the
reason; the plan says which come next.
