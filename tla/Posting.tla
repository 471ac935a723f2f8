------------------------------ MODULE Posting ------------------------------
(***************************************************************************)
(* PostingService.post (posting/services/posting_service.py): the one     *)
(* routine through which every document of Finacc reaches the general     *)
(* ledger.  One call, a "run", is one database transaction; the model has *)
(* one action per SQL statement whose outcome depends on other runs, so   *)
(* that runs of several worker processes interleave as they do under      *)
(* PostgreSQL's READ COMMITTED:                                            *)
(*   - what a run wrote is visible to the others when it commits;          *)
(*   - an UPDATE or DELETE takes its snapshot, waits for the transactions  *)
(*     holding the rows it found, and then re-examines those rows only;    *)
(*   - an INSERT into a unique index waits for an uncommitted rival and    *)
(*     fails on a committed one;                                           *)
(*   - a transaction's locks go when it ends.                              *)
(* A run creates one PostingBatch and one set of JournalLines, so batches *)
(* and sets of lines are named by their run, and an Entry by the run that  *)
(* created it.                                                             *)
(***************************************************************************)
EXTENDS Naturals, Integers, FiniteSets, FiniteSetsExt

CONSTANTS
    Runs,           \* calls of PostingService.post
    Workers,        \* server processes
    Docs,           \* locators (entity, entityfin, subentity, txn_type, txn_id)
    ScopedDocs,     \* locators without a NULL: the unique constraints see them
    HeaderLocked,   \* documents whose caller holds the header's row lock
    Keys,           \* advisory lock keys
    KeyOf,          \* the key a worker computes for a document
    JlInputs        \* what callers may ask to post: finite sets of lines

ASSUME ConstantsAssumption ==
    /\ ScopedDocs \subseteq Docs
    /\ HeaderLocked \subseteq Docs
    /\ KeyOf \in [Workers -> [Docs -> Keys]]
    /\ \A v \in JlInputs :
          IsFiniteSet(v) /\ \A l \in v : l.drcr \in BOOLEAN /\ l.amount \in Int

VARIABLES
    stage,          \* how far each run has come
    worker, doc,    \* the process and the document of a run
    input,          \* its jl_inputs
    revision,       \* the revision it gives its batch
    seen,           \* the snapshot of the UPDATE or DELETE under way
    off, del,       \* uncommitted: batches deactivated, line sets deleted
    ent,            \* uncommitted: {} or the entry created or updated
    active,         \* committed: the batches with is_active
    rows,           \* committed: the line sets in the ledger
    entryBatch,     \* committed: the posting_batch of each Entry
    closed          \* committed: the financial year of the postings is closed

vars == <<stage, worker, doc, input, revision, seen, off, del, ent,
          active, rows, entryBatch, closed>>

Waiting == {"locked", "open", "numbered", "deactivating", "deactivated"}
Batched == {"batched", "clearing", "cleared", "entered", "lined", "checked"}
Stages  == {"idle", "committed", "aborted"} \cup Waiting \cup Batched

InFlight     == {r \in Runs : stage[r] \in Waiting \cup Batched}
Committed    == {r \in Runs : stage[r] = "committed"}
Entries      == DOMAIN entryBatch
Of(S, d)     == {r \in S : doc[r] = d}
Others(r)    == InFlight \ {r}
SameDoc(r)   == Of(Others(r), doc[r])

(* q2(x.amount) <= 0: the line is skipped, whatever its side. *)
Kept(v) == {l \in v : l.amount > 0}
Dr(v)   == MapThenSumSet(LAMBDA l : l.amount, {l \in Kept(v) : l.drcr})
Cr(v)   == MapThenSumSet(LAMBDA l : l.amount, {l \in Kept(v) : ~l.drcr})

Init ==
    /\ stage = [r \in Runs |-> "idle"]
    /\ worker \in [Runs -> Workers]
    /\ doc \in [Runs -> Docs]
    /\ input \in [Runs -> JlInputs]
    /\ revision = [r \in Runs |-> 0]
    /\ seen = [r \in Runs |-> {}]
    /\ off = [r \in Runs |-> {}]
    /\ del = [r \in Runs |-> {}]
    /\ ent = [r \in Runs |-> {}]
    /\ active = {}
    /\ rows = {}
    /\ entryBatch = [r \in {} |-> r]
    /\ closed \in BOOLEAN

request   == <<worker, doc, input>>
effects   == <<off, del, ent>>
ledger    == <<active, rows, entryBatch>>
committed == <<ledger, closed>>

Goto(r, s) == stage' = [stage EXCEPT ![r] = s]
----------------------------------------------------------------------------
(* Faulty: the caller reads the header without locking it. *)
LockFreeNoHeader(r) ==
    \A q \in Others(r) : KeyOf[worker[q]][doc[q]] # KeyOf[worker[r]][doc[r]]

(* The advisory lock, and the caller's row lock on the document's header. *)
LockFree(r) ==
    \A q \in Others(r) :
        /\ KeyOf[worker[q]][doc[q]] # KeyOf[worker[r]][doc[r]]
        /\ doc[r] \in HeaderLocked => doc[q] # doc[r]

LockForTxn(r) ==
    /\ stage[r] = "idle"
    /\ LockFree(r)
    /\ Goto(r, "locked")
    /\ UNCHANGED <<request, revision, seen, effects, committed>>

(* _assert_financial_year_open reads the year, and locks nothing. *)
AssertFinancialYearOpen(r) ==
    /\ stage[r] = "locked"
    /\ ~closed
    /\ Goto(r, "open")
    /\ UNCHANGED <<request, revision, seen, effects, committed>>

Revisions(d) == {0} \cup {revision[q] : q \in Of(Committed, d)}

(* Faulty: one step down instead of up; the last revision used again. *)
NextRevisionBy(r, step) ==
    /\ stage[r] = "open"
    /\ \E last \in Revisions(doc[r]) :
          /\ \A n \in Revisions(doc[r]) : n <= last
          /\ revision' = [revision EXCEPT ![r] = last + step]
    /\ Goto(r, "numbered")
    /\ UNCHANGED <<request, seen, effects, committed>>

NextRevisionDown(r) == NextRevisionBy(r, -1)
NextRevisionSame(r) == NextRevisionBy(r, 0)

NextRevision(r) ==
    /\ stage[r] = "open"
    /\ \E last \in Revisions(doc[r]) :
          /\ \A n \in Revisions(doc[r]) : n <= last
          /\ revision' = [revision EXCEPT ![r] = last + 1]
    /\ Goto(r, "numbered")
    /\ UNCHANGED <<request, seen, effects, committed>>

(* UPDATE ... SET is_active = FALSE: snapshot, then wait and re-examine. *)
FindPreviousBatch(r) ==
    /\ stage[r] = "numbered"
    /\ seen' = [seen EXCEPT ![r] = Of(active, doc[r])]
    /\ Goto(r, "deactivating")
    /\ UNCHANGED <<request, revision, effects, committed>>

DeactivatePreviousBatch(r) ==
    /\ stage[r] = "deactivating"
    /\ \A q \in Others(r) : off[q] \cap seen[r] = {}
    /\ off' = [off EXCEPT ![r] = seen[r] \cap active]
    /\ Goto(r, "deactivated")
    /\ UNCHANGED <<request, revision, seen, del, ent, committed>>

(* uq_pb_one_active_per_txn: another active batch of the same locator. *)
RivalActive(r)  == Of(active, doc[r]) \ off[r]
RivalPending(r) ==
    \/ \E q \in SameDoc(r) : stage[q] \in Batched
    \/ \E q \in Others(r) : off[q] \cap RivalActive(r) # {}

(* Faulty: no unique constraint; one that does not see pending rows. *)
CreateBatchNoConstraint(r) ==
    /\ stage[r] = "deactivated"
    /\ Goto(r, "batched")
    /\ UNCHANGED <<request, revision, seen, effects, committed>>

CreateBatchCommittedOnly(r) ==
    /\ doc[r] \in ScopedDocs => RivalActive(r) = {}
    /\ CreateBatchNoConstraint(r)

CreateBatch(r) ==
    /\ stage[r] = "deactivated"
    /\ doc[r] \in ScopedDocs => RivalActive(r) = {} /\ ~RivalPending(r)
    /\ Goto(r, "batched")
    /\ UNCHANGED <<request, revision, seen, effects, committed>>

(* _delete_existing_rows: one DELETE, with its snapshot and its wait. *)
FindExistingRows(r) ==
    /\ stage[r] = "batched"
    /\ seen' = [seen EXCEPT ![r] = Of(rows, doc[r])]
    /\ Goto(r, "clearing")
    /\ UNCHANGED <<request, revision, effects, committed>>

(* Faulty: the previous lines are left in the ledger. *)
KeepExistingRows(r) ==
    /\ stage[r] = "clearing"
    /\ Goto(r, "cleared")
    /\ UNCHANGED <<request, revision, seen, effects, committed>>

DeleteExistingRows(r) ==
    /\ stage[r] = "clearing"
    /\ \A q \in Others(r) : del[q] \cap seen[r] = {}
    /\ del' = [del EXCEPT ![r] = seen[r] \cap rows]
    /\ Goto(r, "cleared")
    /\ UNCHANGED <<request, revision, seen, off, ent, committed>>

(* Entry.objects.update_or_create: a locked get, or a create that          *)
(* uq_entry_one_per_txn_scope makes wait for a rival's.                    *)
UpdateEntry(r) ==
    /\ stage[r] = "cleared"
    /\ \E e \in Entries :
          /\ Of(Entries, doc[r]) = {e}
          /\ \A q \in Others(r) : e \notin ent[q]
          /\ ent' = [ent EXCEPT ![r] = {e}]
    /\ Goto(r, "entered")
    /\ UNCHANGED <<request, revision, seen, off, del, committed>>

CreateEntry(r) ==
    /\ stage[r] = "cleared"
    /\ Of(Entries, doc[r]) = {}
    /\ doc[r] \in ScopedDocs => \A q \in SameDoc(r) : ent[q] = {}
    /\ ent' = [ent EXCEPT ![r] = {r}]
    /\ Goto(r, "entered")
    /\ UNCHANGED <<request, revision, seen, off, del, committed>>

(* Faulty: neither balance check is made. *)
InsertLinesUnchecked(r) ==
    /\ stage[r] = "entered"
    /\ Goto(r, "checked")
    /\ UNCHANGED <<request, revision, seen, effects, committed>>

(* The in-memory guard, then bulk_create. *)
InsertLines(r) ==
    /\ stage[r] = "entered"
    /\ Dr(input[r]) = Cr(input[r])
    /\ Goto(r, "lined")
    /\ UNCHANGED <<request, revision, seen, effects, committed>>

(* _assert_balanced: what this transaction now sees under the locator. *)
Visible(r) == (Of(rows, doc[r]) \ del[r]) \cup {r}
Debits(S)  == SumFunction([q \in S |-> Dr(input[q])])
Credits(S) == SumFunction([q \in S |-> Cr(input[q])])

AssertBalanced(r) ==
    /\ stage[r] = "lined"
    /\ Debits(Visible(r)) = Credits(Visible(r))
    /\ Goto(r, "checked")
    /\ UNCHANGED <<request, revision, seen, effects, committed>>

Forget(r) ==
    /\ seen' = [seen EXCEPT ![r] = {}]
    /\ off' = [off EXCEPT ![r] = {}]
    /\ del' = [del EXCEPT ![r] = {}]
    /\ ent' = [ent EXCEPT ![r] = {}]

Commit(r) ==
    /\ stage[r] = "checked"
    /\ active' = (active \ off[r]) \cup {r}
    /\ rows' = (rows \ del[r]) \cup {r}
    /\ entryBatch' = [e \in Entries \cup ent[r] |->
                          IF e \in ent[r] THEN r ELSE entryBatch[e]]
    /\ Goto(r, "committed")
    /\ Forget(r)
    /\ UNCHANGED <<request, revision, closed>>

(* Any statement may raise (an unlinked account, a closed year, an         *)
(* imbalance, a unique violation, two entries where get wants one) and the *)
(* process may die: the transaction and its locks vanish.                  *)
Rollback(r) ==
    /\ r \in InFlight
    /\ Goto(r, "aborted")
    /\ Forget(r)
    /\ UNCHANGED <<request, revision, committed>>

(* Faulty: a unique violation is waited out rather than raised. *)
MustFailPatient(r) ==
    \/ stage[r] = "locked" /\ closed
    \/ stage[r] = "cleared" /\ Cardinality(Of(Entries, doc[r])) > 1
    \/ stage[r] = "entered" /\ Dr(input[r]) # Cr(input[r])
    \/ stage[r] = "lined" /\ Debits(Visible(r)) # Credits(Visible(r))

(* The failures the program is certain to raise where it stands. *)
MustFail(r) ==
    \/ stage[r] = "locked" /\ closed
    \/ /\ stage[r] = "deactivated"
       /\ doc[r] \in ScopedDocs
       /\ RivalActive(r) # {}
       /\ ~RivalPending(r)
    \/ stage[r] = "cleared" /\ Cardinality(Of(Entries, doc[r])) > 1
    \/ stage[r] = "entered" /\ Dr(input[r]) # Cr(input[r])
    \/ stage[r] = "lined" /\ Debits(Visible(r)) # Credits(Visible(r))

Statement(r) ==
    \/ AssertFinancialYearOpen(r) \/ NextRevision(r)
    \/ FindPreviousBatch(r) \/ DeactivatePreviousBatch(r) \/ CreateBatch(r)
    \/ FindExistingRows(r) \/ DeleteExistingRows(r)
    \/ UpdateEntry(r) \/ CreateEntry(r)
    \/ InsertLines(r) \/ AssertBalanced(r) \/ Commit(r)

(* Year-end close and its rollback, which lock the year's row and nothing  *)
(* a posting run locks.                                                    *)
SetYear(b) ==
    /\ closed # b
    /\ closed' = b
    /\ UNCHANGED <<stage, request, revision, seen, effects, ledger>>

CloseYear  == SetYear(TRUE)
ReopenYear == SetYear(FALSE)

Next ==
    \/ \E r \in Runs : LockForTxn(r) \/ Statement(r) \/ Rollback(r)
    \/ CloseYear
    \/ ReopenYear

Spec == Init /\ [][Next]_vars

(* A transaction that has begun is driven to its end by its process and by *)
(* the database's lock queues; beginning one is up to the users.           *)
Fairness ==
    \A r \in Runs : WF_vars(Statement(r) \/ (MustFail(r) /\ Rollback(r)))

FairSpec == Spec /\ Fairness
----------------------------------------------------------------------------
TypeOK ==
    /\ stage \in [Runs -> Stages]
    /\ worker \in [Runs -> Workers]
    /\ doc \in [Runs -> Docs]
    /\ input \in [Runs -> JlInputs]
    /\ revision \in [Runs -> Nat]
    /\ seen \in [Runs -> SUBSET Runs]
    /\ off \in [Runs -> SUBSET Runs]
    /\ del \in [Runs -> SUBSET Runs]
    /\ ent \in [Runs -> SUBSET Runs]
    /\ active \subseteq Runs
    /\ rows \subseteq Runs
    /\ Entries \subseteq Runs
    /\ entryBatch \in [Entries -> Runs]
    /\ closed \in BOOLEAN

(* A document has at most one active posting batch: the rule the           *)
(* constraint uq_pb_one_active_per_txn is named for, which re-posting      *)
(* must keep however many processes post the document at once.             *)
OneActiveBatch ==
    \A p, q \in active : doc[p] = doc[q] => p = q

(* The ledger shows exactly the lines of the active batches, under one     *)
(* Entry per document that names that batch: no line survives a re-post,   *)
(* none is posted twice, and header and lines never come from two runs.    *)
LedgerIsActiveBatch ==
    /\ rows = active
    /\ \A d \in Docs :
          LET E == Of(Entries, d)
          IN  {entryBatch[e] : e \in E} = Of(active, d)
              /\ \A e, f \in E : e = f

(* The lines a document has in the ledger balance: debits equal credits.   *)
Balanced ==
    \A d \in Docs : Debits(Of(rows, d)) = Credits(Of(rows, d))

(* Revisions number the batches of a document: no two share one, so the    *)
(* audit trail orders them, and the active one is the latest.              *)
RevisionsOrderBatches ==
    \A p, q \in Committed : doc[p] = doc[q] /\ p # q =>
        /\ revision[p] # revision[q]
        /\ p \in active => revision[q] < revision[p]

(* Posting implements the abstract ledger.                                 *)
Abstract == INSTANCE Ledger WITH
    shown <- [d \in Docs |-> Of(rows, d)],
    used  <- Committed

(* Whatever the statements of concurrent runs interleave to, readers see   *)
(* the ledger move by whole postings, each replacing its predecessor.      *)
ImplementsLedger == Abstract!Spec

(* Every posting that began comes to an end: the waits for row locks and   *)
(* unique indexes never close a cycle.                                     *)
EveryPostEnds == \A r \in Runs : r \in InFlight ~> r \notin InFlight
=============================================================================
