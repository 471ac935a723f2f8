------------------------------ MODULE Treasury ------------------------------
(***************************************************************************)
(* Treasury payment batches over the open items of a vendor's bills        *)
(* (treasury/services.py), and the vendor settlements that batches and     *)
(* users post against those items (purchase/services/purchase_ap_service). *)
(*                                                                         *)
(* A batch snapshots what its items owe when it is made.  Every operation  *)
(* locks the batch; mark_paid reads the items without locking them, and    *)
(* posts its settlement, which locks them, afterwards: a settlement of a   *)
(* user may come in between (BeginPay, FinishPay).  The batches have no    *)
(* paid_from account, so that the settlement is posted directly; the       *)
(* vendor has no open credit notes, so that all that is owed is allocatable.*)
(***************************************************************************)
EXTENDS Integers, FiniteSets, FiniteSetsExt

CONSTANTS
    Batches, Items,
    Payments,       \* settlements that users make, of one item each
    Original,       \* the amount of each item's bill
    Valid           \* items whose vendor has a valid bank account

ASSUME TreasuryAssumption ==
    /\ Original \in [Items -> Nat \ {0}] /\ Valid \subseteq Items
    /\ Batches \cap Payments = {} /\ IsFiniteSet(Batches \cup Payments)
    /\ IsFiniteSet(Items)

Settlements == Batches \cup Payments       \* a batch has one, named as it

VARIABLES
    rule,           \* over_settlement_rule of the purchase policy
    status,         \* the status of each batch
    line,           \* of each batch: its items, and the amount of each
    failed,         \* the batches that have failed_at
    paying,         \* the batches that a mark_paid has checked and holds
    settled,        \* settled_amount of each item
    voucher,        \* the status of each settlement
    asked,          \* of each settlement: the items, and the amount of each
    applied         \* what each settlement has applied to each item

itemVars == <<settled, voucher, asked, applied>>
vars == <<rule, status, line, failed, paying, settled, voucher, asked, applied>>

None == [i \in {} |-> 0]
Zero == [i \in Items |-> 0]
IsAmounts(a) == \E S \in SUBSET Items : a \in [S -> Nat \ {0}]

Init ==
    /\ rule \in {"block", "warn"}
    /\ status = [b \in Batches |-> "none"]
    /\ line = [b \in Batches |-> None]
    /\ failed = {} /\ paying = {}
    /\ settled = Zero
    /\ voucher = [s \in Settlements |-> "none"]
    /\ asked = [s \in Settlements |-> None]
    /\ applied = [s \in Settlements |-> Zero]

Outstanding(i) == Original[i] - settled[i]

(* Faulty: an exported batch is no longer active.                          *)
ActiveUntilExport == {"validated", "approved"}

ACTIVE_BATCH_STATUSES == {"validated", "approved", "exported"}

Batched == UNION {DOMAIN line[b] : b \in {c \in Batches : status[c] \in ACTIVE_BATCH_STATUSES}}

(* Faulty: settled items are batched as well.                              *)
CreateBatchOfAny(b, S) ==
    /\ status[b] = "none" /\ S # {} /\ S \cap Batched = {}
    /\ status' = [status EXCEPT ![b] = "validated"]
    /\ line' = [line EXCEPT ![b] = [i \in S |-> Outstanding(i)]]
    /\ UNCHANGED <<rule, failed, paying, itemVars>>

(* create_from_vendor_open_items, which validates the batch as it is made. *)
CreateBatch(b, S) ==
    /\ status[b] = "none" /\ S # {} /\ S \cap Batched = {}
    /\ \A i \in S : Outstanding(i) > 0
    /\ status' = [status EXCEPT ![b] = "validated"]
    /\ line' = [line EXCEPT ![b] = [i \in S |-> Outstanding(i)]]
    /\ UNCHANGED <<rule, failed, paying, itemVars>>

\* An operation that takes a batch from one of the statuses From to another.
Moves(b, From, to) ==
    /\ b \notin paying /\ status[b] \in From            \* _lock_batch
    /\ status' = [status EXCEPT ![b] = to]
    /\ UNCHANGED <<rule, line, paying, itemVars>>

(* Only paid and cancelled batches are refused: a failed one comes back,   *)
(* whatever has been batched meanwhile.                                    *)
ValidateBatch(b) ==
    /\ Moves(b, {"validated", "approved", "exported", "failed"}, "validated")
    /\ UNCHANGED failed

ApproveBatch(b) ==
    /\ DOMAIN line[b] \subseteq Valid
    /\ Moves(b, {"validated"}, "approved") /\ UNCHANGED failed

ExportBatch(b) == Moves(b, {"approved", "exported"}, "exported") /\ UNCHANGED failed

MarkFailed(b) ==
    /\ Moves(b, {"approved", "exported", "failed"}, "failed")
    /\ failed' = failed \cup {b}

CancelBatch(b) == Moves(b, {"validated", "approved"}, "cancelled") /\ UNCHANGED failed
-----------------------------------------------------------------------------
(* What post_settlement applies of the amounts a: of each what is asked,   *)
(* as far as the item owes it.                                             *)
Applicable(a) == [i \in Items |-> IF i \in DOMAIN a THEN Min({a[i], Outstanding(i)}) ELSE 0]

(* Faulty: what is asked is applied, and the rule is not asked.            *)
PostUnbounded(s, a) ==
    LET app == [i \in Items |-> IF i \in DOMAIN a THEN a[i] ELSE 0]
    IN /\ settled' = [i \in Items |-> settled[i] + app[i]]
       /\ applied' = [applied EXCEPT ![s] = app]
       /\ asked' = [asked EXCEPT ![s] = a]
       /\ voucher' = [voucher EXCEPT ![s] = "posted"]

(* post_settlement of the settlement s, which asks for the amounts a: the  *)
(* rule "block" refuses it when any of them exceeds what is owed, the rule *)
(* "warn" applies what it can.                                             *)
PostSettlement(s, a) ==
    LET app == Applicable(a)
    IN /\ rule = "block" => \A i \in DOMAIN a : a[i] <= Outstanding(i)
       /\ settled' = [i \in Items |-> settled[i] + app[i]]
       /\ applied' = [applied EXCEPT ![s] = app]
       /\ asked' = [asked EXCEPT ![s] = a]
       /\ voucher' = [voucher EXCEPT ![s] = "posted"]

(* mark_paid, up to the checks of _post_vendor_payable_handoff.            *)
BeginPay(b) ==
    /\ b \notin paying /\ status[b] \in {"approved", "exported", "failed"}
    /\ \A i \in DOMAIN line[b] : Outstanding(i) > 0 /\ line[b][i] <= Outstanding(i)
    /\ paying' = paying \cup {b}
    /\ UNCHANGED <<rule, status, line, failed, itemVars>>

\* The amount of a batch, and what is applied of it.
TotalOf(b) == SumFunction(line[b])
AppliedOf(b) == SumFunction(Applicable(line[b]))

(* Faulty: that something was settled is enough.                           *)
HandedOverSome(b) == AppliedOf(b) > 0

\* settlement_total is compared with the total of the batch.
HandedOver(b) == AppliedOf(b) = TotalOf(b)

(* The rest of mark_paid: the settlement is made and posted, and the batch *)
(* is paid, or everything is rolled back.                                  *)
FinishPay(b) ==
    /\ b \in paying /\ paying' = paying \ {b}
    /\ \/ /\ HandedOver(b) /\ PostSettlement(b, line[b])
          /\ status' = [status EXCEPT ![b] = "paid"]
       \/ UNCHANGED <<status, itemVars>>
    /\ UNCHANGED <<rule, line, failed>>
-----------------------------------------------------------------------------
(* Settlements a user makes by hand; create_settlement asks for any amount.*)
CreateSettlement(s, i, amount) ==
    /\ voucher[s] = "none"
    /\ voucher' = [voucher EXCEPT ![s] = "draft"]
    /\ asked' = [asked EXCEPT ![s] = [j \in {i} |-> amount]]
    /\ UNCHANGED <<rule, status, line, failed, paying, settled, applied>>

PostPayment(s) ==
    /\ voucher[s] = "draft" /\ PostSettlement(s, asked[s])
    /\ UNCHANGED <<rule, status, line, failed, paying>>

(* Faulty: a settlement that is cancelled is a draft again.                *)
CancelToDraft(s) ==
    /\ voucher[s] \in {"draft", "posted"}
    /\ voucher' = [voucher EXCEPT ![s] = "draft"]
    /\ settled' = [i \in Items |-> settled[i] - applied[s][i]]
    /\ applied' = [applied EXCEPT ![s] = Zero]
    /\ UNCHANGED <<rule, status, line, failed, paying, asked>>

(* cancel_settlement, of a batch's settlement as of any other: the batch   *)
(* is not told.                                                            *)
CancelSettlement(s) ==
    /\ voucher[s] \in {"draft", "posted"}
    /\ voucher' = [voucher EXCEPT ![s] = "cancelled"]
    /\ settled' = [i \in Items |-> settled[i] - applied[s][i]]
    /\ applied' = [applied EXCEPT ![s] = Zero]
    /\ UNCHANGED <<rule, status, line, failed, paying, asked>>

Next ==
    \/ \E b \in Batches :
          \/ \E S \in SUBSET Items : CreateBatch(b, S)
          \/ ValidateBatch(b) \/ ApproveBatch(b) \/ ExportBatch(b)
          \/ MarkFailed(b) \/ CancelBatch(b)
          \/ BeginPay(b) \/ FinishPay(b)
    \/ \E s \in Payments :
          \/ \E i \in Items : \E amount \in 1..Original[i] + 1 : CreateSettlement(s, i, amount)
          \/ PostPayment(s)
    \/ \E s \in Settlements : CancelSettlement(s)

Spec == Init /\ [][Next]_vars
-----------------------------------------------------------------------------
(* The tables hold values of their columns.                                *)
TypeOK ==
    /\ rule \in {"block", "warn"}
    /\ status \in [Batches -> {"none", "validated", "approved", "exported",
                               "paid", "failed", "cancelled"}]
    /\ DOMAIN line = Batches /\ \A b \in Batches : IsAmounts(line[b])
    /\ failed \subseteq Batches /\ paying \subseteq Batches
    /\ settled \in [Items -> Int]
    /\ voucher \in [Settlements -> {"none", "draft", "posted", "cancelled"}]
    /\ DOMAIN asked = Settlements /\ \A s \in Settlements : IsAmounts(asked[s])
    /\ applied \in [Settlements -> [Items -> Nat]]

(* Every item has settled what the posted settlements have applied to it,  *)
(* and never more than its bill, however often it is batched, paid by hand *)
(* while a batch is being paid, and undone (post_ and cancel_settlement).  *)
NeverOverpaid ==
    \A i \in Items :
        /\ settled[i] = SumFunction([s \in Settlements |-> applied[s][i]])
        /\ settled[i] <= Original[i]

(* The settlement of a paid batch, as long as it stands, has settled every *)
(* line in full, also under the rule that only warns: what the bank was    *)
(* told to pay is what the books say was paid (mark_paid).                 *)
PaidInFull ==
    \A b \in Batches : status[b] = "paid" /\ voucher[b] = "posted" =>
        \A i \in DOMAIN line[b] : applied[b][i] = line[b][i]

(* An item is in two active batches only if one of them has failed before: *)
(* a failed batch gives up its items to other batches and can be validated *)
(* again all the same (create_from_vendor_open_items, validate_batch).     *)
SharedAfterFailure ==
    \A b, c \in Batches :
        b # c /\ {status[b], status[c]} \subseteq {"validated", "approved", "exported"}
              /\ DOMAIN line[b] \cap DOMAIN line[c] # {}
            => b \in failed \/ c \in failed

(* Batches and users allocate the bills: the abstract specification of what*)
(* a settlement may take, and how often.                                   *)
Abstract == INSTANCE Allocation WITH
    Bills  <- Items,
    Amount <- Original,
    taken  <- applied,
    over   <- {s \in Settlements : voucher[s] \in {"posted", "cancelled"}}

(* A settlement, of a batch or of a user, takes from the bills once in its *)
(* life and only what the others have left, keeps just that, and gives all *)
(* of it back, whatever fails, is retried and is cancelled in between      *)
(* (mark_paid, post_settlement, cancel_settlement).                        *)
ImplementsAllocation == Abstract!Spec
=============================================================================
