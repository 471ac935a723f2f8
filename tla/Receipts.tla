------------------------------ MODULE Receipts ------------------------------
(***************************************************************************)
(* Receipt vouchers (receipts/services/receipt_voucher_service.py) over    *)
(* the receivable subledger of Receivables: posting a voucher creates and  *)
(* posts settlements for what it allocates to bills and for what it draws  *)
(* from earlier advances, and leaves an advance for the rest; unposting    *)
(* cancels the settlements and closes the advance.  Each call holds the    *)
(* voucher's row lock and is one action, but confirm_voucher reads the     *)
(* voucher without one: BeginConfirm and EndConfirm.  The policies are the *)
(* defaults of receipt_settings_service.py.                                *)
(***************************************************************************)
EXTENDS Receivables

CONSTANTS
    Vouchers,
    Cash,           \* the amount received by each
    OnAccount,      \* vouchers of type ADVANCE or ON_ACCOUNT
    Allocations,    \* the bills each is allocated to: sequences of lines
    Draws,          \* what each draws from earlier advances: sequences
    OwnAdvance,     \* the advance a voucher leaves
    SlowConfirms    \* vouchers with a confirm_voucher call that may stall

ASSUME ReceiptsAssumption ==
    /\ Vouchers \cap CreditNotes = {}
    /\ Cash \in [Vouchers -> Nat]
    /\ Allocations \in [Vouchers -> Seq([item : Items, amount : Nat])]
    /\ \A v \in Vouchers : \A j, k \in DOMAIN Allocations[v] :    \* unique in the database
          Allocations[v][j].item = Allocations[v][k].item => j = k
    /\ Draws \in [Vouchers -> Seq([advance : Advances, item : Items, amount : Nat])]
    /\ OnAccount \subseteq Vouchers /\ SlowConfirms \subseteq Vouchers
    /\ OwnAdvance \in [Vouchers -> Advances]
    /\ \A v, w \in Vouchers : OwnAdvance[v] = OwnAdvance[w] => v = w

VARIABLES
    voucher,        \* status of each voucher and the settlements it links to
    confirming      \* vouchers a stalled confirm_voucher has read as drafts

receiptVars == <<voucher, confirming>>
allVars     == <<vars, receiptVars>>

Amounts(lines)   == [k \in DOMAIN lines |-> lines[k].amount]
LineTotal(lines) == SumFunction(Amounts(lines))
DrawnOn(v, i)    == SumFunctionOnSet(Amounts(Draws[v]),
                                     {k \in DOMAIN Draws[v] : Draws[v][k].item = i})

(* Faulty: a bill an advance is drawn for gets nothing in cash.            *)
CashLinesUndrawn(v) ==
    SelectSeq([k \in DOMAIN Allocations[v] |-> [item |-> Allocations[v][k].item,
                                                amount |-> Allocations[v][k].amount]],
              LAMBDA l : DrawnOn(v, l.item) = 0)

(* The part of each allocation that no advance covers.                     *)
InCash(v, k) == Allocations[v][k].amount - DrawnOn(v, Allocations[v][k].item)

CashLines(v) ==
    LET cash[k \in 0..Len(Allocations[v])] ==
            IF k = 0 THEN <<>>
            ELSE IF InCash(v, k) > 0
                 THEN Append(cash[k-1], [item |-> Allocations[v][k].item, amount |-> InCash(v, k)])
                 ELSE cash[k-1]
    IN  cash[Len(Allocations[v])]

(* The settlements a voucher makes, in order: one in cash, one per draw.   *)
Payments(v) ==
    (IF CashLines(v) = <<>> THEN <<>>
     ELSE <<[lines |-> CashLines(v), advance |-> {}]>>)
    \o [k \in DOMAIN Draws[v] |->
           [lines |-> <<[item |-> Draws[v][k].item, amount |-> Draws[v][k].amount]>>,
            advance |-> {Draws[v][k].advance}]]

(* Faulty: only the first settlement is kept track of.                     *)
NoLinksFirst(v) == [k \in DOMAIN Payments(v) \cap {1} |-> {}]

NoLinks(v) == [k \in DOMAIN Payments(v) |-> {}]

ReceiptsInit ==
    /\ Init
    /\ voucher = [v \in Vouchers |-> [status |-> "draft", links |-> NoLinks(v)]]
    /\ confirming = {}
----------------------------------------------------------------------------
(* confirm_voucher *)
ConfirmVoucher(v) ==
    /\ voucher[v].status = "draft"
    /\ voucher' = [voucher EXCEPT ![v].status = "confirmed"]
    /\ UNCHANGED <<vars, confirming>>

BeginConfirm(v) ==
    /\ v \in SlowConfirms
    /\ voucher[v].status = "draft"
    /\ confirming' = confirming \cup {v}
    /\ UNCHANGED <<vars, voucher>>

EndConfirm(v) ==
    /\ v \in confirming
    /\ voucher' = [voucher EXCEPT ![v].status = "confirmed"]
    /\ confirming' = confirming \ {v}
    /\ UNCHANGED vars

(* _validate_allocations: no more than the bill owes, to the paisa.        *)
ValidAllocations(v) ==
    \A k \in DOMAIN Allocations[v] :
        LET it == item[Allocations[v][k].item]
        IN  /\ it.exists
            /\ BlockOver => it.open /\ Allocations[v][k].amount <= it.outstanding

(* _validate_advance_adjustments: within what the advance has, and what    *)
(* the voucher allocates to the bill.                                      *)
Dead(a) == \E w \in Vouchers : OwnAdvance[w] = a /\ voucher[w].status = "cancelled"

ValidDraws(v) ==
    \A k \in DOMAIN Draws[v] :
        LET d == Draws[v][k]
        IN  /\ advance[d.advance].exists /\ ~Dead(d.advance)
            /\ SumFunctionOnSet(Amounts(Draws[v]),
                   {j \in DOMAIN Draws[v] : Draws[v][j].advance = d.advance})
                 - advance[d.advance].outstanding <= TOL
            /\ \E j \in DOMAIN Allocations[v] :
                  /\ Allocations[v][j].item = d.item
                  /\ DrawnOn(v, d.item) - Allocations[v][j].amount <= TOL

(* _validate_allocation_effective_match *)
Support(v)      == Cash[v] + LineTotal(Draws[v])
ValidAmounts(v) ==
    /\ v \notin OnAccount => Allocations[v] # <<>>
    /\ Allocations[v] # <<>> => Size(Support(v) - LineTotal(Allocations[v])) <= TOL

(* A linked settlement is resumed, and none is made twice.                 *)
WithSettlement(b, v, s, p) ==
    IF b.settlement[s].status = "none"
    THEN [b EXCEPT !.settlement[s] = Draft(p.lines, p.advance, {v})] ELSE b

Paid(b, s) == IF b.settlement[s].status = "posted" THEN b ELSE PostEffect(b, s)

(* The books after the first k payments of v, made by the settlements f.   *)
AfterPayments(v, f) ==
    LET b[k \in 0..Len(f)] ==
            IF k = 0 THEN Books
            ELSE Paid(WithSettlement(b[k-1], v, f[k], Payments(v)[k]), f[k])
    IN  b

CanPay(v, f) ==
    \A k \in DOMAIN f :
        LET b == WithSettlement(AfterPayments(v, f)[k-1], v, f[k], Payments(v)[k])
        IN  b.settlement[f[k]].status = "posted" \/ CanPost(b, f[k])

(* Faulty: a retry makes its settlements anew.                             *)
PaidByFresh(v) ==
    {f \in [DOMAIN Payments(v) -> Settlements] :
        /\ \A k \in DOMAIN f : settlement[f[k]].status = "none"
        /\ \A j, k \in DOMAIN f : f[j] = f[k] => j = k}

(* Linked settlements, and unused ones where there is no link.             *)
PaidBy(v) ==
    {f \in [DOMAIN Payments(v) -> Settlements] :
        /\ \A k \in DOMAIN f :
              IF voucher[v].links[k] = {} THEN settlement[f[k]].status = "none"
              ELSE f[k] \in voucher[v].links[k]
        /\ \A j, k \in DOMAIN f : f[j] = f[k] => j = k}

(* What is left of the receipt for an advance of its own.                  *)
Residual(v) ==
    IF v \in OnAccount THEN Cash[v]
    ELSE Max({0, Support(v) - LineTotal(Allocations[v]) - LineTotal(Draws[v])})

(* An advance the voucher already has is left as it is.                    *)
WithAdvance(b, v) ==
    IF Residual(v) > 0 /\ ~b.advance[OwnAdvance[v]].exists
    THEN [b EXCEPT !.advance[OwnAdvance[v]] = NewAdvance(Residual(v))] ELSE b

PostVoucher(v) ==
    /\ voucher[v].status = "confirmed"
    /\ ValidAmounts(v) /\ ValidDraws(v) /\ ValidAllocations(v)
    /\ \E f \in PaidBy(v) :
          /\ CanPay(v, f)
          /\ \A k \in DOMAIN f : \/ settlement[f[k]].status = "posted"
                                \/ LinesFree(Payments(v)[k].lines)
          /\ Become(WithAdvance(AfterPayments(v, f)[Len(f)], v))
          /\ voucher' = [voucher EXCEPT ![v] =
                 [status |-> "posted", links |-> [k \in DOMAIN f |-> {f[k]}]]]
    /\ UNCHANGED <<reads, confirming>>

(* Faulty: only the settlement linked to the header is cancelled.          *)
UnpaidFirst(b, v) ==
    IF \E k \in DOMAIN voucher[v].links \cap {1} :
          \E s \in voucher[v].links[k] : CanCancel(b, s)
    THEN CancelEffect(b, CHOOSE s \in voucher[v].links[1] : TRUE) ELSE b

(* unpost_voucher: the settlements are cancelled; an advance that is open, *)
(* or of which nothing is used, is closed.                                 *)
Unpaid(b, v) ==
    LET c[k \in 0..Len(Payments(v))] ==
            IF k = 0 THEN b
            ELSE IF \E s \in voucher[v].links[k] : CanCancel(c[k-1], s)
                 THEN CancelEffect(c[k-1], CHOOSE s \in voucher[v].links[k] : TRUE)
                 ELSE c[k-1]
    IN  c[Len(Payments(v))]

UnpostVoucher(v) ==
    LET a == OwnAdvance[v]
        b == Unpaid(Books, v)
    IN  /\ voucher[v].status = "posted"
        /\ \A k \in DOMAIN voucher[v].links : \A s \in voucher[v].links[k] :
              settlement[s].status = "posted" => LinesFree(settlement[s].lines)
        /\ IF b.advance[a].exists
           THEN /\ b.advance[a].open \/ b.advance[a].adjusted = 0
                /\ Become([b EXCEPT !.advance[a].open = FALSE,
                                    !.advance[a].outstanding = 0])
           ELSE Become(b)
        /\ voucher' = [voucher EXCEPT ![v] =
               [status |-> "confirmed", links |-> NoLinks(v)]]
        /\ UNCHANGED <<reads, confirming>>

CancelVoucher(v) ==
    /\ voucher[v].status \in {"draft", "confirmed"}
    /\ voucher' = [voucher EXCEPT ![v].status = "cancelled"]
    /\ UNCHANGED <<vars, confirming>>

Receiving(v) ==
    \/ ConfirmVoucher(v) \/ BeginConfirm(v) \/ EndConfirm(v)
    \/ PostVoucher(v) \/ UnpostVoucher(v) \/ CancelVoucher(v)

(* Beside receipts, bills are posted, and users settle bills by hand; they *)
(* may also post or cancel any settlement there is.                        *)
Others ==
    \/ \E i \in Items : Posting(i)
    \/ \E s \in Settlements : Settling(s)

ReceiptsNext ==
    \/ \E v \in Vouchers : Receiving(v)
    \/ Others /\ UNCHANGED receiptVars

ReceiptsSpec == ReceiptsInit /\ [][ReceiptsNext]_allVars
----------------------------------------------------------------------------
ReceiptsTypeOK ==
    /\ \A v \in Vouchers :
          /\ voucher[v].status \in {"draft", "confirmed", "posted", "cancelled"}
          /\ voucher[v].links \in [DOMAIN Payments(v) -> SUBSET Settlements]
    /\ confirming \subseteq SlowConfirms

Standing(v) == {s \in Settlements : settlement[s].status = "posted"
                                    /\ settlement[s].marker = {v}}

Applied(v) == SumFunctionOnSet([s \in Settlements |-> settlement[s].total], Standing(v))

(* However often a voucher is posted, unposted and posted again, what its  *)
(* settlements take off the bills at any time is at most what it           *)
(* allocates, but for the paisa by which the advances drawn for a bill may *)
(* exceed what is allocated to it: a receipt is never applied twice.       *)
NeverAppliedTwice ==
    \A v \in Vouchers :
        Applied(v) <= LineTotal(Allocations[v]) + TOL * Len(Allocations[v])

(* A settlement of a voucher is in effect only while the voucher is linked *)
(* to it: none outlives the voucher's unposting, and one that a reopened   *)
(* voucher still has is the one its next posting resumes.                  *)
StandingIsLinked ==
    \A v \in Vouchers : Standing(v) \subseteq UNION Range(voucher[v].links)

(* What a posted receipt, whose settlements nobody cancelled by hand, has  *)
(* in the subledger: applied to bills, or an advance of its own.           *)
Intact(v)      == /\ voucher[v].status = "posted"
                  /\ \A k \in DOMAIN voucher[v].links : voucher[v].links[k] \subseteq Standing(v)
Distributed(v) == advance[OwnAdvance[v]].original + Applied(v)

(* No rupee of a posted receipt is lost: all it received or drew from      *)
(* advances is in the subledger.  Nor does one count twice, but in a       *)
(* receipt on account that is allocated to bills all the same: its advance *)
(* is of the whole amount.  Each check lets a paisa pass: that of the      *)
(* receipt's total, that of a line against its bill, that of a draw        *)
(* against its advance, and that of a bill's draws against its allocation. *)
ReceiptAccountedFor ==
    \A v \in Vouchers : Intact(v) =>
        /\ Support(v) - Distributed(v)
              <= TOL * (1 + Len(CashLines(v)) + 2 * Len(Draws[v]))
        /\ v \notin OnAccount \/ Allocations[v] = <<>> =>
              Distributed(v) - Support(v) <= TOL * (1 + Len(Allocations[v]))
=============================================================================
