----------------------------- MODULE Numbering -----------------------------
(***************************************************************************)
(* Document numbers: the series of each scope of a financial year          *)
(* (numbering/services/document_number_service.py), the life of the        *)
(* payment, receipt and journal vouchers that draw numbers from it, and    *)
(* the settings screen, which writes the counter.  The vouchers are all of *)
(* one kind: each kind has series of its own.                              *)
(*                                                                         *)
(* allocate_final locks the series row, and the lock is held until the     *)
(* confirmation commits or rolls back, so drawing a number and saving the  *)
(* voucher is one action.  The confirmation of a payment or a journal, and *)
(* every posting, unposting and cancellation, locks the voucher before it  *)
(* reads it.  An edit, a deletion and the confirmation of a receipt do     *)
(* not: they work on a copy of the row (opened), and by the time they      *)
(* write, others may have moved the voucher on.                            *)
(***************************************************************************)
EXTENDS Integers, FiniteSets, FiniteSetsExt

CONSTANTS
    Docs,           \* the vouchers of one kind and financial year
    Scopes,         \* the entity's own scope and its branches
    Root,           \* the entity's own scope
    ScopeOf,        \* the scope of each voucher
    Periods,        \* calendar years (or months) the financial year touches
    Setups,         \* how the vouchers may be set up, see Setup
    PaymentTries,   \* numbers tried for a payment: 25 in the code
    Slow,           \* vouchers on which requests may be slow
    OpenCopies,     \* bounds the copies of a voucher under way at once
    TopNumber       \* bounds the numbers that are drawn

(* The kind of the vouchers, whether reset_frequency is yearly or monthly, *)
(* whether somebody opens the settings screen of their series, and the     *)
(* counters that are typed on it.                                          *)
Setup == [kind : {"payment", "receipt", "journal"}, restarts : BOOLEAN,
          edited : BOOLEAN, typed : SUBSET (Nat \ {0})]

ASSUME NumberingAssumption ==
    /\ Setups \subseteq Setup
    /\ Root \in Scopes
    /\ ScopeOf \in [Docs -> Scopes] /\ Slow \subseteq Docs
    /\ PaymentTries \in Nat \ {0} /\ OpenCopies \in Nat /\ TopNumber \in Nat

VARIABLES
    setup,          \* how the vouchers are set up
    series,         \* of each scope, if it has one: the number to be drawn
                    \* next, and the period it was last reset in, if any
    voucher,        \* the vouchers: status, and number, if any
    opened,         \* the copies of each that requests under way have read
    form,           \* the counter an open settings screen was loaded with
    given           \* history: the numbers vouchers of each scope ever had

vars == <<setup, series, voucher, opened, form, given>>

START == 1          \* starting_number

(* A payment tries on until a number is free; the others draw one.         *)
Tries == IF setup.kind = "payment" THEN PaymentTries ELSE 1

(* confirm_voucher locks the voucher, but for receipts.                    *)
LocksVoucher == setup.kind # "receipt"

(* The periods a series restarts with.                                     *)
Resets == IF setup.restarts THEN Periods ELSE {}

Unnumbered == [status |-> "draft", number |-> {}]
Gone       == [status |-> "gone", number |-> {}]

Init ==
    /\ setup \in Setups
    /\ \E last \in {{}} \cup {{p} : p \in Resets} :
          series = [s \in Scopes |->
                       IF s = Root THEN {[current |-> START, reset |-> last]} ELSE {}]
    /\ voucher = [d \in Docs |-> Unnumbered]
    /\ opened = [d \in Docs |-> {}]
    /\ form = [s \in Scopes |-> {}]
    /\ given = [s \in Scopes |-> {}]

(* _get_series: a branch without a series inherits the entity's.           *)
SeriesFor(s) == IF series[s] = {} THEN Root ELSE s

NeedsReset(ser, p) == p \in Resets /\ ser.reset # {p}

(* Faulty: a restart is at zero.                                           *)
ResetForZero(ser, p) ==
    IF NeedsReset(ser, p) THEN [current |-> 0, reset |-> {p}] ELSE ser

(* The series as the allocation for a voucher of period p finds it.        *)
ResetFor(ser, p) ==
    IF NeedsReset(ser, p) THEN [current |-> START, reset |-> {p}] ELSE ser

(* _doc_number_exists_in_scope, and the unique constraint on the vouchers. *)
Free(d, n) ==
    \A e \in Docs \ {d} : ScopeOf[e] = ScopeOf[d] => n \notin voucher[e].number

Candidates(d, ser) ==
    {n \in ser.current .. ser.current + Tries - 1 : Free(d, n)}

(* Faulty: the counter moves on by two.                                    *)
DrawnPast(ser, n) == [ser EXCEPT !.current = n + 2]

(* Faulty: the counter is not saved.                                       *)
DrawnOnly(ser, n) == ser

Drawn(ser, n) == [ser EXCEPT !.current = n + 1]

(* The row of a voucher is written; its number is its own.                 *)
Saved(d, row) ==
    /\ \A n \in row.number : Free(d, n)
    /\ voucher' = [voucher EXCEPT ![d] = row]
    /\ given' = [given EXCEPT ![ScopeOf[d]] = @ \cup row.number]

(* allocate_final until a number is free, and the save of the voucher; if  *)
(* none is, everything is rolled back, the reset included.  The date that  *)
(* is passed can be edited until then; a journal passes none, and the day  *)
(* of the confirmation counts.                                             *)
Numbered(d, row) ==
    LET s == SeriesFor(ScopeOf[d])
    IN  \E found \in series[s], p \in Periods :
          LET ser == ResetFor(found, p)
              n   == Min(Candidates(d, ser))
          IN  /\ Candidates(d, ser) # {}
              /\ n <= TopNumber
              /\ Saved(d, [row EXCEPT !.number = {n}])
              /\ series' = [series EXCEPT ![s] = {Drawn(ser, n)}]

(* Faulty: a confirmation draws a number whether there is one or not.      *)
NumberedAgain(d, row) == Numbered(d, row)

NumberedOnce(d, row) ==
    \/ row.number = {} /\ Numbered(d, row)
    \/ row.number # {} /\ Saved(d, row) /\ UNCHANGED series

(* A request reads a voucher without a lock, and is slow to act on it.     *)
OpenVoucher(d) ==
    /\ d \in Slow /\ voucher[d].status # "gone"
    /\ Cardinality(opened[d]) < OpenCopies
    /\ opened' = [opened EXCEPT ![d] = @ \cup {voucher[d]}]
    /\ UNCHANGED <<setup, series, voucher, form, given>>

(* It answers, fails or is abandoned.                                      *)
CloseVoucher(d, c) ==
    /\ c \in opened[d]
    /\ opened' = [opened EXCEPT ![d] = @ \ {c}]
    /\ UNCHANGED <<setup, series, voucher, form, given>>

(* What a request that takes no lock may be working on: a copy it read     *)
(* before, or the voucher as it stands.                                    *)
Copies(d) == opened[d] \cup ({voucher[d]} \ {Gone})

(* update_voucher looks at the status of its copy and saves every column   *)
(* of it; a row that was deleted meanwhile is inserted again.              *)
SaveEdit(d, c) ==
    /\ c.status \in {"draft", "confirmed"}
    /\ Saved(d, c)
    /\ UNCHANGED <<setup, series, opened, form>>

(* perform_destroy looks at the status of its copy.                        *)
DeleteVoucher(d, c) ==
    /\ c.status = "draft" /\ voucher[d].status # "gone"
    /\ voucher' = [voucher EXCEPT ![d] = Gone]
    /\ UNCHANGED <<setup, series, opened, form, given>>

ConfirmVoucher(d) ==
    /\ LocksVoucher
    /\ voucher[d].status = "draft"
    /\ NumberedOnce(d, [voucher[d] EXCEPT !.status = "confirmed"])
    /\ UNCHANGED <<setup, opened, form>>

(* A receipt gets the number of the copy, or a new one if that has none;   *)
(* its status is written only if the copy was a draft.                     *)
ConfirmReceipt(d, c) ==
    /\ ~LocksVoucher
    /\ c.status \in {"draft", "confirmed"} /\ voucher[d].status # "gone"
    /\ NumberedOnce(d, [c EXCEPT !.status =
           IF c.status = "draft" THEN "confirmed" ELSE voucher[d].status])
    /\ UNCHANGED <<setup, opened, form>>

(* post_voucher, unpost_voucher, to the status of the policy, and          *)
(* cancel_voucher lock the voucher and leave its number alone.             *)
Moves == [draft |-> {"cancelled"}, confirmed |-> {"posted", "cancelled"},
          posted |-> {"draft", "confirmed"}, cancelled |-> {}, gone |-> {}]

MoveVoucher(d, status) ==
    /\ status \in Moves[voucher[d].status]
    /\ voucher' = [voucher EXCEPT ![d].status = status]
    /\ UNCHANGED <<setup, series, opened, form, given>>

(* The settings screen: a scope without a series is shown START.           *)
OpenForm(s) ==
    /\ setup.edited /\ form[s] = {}
    /\ form' = [form EXCEPT ![s] =
           IF series[s] = {} THEN {START} ELSE {ser.current : ser \in series[s]}]
    /\ UNCHANGED <<setup, series, voucher, opened, given>>

(* It creates the series if there is none, and saves the counter it was    *)
(* loaded with, or the one the user has typed over it.                     *)
SaveForm(s, n, today) ==
    /\ form[s] # {} /\ n \in form[s] \cup setup.typed
    /\ series' = [series EXCEPT ![s] =
           {[current |-> n,
             reset   |-> IF series[s] = {} THEN {today} \cap Resets
                         ELSE UNION {ser.reset : ser \in series[s]}]}]
    /\ form' = [form EXCEPT ![s] = {}]
    /\ UNCHANGED <<setup, voucher, opened, given>>

Working(d) ==
    \/ OpenVoucher(d)
    \/ \E c \in opened[d] : CloseVoucher(d, c)
    \/ \E c \in Copies(d) : SaveEdit(d, c) \/ DeleteVoucher(d, c) \/ ConfirmReceipt(d, c)
    \/ ConfirmVoucher(d)
    \/ \E status \in Moves[voucher[d].status] : MoveVoucher(d, status)

Setting(s) ==
    \/ OpenForm(s)
    \/ \E n \in form[s] \cup setup.typed, today \in Periods : SaveForm(s, n, today)

Next == (\E d \in Docs : Working(d)) \/ (\E s \in Scopes : Setting(s))

Spec == Init /\ [][Next]_vars
----------------------------------------------------------------------------
VoucherRow == [status : {"draft", "confirmed", "posted", "cancelled", "gone"},
               number : SUBSET (Nat \ {0})]

TypeOK ==
    /\ setup \in Setups
    /\ \A s \in Scopes :
          /\ Cardinality(series[s]) <= 1
          /\ \A ser \in series[s] : ser.current \in Nat \ {0} /\ ser.reset \subseteq Periods
    /\ voucher \in [Docs -> VoucherRow]
    /\ \A d \in Docs : \A c \in {voucher[d]} \cup opened[d] :
          /\ c \in VoucherRow /\ Cardinality(c.number) <= 1
          /\ c.status \in {"confirmed", "posted"} => c.number # {}
    /\ form \in [Scopes -> SUBSET Nat]
    /\ given \in [Scopes -> SUBSET Nat]

(* No number is skipped: each one a series has passed was given to a       *)
(* voucher in reach of it, whatever screens write back a counter loaded    *)
(* earlier, series restart, and vouchers are deleted or lose their number  *)
(* to an edit; only a user who types another counter skips some.           *)
NoneSkipped ==
    setup.typed = {} => \A s \in Scopes : \A ser \in series[s] :
        \A n \in START .. ser.current - 1 :
            \E t \in Scopes : n \in given[t] /\ (t = s \/ s = Root)

(* Where series do not restart and nobody sets them, the number to be      *)
(* drawn next is free for every voucher: one try is enough, also after an  *)
(* edit has put an old number back on a voucher or a deleted one back.     *)
NextIsFree ==
    ~(setup.restarts \/ setup.edited) => \A d \in Docs :
        \E ser \in series[SeriesFor(ScopeOf[d])] : Free(d, ser.current)

(* A request that works on an old copy writes back the number of the copy, *)
(* or, to confirm a receipt the copy has no number of, a new one.          *)
Overtaken(d) == \E c \in opened[d] \ {voucher[d]} :
    voucher'[d].number = c.number \/ (c.number = {} /\ ~LocksVoucher)

Deleted(d) == /\ voucher'[d].status = "gone"
              /\ \E c \in Copies(d) : c.status = "draft"

(* A voucher keeps its number, but for a request that has been overtaken   *)
(* and for its deletion by one that found a draft.                         *)
NumberIsKept ==
    [][\A d \in Docs :
          voucher[d].number # {} /\ voucher'[d].number # voucher[d].number
              => Overtaken(d) \/ Deleted(d)]_voucher
=============================================================================
