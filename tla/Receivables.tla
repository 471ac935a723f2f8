---------------------------- MODULE Receivables ----------------------------
(***************************************************************************)
(* The receivable subledger: sales invoices and credit notes, the open    *)
(* item each posted one leaves (CustomerBillOpenItem), the advances a      *)
(* customer has paid (CustomerAdvanceBalance) and the settlements that set *)
(* the two off against each other (CustomerSettlement and its lines), as   *)
(* kept by sales/services/sales_ar_service.py and by the status            *)
(* transitions of sales/services/sales_invoice_service.py.                 *)
(*                                                                         *)
(* A service call that locks the rows it writes (the header, or the        *)
(* settlement, then lines with their items, then the advance) before it    *)
(* reads them is one action here.  Three do not, and are two steps with    *)
(* what was read in between: the edit of an invoice (BeginEdit, SaveEdit), *)
(* the repair of an open item (BeginRepair, FinishRepair), and the posting *)
(* of a credit note that is adjusted against its invoice (SeeOriginal,     *)
(* PostInvoice), which has the note's own rows locked meanwhile.           *)
(* Amounts are in paise.                                                   *)
(***************************************************************************)
EXTENDS Integers, Sequences, FiniteSets, FiniteSetsExt, SequencesExt

CONSTANTS
    Items,          \* sales documents; an open item is named by its document
    CreditNotes,    \* those that are credit notes
    Original,       \* the invoice a credit note corrects, if any: a set
    DueOrder,       \* the documents by due date
    Advances,       \* advance balances
    Settlements,    \* settlements: bounds how many are ever created
    Gross,          \* the totals an editor may give each document
    AdvanceAmounts, \* the amounts of a new advance
    LineChoices,    \* the lines a user may put on a settlement
    FifoAmounts,    \* the amounts a user may ask to have allocated
    TypedAmounts,   \* the settled amounts a user may type on an invoice
    SlowEdits,      \* documents of which a request may hold an old header
    BlockOver,      \* over_settlement_rule = "block"
    AutoAdjust,     \* auto_adjust_credit_notes = "on"
    TOL             \* the tolerance, one paisa

ASSUME ReceivablesAssumption ==
    /\ CreditNotes \subseteq Items
    /\ Original \in [CreditNotes -> SUBSET (Items \ CreditNotes)]
    /\ \A i \in CreditNotes : \A j, k \in Original[i] : j = k
    /\ DueOrder \in Seq(Items)
    /\ Gross \in [Items -> SUBSET Nat] /\ AdvanceAmounts \subseteq Nat \ {0}
    /\ LineChoices \subseteq Seq([item : Items, amount : Int])
    /\ FifoAmounts \subseteq Int /\ TypedAmounts \subseteq Int
    /\ IsFiniteSet(Settlements)
    /\ BlockOver \in BOOLEAN /\ AutoAdjust \in BOOLEAN /\ TOL \in Nat

VARIABLES
    header,         \* the documents
    item,           \* their open items
    advance,        \* the advance balances
    settlement,     \* the settlements with their lines
    editing,        \* the header a slow request has read, if any
    repairing,      \* the worth a repair of the item has computed, if any
    adjusting       \* what a note's posting saw its original owe, if any

reads == <<editing, repairing, adjusting>>
vars  == <<header, item, advance, settlement, reads>>

(* The tables a service call may write, as one value it transforms.        *)
Books == [header |-> header, item |-> item,
          advance |-> advance, settlement |-> settlement]

Become(b) ==
    /\ header' = b.header
    /\ item' = b.item
    /\ advance' = b.advance
    /\ settlement' = b.settlement

Size(x)      == IF x < 0 THEN -x ELSE x
Sign(x)      == IF x > 0 THEN 1 ELSE -1
Remainder(x) == IF Size(x) <= TOL THEN 0 ELSE x
DocSign(i)   == IF i \in CreditNotes THEN -1 ELSE 1
Net(h, i)    == DocSign(i) * h.amount

(* recompute_settlement_fields: the header's own view of what is settled.  *)
Recomputed(h) ==
    LET settled == Max({0, Min({h.settled, h.amount})})
    IN  [h EXCEPT !.settled = settled, !.outstanding = h.amount - settled]

NewHeader(amt) == [status |-> "draft", reversed |-> FALSE, amount |-> amt,
                   settled |-> 0, outstanding |-> amt]
NoItem         == [exists |-> FALSE, original |-> 0, settled |-> 0,
                   outstanding |-> 0, open |-> FALSE]
NoAdvance      == [exists |-> FALSE, original |-> 0, adjusted |-> 0,
                   outstanding |-> 0, open |-> FALSE]
NoSettlement   == [status |-> "none", advance |-> {}, lines |-> <<>>,
                   total |-> 0, marker |-> {}]

Init ==
    /\ \E amt \in [Items -> UNION Range(Gross)] :
          /\ \A i \in Items : amt[i] \in Gross[i]
          /\ header = [i \in Items |-> NewHeader(amt[i])]
    /\ item = [i \in Items |-> NoItem]
    /\ advance = [a \in Advances |-> NoAdvance]
    /\ settlement = [s \in Settlements |-> NoSettlement]
    /\ editing = [i \in Items |-> {}]
    /\ repairing = [i \in Items |-> {}]
    /\ adjusting = [i \in Items |-> {}]

(* The header and the item of a note are locked while it is being posted.  *)
Unlocked(i)      == adjusting[i] = {}
LinesFree(lines) == \A k \in DOMAIN lines : Unlocked(lines[k].item)
----------------------------------------------------------------------------
(* Faulty: a remainder within the tolerance is kept, and keeps it open.    *)
SettledExactly(it, x) ==
    LET left == it.original - x
    IN  [it EXCEPT !.settled = x, !.outstanding = left, !.open = left # 0]

(* The balance left on an item once its settled amount is x.               *)
Settled(it, x) ==
    LET left == Remainder(it.original - x)
    IN  [it EXCEPT !.settled = x, !.outstanding = left, !.open = left # 0]

(* _sync_header_from_open_item *)
SyncHeader(b, i) ==
    [b EXCEPT !.header[i].settled = b.item[i].settled,
              !.header[i].outstanding = b.item[i].outstanding]

(* close_open_item_for_header *)
CloseItem(b, i) ==
    IF b.item[i].exists
    THEN SyncHeader([b EXCEPT !.item[i].open = FALSE,
                              !.item[i].outstanding = 0], i)
    ELSE b

(* Faulty: the headers are not synchronised.                               *)
MovedItemsOnly(b, move) ==
    [b EXCEPT !.item = [i \in Items |->
        IF move[i] = 0 THEN @[i] ELSE Settled(@[i], @[i].settled + move[i])]]

(* Settlement lines move the settled amounts of the items they name; the   *)
(* items and headers of the others are not written.                        *)
Moved(b, move) ==
    [b EXCEPT
       !.item = [i \in Items |->
           IF move[i] = 0 THEN @[i] ELSE Settled(@[i], @[i].settled + move[i])],
       !.header = [i \in Items |->
           IF move[i] = 0 THEN @[i]
           ELSE LET it == Settled(b.item[i], b.item[i].settled + move[i])
                IN  [@[i] EXCEPT !.settled = it.settled,
                                 !.outstanding = it.outstanding]]]

SumOn(lines, i) ==
    SumFunctionOnSet([k \in DOMAIN lines |-> lines[k].applied],
                     {k \in DOMAIN lines : lines[k].item = i})
Total(lines) == SumFunction([k \in DOMAIN lines |-> Size(lines[k].applied)])
----------------------------------------------------------------------------
(* create_settlement: a draft; a line names each item once, and its amount *)
(* is positive.                                                            *)
Draft(lines, adv, marker) ==
    [status |-> "draft", advance |-> adv, marker |-> marker,
     lines |-> [k \in DOMAIN lines |-> [item |-> lines[k].item,
                   amount |-> lines[k].amount, applied |-> 0]],
     total |-> SumFunction([k \in DOMAIN lines |-> lines[k].amount])]

ValidLines(lines) ==
    /\ lines # <<>>
    /\ \A k \in DOMAIN lines : item[lines[k].item].exists /\ lines[k].amount > 0
    /\ \A j, k \in DOMAIN lines : lines[j].item = lines[k].item => j = k

(* _auto_fifo_lines: positive balances in order of due date, until the     *)
(* amount is used up.                                                      *)
Payable(i) == /\ header[i].status # "cancelled"
              /\ item[i].open /\ item[i].outstanding > 0

Served(f, i) ==
    LET can == Min({item[i].outstanding, f.left})
    IN  IF Payable(i) /\ can > 0
        THEN [lines |-> Append(f.lines, [item |-> i, amount |-> can]), left |-> f.left - can]
        ELSE f

FifoLines(amount) ==
    LET fifo[k \in 0..Len(DueOrder)] ==
            IF k = 0 THEN [lines |-> <<>>, left |-> amount]
            ELSE Served(fifo[k-1], DueOrder[k])
    IN  fifo[Len(DueOrder)].lines

CreateSettlement(s, lines, adv) ==
    /\ settlement[s].status = "none"
    /\ ValidLines(lines)
    /\ settlement' = [settlement EXCEPT ![s] = Draft(lines, adv, {})]
    /\ UNCHANGED <<header, item, advance, reads>>

(* Faulty: the request is not capped at what the item owes.                *)
WantedUncapped(it, ln) == ln.amount

(* One line of post_settlement: it takes what was asked for, at most what  *)
(* the item still owes and at most what is left of the advance; under the  *)
(* block rule an excess above the tolerance is refused instead.            *)
Live(it)           == it.open /\ Size(it.outstanding) > TOL
Wanted(it, ln)     == Min({ln.amount, Size(it.outstanding)})
Take(it, ln, left) == IF Live(it) THEN Max({0, Min({Wanted(it, ln)} \cup left)}) ELSE 0
Refused(it, ln, left) ==
    \/ ~Live(it)
    \/ ln.amount - Size(it.outstanding) > TOL
    \/ \E l \in left : Wanted(it, ln) - l > TOL

(* Faulty: every line sees the advance as it was before the first.         *)
AdvanceLeftStale(b, s) ==
    [k \in 0..Len(b.settlement[s].lines) |->
        {b.advance[a].outstanding : a \in b.settlement[s].advance}]

(* What is left of the advance, if there is one, after the first k lines.  *)
AdvanceLeft(b, s) ==
    LET lines == b.settlement[s].lines
        left[k \in 0..Len(lines)] ==
            IF k = 0 THEN {b.advance[a].outstanding : a \in b.settlement[s].advance}
            ELSE {l - Take(b.item[lines[k].item], lines[k], left[k-1]) : l \in left[k-1]}
    IN  left

CanPost(b, s) ==
    /\ b.settlement[s].status = "draft"
    /\ BlockOver =>
          LET lines == b.settlement[s].lines
              left  == AdvanceLeft(b, s)
          IN  \A k \in DOMAIN lines :
                 ~Refused(b.item[lines[k].item], lines[k], left[k-1])

AppliedLines(b, s) ==
    LET lines == b.settlement[s].lines
        left  == AdvanceLeft(b, s)
        at(k) == b.item[lines[k].item]
    IN  [k \in DOMAIN lines |-> [lines[k] EXCEPT !.applied =
            Sign(at(k).outstanding) * Take(at(k), lines[k], left[k-1])]]

Adjusted(adv, x) ==
    LET left == Remainder(adv.original - x)
    IN  [adv EXCEPT !.adjusted = x, !.outstanding = left, !.open = left # 0]

PostEffect(b, s) ==
    LET lines == AppliedLines(b, s)
        moved == Moved(b, [i \in Items |-> SumOn(lines, i)])
    IN  [moved EXCEPT
           !.advance = [a \in Advances |->
               IF a \in b.settlement[s].advance
               THEN Adjusted(@[a], @[a].adjusted + Total(lines)) ELSE @[a]],
           !.settlement[s].lines = lines,
           !.settlement[s].total = Total(lines),
           !.settlement[s].status = "posted"]

PostSettlement(s) ==
    /\ CanPost(Books, s) /\ LinesFree(settlement[s].lines)
    /\ Become(PostEffect(Books, s))
    /\ UNCHANGED reads

(* Faulty: the advance is not given back what it paid.                     *)
ReleasedNothing(adv, x) == adv

(* cancel_settlement: a posted one gives back what its lines took.  The    *)
(* advance keeps a remainder within the tolerance, but closes on it.       *)
Released(adv, x) ==
    LET used == Max({0, x})
    IN  [adv EXCEPT !.adjusted = used, !.outstanding = adv.original - used,
                    !.open = Size(adv.original - used) > TOL]

(* Faulty: the settlement is marked cancelled, its effect left in place.   *)
CancelStatusOnly(b, s) == [b EXCEPT !.settlement[s].status = "cancelled"]

CanCancel(b, s) == b.settlement[s].status \in {"draft", "posted"}

CancelEffect(b, s) ==
    LET lines == b.settlement[s].lines
        moved == Moved(b, [i \in Items |-> -SumOn(lines, i)])
    IN  IF b.settlement[s].status = "draft"
        THEN [b EXCEPT !.settlement[s].status = "cancelled"]
        ELSE [moved EXCEPT
           !.advance = [a \in Advances |->
               IF a \in b.settlement[s].advance
               THEN Released(@[a], @[a].adjusted - Total(lines)) ELSE @[a]],
           !.settlement[s].lines =
               [k \in DOMAIN lines |-> [lines[k] EXCEPT !.applied = 0]],
           !.settlement[s].status = "cancelled"]

CancelSettlement(s) ==
    /\ CanCancel(Books, s)
    /\ settlement[s].status = "posted" => LinesFree(settlement[s].lines)
    /\ Become(CancelEffect(Books, s))
    /\ UNCHANGED reads

(* create_advance_balance *)
NewAdvance(amt) == [exists |-> TRUE, original |-> amt, adjusted |-> 0,
                    outstanding |-> amt, open |-> TRUE]

CreateAdvanceBalance(a, amt) ==
    /\ ~advance[a].exists
    /\ advance' = [advance EXCEPT ![a] = NewAdvance(amt)]
    /\ UNCHANGED <<header, item, settlement, reads>>
----------------------------------------------------------------------------
(* Faulty: posting again starts the item afresh.                           *)
SnapshotFresh(b, i) ==
    [b EXCEPT !.item[i] =
        Settled([@ EXCEPT !.exists = TRUE, !.original = Net(b.header[i], i)], 0)]

(* sync_open_item_for_header keeps what earlier settlements settled.       *)
Snapshot(b, i) ==
    [b EXCEPT !.item[i] =
        Settled([@ EXCEPT !.exists = TRUE, !.original = Net(b.header[i], i)],
                @.settled)]

(* Faulty: an invoice that is owed nothing, or overpaid, counts too.       *)
SeenOwedAny(i) ==
    IF /\ AutoAdjust /\ i \in CreditNotes
       /\ \A s \in Settlements : settlement[s].status = "posted" => i \notin settlement[s].marker
    THEN {item[t].outstanding : t \in {o \in Original[i] : item[o].open}}
    ELSE {}

(* _auto_adjust_credit_note_if_enabled: once, against the original if that *)
(* still owes something.  What it owes is read without a lock.             *)
SeenOwed(i) ==
    IF /\ AutoAdjust /\ i \in CreditNotes
       /\ \A s \in Settlements : settlement[s].status = "posted" => i \notin settlement[s].marker
    THEN {item[t].outstanding :
             t \in {o \in Original[i] : item[o].open /\ item[o].outstanding > 0}}
    ELSE {}

(* Faulty: the note is consumed in full, whatever the invoice still owes.  *)
AutoLinesFull(b, i, t, owed) ==
    <<[item |-> t, amount |-> Min({owed, Size(b.item[i].outstanding)})],
      [item |-> i, amount |-> Size(b.item[i].outstanding)]>>

AutoLines(b, i, t, owed) ==
    LET amt == Min({owed, Size(b.item[i].outstanding)})
    IN  <<[item |-> t, amount |-> amt], [item |-> i, amount |-> amt]>>

(* The posting of a note up to that read, and one that fails after it.     *)
Postable(i) == header[i].status \in {"draft", "confirmed"}

SeeOriginal(i) ==
    /\ Postable(i) /\ Unlocked(i) /\ SeenOwed(i) # {}
    /\ adjusting' = [adjusting EXCEPT ![i] = SeenOwed(i)]
    /\ UNCHANGED <<header, item, advance, settlement, editing, repairing>>

GiveUpPost(i) ==
    /\ ~Unlocked(i)
    /\ adjusting' = [adjusting EXCEPT ![i] = {}]
    /\ UNCHANGED <<header, item, advance, settlement, editing, repairing>>

(* The posting of a document; the rest of it for a note that has seen what *)
(* its original owes, where post_settlement locks the invoice's item.      *)
PostInvoice(i) ==
    /\ Postable(i)
    /\ LET b == Snapshot([Books EXCEPT
                   !.header[i] = [Recomputed(@) EXCEPT !.status = "posted",
                                                       !.reversed = FALSE]], i)
       IN  IF b.item[i].outstanding = 0 \/ (Unlocked(i) /\ SeenOwed(i) = {})
           THEN Become(SyncHeader(b, i))
           ELSE \E owed \in adjusting[i], t \in Original[i], s \in Settlements :
                   LET c == [b EXCEPT !.settlement[s] =
                                 Draft(AutoLines(b, i, t, owed), {}, {i})]
                   IN  /\ settlement[s].status = "none"
                       /\ CanPost(c, s)
                       /\ Become(SyncHeader(PostEffect(c, s), i))
    /\ adjusting' = [adjusting EXCEPT ![i] = {}]
    /\ UNCHANGED <<editing, repairing>>

Confirm(i) ==
    /\ header[i].status = "draft" /\ Unlocked(i)
    /\ header' = [header EXCEPT ![i] = [Recomputed(@) EXCEPT !.status = "confirmed"]]
    /\ UNCHANGED <<item, advance, settlement, reads>>

Reversed(b, i) ==
    CloseItem([b EXCEPT !.header[i].status = "confirmed",
                        !.header[i].reversed = TRUE], i)

ReversePosting(i) ==
    /\ header[i].status = "posted"
    /\ Become(Reversed(Books, i))
    /\ UNCHANGED reads

(* cancel: a posted document is reversed first; its period is not locked.  *)
CancelInvoice(i) ==
    /\ header[i].status # "cancelled" /\ Unlocked(i)
    /\ LET b == IF header[i].status = "posted" THEN Reversed(Books, i) ELSE Books
       IN  Become(CloseItem([b EXCEPT !.header[i].status = "cancelled"], i))
    /\ UNCHANGED reads

(* update_with_lines tests the status of the header it was handed, and     *)
(* saves every column of it.                                               *)
Edited(h, amt) == Recomputed([h EXCEPT !.amount = amt])
Editable(h)    == h.status \in {"draft", "confirmed"}

EditInvoice(i, amt) ==
    /\ Editable(header[i]) /\ Unlocked(i)
    /\ header' = [header EXCEPT ![i] = Edited(@, amt)]
    /\ UNCHANGED <<item, advance, settlement, reads>>

BeginEdit(i) ==
    /\ i \in SlowEdits
    /\ editing' = [editing EXCEPT ![i] = {header[i]}]
    /\ UNCHANGED <<header, item, advance, settlement, repairing, adjusting>>

SaveEdit(i, amt) ==
    /\ Unlocked(i)
    /\ \E h \in editing[i] : /\ Editable(h)
                             /\ header' = [header EXCEPT ![i] = Edited(h, amt)]
    /\ editing' = [editing EXCEPT ![i] = {}]
    /\ UNCHANGED <<item, advance, settlement, repairing, adjusting>>

(* apply_settlement: writes the settlement figures of the header only, as  *)
(* they follow from the header it was handed.                              *)
Typed(h, amt) == Recomputed([h EXCEPT !.settled = amt])

ApplySettlement(i, amt) ==
    /\ Unlocked(i)
    /\ \E h \in {header[i]} \cup editing[i] :
          header' = [header EXCEPT ![i].settled = Typed(h, amt).settled,
                                   ![i].outstanding = Typed(h, amt).outstanding]
    /\ UNCHANGED <<item, advance, settlement, reads>>

(* repair_open_item_if_drifted, on reading the list of open items: what    *)
(* the document is worth is computed from the rows of the list, ...        *)
BeginRepair(i) ==
    /\ item[i].exists /\ header[i].status # "cancelled"
    /\ Size(item[i].original - Net(header[i], i)) > TOL
    /\ repairing' = [repairing EXCEPT ![i] = {Net(header[i], i)}]
    /\ UNCHANGED <<header, item, advance, settlement, editing, adjusting>>

(* ... and written once the item is locked, whatever has become of it.     *)
FinishRepair(i) ==
    /\ Unlocked(i)
    /\ \E net \in repairing[i] : item' = [item EXCEPT ![i] =
           Settled([@ EXCEPT !.original = net], @.settled)]
    /\ repairing' = [repairing EXCEPT ![i] = {}]
    /\ UNCHANGED <<header, advance, settlement, editing, adjusting>>

UseAdvance == {{}} \cup {{a} : a \in {b \in Advances : advance[b].exists}}

Posting(i) == SeeOriginal(i) \/ PostInvoice(i) \/ GiveUpPost(i)

Invoicing(i) ==
    \/ Confirm(i) \/ Posting(i) \/ ReversePosting(i) \/ CancelInvoice(i)
    \/ BeginEdit(i) \/ BeginRepair(i) \/ FinishRepair(i)
    \/ \E amt \in Gross[i] : EditInvoice(i, amt) \/ SaveEdit(i, amt)
    \/ \E amt \in TypedAmounts : ApplySettlement(i, amt)

Settling(s) ==
    \/ \E adv \in UseAdvance :
          \/ \E lines \in LineChoices : CreateSettlement(s, lines, adv)
          \/ \E amt \in FifoAmounts : CreateSettlement(s, FifoLines(amt), adv)
    \/ PostSettlement(s) \/ CancelSettlement(s)

Next ==
    \/ \E i \in Items : Invoicing(i)
    \/ \E s \in Settlements : Settling(s)
    \/ \E a \in Advances, amt \in AdvanceAmounts : CreateAdvanceBalance(a, amt)

Spec == Init /\ [][Next]_vars
----------------------------------------------------------------------------
HeaderRow  == [status : {"draft", "confirmed", "posted", "cancelled"}, reversed : BOOLEAN,
               amount : UNION Range(Gross), settled : Int, outstanding : Int]
ItemRow    == [exists : BOOLEAN, original : Int, settled : Int,
               outstanding : Int, open : BOOLEAN]
AdvanceRow == [exists : BOOLEAN, original : Nat, adjusted : Nat,
               outstanding : Int, open : BOOLEAN]
LineRow    == [item : Items, amount : Int, applied : Int]

\* The marker of a settlement says what it was made for, if anything.
SettlementRow(Markers) ==
    [status : {"none", "draft", "posted", "cancelled"}, lines : Seq(LineRow),
     advance : {{}} \cup {{a} : a \in Advances}, total : Int, marker : SUBSET Markers]

TypeOK ==
    /\ header \in [Items -> HeaderRow]
    /\ item \in [Items -> ItemRow]
    /\ advance \in [Advances -> AdvanceRow]
    /\ settlement \in [Settlements -> SettlementRow(CreditNotes)]
    /\ editing \in [Items -> SUBSET HeaderRow]
    /\ repairing \in [Items -> SUBSET Int]
    /\ adjusting \in [Items -> SUBSET Nat]
    /\ \A i \in Items \ CreditNotes : adjusting[i] = {}

(* The settled amount of an open item is exactly what the posted           *)
(* settlements applied to it: nothing is lost or counted twice, however    *)
(* settlements are posted and cancelled and the document reversed, edited  *)
(* and posted again in between.                                            *)
SettledIsApplied ==
    \A i \in Items :
        item[i].settled = SumFunctionOnSet(
            [s \in Settlements |-> SumOn(settlement[s].lines, i)],
            {s \in Settlements : settlement[s].status = "posted"})

(* The adjusted amount of an advance is what the posted settlements drew   *)
(* from it, and their totals say the same.                                 *)
AdvanceIsApplied ==
    \A a \in Advances :
        advance[a].adjusted = SumFunctionOnSet(
            [s \in Settlements |-> settlement[s].total],
            {s \in Settlements : settlement[s].status = "posted"
                                 /\ a \in settlement[s].advance})

(* An advance never pays for more than was received.                       *)
AdvanceNeverOverdrawn ==
    \A a \in Advances : advance[a].adjusted <= advance[a].original

(* The open item of a posted document shows what is owed on it, and is     *)
(* open exactly while that is more than the tolerance.                     *)
OpenMeansOwing ==
    \A i \in Items : header[i].status = "posted" =>
        /\ item[i].outstanding = Remainder(Net(header[i], i) - item[i].settled)
        /\ item[i].open <=> item[i].outstanding # 0

(* The settlement figures on a posted invoice are those of its open item.  *)
HeaderMirrorsItem ==
    \A i \in Items : header[i].status = "posted" =>
        /\ header[i].settled = item[i].settled
        /\ header[i].outstanding = item[i].outstanding

(* An automatic credit-note settlement moves value between the two         *)
(* documents and creates none: it never takes more off the invoice than    *)
(* off the note, and under the block rule no less either, but for the      *)
(* tolerance, though the invoice may be settled between the read of what   *)
(* it owes and the lock of its item.                                       *)
NetsOut(given, used) == /\ given <= used
                        /\ BlockOver => used - Size(given) <= TOL

AutoAdjustmentNets ==
    \A s \in Settlements : settlement[s].marker # {} =>
        \A i, j \in Items : i \in settlement[s].marker /\ j \in Original[i] =>
            NetsOut(SumOn(settlement[s].lines, j), -SumOn(settlement[s].lines, i))

(* No document is settled for more than it is worth.                       *)
SettledWithinOriginal ==
    \A i \in Items : Size(item[i].settled) <= Size(item[i].original)

(* What is written as the worth of a document is what it is worth: a       *)
(* repair heals the item of a document whose total has changed, and does   *)
(* not set it back to an earlier total.  The code does not ensure it: an   *)
(* edit and a posting may overtake a repair.  It is the assumption under   *)
(* which OpenMeansOwing and HeaderMirrorsItem hold where totals change.    *)
RepairsHeal ==
    \A i \in Items : item'[i].original # item[i].original
                        => item'[i].original = Net(header'[i], i)
SelfHeal == [][RepairsHeal]_vars
=============================================================================
