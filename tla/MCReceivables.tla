-------------------------- MODULE MCReceivables --------------------------
(* Small instances of Receivables for TLC. *)
EXTENDS Receivables, TLC

CONSTANTS inv, late, note, a1, s1, s2

Pay(i, amt) == [item |-> i, amount |-> amt]

InvoiceDue  == <<inv, late>>
NoteDue     == <<note, inv>>
NoOriginal  == [i \in {} |-> {}]
NoteFor     == [i \in CreditNotes |-> {inv}]

Fixed   == [i \in Items |-> {5}]
NoteOf4 == [i \in Items |-> IF i = note THEN {4} ELSE {2, 5}]

(* Within the tolerance, in part, in full, in excess; one invoice or both. *)
TwoInvoices == {<<Pay(inv, 3)>>, <<Pay(inv, 7)>>,
                <<Pay(inv, 5), Pay(late, 4)>>, <<Pay(late, 4), Pay(inv, 2)>>}
WithNote    == {<<Pay(inv, 2)>>, <<Pay(inv, 3), Pay(note, 2)>>}

(* No guard reads the settlement figures of a header, and posting writes   *)
(* them anew from the item: those of an unposted document are of no        *)
(* consequence, nor, where nothing is typed, is a copy of a header that    *)
(* cannot be edited.  Nothing reads whether a document was reversed.       *)
Shown(h)  == [status |-> h.status, amount |-> h.amount]
Mirror(h) == IF h.status = "posted" THEN <<h.settled, h.outstanding>> ELSE <<>>

Edits   == [i \in Items |-> {Shown(h) : h \in {e \in editing[i] : Editable(e)}}]
Essence == <<[i \in Items |-> Shown(header[i])], item, advance, settlement,
             Edits, repairing, adjusting>>
Mirrors == <<Essence, [i \in Items |-> Mirror(header[i])]>>

SettlementSymmetry == Permutations(Settlements)
=============================================================================
