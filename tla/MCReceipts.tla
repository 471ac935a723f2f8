----------------------------- MODULE MCReceipts -----------------------------
(* Small instances of Receipts for TLC: one bill of 16; a receipt of 8 on  *)
(* account, and one that pays the bill with cash and by drawing on the     *)
(* advance the first one left.                                             *)
EXTENDS Receipts, TLC

CONSTANTS bill, a1, a2, s1, s2, s3, s4, onAcc, against

Pay(i, amt)    == [item |-> i, amount |-> amt]
Draw(a, i, amt) == [advance |-> a, item |-> i, amount |-> amt]

NoOriginal  == [i \in {} |-> {}]
BillOnly    == <<bill>>
ByHand      == {<<Pay(bill, 4)>>}

BillOf16    == [i \in Items |-> {16}]
CashOf      == [v \in Vouchers |-> IF v = onAcc THEN 8 ELSE 5]
Allocated   == [v \in Vouchers |-> IF v = onAcc THEN <<>> ELSE <<Pay(bill, 10)>>]
Drawn       == [v \in Vouchers |-> IF v = onAcc THEN <<>> ELSE <<Draw(a1, bill, 5)>>]
Own         == [v \in Vouchers |-> IF v = onAcc THEN a1 ELSE a2]

SettlementSymmetry == Permutations(Settlements)
=============================================================================
