--------------------------- MODULE TreasuryProofs ---------------------------
(***************************************************************************)
(* Proofs about Treasury, for any batches, items and settlements: the      *)
(* tables keep their types, what is settled of an item is what the posted  *)
(* settlements apply to it and never exceeds its bill, a batch is paid in  *)
(* full or not at all, and items are shared only by batches of which one   *)
(* has failed.                                                             *)
(***************************************************************************)
EXTENDS Treasury, SumTheorems, TLAPS

(* No item is ever settled beyond its bill: half of NeverOverpaid, which   *)
(* holds because a settlement applies at most what is owed when it locks   *)
(* the items, and cancelling one only gives back.                          *)
WithinBill == \A i \in Items : settled[i] <= Original[i]

Bounded == TypeOK /\ WithinBill

(* What a settlement applies to an item is no less than nothing, and no    *)
(* more than the item owes.                                                *)
LEMMA ApplicableIsOwed ==
    ASSUME Bounded, NEW a, IsAmounts(a)
    PROVE  /\ Applicable(a) \in [Items -> Nat]
           /\ \A i \in Items : Applicable(a)[i] <= Outstanding(i)
<1> DEFINE of(i) == IF i \in DOMAIN a THEN Min({a[i], Outstanding(i)}) ELSE 0
<1>1. ASSUME NEW i \in Items
      PROVE  of(i) \in Nat /\ of(i) <= Outstanding(i)
  <2>1. Outstanding(i) \in Nat
    BY TreasuryAssumption DEF Outstanding, Bounded, TypeOK, WithinBill
  <2>2. CASE i \in DOMAIN a
    <3>1. a[i] \in Nat
      BY <2>2 DEF IsAmounts
    <3>2. \A m, n \in Nat : Min({m, n}) \in Nat /\ Min({m, n}) <= n
      <4> TAKE m, n \in Nat
      <4>1. m \in Int /\ n \in Int
        OBVIOUS
      <4>2. Min({m, n}) \in {m, n} /\ Min({m, n}) <= n
        BY <4>1, MinOfTwo
      <4> QED
        BY <4>2
    <3>3. of(i) = Min({a[i], Outstanding(i)})
      BY <2>2
    <3> QED
      BY <2>1, <3>1, <3>2, <3>3
  <2>3. CASE i \notin DOMAIN a
    BY <2>1, <2>3
  <2> QED
    BY <2>2, <2>3
<1>2. Applicable(a) = [i \in Items |-> of(i)]
  BY DEF Applicable
<1> QED
  BY <1>1, <1>2

LEMMA InitBounded ==
    ASSUME Init
    PROVE  Bounded
<1>1. IsAmounts(None)
  <2>1. None \in [{} -> Nat \ {0}]
    BY DEF None
  <2> QED
    BY <2>1 DEF IsAmounts
<1> QED
  BY TreasuryAssumption, <1>1 DEF Init, Bounded, TypeOK, WithinBill, Zero

LEMMA SettleKeepsBounds ==
    ASSUME Bounded, NEW s \in Settlements, NEW a, IsAmounts(a),
           PostSettlement(s, a)
    PROVE  /\ settled' \in [Items -> Int]
           /\ \A i \in Items : settled'[i] <= Original[i]
           /\ voucher' \in [Settlements -> {"none", "draft", "posted", "cancelled"}]
           /\ DOMAIN asked' = Settlements /\ \A t \in Settlements : IsAmounts(asked'[t])
           /\ applied' \in [Settlements -> [Items -> Nat]]
<1> DEFINE app == Applicable(a)
<1>1. app \in [Items -> Nat] /\ \A i \in Items : app[i] <= Outstanding(i)
  BY ApplicableIsOwed
<1>2. settled' = [i \in Items |-> settled[i] + app[i]]
  BY DEF PostSettlement
<1>3. \A i \in Items : settled'[i] \in Int /\ settled'[i] <= Original[i]
  <2> HIDE DEF app
  <2> QED
    BY TreasuryAssumption, <1>1, <1>2 DEF Outstanding, Bounded, TypeOK
<1>4. applied' = [applied EXCEPT ![s] = app] /\ app \in [Items -> Nat]
  BY <1>1 DEF PostSettlement
<1>5. applied' \in [Settlements -> [Items -> Nat]]
  <2> HIDE DEF app
  <2> QED
    BY <1>4 DEF Bounded, TypeOK
<1>6. asked' = [asked EXCEPT ![s] = a] /\ voucher' = [voucher EXCEPT ![s] = "posted"]
  BY DEF PostSettlement
<1>7. settled' \in [Items -> Int]
  BY <1>2, <1>3
<1> QED
  BY <1>3, <1>5, <1>6, <1>7 DEF Bounded, TypeOK

LEMMA NextBounded ==
    ASSUME Bounded, [Next]_vars
    PROVE  Bounded'
<1>1. ASSUME NEW b \in Batches, NEW S \in SUBSET Items, CreateBatch(b, S)
      PROVE  Bounded'
  <2>1. IsAmounts([i \in S |-> Outstanding(i)])
    <3>1. \A i \in S : Outstanding(i) \in Nat \ {0}
      BY TreasuryAssumption, <1>1 DEF CreateBatch, Outstanding, Bounded, TypeOK
    <3> QED
      BY <3>1 DEF IsAmounts
  <2>2. line' = [line EXCEPT ![b] = [i \in S |-> Outstanding(i)]]
    BY <1>1 DEF CreateBatch
  <2>3. DOMAIN line' = Batches /\ \A c \in Batches : IsAmounts(line'[c])
    BY <2>1, <2>2 DEF Bounded, TypeOK
  <2> QED
    BY <1>1, <2>3 DEF CreateBatch, itemVars, Bounded, TypeOK, WithinBill
<1>2. ASSUME NEW b \in Batches,
             \/ ValidateBatch(b) \/ ApproveBatch(b) \/ ExportBatch(b)
             \/ MarkFailed(b) \/ CancelBatch(b)
      PROVE  Bounded'
  BY <1>2 DEF ValidateBatch, ApproveBatch, ExportBatch, MarkFailed, CancelBatch,
              Moves, itemVars, Bounded, TypeOK, WithinBill
<1>3. ASSUME NEW b \in Batches, BeginPay(b)
      PROVE  Bounded'
  BY <1>3 DEF BeginPay, itemVars, Bounded, TypeOK, WithinBill
<1>4. ASSUME NEW b \in Batches, FinishPay(b)
      PROVE  Bounded'
  <2>1. CASE PostSettlement(b, line[b]) /\ status' = [status EXCEPT ![b] = "paid"]
    <3>1. b \in Settlements /\ IsAmounts(line[b])
      BY DEF Settlements, Bounded, TypeOK
    <3> QED
      BY <1>4, <2>1, <3>1, SettleKeepsBounds DEF FinishPay, Bounded, TypeOK, WithinBill
  <2>2. CASE UNCHANGED <<status, itemVars>>
    BY <1>4, <2>2 DEF FinishPay, itemVars, Bounded, TypeOK, WithinBill
  <2> QED
    BY <1>4, <2>1, <2>2 DEF FinishPay
<1>5. ASSUME NEW s \in Payments, NEW i \in Items, NEW amount \in 1..Original[i] + 1,
             CreateSettlement(s, i, amount)
      PROVE  Bounded'
  <2>1. IsAmounts([j \in {i} |-> amount])
    <3>1. amount \in Nat \ {0}
      BY TreasuryAssumption
    <3> QED
      BY <3>1 DEF IsAmounts
  <2>2. asked' = [asked EXCEPT ![s] = [j \in {i} |-> amount]]
    BY <1>5 DEF CreateSettlement
  <2>3. DOMAIN asked' = Settlements /\ \A t \in Settlements : IsAmounts(asked'[t])
    BY <2>1, <2>2 DEF Bounded, TypeOK
  <2> QED
    BY <1>5, <2>3 DEF CreateSettlement, Bounded, TypeOK, WithinBill
<1>6. ASSUME NEW s \in Payments, PostPayment(s)
      PROVE  Bounded'
  <2>1. s \in Settlements /\ IsAmounts(asked[s]) /\ PostSettlement(s, asked[s])
    BY <1>6 DEF PostPayment, Settlements, Bounded, TypeOK
  <2> QED
    BY <1>6, <2>1, SettleKeepsBounds DEF PostPayment, Bounded, TypeOK, WithinBill
<1>7. ASSUME NEW s \in Settlements, CancelSettlement(s)
      PROVE  Bounded'
  <2>1. settled' = [i \in Items |-> settled[i] - applied[s][i]]
    BY <1>7 DEF CancelSettlement
  <2>2. \A i \in Items : settled'[i] \in Int /\ settled'[i] <= Original[i]
    <3>1. \A i \in Items : applied[s][i] \in Nat
      BY DEF Bounded, TypeOK
    <3> QED
      BY TreasuryAssumption, <2>1, <3>1 DEF Bounded, TypeOK, WithinBill
  <2>3. settled' \in [Items -> Int]
    BY <2>1, <2>2
  <2>4. applied' \in [Settlements -> [Items -> Nat]]
    BY <1>7 DEF CancelSettlement, Zero, Bounded, TypeOK
  <2> QED
    BY <1>7, <2>2, <2>3, <2>4 DEF CancelSettlement, Bounded, TypeOK, WithinBill
<1>8. CASE UNCHANGED vars
  BY <1>8 DEF vars, Bounded, TypeOK, WithinBill
<1> QED
  BY <1>1, <1>2, <1>3, <1>4, <1>5, <1>6, <1>7, <1>8 DEF Next

(* The columns keep their types, whatever the batches, the bills and the   *)
(* settlements of users.                                                   *)
THEOREM TypeCorrect == Spec => []TypeOK
<1>1. Bounded => TypeOK
  BY DEF Bounded
<1> QED
  BY <1>1, InitBounded, NextBounded, PTL DEF Spec

(* No item is settled beyond its bill, under either rule, however batches  *)
(* and users compete for it.                                               *)
THEOREM NeverBeyondBill == Spec => []WithinBill
<1>1. Bounded => WithinBill
  BY DEF Bounded
<1> QED
  BY <1>1, InitBounded, NextBounded, PTL DEF Spec
-----------------------------------------------------------------------------
(* What each settlement applies adds up to what is settled.                *)
AppliedAddsUp ==
    \A i \in Items : settled[i] = SumFunction([s \in Settlements |-> applied[s][i]])

(* A settlement that is not posted applies nothing; a batch has its        *)
(* settlement only when it is paid, and is not paid while it is being paid.*)
(* So what FinishPay applies is all that the batch's settlement applies.   *)
OnlyPostedApply == \A s \in Settlements : voucher[s] # "posted" => applied[s] = Zero
PaidWithVoucher == \A b \in Batches : voucher[b] # "none" => status[b] = "paid"
NotYetPaid == \A b \in paying : status[b] # "paid"

Accounted ==
    /\ Bounded /\ AppliedAddsUp
    /\ OnlyPostedApply /\ PaidWithVoucher /\ NotYetPaid /\ PaidInFull

(* A settlement that comes to apply other amounts changes what is settled  *)
(* by the difference.                                                      *)
LEMMA AppliedChanges ==
    ASSUME Bounded, AppliedAddsUp, NEW s \in Settlements, NEW row \in [Items -> Nat],
           applied' = [applied EXCEPT ![s] = row],
           \A i \in Items : settled'[i] = settled[i] + (row[i] - applied[s][i])
    PROVE  AppliedAddsUp'
<1> SUFFICES ASSUME NEW i \in Items
             PROVE  settled'[i] = SumFunction([t \in Settlements |-> applied'[t][i]])
  BY DEF AppliedAddsUp
<1> DEFINE old == [t \in Settlements |-> applied[t][i]]
           new == [t \in Settlements |-> applied'[t][i]]
<1>1. IsFiniteSet(Settlements)
  BY TreasuryAssumption DEF Settlements
<1>2. /\ \A t \in Settlements : old[t] \in Int /\ new[t] \in Int
      /\ \A t \in Settlements \ {s} : old[t] = new[t]
      /\ old[s] = applied[s][i] /\ new[s] = row[i]
      /\ DOMAIN old = Settlements /\ DOMAIN new = Settlements
  BY DEF Bounded, TypeOK
<1> HIDE DEF old, new
<1>3. SumFunctionOnSet(new, Settlements)
        = SumFunctionOnSet(old, Settlements) + (new[s] - old[s])
  BY <1>1, <1>2, SumChanges
<1>4. settled[i] = SumFunctionOnSet(old, Settlements)
  BY <1>2 DEF AppliedAddsUp, SumFunction, old
<1>5. settled'[i] = SumFunctionOnSet(new, Settlements)
  BY <1>2, <1>3, <1>4
<1> QED
  BY <1>2, <1>5 DEF SumFunction, new

(* When the sum of what is applied of a batch is its total, every line is  *)
(* applied in full: no line is applied by more than it asks.               *)
LEMMA HandedOverInFull ==
    ASSUME Bounded, NEW b \in Batches, HandedOver(b)
    PROVE  \A i \in DOMAIN line[b] : Applicable(line[b])[i] = line[b][i]
<1> DEFINE a == line[b]
           D == DOMAIN a
           app == Applicable(a)
<1>1. /\ D \subseteq Items /\ IsFiniteSet(Items) /\ IsFiniteSet(D)
      /\ \A i \in D : a[i] \in Nat
  <2>1. IsAmounts(a)
    BY DEF Bounded, TypeOK
  <2> QED
    BY <2>1, TreasuryAssumption, FS_Subset DEF IsAmounts
<1>2. app \in [Items -> Nat]
  BY ApplicableIsOwed DEF Bounded, TypeOK
<1>3. ASSUME NEW i \in D PROVE app[i] <= a[i]
  <2>1. a[i] \in Int /\ Outstanding(i) \in Int
    BY <1>1, TreasuryAssumption DEF Outstanding, Bounded, TypeOK
  <2>2. app[i] = Min({a[i], Outstanding(i)})
    BY <1>1 DEF Applicable
  <2> QED
    BY <2>1, <2>2, MinOfTwo
<1>4. \A i \in Items \ D : app[i] = 0
  BY DEF Applicable
<1>5. SumFunctionOnSet(app, Items) = SumFunctionOnSet(a, D)
  BY <1>2 DEF HandedOver, AppliedOf, TotalOf, SumFunction
<1> HIDE DEF a, D, app
<1>6. SumFunctionOnSet(app, Items) = SumFunctionOnSet(app, D)
  BY <1>1, <1>2, <1>4, SumOnPart
<1>7. \A i \in D : app[i] \in Int /\ a[i] \in Int /\ app[i] <= a[i]
  BY <1>1, <1>2, <1>3
<1>8. SumFunctionOnSet(app, D) = SumFunctionOnSet(a, D)
  BY <1>5, <1>6
<1>9. \A i \in D : app[i] = a[i]
  BY <1>1, <1>7, <1>8, SumAtMost
<1> QED
  BY <1>9 DEF a, D, app

(* Posting keeps the accounts, if the settlement applied nothing before.   *)
LEMMA PostingAddsUp ==
    ASSUME Accounted, NEW s \in Settlements, voucher[s] # "posted",
           NEW a, IsAmounts(a), PostSettlement(s, a)
    PROVE  /\ AppliedAddsUp' /\ OnlyPostedApply'
           /\ applied' = [applied EXCEPT ![s] = Applicable(a)]
<1> DEFINE app == Applicable(a)
<1>1. app \in [Items -> Nat]
  BY ApplicableIsOwed DEF Accounted
<1>2. /\ settled' = [i \in Items |-> settled[i] + app[i]]
      /\ applied' = [applied EXCEPT ![s] = app]
      /\ voucher' = [voucher EXCEPT ![s] = "posted"]
  BY DEF PostSettlement
<1>3. applied[s] = Zero
  BY DEF Accounted, OnlyPostedApply
<1> HIDE DEF app
<1>4. \A i \in Items : settled'[i] = settled[i] + (app[i] - applied[s][i])
  BY <1>1, <1>2, <1>3 DEF Zero, Accounted, Bounded, TypeOK
<1>5. AppliedAddsUp'
  BY <1>1, <1>2, <1>4, AppliedChanges DEF Accounted
<1>6. OnlyPostedApply'
  BY <1>2 DEF Accounted, OnlyPostedApply, Bounded, TypeOK
<1> QED
  BY <1>2, <1>5, <1>6 DEF app

LEMMA NextAccounted ==
    ASSUME Accounted, [Next]_vars
    PROVE  Accounted'
<1>0. Bounded'
  BY NextBounded DEF Accounted
<1>1. ASSUME NEW b \in Batches, NEW S \in SUBSET Items, CreateBatch(b, S)
      PROVE  Accounted'
  BY <1>0, <1>1 DEF CreateBatch, itemVars, Accounted, Bounded, TypeOK, AppliedAddsUp,
              OnlyPostedApply, PaidWithVoucher, NotYetPaid, PaidInFull
<1>2. ASSUME NEW b \in Batches,
             \/ ValidateBatch(b) \/ ApproveBatch(b) \/ ExportBatch(b)
             \/ MarkFailed(b) \/ CancelBatch(b)
      PROVE  Accounted'
  <2>1. /\ b \notin paying /\ UNCHANGED <<line, paying, itemVars>>
        /\ status[b] # "paid" /\ status'[b] # "paid"
        /\ \A c \in Batches : c # b => status'[c] = status[c]
    BY <1>2 DEF ValidateBatch, ApproveBatch, ExportBatch, MarkFailed, CancelBatch,
                Moves, Accounted, Bounded, TypeOK
  <2> QED
    BY <1>0, <2>1 DEF itemVars, Accounted, Bounded, TypeOK, AppliedAddsUp,
              OnlyPostedApply, PaidWithVoucher, NotYetPaid, PaidInFull
<1>3. ASSUME NEW b \in Batches, BeginPay(b)
      PROVE  Accounted'
  BY <1>0, <1>3 DEF BeginPay, itemVars, Accounted, AppliedAddsUp,
              OnlyPostedApply, PaidWithVoucher, NotYetPaid, PaidInFull
<1>4. ASSUME NEW b \in Batches, FinishPay(b)
      PROVE  Accounted'
  <2>1. CASE /\ HandedOver(b) /\ PostSettlement(b, line[b])
             /\ status' = [status EXCEPT ![b] = "paid"]
    <3>1. /\ b \in Settlements /\ IsAmounts(line[b])
          /\ b \in paying /\ paying' = paying \ {b} /\ line' = line
      BY <1>4 DEF FinishPay, Settlements, Accounted, Bounded, TypeOK
    <3>2. voucher[b] # "posted"
      BY <3>1 DEF Accounted, PaidWithVoucher, NotYetPaid
    <3>3. /\ AppliedAddsUp' /\ OnlyPostedApply'
          /\ applied' = [applied EXCEPT ![b] = Applicable(line[b])]
      BY <2>1, <3>1, <3>2, PostingAddsUp
    <3>4. voucher' = [voucher EXCEPT ![b] = "posted"]
      BY <2>1 DEF PostSettlement
    <3>5. \A i \in DOMAIN line[b] : applied'[b][i] = line[b][i]
      BY <2>1, <3>1, <3>3, HandedOverInFull DEF Accounted, Bounded, TypeOK
    <3>6. \A c \in Batches : c # b => /\ status'[c] = status[c] /\ voucher'[c] = voucher[c]
                                      /\ applied'[c] = applied[c]
      BY <2>1, <3>3, <3>4 DEF Accounted, Bounded, TypeOK
    <3>7. PaidInFull'
      BY <3>1, <3>5, <3>6 DEF Accounted, PaidInFull
    <3>8. PaidWithVoucher' /\ NotYetPaid'
      BY <2>1, <3>1, <3>6 DEF Accounted, Bounded, TypeOK, PaidWithVoucher, NotYetPaid
    <3> QED
      BY <1>0, <3>3, <3>7, <3>8 DEF Accounted
  <2>2. CASE UNCHANGED <<status, itemVars>>
    BY <1>0, <1>4, <2>2 DEF FinishPay, itemVars, Accounted, AppliedAddsUp,
              OnlyPostedApply, PaidWithVoucher, NotYetPaid, PaidInFull
  <2> QED
    BY <1>4, <2>1, <2>2 DEF FinishPay
<1>5. ASSUME NEW s \in Payments, NEW i \in Items, NEW amount \in 1..Original[i] + 1,
             CreateSettlement(s, i, amount)
      PROVE  Accounted'
  <2>1. \A t \in Settlements : voucher'[t] = voucher[t] \/ (voucher'[t] = "draft" /\ t = s)
    BY <1>5 DEF CreateSettlement, Accounted, Bounded, TypeOK
  <2>2. s \notin Batches /\ s \in Settlements /\ Batches \subseteq Settlements
    BY TreasuryAssumption DEF Settlements
  <2>3. voucher[s] = "none" /\ UNCHANGED <<status, line, paying, settled, applied>>
    BY <1>5 DEF CreateSettlement
  <2> QED
    BY <1>0, <2>1, <2>2, <2>3 DEF Accounted, AppliedAddsUp,
              OnlyPostedApply, PaidWithVoucher, NotYetPaid, PaidInFull
<1>6. ASSUME NEW s \in Payments, PostPayment(s)
      PROVE  Accounted'
  <2>1. /\ s \in Settlements /\ IsAmounts(asked[s]) /\ PostSettlement(s, asked[s])
        /\ voucher[s] # "posted" /\ UNCHANGED <<status, line, paying>>
    BY <1>6 DEF PostPayment, Settlements, Accounted, Bounded, TypeOK
  <2>2. /\ AppliedAddsUp' /\ OnlyPostedApply'
        /\ applied' = [applied EXCEPT ![s] = Applicable(asked[s])]
    BY <2>1, PostingAddsUp
  <2>3. voucher' = [voucher EXCEPT ![s] = "posted"]
    BY <2>1 DEF PostSettlement
  <2>4. \A b \in Batches : voucher'[b] = voucher[b] /\ applied'[b] = applied[b]
    <3>1. s \notin Batches /\ Batches \subseteq Settlements
      BY TreasuryAssumption DEF Settlements
    <3> QED
      BY <2>2, <2>3, <3>1 DEF Accounted, Bounded, TypeOK
  <2> QED
    BY <1>0, <2>1, <2>2, <2>4 DEF Accounted, PaidWithVoucher, NotYetPaid, PaidInFull
<1>7. ASSUME NEW s \in Settlements, CancelSettlement(s)
      PROVE  Accounted'
  <2>1. /\ settled' = [i \in Items |-> settled[i] - applied[s][i]]
        /\ applied' = [applied EXCEPT ![s] = Zero]
        /\ voucher' = [voucher EXCEPT ![s] = "cancelled"]
        /\ voucher[s] # "none" /\ UNCHANGED <<status, line, paying>>
    BY <1>7 DEF CancelSettlement
  <2>2. Zero \in [Items -> Nat]
    BY DEF Zero
  <2>3. \A i \in Items : settled'[i] = settled[i] + (Zero[i] - applied[s][i])
    BY <2>1 DEF Zero, Accounted, Bounded, TypeOK
  <2>4. AppliedAddsUp'
    BY <2>1, <2>2, <2>3, AppliedChanges DEF Accounted
  <2>5. OnlyPostedApply' /\ PaidWithVoucher' /\ NotYetPaid' /\ PaidInFull'
    <3>1. Batches \subseteq Settlements
      BY DEF Settlements
    <3> QED
      BY <2>1, <3>1 DEF Accounted, Bounded, TypeOK, OnlyPostedApply, PaidWithVoucher,
                        NotYetPaid, PaidInFull
  <2> QED
    BY <1>0, <2>4, <2>5 DEF Accounted
<1>8. CASE UNCHANGED vars
  BY <1>0, <1>8 DEF vars, Accounted, AppliedAddsUp,
              OnlyPostedApply, PaidWithVoucher, NotYetPaid, PaidInFull
<1> QED
  BY <1>1, <1>2, <1>3, <1>4, <1>5, <1>6, <1>7, <1>8 DEF Next

LEMMA InitAccounted ==
    ASSUME Init
    PROVE  Accounted
<1>1. AppliedAddsUp
  <2> SUFFICES ASSUME NEW i \in Items
               PROVE  settled[i] = SumFunction([s \in Settlements |-> applied[s][i]])
    BY DEF AppliedAddsUp
  <2> DEFINE f == [s \in Settlements |-> applied[s][i]]
  <2>1. DOMAIN f = Settlements /\ \A s \in Settlements : f[s] = 0
    BY DEF Init, Zero
  <2>2. IsFiniteSet(Settlements)
    BY TreasuryAssumption DEF Settlements
  <2> HIDE DEF f
  <2>3. SumFunctionOnSet(f, Settlements) = 0
    BY <2>1, <2>2, SumOfZeros
  <2> QED
    BY <2>1, <2>3 DEF f, SumFunction, Init, Zero
<1>2. OnlyPostedApply /\ PaidWithVoucher /\ NotYetPaid /\ PaidInFull
  BY DEF Init, Settlements, OnlyPostedApply, PaidWithVoucher, NotYetPaid, PaidInFull
<1> QED
  BY <1>1, <1>2, InitBounded DEF Accounted

(* Every item has settled the sum of what the posted settlements apply to  *)
(* it and no more than its bill, for any number of batches and settlements *)
(* that compete for it and are undone.                                     *)
THEOREM ItemsNeverOverpaid == Spec => []NeverOverpaid
<1>1. Accounted => NeverOverpaid
  BY DEF Accounted, Bounded, WithinBill, AppliedAddsUp, NeverOverpaid
<1> QED
  BY <1>1, InitAccounted, NextAccounted, PTL DEF Spec

(* The settlement of a paid batch, while it stands, settles every line in  *)
(* full: comparing the totals is enough, for batches of any size.          *)
THEOREM BatchesPaidInFull == Spec => []PaidInFull
<1>1. Accounted => PaidInFull
  BY DEF Accounted
<1> QED
  BY <1>1, InitAccounted, NextAccounted, PTL DEF Spec
-----------------------------------------------------------------------------
(* failed_at is there when the status says so: it makes SharedAfterFailure *)
(* inductive, since a failed batch is validated again with its items.      *)
FailureNoted == \A b \in Batches : status[b] = "failed" => b \in failed

Shared == TypeOK /\ FailureNoted /\ SharedAfterFailure

LEMMA NextShared ==
    ASSUME Shared, Bounded, [Next]_vars
    PROVE  Shared'
<1> DEFINE active == {"validated", "approved", "exported"}
<1>0. TypeOK'
  BY NextBounded DEF Bounded
<1>1. ASSUME NEW b \in Batches, NEW S \in SUBSET Items, CreateBatch(b, S)
      PROVE  Shared'
  <2>1. \A c \in Batches : status[c] \in active => S \cap DOMAIN line[c] = {}
    BY <1>1 DEF CreateBatch, Batched, ACTIVE_BATCH_STATUSES
  <2>2. /\ status' = [status EXCEPT ![b] = "validated"] /\ failed' = failed
        /\ line' = [line EXCEPT ![b] = [i \in S |-> Outstanding(i)]]
    BY <1>1 DEF CreateBatch
  <2>3. \A c \in Batches : DOMAIN line'[c] = IF c = b THEN S ELSE DOMAIN line[c]
    BY <2>2 DEF Shared, TypeOK
  <2>4. FailureNoted'
    BY <2>2 DEF Shared, FailureNoted, TypeOK
  <2>5. SharedAfterFailure'
    <3> SUFFICES ASSUME NEW c \in Batches, NEW d \in Batches, c # d,
                        {status'[c], status'[d]} \subseteq active,
                        DOMAIN line'[c] \cap DOMAIN line'[d] # {}
                 PROVE  c \in failed' \/ d \in failed'
      BY DEF SharedAfterFailure
    <3>1. CASE c = b
      BY <2>1, <2>2, <2>3, <3>1 DEF Shared, TypeOK
    <3>2. CASE d = b
      BY <2>1, <2>2, <2>3, <3>2 DEF Shared, TypeOK
    <3>3. CASE c # b /\ d # b
      BY <2>2, <2>3, <3>3 DEF Shared, TypeOK, SharedAfterFailure
    <3> QED
      BY <3>1, <3>2, <3>3
  <2> QED
    BY <1>0, <2>4, <2>5 DEF Shared
<1>2. ASSUME NEW b \in Batches,
             \/ ValidateBatch(b) \/ ApproveBatch(b) \/ ExportBatch(b)
             \/ MarkFailed(b) \/ CancelBatch(b)
      PROVE  Shared'
  <2>1. /\ line' = line /\ failed \subseteq failed'
        /\ \A c \in Batches : c # b => status'[c] = status[c]
        /\ status'[b] = "failed" => b \in failed'
        /\ status'[b] \in active => status[b] \in active \/ status[b] = "failed"
    BY <1>2 DEF ValidateBatch, ApproveBatch, ExportBatch, MarkFailed, CancelBatch,
                Moves, Shared, TypeOK
  <2>2. FailureNoted'
    BY <2>1 DEF Shared, FailureNoted
  <2>3. SharedAfterFailure'
    BY <2>1 DEF Shared, FailureNoted, SharedAfterFailure
  <2> QED
    BY <1>0, <2>2, <2>3 DEF Shared
<1>3. ASSUME NEW b \in Batches, FinishPay(b)
      PROVE  Shared'
  <2>1. /\ line' = line /\ failed' = failed
        /\ \A c \in Batches : status'[c] = status[c] \/ status'[c] = "paid"
    BY <1>3 DEF FinishPay, Shared, TypeOK
  <2> QED
    BY <1>0, <2>1 DEF Shared, FailureNoted, SharedAfterFailure
<1>4. CASE /\ UNCHANGED <<status, line, failed>>
  BY <1>0, <1>4 DEF Shared, FailureNoted, SharedAfterFailure
<1> QED
  BY <1>1, <1>2, <1>3, <1>4 DEF Next, BeginPay, CreateSettlement, PostPayment,
                                CancelSettlement, vars

(* Of two active batches that share an item one has failed before, for any *)
(* number of batches over any items.                                       *)
THEOREM SharedOnlyAfterFailure == Spec => []SharedAfterFailure
<1>1. Init => Shared
  BY InitBounded DEF Init, Shared, Bounded, FailureNoted, SharedAfterFailure
<1>2. Bounded /\ Shared /\ [Next]_vars => Shared'
  BY NextShared
<1>3. Shared => SharedAfterFailure
  BY DEF Shared
<1> QED
  BY <1>1, <1>2, <1>3, InitBounded, NextBounded, PTL DEF Spec
-----------------------------------------------------------------------------
Over == {s \in Settlements : voucher[s] \in {"posted", "cancelled"}}

(* Posting a settlement that has not been posted takes for it what it      *)
(* applies: what the others have left of a bill is what the bill owes.     *)
LEMMA PostTakes ==
    ASSUME Accounted, NEW s \in Settlements, voucher[s] \in {"none", "draft"},
           NEW a, IsAmounts(a), PostSettlement(s, a)
    PROVE  Abstract!Take(s)
<1> DEFINE app == Applicable(a)
<1>1. app \in [Items -> Nat] /\ \A i \in Items : app[i] <= Outstanding(i)
  BY ApplicableIsOwed DEF Accounted
<1>2. /\ applied' = [applied EXCEPT ![s] = app]
      /\ voucher' = [voucher EXCEPT ![s] = "posted"]
  BY DEF PostSettlement
<1> HIDE DEF app
<1>3. applied' \in [Settlements -> [Items -> Nat]]
  BY <1>1, <1>2 DEF Accounted, Bounded, TypeOK
<1>4. applied'[s] = app /\ \A t \in Settlements \ {s} : applied'[t] = applied[t]
  BY <1>2 DEF Accounted, Bounded, TypeOK
<1>5. s \notin Over /\ Over' = Over \cup {s}
  BY <1>2 DEF Over, Accounted, Bounded, TypeOK
<1>6. \A i \in Items : Abstract!Left(i) = Outstanding(i)
  <2>1. \A f : Abstract!SumFunction(f) = SumFunction(f)
    BY DEF Abstract!SumFunction, SumFunction, Abstract!SumFunctionOnSet, SumFunctionOnSet,
           Abstract!FoldFunctionOnSet, FoldFunctionOnSet, Abstract!MapThenFoldSet, MapThenFoldSet
  <2> QED
    BY <2>1 DEF Abstract!Left, Outstanding, Accounted, AppliedAddsUp
<1>7. \A i \in Items : applied'[s][i] <= Abstract!Left(i)
  BY <1>1, <1>4, <1>6
<1> QED
  BY <1>3, <1>4, <1>5, <1>7 DEF Abstract!Take, Over

(* Every step is a step of Allocation or leaves what it speaks of alone.   *)
LEMMA StepAllocates ==
    ASSUME Accounted, [Next]_vars
    PROVE  [Abstract!Next]_Abstract!vars
<1>0. Batches \subseteq Settlements /\ Payments \subseteq Settlements
  BY DEF Settlements
<1>1. ASSUME applied' = applied,
             \A s \in Settlements : voucher'[s] = voucher[s] \/ voucher'[s] = "draft",
             \A s \in Settlements : voucher'[s] # voucher[s] => voucher[s] = "none"
      PROVE  UNCHANGED Abstract!vars
  <2>1. Over' = Over
    BY <1>1 DEF Over
  <2> QED
    BY <1>1, <2>1 DEF Abstract!vars, Over
<1>2. ASSUME NEW b \in Batches, NEW S \in SUBSET Items, CreateBatch(b, S)
      PROVE  UNCHANGED Abstract!vars
  BY <1>1, <1>2 DEF CreateBatch, itemVars
<1>3. ASSUME NEW b \in Batches,
             \/ ValidateBatch(b) \/ ApproveBatch(b) \/ ExportBatch(b)
             \/ MarkFailed(b) \/ CancelBatch(b) \/ BeginPay(b)
      PROVE  UNCHANGED Abstract!vars
  BY <1>1, <1>3 DEF ValidateBatch, ApproveBatch, ExportBatch, MarkFailed, CancelBatch,
                    Moves, BeginPay, itemVars
<1>4. ASSUME NEW b \in Batches, FinishPay(b)
      PROVE  [Abstract!Next]_Abstract!vars
  <2>1. CASE PostSettlement(b, line[b])
    <3>1. b \in Settlements /\ IsAmounts(line[b]) /\ voucher[b] = "none"
      BY <1>0, <1>4 DEF FinishPay, Accounted, Bounded, TypeOK, PaidWithVoucher, NotYetPaid
    <3> QED
      BY <2>1, <3>1, PostTakes DEF Abstract!Next
  <2>2. CASE UNCHANGED itemVars
    BY <1>1, <2>2 DEF itemVars
  <2> QED
    BY <1>4, <2>1, <2>2 DEF FinishPay
<1>5. ASSUME NEW s \in Payments, NEW i \in Items, NEW amount \in 1..Original[i] + 1,
             CreateSettlement(s, i, amount)
      PROVE  UNCHANGED Abstract!vars
  <2>1. voucher' = [voucher EXCEPT ![s] = "draft"] /\ applied' = applied /\ voucher[s] = "none"
    BY <1>5 DEF CreateSettlement
  <2> QED
    BY <1>1, <2>1 DEF Accounted, Bounded, TypeOK
<1>6. ASSUME NEW s \in Payments, PostPayment(s)
      PROVE  Abstract!Next
  <2>1. s \in Settlements /\ IsAmounts(asked[s]) /\ voucher[s] = "draft"
        /\ PostSettlement(s, asked[s])
    BY <1>0, <1>6 DEF PostPayment, Accounted, Bounded, TypeOK
  <2> QED
    BY <2>1, PostTakes DEF Abstract!Next
<1>7. ASSUME NEW s \in Settlements, CancelSettlement(s)
      PROVE  Abstract!Next
  <2>1. applied' = [applied EXCEPT ![s] = Zero] /\ voucher' = [voucher EXCEPT ![s] = "cancelled"]
    BY <1>7 DEF CancelSettlement
  <2>2. Over' = Over \cup {s}
    BY <2>1 DEF Over, Accounted, Bounded, TypeOK
  <2>3. Abstract!GiveBack(s)
    BY <2>1, <2>2 DEF Abstract!GiveBack, Abstract!Nothing, Zero, Over
  <2> QED
    BY <2>3 DEF Abstract!Next
<1>8. CASE UNCHANGED vars
  BY <1>8 DEF vars, Abstract!vars
<1> QED
  BY <1>2, <1>3, <1>4, <1>5, <1>6, <1>7, <1>8 DEF Next

(* However batches are paid, fail and come back while users settle the     *)
(* same bills, each settlement takes from the bills once, within what the  *)
(* others have left, and gives back all of it or nothing.                  *)
THEOREM Refinement == Spec => ImplementsAllocation
<1>1. Init => Abstract!Init
  BY DEF Init, Zero, Abstract!Init, Abstract!Nothing
<1>2. Accounted /\ [Next]_vars => [Abstract!Next]_Abstract!vars
  BY StepAllocates
<1> QED
  BY <1>1, <1>2, InitAccounted, NextAccounted, PTL
     DEF Spec, ImplementsAllocation, Abstract!Spec
=============================================================================
