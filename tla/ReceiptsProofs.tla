--------------------------- MODULE ReceiptsProofs ---------------------------
(***************************************************************************)
(* Proofs about Receipts, for any vouchers, allocations, draws and bills.  *)
(* The tables of the subledger are as good under receipts as they are      *)
(* under the calls of Receivables: each payment and each cancellation a    *)
(* voucher makes is one of those calls, made on the tables the one before  *)
(* it left.                                                                *)
(***************************************************************************)
EXTENDS Receipts, ReceivablesProofs

Markers  == CreditNotes \cup Vouchers
InForce  == {"draft", "posted"}
States   == {"draft", "confirmed", "posted", "cancelled"}

(* What a line may fall short of under the rule that refuses: a paisa for  *)
(* the bill, and one for the advance it is drawn from.                     *)
Slack(adv) == IF adv = {} THEN TOL ELSE TOL + TOL

(* No line takes more off its bill than it asks for, and a posted one not  *)
(* much less, unless excesses are clipped.                                 *)
Measured(row) ==
    \A k \in DOMAIN row.lines :
        /\ \/ Size(row.lines[k].applied) <= row.lines[k].amount
           \/ row.lines[k].applied = 0
        /\ BlockOver /\ row.status = "posted" =>
              row.lines[k].amount - Size(row.lines[k].applied) <= Slack(row.advance)

(* From one settlement row to another: it keeps its marker and what it     *)
(* asks for, and is not revived.                                           *)
Kept(old, new) ==
    /\ new.marker = old.marker /\ new.advance = old.advance
    /\ Amounts(new.lines) = Amounts(old.lines)
    /\ old.status # "none" => new.status # "none"
    /\ new.status \in InForce => old.status \in InForce

AllKept(old, new) == \A s \in Settlements : Kept(old[s], new[s])

\* What changes otherwise is neither before nor after a settlement of w.
Steady(w, old, new) ==
    \A s \in Settlements :
        \/ Kept(old[s], new[s])
        \/ new[s].marker # {w} /\ (old[s].status = "none" \/ old[s].marker # {w})

AllMeasured(st) == \A s \in Settlements : Measured(st[s])

(* What is left of an advance changes, not what it was for.                *)
SameAdvances(old, new) ==
    \A a \in Advances : new[a].exists = old[a].exists /\ new[a].original = old[a].original
-----------------------------------------------------------------------------
(* The payments a voucher makes are settlements with lines that ask for    *)
(* amounts that are not negative.                                          *)
LEMMA AllocationsAre ==
    ASSUME NEW v \in Vouchers
    PROVE  /\ Len(Allocations[v]) \in Nat /\ DOMAIN Allocations[v] = 1..Len(Allocations[v])
           /\ \A k \in 1..Len(Allocations[v]) : /\ Allocations[v][k].item \in Items
                                                /\ Allocations[v][k].amount \in Nat
           /\ Len(Draws[v]) \in Nat /\ DOMAIN Draws[v] = 1..Len(Draws[v])
           /\ \A k \in 1..Len(Draws[v]) : /\ Draws[v][k].item \in Items
                                          /\ Draws[v][k].amount \in Nat
                                          /\ Draws[v][k].advance \in Advances
<1> DEFINE A == [item : Items, amount : Nat]
           D == [advance : Advances, item : Items, amount : Nat]
<1>1. Allocations[v] \in Seq(A) /\ Draws[v] \in Seq(D)
  BY ReceiptsAssumption
<1> HIDE DEF A, D
<1>2. /\ Len(Allocations[v]) \in Nat /\ DOMAIN Allocations[v] = 1..Len(Allocations[v])
      /\ \A k \in 1..Len(Allocations[v]) : Allocations[v][k] \in A
  BY <1>1
<1>3. /\ Len(Draws[v]) \in Nat /\ DOMAIN Draws[v] = 1..Len(Draws[v])
      /\ \A k \in 1..Len(Draws[v]) : Draws[v][k] \in D
  BY <1>1
<1>4. \A k \in 1..Len(Allocations[v]) : /\ Allocations[v][k].item \in Items
                                        /\ Allocations[v][k].amount \in Nat
  BY <1>2 DEF A
<1>5. \A k \in 1..Len(Draws[v]) : /\ Draws[v][k].item \in Items
                                  /\ Draws[v][k].amount \in Nat
                                  /\ Draws[v][k].advance \in Advances
  BY <1>3 DEF D
<1> QED
  BY <1>2, <1>3, <1>4, <1>5

LEMMA LineTotalIs ==
    ASSUME NEW lines, IsFiniteSet(DOMAIN lines), \A k \in DOMAIN lines : lines[k].amount \in Nat
    PROVE  LineTotal(lines) \in Nat
<1> DEFINE f == Amounts(lines)
<1>1. DOMAIN f = DOMAIN lines /\ \A k \in DOMAIN f : f[k] \in Nat
  BY DEF Amounts
<1> HIDE DEF f
<1>2. SumFunctionOnSet(f, DOMAIN f) \in Nat
  BY <1>1, SumIsNatural
<1> QED
  BY <1>2 DEF LineTotal, SumFunction, f

LEMMA AllocatedIsNat ==
    ASSUME NEW v \in Vouchers
    PROVE  LineTotal(Allocations[v]) \in Nat /\ LineTotal(Draws[v]) \in Nat
<1>1. IsFiniteSet(DOMAIN Allocations[v]) /\ IsFiniteSet(DOMAIN Draws[v])
  BY AllocationsAre, FS_Interval
<1>2. /\ \A k \in DOMAIN Allocations[v] : Allocations[v][k].amount \in Nat
      /\ \A k \in DOMAIN Draws[v] : Draws[v][k].amount \in Nat
  BY AllocationsAre
<1> QED
  BY <1>1, <1>2, LineTotalIs

LEMMA DrawnIsNat ==
    ASSUME NEW v \in Vouchers, NEW i
    PROVE  DrawnOn(v, i) \in Nat
<1> DEFINE f == Amounts(Draws[v])
           K == {k \in DOMAIN Draws[v] : Draws[v][k].item = i}
<1>1. IsFiniteSet(DOMAIN Draws[v])
  BY AllocationsAre, FS_Interval
<1>2. IsFiniteSet(K)
  BY <1>1, FS_Subset
<1>3. \A k \in K : f[k] \in Nat
  BY AllocationsAre DEF Amounts
<1> HIDE DEF f, K
<1>4. SumFunctionOnSet(f, K) \in Nat
  BY <1>2, <1>3, SumIsNatural
<1> QED
  BY <1>4 DEF DrawnOn, f, K

\* Lines that ask for something.
AskedSome == [item : Items, amount : Nat]

CashRound(v, w, k) ==
    IF InCash(v, k) > 0
    THEN Append(w, [item |-> Allocations[v][k].item, amount |-> InCash(v, k)])
    ELSE w

LEMMA CashRoundIs ==
    ASSUME NEW v \in Vouchers, NEW k \in 1..Len(Allocations[v]), NEW w \in Seq(AskedSome)
    PROVE  CashRound(v, w, k) \in Seq(AskedSome)
<1> DEFINE x == InCash(v, k)
           ln == [item |-> Allocations[v][k].item, amount |-> x]
<1>1. x \in Int
  BY AllocationsAre, DrawnIsNat DEF InCash
<1>2. CASE x > 0
  <2> HIDE DEF x
  <2>1. ln \in AskedSome
    BY <1>1, <1>2, AllocationsAre DEF AskedSome
  <2> HIDE DEF ln
  <2>2. Append(w, ln) \in Seq(AskedSome)
    BY <2>1
  <2> QED
    BY <1>2, <2>2 DEF CashRound, x, ln
<1>3. CASE ~(x > 0)
  BY <1>3 DEF CashRound
<1> QED
  BY <1>2, <1>3

(* The loop over the allocations, round by round.                          *)
LEMMA CashLoop ==
    ASSUME NEW v \in Vouchers
    PROVE  \E cash : /\ CashLines(v) = cash[Len(Allocations[v])] /\ cash[0] = <<>>
                     /\ \A k \in 1..Len(Allocations[v]) : cash[k] = CashRound(v, cash[k-1], k)
                     /\ \A k \in 0..Len(Allocations[v]) : cash[k] \in Seq(AskedSome)
<1> DEFINE n == Len(Allocations[v])
           V == Seq(AskedSome)
           first == <<>>
           step == [k \in 1..n |-> [w \in V |-> CashRound(v, w, k)]]
<1>1. n \in Nat
  BY AllocationsAre
<1>2. first \in V
  OBVIOUS
<1>3. \A k \in 1..n : \A w \in V : CashRound(v, w, k) \in V
  BY CashRoundIs
<1> HIDE DEF n, V, first
<1>4. PICK g \in Loops(n, V, first, step) : TRUE
  <2>1. \A k \in 1..n : \A w \in V : step[k][w] \in V
    BY <1>1, <1>3
  <2> HIDE DEF step
  <2> QED
    BY <1>1, <1>2, <2>1, LoopExists
<1>5. g = [k \in 0..n |-> IF k = 0 THEN first ELSE CashRound(v, g[k-1], k)]
  <2>1. ASSUME NEW k \in 0..n
        PROVE  (IF k = 0 THEN first ELSE step[k][g[k-1]])
                  = (IF k = 0 THEN first ELSE CashRound(v, g[k-1], k))
    <3>1. k # 0 => k \in 1..n /\ k - 1 \in 0..n
      BY <1>1
    <3>2. g \in [0..n -> V]
      BY <1>4 DEF Loops
    <3> QED
      BY <3>1, <3>2
  <2> HIDE DEF step
  <2> QED
    BY <1>4, <2>1 DEF Loops
<1> DEFINE cash == CHOOSE h : h = [k \in 0..n |-> IF k = 0 THEN first ELSE CashRound(v, h[k-1], k)]
<1>6. cash = [k \in 0..n |-> IF k = 0 THEN first ELSE CashRound(v, cash[k-1], k)]
  BY <1>5
<1>7. CashLines(v) = cash[n]
  BY DEF CashLines, CashRound, n, first
<1> HIDE DEF cash
<1>8. cash[0] = first /\ \A k \in 1..n : cash[k] = CashRound(v, cash[k-1], k)
  <2>1. \A k \in 0..n : cash[k] = IF k = 0 THEN first ELSE CashRound(v, cash[k-1], k)
    BY <1>6
  <2>2. 0 \in 0..n /\ \A k \in 1..n : k \in 0..n /\ k # 0
    BY <1>1
  <2> QED
    BY <2>1, <2>2
<1>9. \A k \in 0..n : cash[k] \in V
  BY <1>1, <1>2, <1>3, <1>8, LoopTyped
<1> QED
  BY <1>7, <1>8, <1>9 DEF n, V, first

LEMMA CashLinesAre ==
    ASSUME NEW v \in Vouchers
    PROVE  CashLines(v) \in Seq(AskedSome)
<1>1. Len(Allocations[v]) \in 0..Len(Allocations[v])
  BY AllocationsAre
<1> QED
  BY <1>1, CashLoop

(* What a voucher pays: settlements with lines, drawn from no advance or   *)
(* from the one that the draw names.                                       *)
LEMMA PaymentsAre ==
    ASSUME NEW v \in Vouchers
    PROVE  /\ Len(Payments(v)) \in Nat /\ DOMAIN Payments(v) = 1..Len(Payments(v))
           /\ \A k \in DOMAIN Payments(v) :
                 /\ Payments(v)[k].lines \in Seq(AskedSome)
                 /\ Payments(v)[k].advance \in Payers
                 /\ \A a \in Payments(v)[k].advance :
                       \E j \in DOMAIN Draws[v] : a = Draws[v][j].advance
<1> DEFINE none == {}
           P == {p \in [lines : Seq(AskedSome), advance : Payers] :
                    \A a \in p.advance : \E j \in DOMAIN Draws[v] : a = Draws[v][j].advance}
           cash == [lines |-> CashLines(v), advance |-> none]
           drawn(k) == [lines |-> <<[item |-> Draws[v][k].item, amount |-> Draws[v][k].amount]>>,
                        advance |-> {Draws[v][k].advance}]
           first == IF CashLines(v) = <<>> THEN <<>> ELSE <<cash>>
           rest == [k \in DOMAIN Draws[v] |-> drawn(k)]
<1>1. cash \in P
  <2>1. none \in Payers /\ \A a \in none : FALSE
    BY DEF Payers
  <2> HIDE DEF none
  <2> QED
    BY <2>1, CashLinesAre
<1>2. ASSUME NEW k \in DOMAIN Draws[v] PROVE drawn(k) \in P
  <2> DEFINE ln == [item |-> Draws[v][k].item, amount |-> Draws[v][k].amount]
             lns == <<ln>>
             a0 == Draws[v][k].advance
             pay == {a0}
  <2>1. ln \in AskedSome /\ pay \in Payers
    BY AllocationsAre DEF AskedSome, Payers
  <2> HIDE DEF ln
  <2>2. lns \in Seq(AskedSome)
    BY <2>1
  <2>3. \A a \in pay : a = a0
    OBVIOUS
  <2>4. drawn(k) = [lines |-> lns, advance |-> pay]
    BY DEF ln
  <2> HIDE DEF lns, pay, drawn
  <2> QED
    BY <2>1, <2>2, <2>3, <2>4 DEF a0
<1> HIDE DEF P, cash, drawn
<1>3. first \in Seq(P)
  BY <1>1
<1>4. rest \in Seq(P)
  <2> DEFINE n == Len(Draws[v])
  <2>1. n \in Nat /\ DOMAIN Draws[v] = 1..n
    BY AllocationsAre
  <2>2. rest \in [1..n -> P]
    BY <1>2, <2>1
  <2> HIDE DEF rest, n
  <2> QED
    BY <2>1, <2>2, SeqDef
<1>5. Payments(v) = first \o rest
  BY DEF Payments, first, rest, cash, drawn
<1> HIDE DEF first, rest
<1>6. Payments(v) \in Seq(P)
  BY <1>3, <1>4, <1>5
<1>7. /\ Len(Payments(v)) \in Nat /\ DOMAIN Payments(v) = 1..Len(Payments(v))
      /\ \A k \in DOMAIN Payments(v) : Payments(v)[k] \in P
  BY <1>6
<1> QED
  BY <1>7 DEF P
-----------------------------------------------------------------------------
(* What the calls of Receivables do to the settlement tables.              *)
LEMMA AmountsSame ==
    ASSUME NEW a, NEW b, DOMAIN a = DOMAIN b, \A k \in DOMAIN a : a[k].amount = b[k].amount
    PROVE  Amounts(a) = Amounts(b)
BY DEF Amounts

LEMMA TakesNoMore ==
    ASSUME NEW it \in ItemRow, NEW ln, ln.amount \in Int, NEW left \in Left
    PROVE  Take(it, ln, left) <= ln.amount \/ Take(it, ln, left) = 0
<1> DEFINE size == Size(it.outstanding)
           wanted == Wanted(it, ln)
<1>1. size \in Nat
  BY DEF Size, ItemRow
<1>2. wanted = IF ln.amount <= size THEN ln.amount ELSE size
  BY <1>1, MinOfTwo DEF Wanted
<1>3. wanted \in Int /\ wanted <= ln.amount
  BY <1>1, <1>2
<1> HIDE DEF size, wanted
<1>4. \A x \in Int : Max({0, x}) = IF 0 >= x THEN 0 ELSE x
  BY MaxOfTwo
<1>5. PICK m \in Int : Min({wanted} \cup left) = m /\ m <= wanted
  <2>1. CASE left = {}
    <3>1. {wanted} \cup left = {wanted, wanted}
      BY <2>1
    <3> QED
      BY <1>3, <3>1, MinOfTwo
  <2>2. CASE left # {}
    <3>1. PICK l \in Int : left = {l}
      BY <2>2 DEF Left
    <3>2. {wanted} \cup left = {wanted, l}
      BY <3>1
    <3>3. Min({wanted} \cup left) = IF wanted <= l THEN wanted ELSE l
      BY <1>3, <3>1, <3>2, MinOfTwo
    <3> QED
      BY <1>3, <3>1, <3>3
  <2> QED
    BY <2>1, <2>2
<1>6. Take(it, ln, left) = IF Live(it) THEN IF 0 >= m THEN 0 ELSE m ELSE 0
  BY <1>4, <1>5 DEF Take, wanted
<1> QED
  BY <1>3, <1>5, <1>6

(* A line that is not refused takes nearly what it asks for.               *)
LEMMA TakesEnough ==
    ASSUME NEW it \in ItemRow, NEW ln, ln.amount \in Int, NEW left \in Left,
           ~Refused(it, ln, left)
    PROVE  ln.amount - Take(it, ln, left) <= IF left = {} THEN TOL ELSE TOL + TOL
<1> DEFINE size == Size(it.outstanding)
           wanted == Wanted(it, ln)
           amount == ln.amount
<1>1. size \in Nat /\ TOL \in Nat /\ amount \in Int
  BY ReceivablesAssumption DEF Size, ItemRow
<1>2. wanted = IF amount <= size THEN amount ELSE size
  BY <1>1, MinOfTwo DEF Wanted
<1>3. Live(it) /\ amount - size <= TOL /\ \A l \in left : l \in Int => wanted - l <= TOL
  <2>1. Live(it) /\ ~(amount - size > TOL) /\ \A l \in left : ~(wanted - l > TOL)
    BY DEF Refused
  <2>2. wanted \in Int
    BY <1>1, <1>2
  <2> HIDE DEF wanted, size, amount
  <2> QED
    BY <1>1, <2>1, <2>2
<1> HIDE DEF size, wanted, amount
<1>4. wanted \in Int /\ amount - wanted <= TOL
  BY <1>1, <1>2, <1>3
<1>5. \A x \in Int : Max({0, x}) = IF 0 >= x THEN 0 ELSE x
  BY MaxOfTwo
<1>6. PICK m \in Int : /\ Min({wanted} \cup left) = m
                       /\ amount - m <= IF left = {} THEN TOL ELSE TOL + TOL
  <2>1. CASE left = {}
    <3>1. {wanted} \cup left = {wanted, wanted}
      BY <2>1
    <3>2. Min({wanted} \cup left) = wanted
      BY <1>4, <3>1, MinOfTwo
    <3> QED
      BY <1>4, <2>1, <3>2
  <2>2. CASE left # {}
    <3>1. PICK l \in Int : left = {l}
      BY <2>2 DEF Left
    <3>2. {wanted} \cup left = {wanted, l}
      BY <3>1
    <3>3. Min({wanted} \cup left) = IF wanted <= l THEN wanted ELSE l
      BY <1>4, <3>1, <3>2, MinOfTwo
    <3>4. wanted - l <= TOL
      BY <1>3, <3>1
    <3>5. amount - l <= TOL + TOL /\ amount - wanted <= TOL + TOL
      BY <1>1, <1>4, <3>1, <3>4
    <3> QED
      BY <1>4, <2>2, <3>1, <3>3, <3>5
  <2> QED
    BY <2>1, <2>2
<1>7. Take(it, ln, left) = IF 0 >= m THEN 0 ELSE m
  BY <1>3, <1>5, <1>6 DEF Take, wanted
<1>8. Take(it, ln, left) \in Int /\ m <= Take(it, ln, left)
  BY <1>6, <1>7
<1> DEFINE t == Take(it, ln, left)
           bound == IF left = {} THEN TOL ELSE TOL + TOL
<1>9. bound \in Int /\ amount - m <= bound
  BY <1>1, <1>6
<1> HIDE DEF t, bound
<1>10. amount - t <= bound
  BY <1>1, <1>6, <1>8, <1>9 DEF t
<1> QED
  BY <1>10 DEF t, bound, amount

(* Where nothing is drawn there is no advance to run short of.             *)
LEMMA NothingLeft ==
    ASSUME NEW b \in BooksRow(Markers), NEW s \in Settlements, b.settlement[s].advance = {}
    PROVE  \A k \in 0..Len(b.settlement[s].lines) : AdvanceLeft(b, s)[k] = {}
<1> DEFINE lines == b.settlement[s].lines
           n == Len(lines)
           left == AdvanceLeft(b, s)
           next(k, w) == {l - Take(b.item[lines[k].item], lines[k], w) : l \in w}
           I == {k \in Nat : k <= n => left[k] = {}}
<1>1. n \in Nat
  BY DEF BooksRow, SettlementRow
<1>2. left[0] = {} /\ \A k \in 1..n : left[k] = next(k, left[k-1])
  <2>1. left[0] = {b.advance[a].outstanding : a \in b.settlement[s].advance}
    BY AdvanceLeftIs
  <2>2. \A k \in 1..n : left[k] = next(k, left[k-1])
    BY AdvanceLeftIs, SMTT(30)
  <2> QED
    BY <2>1, <2>2
<1>3. \A k : next(k, {}) = {}
  OBVIOUS
<1> HIDE DEF n, left, next
<1>4. 0 \in I
  BY <1>2
<1>5. ASSUME NEW k \in I PROVE k + 1 \in I
  <2> SUFFICES ASSUME k + 1 <= n PROVE left[k+1] = {}
    OBVIOUS
  <2>1. k \in Nat /\ k + 1 \in 1..n /\ (k + 1) - 1 = k /\ left[k] = {}
    BY <1>1, <1>5
  <2> QED
    BY <1>2, <1>3, <2>1
<1>6. ASSUME NEW k \in 0..n PROVE left[k] = {}
  <2>1. I \in SUBSET Nat
    OBVIOUS
  <2> HIDE DEF I
  <2>2. k \in I
    BY <1>1, <1>4, <1>5, <2>1, InductiveSetOfNaturals
  <2> QED
    BY <2>2 DEF I
<1> QED
  BY <1>6 DEF n, left

(* Posting a settlement writes what each of its lines takes.               *)
LEMMA PostRow ==
    ASSUME NEW b \in BooksRow(Markers), NEW s \in Settlements, CanPost(b, s),
           NEW c, c = PostEffect(b, s)
    PROVE  /\ c.settlement[s].status = "posted"
           /\ c.settlement[s].marker = b.settlement[s].marker
           /\ c.settlement[s].advance = b.settlement[s].advance
           /\ Amounts(c.settlement[s].lines) = Amounts(b.settlement[s].lines)
           /\ Measured(c.settlement[s])
           /\ \A t \in Settlements \ {s} : c.settlement[t] = b.settlement[t]
           /\ SameAdvances(b.advance, c.advance)
<1> DEFINE lines == b.settlement[s].lines
           app == AppliedLines(b, s)
           left == AdvanceLeft(b, s)
           take(k) == Take(b.item[lines[k].item], lines[k], left[k-1])
           row == c.settlement[s]
<1>1. /\ row.status = "posted" /\ row.lines = app
      /\ row.marker = b.settlement[s].marker /\ row.advance = b.settlement[s].advance
      /\ \A t \in Settlements \ {s} : c.settlement[t] = b.settlement[t]
      /\ \A a \in Advances : c.advance[a] =
            IF a \in b.settlement[s].advance
            THEN Adjusted(b.advance[a], b.advance[a].adjusted + Total(app))
            ELSE b.advance[a]
  BY PostEffectIs
<1>2. /\ DOMAIN app = DOMAIN lines
      /\ \A k \in DOMAIN lines : /\ app[k].amount = lines[k].amount
                                 /\ take(k) \in Nat /\ Size(app[k].applied) = take(k)
                                 /\ app[k].applied = Sign(b.item[lines[k].item].outstanding) * take(k)
  BY AppliedLinesAre, ZenonT(60)
<1>3. lines \in Seq(LineRow)
  BY DEF BooksRow, SettlementRow
<1>4. ASSUME NEW k \in DOMAIN lines
      PROVE  /\ Size(app[k].applied) <= app[k].amount \/ app[k].applied = 0
             /\ BlockOver => app[k].amount - Size(app[k].applied) <= Slack(b.settlement[s].advance)
  <2>1. lines[k].amount \in Int /\ b.item[lines[k].item] \in ItemRow
    BY <1>3, LinesAdd DEF LineRow, BooksRow
  <2>2. k \in 1..Len(lines) /\ Len(lines) \in Nat
    BY <1>3, LinesAdd
  <2>3. k - 1 \in 0..Len(lines)
    BY <2>2
  <2>4. left[k-1] \in Left
    BY <2>3, AdvanceLeftIs
  <2>5. take(k) <= lines[k].amount \/ take(k) = 0
    BY <2>1, <2>4, TakesNoMore
  <2>6. BlockOver => lines[k].amount - take(k) <= Slack(b.settlement[s].advance)
    <3> SUFFICES ASSUME BlockOver PROVE lines[k].amount - take(k) <= Slack(b.settlement[s].advance)
      OBVIOUS
    <3> DEFINE bound == IF left[k-1] = {} THEN TOL ELSE TOL + TOL
    <3>1. ~Refused(b.item[lines[k].item], lines[k], left[k-1])
      BY DEF CanPost
    <3>2. lines[k].amount - take(k) <= bound
      BY <2>1, <2>4, <3>1, TakesEnough
    <3>3. b.settlement[s].advance = {} => left[k-1] = {}
      BY <2>3, NothingLeft
    <3>4. bound \in Int /\ Slack(b.settlement[s].advance) \in Int
          /\ bound <= Slack(b.settlement[s].advance)
      <4> HIDE DEF left
      <4> QED
        BY <3>3, ReceivablesAssumption DEF Slack
    <3>5. take(k) \in Nat
      BY <1>2
    <3> HIDE DEF bound, take, lines
    <3> QED
      BY <2>1, <3>2, <3>4, <3>5
  <2> HIDE DEF take, app, lines
  <2>7. CASE take(k) = 0
    <3>1. app[k].applied \in Int
      <4>1. Sign(b.item[lines[k].item].outstanding) \in Int
        BY DEF Sign
      <4> QED
        BY <1>2, <2>7, <4>1
    <3>2. app[k].applied = 0
      BY <1>2, <2>7, <3>1 DEF Size
    <3> QED
      BY <1>2, <2>6, <3>2
  <2> QED
    BY <1>2, <2>5, <2>6, <2>7
<1>5. Measured(row)
  BY <1>1, <1>2, <1>4 DEF Measured
<1>6. Amounts(app) = Amounts(lines)
  BY <1>2, AmountsSame
<1>7. SameAdvances(b.advance, c.advance)
  <2> HIDE DEF app
  <2>1. ASSUME NEW a \in Advances
        PROVE  /\ c.advance[a].exists = b.advance[a].exists
               /\ c.advance[a].original = b.advance[a].original
    <3>1. b.advance[a] \in AdvanceRow
      BY DEF BooksRow
    <3>2. \A x : /\ Adjusted(b.advance[a], x).exists = b.advance[a].exists
                 /\ Adjusted(b.advance[a], x).original = b.advance[a].original
      BY <3>1 DEF Adjusted, AdvanceRow
    <3> QED
      BY <1>1, <3>2
  <2> QED
    BY <2>1 DEF SameAdvances
<1> HIDE DEF app, lines, row
<1> QED
  BY <1>1, <1>5, <1>6, <1>7 DEF lines, row

(* A cancelled settlement asks for what it did, and takes nothing.         *)
LEMMA CancelRow ==
    ASSUME NEW b \in BooksRow(Markers), NEW s \in Settlements, CanCancel(b, s),
           Measured(b.settlement[s]), NEW c, c = CancelEffect(b, s)
    PROVE  /\ c.settlement[s].status = "cancelled"
           /\ c.settlement[s].marker = b.settlement[s].marker
           /\ c.settlement[s].advance = b.settlement[s].advance
           /\ Amounts(c.settlement[s].lines) = Amounts(b.settlement[s].lines)
           /\ Measured(c.settlement[s])
           /\ \A t \in Settlements \ {s} : c.settlement[t] = b.settlement[t]
           /\ SameAdvances(b.advance, c.advance)
<1> DEFINE lines == b.settlement[s].lines
<1>1. CASE b.settlement[s].status = "draft"
  <2>1. /\ c.settlement[s].status = "cancelled" /\ c.settlement[s].lines = lines
        /\ c.settlement[s].marker = b.settlement[s].marker
        /\ c.settlement[s].advance = b.settlement[s].advance
        /\ \A t \in Settlements \ {s} : c.settlement[t] = b.settlement[t]
        /\ c.advance = b.advance
    BY <1>1, CancelDraftIs
  <2> QED
    BY <2>1 DEF Measured, SameAdvances
<1>2. CASE b.settlement[s].status = "posted"
  <2>1. /\ c.settlement[s].status = "cancelled" /\ c.settlement[s].lines = Unapplied(lines)
        /\ c.settlement[s].marker = b.settlement[s].marker
        /\ c.settlement[s].advance = b.settlement[s].advance
        /\ \A t \in Settlements \ {s} : c.settlement[t] = b.settlement[t]
        /\ \A a \in Advances : c.advance[a] =
              IF a \in b.settlement[s].advance
              THEN Released(b.advance[a], b.advance[a].adjusted - Total(lines))
              ELSE b.advance[a]
    BY <1>2, CancelPostedIs
  <2>2. lines \in Seq(LineRow)
    BY DEF BooksRow, SettlementRow
  <2>3. /\ DOMAIN Unapplied(lines) = DOMAIN lines
        /\ \A k \in DOMAIN lines : /\ Unapplied(lines)[k].amount = lines[k].amount
                                   /\ Unapplied(lines)[k].applied = 0
    BY <2>2, LinesAdd DEF Unapplied, LineRow
  <2>4. Measured(c.settlement[s]) /\ Amounts(Unapplied(lines)) = Amounts(lines)
    <3> HIDE DEF lines
    <3>1. Amounts(Unapplied(lines)) = Amounts(lines)
      BY <2>3, AmountsSame
    <3>2. Measured(c.settlement[s])
      BY <2>1, <2>3 DEF Measured
    <3> QED
      BY <3>1, <3>2
  <2>5. SameAdvances(b.advance, c.advance)
    <3>1. ASSUME NEW a \in Advances
          PROVE  /\ c.advance[a].exists = b.advance[a].exists
                 /\ c.advance[a].original = b.advance[a].original
      <4>1. b.advance[a] \in AdvanceRow
        BY DEF BooksRow
      <4> HIDE DEF lines
      <4>2. \A x : /\ Released(b.advance[a], x).exists = b.advance[a].exists
                   /\ Released(b.advance[a], x).original = b.advance[a].original
        BY <4>1 DEF Released, AdvanceRow
      <4> QED
        BY <2>1, <4>2
    <3> QED
      BY <3>1 DEF SameAdvances
  <2> QED
    BY <2>1, <2>4, <2>5
<1> QED
  BY <1>1, <1>2 DEF CanCancel

(* A draft asks for what it was given, and takes nothing yet.              *)
LEMMA DraftRow ==
    ASSUME NEW lines \in Seq(Asked), NEW adv \in Payers, NEW marker \in SUBSET Markers,
           NEW d, d = Draft(lines, adv, marker)
    PROVE  /\ d \in SettlementRow(Markers) /\ d.status = "draft"
           /\ d.advance = adv /\ d.marker = marker
           /\ Amounts(d.lines) = Amounts(lines) /\ Measured(d)
<1>1. /\ d \in SettlementRow(Markers) /\ d.status = "draft"
      /\ d.advance = adv /\ d.marker = marker
      /\ DOMAIN d.lines = DOMAIN lines
      /\ \A k \in DOMAIN lines : d.lines[k].amount = lines[k].amount /\ d.lines[k].applied = 0
  BY DraftIs
<1>2. Amounts(d.lines) = Amounts(lines) /\ Measured(d)
  BY <1>1, AmountsSame DEF Measured
<1> QED
  BY <1>1, <1>2

LEMMA AskedSomeIsAsked ==
    ASSUME NEW lines \in Seq(AskedSome)
    PROVE  lines \in Seq(Asked)
<1> DEFINE n == Len(lines)
<1>1. AskedSome \subseteq Asked
  BY DEF AskedSome, Asked
<1>2. n \in Nat /\ lines \in [1..n -> AskedSome]
  OBVIOUS
<1>3. lines \in [1..n -> Asked]
  BY <1>1, <1>2
<1> HIDE DEF n
<1> QED
  BY <1>2, <1>3, SeqDef

\* The advances that v draws from are there.
DrawsThere(b, v) == \A k \in DOMAIN Draws[v] : b.advance[Draws[v][k].advance].exists

\* What s is once it is the k-th payment of v.
IsPayment(st, s, v, k) ==
    /\ st[s].marker = {v} /\ st[s].advance = Payments(v)[k].advance
    /\ Amounts(st[s].lines) = Amounts(Payments(v)[k].lines)

(* One payment of a voucher, by the settlement s.                          *)
LEMMA PaidRound ==
    ASSUME NEW v \in Vouchers, NEW b, Good(Markers, b), AllMeasured(b.settlement),
           DrawsThere(b, v), NEW s \in Settlements, NEW k \in DOMAIN Payments(v),
           b.settlement[s].status = "none" \/ IsPayment(b.settlement, s, v, k),
           NEW w, w = WithSettlement(b, v, s, Payments(v)[k]),
           w.settlement[s].status = "posted" \/ CanPost(w, s), NEW c, c = Paid(w, s)
    PROVE  /\ Good(Markers, c) /\ \A j \in Items : Follows(b, c, j)
           /\ AllMeasured(c.settlement) /\ SameAdvances(b.advance, c.advance)
           /\ c.settlement[s].status = "posted" /\ IsPayment(c.settlement, s, v, k)
           /\ \A t \in Settlements \ {s} : c.settlement[t] = b.settlement[t]
<1> DEFINE p == Payments(v)[k]
<1>1. /\ Good(Markers, w) /\ AllMeasured(w.settlement) /\ w.advance = b.advance
      /\ IsPayment(w.settlement, s, v, k)
      /\ \A t \in Settlements \ {s} : w.settlement[t] = b.settlement[t]
      /\ \A j \in Items : Follows(b, w, j)
  <2>1. CASE b.settlement[s].status # "none"
    BY <2>1 DEF WithSettlement, Follows
  <2>2. CASE b.settlement[s].status = "none"
    <3> DEFINE d == Draft(p.lines, p.advance, {v})
    <3>1. p.lines \in Seq(AskedSome) /\ p.advance \in Payers
          /\ \A a \in p.advance : \E j \in DOMAIN Draws[v] : a = Draws[v][j].advance
      BY PaymentsAre
    <3>2. p.lines \in Seq(Asked) /\ {v} \in SUBSET Markers
      BY <3>1, AskedSomeIsAsked DEF Markers
    <3>3. /\ d \in SettlementRow(Markers) /\ d.status = "draft"
          /\ d.advance = p.advance /\ d.marker = {v}
          /\ Amounts(d.lines) = Amounts(p.lines) /\ Measured(d)
      BY <3>1, <3>2, DraftRow
    <3>4. \A a \in d.advance : b.advance[a].exists
      BY <3>1, <3>3 DEF DrawsThere
    <3>5. w = WriteSettlement(b, s, d)
      BY <2>2 DEF WithSettlement, WriteSettlement
    <3> HIDE DEF d, p
    <3>6. /\ Good(Markers, w) /\ w.settlement[s] = d /\ w.advance = b.advance
          /\ \A t \in Settlements \ {s} : w.settlement[t] = b.settlement[t]
          /\ \A j \in Items : Follows(b, w, j)
      BY <2>2, <3>3, <3>4, <3>5, GoodDraft
    <3>7. AllMeasured(w.settlement)
      BY <3>3, <3>6 DEF AllMeasured
    <3>8. IsPayment(w.settlement, s, v, k)
      BY <3>3, <3>6 DEF IsPayment, p
    <3> QED
      BY <3>6, <3>7, <3>8
  <2> QED
    BY <2>1, <2>2
<1> HIDE DEF p
<1>2. CASE w.settlement[s].status = "posted"
  <2>1. c = w
    BY <1>2 DEF Paid
  <2> QED
    BY <1>1, <1>2, <2>1 DEF SameAdvances
<1>3. CASE w.settlement[s].status # "posted"
  <2>1. c = PostEffect(w, s) /\ w \in BooksRow(Markers) /\ CanPost(w, s)
    BY <1>1, <1>3 DEF Paid, Good
  <2>2. Good(Markers, c) /\ \A j \in Items : Follows(w, c, j)
    BY <1>1, <1>3, <2>1, GoodPost
  <2>3. /\ c.settlement[s].status = "posted" /\ c.settlement[s].marker = w.settlement[s].marker
        /\ c.settlement[s].advance = w.settlement[s].advance
        /\ Amounts(c.settlement[s].lines) = Amounts(w.settlement[s].lines)
        /\ Measured(c.settlement[s])
        /\ \A t \in Settlements \ {s} : c.settlement[t] = w.settlement[t]
        /\ SameAdvances(w.advance, c.advance)
    BY <2>1, PostRow
  <2>4. AllMeasured(c.settlement) /\ SameAdvances(b.advance, c.advance)
    BY <1>1, <2>3 DEF AllMeasured
  <2>5. IsPayment(c.settlement, s, v, k)
    BY <1>1, <2>3 DEF IsPayment
  <2> QED
    BY <1>1, <2>2, <2>3, <2>4, <2>5 DEF Follows
<1> QED
  BY <1>2, <1>3

\* The k-th round of a voucher's payments.
PayRound(v, f, b, k) == Paid(WithSettlement(b, v, f[k], Payments(v)[k]), f[k])

LEMMA PayRoundTyped ==
    ASSUME NEW v \in Vouchers, NEW b \in BooksRow(Markers), NEW f, NEW k \in DOMAIN Payments(v),
           f[k] \in Settlements
    PROVE  PayRound(v, f, b, k) \in BooksRow(Markers)
<1> DEFINE s == f[k]
           p == Payments(v)[k]
           w == WithSettlement(b, v, s, p)
<1>1. s \in Settlements
  OBVIOUS
<1>2. w \in BooksRow(Markers)
  <2> DEFINE d == Draft(p.lines, p.advance, {v})
  <2>1. p.lines \in Seq(AskedSome) /\ p.advance \in Payers
    BY PaymentsAre
  <2>2. p.lines \in Seq(Asked) /\ {v} \in SUBSET Markers
    BY <2>1, AskedSomeIsAsked DEF Markers
  <2>3. d \in SettlementRow(Markers)
    BY <2>1, <2>2, DraftRow
  <2>4. w = b \/ w = [b EXCEPT !.settlement[s] = d]
    BY DEF WithSettlement
  <2> HIDE DEF d, w, p, s
  <2> QED
    BY <1>1, <2>3, <2>4 DEF BooksRow
<1>3. PayRound(v, f, b, k) = Paid(w, s)
  BY DEF PayRound
<1> HIDE DEF w, s, p
<1> QED
  BY <1>1, <1>2, <1>3, PostEffectIs DEF Paid

(* The payments of a voucher, round by round.                              *)
LEMMA PayLoop ==
    ASSUME NEW v \in Vouchers, NEW f \in [DOMAIN Payments(v) -> Settlements],
           Books \in BooksRow(Markers)
    PROVE  /\ Len(f) = Len(Payments(v)) /\ DOMAIN f = 1..Len(f) /\ Len(f) \in Nat
           /\ AfterPayments(v, f)[0] = Books
           /\ \A k \in 1..Len(f) :
                 AfterPayments(v, f)[k] = PayRound(v, f, AfterPayments(v, f)[k-1], k)
<1> DEFINE n == Len(f)
           V == BooksRow(Markers)
           first == Books
           step == [k \in 1..n |-> [w \in V |-> PayRound(v, f, w, k)]]
<1>1. n = Len(Payments(v)) /\ DOMAIN f = 1..n /\ n \in Nat
  <2> DEFINE m == Len(Payments(v))
  <2>1. m \in Nat /\ DOMAIN Payments(v) = 1..m
    BY PaymentsAre
  <2>2. f \in [1..m -> Settlements]
    BY <2>1
  <2> HIDE DEF m
  <2>3. f \in Seq(Settlements) /\ Len(f) = m
    BY <2>1, <2>2, SeqDef
  <2> QED
    BY <2>1, <2>2, <2>3 DEF m
<1>2. \A k \in 1..n : \A w \in V : PayRound(v, f, w, k) \in V
  BY <1>1, PayRoundTyped
<1>3. first \in V
  OBVIOUS
<1> HIDE DEF n, V, first
<1>4. PICK g \in Loops(n, V, first, step) : TRUE
  <2>1. \A k \in 1..n : \A w \in V : step[k][w] \in V
    BY <1>1, <1>2
  <2> HIDE DEF step
  <2> QED
    BY <1>1, <1>3, <2>1, LoopExists
<1>5. g = [k \in 0..n |-> IF k = 0 THEN first ELSE PayRound(v, f, g[k-1], k)]
  <2>1. ASSUME NEW k \in 0..n
        PROVE  (IF k = 0 THEN first ELSE step[k][g[k-1]])
                  = (IF k = 0 THEN first ELSE PayRound(v, f, g[k-1], k))
    <3>1. k # 0 => k \in 1..n /\ k - 1 \in 0..n
      BY <1>1
    <3>2. g \in [0..n -> V]
      BY <1>4 DEF Loops
    <3> QED
      BY <3>1, <3>2
  <2> HIDE DEF step
  <2> QED
    BY <1>4, <2>1 DEF Loops
<1> DEFINE b == AfterPayments(v, f)
<1>6. b = CHOOSE h : h = [k \in 0..n |-> IF k = 0 THEN first ELSE PayRound(v, f, h[k-1], k)]
  BY DEF AfterPayments, PayRound, n, first
<1>7. b = [k \in 0..n |-> IF k = 0 THEN first ELSE PayRound(v, f, b[k-1], k)]
  BY <1>5, <1>6
<1> HIDE DEF b
<1>8. b[0] = first /\ \A k \in 1..n : b[k] = PayRound(v, f, b[k-1], k)
  <2>1. \A k \in 0..n : b[k] = IF k = 0 THEN first ELSE PayRound(v, f, b[k-1], k)
    BY <1>7
  <2>2. 0 \in 0..n /\ \A k \in 1..n : k \in 0..n /\ k # 0
    BY <1>1
  <2> QED
    BY <2>1, <2>2
<1> QED
  BY <1>1, <1>8 DEF b, n, first

(* The tables after the first k payments of v: each was made once, and the *)
(* settlements that make none of them are as they were.                    *)
PaidSoFar(v, f, k, b) ==
    /\ Good(Markers, b) /\ (\A j \in Items : Follows(Books, b, j))
    /\ AllMeasured(b.settlement) /\ SameAdvances(advance, b.advance)
    /\ \A j \in 1..k : b.settlement[f[j]].status = "posted" /\ IsPayment(b.settlement, f[j], v, j)
    /\ \A t \in Settlements : (\A j \in 1..k : t # f[j]) => b.settlement[t] = settlement[t]

LEMMA PaymentsMade ==
    ASSUME NEW v \in Vouchers, NEW f \in [DOMAIN Payments(v) -> Settlements],
           \A j, k \in DOMAIN f : f[j] = f[k] => j = k,
           Good(Markers, Books), AllMeasured(settlement), DrawsThere(Books, v), CanPay(v, f),
           \A k \in DOMAIN f : settlement[f[k]].status = "none" \/ IsPayment(settlement, f[k], v, k)
    PROVE  PaidSoFar(v, f, Len(f), AfterPayments(v, f)[Len(f)])
<1> DEFINE n == Len(f)
           b == AfterPayments(v, f)
           I == {k \in Nat : k <= n => PaidSoFar(v, f, k, b[k])}
<1>1. /\ n \in Nat /\ DOMAIN f = 1..n /\ DOMAIN Payments(v) = 1..n /\ b[0] = Books
      /\ \A k \in 1..n : b[k] = PayRound(v, f, b[k-1], k)
  BY PayLoop, PaymentsAre DEF Good
<1> HIDE DEF n, b
<1>2. 0 \in I
  <2>1. Books.settlement = settlement /\ Books.advance = advance
    BY DEF Books
  <2>2. 1..0 = {}
    OBVIOUS
  <2>3. PaidSoFar(v, f, 0, Books)
    BY <2>1, <2>2 DEF PaidSoFar, SameAdvances, Follows
  <2> QED
    BY <1>1, <2>3
<1>3. ASSUME NEW k \in I PROVE k + 1 \in I
  <2> SUFFICES ASSUME k + 1 <= n PROVE PaidSoFar(v, f, k + 1, b[k+1])
    OBVIOUS
  <2>1. k \in Nat /\ k + 1 \in 1..n /\ (k + 1) - 1 = k /\ PaidSoFar(v, f, k, b[k])
    BY <1>1, <1>3
  <2> DEFINE w == b[k]
             c == b[k+1]
             m == k + 1
             s == f[m]
             u == WithSettlement(w, v, s, Payments(v)[m])
  <2>2. m \in 1..n /\ s \in Settlements /\ c = PayRound(v, f, w, m) /\ m \in DOMAIN Payments(v)
    BY <1>1, <2>1
  <2>3. 1..m = 1..k \cup {m} /\ m \notin 1..k /\ 1..k \subseteq 1..n
    BY <1>1, <2>1
  <2>4. PaidSoFar(v, f, k, w)
    BY <2>1
  <2>15. u.settlement[s].status = "posted" \/ CanPost(u, s)
    <3>1. m \in DOMAIN f /\ m - 1 = k
      BY <1>1, <2>1
    <3> QED
      BY <3>1 DEF CanPay, b
  <2> HIDE DEF w, c, m, u
  <2>5. \A j \in 1..k : f[j] # s
    BY <1>1, <2>2, <2>3
  <2> HIDE DEF s
  <2>6. w.settlement[s] = settlement[s]
    BY <2>2, <2>4, <2>5 DEF PaidSoFar
  <2>7. w.settlement[s].status = "none" \/ IsPayment(w.settlement, s, v, m)
    BY <1>1, <2>2, <2>6 DEF IsPayment, s
  <2>8. c = Paid(u, s) /\ u = WithSettlement(w, v, s, Payments(v)[m])
    BY <2>2 DEF PayRound, s, u
  <2>9. /\ Good(Markers, w) /\ AllMeasured(w.settlement) /\ DrawsThere(w, v)
        /\ \A j \in Items : Follows(Books, w, j)
    <3>1. Books.advance = advance
      BY DEF Books
    <3> QED
      BY <2>4, <3>1, AllocationsAre DEF PaidSoFar, DrawsThere, SameAdvances
  <2>10. /\ Good(Markers, c) /\ \A j \in Items : Follows(w, c, j)
         /\ AllMeasured(c.settlement) /\ SameAdvances(w.advance, c.advance)
         /\ c.settlement[s].status = "posted" /\ IsPayment(c.settlement, s, v, m)
         /\ \A t \in Settlements \ {s} : c.settlement[t] = w.settlement[t]
    BY <2>2, <2>15, <2>7, <2>8, <2>9, PaidRound
  <2>11. \A j \in 1..m : c.settlement[f[j]].status = "posted" /\ IsPayment(c.settlement, f[j], v, j)
    <3>1. ASSUME NEW j \in 1..k
          PROVE  c.settlement[f[j]].status = "posted" /\ IsPayment(c.settlement, f[j], v, j)
      <4>1. f[j] \in Settlements \ {s}
        BY <1>1, <2>3, <2>5
      <4>2. c.settlement[f[j]] = w.settlement[f[j]]
        BY <2>10, <4>1
      <4> QED
        BY <2>4, <4>2 DEF PaidSoFar, IsPayment
    <3> QED
      BY <2>3, <2>10, <3>1 DEF s
  <2>12. ASSUME NEW t \in Settlements, \A j \in 1..m : t # f[j]
         PROVE  c.settlement[t] = settlement[t]
    <3>1. t # s /\ \A j \in 1..k : t # f[j]
      BY <2>3, <2>12 DEF s
    <3> QED
      BY <2>4, <2>10, <3>1 DEF PaidSoFar
  <2>13. SameAdvances(advance, c.advance)
    BY <2>4, <2>10 DEF PaidSoFar, SameAdvances
  <2>14. PaidSoFar(v, f, m, c)
    BY <2>9, <2>10, <2>11, <2>12, <2>13 DEF PaidSoFar, Follows
  <2> QED
    BY <2>14 DEF m, c
<1>4. n \in I
  <2> HIDE DEF I
  <2>1. I \in SUBSET Nat
    BY DEF I
  <2> QED
    BY <1>1, <1>2, <1>3, <2>1, InductiveSetOfNaturals
<1> QED
  BY <1>1, <1>4 DEF n, b
-----------------------------------------------------------------------------
(* What unposting a voucher makes of the tables, round by round.           *)
Linked(L) == L = {} \/ \E s \in Settlements : L = {s}

CancelRound(L, b) ==
    IF \E s \in L : CanCancel(b, s) THEN CancelEffect(b, CHOOSE s \in L : TRUE) ELSE b

LEMMA CancelRoundIs ==
    ASSUME NEW L, Linked(L), NEW b \in BooksRow(Markers)
    PROVE  /\ CancelRound(L, b) \in BooksRow(Markers)
           /\ \/ CancelRound(L, b) = b /\ \A s \in L : ~CanCancel(b, s)
              \/ \E s \in Settlements :
                    L = {s} /\ CanCancel(b, s) /\ CancelRound(L, b) = CancelEffect(b, s)
<1>1. CASE \A s \in L : ~CanCancel(b, s)
  BY <1>1 DEF CancelRound
<1>2. ASSUME NEW t \in L, CanCancel(b, t)
      PROVE  \E s \in Settlements :
                    L = {s} /\ CanCancel(b, s) /\ CancelRound(L, b) = CancelEffect(b, s)
  <2>1. PICK s \in Settlements : L = {s}
    BY <1>2 DEF Linked
  <2>2. (CHOOSE x \in L : TRUE) = s /\ CanCancel(b, s)
    BY <1>2, <2>1
  <2> QED
    BY <2>1, <2>2 DEF CancelRound
<1>3. ASSUME NEW s \in Settlements, CanCancel(b, s) PROVE CancelEffect(b, s) \in BooksRow(Markers)
  BY <1>3, CancelDraftIs, CancelPostedIs DEF CanCancel
<1> QED
  BY <1>1, <1>2, <1>3

LEMMA UnpayLoop ==
    ASSUME NEW v \in Vouchers, NEW b \in BooksRow(Markers),
           \A k \in DOMAIN Payments(v) : Linked(voucher[v].links[k])
    PROVE  \E c : /\ Unpaid(b, v) = c[Len(Payments(v))] /\ c[0] = b
                  /\ \A k \in 1..Len(Payments(v)) : c[k] = CancelRound(voucher[v].links[k], c[k-1])
<1> DEFINE n == Len(Payments(v))
           V == BooksRow(Markers)
           L(k) == voucher[v].links[k]
           step == [k \in 1..n |-> [w \in V |-> CancelRound(L(k), w)]]
<1>1. n \in Nat /\ DOMAIN Payments(v) = 1..n
  BY PaymentsAre
<1>2. \A k \in 1..n : \A w \in V : CancelRound(L(k), w) \in V
  BY <1>1, CancelRoundIs
<1>3. b \in V
  OBVIOUS
<1> HIDE DEF n, V, L
<1>4. PICK g \in Loops(n, V, b, step) : TRUE
  <2>1. \A k \in 1..n : \A w \in V : step[k][w] \in V
    BY <1>1, <1>2
  <2> HIDE DEF step
  <2> QED
    BY <1>1, <1>3, <2>1, LoopExists
<1>5. g = [k \in 0..n |-> IF k = 0 THEN b ELSE CancelRound(L(k), g[k-1])]
  <2>1. ASSUME NEW k \in 0..n
        PROVE  (IF k = 0 THEN b ELSE step[k][g[k-1]])
                  = (IF k = 0 THEN b ELSE CancelRound(L(k), g[k-1]))
    <3>1. k # 0 => k \in 1..n /\ k - 1 \in 0..n
      BY <1>1
    <3>2. g \in [0..n -> V]
      BY <1>4 DEF Loops
    <3> QED
      BY <3>1, <3>2
  <2> HIDE DEF step
  <2> QED
    BY <1>4, <2>1 DEF Loops
<1> DEFINE c == CHOOSE h : h = [k \in 0..n |-> IF k = 0 THEN b ELSE CancelRound(L(k), h[k-1])]
<1>6. Unpaid(b, v) = c[n]
  BY DEF Unpaid, CancelRound, n, L
<1>7. c = [k \in 0..n |-> IF k = 0 THEN b ELSE CancelRound(L(k), c[k-1])]
  BY <1>5
<1> HIDE DEF c
<1>8. c[0] = b /\ \A k \in 1..n : c[k] = CancelRound(L(k), c[k-1])
  <2>1. \A k \in 0..n : c[k] = IF k = 0 THEN b ELSE CancelRound(L(k), c[k-1])
    BY <1>7
  <2>2. 0 \in 0..n /\ \A k \in 1..n : k \in 0..n /\ k # 0
    BY <1>1
  <2> QED
    BY <2>1, <2>2
<1> QED
  BY <1>6, <1>8 DEF n, L

(* The tables after the first k cancellations.                             *)
UnpaidSoFar(v, k, b) ==
    /\ Good(Markers, b) /\ (\A j \in Items : Follows(Books, b, j))
    /\ AllMeasured(b.settlement) /\ AllKept(settlement, b.settlement)
    /\ SameAdvances(advance, b.advance)
    /\ \A j \in 1..k : \A s \in voucher[v].links[j] : b.settlement[s].status \notin InForce

LEMMA KeptOn ==
    ASSUME NEW x, NEW y, NEW z, Kept(x, y), Kept(y, z)
    PROVE  Kept(x, z)
BY DEF Kept

LEMMA SameOn ==
    ASSUME NEW x, NEW y, NEW z, SameAdvances(x, y), SameAdvances(y, z)
    PROVE  SameAdvances(x, z)
BY DEF SameAdvances

LEMMA CancelledRound ==
    ASSUME NEW v \in Vouchers, NEW k \in Nat, NEW w, UnpaidSoFar(v, k, w),
           NEW L, Linked(L), L = voucher[v].links[k+1], NEW c, c = CancelRound(L, w),
           \A j \in 1..(k+1) : voucher[v].links[j] \subseteq Settlements
    PROVE  UnpaidSoFar(v, k + 1, c)
<1>1. /\ Good(Markers, w) /\ AllMeasured(w.settlement) /\ AllKept(settlement, w.settlement)
      /\ SameAdvances(advance, w.advance)
      /\ \A j \in Items : Follows(Books, w, j)
      /\ \A j \in 1..k : \A s \in voucher[v].links[j] : w.settlement[s].status \notin InForce
  BY DEF UnpaidSoFar
<1>2. 1..(k+1) = 1..k \cup {k+1} /\ w \in BooksRow(Markers)
  BY <1>1 DEF Good
<1>3. CASE c = w /\ \A s \in L : ~CanCancel(w, s)
  <2>1. \A s \in L : w.settlement[s].status \notin InForce
    BY <1>3 DEF CanCancel, InForce
  <2> QED
    BY <1>1, <1>2, <1>3, <2>1 DEF UnpaidSoFar
<1>4. ASSUME NEW s \in Settlements, L = {s}, CanCancel(w, s), c = CancelEffect(w, s)
      PROVE  UnpaidSoFar(v, k + 1, c)
  <2>1. Good(Markers, c) /\ \A j \in Items : Follows(w, c, j)
    BY <1>1, <1>4, GoodCancel
  <2>2. /\ c.settlement[s].status = "cancelled" /\ c.settlement[s].marker = w.settlement[s].marker
        /\ c.settlement[s].advance = w.settlement[s].advance
        /\ Amounts(c.settlement[s].lines) = Amounts(w.settlement[s].lines)
        /\ Measured(c.settlement[s])
        /\ \A t \in Settlements \ {s} : c.settlement[t] = w.settlement[t]
        /\ SameAdvances(w.advance, c.advance)
    <3>1. Measured(w.settlement[s]) /\ w \in BooksRow(Markers)
      BY <1>1 DEF AllMeasured, Good
    <3>2. CanCancel(w, s) /\ c = CancelEffect(w, s)
      BY <1>4
    <3> QED
      BY <3>1, <3>2, CancelRow
  <2>3. AllMeasured(c.settlement)
    BY <1>1, <2>2 DEF AllMeasured
  <2>6. SameAdvances(advance, c.advance)
    <3> HIDE DEF SameAdvances
    <3> QED
      BY <1>1, <2>2, SameOn
  <2>4. AllKept(settlement, c.settlement)
    <3>1. Kept(w.settlement[s], c.settlement[s])
      BY <2>2 DEF Kept, InForce
    <3>2. Kept(settlement[s], c.settlement[s])
      BY <1>1, <3>1, KeptOn DEF AllKept
    <3> QED
      BY <1>1, <2>2, <3>2 DEF AllKept
  <2>5. ASSUME NEW j \in 1..(k+1), NEW t \in voucher[v].links[j]
        PROVE  c.settlement[t].status \notin InForce
    <3>1. CASE t = s
      BY <2>2, <3>1 DEF InForce
    <3>2. CASE t # s
      <4>1. j \in 1..k
        BY <1>2, <1>4, <2>5, <3>2
      <4>2. w.settlement[t].status \notin InForce
        BY <1>1, <2>5, <4>1
      <4> QED
        BY <2>2, <2>5, <3>2, <4>2
    <3> QED
      BY <3>1, <3>2
  <2> QED
    BY <1>1, <2>1, <2>3, <2>4, <2>5, <2>6 DEF UnpaidSoFar, Follows
<1> QED
  BY <1>2, <1>3, <1>4, CancelRoundIs

LEMMA AllUnpaid ==
    ASSUME NEW v \in Vouchers, Good(Markers, Books), AllMeasured(settlement),
           \A k \in DOMAIN Payments(v) : Linked(voucher[v].links[k])
    PROVE  UnpaidSoFar(v, Len(Payments(v)), Unpaid(Books, v))
<1> DEFINE n == Len(Payments(v))
<1>1. n \in Nat /\ DOMAIN Payments(v) = 1..n /\ Books \in BooksRow(Markers)
  BY PaymentsAre DEF Good
<1>2. PICK c : /\ Unpaid(Books, v) = c[n] /\ c[0] = Books
               /\ \A k \in 1..n : c[k] = CancelRound(voucher[v].links[k], c[k-1])
  BY <1>1, UnpayLoop
<1> DEFINE I == {k \in Nat : k <= n => UnpaidSoFar(v, k, c[k])}
<1> HIDE DEF n
<1>3. 0 \in I
  <2>1. Books.settlement = settlement /\ Books.advance = advance /\ 1..0 = {}
    BY DEF Books
  <2>2. UnpaidSoFar(v, 0, Books)
    BY <2>1 DEF UnpaidSoFar, AllKept, Kept, SameAdvances, Follows
  <2> QED
    BY <1>2, <2>2
<1>4. ASSUME NEW k \in I PROVE k + 1 \in I
  <2> SUFFICES ASSUME k + 1 <= n PROVE UnpaidSoFar(v, k + 1, c[k+1])
    OBVIOUS
  <2>1. k \in Nat /\ k + 1 \in 1..n /\ (k + 1) - 1 = k /\ UnpaidSoFar(v, k, c[k])
    BY <1>1, <1>4
  <2> DEFINE L == voucher[v].links[k+1]
  <2>2. c[k+1] = CancelRound(L, c[k]) /\ Linked(L)
    BY <1>1, <1>2, <2>1
  <2>3. \A j \in 1..(k+1) : voucher[v].links[j] \subseteq Settlements
    <3>1. \A j \in 1..(k+1) : j \in 1..n
      BY <1>1, <2>1
    <3> QED
      BY <1>1, <3>1 DEF Linked
  <2> QED
    BY <2>1, <2>2, <2>3, CancelledRound
<1>5. n \in I
  <2> HIDE DEF I
  <2>1. I \in SUBSET Nat
    BY DEF I
  <2> QED
    BY <1>1, <1>3, <1>4, <2>1, InductiveSetOfNaturals
<1> QED
  BY <1>1, <1>2, <1>5 DEF n

(* An advance is closed: nothing of it is offered any more.                *)
CloseAdvance(b, a) == [b EXCEPT !.advance[a].open = FALSE, !.advance[a].outstanding = 0]

WriteAdvance(b, a, new) == [b EXCEPT !.advance = [b.advance EXCEPT ![a] = new]]

LEMMA ClosedRow ==
    ASSUME NEW old \in AdvanceRow, NEW no \in BOOLEAN, AdvanceSound(old),
           NEW new, new = [old EXCEPT !.open = no, !.outstanding = 0]
    PROVE  /\ new \in AdvanceRow /\ new.adjusted = old.adjusted
           /\ AdvanceSound(new) /\ new.original = old.original /\ new.exists = old.exists
<1>1. new.original = old.original /\ new.adjusted = old.adjusted /\ new.outstanding = 0
  BY DEF AdvanceRow
<1>2. new.exists = old.exists
  BY DEF AdvanceRow
<1>3. new \in AdvanceRow
  <2> DEFINE ex == old.exists
             x == old.original
             y == old.adjusted
  <2>1. ex \in BOOLEAN /\ x \in Nat /\ y \in Nat
    BY DEF AdvanceRow
  <2>2. new = [exists |-> ex, original |-> x, adjusted |-> y, outstanding |-> 0, open |-> no]
    BY DEF AdvanceRow
  <2> HIDE DEF ex, x, y
  <2> QED
    BY <2>1, <2>2 DEF AdvanceRow
<1>4. old.original \in Nat /\ old.adjusted \in Nat /\ old.outstanding \in Int
  BY DEF AdvanceRow
<1>5. AdvanceSound(new)
  <2>1. 0 <= new.outstanding /\ new.outstanding <= new.original - new.adjusted
    BY <1>1, <1>4 DEF AdvanceSound
  <2>2. ~new.exists => new.original = 0
    BY <1>1, <1>2 DEF AdvanceSound
  <2> QED
    BY <2>1, <2>2 DEF AdvanceSound
<1> QED
  BY <1>1, <1>2, <1>3, <1>5

LEMMA AdvanceWritten ==
    ASSUME NEW M, NEW b \in BooksRow(M), NEW a \in Advances, NEW new \in AdvanceRow
    PROVE  LET c == WriteAdvance(b, a, new)
           IN  /\ c \in BooksRow(M)
               /\ c.header = b.header /\ c.item = b.item /\ c.settlement = b.settlement
               /\ c.advance[a] = new /\ \A o \in Advances \ {a} : c.advance[o] = b.advance[o]
BY DEF BooksRow, WriteAdvance

LEMMA GoodClosing ==
    ASSUME NEW b, Good(Markers, b), NEW a \in Advances, NEW c, c = CloseAdvance(b, a)
    PROVE  /\ Good(Markers, c) /\ c.settlement = b.settlement
           /\ \A j \in Items : Follows(b, c, j)
           /\ SameAdvances(b.advance, c.advance)
<1> DEFINE no == FALSE
           old == b.advance[a]
           new == [old EXCEPT !.open = no, !.outstanding = 0]
<1>1. /\ b \in BooksRow(Markers) /\ Sound(b) /\ (\A j \in Items : PostedSound(b, j))
      /\ old \in AdvanceRow /\ no \in BOOLEAN /\ AdvanceSound(old)
  BY DEF Good, BooksRow, Sound
<1>3. c = WriteAdvance(b, a, new)
  BY <1>1 DEF BooksRow, AdvanceRow, CloseAdvance, WriteAdvance
<1> HIDE DEF no, old
<1>2. /\ new \in AdvanceRow /\ new.adjusted = old.adjusted
      /\ AdvanceSound(new) /\ new.original = old.original /\ new.exists = old.exists
  BY <1>1, ClosedRow, ZenonT(60)
<1> HIDE DEF new
<1>4. /\ c \in BooksRow(Markers)
      /\ c.header = b.header /\ c.item = b.item /\ c.settlement = b.settlement
      /\ c.advance[a] = new /\ \A o \in Advances \ {a} : c.advance[o] = b.advance[o]
  BY <1>1, <1>2, <1>3, AdvanceWritten
<1>6. /\ \A i : AppliedTo(c, i) = AppliedTo(b, i)
      /\ \A o : DrawnFrom(c, o) = DrawnFrom(b, o)
  BY <1>4 DEF AppliedTo, DrawnFrom, Posted, Drawing
<1>7. ASSUME NEW s \in Settlements PROVE SettlementSound(c, s)
  <2>1. SettlementSound(b, s) /\ b.settlement[s].advance \subseteq Advances
    BY <1>1, OneAdvance DEF Sound, BooksRow
  <2> QED
    BY <1>2, <1>4, <2>1 DEF SettlementSound, old
<1>8. Sound(c)
  <2>1. \A o \in Advances : c.advance[o].adjusted = DrawnFrom(c, o) /\ AdvanceSound(c.advance[o])
    BY <1>1, <1>2, <1>4, <1>6 DEF Sound, old
  <2> QED
    BY <1>1, <1>4, <1>6, <1>7, <2>1 DEF Sound
<1>9. \A j \in Items : PostedSound(c, j) /\ Follows(b, c, j)
  BY <1>1, <1>4 DEF PostedSound, Mirrored, Worth, Follows, Net
<1>10. SameAdvances(b.advance, c.advance)
  BY <1>2, <1>4 DEF SameAdvances, old
<1> QED
  BY <1>4, <1>8, <1>9, <1>10 DEF Good
-----------------------------------------------------------------------------
(* The invariant: each voucher is linked to its payments, and no other     *)
(* settlement made for it is in force.                                     *)
LinkMaps   == UNION {[DOMAIN Payments(v) -> SUBSET Settlements] : v \in Vouchers}
VoucherRow == [status : States, links : LinkMaps]

\* Settled in full or in part, a voucher did not draw too much for a bill.
DrawsFit(v) ==
    \A k \in DOMAIN Draws[v] : \E j \in DOMAIN Allocations[v] :
        /\ Allocations[v][j].item = Draws[v][k].item
        /\ DrawnOn(v, Draws[v][k].item) - Allocations[v][j].amount <= TOL

LinksOk(st, v, L) ==
    /\ L \in [DOMAIN Payments(v) -> SUBSET Settlements]
    /\ \A k \in DOMAIN Payments(v) :
          /\ Linked(L[k])
          /\ \A s \in L[k] : st[s].status # "none" /\ IsPayment(st, s, v, k)
    /\ \A j, k \in DOMAIN Payments(v) : \A s \in L[j] : s \in L[k] => j = k
    /\ \A k \in DOMAIN Payments(v) : L[k] # {} => DrawsFit(v)

AllHeld(st, v, L) ==
    \A s \in Settlements :
        st[s].marker = {v} /\ st[s].status \in InForce => \E k \in DOMAIN Payments(v) : s \in L[k]

Vouched(st, v, L) == LinksOk(st, v, L) /\ AllHeld(st, v, L)

\* The advance a voucher leaves is of its residual, whenever it was left;
\* a voucher that is posted was checked, paid and left what it had to.
OwnFits(adv, v) == adv[OwnAdvance[v]].exists => adv[OwnAdvance[v]].original = Residual(v)

Checked(adv, v, row) ==
    row.status = "posted" =>
        /\ ValidAmounts(v) /\ DrawsFit(v)
        /\ \A k \in DOMAIN Payments(v) : row.links[k] # {}
        /\ Residual(v) > 0 => adv[OwnAdvance[v]].exists

\* Items are of the worth of their documents, and headers mirror them.
AllAgree == AllWorth /\ AllMirrored

RInv ==
    /\ GoodState(Markers) /\ AllAgree /\ AllMeasured(settlement)
    /\ voucher \in [Vouchers -> VoucherRow] /\ confirming \subseteq SlowConfirms
    /\ \A v \in Vouchers : /\ Vouched(settlement, v, voucher[v].links)
                            /\ OwnFits(advance, v) /\ Checked(advance, v, voucher[v])

LEMMA AdvancesSteady ==
    ASSUME NEW v \in Vouchers, NEW old, NEW new, SameAdvances(old, new), NEW row
    PROVE  /\ OwnFits(old, v) => OwnFits(new, v)
           /\ Checked(old, v, row) => Checked(new, v, row)
BY ReceiptsAssumption DEF SameAdvances, OwnFits, Checked

(* Where nothing of a voucher's changes, its links stay good.              *)
LEMMA VouchedSteady ==
    ASSUME NEW v \in Vouchers, NEW old, NEW new, NEW L, Vouched(old, v, L), Steady(v, old, new)
    PROVE  Vouched(new, v, L)
<1>1. LinksOk(old, v, L) /\ AllHeld(old, v, L)
  BY DEF Vouched
<1>2. ASSUME NEW k \in DOMAIN Payments(v), NEW s \in L[k]
      PROVE  new[s].status # "none" /\ IsPayment(new, s, v, k)
  <2>1. s \in Settlements /\ old[s].status # "none" /\ IsPayment(old, s, v, k)
    BY <1>1, <1>2 DEF LinksOk
  <2>2. Kept(old[s], new[s])
    BY <2>1 DEF Steady, IsPayment
  <2> QED
    BY <2>1, <2>2 DEF Kept, IsPayment
<1>3. LinksOk(new, v, L)
  BY <1>1, <1>2 DEF LinksOk
<1>4. ASSUME NEW s \in Settlements, new[s].marker = {v}, new[s].status \in InForce
      PROVE  \E k \in DOMAIN Payments(v) : s \in L[k]
  <2>1. Kept(old[s], new[s])
    BY <1>4 DEF Steady
  <2>2. old[s].marker = {v} /\ old[s].status \in InForce
    BY <1>4, <2>1 DEF Kept
  <2> QED
    BY <1>1, <2>2 DEF AllHeld
<1> QED
  BY <1>3, <1>4 DEF Vouched, AllHeld

\* A step by hand: what it does to the settlements is nothing to a voucher.
ByHand ==
    /\ AllMeasured(settlement)' /\ SameAdvances(advance, advance')
    /\ \A w \in Vouchers : Steady(w, settlement, settlement')

LEMMA CreateByHand ==
    ASSUME GoodState(Markers), AllMeasured(settlement),
           NEW s \in Settlements, NEW adv \in UseAdvance, NEW lines \in Seq(Asked),
           CreateSettlement(s, lines, adv)
    PROVE  ByHand
<1> DEFINE none == {}
           d == Draft(lines, adv, none)
<1>1. /\ settlement[s].status = "none" /\ settlement' = [settlement EXCEPT ![s] = d]
      /\ advance' = advance
  BY DEF CreateSettlement
<1>2. adv \in Payers /\ none \in SUBSET Markers
  BY DEF UseAdvance, Payers
<1>3. \A w \in Vouchers : {w} # none
  OBVIOUS
<1> HIDE DEF none
<1>4. d.marker = none /\ Measured(d)
  BY <1>2, DraftRow
<1>5. DOMAIN settlement = Settlements
  BY TablesAre
<1> HIDE DEF d
<1>6. settlement'[s] = d /\ \A t \in Settlements \ {s} : settlement'[t] = settlement[t]
  BY <1>1, <1>5
<1>7. \A t \in Settlements \ {s} : Kept(settlement[t], settlement'[t])
  BY <1>6 DEF Kept
<1> QED
  BY <1>1, <1>3, <1>4, <1>6, <1>7 DEF ByHand, Steady, AllMeasured, SameAdvances

LEMMA PostByHand ==
    ASSUME GoodState(Markers), AllMeasured(settlement), NEW s \in Settlements, PostSettlement(s)
    PROVE  ByHand
<1> DEFINE c == PostEffect(Books, s)
<1>1. Books \in BooksRow(Markers) /\ Books.settlement = settlement /\ Books.advance = advance
  BY TablesAre
<1>2. /\ settlement' = c.settlement /\ advance' = c.advance
      /\ settlement[s].status = "draft" /\ CanPost(Books, s)
  BY <1>1 DEF PostSettlement, Become, CanPost
<1> HIDE DEF c
<1>3. /\ c.settlement[s].status = "posted"
      /\ c.settlement[s].marker = settlement[s].marker
      /\ Amounts(c.settlement[s].lines) = Amounts(settlement[s].lines)
      /\ c.settlement[s].advance = settlement[s].advance /\ Measured(c.settlement[s])
      /\ \A t \in Settlements \ {s} : c.settlement[t] = settlement[t]
      /\ SameAdvances(advance, c.advance)
  BY <1>1, <1>2, PostRow DEF c
<1>4. \A t \in Settlements : Kept(settlement[t], settlement'[t])
  BY <1>2, <1>3 DEF Kept, InForce
<1> QED
  BY <1>2, <1>3, <1>4 DEF ByHand, Steady, AllMeasured

LEMMA CancelByHand ==
    ASSUME GoodState(Markers), AllMeasured(settlement), NEW s \in Settlements, CancelSettlement(s)
    PROVE  ByHand
<1> DEFINE c == CancelEffect(Books, s)
<1>1. Books \in BooksRow(Markers) /\ Books.settlement = settlement /\ Books.advance = advance
  BY TablesAre
<1>2. settlement' = c.settlement /\ advance' = c.advance /\ CanCancel(Books, s)
  BY <1>1 DEF CancelSettlement, Become
<1> HIDE DEF c
<1>3. Measured(Books.settlement[s])
  BY <1>1 DEF AllMeasured
<1>4. /\ c.settlement[s].status = "cancelled"
      /\ c.settlement[s].marker = settlement[s].marker
      /\ Amounts(c.settlement[s].lines) = Amounts(settlement[s].lines)
      /\ c.settlement[s].advance = settlement[s].advance /\ Measured(c.settlement[s])
      /\ \A t \in Settlements \ {s} : c.settlement[t] = settlement[t]
      /\ SameAdvances(advance, c.advance)
  BY <1>1, <1>2, <1>3, CancelRow DEF c
<1>5. \A t \in Settlements : Kept(settlement[t], settlement'[t])
  BY <1>2, <1>4 DEF Kept, InForce
<1> QED
  BY <1>2, <1>4, <1>5 DEF ByHand, Steady, AllMeasured

(* The settlement that posting a credit note makes is marked for the note. *)
LEMMA PostInvoiceByHand ==
    ASSUME GoodState(Markers), AllMeasured(settlement), NEW i \in Items, PostInvoice(i)
    PROVE  ByHand
<1> DEFINE no == FALSE
           h == [Recomputed(header[i]) EXCEPT !.status = "posted", !.reversed = no]
           b == Snapshot(WriteHeader(Books, i, h), i)
<1>1. [Books EXCEPT !.header[i] = [Recomputed(@) EXCEPT !.status = "posted", !.reversed = FALSE]]
         = WriteHeader(Books, i, h)
  BY TablesAre DEF WriteHeader, BooksRow
<1>2. no \in BOOLEAN
  OBVIOUS
<1> HIDE DEF no
<1>3. h \in HeaderRow
  <2>1. Recomputed(header[i]) \in HeaderRow
    BY TablesAre, RecomputedIs
  <2> QED
    BY <1>2, <2>1 DEF HeaderRow
<1>4. \/ Become(SyncHeader(b, i))
      \/ \E owed \in adjusting[i], t \in Original[i], s \in Settlements :
            LET c == [b EXCEPT !.settlement[s] = Draft(AutoLines(b, i, t, owed), {}, {i})]
            IN  /\ settlement[s].status = "none" /\ CanPost(c, s)
                /\ Become(SyncHeader(PostEffect(c, s), i))
  BY <1>1 DEF PostInvoice
<1> HIDE DEF h, b
<1>5. Good(Markers, b) /\ b.settlement = settlement /\ b.advance = advance
  <2>1. Good(Markers, Books) /\ Books.settlement = settlement
    BY TablesAre DEF GoodState
  <2>2. Good(Markers, b) /\ b.settlement = settlement
    BY <1>3, <2>1, GoodSnapshot DEF b
  <2>3. Books.advance = advance
    BY DEF Books
  <2>4. WriteHeader(Books, i, h).advance = advance
    BY <2>3 DEF WriteHeader, Books
  <2>5. b.advance = advance
    BY <2>4 DEF b, Snapshot, WriteHeader, Books
  <2> QED
    BY <2>2, <2>5
<1>6. CASE Become(SyncHeader(b, i))
  <2>1. settlement' = settlement /\ advance' = advance
    BY <1>5, <1>6, SyncHeaderIs DEF Good, Become
  <2> QED
    BY <2>1 DEF ByHand, Steady, Kept, SameAdvances
<1>7. ASSUME NEW owed \in adjusting[i], NEW t \in Original[i], NEW s \in Settlements,
             settlement[s].status = "none",
             NEW c, c = [b EXCEPT !.settlement[s] = Draft(AutoLines(b, i, t, owed), {}, {i})],
             CanPost(c, s), Become(SyncHeader(PostEffect(c, s), i))
      PROVE  ByHand
  <2> DEFINE none == {}
             marker == {i}
             d == Draft(AutoLines(b, i, t, owed), none, marker)
  <2>1. i \in CreditNotes /\ t \in Items /\ owed \in Nat
    BY TargetsAre DEF GoodState
  <2>2. d \in SettlementRow(Markers) /\ d.marker = marker
    <3>1. AutoLines(b, i, t, owed) \in Seq(Asked)
      BY <1>5, <2>1, AutoLinesAre DEF Good
    <3>2. none \in Payers /\ marker \in SUBSET Markers
      BY <2>1 DEF Payers, Markers
    <3> QED
      BY <3>1, <3>2, DraftRow
  <2>3. \A w \in Vouchers : marker # {w}
    BY <2>1, ReceiptsAssumption
  <2>4. c = WriteSettlement(b, s, d)
    BY <1>7 DEF WriteSettlement
  <2> HIDE DEF d, none, marker
  <2>5. /\ c \in BooksRow(Markers) /\ c.settlement[s] = d /\ c.advance = advance
        /\ \A u \in Settlements \ {s} : c.settlement[u] = settlement[u]
    BY <1>5, <2>2, <2>4 DEF Good, BooksRow, WriteSettlement
  <2> DEFINE e == PostEffect(c, s)
  <2>6. e \in BooksRow(Markers)
    BY <2>5, PostEffectIs
  <2>7. /\ e.settlement[s].marker = marker /\ Measured(e.settlement[s])
        /\ \A u \in Settlements \ {s} : e.settlement[u] = settlement[u]
        /\ SameAdvances(advance, e.advance)
    <3>1. CanPost(c, s)
      BY <1>7
    <3>2. /\ e.settlement[s].marker = c.settlement[s].marker /\ Measured(e.settlement[s])
          /\ \A u \in Settlements \ {s} : e.settlement[u] = c.settlement[u]
          /\ SameAdvances(c.advance, e.advance)
      BY <2>5, <3>1, PostRow
    <3> QED
      BY <2>2, <2>5, <3>2
  <2> HIDE DEF e
  <2>8. settlement' = e.settlement /\ advance' = e.advance
    BY <1>7, <2>6, SyncHeaderIs DEF Become, e
  <2>9. \A u \in Settlements \ {s} : Kept(settlement[u], settlement'[u])
    BY <2>7, <2>8 DEF Kept
  <2> QED
    BY <1>7, <2>3, <2>7, <2>8, <2>9 DEF ByHand, Steady, AllMeasured
<1> QED
  BY <1>4, <1>6, <1>7

(* The posting of a note that reads what its original owes, or fails.      *)
LEMMA SeeingByHand ==
    ASSUME AllMeasured(settlement), NEW i \in Items, SeeOriginal(i) \/ GiveUpPost(i)
    PROVE  ByHand
<1>1. UNCHANGED settlement /\ UNCHANGED advance
  BY DEF SeeOriginal, GiveUpPost
<1> QED
  BY <1>1 DEF ByHand, Steady, Kept, SameAdvances
-----------------------------------------------------------------------------
(* The invariant holds of the first state, and every step keeps it.        *)
LEMMA OthersKeep ==
    ASSUME RInv, Others, UNCHANGED receiptVars
    PROVE  RInv'
<1>1. GoodState(Markers) /\ AllMeasured(settlement) /\ AllAgree /\ CreditNotes \subseteq Markers
  BY DEF RInv, Markers
<1>2. UNCHANGED voucher /\ UNCHANGED confirming
  BY DEF receiptVars
<1>3. GoodState(Markers)' /\ AllAgree' /\ ByHand
  <2>1. ASSUME NEW i \in Items, Posting(i)
        PROVE  GoodState(Markers)' /\ AllAgree' /\ ByHand
    <3>1. CASE PostInvoice(i)
      BY <1>1, <3>1, PostInvoiceStep, PostInvoiceByHand DEF Keeps, AllAgree
    <3>2. CASE SeeOriginal(i) \/ GiveUpPost(i)
      BY <1>1, <3>2, SeeOriginalStep, SeeingByHand DEF Keeps, AllAgree
    <3> QED
      BY <2>1, <3>1, <3>2 DEF Posting
  <2>2. ASSUME NEW s \in Settlements, Settling(s)
        PROVE  GoodState(Markers)' /\ AllAgree' /\ ByHand
    <3>1. ASSUME NEW adv \in UseAdvance, NEW lines \in LineChoices,
                 CreateSettlement(s, lines, adv)
          PROVE  GoodState(Markers)' /\ AllAgree' /\ ByHand
      <4>1. lines \in Seq(Asked)
        BY ReceivablesAssumption DEF Asked
      <4> QED
        BY <1>1, <3>1, <4>1, CreateStep, CreateByHand DEF Keeps, AllAgree
    <3>2. ASSUME NEW adv \in UseAdvance, NEW amt \in FifoAmounts,
                 CreateSettlement(s, FifoLines(amt), adv)
          PROVE  GoodState(Markers)' /\ AllAgree' /\ ByHand
      <4>1. FifoLines(amt) \in Seq(Asked)
        BY <1>1, TablesAre, FifoLinesAre, ReceivablesAssumption
      <4> QED
        BY <1>1, <3>2, <4>1, CreateStep, CreateByHand DEF Keeps, AllAgree
    <3>3. CASE PostSettlement(s)
      BY <1>1, <3>3, PostStep, PostByHand DEF Keeps, AllAgree
    <3>4. CASE CancelSettlement(s)
      BY <1>1, <3>4, CancelStep, CancelByHand DEF Keeps, AllAgree
    <3> QED
      BY <2>2, <3>1, <3>2, <3>3, <3>4 DEF Settling
  <2> QED
    BY <2>1, <2>2 DEF Others
<1>4. \A v \in Vouchers : Vouched(settlement', v, voucher[v].links)
  BY <1>3, VouchedSteady DEF RInv, ByHand
<1>5. \A v \in Vouchers : OwnFits(advance', v) /\ Checked(advance', v, voucher[v])
  BY <1>3, AdvancesSteady DEF RInv, ByHand
<1> QED
  BY <1>2, <1>3, <1>4, <1>5 DEF RInv, ByHand

(* A step that leaves the subledger and the links of vouchers alone.       *)
LEMMA StatusKeeps ==
    ASSUME RInv, UNCHANGED vars, NEW v \in Vouchers, NEW st \in States \ {"posted"},
           voucher' = [voucher EXCEPT ![v].status = st], confirming' \subseteq SlowConfirms
    PROVE  RInv'
<1>1. GoodState(Markers)' /\ AllMeasured(settlement)' /\ AllAgree' /\ settlement' = settlement
  BY DEF RInv, vars, reads, GoodState, Good, ReadsOk, AllAgree, AllWorth, AllMirrored, Books
<1>2. /\ voucher' \in [Vouchers -> VoucherRow]
      /\ \A w \in Vouchers : voucher'[w].links = voucher[w].links
      /\ \A w \in Vouchers : voucher'[w].status = "posted" => voucher[w].status = "posted"
  BY DEF RInv, VoucherRow
<1>3. \A w \in Vouchers : OwnFits(advance, w)' /\ Checked(advance, w, voucher[w])'
  <2>1. advance' = advance
    BY DEF vars
  <2> QED
    BY <1>2, <2>1 DEF RInv, OwnFits, Checked
<1> QED
  BY <1>1, <1>2, <1>3 DEF RInv

(* The rest of a receipt becomes an advance, unless there is one already.  *)
LEMMA ResidualIs ==
    ASSUME NEW v \in Vouchers
    PROVE  Residual(v) \in Nat
<1>1. Cash[v] \in Nat
  BY ReceiptsAssumption
<1>2. LineTotal(Allocations[v]) \in Nat /\ LineTotal(Draws[v]) \in Nat
  BY AllocatedIsNat
<1> DEFINE x == Support(v) - LineTotal(Allocations[v]) - LineTotal(Draws[v])
<1>3. x \in Int
  BY <1>1, <1>2 DEF Support
<1> HIDE DEF x
<1>4. Max({0, x}) = IF 0 >= x THEN 0 ELSE x
  BY <1>3, MaxOfTwo
<1> QED
  BY <1>1, <1>3, <1>4 DEF Residual, x

LEMMA OwnAdvanceKeeps ==
    ASSUME NEW v \in Vouchers, NEW b, Good(Markers, b), NEW c, c = WithAdvance(b, v)
    PROVE  /\ Good(Markers, c) /\ (\A j \in Items : Follows(b, c, j))
           /\ c.settlement = b.settlement
           /\ \A w \in Vouchers : OwnFits(b.advance, w) => OwnFits(c.advance, w)
           /\ \A w \in Vouchers : \A row :
                 Checked(b.advance, w, row) => Checked(c.advance, w, row)
           /\ Residual(v) > 0 => c.advance[OwnAdvance[v]].exists
<1> DEFINE a == OwnAdvance[v]
           x == Residual(v)
<1>1. a \in Advances /\ x \in Nat /\ \A w \in Vouchers : OwnAdvance[w] = a => w = v
  BY ReceiptsAssumption, ResidualIs
<1>2. CASE x > 0 /\ ~b.advance[a].exists
  <2>1. c = [b EXCEPT !.advance[a] = NewAdvance(x)]
    BY <1>2 DEF WithAdvance
  <2>2. NewAdvance(x).exists /\ NewAdvance(x).original = x
    BY DEF NewAdvance
  <2> HIDE DEF a, x
  <2>3. /\ Good(Markers, c) /\ (\A j \in Items : Follows(b, c, j))
        /\ c.settlement = b.settlement
    BY <1>1, <1>2, <2>1, GoodAdvance
  <2>4. c.advance[a] = NewAdvance(x) /\ \A o \in Advances \ {a} : c.advance[o] = b.advance[o]
    <3>1. b \in BooksRow(Markers)
      BY DEF Good
    <3> HIDE DEF NewAdvance
    <3> QED
      BY <1>1, <2>1, <3>1 DEF BooksRow
  <2>5. ASSUME NEW w \in Vouchers
        PROVE  /\ OwnFits(b.advance, w) => OwnFits(c.advance, w)
               /\ b.advance[OwnAdvance[w]].exists => c.advance[OwnAdvance[w]].exists
    <3>1. CASE w = v
      BY <2>2, <2>4, <3>1 DEF OwnFits, a, x
    <3>2. CASE w # v
      <4>1. OwnAdvance[w] \in Advances \ {a}
        BY <1>1, <3>2, ReceiptsAssumption
      <4> QED
        BY <2>4, <4>1 DEF OwnFits
    <3> QED
      BY <3>1, <3>2
  <2>6. \A w \in Vouchers : \A row : Checked(b.advance, w, row) => Checked(c.advance, w, row)
    BY <2>5 DEF Checked
  <2> QED
    BY <2>2, <2>3, <2>4, <2>5, <2>6 DEF a
<1>3. CASE ~(x > 0 /\ ~b.advance[a].exists)
  BY <1>3 DEF WithAdvance, Follows
<1> QED
  BY <1>2, <1>3

LEMMA PostVoucherKeeps ==
    ASSUME RInv, NEW v \in Vouchers, PostVoucher(v)
    PROVE  RInv'
<1>1. GoodState(Markers) /\ AllMeasured(settlement) /\ AllAgree /\ Good(Markers, Books)
      /\ Vouched(settlement, v, voucher[v].links)
  BY DEF RInv, GoodState
<1>2. PICK f \in PaidBy(v) :
         /\ CanPay(v, f)
         /\ Become(WithAdvance(AfterPayments(v, f)[Len(f)], v))
         /\ voucher' = [voucher EXCEPT ![v] =
                [status |-> "posted", links |-> [k \in DOMAIN f |-> {f[k]}]]]
  BY DEF PostVoucher
<1> DEFINE b == AfterPayments(v, f)[Len(f)]
           c == WithAdvance(b, v)
           L == [k \in DOMAIN f |-> {f[k]}]
<1>3. /\ f \in [DOMAIN Payments(v) -> Settlements]
      /\ \A j, k \in DOMAIN f : f[j] = f[k] => j = k
      /\ \A k \in DOMAIN f : settlement[f[k]].status = "none" \/ IsPayment(settlement, f[k], v, k)
      /\ \A k \in DOMAIN f : voucher[v].links[k] = {} \/ f[k] \in voucher[v].links[k]
  <2>1. /\ f \in [DOMAIN Payments(v) -> Settlements]
        /\ \A j, k \in DOMAIN f : f[j] = f[k] => j = k
        /\ \A k \in DOMAIN f : IF voucher[v].links[k] = {} THEN settlement[f[k]].status = "none"
                               ELSE f[k] \in voucher[v].links[k]
    BY DEF PaidBy
  <2>2. \A k \in DOMAIN Payments(v) : \A s \in voucher[v].links[k] : IsPayment(settlement, s, v, k)
    BY <1>1 DEF Vouched, LinksOk
  <2> QED
    BY <2>1, <2>2
<1>4. DrawsThere(Books, v) /\ DrawsFit(v)
  <2>1. ValidDraws(v) /\ Books.advance = advance
    BY <1>1, TablesAre DEF PostVoucher
  <2> QED
    BY <2>1 DEF ValidDraws, DrawsThere, DrawsFit
<1>5. PaidSoFar(v, f, Len(f), b)
  BY <1>1, <1>2, <1>3, <1>4, PaymentsMade
<1> HIDE DEF b
<1>6. /\ Good(Markers, c) /\ (\A j \in Items : Follows(b, c, j))
      /\ c.settlement = b.settlement
      /\ \A w \in Vouchers : OwnFits(b.advance, w) => OwnFits(c.advance, w)
      /\ \A w \in Vouchers : \A row : Checked(b.advance, w, row) => Checked(c.advance, w, row)
      /\ Residual(v) > 0 => c.advance[OwnAdvance[v]].exists
  BY <1>5, OwnAdvanceKeeps DEF PaidSoFar
<1> HIDE DEF c
<1>7. Books' = c /\ settlement' = b.settlement /\ advance' = c.advance
  BY <1>2, <1>6, BecomeIs DEF Good, Become, b, c
<1>8. Good(Markers, Books') /\ AllAgree' /\ AllMeasured(settlement')
  BY <1>1, <1>5, <1>6, <1>7 DEF PaidSoFar, Follows, AllAgree, AllWorth, AllMirrored
<1>9. ReadsOk' /\ confirming' = confirming
  BY <1>1, ReadsKept DEF PostVoucher, GoodState
<1>10. DOMAIN f = 1..Len(f) /\ DOMAIN f = DOMAIN Payments(v)
  BY <1>1, <1>3, PayLoop DEF Good
<1>11. /\ \A k \in DOMAIN f : settlement'[f[k]].status = "posted" /\ IsPayment(settlement', f[k], v, k)
       /\ \A t \in Settlements : (\A k \in DOMAIN f : t # f[k]) => settlement'[t] = settlement[t]
  BY <1>5, <1>7, <1>10 DEF PaidSoFar, IsPayment
<1>12. Vouched(settlement', v, L)
  <2>1. LinksOk(settlement', v, L)
    <3>1. L \in [DOMAIN Payments(v) -> SUBSET Settlements]
      BY <1>3
    <3>2. \A k \in DOMAIN Payments(v) : Linked(L[k])
      BY <1>3 DEF Linked
    <3>3. \A k \in DOMAIN Payments(v) : \A s \in L[k] : s = f[k]
      BY <1>10
    <3> HIDE DEF L
    <3> QED
      BY <1>3, <1>4, <1>10, <1>11, <3>1, <3>2, <3>3 DEF LinksOk
  <2>2. ASSUME NEW s \in Settlements, settlement'[s].marker = {v}, settlement'[s].status \in InForce
        PROVE  \E k \in DOMAIN Payments(v) : s \in L[k]
    <3>1. CASE \E k \in DOMAIN f : s = f[k]
      BY <1>10, <3>1
    <3>2. CASE \A k \in DOMAIN f : s # f[k]
      <4>1. settlement'[s] = settlement[s]
        BY <1>11, <3>2
      <4>2. PICK k \in DOMAIN Payments(v) : s \in voucher[v].links[k]
        BY <1>1, <2>2, <4>1 DEF Vouched, AllHeld
      <4>3. f[k] \in voucher[v].links[k] /\ Linked(voucher[v].links[k])
        BY <1>1, <1>3, <1>10, <4>2 DEF Vouched, LinksOk
      <4> QED
        BY <1>10, <3>2, <4>2, <4>3 DEF Linked
    <3> QED
      BY <3>1, <3>2
  <2> QED
    BY <2>1, <2>2 DEF Vouched, AllHeld
<1>13. ASSUME NEW w \in Vouchers \ {v}
       PROVE  Vouched(settlement', w, voucher[w].links)
  <2>1. Steady(w, settlement, settlement')
    <3> SUFFICES ASSUME NEW s \in Settlements
                 PROVE  \/ Kept(settlement[s], settlement'[s])
                        \/ settlement'[s].marker # {w}
                           /\ (settlement[s].status = "none" \/ settlement[s].marker # {w})
      BY DEF Steady
    <3>1. CASE \A k \in DOMAIN f : s # f[k]
      <4>1. settlement'[s] = settlement[s]
        BY <1>11, <3>1
      <4> QED
        BY <4>1 DEF Kept
    <3>2. ASSUME NEW k \in DOMAIN f, s = f[k]
          PROVE  settlement'[s].marker # {w}
                 /\ (settlement[s].status = "none" \/ settlement[s].marker # {w})
      BY <1>3, <1>11, <3>2 DEF IsPayment
    <3> QED
      BY <3>1, <3>2
  <2> QED
    BY <2>1, VouchedSteady DEF RInv
<1>14. /\ voucher' \in [Vouchers -> VoucherRow]
       /\ voucher'[v].links = L /\ \A w \in Vouchers \ {v} : voucher'[w] = voucher[w]
  <2> DEFINE row == [status |-> "posted", links |-> L]
  <2>1. row \in VoucherRow /\ row.links = L
    <3>1. L \in LinkMaps
      <4>1. L \in [DOMAIN Payments(v) -> SUBSET Settlements]
        BY <1>12 DEF Vouched, LinksOk
      <4> QED
        BY <4>1 DEF LinkMaps
    <3> HIDE DEF L
    <3> QED
      BY <3>1 DEF VoucherRow, States
  <2>2. voucher' = [voucher EXCEPT ![v] = row]
    BY <1>2
  <2> HIDE DEF row, L
  <2>3. voucher \in [Vouchers -> VoucherRow]
    BY DEF RInv
  <2> QED
    BY <2>1, <2>2, <2>3
<1> HIDE DEF L
<1>15. \A w \in Vouchers : Vouched(settlement', w, voucher'[w].links)
  BY <1>12, <1>13, <1>14
<1>16. ASSUME NEW w \in Vouchers
       PROVE  OwnFits(advance', w) /\ Checked(advance', w, voucher'[w])
  <2>1. OwnFits(b.advance, w) /\ Checked(b.advance, w, voucher[w])
    BY <1>5, AdvancesSteady DEF RInv, PaidSoFar
  <2>2. OwnFits(advance', w) /\ Checked(advance', w, voucher[w])
    BY <1>6, <1>7, <2>1
  <2>3. CASE w # v
    BY <1>14, <2>2, <2>3
  <2>4. CASE w = v
    <3>1. ValidAmounts(v) /\ \A k \in DOMAIN Payments(v) : L[k] # {}
      BY <1>10 DEF PostVoucher, L
    <3> QED
      BY <1>4, <1>6, <1>7, <1>14, <2>2, <2>4, <3>1 DEF Checked
  <2> QED
    BY <2>3, <2>4
<1> QED
  BY <1>8, <1>9, <1>14, <1>15, <1>16 DEF RInv, GoodState

LEMMA UnpostVoucherKeeps ==
    ASSUME RInv, NEW v \in Vouchers, UnpostVoucher(v)
    PROVE  RInv'
<1> DEFINE a == OwnAdvance[v]
           b == Unpaid(Books, v)
           L == NoLinks(v)
<1>1. GoodState(Markers) /\ AllMeasured(settlement) /\ AllAgree /\ Good(Markers, Books)
      /\ Vouched(settlement, v, voucher[v].links)
  BY DEF RInv, GoodState
<1>2. UnpaidSoFar(v, Len(Payments(v)), b)
  BY <1>1, AllUnpaid DEF Vouched, LinksOk
<1>3. /\ \/ Become(CloseAdvance(b, a)) \/ Become(b)
      /\ voucher' = [voucher EXCEPT ![v] = [status |-> "confirmed", links |-> L]]
      /\ UNCHANGED <<reads, confirming>>
  BY DEF UnpostVoucher, CloseAdvance
<1> HIDE DEF b
<1>4. PICK c : /\ Become(c) /\ Good(Markers, c) /\ c.settlement = b.settlement
               /\ SameAdvances(b.advance, c.advance)
               /\ \A j \in Items : Follows(b, c, j)
  <2>1. Good(Markers, b)
    BY <1>2 DEF UnpaidSoFar
  <2>2. CASE Become(b)
    BY <2>1, <2>2 DEF SameAdvances, Follows
  <2>3. CASE Become(CloseAdvance(b, a))
    <3>1. a \in Advances
      BY ReceiptsAssumption
    <3> HIDE DEF a
    <3> QED
      BY <2>1, <2>3, <3>1, GoodClosing
  <2> QED
    BY <1>3, <2>2, <2>3
<1>5. Books' = c /\ settlement' = b.settlement /\ advance' = c.advance
  BY <1>4, BecomeIs DEF Good, Become
<1>6. Good(Markers, Books') /\ AllAgree' /\ AllMeasured(settlement')
  BY <1>1, <1>2, <1>4, <1>5 DEF UnpaidSoFar, Follows, AllAgree, AllWorth, AllMirrored
<1>7. ReadsOk' /\ confirming' = confirming
  BY <1>1, <1>3, ReadsKept DEF GoodState
<1>8. AllKept(settlement, settlement')
  BY <1>2, <1>5 DEF UnpaidSoFar
<1>9. Vouched(settlement', v, L)
  <2>1. L \in [DOMAIN Payments(v) -> SUBSET Settlements] /\ \A k \in DOMAIN Payments(v) : L[k] = {}
    BY DEF NoLinks
  <2> HIDE DEF L
  <2>2. LinksOk(settlement', v, L)
    BY <2>1 DEF LinksOk, Linked
  <2>3. ASSUME NEW s \in Settlements, settlement'[s].marker = {v}, settlement'[s].status \in InForce
        PROVE  FALSE
    <3>1. settlement[s].marker = {v} /\ settlement[s].status \in InForce
      BY <1>8, <2>3 DEF AllKept, Kept
    <3>2. PICK k \in DOMAIN Payments(v) : s \in voucher[v].links[k]
      BY <1>1, <2>3, <3>1 DEF Vouched, AllHeld
    <3>3. k \in 1..Len(Payments(v))
      BY <3>2, PaymentsAre
    <3> QED
      BY <1>2, <1>5, <2>3, <3>2, <3>3 DEF UnpaidSoFar
  <2> QED
    BY <2>2, <2>3 DEF Vouched, AllHeld
<1>10. ASSUME NEW w \in Vouchers \ {v}
       PROVE  Vouched(settlement', w, voucher[w].links)
  BY <1>8, VouchedSteady DEF RInv, AllKept, Steady
<1>11. /\ voucher' \in [Vouchers -> VoucherRow] /\ voucher'[v].status # "posted"
       /\ voucher'[v].links = L /\ \A w \in Vouchers \ {v} : voucher'[w] = voucher[w]
  <2> DEFINE row == [status |-> "confirmed", links |-> L]
  <2>1. row \in VoucherRow /\ row.links = L /\ row.status # "posted"
    <3>1. L \in LinkMaps
      <4>1. L \in [DOMAIN Payments(v) -> SUBSET Settlements]
        BY <1>9 DEF Vouched, LinksOk
      <4> QED
        BY <4>1 DEF LinkMaps
    <3> HIDE DEF L
    <3> QED
      BY <3>1 DEF VoucherRow, States
  <2>2. voucher' = [voucher EXCEPT ![v] = row]
    BY <1>3
  <2> HIDE DEF row, L
  <2>3. voucher \in [Vouchers -> VoucherRow]
    BY DEF RInv
  <2> QED
    BY <2>1, <2>2, <2>3
<1> HIDE DEF L
<1>12. \A w \in Vouchers : Vouched(settlement', w, voucher'[w].links)
  BY <1>9, <1>10, <1>11
<1>13. ASSUME NEW w \in Vouchers
       PROVE  OwnFits(advance', w) /\ Checked(advance', w, voucher'[w])
  <2>1. SameAdvances(advance, advance')
    BY <1>2, <1>4, <1>5 DEF UnpaidSoFar, SameAdvances
  <2>2. OwnFits(advance', w) /\ Checked(advance', w, voucher[w])
    BY <2>1, AdvancesSteady DEF RInv
  <2> QED
    BY <1>11, <2>2 DEF Checked
<1> QED
  BY <1>6, <1>7, <1>11, <1>12, <1>13 DEF RInv, GoodState

LEMMA InitVouched ==
    ASSUME ReceiptsInit
    PROVE  RInv
<1>1. GoodState(Markers) /\ AllAgree
  BY InitGood DEF ReceiptsInit, AllAgree
<1> DEFINE none == {}
<1>2. \A s \in Settlements : /\ settlement[s].lines = <<>> /\ settlement[s].marker = none
                             /\ settlement[s].status = "none"
  BY DEF ReceiptsInit, Init, NoSettlement
<1>3. \A s \in Settlements : Measured(settlement[s])
  BY <1>2 DEF Measured
<1>4. ASSUME NEW v \in Vouchers
      PROVE  /\ Vouched(settlement, v, NoLinks(v))
             /\ [status |-> "draft", links |-> NoLinks(v)] \in VoucherRow
  <2> DEFINE L == NoLinks(v)
  <2>1. L \in [DOMAIN Payments(v) -> SUBSET Settlements] /\ \A k \in DOMAIN Payments(v) : L[k] = {}
    BY DEF NoLinks
  <2>2. L \in LinkMaps
    BY <2>1 DEF LinkMaps
  <2> HIDE DEF L
  <2>3. LinksOk(settlement, v, L)
    BY <2>1 DEF LinksOk, Linked
  <2>4. {v} # none
    OBVIOUS
  <2>5. AllHeld(settlement, v, L)
    BY <1>2, <2>4 DEF AllHeld
  <2>6. [status |-> "draft", links |-> L] \in VoucherRow
    BY <2>2 DEF VoucherRow, States
  <2> QED
    BY <2>3, <2>5, <2>6 DEF Vouched, L
<1>5. voucher = [v \in Vouchers |-> [status |-> "draft", links |-> NoLinks(v)]] /\ confirming = {}
  BY DEF ReceiptsInit
<1>6. \A v \in Vouchers : voucher[v].links = NoLinks(v)
  BY <1>5
<1>7. voucher \in [Vouchers -> VoucherRow]
  BY <1>4, <1>5
<1>8. \A v \in Vouchers : OwnFits(advance, v) /\ Checked(advance, v, voucher[v])
  <2>1. \A a \in Advances : ~advance[a].exists
    BY DEF ReceiptsInit, Init, NoAdvance
  <2>2. \A v \in Vouchers : voucher[v].status # "posted"
    BY <1>5
  <2> QED
    BY <2>1, <2>2, ReceiptsAssumption DEF OwnFits, Checked
<1> QED
  BY <1>1, <1>3, <1>4, <1>5, <1>6, <1>7, <1>8 DEF RInv, AllMeasured

LEMMA ReceivingKeeps ==
    ASSUME RInv, NEW v \in Vouchers, Receiving(v)
    PROVE  RInv'
<1>1. CASE ConfirmVoucher(v)
  <2>1. "confirmed" \in States \ {"posted"} /\ confirming \subseteq SlowConfirms
    BY DEF States, RInv
  <2> QED
    BY <1>1, <2>1, StatusKeeps DEF ConfirmVoucher
<1>2. CASE BeginConfirm(v)
  <2>1. UNCHANGED vars /\ UNCHANGED voucher /\ confirming' \subseteq SlowConfirms
    BY <1>2 DEF BeginConfirm, RInv
  <2>2. /\ GoodState(Markers)' /\ AllMeasured(settlement)' /\ AllAgree'
        /\ UNCHANGED settlement /\ UNCHANGED advance
    BY <2>1 DEF RInv, vars, reads, GoodState, Good, ReadsOk, AllAgree, AllWorth, AllMirrored, Books
  <2> QED
    BY <2>1, <2>2 DEF RInv, OwnFits, Checked
<1>3. CASE EndConfirm(v)
  <2>1. "confirmed" \in States \ {"posted"} /\ confirming' \subseteq SlowConfirms
    BY <1>3 DEF EndConfirm, States, RInv
  <2> QED
    BY <1>3, <2>1, StatusKeeps DEF EndConfirm
<1>4. CASE PostVoucher(v)
  BY <1>4, PostVoucherKeeps
<1>5. CASE UnpostVoucher(v)
  BY <1>5, UnpostVoucherKeeps
<1>6. CASE CancelVoucher(v)
  <2>1. "cancelled" \in States \ {"posted"} /\ confirming \subseteq SlowConfirms
    BY DEF States, RInv
  <2> QED
    BY <1>6, <2>1, StatusKeeps DEF CancelVoucher
<1> QED
  BY <1>1, <1>2, <1>3, <1>4, <1>5, <1>6 DEF Receiving

LEMMA RInvHolds == ReceiptsSpec => []RInv
<1>1. ReceiptsInit => RInv
  BY InitVouched
<1>2. ASSUME RInv, [ReceiptsNext]_allVars PROVE RInv'
  <2>1. CASE UNCHANGED allVars
    <3>1. UNCHANGED vars /\ UNCHANGED voucher /\ UNCHANGED confirming
      BY <2>1 DEF allVars, receiptVars
    <3>2. /\ GoodState(Markers)' /\ AllMeasured(settlement)' /\ AllAgree'
          /\ UNCHANGED settlement /\ UNCHANGED advance
      BY <1>2, <3>1 DEF RInv, vars, reads, GoodState, Good, ReadsOk, AllAgree, AllWorth, AllMirrored, Books
    <3> QED
      BY <1>2, <3>1, <3>2 DEF RInv, OwnFits, Checked
  <2>2. CASE Others /\ UNCHANGED receiptVars
    BY <1>2, <2>2, OthersKeep
  <2>3. CASE \E v \in Vouchers : Receiving(v)
    BY <1>2, <2>3, ReceivingKeeps
  <2> QED
    BY <1>2, <2>1, <2>2, <2>3 DEF ReceiptsNext
<1> QED
  BY <1>1, <1>2, PTL DEF ReceiptsSpec

(* A voucher always has one of its states, links for exactly the payments  *)
(* it makes, and only the calls that read it as a draft may stall.         *)
THEOREM ReceiptsTypeCorrect == ReceiptsSpec => []ReceiptsTypeOK
<1>1. RInv => ReceiptsTypeOK
  <2> SUFFICES ASSUME RInv, NEW v \in Vouchers
               PROVE  /\ voucher[v].status \in States
                      /\ voucher[v].links \in [DOMAIN Payments(v) -> SUBSET Settlements]
    BY DEF RInv, ReceiptsTypeOK, States
  <2>1. voucher[v] \in VoucherRow /\ LinksOk(settlement, v, voucher[v].links)
    BY DEF RInv, Vouched
  <2> QED
    BY <2>1 DEF VoucherRow, LinksOk
<1> QED
  BY <1>1, RInvHolds, PTL

(* Whatever the interleaving of postings, unpostings, stalled confirmations *)
(* and settlements cancelled by hand, a settlement in effect for a voucher *)
(* is one the voucher links to: _unpost and the next posting find it.      *)
THEOREM StandingLinked == ReceiptsSpec => []StandingIsLinked
<1>1. RInv => StandingIsLinked
  <2> SUFFICES ASSUME RInv, NEW v \in Vouchers, NEW s \in Standing(v)
               PROVE  s \in UNION Range(voucher[v].links)
    BY DEF StandingIsLinked
  <2>1. s \in Settlements /\ settlement[s].marker = {v} /\ settlement[s].status \in InForce
    BY DEF Standing, InForce
  <2>2. /\ voucher[v].links \in [DOMAIN Payments(v) -> SUBSET Settlements]
        /\ \E k \in DOMAIN Payments(v) : s \in voucher[v].links[k]
    BY <2>1 DEF RInv, Vouched, LinksOk, AllHeld
  <2> QED
    BY <2>2 DEF Range
<1> QED
  BY <1>1, RInvHolds, PTL

(* The subledger stays as sound under receipts as under the calls of       *)
(* Receivables alone: post_voucher and unpost_voucher make and cancel any  *)
(* number of settlements in one transaction, and leave neither an item, an *)
(* advance nor a header that disagrees with them.                          *)
THEOREM SubledgerKept ==
    ReceiptsSpec => [](/\ SettledIsApplied /\ AdvanceIsApplied /\ AdvanceNeverOverdrawn
                       /\ OpenMeansOwing /\ HeaderMirrorsItem)
<1>1. ASSUME RInv
      PROVE  /\ SettledIsApplied /\ AdvanceIsApplied /\ AdvanceNeverOverdrawn
             /\ OpenMeansOwing /\ HeaderMirrorsItem
  <2>1. GoodState(Markers) /\ AllAgree
    BY <1>1 DEF RInv
  <2>2. HeaderMirrorsItem
    BY <2>1, TablesAre DEF AllAgree, AllWorth, AllMirrored, Mirrored, HeaderMirrorsItem
  <2> QED
    BY <2>1, <2>2, GoodTables DEF AllAgree
<1> QED
  BY <1>1, RInvHolds, PTL
-----------------------------------------------------------------------------
(* What a voucher applies is at most what it allocates.                    *)
LEMMA AmountsAdd ==
    ASSUME NEW w \in Seq(AskedSome)
    PROVE  /\ LineTotal(w) \in Nat /\ LineTotal(<<>>) = 0
           /\ \A ln \in AskedSome : LineTotal(Append(w, ln)) = LineTotal(w) + ln.amount
<1> DEFINE n == Len(w)
<1>1. n \in Nat /\ DOMAIN w = 1..n /\ \A k \in 1..n : w[k].amount \in Nat
  <2>1. n \in Nat /\ DOMAIN w = 1..n /\ \A k \in 1..n : w[k] \in AskedSome
    OBVIOUS
  <2> QED
    BY <2>1 DEF AskedSome
<1>2. IsFiniteSet(DOMAIN w)
  BY <1>1, FS_Interval
<1>3. LineTotal(w) \in Nat
  BY <1>1, <1>2, LineTotalIs
<1>4. LineTotal(<<>>) = 0
  <2>1. DOMAIN Amounts(<<>>) = {}
    BY DEF Amounts
  <2> QED
    BY <2>1, SumOfNone DEF LineTotal, SumFunction
<1>5. ASSUME NEW ln \in AskedSome
      PROVE  LineTotal(Append(w, ln)) = LineTotal(w) + ln.amount
  <2> DEFINE u == Append(w, ln)
             f == Amounts(w)
             h == Amounts(u)
             S == 1..n
             x == n + 1
  <2>1. DOMAIN u = 1..(n+1) /\ u[n+1] = ln /\ \A k \in 1..n : u[k] = w[k]
    BY <1>1
  <2>2. DOMAIN h = S \cup {x} /\ DOMAIN f = S /\ x \notin S /\ IsFiniteSet(S)
    <3>1. 1..(n+1) = 1..n \cup {n+1}
      BY <1>1
    <3> HIDE DEF u, n
    <3> QED
      BY <1>1, <1>2, <2>1, <3>1 DEF Amounts
  <2>3. h[x] = ln.amount /\ h[x] \in Nat /\ \A k \in S : f[k] \in Int /\ h[k] = f[k]
    <3>1. ln.amount \in Nat /\ x \in 1..(n+1) /\ \A k \in S : k \in 1..(n+1)
      BY <1>1 DEF AskedSome
    <3> HIDE DEF u, n
    <3> QED
      BY <1>1, <2>1, <3>1 DEF Amounts
  <2> HIDE DEF u, f, h, S, x, n
  <2>4. SumFunctionOnSet(h, S \cup {x}) = SumFunctionOnSet(f, S) + h[x]
    BY <2>2, <2>3, SumGains
  <2>5. LineTotal(u) = SumFunctionOnSet(h, S \cup {x}) /\ LineTotal(w) = SumFunctionOnSet(f, S)
    BY <2>2 DEF LineTotal, SumFunction, f, h
  <2>6. LineTotal(u) = LineTotal(w) + ln.amount
    BY <2>3, <2>4, <2>5
  <2> QED
    BY <2>6 DEF u
<1> QED
  BY <1>3, <1>4, <1>5

\* What is allocated, and what is drawn, line by line.
Allocated(v)    == Amounts(Allocations[v])
DrawnByLine(v)  == [k \in 1..Len(Allocations[v]) |-> DrawnOn(v, Allocations[v][k].item)]

(* A draw that was checked draws for a bill that is allocated to.          *)
LEMMA DrawsCovered ==
    ASSUME NEW v \in Vouchers, DrawsFit(v)
    PROVE  /\ \A k \in 1..Len(Allocations[v]) :
                 /\ DrawnByLine(v)[k] \in Nat /\ Allocated(v)[k] \in Nat
                 /\ DrawnByLine(v)[k] <= Allocated(v)[k] + TOL
           /\ LineTotal(Draws[v])
                 = SumFunctionOnSet(DrawnByLine(v), 1..Len(Allocations[v]))
           /\ LineTotal(Allocations[v])
                 = SumFunctionOnSet(Allocated(v), 1..Len(Allocations[v]))
<1> DEFINE n == Len(Allocations[v])
           m == Len(Draws[v])
           A == Allocated(v)
           D == DrawnByLine(v)
           f == Amounts(Draws[v])
<1>1. /\ n \in Nat /\ DOMAIN Allocations[v] = 1..n
      /\ m \in Nat /\ DOMAIN Draws[v] = 1..m
      /\ \A k \in 1..n : Allocations[v][k].amount \in Nat
      /\ \A k \in 1..m : Draws[v][k].amount \in Nat
      /\ TOL \in Nat
      /\ \A j, k \in 1..n : Allocations[v][j].item = Allocations[v][k].item => j = k
  BY AllocationsAre, ReceiptsAssumption, ReceivablesAssumption
<1>2. IsFiniteSet(1..n) /\ IsFiniteSet(1..m)
  BY <1>1, FS_Interval
<1>3. /\ DOMAIN A = 1..n /\ \A k \in 1..n : A[k] = Allocations[v][k].amount
      /\ DOMAIN f = 1..m /\ \A k \in 1..m : f[k] = Draws[v][k].amount
  BY <1>1 DEF Allocated, Amounts
<1>4. \A k \in 1..n : D[k] = DrawnOn(v, Allocations[v][k].item) /\ D[k] \in Nat
  BY DrawnIsNat DEF DrawnByLine
<1>5. ASSUME NEW k \in 1..n PROVE D[k] <= A[k] + TOL
  <2>1. CASE \E l \in 1..m : Draws[v][l].item = Allocations[v][k].item
    <3>1. PICK l \in 1..m : Draws[v][l].item = Allocations[v][k].item
      BY <2>1
    <3>2. PICK j \in 1..n : /\ Allocations[v][j].item = Draws[v][l].item
                            /\ DrawnOn(v, Draws[v][l].item) - Allocations[v][j].amount <= TOL
      BY <1>1, <3>1 DEF DrawsFit
    <3>3. j = k
      BY <1>1, <3>1, <3>2
    <3>4. D[k] - A[k] <= TOL
      BY <1>3, <1>4, <3>1, <3>2, <3>3
    <3>5. D[k] \in Nat /\ A[k] \in Nat
      BY <1>1, <1>3, <1>4
    <3> HIDE DEF A, D
    <3> QED
      BY <1>1, <3>4, <3>5
  <2>2. CASE \A l \in 1..m : Draws[v][l].item # Allocations[v][k].item
    <3>1. {l \in DOMAIN Draws[v] : Draws[v][l].item = Allocations[v][k].item} = {}
      BY <1>1, <2>2
    <3>2. D[k] = 0
      BY <1>4, <3>1, SumOfNone DEF DrawnOn
    <3>3. A[k] \in Nat
      BY <1>1, <1>3
    <3> HIDE DEF A, D
    <3> QED
      BY <1>1, <3>2, <3>3
  <2> QED
    BY <2>1, <2>2
<1>6. SumFunctionOnSet(f, 1..m) = SumFunctionOnSet(D, 1..n)
  <2> DEFINE g == [l \in 1..m |-> CHOOSE j \in 1..n : Allocations[v][j].item = Draws[v][l].item]
  <2>1. ASSUME NEW l \in 1..m
        PROVE  g[l] \in 1..n /\ Allocations[v][g[l]].item = Draws[v][l].item
    <3>1. \E j \in 1..n : Allocations[v][j].item = Draws[v][l].item
      BY <1>1 DEF DrawsFit
    <3> QED
      BY <3>1
  <2>2. DOMAIN g = 1..m
    OBVIOUS
  <2> HIDE DEF g
  <2>3. ASSUME NEW k \in 1..n PROVE Parts(f, 1..m, g, 1..n)[k] = D[k]
    <3>1. {l \in 1..m : g[l] = k}
             = {l \in DOMAIN Draws[v] : Draws[v][l].item = Allocations[v][k].item}
      <4>1. \A j \in 1..n : Allocations[v][j].item = Allocations[v][k].item => j = k
        BY <1>1
      <4>2. \A l \in 1..m : g[l] = k <=> Draws[v][l].item = Allocations[v][k].item
        BY <2>1, <4>1
      <4> QED
        BY <1>1, <4>2
    <3> HIDE DEF f
    <3>2. Parts(f, 1..m, g, 1..n)[k] = SumFunctionOnSet(f, {l \in 1..m : g[l] = k})
      BY DEF Part, Parts
    <3> QED
      BY <1>4, <3>1, <3>2 DEF DrawnOn, f
  <2>4. \A l \in 1..m : f[l] \in Int
    BY <1>1, <1>3
  <2> DEFINE S == 1..m
             R == 1..n
  <2> HIDE DEF f, S, R, D
  <2>5. SumFunctionOnSet(f, S) = SumFunctionOnSet(Parts(f, S, g, R), R)
    BY <1>2, <2>1, <2>4, SumOfParts DEF S, R
  <2>6. SumFunctionOnSet(Parts(f, S, g, R), R) = SumFunctionOnSet(D, R)
    BY <1>2, <2>3, SumSame DEF S, R
  <2> QED
    BY <2>5, <2>6 DEF S, R
<1>7. LineTotal(Draws[v]) = SumFunctionOnSet(f, 1..m)
      /\ LineTotal(Allocations[v]) = SumFunctionOnSet(A, 1..n)
  BY <1>3 DEF LineTotal, SumFunction, Allocated
<1>8. \A k \in 1..n : A[k] \in Nat
  BY <1>1, <1>3
<1> HIDE DEF f, m, A, D
<1> QED
  BY <1>4, <1>5, <1>6, <1>7, <1>8 DEF A, D

(* In cash, a voucher pays what the draws do not cover, line by line.      *)
LEMMA CashAndDraws ==
    ASSUME NEW v \in Vouchers, DrawsFit(v)
    PROVE  /\ LineTotal(CashLines(v)) + LineTotal(Draws[v])
                 <= LineTotal(Allocations[v]) + TOL * Len(Allocations[v])
           /\ LineTotal(Allocations[v]) <= LineTotal(CashLines(v)) + LineTotal(Draws[v])
<1> DEFINE n == Len(Allocations[v])
           A == Allocated(v)
           D == DrawnByLine(v)
<1>1. n \in Nat /\ TOL \in Nat
  BY AllocationsAre, ReceivablesAssumption
<1>2. PICK cash : /\ CashLines(v) = cash[n] /\ cash[0] = <<>>
                  /\ \A k \in 1..n : cash[k] = CashRound(v, cash[k-1], k)
                  /\ \A k \in 0..n : cash[k] \in Seq(AskedSome)
  BY CashLoop
<1>3. /\ \A k \in 1..n : D[k] \in Nat /\ A[k] \in Nat /\ D[k] <= A[k] + TOL
      /\ LineTotal(Draws[v]) = SumFunctionOnSet(D, 1..n)
      /\ LineTotal(Allocations[v]) = SumFunctionOnSet(A, 1..n)
  BY DrawsCovered
<1>4. \A k \in 1..n : InCash(v, k) = A[k] - D[k]
  BY AllocationsAre DEF InCash, Allocated, DrawnByLine, Amounts
<1> DEFINE B(k) == /\ LineTotal(cash[k]) + SumFunctionOnSet(D, 1..k)
                         <= SumFunctionOnSet(A, 1..k) + TOL * k
                   /\ SumFunctionOnSet(A, 1..k)
                         <= LineTotal(cash[k]) + SumFunctionOnSet(D, 1..k)
           I == {k \in Nat : k <= n => B(k)}
<1> HIDE DEF n, A, D
<1>5. 0 \in I
  <2>1. 1..0 = {} /\ TOL * 0 = 0
    BY <1>1
  <2>2. LineTotal(cash[0]) = 0
    BY <1>1, <1>2, AmountsAdd
  <2>3. SumFunctionOnSet(D, 1..0) = 0 /\ SumFunctionOnSet(A, 1..0) = 0
    BY <2>1, SumOfNone
  <2>4. B(0)
    BY <2>1, <2>2, <2>3
  <2> QED
    BY <2>4
<1>6. ASSUME NEW k \in I PROVE k + 1 \in I
  <2> SUFFICES ASSUME k + 1 <= n PROVE B(k + 1)
    OBVIOUS
  <2> DEFINE j == k + 1
  <2>1. k \in Nat /\ j \in 1..n /\ j - 1 = k /\ k \in 0..n /\ B(k)
    BY <1>1, <1>6
  <2>2. \A l \in 1..j : D[l] \in Int /\ A[l] \in Int
    BY <1>1, <1>3, <2>1
  <2>3. /\ SumFunctionOnSet(D, 1..j) = SumFunctionOnSet(D, 1..k) + D[j]
        /\ SumFunctionOnSet(A, 1..j) = SumFunctionOnSet(A, 1..k) + A[j]
    BY <2>1, <2>2, SumUpto
  <2>4. SumFunctionOnSet(D, 1..k) \in Int /\ SumFunctionOnSet(A, 1..k) \in Int
    <3>1. IsFiniteSet(1..k) /\ \A l \in 1..k : D[l] \in Int /\ A[l] \in Int
      BY <2>1, <2>2, FS_Interval
    <3> QED
      BY <3>1, SumIsInt
  <2> DEFINE x == A[j] - D[j]
             ln == [item |-> Allocations[v][j].item, amount |-> x]
  <2>5. /\ cash[j] = IF x > 0 THEN Append(cash[k], ln) ELSE cash[k]
        /\ cash[k] \in Seq(AskedSome)
    BY <1>2, <1>4, <2>1 DEF CashRound
  <2>6. D[j] \in Nat /\ A[j] \in Nat /\ D[j] <= A[j] + TOL /\ x \in Int
    BY <1>3, <2>1
  <2>7. LineTotal(cash[k]) \in Nat
    BY <2>5, AmountsAdd
  <2>8. LineTotal(cash[j]) = IF x > 0 THEN LineTotal(cash[k]) + x ELSE LineTotal(cash[k])
    <3>1. CASE x > 0
      <4>1. ln \in AskedSome /\ ln.amount = x
        <5>1. Allocations[v][j].item \in Items
          BY <2>1, AllocationsAre DEF n
        <5> HIDE DEF x
        <5> QED
          BY <2>6, <3>1, <5>1 DEF AskedSome
      <4>2. cash[j] = Append(cash[k], ln)
        BY <2>5, <3>1
      <4> HIDE DEF ln, x
      <4> QED
        BY <2>5, <3>1, <4>1, <4>2, AmountsAdd
    <3>2. CASE ~(x > 0)
      BY <2>5, <3>2
    <3> QED
      BY <3>1, <3>2
  <2>9. TOL * j = TOL * k + TOL /\ TOL * k \in Int
    BY <1>1, <2>1
  <2> HIDE DEF j
  <2>10. B(j)
    <3> DEFINE t == TOL * k
               u == TOL * j
               a == SumFunctionOnSet(A, 1..k)
               d == SumFunctionOnSet(D, 1..k)
               c == LineTotal(cash[k])
    <3>1. /\ t \in Int /\ u = t + TOL /\ a \in Int /\ d \in Int /\ c \in Nat
          /\ c + d <= a + t /\ a <= c + d
      BY <2>1, <2>4, <2>7, <2>9
    <3> HIDE DEF t, u, a, d, c
    <3> DEFINE e == LineTotal(cash[j])
               y == A[j]
               z == D[j]
    <3>2. /\ y \in Nat /\ z \in Nat /\ z <= y + TOL
          /\ e = IF y - z > 0 THEN c + (y - z) ELSE c
      BY <2>6, <2>8 DEF c
    <3> HIDE DEF e, y, z
    <3>3. e + (d + z) <= (a + y) + u /\ a + y <= e + (d + z)
      <4>1. CASE y - z > 0
        BY <1>1, <3>1, <3>2, <4>1
      <4>2. CASE ~(y - z > 0)
        BY <1>1, <3>1, <3>2, <4>2
      <4> QED
        BY <4>1, <4>2
    <3> QED
      BY <2>3, <3>3 DEF e, y, z, u, a, d
  <2> QED
    BY <2>10 DEF j
<1>7. n \in I
  <2> HIDE DEF I
  <2>1. I \in SUBSET Nat
    BY DEF I
  <2> QED
    BY <1>1, <1>5, <1>6, <2>1, InductiveSetOfNaturals
<1>8. B(n)
  BY <1>1, <1>7
<1> QED
  BY <1>2, <1>3, <1>8 DEF n

\* What each payment of a voucher asks for.
PaymentAmounts(v) == [k \in DOMAIN Payments(v) |-> LineTotal(Payments(v)[k].lines)]

LEMMA OneLineTotal ==
    ASSUME NEW i, NEW amt \in Nat
    PROVE  LineTotal(<<[item |-> i, amount |-> amt]>>) = amt
<1> DEFINE ln == [item |-> i, amount |-> amt]
           lines == <<ln>>
           f == Amounts(lines)
<1>1. DOMAIN lines = {1} /\ lines[1] = ln /\ ln.amount = amt
  OBVIOUS
<1> HIDE DEF lines, ln
<1>2. DOMAIN f = {1} /\ f[1] = amt
  BY <1>1 DEF Amounts
<1> HIDE DEF f
<1>3. SumFunctionOnSet(f, {1}) = f[1]
  BY <1>2, SumOfOne
<1> QED
  BY <1>2, <1>3 DEF LineTotal, SumFunction, f, lines, ln

CashPayment(v)    == [lines |-> CashLines(v), advance |-> {}]
DrawPayment(v, k) == [lines |-> <<[item |-> Draws[v][k].item, amount |-> Draws[v][k].amount]>>,
                      advance |-> {Draws[v][k].advance}]

\* The payment of the k-th draw comes after the one in cash, if there is one.
Offset(v) == IF CashLines(v) = <<>> THEN 0 ELSE 1

LEMMA PaymentsShape ==
    ASSUME NEW v \in Vouchers
    PROVE  /\ DOMAIN Payments(v) = 1..(Offset(v) + Len(Draws[v]))
           /\ Offset(v) = 1 => Payments(v)[1] = CashPayment(v)
           /\ \A k \in 1..Len(Draws[v]) : Payments(v)[Offset(v) + k] = DrawPayment(v, k)
<1> DEFINE m == Len(Draws[v])
           P == Payments(v)
           cash == CashPayment(v)
           first == IF CashLines(v) = <<>> THEN <<>> ELSE <<cash>>
           drawn(k) == DrawPayment(v, k)
           rest == [k \in DOMAIN Draws[v] |-> drawn(k)]
<1>1. m \in Nat /\ DOMAIN Draws[v] = 1..m
  BY AllocationsAre
<1>2. rest \in Seq({drawn(k) : k \in 1..m}) /\ Len(rest) = m /\ \A k \in 1..m : rest[k] = drawn(k)
  <2> DEFINE X == {drawn(k) : k \in 1..m}
  <2> HIDE DEF drawn
  <2>1. rest \in [1..m -> X] /\ \A k \in 1..m : rest[k] = drawn(k)
    BY <1>1
  <2> HIDE DEF rest, X
  <2>2. rest \in Seq(X) /\ Len(rest) = m
    BY <1>1, <2>1, SeqDef
  <2> QED
    BY <2>1, <2>2 DEF X
<1>3. P = first \o rest
  BY DEF Payments, CashPayment, DrawPayment
<1> HIDE DEF drawn, rest, m, P, cash
<1>4. CASE CashLines(v) = <<>>
  <2>1. P = rest /\ Offset(v) = 0
    BY <1>2, <1>3, <1>4 DEF Offset
  <2>2. DOMAIN P = 1..m /\ \A k \in 1..m : P[k] = drawn(k)
    BY <1>1, <1>2, <2>1
  <2>3. 0 + m = m /\ \A k \in 1..m : 0 + k = k
    BY <1>1
  <2>4. /\ DOMAIN P = 1..(Offset(v) + m) /\ Offset(v) # 1
        /\ \A k \in 1..m : P[Offset(v) + k] = drawn(k)
    BY <2>1, <2>2, <2>3
  <2> QED
    BY <2>4 DEF P, m, drawn
<1>5. CASE CashLines(v) # <<>>
  <2>1. P = <<cash>> \o rest /\ Offset(v) = 1
    BY <1>3, <1>5 DEF Offset
  <2>2. /\ DOMAIN P = 1..(1 + m) /\ P[1] = cash
        /\ \A k \in 1..m : P[1 + k] = drawn(k)
    BY <1>1, <1>2, <2>1
  <2>3. /\ DOMAIN P = 1..(Offset(v) + m) /\ P[1] = cash
        /\ \A k \in 1..m : P[Offset(v) + k] = drawn(k)
    BY <2>1, <2>2
  <2> QED
    BY <2>3 DEF P, m, drawn, cash
<1> QED
  BY <1>4, <1>5

(* What adds up over the payments: the one in cash and those of the draws. *)
LEMMA PaymentsSum ==
    ASSUME NEW v \in Vouchers, NEW p, NEW x \in Int, NEW f,
           IF Offset(v) = 1 THEN p[1] = x ELSE x = 0,
           \A k \in 1..Len(Draws[v]) : f[k] \in Int /\ p[Offset(v) + k] = f[k]
    PROVE  SumFunctionOnSet(p, DOMAIN Payments(v)) = x + SumFunctionOnSet(f, 1..Len(Draws[v]))
<1> DEFINE m == Len(Draws[v])
           S == 1..m
<1>1. m \in Nat /\ IsFiniteSet(S) /\ DOMAIN Payments(v) = 1..(Offset(v) + m)
  BY AllocationsAre, FS_Interval, PaymentsShape
<1>2. SumFunctionOnSet(f, S) \in Int
  BY <1>1, SumIsInt
<1>3. CASE Offset(v) = 0
  <2>1. DOMAIN Payments(v) = S /\ x = 0 /\ \A k \in S : p[k] = f[k]
    BY <1>1, <1>3
  <2> HIDE DEF S
  <2>2. SumFunctionOnSet(p, S) = SumFunctionOnSet(f, S)
    BY <1>1, <2>1, SumSame
  <2> QED
    BY <1>2, <2>1, <2>2 DEF S
<1>4. CASE Offset(v) = 1
  <2> DEFINE R == 2..(1+m)
             g == [k \in S |-> 1 + k]
  <2>1. DOMAIN Payments(v) = R \cup {1} /\ 1 \notin R /\ IsFiniteSet(R)
    <3>1. 1..(1+m) = R \cup {1} /\ 1 \notin R /\ 1 + m \in Int
      BY <1>1
    <3>2. IsFiniteSet(R)
      BY <3>1, FS_Interval
    <3> QED
      BY <1>1, <1>4, <3>1, <3>2
  <2>2. \A k \in S : g[k] \in R /\ g[k] = 1 + k /\ k \in Nat
    BY <1>1
  <2>3. \A y \in R : y - 1 \in S /\ 1 + (y - 1) = y
    BY <1>1
  <2>4. p[1] = x /\ \A k \in S : f[k] \in Int /\ p[1 + k] = f[k]
    BY <1>4
  <2> HIDE DEF R, g, S
  <2>5. \A k, l \in S : g[k] = g[l] => k = l
    BY <2>2
  <2>6. \A y \in R : \E k \in S : g[k] = y /\ p[y] = f[k]
    BY <2>2, <2>3, <2>4
  <2>7. SumFunctionOnSet(f, S) = SumFunctionOnSet(p, R)
    <3>1. /\ IsFiniteSet(S) /\ (\A k \in S : f[k] \in Int)
          /\ IsFiniteSet(R) /\ (\A k \in S : g[k] \in R)
      BY <1>1, <2>1, <2>2, <2>4
    <3> QED
      BY <2>5, <2>6, <3>1, SumMoved
  <2>8. \A y \in R \cup {1} : p[y] \in Int
    BY <2>4, <2>6
  <2>9. SumFunctionOnSet(p, R \cup {1}) = p[1] + SumFunctionOnSet(p, R)
    BY <2>1, <2>8, SumWith
  <2> QED
    BY <2>1, <2>4, <2>7, <2>9 DEF S
<1> QED
  BY <1>3, <1>4 DEF Offset

(* What the payments ask for: all that is paid in cash, and all the draws. *)
LEMMA PaymentsAdd ==
    ASSUME NEW v \in Vouchers
    PROVE  /\ \A k \in DOMAIN Payments(v) : PaymentAmounts(v)[k] \in Nat
           /\ Offset(v) = 1 => PaymentAmounts(v)[1] = LineTotal(CashLines(v))
           /\ \A k \in 1..Len(Draws[v]) :
                 PaymentAmounts(v)[Offset(v) + k] = Draws[v][k].amount
           /\ SumFunctionOnSet(PaymentAmounts(v), DOMAIN Payments(v))
                 = LineTotal(CashLines(v)) + LineTotal(Draws[v])
<1> DEFINE m == Len(Draws[v])
           p == PaymentAmounts(v)
           f == Amounts(Draws[v])
           x == LineTotal(CashLines(v))
           P == Payments(v)
           o == Offset(v)
<1>1. /\ m \in Nat /\ DOMAIN Draws[v] = 1..m
      /\ \A k \in 1..m : Draws[v][k].amount \in Nat
  BY AllocationsAre
<1>2. \A k \in DOMAIN P : p[k] = LineTotal(P[k].lines) /\ p[k] \in Nat
  BY PaymentsAre, AmountsAdd DEF PaymentAmounts
<1>3. DOMAIN f = 1..m /\ \A k \in 1..m : f[k] = Draws[v][k].amount /\ f[k] \in Nat
  BY <1>1 DEF Amounts
<1>4. x \in Nat /\ (o = 0 => x = 0) /\ o \in {0, 1}
  BY CashLinesAre, AmountsAdd DEF Offset
<1>5. /\ DOMAIN P = 1..(o + m) /\ (o = 1 => P[1] = CashPayment(v))
      /\ \A k \in 1..m : P[o + k] = DrawPayment(v, k)
  BY PaymentsShape
<1> HIDE DEF p, P, o, m, x, f
<1>6. o = 1 => p[1] = x
  <2> SUFFICES ASSUME o = 1 PROVE p[1] = x
    OBVIOUS
  <2>1. 1 \in DOMAIN P
    BY <1>1, <1>5
  <2> QED
    BY <1>2, <1>5, <2>1 DEF x, CashPayment
<1>7. ASSUME NEW k \in 1..m PROVE p[o + k] = f[k]
  <2>1. o + k \in DOMAIN P
    BY <1>1, <1>4, <1>5
  <2>2. LineTotal(DrawPayment(v, k).lines) = Draws[v][k].amount
    <3>1. LineTotal(<<[item |-> Draws[v][k].item, amount |-> Draws[v][k].amount]>>)
             = Draws[v][k].amount
      BY <1>1, OneLineTotal
    <3> QED
      BY <3>1 DEF DrawPayment
  <2> QED
    BY <1>2, <1>3, <1>5, <2>1, <2>2
<1>8. LineTotal(Draws[v]) = SumFunctionOnSet(f, 1..m)
  BY <1>3 DEF LineTotal, SumFunction, f
<1>9. SumFunctionOnSet(p, DOMAIN P) = x + SumFunctionOnSet(f, 1..m)
  <2>1. x \in Int /\ (IF Offset(v) = 1 THEN p[1] = x ELSE x = 0)
    BY <1>4, <1>6 DEF o
  <2>2. \A k \in 1..Len(Draws[v]) : f[k] \in Int /\ p[Offset(v) + k] = f[k]
    BY <1>3, <1>7 DEF o, m
  <2> QED
    BY <2>1, <2>2, PaymentsSum DEF P, m
<1> QED
  BY <1>2, <1>3, <1>6, <1>7, <1>8, <1>9 DEF p, P, o, m, x

(* A posted settlement takes at most what it was to pay, and under the     *)
(* rule that refuses nearly all of it.                                     *)
Shortfall(v) ==
    [k \in DOMAIN Payments(v) |-> Slack(Payments(v)[k].advance) * Len(Payments(v)[k].lines)]

LEMMA TakesItsPart ==
    ASSUME RInv, NEW v \in Vouchers, NEW s \in Settlements, NEW k \in DOMAIN Payments(v),
           settlement[s].status = "posted", IsPayment(settlement, s, v, k)
    PROVE  /\ settlement[s].total \in Nat /\ settlement[s].total <= PaymentAmounts(v)[k]
           /\ BlockOver => PaymentAmounts(v)[k] - settlement[s].total <= Shortfall(v)[k]
<1> DEFINE lines == settlement[s].lines
           asked == Payments(v)[k].lines
           n == Len(lines)
           f == [l \in DOMAIN lines |-> Size(lines[l].applied)]
           h == Amounts(lines)
<1>1. /\ lines \in Seq(LineRow) /\ Measured(settlement[s]) /\ settlement[s].total = Total(lines)
      /\ settlement[s] \in SettlementRow(Markers)
  <2>1. GoodState(Markers) /\ AllMeasured(settlement)
    BY DEF RInv
  <2>2. settlement[s] \in SettlementRow(Markers) /\ Books.settlement = settlement
        /\ SettlementSound(Books, s)
    BY <2>1, TablesAre DEF GoodState, Good, Sound
  <2> QED
    BY <2>1, <2>2 DEF SettlementRow, AllMeasured, SettlementSound
<1>2. /\ n \in Nat /\ DOMAIN lines = 1..n /\ IsFiniteSet(DOMAIN lines)
      /\ \A l \in DOMAIN lines : lines[l].applied \in Int
  BY <1>1, LinesAdd DEF LineRow
<1>3. asked \in Seq(AskedSome)
  BY PaymentsAre
<1>4. h = Amounts(asked)
  BY DEF IsPayment
<1>5. DOMAIN h = DOMAIN lines /\ \A l \in DOMAIN lines : h[l] = lines[l].amount
  BY DEF Amounts
<1>6. \A l \in DOMAIN lines : h[l] \in Nat
  <2>1. \A l \in DOMAIN asked : asked[l] \in AskedSome
    BY <1>3
  <2>2. DOMAIN asked = DOMAIN lines /\ \A l \in DOMAIN asked : h[l] = asked[l].amount
    BY <1>4, <1>5 DEF Amounts
  <2> QED
    BY <2>1, <2>2 DEF AskedSome
<1> DEFINE e == Slack(Payments(v)[k].advance)
           T == 1..n
<1>7. /\ \A l \in T : f[l] \in Nat /\ h[l] \in Int /\ f[l] <= h[l]
      /\ BlockOver => \A l \in T : h[l] - f[l] <= e
  <2>1. settlement[s].advance = Payments(v)[k].advance
    BY DEF IsPayment
  <2>2. \A l \in T : f[l] = Size(lines[l].applied) /\ f[l] \in Nat
    <3>1. \A x \in Int : Size(x) \in Nat
      BY DEF Size
    <3>2. \A l \in DOMAIN lines : f[l] = Size(lines[l].applied)
      OBVIOUS
    <3> HIDE DEF f
    <3> QED
      BY <1>2, <3>1, <3>2
  <2> HIDE DEF f, h
  <2>3. \A l \in T : f[l] <= h[l]
    <3>1. Size(0) = 0
      BY DEF Size
    <3> QED
      BY <1>1, <1>2, <1>5, <1>6, <2>2, <3>1 DEF Measured
  <2>4. BlockOver => \A l \in T : h[l] - f[l] <= e
    BY <1>1, <1>2, <1>5, <2>1, <2>2 DEF Measured
  <2> QED
    BY <1>2, <1>6, <2>2, <2>3, <2>4
<1>8. Total(lines) = SumFunctionOnSet(f, T)
  BY <1>2 DEF Total, SumFunction
<1>9. LineTotal(asked) = SumFunctionOnSet(h, T)
  BY <1>2, <1>4, <1>5 DEF LineTotal, SumFunction
<1>10. Len(asked) = n
  <2>1. DOMAIN h = 1..Len(asked) /\ Len(asked) \in Nat
    BY <1>3, <1>4 DEF Amounts
  <2>2. 1..Len(asked) = 1..n
    BY <1>2, <1>5, <2>1
  <2> HIDE DEF n
  <2>3. \A x \in Nat : x \in 1..Len(asked) <=> x \in 1..n
    BY <2>2
  <2> QED
    BY <1>2, <2>1, <2>3
<1>11. PaymentAmounts(v)[k] = LineTotal(asked) /\ Shortfall(v)[k] = e * n
  BY <1>10 DEF PaymentAmounts, Shortfall, asked
<1>12. e \in Int
  BY ReceivablesAssumption DEF Slack
<1> HIDE DEF f, h, lines, asked, n, e
<1>13. SumFunctionOnSet(f, T) \in Nat /\ SumFunctionOnSet(f, T) <= SumFunctionOnSet(h, T)
  <2>1. IsFiniteSet(T) /\ \A l \in T : f[l] \in Nat /\ f[l] \in Int /\ h[l] \in Int /\ f[l] <= h[l]
    BY <1>2, <1>7
  <2> HIDE DEF T
  <2> QED
    BY <2>1, SumAtMost, SumIsNatural
<1>14. BlockOver => SumFunctionOnSet(h, T) - SumFunctionOnSet(f, T) <= e * n
  <2> SUFFICES ASSUME BlockOver PROVE SumFunctionOnSet(h, T) - SumFunctionOnSet(f, T) <= e * n
    OBVIOUS
  <2>1. \A l \in 1..n : h[l] \in Int /\ f[l] \in Int /\ h[l] - f[l] <= e
    BY <1>7
  <2> QED
    BY <1>2, <1>12, <2>1, SumShort
<1> QED
  BY <1>1, <1>8, <1>9, <1>11, <1>13, <1>14

(* What a voucher's settlements apply, however they came to be.            *)
LEMMA AppliedAtMost ==
    ASSUME RInv, NEW v \in Vouchers
    PROVE  /\ Applied(v) \in Int
           /\ Applied(v) <= LineTotal(Allocations[v]) + TOL * Len(Allocations[v])
<1> DEFINE S == Standing(v)
           f == [s \in Settlements |-> settlement[s].total]
           L == voucher[v].links
<1>1. LinksOk(settlement, v, L) /\ AllHeld(settlement, v, L)
  BY DEF RInv, Vouched
<1>2. /\ S \subseteq Settlements /\ IsFiniteSet(S)
      /\ \A s \in S : settlement[s].marker = {v} /\ settlement[s].status = "posted"
  BY ReceivablesAssumption, FS_Subset DEF Standing
<1>3. Applied(v) = SumFunctionOnSet(f, S)
  BY DEF Applied
<1>4. LineTotal(Allocations[v]) \in Nat /\ Len(Allocations[v]) \in Nat /\ TOL \in Nat
  BY AllocatedIsNat, AllocationsAre, ReceivablesAssumption
<1>5. TOL * Len(Allocations[v]) \in Nat
  BY <1>4
<1> HIDE DEF S, L
<1>6. CASE S = {}
  <2>1. SumFunctionOnSet(f, S) = 0
    BY <1>6, SumOfNone
  <2> HIDE DEF f
  <2> QED
    BY <1>3, <1>4, <1>5, <2>1
<1>7. CASE S # {}
  <2> DEFINE g == [s \in S |-> CHOOSE k \in DOMAIN Payments(v) : s \in L[k]]
  <2>1. ASSUME NEW s \in S
        PROVE  g[s] \in DOMAIN Payments(v) /\ s \in L[g[s]]
    <3>1. \E k \in DOMAIN Payments(v) : s \in L[k]
      BY <1>1, <1>2 DEF AllHeld, InForce
    <3> QED
      BY <3>1
  <2> HIDE DEF g
  <2>2. DrawsFit(v)
    BY <1>1, <1>7, <2>1 DEF LinksOk
  <2>3. ASSUME NEW s \in S
        PROVE  f[s] \in Int /\ f[s] <= PaymentAmounts(v)[g[s]]
    <3>1. IsPayment(settlement, s, v, g[s])
      BY <1>1, <2>1 DEF LinksOk
    <3>2. f[s] = settlement[s].total
      BY <1>2
    <3> QED
      BY <1>2, <2>1, <3>1, <3>2, TakesItsPart
  <2>4. ASSUME NEW s \in S, NEW t \in S, g[s] = g[t] PROVE s = t
    <3>1. Linked(L[g[s]]) /\ s \in L[g[s]] /\ t \in L[g[s]]
      BY <1>1, <2>1, <2>4 DEF LinksOk
    <3> QED
      BY <3>1 DEF Linked
  <2> DEFINE R == DOMAIN Payments(v)
             h == PaymentAmounts(v)
  <2>5. IsFiniteSet(R) /\ (\A k \in R : h[k] \in Nat)
        /\ SumFunctionOnSet(h, R) = LineTotal(CashLines(v)) + LineTotal(Draws[v])
    BY PaymentsAre, PaymentsAdd, FS_Interval
  <2> HIDE DEF R, h, f
  <2>6. SumFunctionOnSet(f, S) <= SumFunctionOnSet(h, R)
    <3>1. \A s \in S : g[s] \in R /\ f[s] \in Int /\ f[s] <= h[g[s]]
      BY <2>1, <2>3 DEF R, h
    <3>2. \A s, t \in S : g[s] = g[t] => s = t
      BY <2>4
    <3> QED
      BY <1>2, <2>5, <3>1, <3>2, SumInto
  <2>7. LineTotal(CashLines(v)) + LineTotal(Draws[v])
           <= LineTotal(Allocations[v]) + TOL * Len(Allocations[v])
    BY <2>2, CashAndDraws
  <2>8. SumFunctionOnSet(f, S) \in Int /\ SumFunctionOnSet(h, R) \in Int
    <3>1. (\A s \in S : f[s] \in Int) /\ \A k \in R : h[k] \in Int
      BY <2>3, <2>5
    <3> QED
      BY <1>2, <2>5, <3>1, SumIsInt
  <2> DEFINE x == SumFunctionOnSet(f, S)
             y == SumFunctionOnSet(h, R)
             z == LineTotal(Allocations[v]) + TOL * Len(Allocations[v])
  <2>9. x \in Int /\ y \in Int /\ z \in Int /\ x <= y /\ y <= z
    BY <1>4, <1>5, <2>5, <2>6, <2>7, <2>8
  <2> HIDE DEF x, y, z
  <2>10. x <= z
    BY <2>9
  <2> QED
    BY <1>3, <2>9, <2>10 DEF x, z
<1> QED
  BY <1>6, <1>7

(* What a voucher's settlements take off the bills is never more than what *)
(* it allocates to them, but for a paisa a line: not after retries, not    *)
(* after a stalled confirmation, not after settlements cancelled by hand   *)
(* (post_voucher, _unpost_voucher of receipt_voucher_service.py).          *)
THEOREM AppliedOnce == ReceiptsSpec => []NeverAppliedTwice
<1>1. RInv => NeverAppliedTwice
  BY AppliedAtMost DEF NeverAppliedTwice
<1> QED
  BY <1>1, RInvHolds, PTL
-----------------------------------------------------------------------------
(* What a posted voucher, none of whose settlements was cancelled, applies *)
(* falls short of its payments by the tolerances of their lines only.      *)
LEMMA AppliedAtLeast ==
    ASSUME RInv, BlockOver, NEW v \in Vouchers, Intact(v)
    PROVE  LineTotal(CashLines(v)) + LineTotal(Draws[v]) - Applied(v)
              <= TOL * Len(CashLines(v)) + (TOL + TOL) * Len(Draws[v])
<1> DEFINE P == DOMAIN Payments(v)
           S == Standing(v)
           L == voucher[v].links
           f == [s \in Settlements |-> settlement[s].total]
           pa == PaymentAmounts(v)
           sf == Shortfall(v)
           g == [k \in P |-> pa[k] - sf[k]]
           made == [k \in P |-> CHOOSE s : s \in L[k]]
           m == Len(Draws[v])
           c == Len(CashLines(v))
           C == LineTotal(CashLines(v))
           TOL2 == TOL + TOL
           x == C - TOL * c
           am == Amounts(Draws[v])
           d == [k \in 1..m |-> am[k] - TOL2]
<1>1. /\ LinksOk(settlement, v, L) /\ AllHeld(settlement, v, L)
      /\ (\A k \in P : L[k] # {}) /\ DOMAIN L = P
  BY DEF RInv, Vouched, LinksOk, Checked, Intact
<1>2. ASSUME NEW k \in P
      PROVE  /\ made[k] \in S /\ made[k] \in L[k] /\ made[k] \in Settlements
             /\ settlement[made[k]].status = "posted" /\ IsPayment(settlement, made[k], v, k)
  <2>1. made[k] \in L[k]
    BY <1>1
  <2> HIDE DEF made
  <2>2. made[k] \in S
    BY <1>1, <2>1 DEF Intact
  <2> QED
    BY <1>1, <2>1, <2>2 DEF Standing, LinksOk
<1>3. IsFiniteSet(P) /\ IsFiniteSet(S) /\ S \subseteq Settlements
  BY PaymentsAre, ReceivablesAssumption, FS_Interval, FS_Subset DEF Standing
<1>4. /\ m \in Nat /\ c \in Nat /\ C \in Nat /\ TOL \in Nat
      /\ DOMAIN Draws[v] = 1..m /\ \A k \in 1..m : Draws[v][k].amount \in Nat
  <2>1. CashLines(v) \in Seq(AskedSome)
    BY CashLinesAre
  <2> QED
    BY <2>1, AllocationsAre, AmountsAdd, ReceivablesAssumption
<1>5. TOL * c \in Int /\ TOL2 \in Int /\ TOL2 * m \in Int /\ x \in Int
  BY <1>4
<1> HIDE DEF made
<1>6. ASSUME NEW k \in P
      PROVE  g[k] \in Int /\ f[made[k]] \in Nat /\ g[k] <= f[made[k]]
  <2>1. /\ settlement[made[k]].total \in Nat
        /\ pa[k] - settlement[made[k]].total <= sf[k]
    BY <1>2, TakesItsPart
  <2>2. pa[k] \in Nat
    BY PaymentsAdd
  <2>3. sf[k] \in Int
    <3>1. Slack(Payments(v)[k].advance) \in Int
      BY ReceivablesAssumption DEF Slack
    <3>2. Len(Payments(v)[k].lines) \in Int
      <4>1. Payments(v)[k].lines \in Seq(AskedSome)
        BY PaymentsAre
      <4> QED
        BY <4>1
    <3> QED
      BY <3>1, <3>2 DEF Shortfall
  <2>4. g[k] = pa[k] - sf[k] /\ f[made[k]] = settlement[made[k]].total
    BY <1>2
  <2> HIDE DEF pa, sf, g, f
  <2> QED
    BY <2>1, <2>2, <2>3, <2>4
<1>7. SumFunctionOnSet(g, P) <= SumFunctionOnSet(f, S)
  <2>1. ASSUME NEW j \in P, NEW k \in P, made[j] = made[k] PROVE j = k
    BY <1>1, <1>2, <2>1 DEF LinksOk
  <2>2. ASSUME NEW s \in S PROVE f[s] \in Nat
    <3>1. PICK k \in P : s \in L[k]
      BY <1>1 DEF AllHeld, Standing, InForce
    <3>2. s = made[k]
      BY <1>1, <1>2, <3>1 DEF LinksOk, Linked
    <3> QED
      BY <1>6, <3>2
  <2>3. \A k \in P : g[k] \in Int /\ made[k] \in S /\ g[k] <= f[made[k]]
    BY <1>2, <1>6
  <2> HIDE DEF P, S, f, g
  <2> QED
    BY <1>3, <2>1, <2>2, <2>3, SumInto
<1>8. SumFunctionOnSet(g, P) = x + SumFunctionOnSet(d, 1..m)
  <2> DEFINE o == Offset(v)
  <2>1. /\ P = 1..(o + m) /\ o \in {0, 1}
        /\ o = 1 => Payments(v)[1] = CashPayment(v)
        /\ \A k \in 1..m : Payments(v)[o + k] = DrawPayment(v, k)
    BY PaymentsShape DEF Offset
  <2>2. /\ o = 1 => pa[1] = C
        /\ \A k \in 1..m : pa[o + k] = Draws[v][k].amount
    BY PaymentsAdd
  <2>3. o = 0 => x = 0
    <3> SUFFICES ASSUME o = 0 PROVE x = 0
      OBVIOUS
    <3>1. CashLines(v) = <<>>
      BY DEF Offset
    <3>2. c = 0 /\ C = 0
      BY <3>1, CashLinesAre, AmountsAdd
    <3> QED
      BY <1>4, <3>2
  <2>4. /\ CashPayment(v).advance = {} /\ CashPayment(v).lines = CashLines(v)
        /\ \A k \in 1..m : DrawPayment(v, k).advance # {} /\ Len(DrawPayment(v, k).lines) = 1
    BY DEF CashPayment, DrawPayment
  <2>5. o = 1 => g[1] = x
    <3> SUFFICES ASSUME o = 1 PROVE g[1] = x
      OBVIOUS
    <3>1. 1 \in P
      BY <1>4, <2>1
    <3>2. sf[1] = TOL * c
      BY <2>1, <2>4, <3>1 DEF Shortfall, Slack
    <3>3. g[1] = pa[1] - sf[1]
      BY <3>1
    <3> HIDE DEF g, pa, sf
    <3> QED
      BY <2>2, <3>2, <3>3
  <2>6. ASSUME NEW k \in 1..m PROVE d[k] \in Int /\ g[o + k] = d[k]
    <3>1. o + k \in P
      BY <1>4, <2>1
    <3>2. sf[o + k] = TOL2 * 1
      BY <2>1, <2>4, <3>1 DEF Shortfall, Slack
    <3>3. g[o + k] = pa[o + k] - sf[o + k]
      BY <3>1
    <3>4. d[k] = Draws[v][k].amount - TOL2
      BY <1>4 DEF Amounts
    <3> HIDE DEF g, pa, sf, d, TOL2, o
    <3> QED
      BY <1>4, <1>5, <2>2, <3>2, <3>3, <3>4
  <2> HIDE DEF g, d, x, P, pa, sf
  <2>7. SumFunctionOnSet(g, DOMAIN Payments(v)) = x + SumFunctionOnSet(d, 1..Len(Draws[v]))
    <3>1. x \in Int /\ (IF Offset(v) = 1 THEN g[1] = x ELSE x = 0)
      BY <1>5, <2>1, <2>3, <2>5
    <3>2. \A k \in 1..Len(Draws[v]) : d[k] \in Int /\ g[Offset(v) + k] = d[k]
      BY <2>6
    <3> QED
      BY <3>1, <3>2, PaymentsSum
  <2> QED
    BY <2>7 DEF P
<1>9. /\ SumFunctionOnSet(am, 1..m) - SumFunctionOnSet(d, 1..m) <= TOL2 * m
      /\ SumFunctionOnSet(am, 1..m) \in Int /\ SumFunctionOnSet(d, 1..m) \in Int
  <2>1. \A k \in 1..m : am[k] \in Nat /\ d[k] = am[k] - TOL2
    BY <1>4 DEF Amounts
  <2> HIDE DEF am, d, TOL2, m
  <2>2. \A k \in 1..m : am[k] \in Int /\ d[k] \in Int /\ am[k] - d[k] <= TOL2
    BY <1>5, <2>1
  <2> QED
    BY <1>4, <1>5, <2>2, SumShort
<1>10. LineTotal(Draws[v]) = SumFunctionOnSet(am, 1..m)
  BY <1>4 DEF LineTotal, SumFunction, Amounts
<1>11. Applied(v) = SumFunctionOnSet(f, S) /\ Applied(v) \in Int
  BY AppliedAtMost DEF Applied
<1> DEFINE D == SumFunctionOnSet(am, 1..m)
           E == SumFunctionOnSet(d, 1..m)
           A == Applied(v)
           tc == TOL * c
           td == TOL2 * m
<1>12. /\ D \in Int /\ E \in Int /\ A \in Int /\ tc \in Int /\ td \in Int /\ C \in Int
       /\ x = C - tc /\ D - E <= td /\ x + E <= A
  <2>1. x = C - tc
    OBVIOUS
  <2> HIDE DEF x, g, f, d, am, TOL2, m, c, S, P
  <2>2. x + E <= A
    BY <1>7, <1>8, <1>11
  <2> QED
    BY <1>4, <1>5, <1>9, <1>11, <2>1, <2>2
<1> HIDE DEF D, E, A, tc, td, C, x
<1>13. C + D - A <= tc + td
  BY <1>12
<1> QED
  BY <1>10, <1>13 DEF D, A, tc, td, C

(* What the subledger holds for such a voucher is what it received or drew *)
(* from advances.                                                          *)
LEMMA ReceiptBooked ==
    ASSUME RInv, BlockOver, NEW v \in Vouchers, Intact(v)
    PROVE  /\ Support(v) - Distributed(v) <= TOL * (1 + Len(CashLines(v)) + 2 * Len(Draws[v]))
           /\ v \notin OnAccount \/ Allocations[v] = <<>> =>
                 Distributed(v) - Support(v) <= TOL * (1 + Len(Allocations[v]))
<1> DEFINE A == LineTotal(Allocations[v])
           D == LineTotal(Draws[v])
           C == LineTotal(CashLines(v))
           P == Applied(v)
           S == Support(v)
           O == advance[OwnAdvance[v]].original
           R == Residual(v)
           K == Cash[v]
           n == Len(Allocations[v])
           c == Len(CashLines(v))
           m == Len(Draws[v])
           tn == TOL * n
           tc == TOL * c
           td == (TOL + TOL) * m
           gap == S - A - D
<1>1. /\ n \in Nat /\ m \in Nat /\ c \in Nat /\ TOL \in Nat /\ K \in Nat
      /\ A \in Nat /\ D \in Nat /\ C \in Nat /\ P \in Int
  <2>1. CashLines(v) \in Seq(AskedSome)
    BY CashLinesAre
  <2>2. C \in Nat /\ c \in Nat
    BY <2>1, AmountsAdd
  <2> QED
    BY <2>2, AllocationsAre, AllocatedIsNat, AppliedAtMost, ReceiptsAssumption,
       ReceivablesAssumption
<1>2. tn \in Nat /\ tc \in Nat /\ td \in Nat
  <2> HIDE DEF n, c, m
  <2> QED
    BY <1>1
<1>3. /\ TOL * (1 + c + 2 * m) = TOL + tc + td
      /\ TOL * (1 + n) = TOL + tn
  <2> HIDE DEF n, c, m
  <2> QED
    BY <1>1
<1>4. ValidAmounts(v) /\ DrawsFit(v) /\ (R > 0 => advance[OwnAdvance[v]].exists)
  BY DEF RInv, Checked, Intact
<1>5. O = R /\ R \in Nat
  <2>1. R \in Nat /\ OwnAdvance[v] \in Advances
    BY ResidualIs, ReceiptsAssumption
  <2>2. advance[OwnAdvance[v]].exists => O = R
    BY DEF RInv, OwnFits
  <2>3. ~advance[OwnAdvance[v]].exists => O = 0
    <3>1. AdvanceSound(Books.advance[OwnAdvance[v]]) /\ Books.advance = advance
      BY <2>1, TablesAre DEF RInv, GoodState, Good, Sound
    <3> QED
      BY <3>1 DEF AdvanceSound
  <2> HIDE DEF O, R
  <2> QED
    BY <1>4, <2>1, <2>2, <2>3
<1>6. S = K + D
  BY DEF Support
<1>7. Distributed(v) = O + P
  BY DEF Distributed
<1>8. P <= A + tn /\ A <= C + D /\ C + D - P <= tc + td
  BY <1>4, AppliedAtMost, AppliedAtLeast, CashAndDraws
<1>9. gap \in Int /\ R = IF v \in OnAccount THEN K ELSE IF 0 >= gap THEN 0 ELSE gap
  <2>1. gap \in Int
    BY <1>1, <1>6
  <2> HIDE DEF gap
  <2>2. Max({0, gap}) = IF 0 >= gap THEN 0 ELSE gap
    BY <2>1, MaxOfTwo
  <2> QED
    BY <2>1, <2>2 DEF Residual, gap
<1>10. CASE Allocations[v] # <<>>
  <2>1. Size(S - A) <= TOL
    BY <1>4, <1>10 DEF ValidAmounts
  <2> HIDE DEF A, D, C, P, O, R, K, n, c, m, tn, tc, td, S
  <2>2. S - A <= TOL /\ A - S <= TOL /\ S \in Int
    BY <1>1, <1>6, <2>1 DEF Size
  <2>3. S - (O + P) <= TOL + tc + td
    BY <1>1, <1>2, <1>5, <1>8, <2>2
  <2>4. v \notin OnAccount => (O + P) - S <= TOL + tn
    <3> SUFFICES ASSUME v \notin OnAccount PROVE (O + P) - S <= TOL + tn
      OBVIOUS
    <3>1. O = IF 0 >= gap THEN 0 ELSE gap
      BY <1>5, <1>9
    <3>2. CASE 0 >= gap
      BY <1>1, <1>2, <1>8, <2>2, <3>1, <3>2
    <3>3. CASE ~(0 >= gap)
      BY <1>1, <1>2, <1>8, <2>2, <3>1, <3>3
    <3> QED
      BY <3>2, <3>3
  <2> QED
    BY <1>3, <1>7, <1>10, <2>3, <2>4 DEF S, O, P, n, c, m
<1>11. CASE Allocations[v] = <<>>
  <2>1. v \in OnAccount
    BY <1>4, <1>11 DEF ValidAmounts
  <2>2. A = 0 /\ n = 0
    BY <1>11, CashLinesAre, AmountsAdd
  <2>3. D = 0
    <3>1. DOMAIN Draws[v] = {}
      BY <1>4, <1>11 DEF DrawsFit
    <3>2. DOMAIN Amounts(Draws[v]) = {}
      BY <3>1 DEF Amounts
    <3> QED
      BY <3>2, SumOfNone DEF LineTotal, SumFunction
  <2>4. tn = 0
    BY <1>1, <2>2
  <2> HIDE DEF A, D, C, P, O, R, K, n, c, m, tn, tc, td, S, gap
  <2>5. O = K
    BY <1>5, <1>9, <2>1
  <2>6. S - (O + P) <= TOL + tc + td /\ (O + P) - S <= TOL + tn
    BY <1>1, <1>2, <1>6, <1>8, <2>2, <2>3, <2>4, <2>5
  <2> QED
    BY <1>3, <1>7, <2>6 DEF S, O, P, n, c, m
<1> QED
  BY <1>10, <1>11

(* No rupee of a posted receipt is lost, and none counts twice: as long as *)
(* nobody cancels its settlements by hand, what post_voucher left in the   *)
(* subledger (settlements, and an advance for the rest) is what the        *)
(* receipt received or drew from advances, but for the paisa that each     *)
(* check lets pass.  This is so where a settlement of more than a bill     *)
(* owes is refused (over_settlement_rule = "block"); where it is clipped   *)
(* instead, what is clipped is in no table.                                *)
THEOREM ReceiptsAccountedFor ==
    ASSUME BlockOver
    PROVE  ReceiptsSpec => []ReceiptAccountedFor
<1>1. RInv => ReceiptAccountedFor
  BY ReceiptBooked DEF ReceiptAccountedFor
<1> QED
  BY <1>1, RInvHolds, PTL
=============================================================================
