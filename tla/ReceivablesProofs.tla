------------------------- MODULE ReceivablesProofs -------------------------
(***************************************************************************)
(* Proofs about Receivables, for any documents, advances, settlements and  *)
(* amounts.  What the properties say of the tables is said here of any     *)
(* value b of them (Books), so that one lemma about what post_settlement   *)
(* or cancel_settlement makes of b serves every call that uses it.         *)
(***************************************************************************)
EXTENDS Receivables, SumTheorems, SequenceTheorems

BooksRow(M) == [header : [Items -> HeaderRow], item : [Items -> ItemRow],
                advance : [Advances -> AdvanceRow],
                settlement : [Settlements -> SettlementRow(M)]]

Posted(b)       == {s \in Settlements : b.settlement[s].status = "posted"}
Drawing(b, a)   == {s \in Settlements : /\ b.settlement[s].status = "posted"
                                        /\ a \in b.settlement[s].advance}
AppliedTo(b, i) == SumFunctionOnSet([s \in Settlements |-> SumOn(b.settlement[s].lines, i)],
                                    Posted(b))
DrawnFrom(b, a) == SumFunctionOnSet([s \in Settlements |-> b.settlement[s].total],
                                    Drawing(b, a))

(* An open item owes more than the tolerance, a closed one shows nothing.  *)
ItemSound(it) ==
    /\ it.outstanding = IF it.open THEN it.original - it.settled ELSE 0
    /\ it.open => Size(it.original - it.settled) > TOL

(* An advance offers no more than has not been adjusted.                   *)
AdvanceSound(adv) ==
    /\ 0 <= adv.outstanding /\ adv.outstanding <= adv.original - adv.adjusted
    /\ ~adv.exists => adv.original = 0

SettlementSound(b, s) ==
    /\ b.settlement[s].status = "posted" =>
          b.settlement[s].total = Total(b.settlement[s].lines)
    /\ \A a \in b.settlement[s].advance : b.advance[a].exists

(* The item of a posted document is not closed by a reversal.              *)
PostedSound(b, i) ==
    b.header[i].status = "posted" /\ ~b.item[i].open
        => Size(b.item[i].original - b.item[i].settled) <= TOL

(* The item of a posted document is of what the document is worth.         *)
Worth(b, i) ==
    b.header[i].status = "posted" => b.item[i].original = Net(b.header[i], i)

Sound(b) ==
    /\ \A i \in Items : b.item[i].settled = AppliedTo(b, i) /\ ItemSound(b.item[i])
    /\ \A a \in Advances : b.advance[a].adjusted = DrawnFrom(b, a) /\ AdvanceSound(b.advance[a])
    /\ \A s \in Settlements : SettlementSound(b, s)

(* What a document may be worth is known, also to a request under way.     *)
PricedReads ==
    \A i \in Items : /\ \A h \in editing[i] : h.amount \in Gross[i]
                     /\ \A net \in repairing[i] : \E g \in Gross[i] : net = DocSign(i) * g
Priced == (\A i \in Items : header[i].amount \in Gross[i]) /\ PricedReads

Mirrored(b, i) ==
    b.header[i].status = "posted" => /\ b.header[i].settled = b.item[i].settled
                                     /\ b.header[i].outstanding = b.item[i].outstanding

(* What is true of the row i of b stays true of it in c.                   *)
Follows(b, c, i) == /\ Worth(b, i) => Worth(c, i)
                    /\ Mirrored(b, i) => Mirrored(c, i)

(* The document i has one price, and is settled from nothing towards it.   *)
HasOnePrice(i) == \A x, y \in Gross[i] : x = y

OneLineEach(lines) == \A j, k \in DOMAIN lines : lines[j].item = lines[k].item => j = k

Towards(b, i) ==
    /\ 0 <= DocSign(i) * b.item[i].settled
    /\ DocSign(i) * b.item[i].settled <= DocSign(i) * b.item[i].original
    /\ b.item[i].original \in {0} \cup {DocSign(i) * g : g \in Gross[i]}
    /\ \A s \in Settlements : \A k \in DOMAIN b.settlement[s].lines :
          b.settlement[s].lines[k].item = i => 0 <= DocSign(i) * b.settlement[s].lines[k].applied

Distinct(b) == \A s \in Settlements : OneLineEach(b.settlement[s].lines)

Marked(b) == \A s \in Settlements :
    b.settlement[s].marker # {} =>
        /\ b.settlement[s].status \in {"posted", "cancelled"}
        /\ \A i, j \in Items : i \in b.settlement[s].marker /\ j \in Original[i] =>
            NetsOut(SumOn(b.settlement[s].lines, j), -SumOn(b.settlement[s].lines, i))

-----------------------------------------------------------------------------
(* Lines and what they add up to.                                          *)
LEMMA LinesAdd ==
    ASSUME NEW lines \in Seq(LineRow)
    PROVE  /\ DOMAIN lines = 1..Len(lines) /\ Len(lines) \in Nat /\ IsFiniteSet(DOMAIN lines)
           /\ \A k \in DOMAIN lines : lines[k] \in LineRow
           /\ \A i : SumOn(lines, i) \in Int
           /\ Total(lines) \in Nat
<1>1. /\ DOMAIN lines = 1..Len(lines) /\ Len(lines) \in Nat
      /\ \A k \in DOMAIN lines : lines[k] \in LineRow
  OBVIOUS
<1>2. IsFiniteSet(DOMAIN lines)
  BY <1>1, FS_Interval
<1>3. ASSUME NEW i PROVE SumOn(lines, i) \in Int
  <2> DEFINE f == [k \in DOMAIN lines |-> lines[k].applied]
             K == {k \in DOMAIN lines : lines[k].item = i}
  <2>1. IsFiniteSet(K)
    BY <1>2, FS_Subset
  <2>2. \A k \in K : f[k] \in Int
    BY <1>1 DEF LineRow
  <2> HIDE DEF f, K
  <2>3. SumFunctionOnSet(f, K) \in Int
    BY <2>1, <2>2, SumIsInt
  <2> QED
    BY <2>3 DEF SumOn, f, K
<1>4. Total(lines) \in Nat
  <2> DEFINE f == [k \in DOMAIN lines |-> Size(lines[k].applied)]
  <2>1. DOMAIN f = DOMAIN lines /\ \A k \in DOMAIN lines : f[k] \in Nat
    BY <1>1 DEF LineRow, Size
  <2> HIDE DEF f
  <2>2. SumFunctionOnSet(f, DOMAIN lines) \in Nat
    BY <1>2, <2>1, SumIsNatural
  <2> QED
    BY <2>1, <2>2 DEF Total, SumFunction, f
<1> QED
  BY <1>1, <1>2, <1>3, <1>4

\* What is left of an advance: nothing to draw from, or an amount.
Left == {{}} \cup {{l} : l \in Int}

(* What a line takes: nothing from a settled item, else no more than it    *)
(* asks for, the item owes and the advance has.                            *)
LEMMA TakeBounds ==
    ASSUME NEW it \in ItemRow, NEW ln, ln.amount \in Int, NEW left \in Left
    PROVE  /\ Take(it, ln, left) \in Nat /\ Take(it, ln, left) <= Size(it.outstanding)
           /\ ~Live(it) => Take(it, ln, left) = 0
           /\ \A l \in left : 0 <= l => Take(it, ln, left) <= l
           /\ Live(it) /\ left = {} /\ ln.amount \in 0..Size(it.outstanding)
                => Take(it, ln, left) = ln.amount
<1> DEFINE size == Size(it.outstanding)
           wanted == Wanted(it, ln)
<1>1. size \in Nat
  BY DEF Size, ItemRow
<1>2. wanted = IF ln.amount <= size THEN ln.amount ELSE size
  BY <1>1, MinOfTwo DEF Wanted
<1>3. wanted \in Int /\ wanted <= size
  BY <1>1, <1>2
<1> HIDE DEF size, wanted
<1>4. \A x \in Int : Max({0, x}) = IF 0 >= x THEN 0 ELSE x
  BY MaxOfTwo
<1>5. CASE left = {}
  <2>1. {wanted} \cup left = {wanted, wanted}
    BY <1>5
  <2>2. Min({wanted} \cup left) = wanted
    BY <1>3, <2>1, MinOfTwo
  <2>3. Take(it, ln, left) = IF Live(it) THEN IF 0 >= wanted THEN 0 ELSE wanted ELSE 0
    BY <1>3, <1>4, <2>2 DEF Take, wanted
  <2> QED
    BY <1>1, <1>2, <1>3, <1>5, <2>3 DEF size
<1>6. CASE left # {}
  <2>1. PICK l \in Int : left = {l}
    BY <1>6 DEF Left
  <2>2. {wanted} \cup left = {wanted, l}
    BY <2>1
  <2>3. Min({wanted} \cup left) = IF wanted <= l THEN wanted ELSE l
    BY <1>3, <2>1, <2>2, MinOfTwo
  <2> DEFINE m == IF wanted <= l THEN wanted ELSE l
  <2>4. Take(it, ln, left) = IF Live(it) THEN IF 0 >= m THEN 0 ELSE m ELSE 0
    BY <1>3, <1>4, <2>1, <2>3 DEF Take, wanted
  <2> QED
    BY <1>1, <1>3, <1>6, <2>1, <2>4 DEF size
<1> QED
  BY <1>5, <1>6
-----------------------------------------------------------------------------
LEMMA OneAdvance ==
    ASSUME NEW M, NEW row \in SettlementRow(M)
    PROVE  row.advance = {} \/ \E a \in Advances : row.advance = {a}
<1>1. row.advance \in {{}} \cup {{a} : a \in Advances}
  BY DEF SettlementRow
<1> QED
  BY <1>1

(* What is left of the advance after each line is defined, line by line.   *)
LEMMA AdvanceLeftIs ==
    ASSUME NEW M, NEW b \in BooksRow(M), NEW s \in Settlements
    PROVE  LET lines == b.settlement[s].lines
               left == AdvanceLeft(b, s)
           IN  /\ left[0] = {b.advance[a].outstanding : a \in b.settlement[s].advance}
               /\ \A k \in 0..Len(lines) : left[k] \in Left
               /\ \A k \in 1..Len(lines) :
                     left[k] = {l - Take(b.item[lines[k].item], lines[k], left[k-1])
                                   : l \in left[k-1]}
<1> DEFINE lines == b.settlement[s].lines
           n == Len(lines)
           first == {b.advance[a].outstanding : a \in b.settlement[s].advance}
           next(k, w) == {l - Take(b.item[lines[k].item], lines[k], w) : l \in w}
           step == [k \in 1..n |-> [w \in Left |-> next(k, w)]]
<1>1. n \in Nat /\ DOMAIN lines = 1..n /\ \A k \in 1..n : lines[k] \in LineRow
  BY DEF BooksRow, SettlementRow
<1>2. first \in Left
  <2>1. b.settlement[s].advance = {} \/ \E a \in Advances : b.settlement[s].advance = {a}
    BY OneAdvance DEF BooksRow
  <2>2. CASE b.settlement[s].advance = {}
    <3>1. first = {}
      BY <2>2
    <3> QED
      BY <3>1 DEF Left
  <2>3. ASSUME NEW a \in Advances, b.settlement[s].advance = {a} PROVE first \in Left
    <3>1. first = {b.advance[a].outstanding} /\ b.advance[a].outstanding \in Int
      BY <2>3 DEF BooksRow, AdvanceRow
    <3> HIDE DEF first
    <3> QED
      BY <3>1 DEF Left
  <2> QED
    BY <2>1, <2>2, <2>3
<1>3. ASSUME NEW k \in 1..n, NEW w \in Left PROVE next(k, w) \in Left
  <2>1. lines[k].amount \in Int /\ b.item[lines[k].item] \in ItemRow
    BY <1>1 DEF LineRow, BooksRow
  <2> DEFINE t == Take(b.item[lines[k].item], lines[k], w)
  <2>2. t \in Int
    BY <2>1, TakeBounds
  <2> HIDE DEF t
  <2>3. w = {} \/ \E l \in Int : w = {l}
    BY DEF Left
  <2>4. {l - t : l \in w} \in Left
    <3>1. CASE w = {}
      <4>1. {l - t : l \in w} = {}
        BY <3>1
      <4> QED
        BY <4>1 DEF Left
    <3>2. ASSUME NEW l0 \in Int, w = {l0} PROVE {l - t : l \in w} \in Left
      <4>1. {l - t : l \in w} = {l0 - t} /\ l0 - t \in Int
        BY <2>2, <3>2
      <4> QED
        BY <4>1 DEF Left
    <3> QED
      BY <2>3, <3>1, <3>2
  <2> QED
    BY <2>4 DEF t
<1> HIDE DEF n, first, next
<1>4. PICK g \in Loops(n, Left, first, step) : TRUE
  <2>1. \A k \in 1..n : \A w \in Left : step[k][w] \in Left
    BY <1>3
  <2> HIDE DEF step
  <2> QED
    BY <1>1, <1>2, <2>1, LoopExists
<1>5. g = [k \in 0..n |-> IF k = 0 THEN first ELSE next(k, g[k-1])]
  <2>1. ASSUME NEW k \in 0..n
        PROVE  (IF k = 0 THEN first ELSE step[k][g[k-1]])
                  = (IF k = 0 THEN first ELSE next(k, g[k-1]))
    <3>1. k # 0 => k \in 1..n /\ k - 1 \in 0..n
      BY <1>1
    <3>2. g \in [0..n -> Left]
      BY <1>4 DEF Loops
    <3> QED
      BY <3>1, <3>2
  <2> HIDE DEF step
  <2> QED
    BY <1>4, <2>1 DEF Loops
<1>6. AdvanceLeft(b, s)
        = CHOOSE left : left = [k \in 0..n |-> IF k = 0 THEN first ELSE next(k, left[k-1])]
  BY DEF AdvanceLeft, lines, n, first, next
<1> DEFINE left == AdvanceLeft(b, s)
<1>7. left = [k \in 0..n |-> IF k = 0 THEN first ELSE next(k, left[k-1])]
  BY <1>5, <1>6
<1> HIDE DEF left
<1>8. left[0] = first /\ \A k \in 1..n : left[k] = next(k, left[k-1])
  <2>1. \A k \in 0..n : left[k] = IF k = 0 THEN first ELSE next(k, left[k-1])
    BY <1>7
  <2>2. 0 \in 0..n /\ \A k \in 1..n : k \in 0..n /\ k # 0
    BY <1>1
  <2> QED
    BY <2>1, <2>2
<1>9. \A k \in 0..n : left[k] \in Left
  BY <1>1, <1>2, <1>3, <1>8, LoopTyped
<1> QED
  BY <1>8, <1>9 DEF left, n, first, next

(* What post_settlement writes on the lines: each takes what TakeBounds    *)
(* says, in the direction of what its item owes.                           *)
LEMMA AppliedLinesAre ==
    ASSUME NEW M, NEW b \in BooksRow(M), NEW s \in Settlements
    PROVE  LET lines == b.settlement[s].lines
               app   == AppliedLines(b, s)
               at(k) == b.item[lines[k].item]
               take(k) == Take(at(k), lines[k], AdvanceLeft(b, s)[k-1])
           IN  /\ app \in Seq(LineRow) /\ Len(app) = Len(lines) /\ DOMAIN app = DOMAIN lines
               /\ \A k \in DOMAIN lines :
                     /\ app[k].item = lines[k].item /\ app[k].amount = lines[k].amount
                     /\ take(k) \in Nat
                     /\ app[k].applied = Sign(at(k).outstanding) * take(k)
                     /\ Size(app[k].applied) = take(k)
<1> DEFINE lines == b.settlement[s].lines
           n == Len(lines)
           left == AdvanceLeft(b, s)
           at(k) == b.item[lines[k].item]
           take(k) == Take(at(k), lines[k], left[k-1])
           applied(k) == Sign(at(k).outstanding) * take(k)
           app == [k \in 1..n |-> [lines[k] EXCEPT !.applied = applied(k)]]
<1>1. n \in Nat /\ DOMAIN lines = 1..n /\ \A k \in 1..n : lines[k] \in LineRow
  BY DEF BooksRow, SettlementRow
<1>2. AppliedLines(b, s) = app
  BY <1>1 DEF AppliedLines
<1>3. ASSUME NEW k \in 1..n
      PROVE  take(k) \in Nat /\ applied(k) \in Int /\ Size(applied(k)) = take(k)
  <2>1. lines[k].amount \in Int /\ at(k) \in ItemRow
    BY <1>1 DEF LineRow, BooksRow
  <2>2. k - 1 \in 0..n
    BY <1>1
  <2>3. left[k-1] \in Left
    BY <2>2, AdvanceLeftIs
  <2>4. take(k) \in Nat
    BY <2>1, <2>3, TakeBounds
  <2>5. Sign(at(k).outstanding) \in {1, -1}
    BY DEF Sign
  <2> HIDE DEF take, at
  <2> QED
    BY <2>4, <2>5 DEF Size
<1> HIDE DEF applied, take
<1>4. /\ app \in [1..n -> LineRow] /\ DOMAIN app = 1..n
      /\ \A k \in 1..n : /\ app[k].item = lines[k].item /\ app[k].amount = lines[k].amount
                         /\ app[k].applied = applied(k)
  BY <1>1, <1>3 DEF LineRow
<1>5. app \in Seq(LineRow) /\ Len(app) = n
  <2> HIDE DEF app
  <2> QED
    BY <1>1, <1>4, SeqDef
<1> HIDE DEF app
<1> QED
  BY <1>1, <1>2, <1>3, <1>4, <1>5 DEF applied, take

(* A settlement draws no more from an advance than there is: each line     *)
(* takes from what the lines before it left.                               *)
LEMMA TotalDrawn ==
    ASSUME NEW M, NEW b \in BooksRow(M), NEW s \in Settlements,
           NEW a \in b.settlement[s].advance, 0 <= b.advance[a].outstanding
    PROVE  Total(AppliedLines(b, s)) <= b.advance[a].outstanding
<1> DEFINE lines == b.settlement[s].lines
           n == Len(lines)
           left == AdvanceLeft(b, s)
           app == AppliedLines(b, s)
           out == b.advance[a].outstanding
           take(k) == Take(b.item[lines[k].item], lines[k], left[k-1])
           f == [k \in DOMAIN app |-> Size(app[k].applied)]
<1>1. n \in Nat /\ DOMAIN lines = 1..n /\ \A k \in 1..n : lines[k] \in LineRow
  BY DEF BooksRow, SettlementRow
<1>2. DOMAIN app = 1..n /\ \A k \in 1..n : f[k] = take(k) /\ f[k] \in Nat
  <2>1. /\ DOMAIN app = DOMAIN lines
        /\ \A k \in DOMAIN lines : Size(app[k].applied) = take(k) /\ take(k) \in Nat
    BY AppliedLinesAre, ZenonT(60)
  <2> HIDE DEF app, lines, take
  <2>2. DOMAIN app = 1..n /\ \A k \in 1..n : Size(app[k].applied) = take(k) /\ take(k) \in Nat
    BY <1>1, <2>1
  <2>3. \A k \in 1..n : f[k] = Size(app[k].applied)
    BY <2>2
  <2> QED
    BY <2>2, <2>3
<1>3. b.settlement[s].advance = {a} /\ out \in Int
  <2>1. a \in Advances /\ b.settlement[s].advance = {a}
    BY OneAdvance DEF BooksRow
  <2> QED
    BY <2>1 DEF BooksRow, AdvanceRow
<1>4. left[0] = {out}
  BY <1>3, AdvanceLeftIs, SMTT(30)
<1>5. \A k \in 1..n : left[k] = {l - take(k) : l \in left[k-1]} /\ left[k-1] \in Left
  <2>1. \A k \in 1..n : k - 1 \in 0..n
    BY <1>1
  <2>2. \A k \in 0..n : left[k] \in Left
    BY AdvanceLeftIs, SMTT(60)
  <2>3. \A k \in 1..n : left[k] = {l - take(k) : l \in left[k-1]}
    BY AdvanceLeftIs, SMTT(60)
  <2> HIDE DEF left, take, n
  <2> QED
    BY <2>1, <2>2, <2>3
<1>6. ASSUME NEW k \in 1..n, NEW l \in left[k-1], l \in Int, 0 <= l PROVE take(k) <= l
  <2>1. lines[k].amount \in Int /\ b.item[lines[k].item] \in ItemRow
    BY <1>1 DEF LineRow, BooksRow
  <2> QED
    BY <1>5, <1>6, <2>1, TakeBounds
<1> HIDE DEF take, left, f, n, app, out
<1> DEFINE Spent(k) == \E l \in Nat : left[k] = {l} /\ SumFunctionOnSet(f, 1..k) = out - l
           I == {k \in Nat : k <= n => Spent(k)}
<1>7. 0 \in I
  <2>1. 1..0 = {}
    OBVIOUS
  <2>2. SumFunctionOnSet(f, 1..0) = 0
    BY <2>1, SumOfNone
  <2>3. out \in Nat
    BY <1>3 DEF out
  <2>4. Spent(0)
    BY <1>4, <2>2, <2>3
  <2> QED
    BY <2>4
<1>8. ASSUME NEW k \in I PROVE k + 1 \in I
  <2>1. k \in Nat /\ k + 1 \in Nat
    OBVIOUS
  <2> SUFFICES ASSUME k + 1 <= n PROVE Spent(k + 1)
    BY <2>1
  <2>2. k + 1 \in 1..n /\ (k + 1) - 1 = k /\ k <= n
    BY <1>1, <2>1
  <2>3. PICK l \in Nat : left[k] = {l} /\ SumFunctionOnSet(f, 1..k) = out - l
    BY <2>2
  <2>4. take(k + 1) \in Nat /\ take(k + 1) <= l
    BY <1>2, <1>6, <2>2, <2>3
  <2>5. left[k + 1] = {l - take(k + 1)}
    BY <1>5, <2>2, <2>3
  <2>6. SumFunctionOnSet(f, 1..(k + 1)) = f[k + 1] + SumFunctionOnSet(f, 1..k)
    <3>1. 1..(k + 1) = (1..k) \cup {k + 1} /\ k + 1 \notin 1..k
      BY <2>1
    <3>2. IsFiniteSet(1..k)
      BY <2>1, FS_Interval
    <3>3. \A y \in (1..k) \cup {k + 1} : f[y] \in Int
      BY <1>1, <1>2, <2>2
    <3> QED
      BY <3>1, <3>2, <3>3, SumWith, ZenonT(60)
  <2>7. SumFunctionOnSet(f, 1..(k + 1)) = out - (l - take(k + 1))
    BY <1>2, <1>3, <2>2, <2>3, <2>4, <2>6
  <2> QED
    BY <2>4, <2>5, <2>7
<1>9. Spent(n)
  <2> HIDE DEF I
  <2>1. Nat \subseteq I
    BY <1>7, <1>8, InductiveSetOfNaturals DEF I
  <2> QED
    BY <1>1, <2>1 DEF I
<1>10. Total(app) = SumFunctionOnSet(f, 1..n)
  BY <1>2 DEF Total, SumFunction, f
<1> QED
  BY <1>3, <1>9, <1>10 DEF app, out
-----------------------------------------------------------------------------
(* The sums over posted settlements, when one settlement changes.          *)
LEMMA PostedAdd ==
    ASSUME NEW M, NEW b \in BooksRow(M)
    PROVE  /\ IsFiniteSet(Posted(b)) /\ \A a : IsFiniteSet(Drawing(b, a))
           /\ \A s \in Settlements :
                 /\ b.settlement[s].lines \in Seq(LineRow) /\ b.settlement[s].total \in Int
                 /\ \A i : SumOn(b.settlement[s].lines, i) \in Int
<1>1. IsFiniteSet(Posted(b)) /\ \A a : IsFiniteSet(Drawing(b, a))
  BY ReceivablesAssumption, FS_Subset DEF Posted, Drawing
<1>2. ASSUME NEW s \in Settlements
      PROVE  b.settlement[s].lines \in Seq(LineRow) /\ b.settlement[s].total \in Int
  BY DEF BooksRow, SettlementRow
<1> QED
  BY <1>1, <1>2, LinesAdd

LEMMA PostedSame ==
    ASSUME NEW M, NEW b \in BooksRow(M), NEW c \in BooksRow(M), Posted(c) = Posted(b),
           \A s \in Posted(b) : /\ c.settlement[s].lines = b.settlement[s].lines
                                /\ c.settlement[s].total = b.settlement[s].total
                                /\ c.settlement[s].advance = b.settlement[s].advance
    PROVE  /\ \A i : AppliedTo(c, i) = AppliedTo(b, i)
           /\ \A a : DrawnFrom(c, a) = DrawnFrom(b, a)
<1>1. ASSUME NEW i PROVE AppliedTo(c, i) = AppliedTo(b, i)
  <2> DEFINE f == [s \in Settlements |-> SumOn(b.settlement[s].lines, i)]
             h == [s \in Settlements |-> SumOn(c.settlement[s].lines, i)]
  <2>1. \A s \in Posted(b) : h[s] = f[s]
    BY DEF Posted
  <2> HIDE DEF f, h
  <2>2. SumFunctionOnSet(h, Posted(b)) = SumFunctionOnSet(f, Posted(b))
    BY <2>1, PostedAdd, SumSame
  <2> QED
    BY <2>2 DEF AppliedTo, f, h
<1>2. ASSUME NEW a PROVE DrawnFrom(c, a) = DrawnFrom(b, a)
  <2> DEFINE f == [s \in Settlements |-> b.settlement[s].total]
             h == [s \in Settlements |-> c.settlement[s].total]
  <2>1. Drawing(c, a) = Drawing(b, a) /\ \A s \in Drawing(b, a) : h[s] = f[s]
    BY DEF Posted, Drawing
  <2> HIDE DEF f, h
  <2>2. SumFunctionOnSet(h, Drawing(b, a)) = SumFunctionOnSet(f, Drawing(b, a))
    BY <2>1, PostedAdd, SumSame
  <2> QED
    BY <2>1, <2>2 DEF DrawnFrom, f, h
<1> QED
  BY <1>1, <1>2

LEMMA PostedGains ==
    ASSUME NEW M, NEW b \in BooksRow(M), NEW c \in BooksRow(M), NEW s \in Settlements,
           s \notin Posted(b), s \in Posted(c),
           \A t \in Settlements \ {s} : c.settlement[t] = b.settlement[t]
    PROVE  /\ \A i : AppliedTo(c, i) = AppliedTo(b, i) + SumOn(c.settlement[s].lines, i)
           /\ \A a \in c.settlement[s].advance :
                 DrawnFrom(c, a) = DrawnFrom(b, a) + c.settlement[s].total
           /\ \A a : a \notin c.settlement[s].advance => DrawnFrom(c, a) = DrawnFrom(b, a)
<1>1. ASSUME NEW i PROVE AppliedTo(c, i) = AppliedTo(b, i) + SumOn(c.settlement[s].lines, i)
  <2> DEFINE f == [t \in Settlements |-> SumOn(b.settlement[t].lines, i)]
             h == [t \in Settlements |-> SumOn(c.settlement[t].lines, i)]
  <2>1. Posted(c) = Posted(b) \cup {s}
    BY DEF Posted
  <2>2. \A t \in Posted(b) : f[t] \in Int /\ h[t] = f[t]
    BY PostedAdd DEF Posted
  <2>3. h[s] = SumOn(c.settlement[s].lines, i) /\ h[s] \in Int
    BY PostedAdd
  <2> HIDE DEF f, h
  <2>4. SumFunctionOnSet(h, Posted(b) \cup {s}) = SumFunctionOnSet(f, Posted(b)) + h[s]
    BY <2>2, <2>3, PostedAdd, SumGains
  <2> QED
    BY <2>1, <2>3, <2>4 DEF AppliedTo, f, h
<1>2. ASSUME NEW a, a \in c.settlement[s].advance
      PROVE  DrawnFrom(c, a) = DrawnFrom(b, a) + c.settlement[s].total
  <2> DEFINE f == [t \in Settlements |-> b.settlement[t].total]
             h == [t \in Settlements |-> c.settlement[t].total]
  <2>1. Drawing(c, a) = Drawing(b, a) \cup {s} /\ s \notin Drawing(b, a)
    BY <1>2 DEF Posted, Drawing
  <2>2. \A t \in Drawing(b, a) : f[t] \in Int /\ h[t] = f[t]
    BY <2>1, PostedAdd DEF Drawing
  <2>3. h[s] = c.settlement[s].total /\ h[s] \in Int
    BY PostedAdd
  <2> HIDE DEF f, h
  <2>4. SumFunctionOnSet(h, Drawing(b, a) \cup {s}) = SumFunctionOnSet(f, Drawing(b, a)) + h[s]
    BY <2>1, <2>2, <2>3, PostedAdd, SumGains
  <2> QED
    BY <2>1, <2>3, <2>4 DEF DrawnFrom, f, h
<1>3. ASSUME NEW a, a \notin c.settlement[s].advance
      PROVE  DrawnFrom(c, a) = DrawnFrom(b, a)
  <2> DEFINE f == [t \in Settlements |-> b.settlement[t].total]
             h == [t \in Settlements |-> c.settlement[t].total]
  <2>1. Drawing(c, a) = Drawing(b, a) /\ \A t \in Drawing(b, a) : h[t] = f[t]
    BY <1>3 DEF Posted, Drawing
  <2> HIDE DEF f, h
  <2>2. SumFunctionOnSet(h, Drawing(b, a)) = SumFunctionOnSet(f, Drawing(b, a))
    BY <2>1, PostedAdd, SumSame
  <2> QED
    BY <2>1, <2>2 DEF DrawnFrom, f, h
<1> QED
  BY <1>1, <1>2, <1>3

LEMMA PostedLoses ==
    ASSUME NEW M, NEW b \in BooksRow(M), NEW c \in BooksRow(M), NEW s \in Settlements,
           s \in Posted(b), s \notin Posted(c),
           \A t \in Settlements \ {s} : c.settlement[t] = b.settlement[t]
    PROVE  /\ \A i : AppliedTo(c, i) = AppliedTo(b, i) - SumOn(b.settlement[s].lines, i)
           /\ \A a \in b.settlement[s].advance :
                 DrawnFrom(c, a) = DrawnFrom(b, a) - b.settlement[s].total
           /\ \A a : a \notin b.settlement[s].advance => DrawnFrom(c, a) = DrawnFrom(b, a)
<1>1. \A t \in Settlements \ {s} : b.settlement[t] = c.settlement[t]
  OBVIOUS
<1>2. /\ \A i : AppliedTo(b, i) = AppliedTo(c, i) + SumOn(b.settlement[s].lines, i)
      /\ \A a \in b.settlement[s].advance :
            DrawnFrom(b, a) = DrawnFrom(c, a) + b.settlement[s].total
      /\ \A a : a \notin b.settlement[s].advance => DrawnFrom(b, a) = DrawnFrom(c, a)
  BY <1>1, PostedGains
<1>3. ASSUME NEW i PROVE AppliedTo(c, i) \in Int /\ SumOn(b.settlement[s].lines, i) \in Int
  <2> DEFINE f == [t \in Settlements |-> SumOn(c.settlement[t].lines, i)]
  <2>1. \A t \in Posted(c) : f[t] \in Int
    BY PostedAdd DEF Posted
  <2> HIDE DEF f
  <2>2. SumFunctionOnSet(f, Posted(c)) \in Int
    BY <2>1, PostedAdd, SumIsInt
  <2> QED
    BY <2>2, PostedAdd DEF AppliedTo, f
<1>4. ASSUME NEW a PROVE DrawnFrom(c, a) \in Int /\ b.settlement[s].total \in Int
  <2> DEFINE f == [t \in Settlements |-> c.settlement[t].total]
  <2>1. \A t \in Drawing(c, a) : f[t] \in Int
    BY PostedAdd DEF Drawing
  <2> HIDE DEF f
  <2>2. SumFunctionOnSet(f, Drawing(c, a)) \in Int
    BY <2>1, PostedAdd, SumIsInt
  <2> QED
    BY <2>2, PostedAdd DEF DrawnFrom, f
<1> QED
  BY <1>2, <1>3, <1>4
-----------------------------------------------------------------------------
(* An item whose settled amount is set is sound whatever it was before.    *)
LEMMA SettledIs ==
    ASSUME NEW it \in ItemRow, NEW x \in Int
    PROVE  /\ Settled(it, x) \in ItemRow /\ ItemSound(Settled(it, x))
           /\ Settled(it, x).settled = x /\ Settled(it, x).original = it.original
           /\ Settled(it, x).exists = it.exists
           /\ ~Settled(it, x).open => Size(it.original - x) <= TOL
<1> DEFINE left == Remainder(it.original - x)
<1>1. it.original - x \in Int /\ TOL \in Nat
  BY ReceivablesAssumption DEF ItemRow
<1>2. left = IF Size(it.original - x) <= TOL THEN 0 ELSE it.original - x
  BY DEF Remainder
<1>3. left \in Int /\ (left # 0 => Size(it.original - x) > TOL)
  BY <1>1, <1>2 DEF Size
<1>4. left # 0 => left = it.original - x
  BY <1>2
<1>5. left = 0 => Size(it.original - x) <= TOL
  BY <1>1, <1>2 DEF Size
<1> DEFINE owes == left # 0
<1>6. Settled(it, x) = [it EXCEPT !.settled = x, !.outstanding = left, !.open = owes]
  BY DEF Settled
<1>7. owes \in BOOLEAN /\ (owes <=> left # 0)
  OBVIOUS
<1> HIDE DEF left, owes
<1>8. /\ Settled(it, x) \in ItemRow /\ Settled(it, x).open = owes
      /\ Settled(it, x).outstanding = left /\ Settled(it, x).settled = x
      /\ Settled(it, x).original = it.original /\ Settled(it, x).exists = it.exists
  BY <1>3, <1>6, <1>7 DEF ItemRow
<1> QED
  BY <1>3, <1>4, <1>5, <1>7, <1>8 DEF ItemSound

(* Lines that move settled amounts keep items sound and the headers of     *)
(* posted documents in step, and touch neither advances nor settlements.   *)
LEMMA MovedIs ==
    ASSUME NEW M, NEW b \in BooksRow(M), NEW move \in [Items -> Int]
    PROVE  LET c == Moved(b, move)
           IN  /\ c \in BooksRow(M) /\ c.advance = b.advance /\ c.settlement = b.settlement
               /\ \A i \in Items :
                     /\ c.item[i].settled = b.item[i].settled + move[i]
                     /\ c.item[i].original = b.item[i].original
                     /\ c.header[i].amount = b.header[i].amount
                     /\ c.header[i].status = b.header[i].status
                     /\ ItemSound(b.item[i]) => ItemSound(c.item[i])
                     /\ PostedSound(b, i) => PostedSound(c, i)
                     /\ Follows(b, c, i)
                     /\ move[i] = 0 => c.item[i] = b.item[i] /\ c.header[i] = b.header[i]
<1> DEFINE c == Moved(b, move)
           to(i) == Settled(b.item[i], b.item[i].settled + move[i])
           item2 == [i \in Items |-> IF move[i] = 0 THEN b.item[i] ELSE to(i)]
           head(i) == [b.header[i] EXCEPT !.settled = to(i).settled,
                                          !.outstanding = to(i).outstanding]
           header2 == [i \in Items |-> IF move[i] = 0 THEN b.header[i] ELSE head(i)]
<1>1. /\ \A i \in Items : b.item[i] \in ItemRow /\ b.header[i] \in HeaderRow
      /\ b = [header |-> b.header, item |-> b.item, advance |-> b.advance,
              settlement |-> b.settlement]
  BY DEF BooksRow
<1>2. /\ c.item = item2 /\ c.header = header2
      /\ c.advance = b.advance /\ c.settlement = b.settlement
      /\ c = [header |-> header2, item |-> item2, advance |-> b.advance,
              settlement |-> b.settlement]
  <2>1. c = [b EXCEPT !.item = item2, !.header = header2]
    BY DEF Moved
  <2> HIDE DEF c, item2, header2
  <2> QED
    BY <1>1, <2>1
<1>3. ASSUME NEW i \in Items
      PROVE  /\ to(i) \in ItemRow /\ ItemSound(to(i)) /\ to(i).settled = b.item[i].settled + move[i]
             /\ to(i).original = b.item[i].original
             /\ ~to(i).open => Size(b.item[i].original - (b.item[i].settled + move[i])) <= TOL
  <2>1. b.item[i].settled + move[i] \in Int
    BY <1>1 DEF ItemRow
  <2> QED
    BY <1>1, <2>1, SettledIs
<1> HIDE DEF to, c
<1>4. ASSUME NEW i \in Items
      PROVE  /\ head(i) \in HeaderRow /\ head(i).settled = to(i).settled
             /\ head(i).outstanding = to(i).outstanding
             /\ head(i).amount = b.header[i].amount /\ head(i).status = b.header[i].status
  BY <1>1, <1>3 DEF HeaderRow, ItemRow
<1> HIDE DEF head
<1>5. item2 \in [Items -> ItemRow] /\ header2 \in [Items -> HeaderRow]
  BY <1>1, <1>3, <1>4
<1>6. ASSUME NEW i \in Items, move[i] = 0
      PROVE  c.item[i] = b.item[i] /\ c.header[i] = b.header[i]
  BY <1>2, <1>6
<1>7. ASSUME NEW i \in Items, move[i] # 0
      PROVE  c.item[i] = to(i) /\ c.header[i] = head(i)
  BY <1>2, <1>7
<1>8. c \in BooksRow(M)
  <2> HIDE DEF item2, header2
  <2> QED
    BY <1>2, <1>5 DEF BooksRow
<1>9. ASSUME NEW i \in Items
      PROVE  /\ c.item[i].settled = b.item[i].settled + move[i]
             /\ c.item[i].original = b.item[i].original
             /\ c.header[i].amount = b.header[i].amount
             /\ c.header[i].status = b.header[i].status
             /\ ItemSound(b.item[i]) => ItemSound(c.item[i])
             /\ PostedSound(b, i) => PostedSound(c, i)
             /\ Follows(b, c, i)
  <2>1. CASE move[i] = 0
    BY <1>1, <1>6, <2>1 DEF ItemRow, PostedSound, Mirrored, Worth, Follows
  <2>2. CASE move[i] # 0
    <3>1. c.item[i] = to(i) /\ c.header[i] = head(i)
      BY <1>7, <2>2
    <3> QED
      BY <1>3, <1>4, <3>1 DEF PostedSound, Mirrored, Worth, Follows, Net
  <2> QED
    BY <2>1, <2>2
<1> HIDE DEF item2, header2
<1> QED
  BY <1>2, <1>6, <1>8, <1>9 DEF c
-----------------------------------------------------------------------------
LEMMA AdjustedIs ==
    ASSUME NEW adv \in AdvanceRow, NEW x \in Nat
    PROVE  LET new == Adjusted(adv, x)
           IN  /\ new \in AdvanceRow /\ new.adjusted = x
               /\ new.exists = adv.exists /\ new.original = adv.original
               /\ AdvanceSound(adv) /\ x <= adv.original => AdvanceSound(new)
<1> DEFINE left == Remainder(adv.original - x)
           rest == left # 0
<1>1. adv.original - x \in Int /\ TOL \in Nat
  BY ReceivablesAssumption DEF AdvanceRow
<1>2. left \in Int /\ (x <= adv.original => 0 <= left /\ left <= adv.original - x)
  <2> DEFINE d == adv.original - x
  <2>1. x <= adv.original => 0 <= d
    BY DEF AdvanceRow
  <2> HIDE DEF d
  <2>2. Remainder(d) \in Int /\ (0 <= d => 0 <= Remainder(d) /\ Remainder(d) <= d)
    BY <1>1 DEF Remainder, Size, d
  <2> QED
    BY <2>1, <2>2 DEF d
<1>3. rest \in BOOLEAN
  OBVIOUS
<1>4. Adjusted(adv, x) = [adv EXCEPT !.adjusted = x, !.outstanding = left, !.open = rest]
  BY DEF Adjusted
<1> HIDE DEF left, rest
<1> QED
  BY <1>2, <1>3, <1>4 DEF AdvanceRow, AdvanceSound

LEMMA ReleasedIs ==
    ASSUME NEW adv \in AdvanceRow, NEW x \in Int
    PROVE  LET new == Released(adv, x)
           IN  /\ new \in AdvanceRow /\ (0 <= x => new.adjusted = x)
               /\ new.exists = adv.exists /\ new.original = adv.original
               /\ AdvanceSound(adv) /\ x <= adv.original => AdvanceSound(new)
<1> DEFINE used == Max({0, x})
           rest == Size(adv.original - used) > TOL
<1>1. used = IF 0 >= x THEN 0 ELSE x
  BY MaxOfTwo
<1>2. rest \in BOOLEAN
  BY DEF Size
<1>3. Released(adv, x) = [adv EXCEPT !.adjusted = used, !.outstanding = adv.original - used,
                                     !.open = rest]
  BY DEF Released
<1>4. used \in Nat /\ (0 <= x => used = x) /\ adv.original - used \in Int
      /\ (x <= adv.original => 0 <= adv.original - used)
  BY <1>1 DEF AdvanceRow
<1> HIDE DEF used, rest
<1> DEFINE new == Released(adv, x)
<1>5. /\ new \in AdvanceRow /\ new.adjusted = used /\ new.outstanding = adv.original - used
      /\ new.exists = adv.exists /\ new.original = adv.original
  BY <1>2, <1>3, <1>4 DEF AdvanceRow
<1> HIDE DEF new
<1>6. AdvanceSound(adv) /\ x <= adv.original => AdvanceSound(new)
  BY <1>4, <1>5 DEF AdvanceRow, AdvanceSound
<1> QED
  BY <1>4, <1>5, <1>6 DEF new

Statuses == {"none", "draft", "posted", "cancelled"}

(* A settlement row stays one when its lines, total and status are written.*)
LEMMA RowWritten ==
    ASSUME NEW M, NEW old \in SettlementRow(M), NEW lines \in Seq(LineRow), NEW total \in Int,
           NEW status \in Statuses
    PROVE  [old EXCEPT !.lines = lines, !.total = total, !.status = status] \in SettlementRow(M)
<1> DEFINE A == {{}} \cup {{a} : a \in Advances}
           L == Seq(LineRow)
           K == SUBSET M
<1>1. SettlementRow(M) = [status : Statuses, lines : L, advance : A, total : Int, marker : K]
  BY DEF SettlementRow, Statuses
<1>2. lines \in L
  OBVIOUS
<1> HIDE DEF A, L, K
<1>3. old \in [status : Statuses, lines : L, advance : A, total : Int, marker : K]
  BY <1>1
<1>4. [old EXCEPT !.lines = lines, !.total = total, !.status = status] \in
         [status : Statuses, lines : L, advance : A, total : Int, marker : K]
  BY <1>2, <1>3
<1> QED
  BY <1>1, <1>4

Applying(b, s)  == [i \in Items |-> SumOn(AppliedLines(b, s), i)]
Releasing(b, s) == [i \in Items |-> -SumOn(b.settlement[s].lines, i)]
Unapplied(lines) == [k \in DOMAIN lines |-> [lines[k] EXCEPT !.applied = 0]]

(* What post_settlement makes of the tables.                               *)
LEMMA PostEffectIs ==
    ASSUME NEW M, NEW b \in BooksRow(M), NEW s \in Settlements
    PROVE  LET c == PostEffect(b, s)
               app == AppliedLines(b, s)
               moved == Moved(b, Applying(b, s))
           IN  /\ c \in BooksRow(M)
               /\ c.header = moved.header /\ c.item = moved.item
               /\ \A a \in Advances : c.advance[a] =
                     IF a \in b.settlement[s].advance
                     THEN Adjusted(b.advance[a], b.advance[a].adjusted + Total(app))
                     ELSE b.advance[a]
               /\ \A t \in Settlements \ {s} : c.settlement[t] = b.settlement[t]
               /\ c.settlement[s].lines = app /\ c.settlement[s].total = Total(app)
               /\ c.settlement[s].status = "posted"
               /\ c.settlement[s].advance = b.settlement[s].advance
               /\ c.settlement[s].marker = b.settlement[s].marker
<1> DEFINE app == AppliedLines(b, s)
           total == Total(app)
           move == Applying(b, s)
           moved == Moved(b, move)
           adv2 == [a \in Advances |->
               IF a \in b.settlement[s].advance
               THEN Adjusted(moved.advance[a], moved.advance[a].adjusted + total)
               ELSE moved.advance[a]]
           row == [b.settlement[s] EXCEPT !.lines = app, !.total = total, !.status = "posted"]
           c == PostEffect(b, s)
<1>1. app \in Seq(LineRow)
  BY AppliedLinesAre
<1>2. total \in Nat /\ move \in [Items -> Int]
  BY <1>1, LinesAdd DEF Applying
<1>3. c = [moved EXCEPT !.advance = adv2, !.settlement[s].lines = app,
                        !.settlement[s].total = total, !.settlement[s].status = "posted"]
  <2>1. moved.advance = b.advance
    BY <1>2, MovedIs
  <2> QED
    BY DEF PostEffect, Applying
<1> HIDE DEF app, total, move, c
<1>4. moved \in BooksRow(M) /\ moved.advance = b.advance /\ moved.settlement = b.settlement
  BY <1>2, MovedIs
<1> HIDE DEF moved
<1>5. adv2 \in [Advances -> AdvanceRow]
  <2>1. ASSUME NEW a \in Advances
        PROVE  /\ b.advance[a] \in AdvanceRow
               /\ Adjusted(b.advance[a], b.advance[a].adjusted + total) \in AdvanceRow
    <3>1. b.advance[a] \in AdvanceRow /\ b.advance[a].adjusted + total \in Nat
      BY <1>2 DEF BooksRow, AdvanceRow
    <3> QED
      BY <3>1, AdjustedIs
  <2> QED
    BY <1>4, <2>1
<1>6. row \in SettlementRow(M)
  <2>1. b.settlement[s] \in SettlementRow(M) /\ total \in Int /\ "posted" \in Statuses
    BY <1>2 DEF BooksRow, Statuses
  <2> QED
    BY <1>1, <2>1, RowWritten
<1>7. \A a \in Advances : adv2[a] =
          IF a \in b.settlement[s].advance
          THEN Adjusted(b.advance[a], b.advance[a].adjusted + total) ELSE b.advance[a]
  BY <1>4
<1> HIDE DEF adv2
<1>8. c = [moved EXCEPT !.advance = adv2, !.settlement = [b.settlement EXCEPT ![s] = row]]
  <2>1. b.settlement[s] \in SettlementRow(M) /\ b.settlement \in [Settlements -> SettlementRow(M)]
    BY DEF BooksRow
  <2> QED
    BY <1>3, <1>4, <2>1, ZenonT(60) DEF BooksRow, SettlementRow
<1> HIDE DEF row
<1>9. /\ c \in BooksRow(M) /\ c.header = moved.header /\ c.item = moved.item
      /\ c.advance = adv2 /\ c.settlement = [b.settlement EXCEPT ![s] = row]
  BY <1>4, <1>5, <1>6, <1>8 DEF BooksRow
<1>10. c.settlement[s] = row /\ \A t \in Settlements \ {s} : c.settlement[t] = b.settlement[t]
  BY <1>9 DEF BooksRow
<1>11. /\ row.lines = app /\ row.total = total /\ row.status = "posted"
       /\ row.advance = b.settlement[s].advance /\ row.marker = b.settlement[s].marker
  <2>1. b.settlement[s] \in SettlementRow(M)
    BY DEF BooksRow
  <2> QED
    BY <2>1 DEF SettlementRow, row
<1> QED
  BY <1>7, <1>9, <1>10, <1>11 DEF c, moved, move, app, total
-----------------------------------------------------------------------------
(* An advance has paid at least what any one posted settlement drew.       *)
LEMMA DrawnAtLeast ==
    ASSUME NEW M, NEW b \in BooksRow(M), Sound(b), NEW a, NEW s \in Drawing(b, a)
    PROVE  /\ b.settlement[s].total \in Nat /\ DrawnFrom(b, a) \in Nat
           /\ b.settlement[s].total <= DrawnFrom(b, a)
<1> DEFINE f == [t \in Settlements |-> b.settlement[t].total]
           S == Drawing(b, a)
<1>1. IsFiniteSet(S) /\ IsFiniteSet(S \ {s}) /\ s \in S
  BY PostedAdd, FS_Subset
<1>2. \A t \in S : f[t] \in Nat
  BY PostedAdd, LinesAdd DEF Drawing, Sound, SettlementSound
<1>3. f[s] = b.settlement[s].total
  BY DEF Drawing
<1>4. DrawnFrom(b, a) = SumFunctionOnSet(f, S)
  BY DEF DrawnFrom
<1> HIDE DEF f, S
<1>5. SumFunctionOnSet(f, S) = f[s] + SumFunctionOnSet(f, S \ {s})
  BY <1>1, <1>2, SumWithout
<1>6. SumFunctionOnSet(f, S) \in Nat /\ SumFunctionOnSet(f, S \ {s}) \in Nat
  BY <1>1, <1>2, SumIsNatural
<1> QED
  BY <1>1, <1>2, <1>3, <1>4, <1>5, <1>6

(* Posting a settlement keeps the tables sound: what it adds to an item    *)
(* and to an advance is what its lines and its total say.                  *)
LEMMA PostKeepsSound ==
    ASSUME NEW M, NEW b \in BooksRow(M), Sound(b), NEW s \in Settlements,
           b.settlement[s].status # "posted"
    PROVE  Sound(PostEffect(b, s))
<1> DEFINE app == AppliedLines(b, s)
           c == PostEffect(b, s)
           move == Applying(b, s)
           moved == Moved(b, move)
<1>1. /\ app \in Seq(LineRow) /\ move \in [Items -> Int] /\ Total(app) \in Nat
      /\ \A i : SumOn(app, i) \in Int
  BY AppliedLinesAre, LinesAdd DEF Applying
<1>2. /\ c \in BooksRow(M) /\ c.item = moved.item
      /\ \A a \in Advances : c.advance[a] =
            IF a \in b.settlement[s].advance
            THEN Adjusted(b.advance[a], b.advance[a].adjusted + Total(app)) ELSE b.advance[a]
      /\ \A t \in Settlements \ {s} : c.settlement[t] = b.settlement[t]
      /\ c.settlement[s].lines = app /\ c.settlement[s].total = Total(app)
      /\ c.settlement[s].status = "posted"
      /\ c.settlement[s].advance = b.settlement[s].advance
  BY PostEffectIs
<1>3. \A i \in Items : /\ moved.item[i].settled = b.item[i].settled + SumOn(app, i)
                       /\ ItemSound(b.item[i]) => ItemSound(moved.item[i])
  <2>1. \A i \in Items : move[i] = SumOn(app, i)
    BY DEF Applying
  <2> QED
    BY <1>1, <2>1, MovedIs
<1>4. \A a \in b.settlement[s].advance : 0 <= b.advance[a].outstanding
                                           => Total(app) <= b.advance[a].outstanding
  BY TotalDrawn
<1> HIDE DEF app, c, moved, move
<1>6. s \notin Posted(b) /\ s \in Posted(c)
  BY <1>2 DEF Posted
<1>7. /\ \A i : AppliedTo(c, i) = AppliedTo(b, i) + SumOn(app, i)
      /\ \A a \in b.settlement[s].advance : DrawnFrom(c, a) = DrawnFrom(b, a) + Total(app)
      /\ \A a : a \notin b.settlement[s].advance => DrawnFrom(c, a) = DrawnFrom(b, a)
  <2>1. /\ \A i : AppliedTo(c, i) = AppliedTo(b, i) + SumOn(c.settlement[s].lines, i)
        /\ \A a \in c.settlement[s].advance :
              DrawnFrom(c, a) = DrawnFrom(b, a) + c.settlement[s].total
        /\ \A a : a \notin c.settlement[s].advance => DrawnFrom(c, a) = DrawnFrom(b, a)
    BY <1>2, <1>6, PostedGains
  <2> QED
    BY <1>2, <2>1
<1>8. ASSUME NEW i \in Items PROVE c.item[i].settled = AppliedTo(c, i) /\ ItemSound(c.item[i])
  BY <1>2, <1>3, <1>7 DEF Sound
<1>9. ASSUME NEW a \in Advances
      PROVE  /\ c.advance[a].adjusted = DrawnFrom(c, a) /\ AdvanceSound(c.advance[a])
             /\ b.advance[a].exists => c.advance[a].exists
  <2>1. b.advance[a] \in AdvanceRow /\ b.advance[a].adjusted = DrawnFrom(b, a)
        /\ AdvanceSound(b.advance[a])
    BY DEF Sound, BooksRow
  <2>2. CASE a \notin b.settlement[s].advance
    BY <1>2, <1>7, <2>1, <2>2
  <2>3. CASE a \in b.settlement[s].advance
    <3> DEFINE x == b.advance[a].adjusted + Total(app)
    <3>1. Total(app) <= b.advance[a].outstanding
      BY <1>4, <2>1, <2>3 DEF AdvanceSound
    <3>2. x \in Nat /\ x <= b.advance[a].original
      BY <1>1, <2>1, <3>1 DEF AdvanceSound, AdvanceRow
    <3> HIDE DEF x
    <3>3. LET new == Adjusted(b.advance[a], x)
          IN  new.adjusted = x /\ new.exists = b.advance[a].exists /\ AdvanceSound(new)
      BY <2>1, <3>2, AdjustedIs
    <3>4. c.advance[a] = Adjusted(b.advance[a], x)
      BY <1>2, <2>3 DEF x
    <3> QED
      BY <1>7, <2>1, <2>3, <3>3, <3>4 DEF x
  <2> QED
    BY <2>2, <2>3
<1>10. ASSUME NEW t \in Settlements PROVE SettlementSound(c, t)
  <2>1. SettlementSound(b, t) /\ b.settlement[t].advance \subseteq Advances
    BY OneAdvance DEF Sound, BooksRow
  <2>2. c.settlement[t].advance = b.settlement[t].advance
    BY <1>2
  <2>3. c.settlement[t].status = "posted" => c.settlement[t].total = Total(c.settlement[t].lines)
    BY <1>2, <2>1 DEF SettlementSound
  <2> QED
    BY <1>9, <2>1, <2>2, <2>3 DEF SettlementSound
<1> QED
  BY <1>8, <1>9, <1>10 DEF Sound, c
-----------------------------------------------------------------------------
(* A cancelled draft had no effect; only its status is written.            *)
LEMMA CancelDraftIs ==
    ASSUME NEW M, NEW b \in BooksRow(M), NEW s \in Settlements, b.settlement[s].status = "draft"
    PROVE  LET c == CancelEffect(b, s)
           IN  /\ c \in BooksRow(M)
               /\ c.header = b.header /\ c.item = b.item /\ c.advance = b.advance
               /\ \A t \in Settlements \ {s} : c.settlement[t] = b.settlement[t]
               /\ c.settlement[s].status = "cancelled"
               /\ c.settlement[s].lines = b.settlement[s].lines
               /\ c.settlement[s].total = b.settlement[s].total
               /\ c.settlement[s].advance = b.settlement[s].advance
               /\ c.settlement[s].marker = b.settlement[s].marker
<1> DEFINE row == [b.settlement[s] EXCEPT !.status = "cancelled"]
           c == CancelEffect(b, s)
<1>1. b.settlement[s] \in SettlementRow(M) /\ b.settlement \in [Settlements -> SettlementRow(M)]
  BY DEF BooksRow
<1>2. c = [b EXCEPT !.settlement[s].status = "cancelled"]
  BY DEF CancelEffect
<1> HIDE DEF c
<1>3. c = [b EXCEPT !.settlement = [b.settlement EXCEPT ![s] = row]]
  BY <1>1, <1>2 DEF BooksRow
<1>4. row \in SettlementRow(M)
  BY <1>1 DEF SettlementRow
<1>5. /\ row.lines = b.settlement[s].lines /\ row.total = b.settlement[s].total
      /\ row.advance = b.settlement[s].advance /\ row.marker = b.settlement[s].marker
      /\ row.status = "cancelled"
  BY <1>1 DEF SettlementRow
<1> HIDE DEF row
<1>6. /\ c \in BooksRow(M) /\ c.header = b.header /\ c.item = b.item /\ c.advance = b.advance
      /\ c.settlement = [b.settlement EXCEPT ![s] = row]
  BY <1>1, <1>3, <1>4 DEF BooksRow
<1>7. c.settlement[s] = row /\ \A t \in Settlements \ {s} : c.settlement[t] = b.settlement[t]
  BY <1>1, <1>6
<1> QED
  BY <1>5, <1>6, <1>7 DEF c

(* A cancelled posted settlement gives back what its lines took.           *)
LEMMA CancelPostedIs ==
    ASSUME NEW M, NEW b \in BooksRow(M), NEW s \in Settlements, b.settlement[s].status = "posted"
    PROVE  LET c == CancelEffect(b, s)
               lines == b.settlement[s].lines
               moved == Moved(b, Releasing(b, s))
           IN  /\ c \in BooksRow(M)
               /\ c.header = moved.header /\ c.item = moved.item
               /\ \A a \in Advances : c.advance[a] =
                     IF a \in b.settlement[s].advance
                     THEN Released(b.advance[a], b.advance[a].adjusted - Total(lines))
                     ELSE b.advance[a]
               /\ \A t \in Settlements \ {s} : c.settlement[t] = b.settlement[t]
               /\ c.settlement[s].lines = Unapplied(lines)
               /\ c.settlement[s].total = b.settlement[s].total
               /\ c.settlement[s].status = "cancelled"
               /\ c.settlement[s].advance = b.settlement[s].advance
               /\ c.settlement[s].marker = b.settlement[s].marker
<1> DEFINE lines == b.settlement[s].lines
           none == Unapplied(lines)
           move == Releasing(b, s)
           moved == Moved(b, move)
           adv2 == [a \in Advances |->
               IF a \in b.settlement[s].advance
               THEN Released(moved.advance[a], moved.advance[a].adjusted - Total(lines))
               ELSE moved.advance[a]]
           row == [b.settlement[s] EXCEPT !.lines = none, !.status = "cancelled"]
           c == CancelEffect(b, s)
<1>1. b.settlement[s] \in SettlementRow(M) /\ b.settlement \in [Settlements -> SettlementRow(M)]
  BY DEF BooksRow
<1>2. /\ lines \in Seq(LineRow) /\ Total(lines) \in Nat /\ b.settlement[s].total \in Int
      /\ move \in [Items -> Int]
  BY PostedAdd, LinesAdd DEF Releasing
<1>3. none \in Seq(LineRow)
  <2>1. /\ Len(lines) \in Nat /\ DOMAIN lines = 1..Len(lines)
        /\ \A k \in 1..Len(lines) : lines[k] \in LineRow
    BY <1>2
  <2> HIDE DEF lines
  <2>2. none \in [1..Len(lines) -> LineRow]
    BY <2>1 DEF LineRow, Unapplied
  <2> HIDE DEF none
  <2> QED
    BY <2>1, <2>2, SeqDef
<1>4. c = [moved EXCEPT !.advance = adv2, !.settlement[s].lines = none,
                        !.settlement[s].status = "cancelled"]
  BY DEF CancelEffect, Releasing, Unapplied
<1>5. moved \in BooksRow(M) /\ moved.advance = b.advance /\ moved.settlement = b.settlement
  BY <1>2, MovedIs
<1> HIDE DEF lines, none, move, c, moved
<1>6. adv2 \in [Advances -> AdvanceRow]
  <2>1. ASSUME NEW a \in Advances
        PROVE  /\ b.advance[a] \in AdvanceRow
               /\ Released(b.advance[a], b.advance[a].adjusted - Total(lines)) \in AdvanceRow
    <3>1. b.advance[a] \in AdvanceRow /\ b.advance[a].adjusted - Total(lines) \in Int
      BY <1>2 DEF BooksRow, AdvanceRow
    <3> QED
      BY <3>1, ReleasedIs
  <2> QED
    BY <1>5, <2>1
<1>7. \A a \in Advances : adv2[a] =
          IF a \in b.settlement[s].advance
          THEN Released(b.advance[a], b.advance[a].adjusted - Total(lines)) ELSE b.advance[a]
  BY <1>5
<1>8. row \in SettlementRow(M)
  <2>1. "cancelled" \in Statuses
    BY DEF Statuses
  <2>2. row = [b.settlement[s] EXCEPT !.lines = none, !.total = b.settlement[s].total,
                                      !.status = "cancelled"]
    BY <1>1 DEF SettlementRow
  <2> HIDE DEF row
  <2> QED
    BY <1>1, <1>2, <1>3, <2>1, <2>2, RowWritten
<1>9. /\ row.lines = none /\ row.total = b.settlement[s].total /\ row.status = "cancelled"
      /\ row.advance = b.settlement[s].advance /\ row.marker = b.settlement[s].marker
  BY <1>1 DEF SettlementRow
<1> HIDE DEF adv2
<1>10. c = [moved EXCEPT !.advance = adv2, !.settlement = [b.settlement EXCEPT ![s] = row]]
  BY <1>1, <1>4, <1>5 DEF BooksRow, SettlementRow
<1> HIDE DEF row
<1>11. /\ c \in BooksRow(M) /\ c.header = moved.header /\ c.item = moved.item
       /\ c.advance = adv2 /\ c.settlement = [b.settlement EXCEPT ![s] = row]
  BY <1>1, <1>5, <1>6, <1>8, <1>10 DEF BooksRow
<1>12. c.settlement[s] = row /\ \A t \in Settlements \ {s} : c.settlement[t] = b.settlement[t]
  BY <1>1, <1>11
<1> QED
  BY <1>7, <1>9, <1>11, <1>12 DEF c, moved, move, lines, none

(* Tables whose items keep their settled amounts and whose settlements     *)
(* stay as they are remain sound if each item written is.                  *)
LEMMA SoundRows ==
    ASSUME NEW M, NEW b \in BooksRow(M), NEW c \in BooksRow(M), Sound(b),
           c.settlement = b.settlement, c.advance = b.advance,
           \A i \in Items : c.item[i].settled = b.item[i].settled /\ ItemSound(c.item[i])
    PROVE  Sound(c)
<1>1. Posted(c) = Posted(b)
  BY DEF Posted
<1>2. \A i : AppliedTo(c, i) = AppliedTo(b, i)
  BY <1>1, PostedSame
<1>3. \A a : DrawnFrom(c, a) = DrawnFrom(b, a)
  BY <1>1, PostedSame
<1> QED
  BY <1>2, <1>3 DEF Sound, SettlementSound

(* A settlement that is not posted may be written: it counts for nothing.  *)
LEMMA SoundUnposted ==
    ASSUME NEW M, NEW b \in BooksRow(M), NEW c \in BooksRow(M), Sound(b),
           c.item = b.item, c.advance = b.advance, NEW s \in Settlements,
           b.settlement[s].status # "posted", c.settlement[s].status # "posted",
           \A a \in c.settlement[s].advance : b.advance[a].exists,
           \A t \in Settlements \ {s} : c.settlement[t] = b.settlement[t]
    PROVE  Sound(c)
<1>1. Posted(c) = Posted(b) /\ \A t \in Posted(b) : t # s
  BY DEF Posted
<1>2. \A t \in Posted(b) : c.settlement[t] = b.settlement[t]
  BY <1>1 DEF Posted
<1>3. \A i : AppliedTo(c, i) = AppliedTo(b, i)
  BY <1>1, <1>2, PostedSame
<1>4. \A a : DrawnFrom(c, a) = DrawnFrom(b, a)
  BY <1>1, <1>2, PostedSame
<1>5. ASSUME NEW t \in Settlements PROVE SettlementSound(c, t)
  BY DEF Sound, SettlementSound
<1> QED
  BY <1>3, <1>4, <1>5 DEF Sound

LEMMA CancelKeepsSound ==
    ASSUME NEW M, NEW b \in BooksRow(M), Sound(b), NEW s \in Settlements, CanCancel(b, s)
    PROVE  Sound(CancelEffect(b, s))
<1> DEFINE c == CancelEffect(b, s)
           lines == b.settlement[s].lines
           move == Releasing(b, s)
           moved == Moved(b, move)
<1>1. CASE b.settlement[s].status = "draft"
  <2>1. /\ c \in BooksRow(M) /\ c.item = b.item /\ c.advance = b.advance
        /\ \A t \in Settlements \ {s} : c.settlement[t] = b.settlement[t]
        /\ c.settlement[s].status = "cancelled"
        /\ c.settlement[s].advance = b.settlement[s].advance
    BY <1>1, CancelDraftIs
  <2>2. \A a \in b.settlement[s].advance : b.advance[a].exists
    BY DEF Sound, SettlementSound
  <2> HIDE DEF c
  <2>3. Sound(c)
    BY <1>1, <2>1, <2>2, SoundUnposted
  <2> QED
    BY <2>3 DEF c
<1>2. CASE b.settlement[s].status = "posted"
  <2>1. /\ c \in BooksRow(M) /\ c.item = moved.item
        /\ \A a \in Advances : c.advance[a] =
              IF a \in b.settlement[s].advance
              THEN Released(b.advance[a], b.advance[a].adjusted - Total(lines))
              ELSE b.advance[a]
        /\ \A t \in Settlements \ {s} : c.settlement[t] = b.settlement[t]
        /\ c.settlement[s].status = "cancelled"
        /\ c.settlement[s].advance = b.settlement[s].advance
    BY <1>2, CancelPostedIs
  <2>2. move \in [Items -> Int] /\ \A i \in Items : move[i] = -SumOn(lines, i)
    <3>1. \A i \in Items : SumOn(lines, i) \in Int
      BY PostedAdd
    <3> HIDE DEF lines
    <3>2. move = [i \in Items |-> -SumOn(lines, i)]
      BY DEF Releasing, lines
    <3> HIDE DEF move
    <3> QED
      BY <3>1, <3>2
  <2>3. \A i \in Items : /\ moved.item[i].settled = b.item[i].settled + move[i]
                         /\ ItemSound(b.item[i]) => ItemSound(moved.item[i])
    BY <2>2, MovedIs
  <2>4. b.settlement[s].total = Total(lines) /\ SettlementSound(b, s)
    BY <1>2 DEF Sound, SettlementSound
  <2> HIDE DEF c, lines, moved, move
  <2>5. s \in Posted(b) /\ s \notin Posted(c)
    BY <1>2, <2>1 DEF Posted
  <2>6. /\ \A i : AppliedTo(c, i) = AppliedTo(b, i) - SumOn(lines, i)
        /\ \A a \in b.settlement[s].advance : DrawnFrom(c, a) = DrawnFrom(b, a) - Total(lines)
        /\ \A a : a \notin b.settlement[s].advance => DrawnFrom(c, a) = DrawnFrom(b, a)
    <3>1. /\ \A i : AppliedTo(c, i) = AppliedTo(b, i) - SumOn(b.settlement[s].lines, i)
          /\ \A a \in b.settlement[s].advance :
                DrawnFrom(c, a) = DrawnFrom(b, a) - b.settlement[s].total
          /\ \A a : a \notin b.settlement[s].advance => DrawnFrom(c, a) = DrawnFrom(b, a)
      BY <2>1, <2>5, PostedLoses
    <3> QED
      BY <2>4, <3>1 DEF lines
  <2>7. ASSUME NEW i \in Items PROVE c.item[i].settled = AppliedTo(c, i) /\ ItemSound(c.item[i])
    <3>1. b.item[i].settled \in Int /\ SumOn(lines, i) \in Int
      BY PostedAdd DEF BooksRow, ItemRow, lines
    <3>2. b.item[i].settled = AppliedTo(b, i) /\ ItemSound(b.item[i])
      BY DEF Sound
    <3> QED
      BY <2>1, <2>2, <2>3, <2>6, <3>1, <3>2
  <2>8. ASSUME NEW a \in Advances
        PROVE  /\ c.advance[a].adjusted = DrawnFrom(c, a) /\ AdvanceSound(c.advance[a])
               /\ b.advance[a].exists => c.advance[a].exists
    <3>1. b.advance[a] \in AdvanceRow /\ b.advance[a].adjusted = DrawnFrom(b, a)
          /\ AdvanceSound(b.advance[a])
      BY DEF Sound, BooksRow
    <3>2. CASE a \notin b.settlement[s].advance
      BY <2>1, <2>6, <3>1, <3>2
    <3>3. CASE a \in b.settlement[s].advance
      <4> DEFINE x == b.advance[a].adjusted - Total(lines)
      <4>1. s \in Drawing(b, a)
        BY <1>2, <3>3 DEF Drawing
      <4>2. Total(lines) \in Nat /\ Total(lines) <= DrawnFrom(b, a)
        BY <2>4, <4>1, DrawnAtLeast
      <4>3. x \in Int /\ 0 <= x /\ x <= b.advance[a].original
        BY <3>1, <4>2 DEF AdvanceRow, AdvanceSound
      <4> HIDE DEF x
      <4>4. LET new == Released(b.advance[a], x)
            IN  new.adjusted = x /\ new.exists = b.advance[a].exists /\ AdvanceSound(new)
        BY <3>1, <4>3, ReleasedIs
      <4>5. c.advance[a] = Released(b.advance[a], x)
        BY <2>1, <3>3 DEF x
      <4> QED
        BY <2>6, <3>1, <3>3, <4>4, <4>5 DEF x
    <3> QED
      BY <3>2, <3>3
  <2>9. ASSUME NEW t \in Settlements PROVE SettlementSound(c, t)
    <3>1. SettlementSound(b, t) /\ b.settlement[t].advance \subseteq Advances
      BY OneAdvance DEF Sound, BooksRow
    <3>2. c.settlement[t].advance = b.settlement[t].advance
      BY <2>1
    <3>3. c.settlement[t].status = "posted" => c.settlement[t] = b.settlement[t]
      BY <2>1
    <3> QED
      BY <2>8, <3>1, <3>2, <3>3 DEF SettlementSound
  <2>10. Sound(c)
    BY <2>7, <2>8, <2>9 DEF Sound
  <2> QED
    BY <2>10 DEF c
<1> QED
  BY <1>1, <1>2 DEF CanCancel
-----------------------------------------------------------------------------
(* Writing one header, or one item.                                        *)
LEMMA GrossIsNat ==
    /\ UNION Range(Gross) \subseteq Nat
    /\ \A i \in Items : Gross[i] \subseteq UNION Range(Gross)
<1>1. Gross \in [Items -> SUBSET Nat]
  BY ReceivablesAssumption
<1>2. Range(Gross) = {Gross[i] : i \in Items}
  BY <1>1 DEF Range
<1> QED
  BY <1>1, <1>2

LEMMA RecomputedIs ==
    ASSUME NEW h \in HeaderRow
    PROVE  /\ Recomputed(h) \in HeaderRow
           /\ Recomputed(h).amount = h.amount /\ Recomputed(h).status = h.status
<1> DEFINE settled == Max({0, Min({h.settled, h.amount})})
<1>1. h.amount \in Int /\ h.settled \in Int
  BY GrossIsNat DEF HeaderRow
<1>2. Min({h.settled, h.amount}) \in Int
  BY <1>1, MinOfTwo
<1>3. settled \in Int
  <2> DEFINE m == Min({h.settled, h.amount})
  <2> HIDE DEF m
  <2>1. m \in Int
    BY <1>2 DEF m
  <2>2. Max({0, m}) \in Int
    BY <2>1, MaxOfTwo
  <2> QED
    BY <2>2 DEF m
<1>4. Recomputed(h) = [h EXCEPT !.settled = settled, !.outstanding = h.amount - settled]
  BY DEF Recomputed
<1> HIDE DEF settled
<1>5. h.amount - settled \in Int
  BY <1>1, <1>3
<1> QED
  BY <1>3, <1>4, <1>5 DEF HeaderRow

WriteHeader(b, i, h) == [b EXCEPT !.header[i] = h]
WriteItem(b, i, it)  == [b EXCEPT !.item[i] = it]

LEMMA HeaderWritten ==
    ASSUME NEW M, NEW b \in BooksRow(M), NEW i \in Items, NEW h \in HeaderRow,
           NEW c, c = WriteHeader(b, i, h)
    PROVE  /\ c \in BooksRow(M)
           /\ c.item = b.item /\ c.advance = b.advance /\ c.settlement = b.settlement
           /\ c.header[i] = h /\ \A j \in Items \ {i} : c.header[j] = b.header[j]
BY DEF BooksRow, WriteHeader

LEMMA ItemWritten ==
    ASSUME NEW M, NEW b \in BooksRow(M), NEW i \in Items, NEW it \in ItemRow,
           NEW c, c = WriteItem(b, i, it)
    PROVE  /\ c \in BooksRow(M)
           /\ c.header = b.header /\ c.advance = b.advance /\ c.settlement = b.settlement
           /\ c.item[i] = it /\ \A j \in Items \ {i} : c.item[j] = b.item[j]
BY DEF BooksRow, WriteItem

(* The figures of the header of a document are set to those of its item.   *)
LEMMA SyncHeaderIs ==
    ASSUME NEW M, NEW b \in BooksRow(M), NEW i \in Items, NEW c, c = SyncHeader(b, i)
    PROVE  /\ c \in BooksRow(M)
           /\ c.item = b.item /\ c.advance = b.advance /\ c.settlement = b.settlement
           /\ \A j \in Items \ {i} : c.header[j] = b.header[j]
           /\ c.header[i].status = b.header[i].status /\ c.header[i].amount = b.header[i].amount
           /\ Mirrored(c, i)
<1> DEFINE h == [b.header[i] EXCEPT !.settled = b.item[i].settled,
                                    !.outstanding = b.item[i].outstanding]
<1>1. b.header[i] \in HeaderRow /\ b.item[i] \in ItemRow
  BY DEF BooksRow
<1>2. h \in HeaderRow
  BY <1>1 DEF HeaderRow, ItemRow
<1>3. /\ h.settled = b.item[i].settled /\ h.outstanding = b.item[i].outstanding
      /\ h.status = b.header[i].status /\ h.amount = b.header[i].amount
  BY <1>1 DEF HeaderRow
<1>4. c = WriteHeader(b, i, h)
  BY <1>1 DEF SyncHeader, BooksRow, HeaderRow, WriteHeader
<1> HIDE DEF h
<1>5. /\ c \in BooksRow(M)
      /\ c.item = b.item /\ c.advance = b.advance /\ c.settlement = b.settlement
      /\ c.header[i] = h /\ \A j \in Items \ {i} : c.header[j] = b.header[j]
  BY <1>2, <1>4, HeaderWritten
<1> QED
  BY <1>3, <1>5 DEF Mirrored, Worth, Follows

(* A closed item shows nothing to pay, and keeps what was settled.         *)
LEMMA CloseItemIs ==
    ASSUME NEW M, NEW b \in BooksRow(M), NEW i \in Items, NEW c, c = CloseItem(b, i)
    PROVE  /\ c \in BooksRow(M) /\ c.advance = b.advance /\ c.settlement = b.settlement
           /\ \A j \in Items \ {i} : c.header[j] = b.header[j] /\ c.item[j] = b.item[j]
           /\ c.header[i].status = b.header[i].status /\ c.header[i].amount = b.header[i].amount
           /\ c.item[i].original = b.item[i].original /\ c.item[i].settled = b.item[i].settled
           /\ ItemSound(b.item[i]) => ItemSound(c.item[i])
<1>1. b.header[i] \in HeaderRow /\ b.item[i] \in ItemRow
  BY DEF BooksRow
<1>2. CASE b.item[i].exists
  <2> DEFINE it == [b.item[i] EXCEPT !.open = FALSE, !.outstanding = 0]
             d == [b EXCEPT !.item[i].open = FALSE, !.item[i].outstanding = 0]
  <2>1. it \in ItemRow
    <3> DEFINE old == b.item[i]
               shut == FALSE
    <3>1. shut \in BOOLEAN /\ it = [old EXCEPT !.open = shut, !.outstanding = 0]
      OBVIOUS
    <3>2. old \in ItemRow
      BY <1>1
    <3> HIDE DEF it, old, shut
    <3>3. /\ it = [exists |-> old.exists, original |-> old.original, settled |-> old.settled,
                   outstanding |-> 0, open |-> shut]
          /\ old.exists \in BOOLEAN /\ old.original \in Int /\ old.settled \in Int
      BY <3>1, <3>2 DEF ItemRow
    <3> QED
      BY <3>1, <3>3 DEF ItemRow
  <2>2. /\ it.original = b.item[i].original /\ it.settled = b.item[i].settled
        /\ ItemSound(it)
    BY <1>1 DEF ItemRow, ItemSound
  <2>3. d = WriteItem(b, i, it)
    BY <1>1 DEF BooksRow, ItemRow, WriteItem
  <2>4. c = SyncHeader(d, i)
    BY <1>2 DEF CloseItem
  <2> HIDE DEF it, d
  <2>5. /\ d \in BooksRow(M)
        /\ d.header = b.header /\ d.advance = b.advance /\ d.settlement = b.settlement
        /\ d.item[i] = it /\ \A j \in Items \ {i} : d.item[j] = b.item[j]
    BY <2>1, <2>3, ItemWritten
  <2>6. /\ c \in BooksRow(M)
        /\ c.item = d.item /\ c.advance = d.advance /\ c.settlement = d.settlement
        /\ \A j \in Items \ {i} : c.header[j] = d.header[j]
        /\ c.header[i].status = d.header[i].status /\ c.header[i].amount = d.header[i].amount
    BY <2>4, <2>5, SyncHeaderIs, SMTT(30)
  <2> QED
    BY <2>2, <2>5, <2>6
<1>3. CASE ~b.item[i].exists
  BY <1>3 DEF CloseItem
<1> QED
  BY <1>2, <1>3

(* The item of a document being posted is made that of its header.         *)
LEMMA SnapshotIs ==
    ASSUME NEW M, NEW b \in BooksRow(M), NEW i \in Items, NEW c, c = Snapshot(b, i)
    PROVE  /\ c \in BooksRow(M)
           /\ c.header = b.header /\ c.advance = b.advance /\ c.settlement = b.settlement
           /\ \A j \in Items \ {i} : c.item[j] = b.item[j]
           /\ c.item[i].original = Net(b.header[i], i) /\ c.item[i].settled = b.item[i].settled
           /\ ItemSound(c.item[i]) /\ PostedSound(c, i)
<1> DEFINE old == b.item[i]
           it == [old EXCEPT !.exists = TRUE, !.original = Net(b.header[i], i)]
           new == Settled(it, old.settled)
<1>1. old \in ItemRow /\ b.header[i] \in HeaderRow
  BY DEF BooksRow
<1>2. Net(b.header[i], i) \in Int
  <2>1. b.header[i].amount \in Int
    BY <1>1, GrossIsNat DEF HeaderRow
  <2> QED
    BY <2>1 DEF Net, DocSign
<1>3. it \in ItemRow /\ it.original = Net(b.header[i], i) /\ old.settled \in Int
  BY <1>1, <1>2 DEF ItemRow
<1>4. c = WriteItem(b, i, new)
  BY <1>1 DEF Snapshot, BooksRow, WriteItem
<1> HIDE DEF it
<1>5. /\ new \in ItemRow /\ ItemSound(new) /\ new.settled = old.settled
      /\ new.original = Net(b.header[i], i)
      /\ ~new.open => Size(new.original - new.settled) <= TOL
  BY <1>3, SettledIs
<1> HIDE DEF new
<1>6. /\ c \in BooksRow(M)
      /\ c.header = b.header /\ c.advance = b.advance /\ c.settlement = b.settlement
      /\ c.item[i] = new /\ \A j \in Items \ {i} : c.item[j] = b.item[j]
  BY <1>4, <1>5, ItemWritten
<1> QED
  BY <1>5, <1>6 DEF PostedSound
-----------------------------------------------------------------------------
(* Drafts, and the lines they are made of.                                 *)
Asked  == [item : Items, amount : Int]
Payers == {{}} \cup {{a} : a \in Advances}

LEMMA DraftIs ==
    ASSUME NEW M, NEW lines \in Seq(Asked), NEW adv \in Payers, NEW marker \in SUBSET M
    PROVE  LET d == Draft(lines, adv, marker)
           IN  /\ d \in SettlementRow(M)
               /\ d.status = "draft" /\ d.advance = adv /\ d.marker = marker
               /\ Len(d.lines) = Len(lines) /\ DOMAIN d.lines = DOMAIN lines
               /\ \A k \in DOMAIN lines : /\ d.lines[k].item = lines[k].item
                                          /\ d.lines[k].amount = lines[k].amount
                                          /\ d.lines[k].applied = 0
<1> DEFINE n == Len(lines)
           rows == [k \in DOMAIN lines |-> [item |-> lines[k].item,
                       amount |-> lines[k].amount, applied |-> 0]]
           amounts == [k \in DOMAIN lines |-> lines[k].amount]
           total == SumFunction(amounts)
           d == Draft(lines, adv, marker)
<1>1. n \in Nat /\ DOMAIN lines = 1..n /\ \A k \in 1..n : lines[k] \in Asked
  OBVIOUS
<1>2. \A k \in 1..n : lines[k].item \in Items /\ lines[k].amount \in Int
  BY <1>1 DEF Asked
<1>3. rows \in Seq(LineRow) /\ Len(rows) = n /\ DOMAIN rows = DOMAIN lines
  <2>1. rows \in [1..n -> LineRow]
    BY <1>1, <1>2 DEF LineRow
  <2> HIDE DEF rows, n
  <2> QED
    BY <1>1, <2>1, SeqDef
<1>4. total \in Int
  <2>1. DOMAIN amounts = DOMAIN lines /\ \A k \in DOMAIN lines : amounts[k] \in Int
    BY <1>1, <1>2
  <2>2. IsFiniteSet(DOMAIN lines)
    BY <1>1, FS_Interval
  <2> HIDE DEF amounts
  <2> QED
    BY <2>1, <2>2, SumIsInt DEF SumFunction
<1>5. d = [status |-> "draft", advance |-> adv, marker |-> marker, lines |-> rows,
           total |-> total]
  BY DEF Draft
<1>6. \A k \in DOMAIN lines : /\ rows[k].item = lines[k].item
                              /\ rows[k].amount = lines[k].amount /\ rows[k].applied = 0
  OBVIOUS
<1> HIDE DEF rows, total, d, n
<1>7. d \in SettlementRow(M)
  <2> DEFINE L == Seq(LineRow)
             K == SUBSET M
  <2>1. SettlementRow(M) = [status : Statuses, lines : L, advance : Payers, total : Int,
                            marker : K]
    BY DEF SettlementRow, Statuses, Payers
  <2>2. rows \in L /\ marker \in K /\ "draft" \in Statuses
    BY <1>3 DEF Statuses
  <2> HIDE DEF L, K
  <2>3. d \in [status : Statuses, lines : L, advance : Payers, total : Int, marker : K]
    BY <1>4, <1>5, <2>2
  <2> QED
    BY <2>1, <2>3
<1> QED
  BY <1>3, <1>5, <1>6, <1>7 DEF d, n

LEMMA AutoLinesAre ==
    ASSUME NEW M, NEW b \in BooksRow(M), NEW i \in Items, NEW t \in Items, NEW owed \in Nat
    PROVE  LET lines == AutoLines(b, i, t, owed)
               amt == Min({owed, Size(b.item[i].outstanding)})
           IN  /\ lines \in Seq(Asked) /\ DOMAIN lines = 1..2 /\ amt \in Int
               /\ lines[1].item = t /\ lines[2].item = i
               /\ lines[1].amount = amt /\ lines[2].amount = amt
<1> DEFINE amt == Min({owed, Size(b.item[i].outstanding)})
           lines == AutoLines(b, i, t, owed)
<1>1. owed \in Int /\ Size(b.item[i].outstanding) \in Int
  BY DEF BooksRow, ItemRow, Size
<1>2. amt \in Int
  BY <1>1, MinOfTwo
<1>3. lines = <<[item |-> t, amount |-> amt], [item |-> i, amount |-> amt]>>
  BY DEF AutoLines
<1> HIDE DEF amt, lines
<1> DEFINE x == [item |-> t, amount |-> amt]
           y == [item |-> i, amount |-> amt]
<1>4. /\ x \in Asked /\ y \in Asked /\ x.item = t /\ y.item = i
      /\ x.amount = amt /\ y.amount = amt
  BY <1>2 DEF Asked
<1> HIDE DEF x, y
<1>5. lines = <<x, y>>
  BY <1>3 DEF x, y
<1>6. <<x, y>> \in Seq(Asked) /\ DOMAIN <<x, y>> = 1..2 /\ <<x, y>>[1] = x /\ <<x, y>>[2] = y
  BY <1>4
<1> QED
  BY <1>2, <1>4, <1>5, <1>6 DEF amt, lines

LEMMA FifoLinesAre ==
    ASSUME item \in [Items -> ItemRow], NEW amount \in Int
    PROVE  FifoLines(amount) \in Seq(Asked)
<1> DEFINE n == Len(DueOrder)
           V == [lines : Seq(Asked), left : Int]
           first == [lines |-> <<>>, left |-> amount]
           step == [k \in 1..n |-> [f \in V |-> Served(f, DueOrder[k])]]
<1>1. n \in Nat /\ \A k \in 1..n : DueOrder[k] \in Items
  BY ReceivablesAssumption
<1>2. first \in V
  OBVIOUS
<1>3. ASSUME NEW f \in V, NEW i \in Items PROVE Served(f, i) \in V
  <2> DEFINE can == Min({item[i].outstanding, f.left})
             ln == [item |-> i, amount |-> can]
  <2>1. item[i].outstanding \in Int /\ f.left \in Int /\ f.lines \in Seq(Asked)
    BY DEF ItemRow
  <2>2. can \in Int
    BY <2>1, MinOfTwo
  <2> HIDE DEF can
  <2>3. ln \in Asked
    BY <2>2 DEF Asked
  <2> HIDE DEF ln
  <2>4. Append(f.lines, ln) \in Seq(Asked) /\ f.left - can \in Int
    BY <2>1, <2>2, <2>3
  <2>5. [lines |-> Append(f.lines, ln), left |-> f.left - can] \in V
    BY <2>4
  <2>6. Served(f, i) = f \/ Served(f, i) = [lines |-> Append(f.lines, ln), left |-> f.left - can]
    BY DEF Served, can, ln
  <2> QED
    BY <2>5, <2>6
<1> HIDE DEF n, V, first
<1>4. PICK g \in Loops(n, V, first, step) : TRUE
  <2>1. \A k \in 1..n : \A f \in V : step[k][f] \in V
    BY <1>1, <1>3
  <2> HIDE DEF step
  <2> QED
    BY <1>1, <1>2, <2>1, LoopExists
<1>5. g = [k \in 0..n |-> IF k = 0 THEN first ELSE Served(g[k-1], DueOrder[k])]
  <2>1. ASSUME NEW k \in 0..n
        PROVE  (IF k = 0 THEN first ELSE step[k][g[k-1]])
                  = (IF k = 0 THEN first ELSE Served(g[k-1], DueOrder[k]))
    <3>1. k # 0 => k \in 1..n /\ k - 1 \in 0..n
      BY <1>1
    <3>2. g \in [0..n -> V]
      BY <1>4 DEF Loops
    <3> QED
      BY <3>1, <3>2
  <2> HIDE DEF step
  <2> QED
    BY <1>4, <2>1 DEF Loops
<1> DEFINE fifo == CHOOSE h : h = [k \in 0..n |-> IF k = 0 THEN first
                                                ELSE Served(h[k-1], DueOrder[k])]
<1>6. fifo = [k \in 0..n |-> IF k = 0 THEN first ELSE Served(fifo[k-1], DueOrder[k])]
  BY <1>5
<1>7. FifoLines(amount) = fifo[n].lines
  BY DEF FifoLines, n, first
<1> HIDE DEF fifo
<1>8. fifo[0] = first /\ \A k \in 1..n : fifo[k] = Served(fifo[k-1], DueOrder[k])
  <2>1. \A k \in 0..n : fifo[k] = IF k = 0 THEN first ELSE Served(fifo[k-1], DueOrder[k])
    BY <1>6
  <2>2. 0 \in 0..n /\ \A k \in 1..n : k \in 0..n /\ k # 0
    BY <1>1
  <2> QED
    BY <2>1, <2>2
<1>9. \A k \in 0..n : fifo[k] \in V
  BY <1>1, <1>2, <1>3, <1>8, LoopTyped
<1> QED
  BY <1>1, <1>7, <1>9 DEF V
-----------------------------------------------------------------------------
(* The tables are good when they are typed, their sums are right and the   *)
(* items of posted documents are theirs; each service call keeps them so.  *)
Good(M, b) == /\ b \in BooksRow(M)
           /\ Sound(b)
           /\ \A i \in Items : PostedSound(b, i)

\* c has the settlements of b, and the same worth and settled amounts.
RowsKept(b, c) ==
    /\ c.settlement = b.settlement
    /\ \A j \in Items : /\ c.item[j].settled = b.item[j].settled
                        /\ c.item[j].original = b.item[j].original

AmountsKept(b, c) == \A j \in Items : c.header[j].amount = b.header[j].amount

(* A header is written that is not posted, or whose status and amount stay.*)
LEMMA GoodHeader ==
    ASSUME NEW M, NEW b, Good(M, b), NEW i \in Items, NEW h \in HeaderRow,
           \/ h.status # "posted"
           \/ h.status = b.header[i].status /\ h.amount = b.header[i].amount
    PROVE  /\ Good(M, WriteHeader(b, i, h))
           /\ Worth(b, i) => Worth(WriteHeader(b, i, h), i)
           /\ h.status # "posted" => Follows(b, WriteHeader(b, i, h), i)
           /\ \A j \in Items \ {i} : Follows(b, WriteHeader(b, i, h), j)
           /\ RowsKept(b, WriteHeader(b, i, h))
           /\ h.amount = b.header[i].amount => AmountsKept(b, WriteHeader(b, i, h))
<1> DEFINE c == WriteHeader(b, i, h)
<1>1. b \in BooksRow(M) /\ Sound(b) /\ \A j \in Items : PostedSound(b, j)
  BY DEF Good
<1> HIDE DEF c
<1>2. /\ c \in BooksRow(M)
      /\ c.item = b.item /\ c.advance = b.advance /\ c.settlement = b.settlement
      /\ c.header[i] = h /\ \A j \in Items \ {i} : c.header[j] = b.header[j]
  BY <1>1, HeaderWritten DEF c
<1>3. Sound(c)
  <2>1. \A j \in Items : c.item[j].settled = b.item[j].settled /\ ItemSound(c.item[j])
    BY <1>1, <1>2 DEF Sound
  <2> QED
    BY <1>1, <1>2, <2>1, SoundRows
<1>4. ASSUME NEW j \in Items PROVE PostedSound(c, j)
  BY <1>1, <1>2 DEF PostedSound, Net
<1>5. /\ h.status # "posted" => Follows(b, c, i)
      /\ Worth(b, i) => Worth(c, i)
      /\ \A j \in Items \ {i} : Follows(b, c, j)
  BY <1>2 DEF Mirrored, Worth, Follows, Net
<1>6. RowsKept(b, c) /\ (h.amount = b.header[i].amount => AmountsKept(b, c))
  BY <1>2 DEF RowsKept, AmountsKept
<1> QED
  BY <1>2, <1>3, <1>4, <1>5, <1>6 DEF Good, c

(* A header is marked posted and its item made to match.                   *)
LEMMA GoodSnapshot ==
    ASSUME NEW M, NEW b, Good(M, b), NEW i \in Items, NEW h \in HeaderRow, NEW c,
           c = Snapshot(WriteHeader(b, i, h), i)
    PROVE  /\ Good(M, c) /\ c.settlement = b.settlement /\ Worth(c, i)
           /\ \A j \in Items \ {i} : Follows(b, c, j)
           /\ \A j \in Items \ {i} : c.item[j] = b.item[j]
           /\ c.item[i].settled = b.item[i].settled /\ c.item[i].original = Net(h, i)
           /\ h.amount = b.header[i].amount => AmountsKept(b, c)
<1> DEFINE d == WriteHeader(b, i, h)
<1>1. b \in BooksRow(M) /\ Sound(b) /\ \A j \in Items : PostedSound(b, j)
  BY DEF Good
<1> HIDE DEF d
<1>2. /\ d \in BooksRow(M)
      /\ d.item = b.item /\ d.advance = b.advance /\ d.settlement = b.settlement
      /\ d.header[i] = h /\ \A j \in Items \ {i} : d.header[j] = b.header[j]
  BY <1>1, HeaderWritten DEF d
<1>3. /\ c \in BooksRow(M)
      /\ c.header = d.header /\ c.advance = d.advance /\ c.settlement = d.settlement
      /\ \A j \in Items \ {i} : c.item[j] = d.item[j]
      /\ c.item[i].settled = d.item[i].settled /\ c.item[i].original = Net(d.header[i], i)
      /\ ItemSound(c.item[i]) /\ PostedSound(c, i)
  BY <1>2, SnapshotIs DEF d
<1>4. Sound(c)
  <2>1. \A j \in Items : c.item[j].settled = b.item[j].settled /\ ItemSound(c.item[j])
    BY <1>1, <1>2, <1>3 DEF Sound
  <2> QED
    BY <1>1, <1>2, <1>3, <2>1, SoundRows
<1>5. ASSUME NEW j \in Items PROVE PostedSound(c, j)
  BY <1>1, <1>2, <1>3 DEF PostedSound, Net
<1>6. Worth(c, i) /\ \A j \in Items \ {i} : Follows(b, c, j)
  BY <1>2, <1>3 DEF Mirrored, Worth, Follows, Net
<1>7. h.amount = b.header[i].amount => AmountsKept(b, c)
  BY <1>2, <1>3 DEF AmountsKept
<1> QED
  BY <1>2, <1>3, <1>4, <1>5, <1>6, <1>7 DEF Good

LEMMA GoodSync ==
    ASSUME NEW M, NEW b, Good(M, b), NEW i \in Items
    PROVE  /\ Good(M, SyncHeader(b, i)) /\ Mirrored(SyncHeader(b, i), i)
           /\ Worth(b, i) => Worth(SyncHeader(b, i), i)
           /\ \A j \in Items : Follows(b, SyncHeader(b, i), j)
           /\ RowsKept(b, SyncHeader(b, i)) /\ AmountsKept(b, SyncHeader(b, i))
<1> DEFINE c == SyncHeader(b, i)
<1>1. b \in BooksRow(M) /\ Sound(b) /\ \A j \in Items : PostedSound(b, j)
  BY DEF Good
<1> HIDE DEF c
<1>2. /\ c \in BooksRow(M)
      /\ c.item = b.item /\ c.advance = b.advance /\ c.settlement = b.settlement
      /\ \A j \in Items \ {i} : c.header[j] = b.header[j]
      /\ c.header[i].status = b.header[i].status /\ c.header[i].amount = b.header[i].amount
      /\ Mirrored(c, i)
  BY <1>1, SyncHeaderIs DEF c
<1>3. Sound(c)
  <2>1. \A j \in Items : c.item[j].settled = b.item[j].settled /\ ItemSound(c.item[j])
    BY <1>1, <1>2 DEF Sound
  <2> QED
    BY <1>1, <1>2, <2>1, SoundRows
<1>4. ASSUME NEW j \in Items PROVE PostedSound(c, j)
  BY <1>1, <1>2 DEF PostedSound, Net
<1>5. (Worth(b, i) => Worth(c, i)) /\ \A j \in Items : Follows(b, c, j)
  BY <1>2 DEF Mirrored, Worth, Follows, Net
<1>6. RowsKept(b, c) /\ AmountsKept(b, c)
  BY <1>2 DEF RowsKept, AmountsKept
<1> QED
  BY <1>2, <1>3, <1>4, <1>5, <1>6 DEF Good, c

(* Only the item of a document that is not posted may be closed.           *)
LEMMA GoodClose ==
    ASSUME NEW M, NEW b, Good(M, b), NEW i \in Items, b.header[i].status # "posted"
    PROVE  /\ Good(M, CloseItem(b, i)) /\ Mirrored(CloseItem(b, i), i)
           /\ \A j \in Items : Follows(b, CloseItem(b, i), j)
           /\ CloseItem(b, i).header[i].status = b.header[i].status
           /\ RowsKept(b, CloseItem(b, i)) /\ AmountsKept(b, CloseItem(b, i))
<1> DEFINE c == CloseItem(b, i)
<1>1. b \in BooksRow(M) /\ Sound(b) /\ \A j \in Items : PostedSound(b, j)
  BY DEF Good
<1> HIDE DEF c
<1>2. /\ c \in BooksRow(M) /\ c.advance = b.advance /\ c.settlement = b.settlement
      /\ \A j \in Items \ {i} : c.header[j] = b.header[j] /\ c.item[j] = b.item[j]
      /\ c.header[i].status = b.header[i].status /\ c.header[i].amount = b.header[i].amount
      /\ c.item[i].original = b.item[i].original
      /\ c.item[i].settled = b.item[i].settled
      /\ ItemSound(b.item[i]) => ItemSound(c.item[i])
  BY <1>1, CloseItemIs DEF c
<1>3. Sound(c)
  <2>1. \A j \in Items : c.item[j].settled = b.item[j].settled /\ ItemSound(c.item[j])
    BY <1>1, <1>2 DEF Sound
  <2> QED
    BY <1>1, <1>2, <2>1, SoundRows
<1>4. ASSUME NEW j \in Items PROVE PostedSound(c, j)
  BY <1>1, <1>2 DEF PostedSound, Net
<1>5. Mirrored(c, i) /\ \A j \in Items : Follows(b, c, j)
  BY <1>2 DEF Mirrored, Worth, Follows, Net
<1>6. RowsKept(b, c) /\ AmountsKept(b, c)
  BY <1>2 DEF RowsKept, AmountsKept
<1> QED
  BY <1>2, <1>3, <1>4, <1>5, <1>6 DEF Good, c

LEMMA GoodPost ==
    ASSUME NEW M, NEW b, Good(M, b), NEW s \in Settlements, b.settlement[s].status # "posted"
    PROVE  /\ Good(M, PostEffect(b, s))
           /\ \A j \in Items : Follows(b, PostEffect(b, s), j)
           /\ AmountsKept(b, PostEffect(b, s))
<1> DEFINE c == PostEffect(b, s)
           move == Applying(b, s)
           moved == Moved(b, move)
<1>1. b \in BooksRow(M) /\ Sound(b) /\ \A j \in Items : PostedSound(b, j)
  BY DEF Good
<1>2. c \in BooksRow(M) /\ c.header = moved.header /\ c.item = moved.item
  BY <1>1, PostEffectIs
<1>3. Sound(c)
  BY <1>1, PostKeepsSound
<1>4. move \in [Items -> Int]
  BY <1>1, AppliedLinesAre, LinesAdd DEF Applying
<1> HIDE DEF c, move, moved
<1>5. \A j \in Items : /\ PostedSound(b, j) => PostedSound(moved, j)
                       /\ Follows(b, moved, j)
                       /\ moved.header[j].amount = b.header[j].amount
  BY <1>1, <1>4, MovedIs DEF moved
<1>6. \A j \in Items : /\ PostedSound(b, j) => PostedSound(c, j)
                       /\ Follows(b, c, j)
  BY <1>2, <1>5 DEF PostedSound, Mirrored, Worth, Follows, Net
<1>7. AmountsKept(b, c)
  BY <1>2, <1>5 DEF AmountsKept
<1> QED
  BY <1>1, <1>2, <1>3, <1>6, <1>7 DEF Good, c

LEMMA GoodCancel ==
    ASSUME NEW M, NEW b, Good(M, b), NEW s \in Settlements, CanCancel(b, s)
    PROVE  /\ Good(M, CancelEffect(b, s))
           /\ \A j \in Items : Follows(b, CancelEffect(b, s), j)
           /\ AmountsKept(b, CancelEffect(b, s))
<1> DEFINE c == CancelEffect(b, s)
           move == Releasing(b, s)
           moved == Moved(b, move)
<1>1. b \in BooksRow(M) /\ Sound(b) /\ \A j \in Items : PostedSound(b, j)
  BY DEF Good
<1>2. Sound(c)
  BY <1>1, CancelKeepsSound
<1>3. c \in BooksRow(M)
  BY <1>1, CancelDraftIs, CancelPostedIs DEF CanCancel
<1>4. \/ c.header = b.header /\ c.item = b.item
      \/ c.header = moved.header /\ c.item = moved.item
  BY <1>1, CancelDraftIs, CancelPostedIs DEF CanCancel
<1>5. move \in [Items -> Int]
  <2>1. \A i \in Items : SumOn(b.settlement[s].lines, i) \in Int
    BY <1>1, PostedAdd
  <2> QED
    BY <2>1 DEF Releasing
<1> HIDE DEF c, move, moved
<1>6. \A j \in Items : /\ PostedSound(b, j) => PostedSound(moved, j)
                       /\ Follows(b, moved, j)
                       /\ moved.header[j].amount = b.header[j].amount
  BY <1>1, <1>5, MovedIs DEF moved
<1>7. \A j \in Items : /\ PostedSound(b, j) => PostedSound(c, j)
                       /\ Follows(b, c, j)
  BY <1>4, <1>6 DEF PostedSound, Mirrored, Worth, Follows, Net
<1>8. AmountsKept(b, c)
  BY <1>4, <1>6 DEF AmountsKept
<1> QED
  BY <1>1, <1>2, <1>3, <1>7, <1>8 DEF Good, c

LEMMA GoodReversal ==
    ASSUME NEW M, NEW b, Good(M, b), NEW i \in Items
    PROVE  /\ Good(M, Reversed(b, i)) /\ Mirrored(Reversed(b, i), i)
           /\ \A j \in Items : Follows(b, Reversed(b, i), j)
           /\ Reversed(b, i).header[i].status = "confirmed"
           /\ RowsKept(b, Reversed(b, i)) /\ AmountsKept(b, Reversed(b, i))
<1> DEFINE yes == TRUE
           h == [b.header[i] EXCEPT !.status = "confirmed", !.reversed = yes]
           d == WriteHeader(b, i, h)
<1>1. b \in BooksRow(M) /\ b.header[i] \in HeaderRow
  BY DEF Good, BooksRow
<1>2. Reversed(b, i) = CloseItem([b EXCEPT !.header[i].status = "confirmed",
                                           !.header[i].reversed = yes], i)
  BY DEF Reversed
<1>3. yes \in BOOLEAN
  OBVIOUS
<1> HIDE DEF yes
<1>4. h \in HeaderRow /\ h.status = "confirmed" /\ h.amount = b.header[i].amount
  BY <1>1, <1>3 DEF HeaderRow
<1>5. d = [b EXCEPT !.header[i].status = "confirmed", !.header[i].reversed = yes]
  BY <1>1 DEF BooksRow, HeaderRow, WriteHeader
<1> HIDE DEF h
<1>6. /\ Good(M, d) /\ \A j \in Items : Follows(b, d, j)
      /\ RowsKept(b, d) /\ AmountsKept(b, d)
  BY <1>4, GoodHeader
<1>7. d.header[i].status = "confirmed"
  BY <1>1, <1>4, HeaderWritten
<1>8. Reversed(b, i) = CloseItem(d, i)
  BY <1>2, <1>5
<1> HIDE DEF d
<1> QED
  BY <1>6, <1>7, <1>8, GoodClose DEF RowsKept, AmountsKept, Follows

WriteSettlement(b, s, d) == [b EXCEPT !.settlement[s] = d]

(* A settlement that is not posted is replaced by one that is not.         *)
LEMMA GoodDraft ==
    ASSUME NEW M, NEW b, Good(M, b), NEW s \in Settlements, b.settlement[s].status # "posted",
           NEW d \in SettlementRow(M), d.status # "posted",
           \A a \in d.advance : b.advance[a].exists, NEW c, c = WriteSettlement(b, s, d)
    PROVE  /\ Good(M, c) /\ c.settlement[s] = d
           /\ c.header = b.header /\ c.item = b.item /\ c.advance = b.advance
           /\ \A t \in Settlements \ {s} : c.settlement[t] = b.settlement[t]
           /\ \A j \in Items : Follows(b, c, j)
<1>1. b \in BooksRow(M) /\ Sound(b) /\ \A j \in Items : PostedSound(b, j)
  BY DEF Good
<1>2. /\ c \in BooksRow(M) /\ c.settlement[s] = d
      /\ c.header = b.header /\ c.item = b.item /\ c.advance = b.advance
      /\ \A t \in Settlements \ {s} : c.settlement[t] = b.settlement[t]
  BY <1>1 DEF BooksRow, WriteSettlement
<1>3. Sound(c)
  BY <1>1, <1>2, SoundUnposted
<1>4. \A j \in Items : PostedSound(c, j) /\ Follows(b, c, j)
  BY <1>1, <1>2 DEF PostedSound, Mirrored, Worth, Follows, Net
<1> QED
  BY <1>2, <1>3, <1>4 DEF Good

(* A new advance has paid for nothing yet, and nothing has drawn on it.    *)
LEMMA GoodAdvance ==
    ASSUME NEW M, NEW b, Good(M, b), NEW a \in Advances, ~b.advance[a].exists,
           NEW amt \in Nat, NEW c, c = [b EXCEPT !.advance[a] = NewAdvance(amt)]
    PROVE  /\ Good(M, c) /\ c.header = b.header /\ c.item = b.item /\ c.settlement = b.settlement
           /\ \A j \in Items : Follows(b, c, j)
<1> DEFINE new == NewAdvance(amt)
           yes == TRUE
<1>1. b \in BooksRow(M) /\ Sound(b) /\ \A j \in Items : PostedSound(b, j)
  BY DEF Good
<1>2. new \in AdvanceRow /\ new.adjusted = 0 /\ AdvanceSound(new) /\ new.exists
  <2>1. new = [exists |-> yes, original |-> amt, adjusted |-> 0, outstanding |-> amt, open |-> yes]
        /\ yes \in BOOLEAN /\ (yes <=> TRUE)
    BY DEF NewAdvance
  <2> HIDE DEF yes, new
  <2> QED
    BY <2>1 DEF AdvanceRow, AdvanceSound
<1> HIDE DEF new
<1>3. /\ c \in BooksRow(M)
      /\ c.header = b.header /\ c.item = b.item /\ c.settlement = b.settlement
      /\ c.advance[a] = new /\ \A o \in Advances \ {a} : c.advance[o] = b.advance[o]
  BY <1>1, <1>2 DEF BooksRow, new
<1>4. DrawnFrom(b, a) = 0
  <2>1. /\ b.advance[a] \in AdvanceRow /\ AdvanceSound(b.advance[a])
        /\ b.advance[a].adjusted = DrawnFrom(b, a)
    BY <1>1 DEF Sound, BooksRow
  <2> QED
    BY <2>1 DEF AdvanceRow, AdvanceSound
<1>5. /\ \A i : AppliedTo(c, i) = AppliedTo(b, i)
      /\ \A o : DrawnFrom(c, o) = DrawnFrom(b, o)
  BY <1>3 DEF AppliedTo, DrawnFrom, Posted, Drawing
<1>6. ASSUME NEW s \in Settlements PROVE SettlementSound(c, s)
  <2>1. SettlementSound(b, s) /\ b.settlement[s].advance \subseteq Advances
    BY <1>1, OneAdvance DEF Sound, BooksRow
  <2> QED
    BY <1>2, <1>3, <2>1 DEF SettlementSound
<1>7. Sound(c)
  <2>1. \A o \in Advances : c.advance[o].adjusted = DrawnFrom(c, o) /\ AdvanceSound(c.advance[o])
    BY <1>1, <1>2, <1>3, <1>4, <1>5 DEF Sound
  <2> QED
    BY <1>1, <1>3, <1>5, <1>6, <2>1 DEF Sound
<1>8. \A j \in Items : PostedSound(c, j) /\ Follows(b, c, j)
  BY <1>1, <1>3 DEF PostedSound, Mirrored, Worth, Follows, Net
<1> QED
  BY <1>3, <1>7, <1>8 DEF Good
-----------------------------------------------------------------------------
(* The state: good tables, and requests that hold what they read of them.  *)
ReadsOk == /\ editing \in [Items -> SUBSET HeaderRow]
           /\ repairing \in [Items -> SUBSET Int]
           /\ adjusting \in [Items -> SUBSET Nat]
           /\ \A i \in Items : adjusting[i] # {} => i \in CreditNotes

GoodState(M) == Good(M, Books) /\ ReadsOk

AllWorth    == \A i \in Items : Worth(Books, i)
AllMirrored == \A i \in Items : Mirrored(Books, i)
Keeps       == (AllWorth => AllWorth') /\ (AllMirrored => AllMirrored')

LEMMA ReadsKept ==
    ASSUME ReadsOk, UNCHANGED reads
    PROVE  ReadsOk'
BY DEF ReadsOk, reads

LEMMA BecomeIs ==
    ASSUME NEW M, NEW b \in BooksRow(M), Become(b)
    PROVE  Books' = b
BY DEF Become, Books, BooksRow

LEMMA TablesAre ==
    ASSUME NEW M, GoodState(M)
    PROVE  /\ header \in [Items -> HeaderRow] /\ item \in [Items -> ItemRow]
           /\ advance \in [Advances -> AdvanceRow]
           /\ settlement \in [Settlements -> SettlementRow(M)]
           /\ Books \in BooksRow(M)
           /\ Books.header = header /\ Books.item = item
           /\ Books.advance = advance /\ Books.settlement = settlement
BY DEF GoodState, Good, BooksRow, Books

LEMMA InitGood ==
    ASSUME NEW M, Init
    PROVE  GoodState(M) /\ AllWorth /\ AllMirrored
<1>1. PICK amt \in [Items -> UNION Range(Gross)] : header = [i \in Items |-> NewHeader(amt[i])]
  BY DEF Init
<1> DEFINE no == FALSE
<1>2. no \in BOOLEAN /\ ~no
  OBVIOUS
<1>3. header \in [Items -> HeaderRow] /\ \A i \in Items : header[i].status = "draft"
  <2>1. \A i \in Items : header[i] = [status |-> "draft", reversed |-> no, amount |-> amt[i],
                                      settled |-> 0, outstanding |-> amt[i]]
    BY <1>1 DEF NewHeader
  <2>2. \A i \in Items : amt[i] \in UNION Range(Gross) /\ amt[i] \in Int
    BY GrossIsNat
  <2>3. DOMAIN header = Items /\ header = [i \in Items |-> header[i]]
    BY <1>1
  <2> HIDE DEF no
  <2>4. ASSUME NEW i \in Items PROVE header[i] \in HeaderRow /\ header[i].status = "draft"
    <3> DEFINE h == header[i]
               x == amt[i]
               Amounts == UNION Range(Gross)
    <3>1. h = [status |-> "draft", reversed |-> no, amount |-> x, settled |-> 0, outstanding |-> x]
      BY <2>1
    <3>2. x \in Amounts /\ x \in Int
      BY <2>2
    <3>3. HeaderRow = [status : {"draft", "confirmed", "posted", "cancelled"}, reversed : BOOLEAN,
                       amount : Amounts, settled : Int, outstanding : Int]
      BY DEF HeaderRow
    <3> HIDE DEF h, x, Amounts
    <3>4. h \in HeaderRow /\ h.status = "draft"
      BY <1>2, <3>1, <3>2, <3>3
    <3> QED
      BY <3>4 DEF h
  <2> QED
    BY <2>3, <2>4
<1>4. /\ item \in [Items -> ItemRow]
      /\ \A i \in Items : item[i].settled = 0 /\ ItemSound(item[i])
  <2>1. item = [i \in Items |-> [exists |-> no, original |-> 0, settled |-> 0,
                                 outstanding |-> 0, open |-> no]]
    BY DEF Init, NoItem
  <2> HIDE DEF no
  <2> QED
    BY <1>2, <2>1 DEF ItemRow, ItemSound
<1>5. /\ advance \in [Advances -> AdvanceRow]
      /\ \A a \in Advances : advance[a].adjusted = 0 /\ AdvanceSound(advance[a])
  <2>1. advance = [a \in Advances |-> [exists |-> no, original |-> 0, adjusted |-> 0,
                                       outstanding |-> 0, open |-> no]]
    BY DEF Init, NoAdvance
  <2> HIDE DEF no
  <2> QED
    BY <1>2, <2>1 DEF AdvanceRow, AdvanceSound
<1>6. /\ settlement \in [Settlements -> SettlementRow(M)]
      /\ \A s \in Settlements : settlement[s].status = "none" /\ settlement[s].advance = {}
  <2>1. NoSettlement \in SettlementRow(M)
    <3>1. <<>> \in Seq(LineRow)
      OBVIOUS
    <3> QED
      BY <3>1 DEF NoSettlement, SettlementRow
  <2>2. settlement = [s \in Settlements |-> NoSettlement]
    BY DEF Init
  <2>3. NoSettlement.status = "none" /\ NoSettlement.advance = {}
    BY DEF NoSettlement
  <2> QED
    BY <2>1, <2>2, <2>3
<1>7. Books \in BooksRow(M)
  BY <1>3, <1>4, <1>5, <1>6 DEF Books, BooksRow
<1>8. Posted(Books) = {} /\ \A a : Drawing(Books, a) = {}
  BY <1>6 DEF Books, Posted, Drawing
<1>9. /\ \A i : AppliedTo(Books, i) = 0
      /\ \A a : DrawnFrom(Books, a) = 0
  BY <1>8, SumOfNone DEF AppliedTo, DrawnFrom
<1>10. Sound(Books)
  <2>1. \A s \in Settlements : SettlementSound(Books, s)
    BY <1>6 DEF Books, SettlementSound
  <2> QED
    BY <1>4, <1>5, <1>9, <2>1 DEF Sound, Books
<1>11. \A i \in Items : PostedSound(Books, i) /\ Worth(Books, i) /\ Mirrored(Books, i)
  BY <1>3 DEF PostedSound, Mirrored, Worth, Follows, Books
<1>12. ReadsOk
  BY DEF Init, ReadsOk
<1> QED
  BY <1>7, <1>10, <1>11, <1>12 DEF GoodState, Good, AllWorth, AllMirrored

(* A step that writes one header.                                          *)
LEMMA HeaderStep ==
    ASSUME NEW M, CreditNotes \subseteq M, GoodState(M),
           NEW i \in Items, NEW h \in HeaderRow,
           header' = [header EXCEPT ![i] = h], UNCHANGED <<item, advance, settlement>>,
           \/ h.status # "posted"
           \/ h.status = header[i].status /\ h.amount = header[i].amount
    PROVE  /\ Good(M, Books') /\ (AllWorth => AllWorth')
           /\ h.status # "posted" => Keeps
<1>1. Books' = WriteHeader(Books, i, h)
  BY DEF Books, WriteHeader
<1>2. Books.header[i] = header[i] /\ Good(M, Books)
  BY DEF Books, GoodState
<1>3. /\ Good(M, WriteHeader(Books, i, h))
      /\ Worth(Books, i) => Worth(WriteHeader(Books, i, h), i)
      /\ h.status # "posted" => Follows(Books, WriteHeader(Books, i, h), i)
      /\ \A j \in Items \ {i} : Follows(Books, WriteHeader(Books, i, h), j)
  BY <1>2, GoodHeader
<1> QED
  BY <1>1, <1>3 DEF AllWorth, AllMirrored, Keeps, Follows

(* A step to tables that are good, and mirrored if the tables were.        *)
LEMMA BecomeStep ==
    ASSUME NEW M, CreditNotes \subseteq M, GoodState(M),
           NEW b, Good(M, b), Become(b), \A j \in Items : Follows(Books, b, j)
    PROVE  Good(M, Books') /\ Keeps
<1>1. Books' = b
  BY BecomeIs DEF Good
<1> QED
  BY <1>1 DEF AllWorth, AllMirrored, Keeps, Follows

LEMMA ConfirmStep ==
    ASSUME NEW M, CreditNotes \subseteq M, GoodState(M),
           NEW i \in Items, Confirm(i)
    PROVE  GoodState(M)' /\ Keeps
<1> DEFINE h == [Recomputed(header[i]) EXCEPT !.status = "confirmed"]
<1>1. h \in HeaderRow /\ h.status = "confirmed"
  <2>1. Recomputed(header[i]) \in HeaderRow
    BY TablesAre, RecomputedIs
  <2> QED
    BY <2>1 DEF HeaderRow
<1>2. header' = [header EXCEPT ![i] = h]
  BY DEF Confirm
<1> HIDE DEF h
<1>3. Good(M, Books') /\ Keeps
  BY <1>1, <1>2, HeaderStep DEF Confirm
<1>4. ReadsOk'
  BY ReadsKept DEF GoodState, Confirm
<1> QED
  BY <1>3, <1>4 DEF GoodState

(* What a note's posting has read, and of which invoice.                   *)
LEMMA TargetsAre ==
    ASSUME ReadsOk, NEW i \in Items, NEW owed \in adjusting[i], NEW t \in Original[i]
    PROVE  /\ i \in CreditNotes /\ t \in Items /\ t # i /\ owed \in Nat
           /\ \A j \in Original[i] : j = t
BY ReceivablesAssumption DEF ReadsOk

LEMMA PostingReads ==
    ASSUME ReadsOk, NEW i \in Items, PostInvoice(i) \/ GiveUpPost(i)
    PROVE  ReadsOk' /\ UNCHANGED <<editing, repairing>>
<1>1. /\ adjusting' = [adjusting EXCEPT ![i] = {}]
      /\ UNCHANGED <<editing, repairing>>
  BY DEF PostInvoice, GiveUpPost
<1> QED
  BY <1>1 DEF ReadsOk

LEMMA PostInvoiceStep ==
    ASSUME NEW M, CreditNotes \subseteq M, GoodState(M),
           NEW i \in Items, PostInvoice(i)
    PROVE  GoodState(M)' /\ Keeps
<1> DEFINE no == FALSE
           h == [Recomputed(header[i]) EXCEPT !.status = "posted", !.reversed = no]
           b == Snapshot(WriteHeader(Books, i, h), i)
<1>1. [Books EXCEPT !.header[i] = [Recomputed(@) EXCEPT !.status = "posted", !.reversed = FALSE]]
         = WriteHeader(Books, i, h)
  BY TablesAre DEF WriteHeader, BooksRow
<1>2. no \in BOOLEAN
  OBVIOUS
<1> HIDE DEF no
<1>3. h \in HeaderRow
  <2>1. Recomputed(header[i]) \in HeaderRow
    BY TablesAre, RecomputedIs
  <2> QED
    BY <1>2, <2>1 DEF HeaderRow
<1>4. \/ Become(SyncHeader(b, i))
      \/ \E owed \in adjusting[i], t \in Original[i], s \in Settlements :
            LET c == [b EXCEPT !.settlement[s] = Draft(AutoLines(b, i, t, owed), {}, {i})]
            IN  /\ settlement[s].status = "none"
                /\ CanPost(c, s)
                /\ Become(SyncHeader(PostEffect(c, s), i))
  BY <1>1 DEF PostInvoice
<1> HIDE DEF h, b
<1>5. /\ Good(M, b) /\ b.settlement = settlement /\ Worth(b, i)
      /\ \A j \in Items \ {i} : Follows(Books, b, j)
  <2>1. Good(M, Books) /\ Books.settlement = settlement
    BY TablesAre DEF GoodState
  <2> QED
    BY <1>3, <2>1, GoodSnapshot DEF b
<1>6. CASE Become(SyncHeader(b, i))
  <2>1. /\ Good(M, SyncHeader(b, i))
        /\ \A j \in Items : Follows(Books, SyncHeader(b, i), j)
    BY <1>5, GoodSync DEF Follows
  <2>2. Good(M, Books') /\ Keeps
    BY <1>6, <2>1, BecomeStep
  <2>3. ReadsOk'
    BY PostingReads DEF GoodState
  <2> QED
    BY <2>2, <2>3 DEF GoodState
<1>7. ASSUME NEW owed \in adjusting[i], NEW t \in Original[i], NEW s \in Settlements,
             settlement[s].status = "none",
             NEW c, c = [b EXCEPT !.settlement[s] = Draft(AutoLines(b, i, t, owed), {}, {i})],
             Become(SyncHeader(PostEffect(c, s), i))
      PROVE  GoodState(M)' /\ Keeps
  <2> DEFINE d == Draft(AutoLines(b, i, t, owed), {}, {i})
  <2>1. i \in CreditNotes /\ t \in Items /\ owed \in Nat
    BY TargetsAre DEF GoodState
  <2>2. d \in SettlementRow(M) /\ d.status = "draft" /\ d.advance = {}
    <3>1. AutoLines(b, i, t, owed) \in Seq(Asked)
      BY <1>5, <2>1, AutoLinesAre DEF Good
    <3>2. {} \in Payers /\ {i} \in SUBSET M
      BY <2>1 DEF Payers
    <3> QED
      BY <3>1, <3>2, DraftIs
  <2> HIDE DEF d
  <2>3. c = WriteSettlement(b, s, d)
    BY <1>7 DEF d, WriteSettlement
  <2>4. Good(M, c) /\ c.settlement[s] = d /\ \A j \in Items : Follows(b, c, j)
    <3>1. b.settlement[s].status # "posted" /\ d.status # "posted"
          /\ \A a \in d.advance : b.advance[a].exists
      BY <1>5, <1>7, <2>2
    <3> QED
      BY <1>5, <2>2, <2>3, <3>1, GoodDraft
  <2>5. /\ Good(M, PostEffect(c, s))
        /\ \A j \in Items : Follows(c, PostEffect(c, s), j)
    BY <2>2, <2>4, GoodPost
  <2> DEFINE e == SyncHeader(PostEffect(c, s), i)
  <2>6. Good(M, e) /\ \A j \in Items : Follows(Books, e, j)
    BY <1>5, <2>4, <2>5, GoodSync DEF Follows
  <2> HIDE DEF e
  <2>7. Good(M, Books') /\ Keeps
    BY <1>7, <2>6, BecomeStep DEF e
  <2>8. ReadsOk'
    BY PostingReads DEF GoodState
  <2> QED
    BY <2>7, <2>8 DEF GoodState
<1> QED
  BY <1>4, <1>6, <1>7

(* The two steps of a posting that write nothing.                          *)
LEMMA SeeOriginalStep ==
    ASSUME NEW M, CreditNotes \subseteq M, GoodState(M),
           NEW i \in Items, SeeOriginal(i) \/ GiveUpPost(i)
    PROVE  GoodState(M)' /\ Keeps /\ UNCHANGED <<editing, repairing>>
<1>1. UNCHANGED <<header, item, advance, settlement, editing, repairing>>
  BY DEF SeeOriginal, GiveUpPost
<1>2. Books' = Books
  BY <1>1 DEF Books
<1>3. CASE SeeOriginal(i)
  <2>1. adjusting' = [adjusting EXCEPT ![i] = SeenOwed(i)] /\ SeenOwed(i) # {}
    BY <1>3 DEF SeeOriginal
  <2>2. i \in CreditNotes
    BY <2>1 DEF SeenOwed
  <2>3. SeenOwed(i) \subseteq Nat
    <3>1. Original[i] \subseteq Items
      BY <2>2, ReceivablesAssumption
    <3>2. \A t \in Items : item[t].outstanding \in Int
      BY TablesAre DEF ItemRow
    <3> QED
      BY <3>1, <3>2 DEF SeenOwed
  <2> QED
    BY <1>1, <1>2, <2>1, <2>2, <2>3 DEF GoodState, ReadsOk, Keeps, AllWorth, AllMirrored
<1>4. CASE GiveUpPost(i)
  BY <1>1, <1>2, <1>4, PostingReads DEF GoodState, Keeps, AllWorth, AllMirrored
<1> QED
  BY <1>3, <1>4

LEMMA ReverseStep ==
    ASSUME NEW M, CreditNotes \subseteq M, GoodState(M),
           NEW i \in Items, ReversePosting(i)
    PROVE  GoodState(M)' /\ Keeps
<1>1. Good(M, Books) /\ Become(Reversed(Books, i)) /\ UNCHANGED reads
  BY DEF GoodState, ReversePosting
<1>2. /\ Good(M, Reversed(Books, i))
      /\ \A j \in Items : Follows(Books, Reversed(Books, i), j)
  BY <1>1, GoodReversal
<1>3. Good(M, Books') /\ Keeps
  BY <1>1, <1>2, BecomeStep
<1>4. ReadsOk'
  BY <1>1, ReadsKept DEF GoodState
<1> QED
  BY <1>3, <1>4 DEF GoodState

LEMMA CancelInvoiceStep ==
    ASSUME NEW M, CreditNotes \subseteq M, GoodState(M),
           NEW i \in Items, CancelInvoice(i)
    PROVE  GoodState(M)' /\ Keeps
<1> DEFINE b == IF header[i].status = "posted" THEN Reversed(Books, i) ELSE Books
           h == [b.header[i] EXCEPT !.status = "cancelled"]
           d == WriteHeader(b, i, h)
<1>1. Good(M, b) /\ \A j \in Items : Follows(Books, b, j)
  BY GoodReversal DEF GoodState, Follows
<1>2. UNCHANGED reads /\ Become(CloseItem([b EXCEPT !.header[i].status = "cancelled"], i))
  BY DEF CancelInvoice
<1> HIDE DEF b
<1>3. b \in BooksRow(M) /\ b.header[i] \in HeaderRow
  BY <1>1 DEF Good, BooksRow
<1>4. h \in HeaderRow /\ h.status = "cancelled"
  BY <1>3 DEF HeaderRow
<1>5. d = [b EXCEPT !.header[i].status = "cancelled"]
  BY <1>3 DEF BooksRow, WriteHeader
<1> HIDE DEF h
<1>6. Good(M, d) /\ \A j \in Items : Follows(b, d, j)
  BY <1>1, <1>4, GoodHeader DEF Follows
<1>7. d.header[i].status = "cancelled"
  BY <1>3, <1>4, HeaderWritten
<1>8. Become(CloseItem(d, i))
  BY <1>2, <1>5
<1> HIDE DEF d
<1> DEFINE e == CloseItem(d, i)
<1>9. Good(M, e) /\ \A j \in Items : Follows(Books, e, j)
  BY <1>1, <1>6, <1>7, GoodClose DEF Follows
<1> HIDE DEF e
<1>10. Good(M, Books') /\ Keeps
  BY <1>8, <1>9, BecomeStep DEF e
<1>11. ReadsOk'
  BY <1>2, ReadsKept DEF GoodState
<1> QED
  BY <1>10, <1>11 DEF GoodState

LEMMA EditedIs ==
    ASSUME NEW i \in Items, NEW h \in HeaderRow, Editable(h), NEW amt \in Gross[i]
    PROVE  /\ Edited(h, amt) \in HeaderRow /\ Edited(h, amt).status # "posted"
           /\ Edited(h, amt).amount = amt
<1> DEFINE new == [h EXCEPT !.amount = amt]
           Amounts == UNION Range(Gross)
<1>1. amt \in Amounts
  BY GrossIsNat
<1>2. HeaderRow = [status : {"draft", "confirmed", "posted", "cancelled"}, reversed : BOOLEAN,
                   amount : Amounts, settled : Int, outstanding : Int]
  BY DEF HeaderRow
<1>3. Edited(h, amt) = Recomputed(new)
  BY DEF Edited
<1> HIDE DEF Amounts
<1>4. new \in HeaderRow /\ new.amount = amt /\ new.status = h.status
  BY <1>1, <1>2
<1> HIDE DEF new
<1> QED
  BY <1>3, <1>4, RecomputedIs DEF Editable

LEMMA EditStep ==
    ASSUME NEW M, CreditNotes \subseteq M, GoodState(M),
           NEW i \in Items, NEW amt \in Gross[i], EditInvoice(i, amt) \/ SaveEdit(i, amt)
    PROVE  GoodState(M)' /\ Keeps
<1>1. PICK h \in HeaderRow : /\ Editable(h) /\ header' = [header EXCEPT ![i] = Edited(h, amt)]
                             /\ UNCHANGED <<item, advance, settlement>>
  BY TablesAre DEF EditInvoice, SaveEdit, GoodState, ReadsOk
<1>2. Edited(h, amt) \in HeaderRow /\ Edited(h, amt).status # "posted"
  BY <1>1, EditedIs
<1>3. Good(M, Books') /\ Keeps
  BY <1>1, <1>2, HeaderStep
<1>4. ReadsOk'
  BY DEF GoodState, ReadsOk, EditInvoice, SaveEdit, reads
<1> QED
  BY <1>3, <1>4 DEF GoodState

(* The steps that only read.                                               *)
LEMMA ReadStep ==
    ASSUME NEW M, CreditNotes \subseteq M, GoodState(M),
           NEW i \in Items, BeginEdit(i) \/ BeginRepair(i)
    PROVE  GoodState(M)' /\ Keeps
<1>1. Books' = Books
  BY DEF BeginEdit, BeginRepair, Books
<1>2. ReadsOk'
  <2>1. header[i] \in HeaderRow
    BY TablesAre
  <2>2. Net(header[i], i) \in Int
    <3>1. header[i].amount \in Int
      BY <2>1, GrossIsNat DEF HeaderRow
    <3> QED
      BY <3>1 DEF Net, DocSign
  <2> QED
    BY <2>1, <2>2 DEF GoodState, ReadsOk, BeginEdit, BeginRepair
<1> QED
  BY <1>1, <1>2 DEF GoodState, AllWorth, AllMirrored, Keeps

(* Typing a settled amount on a document is the one step that may leave    *)
(* the header of a posted one and its item apart, whatever header the      *)
(* amount was typed on.                                                    *)
LEMMA ApplyStep ==
    ASSUME NEW M, CreditNotes \subseteq M, GoodState(M),
           NEW i \in Items, NEW amt \in TypedAmounts, ApplySettlement(i, amt)
    PROVE  GoodState(M)' /\ (AllWorth => AllWorth')
<1>1. PICK g \in {header[i]} \cup editing[i] :
         header' = [header EXCEPT ![i].settled = Typed(g, amt).settled,
                                  ![i].outstanding = Typed(g, amt).outstanding]
  BY DEF ApplySettlement
<1>2. header[i] \in HeaderRow /\ g \in HeaderRow /\ amt \in Int
  BY TablesAre, ReceivablesAssumption DEF GoodState, ReadsOk
<1> DEFINE old == [g EXCEPT !.settled = amt]
           new == Typed(g, amt)
           h == [header[i] EXCEPT !.settled = new.settled, !.outstanding = new.outstanding]
<1>3. old \in HeaderRow /\ new = Recomputed(old)
  BY <1>2 DEF HeaderRow, Typed
<1>4. header' = [header EXCEPT ![i] = h] /\ UNCHANGED <<item, advance, settlement, reads>>
  BY <1>1, <1>2, TablesAre DEF ApplySettlement, HeaderRow
<1> HIDE DEF old, new
<1>5. new \in HeaderRow
  BY <1>3, RecomputedIs
<1>6. h \in HeaderRow /\ h.status = header[i].status /\ h.amount = header[i].amount
  BY <1>2, <1>5 DEF HeaderRow
<1> HIDE DEF h
<1>7. Good(M, Books') /\ (AllWorth => AllWorth')
  BY <1>4, <1>6, HeaderStep
<1>8. ReadsOk'
  BY <1>4, ReadsKept DEF GoodState
<1> QED
  BY <1>7, <1>8 DEF GoodState

(* A repair leaves a sound item, though perhaps not of the right worth; if *)
(* it does write what the document is worth, nothing else is disturbed.    *)
LEMMA RepairStep ==
    ASSUME NEW M, CreditNotes \subseteq M, GoodState(M),
           NEW i \in Items, FinishRepair(i)
    PROVE  GoodState(M)' /\ (RepairsHeal /\ AllWorth => Keeps)
<1>1. PICK net \in repairing[i] : item' = [item EXCEPT ![i] =
         Settled([item[i] EXCEPT !.original = net], item[i].settled)]
  BY DEF FinishRepair
<1> DEFINE it == [item[i] EXCEPT !.original = net]
           new == Settled(it, item[i].settled)
<1>2. header[i] \in HeaderRow /\ item[i] \in ItemRow /\ net \in Int
  BY TablesAre DEF GoodState, ReadsOk
<1>3. item' = [item EXCEPT ![i] = new] /\ UNCHANGED <<header, advance, settlement>>
  BY <1>1 DEF FinishRepair
<1>4. it \in ItemRow /\ it.original = net /\ item[i].settled \in Int
  BY <1>2 DEF ItemRow
<1>5. /\ it.exists = item[i].exists /\ it.settled = item[i].settled
      /\ it.outstanding = item[i].outstanding /\ it.open = item[i].open
  BY <1>2 DEF ItemRow
<1> HIDE DEF it
<1>6. /\ new \in ItemRow /\ ItemSound(new) /\ new.settled = item[i].settled
      /\ new.original = net
      /\ ~new.open => Size(new.original - new.settled) <= TOL
  BY <1>4, SettledIs
<1> HIDE DEF new
<1>7. Books' = WriteItem(Books, i, new)
  BY <1>3 DEF Books, WriteItem
<1> DEFINE b == Books
           c == WriteItem(Books, i, new)
<1>8. /\ b \in BooksRow(M) /\ Sound(b) /\ \A j \in Items : PostedSound(b, j)
      /\ b.header = header /\ b.item = item
  BY TablesAre DEF GoodState, Good
<1> HIDE DEF b, c
<1>9. /\ c \in BooksRow(M)
      /\ c.header = b.header /\ c.advance = b.advance /\ c.settlement = b.settlement
      /\ c.item[i] = new /\ \A j \in Items \ {i} : c.item[j] = b.item[j]
  BY <1>6, <1>8, ItemWritten DEF b, c
<1>10. Sound(c)
  <2>1. \A j \in Items : c.item[j].settled = b.item[j].settled /\ ItemSound(c.item[j])
    BY <1>6, <1>8, <1>9 DEF Sound
  <2> QED
    BY <1>8, <1>9, <2>1, SoundRows
<1>11. \A j \in Items : PostedSound(c, j)
  BY <1>6, <1>8, <1>9 DEF PostedSound
<1>12. ASSUME RepairsHeal, AllWorth PROVE \A j \in Items : Follows(b, c, j)
  <2>1. \A j \in Items \ {i} : Follows(b, c, j)
    BY <1>8, <1>9 DEF Follows, Worth, Mirrored, Net
  <2>2. ASSUME header[i].status = "posted" PROVE new.outstanding = item[i].outstanding
                                                 /\ new.original = Net(header[i], i)
    <3>1. item[i].original = Net(header[i], i)
      BY <1>12, <1>8, <2>2 DEF AllWorth, Worth, b
    <3>2. item'[i] = new /\ header' = header
      BY <1>3, TablesAre
    <3>3. net = item[i].original
      BY <1>6, <1>12, <3>1, <3>2 DEF RepairsHeal
    <3>4. ItemSound(item[i]) /\ PostedSound(b, i)
      BY <1>8 DEF Sound
    <3>5. ~item[i].open => Size(item[i].original - item[i].settled) <= TOL
      BY <1>8, <2>2, <3>4 DEF PostedSound
    <3> DEFINE d == item[i].original - item[i].settled
    <3>6. d \in Int /\ Size(d) \in Int /\ TOL \in Nat
      BY <1>2, ReceivablesAssumption DEF ItemRow, Size
    <3>7. /\ item[i].outstanding = IF item[i].open THEN d ELSE 0
          /\ item[i].open => Size(d) > TOL
          /\ ~item[i].open => Size(d) <= TOL
      BY <3>4, <3>5 DEF ItemSound
    <3>8. /\ new.outstanding = IF new.open THEN d ELSE 0
          /\ new.open => Size(d) > TOL
          /\ ~new.open => Size(d) <= TOL
      BY <1>6, <3>3 DEF ItemSound
    <3> HIDE DEF d
    <3>9. new.outstanding = item[i].outstanding
      BY <3>6, <3>7, <3>8
    <3> QED
      BY <1>6, <3>1, <3>3, <3>9
  <2>3. Follows(b, c, i)
    BY <1>6, <1>8, <1>9, <2>2 DEF Follows, Worth, Mirrored
  <2> QED
    BY <2>1, <2>3
<1>13. Good(M, Books') /\ (RepairsHeal /\ AllWorth => Keeps)
  BY <1>7, <1>9, <1>10, <1>11, <1>12 DEF Good, AllWorth, AllMirrored, Keeps, Follows, b, c
<1>14. ReadsOk'
  BY DEF GoodState, ReadsOk, FinishRepair
<1> QED
  BY <1>13, <1>14 DEF GoodState

LEMMA CreateStep ==
    ASSUME NEW M, CreditNotes \subseteq M, GoodState(M),
           NEW s \in Settlements, NEW adv \in UseAdvance, NEW lines \in Seq(Asked),
           CreateSettlement(s, lines, adv)
    PROVE  GoodState(M)' /\ Keeps
<1> DEFINE d == Draft(lines, adv, {})
<1>1. settlement[s].status = "none" /\ UNCHANGED <<header, item, advance, reads>>
  BY DEF CreateSettlement
<1>2. Books' = WriteSettlement(Books, s, d)
  BY DEF CreateSettlement, Books, WriteSettlement
<1>3. adv \in Payers /\ \A a \in adv : advance[a].exists
  BY DEF UseAdvance, Payers
<1>4. {} \in SUBSET M
  OBVIOUS
<1>5. d \in SettlementRow(M) /\ d.status = "draft" /\ d.advance = adv
  BY <1>3, <1>4, DraftIs
<1> HIDE DEF d
<1>6. /\ Good(M, Books) /\ Books.settlement[s].status # "posted" /\ d.status # "posted"
      /\ \A a \in d.advance : Books.advance[a].exists
  BY <1>1, <1>3, <1>5, TablesAre DEF GoodState
<1>7. Good(M, Books') /\ Keeps
  BY <1>2, <1>5, <1>6, GoodDraft DEF AllWorth, AllMirrored, Keeps, Follows
<1>8. ReadsOk'
  BY <1>1, ReadsKept DEF GoodState
<1> QED
  BY <1>7, <1>8 DEF GoodState

LEMMA PostStep ==
    ASSUME NEW M, CreditNotes \subseteq M, GoodState(M),
           NEW s \in Settlements, PostSettlement(s)
    PROVE  GoodState(M)' /\ Keeps
<1>1. Good(M, Books) /\ Books.settlement[s].status = "draft"
  BY DEF GoodState, PostSettlement, CanPost
<1>2. /\ Good(M, PostEffect(Books, s))
      /\ \A j \in Items : Follows(Books, PostEffect(Books, s), j)
  BY <1>1, GoodPost
<1>3. Become(PostEffect(Books, s)) /\ UNCHANGED reads
  BY DEF PostSettlement
<1>4. Good(M, Books') /\ Keeps
  BY <1>2, <1>3, BecomeStep
<1>5. ReadsOk'
  BY <1>3, ReadsKept DEF GoodState
<1> QED
  BY <1>4, <1>5 DEF GoodState

LEMMA CancelStep ==
    ASSUME NEW M, CreditNotes \subseteq M, GoodState(M),
           NEW s \in Settlements, CancelSettlement(s)
    PROVE  GoodState(M)' /\ Keeps
<1>1. Good(M, Books) /\ CanCancel(Books, s) /\ Become(CancelEffect(Books, s)) /\ UNCHANGED reads
  BY DEF GoodState, CancelSettlement
<1>2. /\ Good(M, CancelEffect(Books, s))
      /\ \A j \in Items : Follows(Books, CancelEffect(Books, s), j)
  BY <1>1, GoodCancel
<1>3. Good(M, Books') /\ Keeps
  BY <1>1, <1>2, BecomeStep
<1>4. ReadsOk'
  BY <1>1, ReadsKept DEF GoodState
<1> QED
  BY <1>3, <1>4 DEF GoodState

LEMMA AdvanceStep ==
    ASSUME NEW M, CreditNotes \subseteq M, GoodState(M),
           NEW a \in Advances, NEW amt \in AdvanceAmounts, CreateAdvanceBalance(a, amt)
    PROVE  GoodState(M)' /\ Keeps
<1>1. Books' = [Books EXCEPT !.advance[a] = NewAdvance(amt)] /\ UNCHANGED reads
  BY DEF CreateAdvanceBalance, Books
<1>2. Good(M, Books) /\ ~Books.advance[a].exists
  BY TablesAre DEF GoodState, CreateAdvanceBalance
<1>3. Good(M, Books') /\ Keeps
  <2>1. amt \in Nat
    BY ReceivablesAssumption
  <2> QED
    BY <1>1, <1>2, <2>1, GoodAdvance DEF AllWorth, AllMirrored, Keeps, Follows
<1>4. ReadsOk'
  BY <1>1, ReadsKept DEF GoodState
<1> QED
  BY <1>3, <1>4 DEF GoodState

(* Every step keeps the invariant; where every repair writes what the      *)
(* document is worth, it keeps items to the worth of their documents, and  *)
(* headers to their items unless settled amounts are typed.                *)
KeepsIfHealed == RepairsHeal /\ AllWorth =>
           AllWorth' /\ (TypedAmounts = {} /\ AllMirrored => AllMirrored')

LEMMA StepKept ==
    ASSUME NEW M, CreditNotes \subseteq M, GoodState(M),
           [Next]_vars
    PROVE  GoodState(M)' /\ KeepsIfHealed
<1>1. ASSUME NEW i \in Items, Invoicing(i)
      PROVE  GoodState(M)' /\ KeepsIfHealed
  <2>1. ASSUME NEW amt \in TypedAmounts, ApplySettlement(i, amt)
        PROVE  GoodState(M)' /\ KeepsIfHealed
    BY <2>1, ApplyStep DEF KeepsIfHealed
  <2>2. ASSUME NEW amt \in Gross[i], EditInvoice(i, amt) \/ SaveEdit(i, amt)
        PROVE  GoodState(M)' /\ Keeps
    BY <2>2, EditStep
  <2>3. ASSUME FinishRepair(i) PROVE GoodState(M)' /\ KeepsIfHealed
    BY <2>3, RepairStep DEF KeepsIfHealed, Keeps
  <2>4. ASSUME Posting(i) PROVE GoodState(M)' /\ Keeps
    BY <2>4, PostInvoiceStep, SeeOriginalStep DEF Posting
  <2> QED
    BY <1>1, <2>1, <2>2, <2>3, <2>4, ConfirmStep, ReverseStep, CancelInvoiceStep,
       ReadStep DEF Invoicing, KeepsIfHealed, Keeps
<1>2. ASSUME NEW s \in Settlements, Settling(s)
      PROVE  GoodState(M)' /\ Keeps
  <2>1. ASSUME NEW adv \in UseAdvance, NEW lines \in LineChoices, CreateSettlement(s, lines, adv)
        PROVE  GoodState(M)' /\ Keeps
    BY <2>1, CreateStep, ReceivablesAssumption DEF Asked
  <2>2. ASSUME NEW adv \in UseAdvance, NEW amt \in FifoAmounts,
               CreateSettlement(s, FifoLines(amt), adv)
        PROVE  GoodState(M)' /\ Keeps
    <3>1. FifoLines(amt) \in Seq(Asked)
      BY TablesAre, FifoLinesAre, ReceivablesAssumption
    <3> QED
      BY <2>2, <3>1, CreateStep
  <2> QED
    BY <1>2, <2>1, <2>2, PostStep, CancelStep DEF Settling
<1>3. ASSUME NEW a \in Advances, NEW amt \in AdvanceAmounts, CreateAdvanceBalance(a, amt)
      PROVE  GoodState(M)' /\ Keeps
  BY <1>3, AdvanceStep
<1>4. ASSUME UNCHANGED vars PROVE GoodState(M)' /\ Keeps
  <2>1. Books' = Books /\ UNCHANGED reads
    BY <1>4 DEF vars, Books
  <2> QED
    BY <2>1, ReadsKept DEF GoodState, AllWorth, AllMirrored, Keeps
<1> QED
  BY <1>1, <1>2, <1>3, <1>4 DEF Next, KeepsIfHealed, Keeps
-----------------------------------------------------------------------------
IInv == GoodState(CreditNotes)

LEMMA BooksAre ==
    ASSUME IInv
    PROVE  /\ header \in [Items -> HeaderRow] /\ item \in [Items -> ItemRow]
           /\ advance \in [Advances -> AdvanceRow]
           /\ settlement \in [Settlements -> SettlementRow(CreditNotes)]
           /\ Books \in BooksRow(CreditNotes)
           /\ Books.header = header /\ Books.item = item
           /\ Books.advance = advance /\ Books.settlement = settlement
BY TablesAre DEF IInv

(* What the invariant says of the tables is what the properties say.       *)
LEMMA GoodTables ==
    ASSUME NEW M, GoodState(M)
    PROVE  /\ SettledIsApplied /\ AdvanceIsApplied /\ AdvanceNeverOverdrawn
           /\ AllWorth => OpenMeansOwing
<1>1. SettledIsApplied
  BY TablesAre DEF GoodState, Good, Sound, AppliedTo, Posted, SettledIsApplied
<1>2. AdvanceIsApplied
  BY TablesAre DEF GoodState, Good, Sound, DrawnFrom, Drawing, AdvanceIsApplied
<1>3. AdvanceNeverOverdrawn
  <2> SUFFICES ASSUME NEW a \in Advances
               PROVE  advance[a].adjusted <= advance[a].original
    BY DEF AdvanceNeverOverdrawn
  <2>1. advance[a] \in AdvanceRow /\ AdvanceSound(advance[a])
    BY TablesAre DEF GoodState, Good, Sound
  <2> QED
    BY <2>1 DEF AdvanceRow, AdvanceSound
<1>4. ASSUME AllWorth PROVE OpenMeansOwing
  <2> SUFFICES ASSUME NEW i \in Items, header[i].status = "posted"
               PROVE  /\ item[i].outstanding = Remainder(Net(header[i], i) - item[i].settled)
                      /\ item[i].open <=> item[i].outstanding # 0
    BY DEF OpenMeansOwing
  <2>1. item[i] \in ItemRow /\ ItemSound(item[i]) /\ PostedSound(Books, i) /\ TOL \in Nat
    BY TablesAre, ReceivablesAssumption DEF GoodState, Good, Sound
  <2>2. /\ item[i].original = Net(header[i], i)
        /\ ~item[i].open => Size(item[i].original - item[i].settled) <= TOL
    BY <1>4, <2>1, TablesAre DEF PostedSound, AllWorth, Worth
  <2> DEFINE d == item[i].original - item[i].settled
  <2>3. d \in Int /\ d = Net(header[i], i) - item[i].settled
    BY <2>1, <2>2 DEF ItemRow
  <2>4. /\ item[i].outstanding = IF item[i].open THEN d ELSE 0
        /\ item[i].open => Size(d) > TOL
        /\ ~item[i].open => Size(d) <= TOL
    BY <2>1, <2>2 DEF ItemSound
  <2> HIDE DEF d
  <2>5. item[i].outstanding = Remainder(d)
    <3>1. CASE item[i].open
      <4>1. item[i].outstanding = d /\ Size(d) > TOL /\ Size(d) \in Int
        BY <2>3, <2>4, <3>1 DEF Size
      <4> QED
        BY <2>1, <4>1 DEF Remainder
    <3>2. CASE ~item[i].open
      BY <2>4, <3>2 DEF Remainder
    <3> QED
      BY <3>1, <3>2
  <2>6. item[i].open <=> item[i].outstanding # 0
    BY <2>1, <2>3, <2>4 DEF Size
  <2> QED
    BY <2>3, <2>5, <2>6
<1> QED
  BY <1>1, <1>2, <1>3, <1>4

LEMMA InvariantHolds == Spec => []IInv
<1>1. Init => IInv
  BY InitGood DEF IInv
<1>2. IInv /\ [Next]_vars => IInv'
  BY StepKept DEF IInv
<1> QED
  BY <1>1, <1>2, PTL DEF Spec

LEMMA HealingHolds == Spec /\ SelfHeal => [](IInv /\ AllWorth)
<1>1. Init => IInv /\ AllWorth
  BY InitGood DEF IInv
<1>2. (IInv /\ AllWorth) /\ [Next]_vars /\ [RepairsHeal]_vars => (IInv /\ AllWorth)'
  <2> SUFFICES ASSUME IInv, AllWorth, [Next]_vars, [RepairsHeal]_vars PROVE (IInv /\ AllWorth)'
    OBVIOUS
  <2>1. IInv' /\ KeepsIfHealed
    BY StepKept DEF IInv
  <2>2. UNCHANGED vars => AllWorth'
    BY DEF vars, AllWorth, Books
  <2> QED
    BY <2>1, <2>2 DEF KeepsIfHealed
<1> QED
  BY <1>1, <1>2, PTL DEF Spec, SelfHeal

(* Every table keeps its type, whatever is posted, settled, cancelled,     *)
(* edited and repaired, and so does what requests under way have read of   *)
(* it: only a credit note is adjusted, and against a positive balance.     *)
THEOREM TypeCorrect == Spec => []TypeOK
<1>1. IInv => TypeOK
  BY BooksAre DEF IInv, GoodState, ReadsOk, TypeOK
<1> QED
  BY <1>1, InvariantHolds, PTL

(* The settled amount of an item is at all times the sum of what the       *)
(* posted settlements applied to it (post_settlement, cancel_settlement,   *)
(* sync_open_item_for_header).                                             *)
THEOREM NothingSettledTwice == Spec => []SettledIsApplied
<1>1. IInv => SettledIsApplied
  BY GoodTables DEF IInv
<1> QED
  BY <1>1, InvariantHolds, PTL

(* The adjusted amount of an advance is at all times the sum of the totals *)
(* of the posted settlements that draw on it.                              *)
THEOREM NothingDrawnTwice == Spec => []AdvanceIsApplied
<1>1. IInv => AdvanceIsApplied
  BY GoodTables DEF IInv
<1> QED
  BY <1>1, InvariantHolds, PTL

(* No sequence of settlements, whatever their number, lines and order,     *)
(* draws more from an advance than was received.                           *)
THEOREM NeverOverdrawn == Spec => []AdvanceNeverOverdrawn
<1>1. IInv => AdvanceNeverOverdrawn
  BY GoodTables DEF IInv
<1> QED
  BY <1>1, InvariantHolds, PTL

(* Where every repair writes what the document is worth (SelfHeal), the    *)
(* item of a posted document is open exactly while more than the tolerance *)
(* is owed, and shows that amount: a repair that overtakes an edit and a   *)
(* posting is the only call that can leave another balance there.          *)
THEOREM OpenWhileOwing == Spec /\ SelfHeal => []OpenMeansOwing
<1>1. IInv /\ AllWorth => OpenMeansOwing
  BY GoodTables DEF IInv
<1> QED
  BY <1>1, HealingHolds, PTL

(* There, and where nobody types a settled amount on a document, the       *)
(* header of a posted document and its item show the same figures at all   *)
(* times, also after a settlement of several documents and after an edit   *)
(* saved late.                                                             *)
THEOREM MirrorsKept == TypedAmounts = {} => (Spec /\ SelfHeal => []HeaderMirrorsItem)
<1> SUFFICES ASSUME TypedAmounts = {} PROVE Spec /\ SelfHeal => []HeaderMirrorsItem
  OBVIOUS
<1>1. Init => AllMirrored
  BY InitGood
<1>2. (IInv /\ AllWorth /\ AllMirrored) /\ [Next]_vars /\ [RepairsHeal]_vars => AllMirrored'
  <2> SUFFICES ASSUME IInv, AllWorth, AllMirrored, [Next]_vars, [RepairsHeal]_vars
               PROVE  AllMirrored'
    OBVIOUS
  <2>1. KeepsIfHealed
    BY StepKept DEF IInv
  <2>2. UNCHANGED vars => AllMirrored'
    BY DEF vars, AllMirrored, Books
  <2> QED
    BY <2>1, <2>2 DEF KeepsIfHealed
<1>3. IInv /\ AllMirrored => HeaderMirrorsItem
  BY BooksAre DEF AllMirrored, Mirrored, HeaderMirrorsItem
<1> QED
  BY <1>1, <1>2, <1>3, HealingHolds, PTL DEF Spec, SelfHeal
-----------------------------------------------------------------------------
(* What one line each adds to an item.                                     *)
LEMMA SumOnOne ==
    ASSUME NEW lines \in Seq(LineRow), OneLineEach(lines), NEW i
    PROVE  \/ /\ \A k \in DOMAIN lines : lines[k].item # i
              /\ SumOn(lines, i) = 0
           \/ \E k \in DOMAIN lines : /\ lines[k].item = i
                                      /\ SumOn(lines, i) = lines[k].applied
<1> DEFINE f == [k \in DOMAIN lines |-> lines[k].applied]
           K == {k \in DOMAIN lines : lines[k].item = i}
<1>1. SumOn(lines, i) = SumFunctionOnSet(f, K)
  BY DEF SumOn
<1>2. CASE K = {}
  <2>1. SumOn(lines, i) = 0
    BY <1>1, <1>2, SumOfNone
  <2> QED
    BY <1>2, <2>1
<1>3. CASE K # {}
  <2>1. PICK k \in DOMAIN lines : lines[k].item = i
    BY <1>3
  <2>2. K = {k} /\ f[k] = lines[k].applied /\ f[k] \in Int
    BY <2>1, LinesAdd DEF OneLineEach, LineRow
  <2> HIDE DEF f, K
  <2>3. SumFunctionOnSet(f, K) = f[k]
    BY <2>2, SumOfOne
  <2> QED
    BY <1>1, <2>1, <2>2, <2>3
<1> QED
  BY <1>2, <1>3

(* Numbers that all point one way add up to one that does.                 *)
LEMMA SumOneWay ==
    ASSUME NEW f, NEW S, IsFiniteSet(S), \A x \in S : f[x] \in Int,
           NEW d \in {1, -1}, \A x \in S : 0 <= d * f[x]
    PROVE  SumFunctionOnSet(f, S) \in Int /\ 0 <= d * SumFunctionOnSet(f, S)
<1> DEFINE zero == [x \in S |-> 0]
<1>1. SumFunctionOnSet(zero, S) = 0
  BY SumOfZeros
<1>2. SumFunctionOnSet(f, S) \in Int
  BY SumIsInt
<1>3. \A x \in S : zero[x] \in Int /\ zero[x] = 0
  OBVIOUS
<1> HIDE DEF zero
<1>4. CASE d = 1
  <2>1. \A x \in S : zero[x] <= f[x]
    BY <1>3, <1>4
  <2>2. SumFunctionOnSet(zero, S) <= SumFunctionOnSet(f, S)
    BY <1>3, <2>1, SumAtMost
  <2> QED
    BY <1>1, <1>2, <1>4, <2>2
<1>5. CASE d = -1
  <2>1. \A x \in S : f[x] <= zero[x]
    BY <1>3, <1>5
  <2>2. SumFunctionOnSet(f, S) <= SumFunctionOnSet(zero, S)
    BY <1>3, <2>1, SumAtMost
  <2> QED
    BY <1>1, <1>2, <1>5, <2>2
<1> QED
  BY <1>4, <1>5

Signed(b, i) == \A s \in Settlements : \A k \in DOMAIN b.settlement[s].lines :
    b.settlement[s].lines[k].item = i => 0 <= DocSign(i) * b.settlement[s].lines[k].applied

(* Lines that all point one way leave a settled amount that does.          *)
LEMMA AppliedOneWay ==
    ASSUME NEW M, NEW b \in BooksRow(M), Distinct(b), NEW i \in Items, Signed(b, i)
    PROVE  0 <= DocSign(i) * AppliedTo(b, i)
<1> DEFINE f == [s \in Settlements |-> SumOn(b.settlement[s].lines, i)]
           d == DocSign(i)
<1>1. d \in {1, -1}
  BY DEF DocSign
<1>2. ASSUME NEW s \in Settlements PROVE f[s] \in Int /\ 0 <= d * f[s]
  <2>1. f[s] = SumOn(b.settlement[s].lines, i) /\ b.settlement[s].lines \in Seq(LineRow)
        /\ OneLineEach(b.settlement[s].lines) /\ f[s] \in Int
    BY PostedAdd DEF Distinct
  <2> HIDE DEF f
  <2>2. SumOn(b.settlement[s].lines, i) = 0
        \/ 0 <= d * SumOn(b.settlement[s].lines, i)
    BY <2>1, SumOnOne DEF Signed
  <2> QED
    BY <1>1, <2>1, <2>2
<1>3. IsFiniteSet(Posted(b)) /\ Posted(b) \subseteq Settlements
  BY PostedAdd DEF Posted
<1> HIDE DEF f, d
<1>4. 0 <= d * SumFunctionOnSet(f, Posted(b))
  BY <1>1, <1>2, <1>3, SumOneWay
<1> QED
  BY <1>4 DEF AppliedTo, f, d

LEMMA TowardsIs ==
    ASSUME NEW b, NEW i
    PROVE  Towards(b, i) <=> /\ 0 <= DocSign(i) * b.item[i].settled
                             /\ DocSign(i) * b.item[i].settled <= DocSign(i) * b.item[i].original
                             /\ b.item[i].original \in {0} \cup {DocSign(i) * g : g \in Gross[i]}
                             /\ Signed(b, i)
BY DEF Towards, Signed

(* The price of a document that has one does not take the settled amount   *)
(* beyond it.                                                              *)
LEMMA TowardsRows ==
    ASSUME NEW M, NEW b \in BooksRow(M), NEW c, NEW i \in Items, HasOnePrice(i), Towards(b, i),
           c.settlement = b.settlement, c.item[i].settled = b.item[i].settled,
           \/ c.item[i].original = b.item[i].original
           \/ \E g \in Gross[i] : c.item[i].original = DocSign(i) * g
    PROVE  Towards(c, i)
<1>1. CASE c.item[i].original = b.item[i].original
  BY <1>1 DEF Towards
<1>2. ASSUME NEW g \in Gross[i], c.item[i].original = DocSign(i) * g PROVE Towards(c, i)
  <2>1. g \in Nat /\ DocSign(i) \in {1, -1} /\ DocSign(i) * (DocSign(i) * g) = g
    BY ReceivablesAssumption DEF DocSign
  <2>2. b.item[i].settled \in Int
    BY DEF BooksRow, ItemRow
  <2>3. b.item[i].original = 0 \/ b.item[i].original = DocSign(i) * g
    BY DEF Towards, HasOnePrice
  <2>4. DocSign(i) * b.item[i].settled <= DocSign(i) * c.item[i].original
    BY <1>2, <2>1, <2>2, <2>3 DEF Towards
  <2> QED
    BY <1>2, <2>4 DEF Towards
<1> QED
  BY <1>1, <1>2

(* A settlement moves an item no further than to its price.                *)
LEMMA TowardsPost ==
    ASSUME NEW b, Good(CreditNotes, b), Distinct(b),
           NEW s \in Settlements, b.settlement[s].status # "posted"
    PROVE  /\ Distinct(PostEffect(b, s))
           /\ \A i \in Items : Towards(b, i) => Towards(PostEffect(b, s), i)
<1> DEFINE lines == b.settlement[s].lines
           app == AppliedLines(b, s)
           c == PostEffect(b, s)
           move == Applying(b, s)
           moved == Moved(b, move)
           take(k) == Take(b.item[lines[k].item], lines[k], AdvanceLeft(b, s)[k-1])
<1>1. b \in BooksRow(CreditNotes) /\ Sound(b)
  BY DEF Good
<1>2. /\ c.item = moved.item /\ c.settlement[s].lines = app
      /\ \A t \in Settlements \ {s} : c.settlement[t] = b.settlement[t]
  BY <1>1, PostEffectIs
<1>3. /\ app \in Seq(LineRow) /\ DOMAIN app = DOMAIN lines
      /\ \A k \in DOMAIN lines :
            /\ app[k].item = lines[k].item /\ take(k) \in Nat
            /\ app[k].applied = Sign(b.item[lines[k].item].outstanding) * take(k)
  BY <1>1, AppliedLinesAre, ZenonT(60)
<1>4. OneLineEach(lines)
  BY DEF Distinct
<1>5. OneLineEach(app)
  BY <1>3, <1>4 DEF OneLineEach
<1>6. move \in [Items -> Int] /\ \A i \in Items : move[i] = SumOn(app, i)
  BY <1>3, LinesAdd DEF Applying
<1>7. ASSUME NEW k \in DOMAIN lines
      PROVE  /\ take(k) <= Size(b.item[lines[k].item].outstanding)
             /\ ~Live(b.item[lines[k].item]) => take(k) = 0
  <2>1. lines[k] \in LineRow /\ k \in 1..Len(lines) /\ Len(lines) \in Nat
    BY <1>1 DEF BooksRow, SettlementRow
  <2>2. k - 1 \in 0..Len(lines)
    BY <2>1
  <2>3. AdvanceLeft(b, s)[k-1] \in Left
    BY <1>1, <2>2, AdvanceLeftIs
  <2>4. b.item[lines[k].item] \in ItemRow /\ lines[k].amount \in Int
    BY <1>1, <2>1 DEF LineRow, BooksRow
  <2> QED
    BY <2>3, <2>4, TakeBounds
<1> HIDE DEF app, c, move, moved, take, lines
<1>8. \A i \in Items : /\ moved.item[i].settled = b.item[i].settled + move[i]
                       /\ moved.item[i].original = b.item[i].original
  BY <1>1, <1>6, MovedIs DEF moved
<1>9. Distinct(c)
  BY <1>2, <1>5 DEF Distinct
<1>10. ASSUME NEW i \in Items, Towards(b, i) PROVE Towards(c, i)
  <2> DEFINE d == DocSign(i)
             out == b.item[i].outstanding
             settled == b.item[i].settled
             original == b.item[i].original
  <2>1. d \in {1, -1} /\ settled \in Int /\ original \in Int /\ out \in Int /\ TOL \in Nat
    BY <1>1, ReceivablesAssumption DEF DocSign, BooksRow, ItemRow
  <2>2. 0 <= d * settled /\ d * settled <= d * original /\ Signed(b, i)
    BY <1>10, TowardsIs
  <2>3. Live(b.item[i]) => out = original - settled /\ Size(out) > TOL
    BY <1>1 DEF Live, Sound, ItemSound
  <2>4. ASSUME NEW k \in DOMAIN lines, lines[k].item = i
        PROVE  /\ app[k].applied \in Int /\ 0 <= d * app[k].applied
               /\ d * (settled + app[k].applied) <= d * original
    <3>1. app[k].applied = Sign(out) * take(k) /\ take(k) \in Nat /\ take(k) <= Size(out)
          /\ (~Live(b.item[i]) => take(k) = 0)
      BY <1>3, <1>7, <2>4
    <3> HIDE DEF d, out, settled, original
    <3>2. CASE Live(b.item[i])
      <4>1. Sign(out) = d
        BY <2>1, <2>2, <2>3, <3>2 DEF Sign, Size
      <4>2. app[k].applied = d * take(k) /\ d * (d * take(k)) = take(k)
        BY <2>1, <3>1, <4>1
      <4>3. take(k) <= d * (original - settled)
        BY <2>1, <2>2, <2>3, <3>1, <3>2 DEF Size
      <4> QED
        BY <2>1, <3>1, <4>2, <4>3
    <3>3. CASE ~Live(b.item[i])
      <4>1. app[k].applied = 0
        BY <3>1, <3>3 DEF Sign
      <4> QED
        BY <2>1, <2>2, <4>1
    <3> QED
      BY <3>2, <3>3
  <2>5. Signed(c, i)
    <3> HIDE DEF c, app, lines
    <3> SUFFICES ASSUME NEW t \in Settlements, NEW k \in DOMAIN c.settlement[t].lines,
                        c.settlement[t].lines[k].item = i
                 PROVE  0 <= d * c.settlement[t].lines[k].applied
      BY DEF Signed
    <3>1. CASE t = s
      <4>1. k \in DOMAIN lines /\ lines[k].item = i
        BY <1>2, <1>3, <3>1
      <4> QED
        BY <1>2, <2>4, <3>1, <4>1
    <3>2. CASE t # s
      BY <1>2, <2>2, <3>2 DEF Signed
    <3> QED
      BY <3>1, <3>2
  <2>6. \/ SumOn(app, i) = 0
        \/ \E k \in DOMAIN lines : lines[k].item = i /\ SumOn(app, i) = app[k].applied
    BY <1>3, <1>5, SumOnOne
  <2>7. SumOn(app, i) \in Int /\ 0 <= d * SumOn(app, i)
        /\ d * (settled + SumOn(app, i)) <= d * original
    <3> HIDE DEF d, settled, original
    <3> QED
      BY <2>1, <2>2, <2>4, <2>6
  <2>8. c.item[i].settled = settled + SumOn(app, i) /\ c.item[i].original = original
    BY <1>2, <1>6, <1>8
  <2>9. 0 <= d * c.item[i].settled /\ d * c.item[i].settled <= d * c.item[i].original
    <3> HIDE DEF d, settled, original
    <3> QED
      BY <2>1, <2>2, <2>7, <2>8
  <2> QED
    BY <1>10, <2>5, <2>8, <2>9, TowardsIs
<1> QED
  BY <1>9, <1>10 DEF c

(* A cancelled settlement moves an item back, but not past nothing: what   *)
(* the others applied points the same way.                                 *)
LEMMA TowardsCancel ==
    ASSUME NEW b, Good(CreditNotes, b), Distinct(b), NEW s \in Settlements, CanCancel(b, s)
    PROVE  /\ Distinct(CancelEffect(b, s))
           /\ \A i \in Items : Towards(b, i) => Towards(CancelEffect(b, s), i)
<1> DEFINE lines == b.settlement[s].lines
           c == CancelEffect(b, s)
           move == Releasing(b, s)
           moved == Moved(b, move)
<1>1. b \in BooksRow(CreditNotes) /\ OneLineEach(lines)
  BY DEF Good, Distinct
<1>2. c \in BooksRow(CreditNotes) /\ Sound(c)
  BY GoodCancel DEF Good
<1>3. CASE b.settlement[s].status = "draft"
  <2>1. /\ c.item = b.item /\ c.settlement[s].lines = lines
        /\ \A t \in Settlements \ {s} : c.settlement[t] = b.settlement[t]
    BY <1>1, <1>3, CancelDraftIs
  <2> HIDE DEF c, lines
  <2>2. Distinct(c)
    BY <1>1, <2>1 DEF Distinct
  <2>3. \A i \in Items : Towards(b, i) => Towards(c, i)
    BY <2>1 DEF Towards, lines
  <2> QED
    BY <2>2, <2>3 DEF c
<1>4. CASE b.settlement[s].status = "posted"
  <2>1. /\ c.item = moved.item /\ c.settlement[s].lines = Unapplied(lines)
        /\ \A t \in Settlements \ {s} : c.settlement[t] = b.settlement[t]
    BY <1>1, <1>4, CancelPostedIs
  <2>2. lines \in Seq(LineRow) /\ \A i : SumOn(lines, i) \in Int
    BY <1>1, PostedAdd
  <2>3. move \in [Items -> Int] /\ \A i \in Items : move[i] = -SumOn(lines, i)
    <3> HIDE DEF lines
    <3>1. move = [i \in Items |-> -SumOn(lines, i)]
      BY DEF Releasing, lines
    <3> HIDE DEF move
    <3> QED
      BY <2>2, <3>1
  <2>4. /\ DOMAIN Unapplied(lines) = DOMAIN lines
        /\ \A k \in DOMAIN lines : /\ Unapplied(lines)[k].item = lines[k].item
                                   /\ Unapplied(lines)[k].applied = 0
    BY <2>2, LinesAdd DEF Unapplied, LineRow
  <2> HIDE DEF c, lines, move, moved
  <2>5. \A i \in Items : /\ moved.item[i].settled = b.item[i].settled + move[i]
                         /\ moved.item[i].original = b.item[i].original
    BY <1>1, <2>3, MovedIs DEF moved
  <2>6. Distinct(c)
    BY <1>1, <2>1, <2>4 DEF Distinct, OneLineEach
  <2>7. ASSUME NEW i \in Items, Towards(b, i) PROVE Towards(c, i)
    <3> DEFINE d == DocSign(i)
               settled == b.item[i].settled
               original == b.item[i].original
    <3>1. d \in {1, -1} /\ settled \in Int /\ original \in Int
      BY <1>1 DEF DocSign, BooksRow, ItemRow
    <3>2. 0 <= d * settled /\ d * settled <= d * original /\ Signed(b, i)
      BY <2>7, TowardsIs
    <3>3. Signed(c, i)
      BY <2>1, <2>4, <3>1, <3>2 DEF Signed
    <3>4. c.item[i].settled = AppliedTo(c, i) /\ 0 <= d * AppliedTo(c, i)
      BY <1>2, <2>6, <3>3, AppliedOneWay DEF Sound
    <3>5. SumOn(lines, i) = 0
          \/ \E k \in DOMAIN lines : lines[k].item = i /\ SumOn(lines, i) = lines[k].applied
      BY <1>1, <2>2, SumOnOne
    <3>6. SumOn(lines, i) \in Int /\ 0 <= d * SumOn(lines, i)
      BY <2>2, <3>1, <3>2, <3>5 DEF Signed, lines
    <3>7. c.item[i].settled = settled - SumOn(lines, i) /\ c.item[i].original = original
      BY <2>1, <2>2, <2>3, <2>5, <3>1
    <3>8. 0 <= d * c.item[i].settled /\ d * c.item[i].settled <= d * c.item[i].original
      <4>1. 0 <= d * c.item[i].settled
        BY <3>4
      <4> HIDE DEF d, settled, original
      <4>2. d * (settled - SumOn(lines, i)) <= d * original
        BY <3>1, <3>2, <3>6
      <4> QED
        BY <3>7, <4>1, <4>2
    <3> QED
      BY <2>7, <3>3, <3>7, <3>8, TowardsIs
  <2> QED
    BY <2>6, <2>7 DEF c
<1> QED
  BY <1>3, <1>4 DEF CanCancel

LEMMA TowardsDraft ==
    ASSUME NEW M, NEW b \in BooksRow(M), Distinct(b), NEW s \in Settlements, NEW c,
           c.item = b.item, \A t \in Settlements \ {s} : c.settlement[t] = b.settlement[t],
           OneLineEach(c.settlement[s].lines),
           \A k \in DOMAIN c.settlement[s].lines : c.settlement[s].lines[k].applied = 0
    PROVE  Distinct(c) /\ \A i \in Items : Towards(b, i) => Towards(c, i)
<1>1. Distinct(c)
  BY DEF Distinct
<1>2. ASSUME NEW i \in Items, Towards(b, i) PROVE Towards(c, i)
  <2>1. DocSign(i) \in {1, -1} /\ DocSign(i) * 0 = 0
    BY DEF DocSign
  <2>2. Signed(b, i)
    BY <1>2, TowardsIs
  <2>3. Signed(c, i)
    BY <2>1, <2>2 DEF Signed
  <2> QED
    BY <1>2, <2>3, TowardsIs
<1> QED
  BY <1>1, <1>2
-----------------------------------------------------------------------------
(* What is only known of documents that have one price: of each, that it   *)
(* is settled towards that price; of credit notes, that the settlements    *)
(* made for them net to nothing.                                           *)
NotesPriced == \A i \in CreditNotes : HasOnePrice(i)
Netting(b)  == NotesPriced => Marked(b)
Tidy(b)     == Distinct(b) /\ \A i \in Items : HasOnePrice(i) => Towards(b, i)

(* A settlement row that was not made for a credit note, or made and       *)
(* cancelled.                                                              *)
LEMMA MarkedRow ==
    ASSUME NEW b, Marked(b), NEW s \in Settlements, NEW c,
           \A t \in Settlements \ {s} : c.settlement[t] = b.settlement[t],
           c.settlement[s].marker # {} =>
              /\ c.settlement[s].status \in {"posted", "cancelled"}
              /\ \A i, j \in Items : i \in c.settlement[s].marker /\ j \in Original[i] =>
                    NetsOut(SumOn(c.settlement[s].lines, j), -SumOn(c.settlement[s].lines, i))
    PROVE  Marked(c)
BY DEF Marked

LEMMA MarkedPost ==
    ASSUME NEW b, Good(CreditNotes, b), Marked(b),
           NEW s \in Settlements, b.settlement[s].status = "draft"
    PROVE  Marked(PostEffect(b, s))
<1> DEFINE c == PostEffect(b, s)
<1>1. /\ \A t \in Settlements \ {s} : c.settlement[t] = b.settlement[t]
      /\ c.settlement[s].marker = b.settlement[s].marker
  BY PostEffectIs DEF Good
<1>2. c.settlement[s].marker = {}
  BY <1>1 DEF Marked
<1> HIDE DEF c
<1>3. Marked(c)
  BY <1>1, <1>2, MarkedRow
<1> QED
  BY <1>3 DEF c

LEMMA MarkedCancel ==
    ASSUME NEW b, Good(CreditNotes, b), Marked(b), NEW s \in Settlements, CanCancel(b, s)
    PROVE  Marked(CancelEffect(b, s))
<1> DEFINE c == CancelEffect(b, s)
           lines == b.settlement[s].lines
<1>1. b \in BooksRow(CreditNotes) /\ lines \in Seq(LineRow)
  BY PostedAdd DEF Good
<1>2. CASE b.settlement[s].status = "draft"
  <2>1. /\ \A t \in Settlements \ {s} : c.settlement[t] = b.settlement[t]
        /\ c.settlement[s].marker = b.settlement[s].marker
    BY <1>1, <1>2, CancelDraftIs
  <2>2. c.settlement[s].marker = {}
    BY <1>2, <2>1 DEF Marked
  <2> HIDE DEF c
  <2>3. Marked(c)
    BY <2>1, <2>2, MarkedRow
  <2> QED
    BY <2>3 DEF c
<1>3. CASE b.settlement[s].status = "posted"
  <2>1. /\ \A t \in Settlements \ {s} : c.settlement[t] = b.settlement[t]
        /\ c.settlement[s].status = "cancelled" /\ c.settlement[s].lines = Unapplied(lines)
    BY <1>1, <1>3, CancelPostedIs
  <2>2. ASSUME NEW i PROVE SumOn(Unapplied(lines), i) = 0
    <3> DEFINE app == Unapplied(lines)
               f == [k \in DOMAIN app |-> app[k].applied]
               K == {k \in DOMAIN app : app[k].item = i}
    <3>1. DOMAIN app = DOMAIN lines /\ \A k \in DOMAIN app : app[k].applied = 0
      BY <1>1, LinesAdd DEF Unapplied, LineRow
    <3>2. IsFiniteSet(K) /\ \A k \in K : f[k] = 0
      BY <1>1, <3>1, LinesAdd, FS_Subset
    <3>3. SumOn(app, i) = SumFunctionOnSet(f, K)
      BY DEF SumOn
    <3> HIDE DEF app, f, K
    <3>4. SumOn(app, i) = 0
      BY <3>2, <3>3, SumOfZeros
    <3> QED
      BY <3>4 DEF app
  <2>3. NetsOut(0, -0)
    BY ReceivablesAssumption DEF NetsOut, Size
  <2> HIDE DEF c, lines
  <2>4. Marked(c)
    BY <2>1, <2>2, <2>3, MarkedRow
  <2> QED
    BY <2>4 DEF c
<1> QED
  BY <1>2, <1>3 DEF CanCancel

LEMMA TwoLines ==
    ASSUME NEW lines \in Seq(LineRow), DOMAIN lines = 1..2
    PROVE  Len(lines) = 2
<1> DEFINE n == Len(lines)
           D == DOMAIN lines
<1>1. n \in Nat /\ D = 1..n
  BY LinesAdd
<1>2. D = 1..2
  OBVIOUS
<1> HIDE DEF n, D
<1>3. 2 \in D
  BY <1>2
<1>4. 2 <= n
  BY <1>1, <1>3
<1>5. n \in D
  BY <1>1, <1>4
<1>6. n <= 2
  BY <1>1, <1>2, <1>5, SMTT(30)
<1> QED
  BY <1>1, <1>4, <1>6 DEF n

(* A note that is settled towards its price is never owed more than that.  *)
LEMMA NoteOwesLess ==
    ASSUME NEW b \in BooksRow(CreditNotes), NEW i \in Items, i \in CreditNotes, Towards(b, i)
    PROVE  b.item[i].original - b.item[i].settled <= 0
<1>1. DocSign(i) = -1 /\ b.item[i].original \in Int /\ b.item[i].settled \in Int
  BY DEF DocSign, BooksRow, ItemRow
<1>2. DocSign(i) * b.item[i].settled <= DocSign(i) * b.item[i].original
  BY DEF Towards
<1> QED
  BY <1>1, <1>2

\* A settlement without an advance has nothing left to draw after a line.
LEMMA NoAdvanceLeft ==
    ASSUME NEW M, NEW b \in BooksRow(M), NEW s \in Settlements,
           b.settlement[s].advance = {}, Len(b.settlement[s].lines) = 2
    PROVE  AdvanceLeft(b, s)[0] = {} /\ AdvanceLeft(b, s)[1] = {}
<1> DEFINE lines == b.settlement[s].lines
           left == AdvanceLeft(b, s)
<1>1. left[0] = {b.advance[a].outstanding : a \in b.settlement[s].advance}
  BY AdvanceLeftIs, SMTT(60)
<1>2. left[0] = {}
  BY <1>1
<1>3. \A k \in 1..Len(lines) :
         left[k] = {l - Take(b.item[lines[k].item], lines[k], left[k-1]) : l \in left[k-1]}
  BY AdvanceLeftIs, SMTT(60)
<1> HIDE DEF left, lines
<1>4. left[1] = {l - Take(b.item[lines[1].item], lines[1], left[1-1]) : l \in left[1-1]}
  BY <1>3 DEF lines
<1> QED
  BY <1>2, <1>4 DEF left

\* c is b with the draft that is made for the note i and the invoice t.
AutoDraft(b, c, s, i, t, owed) ==
    /\ c.item = b.item /\ c.settlement[s].advance = {}
    /\ c.settlement[s].lines \in Seq(LineRow) /\ DOMAIN c.settlement[s].lines = 1..2
    /\ c.settlement[s].lines[1].item = t /\ c.settlement[s].lines[2].item = i
    /\ \A k \in 1..2 : c.settlement[s].lines[k].amount = Min({owed, Size(b.item[i].outstanding)})

(* The settlement made for a credit note takes off the note what it asks   *)
(* for, and off the invoice as much of that as it still owes: under the    *)
(* block rule all of it, but for the tolerance.                            *)
LEMMA AutoNets ==
    ASSUME NEW b, Good(CreditNotes, b), NEW i \in Items, i \in CreditNotes, Towards(b, i),
           NEW t \in Items, t # i, NEW owed \in Nat, b.item[i].outstanding # 0,
           NEW s \in Settlements, NEW c, Good(CreditNotes, c), AutoDraft(b, c, s, i, t, owed),
           CanPost(c, s)
    PROVE  NetsOut(SumOn(AppliedLines(c, s), t), -SumOn(AppliedLines(c, s), i))
<1> DEFINE lines == c.settlement[s].lines
           app == AppliedLines(c, s)
           left == AdvanceLeft(c, s)
           take(k) == Take(c.item[lines[k].item], lines[k], left[k-1])
           outT == b.item[t].outstanding
           outI == b.item[i].outstanding
           amt == Min({owed, Size(outI)})
<1>1. /\ c \in BooksRow(CreditNotes) /\ b \in BooksRow(CreditNotes)
      /\ b.item[t] \in ItemRow /\ b.item[i] \in ItemRow /\ ItemSound(b.item[i])
  BY DEF Good, Sound, BooksRow
<1>2. outT \in Int /\ outI \in Int /\ TOL \in Nat
  BY <1>1, ReceivablesAssumption DEF ItemRow
<1>3. amt \in 0..Size(outI) /\ amt \in Nat /\ Size(outT) \in Nat
  <2>1. Size(outI) \in Nat /\ Size(outT) \in Nat
    BY <1>2 DEF Size
  <2>2. amt = IF owed <= Size(outI) THEN owed ELSE Size(outI)
    BY <1>2, <2>1, MinOfTwo
  <2> HIDE DEF amt, outT, outI
  <2> QED
    BY <2>1, <2>2
<1>4. Live(b.item[i]) /\ Sign(outI) = -1
  <2>1. b.item[i].open /\ outI = b.item[i].original - b.item[i].settled /\ Size(outI) > TOL
    BY <1>1 DEF ItemSound
  <2>2. ~(outI > 0)
    BY <1>1, <2>1, NoteOwesLess DEF ItemRow
  <2> QED
    BY <2>1, <2>2 DEF Live, Sign
<1>5. left[0] = {} /\ left[1] = {}
  <2>1. Len(lines) = 2
    BY TwoLines DEF AutoDraft
  <2> QED
    BY <1>1, <2>1, NoAdvanceLeft DEF AutoDraft
<1>6. /\ take(1) = (IF Live(b.item[t]) THEN IF amt <= Size(outT) THEN amt ELSE Size(outT) ELSE 0)
      /\ take(2) = amt
  <2>1. {} \in Left
    BY DEF Left
  <2>2. left[1-1] = {} /\ left[2-1] = {}
    BY <1>5
  <2>3. lines[1].amount = amt /\ lines[2].amount = amt
    BY DEF AutoDraft
  <2> HIDE DEF amt, left, lines
  <2>4. Take(b.item[t], lines[1], {}) =
           IF Live(b.item[t]) THEN IF amt <= Size(outT) THEN amt ELSE Size(outT) ELSE 0
    <3>1. Wanted(b.item[t], lines[1]) = IF amt <= Size(outT) THEN amt ELSE Size(outT)
      BY <1>3, <2>3, MinOfTwo DEF Wanted
    <3> DEFINE w == Wanted(b.item[t], lines[1])
    <3>2. w \in Nat
      BY <1>3, <3>1
    <3>3. Min({w} \cup {}) = w /\ Max({0, w}) = w
      <4> HIDE DEF w
      <4>1. {w} \cup {} = {w, w}
        OBVIOUS
      <4> QED
        BY <3>2, <4>1, MinOfTwo, MaxOfTwo
    <3> QED
      BY <3>1, <3>3 DEF Take
  <2>5. Take(b.item[i], lines[2], {}) = amt
    BY <1>1, <1>3, <1>4, <2>1, <2>3, TakeBounds
  <2>6. c.item[lines[1].item] = b.item[t] /\ c.item[lines[2].item] = b.item[i]
    BY DEF AutoDraft, lines
  <2> QED
    BY <2>2, <2>4, <2>5, <2>6
<1>7. BlockOver => Live(b.item[t]) /\ amt - Size(outT) <= TOL
  <2>1. BlockOver => ~Refused(c.item[lines[1].item], lines[1], left[0])
    <3>1. 1 \in DOMAIN lines /\ 1 - 1 = 0
      BY DEF AutoDraft
    <3> QED
      BY <3>1 DEF CanPost
  <2>2. c.item[lines[1].item] = b.item[t] /\ lines[1].amount = amt
    BY DEF AutoDraft
  <2> HIDE DEF amt, left, lines
  <2> QED
    BY <1>2, <1>3, <2>1, <2>2 DEF Refused
<1>8. /\ app \in Seq(LineRow) /\ DOMAIN app = 1..2
      /\ app[1].item = t /\ app[2].item = i
      /\ app[1].applied = Sign(outT) * take(1) /\ app[2].applied = Sign(outI) * take(2)
  <2>1. /\ DOMAIN lines = 1..2 /\ 1 \in 1..2 /\ 2 \in 1..2
        /\ lines[1].item = t /\ lines[2].item = i /\ c.item = b.item
    BY DEF AutoDraft
  <2>2. /\ app \in Seq(LineRow) /\ DOMAIN app = DOMAIN lines
        /\ \A k \in DOMAIN lines :
              /\ app[k].item = lines[k].item
              /\ app[k].applied = Sign(c.item[lines[k].item].outstanding) * take(k)
    BY <1>1, AppliedLinesAre
  <2> HIDE DEF app, take, lines
  <2> QED
    BY <2>1, <2>2
<1> HIDE DEF app, take, outT, outI, amt
<1>9. OneLineEach(app)
  BY <1>8 DEF OneLineEach
<1>10. SumOn(app, t) = Sign(outT) * take(1)
  BY <1>1, <1>8, <1>9, SumOnOne
<1>11. SumOn(app, i) = -amt
  BY <1>1, <1>3, <1>4, <1>6, <1>8, <1>9, SumOnOne
<1> DEFINE given == Sign(outT) * take(1)
<1>12. /\ given \in Int /\ given <= amt /\ Size(given) = take(1) /\ take(1) \in Nat
  BY <1>3, <1>6 DEF Sign, Size
<1>13. BlockOver => amt - take(1) <= TOL
  BY <1>2, <1>3, <1>6, <1>7
<1>14. NetsOut(given, amt)
  BY <1>12, <1>13 DEF NetsOut
<1>15. -(-amt) = amt
  BY <1>3
<1> QED
  BY <1>10, <1>11, <1>14, <1>15 DEF app

TidyNet(b) == Tidy(b) /\ Netting(b)

(* Documents are written, settlements are not.                             *)
LEMMA TidyRows ==
    ASSUME NEW b, Good(CreditNotes, b), TidyNet(b), NEW c, c.settlement = b.settlement,
           \A i \in Items : /\ c.item[i].settled = b.item[i].settled
                            /\ \/ c.item[i].original = b.item[i].original
                               \/ \E g \in Gross[i] : c.item[i].original = DocSign(i) * g
    PROVE  TidyNet(c)
<1>1. b \in BooksRow(CreditNotes)
  BY DEF Good
<1>2. \A i \in Items : HasOnePrice(i) => Towards(c, i)
  BY <1>1, TowardsRows DEF TidyNet, Tidy
<1>3. Distinct(c) /\ Netting(c)
  BY DEF TidyNet, Tidy, Netting, Distinct, Marked
<1> QED
  BY <1>2, <1>3 DEF TidyNet, Tidy

LEMMA TidyKept ==
    ASSUME NEW b, Good(CreditNotes, b), TidyNet(b), NEW c, RowsKept(b, c)
    PROVE  TidyNet(c)
BY TidyRows DEF RowsKept

LEMMA PricedBecome ==
    ASSUME IInv, Priced, NEW b, Become(b), AmountsKept(Books, b), UNCHANGED <<editing, repairing>>
    PROVE  Priced'
BY DEF Priced, PricedReads, Become, AmountsKept, Books

\* What each step keeps, of the prices and of what depends on them.
Tracked == Priced /\ TidyNet(Books)

LEMMA TrackedBecome ==
    ASSUME IInv, Tracked, NEW b, Good(CreditNotes, b), TidyNet(b), Become(b), AmountsKept(Books, b),
           UNCHANGED <<editing, repairing>>
    PROVE  Tracked'
<1>1. Books' = b
  BY BecomeIs DEF Good
<1>2. Priced'
  BY PricedBecome DEF Tracked
<1> QED
  BY <1>1, <1>2 DEF Tracked

LEMMA TrackedHeader ==
    ASSUME IInv, Tracked, NEW i \in Items, NEW h, header' = [header EXCEPT ![i] = h],
           h.amount \in Gross[i], UNCHANGED <<item, advance, settlement>>, PricedReads'
    PROVE  Tracked'
<1>1. Priced'
  BY BooksAre DEF Priced, Tracked
<1>2. RowsKept(Books, Books')
  BY DEF RowsKept, Books
<1>3. TidyNet(Books')
  BY <1>2, TidyKept DEF Tracked, IInv, GoodState
<1> QED
  BY <1>1, <1>3 DEF Tracked

AutoRow(b, i, t, owed)    == Draft(AutoLines(b, i, t, owed), {}, {i})
AutoAmount(b, i, owed) == Min({owed, Size(b.item[i].outstanding)})

(* The draft that is made for a note and its invoice.                      *)
LEMMA AutoDraftRow ==
    ASSUME NEW b \in BooksRow(CreditNotes), NEW i \in Items, i \in CreditNotes,
           NEW t \in Items, NEW owed \in Nat
    PROVE  LET d == AutoRow(b, i, t, owed)
           IN  /\ d \in SettlementRow(CreditNotes) /\ d.status = "draft" /\ d.advance = {}
               /\ d.marker = {i} /\ d.lines \in Seq(LineRow) /\ DOMAIN d.lines = 1..2
               /\ d.lines[1].item = t /\ d.lines[2].item = i
               /\ \A k \in 1..2 : /\ d.lines[k].amount = AutoAmount(b, i, owed)
                                  /\ d.lines[k].applied = 0
<1> DEFINE lines == AutoLines(b, i, t, owed)
           marker == {i}
           none == {}
           d == Draft(lines, none, marker)
           amt == Min({owed, Size(b.item[i].outstanding)})
<1>1. /\ lines \in Seq(Asked) /\ DOMAIN lines = 1..2
      /\ lines[1].item = t /\ lines[2].item = i
      /\ lines[1].amount = amt /\ lines[2].amount = amt
  BY AutoLinesAre
<1>2. none \in Payers /\ marker \in SUBSET CreditNotes
  BY DEF Payers
<1>6. d = AutoRow(b, i, t, owed) /\ amt = AutoAmount(b, i, owed) /\ none = {} /\ marker = {i}
  BY DEF AutoRow, AutoAmount
<1> HIDE DEF lines, marker, none, amt, d
<1>3. /\ d \in SettlementRow(CreditNotes) /\ d.status = "draft" /\ d.advance = none
      /\ d.marker = marker /\ DOMAIN d.lines = DOMAIN lines
      /\ \A k \in DOMAIN lines : /\ d.lines[k].item = lines[k].item
                                 /\ d.lines[k].amount = lines[k].amount
                                 /\ d.lines[k].applied = 0
  BY <1>1, <1>2, DraftIs DEF d
<1>4. d.lines \in Seq(LineRow)
  BY <1>3 DEF SettlementRow
<1>5. 1 \in 1..2 /\ 2 \in 1..2 /\ \A k \in 1..2 : k = 1 \/ k = 2
  OBVIOUS
<1> QED
  BY <1>1, <1>3, <1>4, <1>5, <1>6

LEMMA TrackedPostInvoice ==
    ASSUME IInv, Tracked, NEW i \in Items, PostInvoice(i)
    PROVE  Tracked'
<1> DEFINE no == FALSE
           h == [Recomputed(header[i]) EXCEPT !.status = "posted", !.reversed = no]
           b == Snapshot(WriteHeader(Books, i, h), i)
<1>1. [Books EXCEPT !.header[i] = [Recomputed(@) EXCEPT !.status = "posted", !.reversed = FALSE]]
         = WriteHeader(Books, i, h)
  BY BooksAre DEF WriteHeader, BooksRow
<1>2. no \in BOOLEAN
  OBVIOUS
<1> HIDE DEF no
<1>3. h \in HeaderRow /\ h.amount = header[i].amount
  <2>1. Recomputed(header[i]) \in HeaderRow /\ Recomputed(header[i]).amount = header[i].amount
    BY BooksAre, RecomputedIs
  <2> QED
    BY <1>2, <2>1 DEF HeaderRow
<1>4. \/ Become(SyncHeader(b, i))
      \/ /\ b.item[i].outstanding # 0
         /\ \E owed \in adjusting[i], t \in Original[i], s \in Settlements :
               LET c == [b EXCEPT !.settlement[s] = Draft(AutoLines(b, i, t, owed), {}, {i})]
               IN  /\ settlement[s].status = "none"
                   /\ CanPost(c, s)
                   /\ Become(SyncHeader(PostEffect(c, s), i))
  BY <1>1 DEF PostInvoice
<1>9. ReadsOk /\ UNCHANGED <<editing, repairing>>
  BY PostingReads DEF IInv, GoodState
<1> HIDE DEF h, b
<1>5. /\ Good(CreditNotes, b) /\ b.settlement = settlement /\ AmountsKept(Books, b)
      /\ \A j \in Items \ {i} : b.item[j] = item[j]
      /\ b.item[i].settled = item[i].settled /\ b.item[i].original = Net(h, i)
  <2>1. /\ Good(CreditNotes, Books) /\ Books.settlement = settlement /\ Books.header[i] = header[i]
        /\ Books.item = item
    BY BooksAre DEF IInv, GoodState
  <2> QED
    BY <1>3, <2>1, GoodSnapshot DEF b
<1>6. TidyNet(b)
  <2>1. /\ Good(CreditNotes, Books) /\ TidyNet(Books)
        /\ Books.settlement = settlement /\ Books.item = item
    BY BooksAre DEF IInv, GoodState, Tracked
  <2>2. b.item[i].original = DocSign(i) * h.amount /\ h.amount \in Gross[i]
    BY <1>3, <1>5 DEF Net, Tracked, Priced
  <2>3. \A j \in Items : /\ b.item[j].settled = Books.item[j].settled
                         /\ \/ b.item[j].original = Books.item[j].original
                            \/ \E g \in Gross[j] : b.item[j].original = DocSign(j) * g
    BY <1>5, <2>1, <2>2
  <2> QED
    BY <1>5, <2>1, <2>3, TidyRows
<1>7. CASE Become(SyncHeader(b, i))
  <2>1. /\ Good(CreditNotes, SyncHeader(b, i)) /\ RowsKept(b, SyncHeader(b, i))
        /\ AmountsKept(b, SyncHeader(b, i))
    BY <1>5, GoodSync
  <2>2. TidyNet(SyncHeader(b, i)) /\ AmountsKept(Books, SyncHeader(b, i))
    BY <1>5, <1>6, <2>1, TidyKept DEF AmountsKept
  <2> QED
    BY <1>7, <1>9, <2>1, <2>2, TrackedBecome
<1>8. ASSUME NEW owed \in adjusting[i], NEW t \in Original[i], NEW s \in Settlements,
             settlement[s].status = "none", b.item[i].outstanding # 0,
             NEW c, c = [b EXCEPT !.settlement[s] = Draft(AutoLines(b, i, t, owed), {}, {i})],
             CanPost(c, s), Become(SyncHeader(PostEffect(c, s), i))
      PROVE  Tracked'
  <2> DEFINE d == AutoRow(b, i, t, owed)
             e == PostEffect(c, s)
             f == SyncHeader(e, i)
             amt == AutoAmount(b, i, owed)
  <2>1. /\ i \in CreditNotes /\ t \in Items /\ t # i /\ owed \in Nat
        /\ \A j \in Original[i] : j = t
    BY <1>9, TargetsAre
  <2>2. /\ d \in SettlementRow(CreditNotes) /\ d.status = "draft" /\ d.advance = {}
        /\ d.marker = {i} /\ d.lines \in Seq(LineRow) /\ DOMAIN d.lines = 1..2
        /\ d.lines[1].item = t /\ d.lines[2].item = i
        /\ \A k \in 1..2 : d.lines[k].amount = amt /\ d.lines[k].applied = 0
    <3>1. b \in BooksRow(CreditNotes)
      BY <1>5 DEF Good
    <3> QED
      BY <2>1, <3>1, AutoDraftRow
  <2> HIDE DEF d
  <2>3. OneLineEach(d.lines) /\ \A k \in DOMAIN d.lines : d.lines[k].applied = 0
    BY <2>1, <2>2 DEF OneLineEach
  <2>4. c = WriteSettlement(b, s, d)
    BY <1>8 DEF d, AutoRow, WriteSettlement
  <2>5. /\ Good(CreditNotes, c) /\ c.settlement[s] = d /\ c.header = b.header /\ c.item = b.item
        /\ \A o \in Settlements \ {s} : c.settlement[o] = b.settlement[o]
    <3>1. b.settlement[s].status # "posted" /\ d.status # "posted"
          /\ \A a \in d.advance : b.advance[a].exists
      BY <1>5, <1>8, <2>2
    <3> QED
      BY <1>5, <2>2, <2>4, <3>1, GoodDraft
  <2> HIDE DEF amt
  <2>6. Tidy(c)
    <3>1. Distinct(c) /\ \A j \in Items : Towards(b, j) => Towards(c, j)
      BY <1>5, <1>6, <2>3, <2>5, TowardsDraft DEF Good, TidyNet, Tidy
    <3> QED
      BY <1>6, <3>1 DEF TidyNet, Tidy
  <2>7. Good(CreditNotes, e) /\ AmountsKept(c, e)
    BY <2>2, <2>5, GoodPost
  <2>8. Tidy(e)
    <3>1. Distinct(e) /\ \A j \in Items : Towards(c, j) => Towards(e, j)
      BY <2>2, <2>5, <2>6, TowardsPost DEF Tidy
    <3> QED
      BY <2>6, <3>1 DEF Tidy
  <2>9. Netting(e)
    <3> SUFFICES ASSUME NotesPriced PROVE Marked(e)
      BY DEF Netting
    <3>1. Towards(b, i) /\ Marked(b)
      BY <1>6, <2>1 DEF TidyNet, Tidy, Netting, NotesPriced
    <3>2. AutoDraft(b, c, s, i, t, owed)
      BY <2>2, <2>5 DEF AutoDraft, amt, AutoAmount
    <3>3. NetsOut(SumOn(AppliedLines(c, s), t), -SumOn(AppliedLines(c, s), i))
      BY <1>5, <1>8, <2>1, <2>5, <3>1, <3>2, AutoNets
    <3>4. /\ \A o \in Settlements \ {s} : e.settlement[o] = c.settlement[o]
          /\ e.settlement[s].lines = AppliedLines(c, s) /\ e.settlement[s].status = "posted"
          /\ e.settlement[s].marker = c.settlement[s].marker
      BY <2>5, PostEffectIs DEF Good
    <3> HIDE DEF e
    <3>5. \A o \in Settlements \ {s} : e.settlement[o] = b.settlement[o]
      BY <2>5, <3>4
    <3>6. \A p, j \in Items : p \in e.settlement[s].marker /\ j \in Original[p] =>
              NetsOut(SumOn(e.settlement[s].lines, j), -SumOn(e.settlement[s].lines, p))
      BY <2>1, <2>2, <2>5, <3>3, <3>4
    <3> QED
      BY <3>1, <3>4, <3>5, <3>6, MarkedRow
  <2> HIDE DEF e
  <2>10. Good(CreditNotes, f) /\ RowsKept(e, f) /\ AmountsKept(e, f)
    BY <2>7, GoodSync
  <2>11. TidyNet(f)
    BY <2>7, <2>8, <2>9, <2>10, TidyKept DEF TidyNet
  <2>12. AmountsKept(Books, f)
    BY <1>5, <2>5, <2>7, <2>10 DEF AmountsKept
  <2>13. Become(f)
    BY <1>8 DEF e
  <2> HIDE DEF f
  <2> QED
    BY <1>9, <2>10, <2>11, <2>12, <2>13, TrackedBecome
<1> QED
  BY <1>4, <1>7, <1>8

LEMMA TrackedConfirm ==
    ASSUME IInv, Tracked, NEW i \in Items, Confirm(i)
    PROVE  Tracked'
<1> DEFINE h == [Recomputed(header[i]) EXCEPT !.status = "confirmed"]
<1>1. h.amount = header[i].amount
  <2>1. Recomputed(header[i]) \in HeaderRow /\ Recomputed(header[i]).amount = header[i].amount
    BY BooksAre, RecomputedIs
  <2> QED
    BY <2>1 DEF HeaderRow
<1>2. header' = [header EXCEPT ![i] = h] /\ UNCHANGED <<item, advance, settlement, reads>>
  BY DEF Confirm
<1> HIDE DEF h
<1>3. h.amount \in Gross[i] /\ PricedReads'
  BY <1>1, <1>2 DEF Tracked, Priced, PricedReads, reads
<1> QED
  BY <1>2, <1>3, TrackedHeader

LEMMA TrackedEdit ==
    ASSUME IInv, Tracked, NEW i \in Items, NEW amt \in Gross[i],
           EditInvoice(i, amt) \/ SaveEdit(i, amt)
    PROVE  Tracked'
<1>1. PICK h \in HeaderRow : /\ Editable(h) /\ header' = [header EXCEPT ![i] = Edited(h, amt)]
                             /\ UNCHANGED <<item, advance, settlement>>
  BY BooksAre DEF EditInvoice, SaveEdit, IInv, GoodState, ReadsOk
<1>2. Edited(h, amt).amount \in Gross[i]
  BY <1>1, EditedIs
<1>3. PricedReads'
  BY DEF IInv, GoodState, ReadsOk, EditInvoice, SaveEdit, Tracked, Priced, PricedReads, reads
<1> QED
  BY <1>1, <1>2, <1>3, TrackedHeader

LEMMA TrackedRead ==
    ASSUME IInv, Tracked, NEW i \in Items, BeginEdit(i) \/ BeginRepair(i)
    PROVE  Tracked'
<1>1. Books' = Books /\ header' = header
  BY DEF BeginEdit, BeginRepair, Books
<1>2. PricedReads'
  BY DEF BeginEdit, BeginRepair, Tracked, Priced, PricedReads, IInv, GoodState, ReadsOk, Net
<1> QED
  BY <1>1, <1>2 DEF Tracked, Priced

LEMMA TrackedApply ==
    ASSUME IInv, Tracked, NEW i \in Items, NEW amt \in TypedAmounts, ApplySettlement(i, amt)
    PROVE  Tracked'
<1>1. PICK g \in {header[i]} \cup editing[i] :
         header' = [header EXCEPT ![i].settled = Typed(g, amt).settled,
                                  ![i].outstanding = Typed(g, amt).outstanding]
  BY DEF ApplySettlement
<1> DEFINE new == Typed(g, amt)
           h == [header[i] EXCEPT !.settled = new.settled, !.outstanding = new.outstanding]
<1>2. header[i] \in HeaderRow
  BY BooksAre
<1>3. header' = [header EXCEPT ![i] = h] /\ UNCHANGED <<item, advance, settlement, reads>>
  BY <1>1, <1>2, BooksAre DEF ApplySettlement, HeaderRow
<1> HIDE DEF new
<1>4. h.amount = header[i].amount
  BY <1>2 DEF HeaderRow
<1> HIDE DEF h
<1>5. h.amount \in Gross[i] /\ PricedReads'
  BY <1>3, <1>4 DEF Tracked, Priced, PricedReads, reads
<1> QED
  BY <1>3, <1>5, TrackedHeader

LEMMA TrackedReverse ==
    ASSUME IInv, Tracked, NEW i \in Items, ReversePosting(i)
    PROVE  Tracked'
<1> DEFINE b == Reversed(Books, i)
<1>1. Good(CreditNotes, Books) /\ TidyNet(Books) /\ Become(b) /\ UNCHANGED <<editing, repairing>>
  BY DEF IInv, GoodState, Tracked, ReversePosting, reads
<1>2. Good(CreditNotes, b) /\ RowsKept(Books, b) /\ AmountsKept(Books, b)
  BY <1>1, GoodReversal
<1> HIDE DEF b
<1>3. TidyNet(b)
  BY <1>1, <1>2, TidyKept
<1> QED
  BY <1>1, <1>2, <1>3, TrackedBecome

LEMMA TrackedCancelInvoice ==
    ASSUME IInv, Tracked, NEW i \in Items, CancelInvoice(i)
    PROVE  Tracked'
<1> DEFINE b == IF header[i].status = "posted" THEN Reversed(Books, i) ELSE Books
           h == [b.header[i] EXCEPT !.status = "cancelled"]
           d == WriteHeader(b, i, h)
           e == CloseItem(d, i)
<1>1. Good(CreditNotes, b) /\ RowsKept(Books, b) /\ AmountsKept(Books, b)
  <2>1. Good(CreditNotes, Books) /\ RowsKept(Books, Books) /\ AmountsKept(Books, Books)
    BY DEF IInv, GoodState, RowsKept, AmountsKept
  <2> QED
    BY <2>1, GoodReversal
<1>2. UNCHANGED <<editing, repairing>> /\ Become(CloseItem([b EXCEPT !.header[i].status = "cancelled"], i))
  BY DEF CancelInvoice, reads
<1> HIDE DEF b
<1>3. b \in BooksRow(CreditNotes) /\ b.header[i] \in HeaderRow
  BY <1>1 DEF Good, BooksRow
<1>4. h \in HeaderRow /\ h.status = "cancelled" /\ h.amount = b.header[i].amount
  BY <1>3 DEF HeaderRow
<1>5. d = [b EXCEPT !.header[i].status = "cancelled"]
  BY <1>3 DEF BooksRow, WriteHeader
<1> HIDE DEF h
<1>6. Good(CreditNotes, d) /\ RowsKept(b, d) /\ AmountsKept(b, d)
  BY <1>1, <1>4, GoodHeader
<1>7. d.header[i].status = "cancelled"
  BY <1>3, <1>4, HeaderWritten
<1>8. Become(e)
  BY <1>2, <1>5
<1> HIDE DEF d
<1>9. Good(CreditNotes, e) /\ RowsKept(d, e) /\ AmountsKept(d, e)
  BY <1>6, <1>7, GoodClose
<1> HIDE DEF e
<1>10. TidyNet(Books) /\ Good(CreditNotes, Books)
  BY DEF Tracked, IInv, GoodState
<1>11. TidyNet(b)
  BY <1>1, <1>10, TidyKept
<1>12. TidyNet(d)
  BY <1>1, <1>6, <1>11, TidyKept
<1>13. TidyNet(e)
  BY <1>6, <1>9, <1>12, TidyKept
<1>14. AmountsKept(Books, e)
  BY <1>1, <1>6, <1>9 DEF AmountsKept
<1> QED
  BY <1>2, <1>8, <1>9, <1>13, <1>14, TrackedBecome

LEMMA TrackedRepair ==
    ASSUME IInv, Tracked, NEW i \in Items, FinishRepair(i)
    PROVE  Tracked'
<1>0. PICK net \in repairing[i] : item' = [item EXCEPT ![i] =
         Settled([item[i] EXCEPT !.original = net], item[i].settled)]
  BY DEF FinishRepair
<1> DEFINE it == [item[i] EXCEPT !.original = net]
           new == Settled(it, item[i].settled)
<1>1. item[i] \in ItemRow
  BY BooksAre
<1>2. net \in Int /\ \E g \in Gross[i] : net = DocSign(i) * g
  BY DEF IInv, GoodState, ReadsOk, Tracked, Priced, PricedReads
<1>3. item' = [item EXCEPT ![i] = new] /\ UNCHANGED <<header, advance, settlement, editing>>
  BY <1>0 DEF FinishRepair
<1>4. it \in ItemRow /\ it.original = net /\ item[i].settled \in Int
  BY <1>1, <1>2 DEF ItemRow
<1> HIDE DEF it
<1>5. new \in ItemRow /\ new.settled = item[i].settled /\ new.original = net
  BY <1>4, SettledIs
<1> HIDE DEF new
<1>6. item'[i] = new /\ \A j \in Items \ {i} : item'[j] = item[j]
  BY <1>3, BooksAre
<1> DEFINE b == Books
           c == Books'
<1>7. /\ Good(CreditNotes, b) /\ TidyNet(b) /\ b.item = item
      /\ c.settlement = b.settlement /\ c.item = item'
  BY <1>3 DEF Books, IInv, GoodState, Tracked
<1> HIDE DEF b, c
<1>8. \A j \in Items : /\ c.item[j].settled = b.item[j].settled
                       /\ \/ c.item[j].original = b.item[j].original
                          \/ \E g \in Gross[j] : c.item[j].original = DocSign(j) * g
  BY <1>1, <1>2, <1>5, <1>6, <1>7
<1>9. TidyNet(c)
  BY <1>7, <1>8, TidyRows
<1>10. Priced'
  BY <1>3 DEF FinishRepair, Tracked, Priced, PricedReads, IInv, GoodState, ReadsOk
<1> QED
  BY <1>9, <1>10 DEF Tracked, c

LEMMA TrackedCreate ==
    ASSUME IInv, Tracked, NEW s \in Settlements, NEW adv \in UseAdvance, NEW lines \in Seq(Asked),
           CreateSettlement(s, lines, adv)
    PROVE  Tracked'
<1> DEFINE none == {}
           d == Draft(lines, adv, none)
           b == Books
           c == Books'
<1>1. /\ UNCHANGED <<header, item, advance, reads>> /\ OneLineEach(lines)
      /\ settlement' = [settlement EXCEPT ![s] = d]
  BY DEF CreateSettlement, ValidLines, OneLineEach
<1>2. adv \in Payers /\ none \in SUBSET CreditNotes /\ none = {}
  BY DEF UseAdvance, Payers
<1> HIDE DEF none
<1>3. /\ d \in SettlementRow(CreditNotes) /\ d.marker = none /\ DOMAIN d.lines = DOMAIN lines
      /\ \A k \in DOMAIN lines : d.lines[k].item = lines[k].item /\ d.lines[k].applied = 0
  BY <1>2, DraftIs
<1> HIDE DEF d
<1>4. OneLineEach(d.lines) /\ \A k \in DOMAIN d.lines : d.lines[k].applied = 0
  BY <1>1, <1>3 DEF OneLineEach
<1>5. /\ b \in BooksRow(CreditNotes) /\ TidyNet(b) /\ c.item = b.item
      /\ c.settlement[s] = d /\ \A t \in Settlements \ {s} : c.settlement[t] = b.settlement[t]
  BY <1>1, BooksAre DEF Books, Tracked
<1> HIDE DEF b, c
<1>6. Tidy(c)
  <2>1. Distinct(c) /\ \A i \in Items : Towards(b, i) => Towards(c, i)
    BY <1>4, <1>5, TowardsDraft DEF TidyNet, Tidy
  <2> QED
    BY <1>5, <2>1 DEF TidyNet, Tidy
<1>7. Netting(c)
  <2>1. Marked(b) => Marked(c)
    BY <1>2, <1>3, <1>5, MarkedRow
  <2> QED
    BY <1>5, <2>1 DEF TidyNet, Netting
<1>8. Priced'
  BY <1>1 DEF Tracked, Priced, PricedReads, reads
<1> QED
  BY <1>6, <1>7, <1>8 DEF Tracked, TidyNet, c

LEMMA TrackedPost ==
    ASSUME IInv, Tracked, NEW s \in Settlements, PostSettlement(s)
    PROVE  Tracked'
<1> DEFINE b == Books
           c == PostEffect(b, s)
<1>1. /\ Good(CreditNotes, b) /\ TidyNet(b) /\ b.settlement[s].status = "draft"
      /\ Become(c) /\ UNCHANGED <<editing, repairing>>
  BY DEF IInv, GoodState, Tracked, PostSettlement, CanPost, reads
<1> HIDE DEF b
<1>2. Good(CreditNotes, c) /\ AmountsKept(b, c)
  BY <1>1, GoodPost
<1>3. Distinct(c) /\ \A i \in Items : Towards(b, i) => Towards(c, i)
  BY <1>1, TowardsPost DEF TidyNet, Tidy
<1>4. Marked(b) => Marked(c)
  BY <1>1, MarkedPost
<1> HIDE DEF c
<1>5. TidyNet(c)
  BY <1>1, <1>3, <1>4 DEF TidyNet, Tidy, Netting
<1> QED
  BY <1>1, <1>2, <1>5, TrackedBecome DEF b

LEMMA TrackedCancel ==
    ASSUME IInv, Tracked, NEW s \in Settlements, CancelSettlement(s)
    PROVE  Tracked'
<1> DEFINE b == Books
           c == CancelEffect(b, s)
<1>1. Good(CreditNotes, b) /\ TidyNet(b) /\ CanCancel(b, s) /\ Become(c) /\ UNCHANGED <<editing, repairing>>
  BY DEF IInv, GoodState, Tracked, CancelSettlement, reads
<1> HIDE DEF b
<1>2. Good(CreditNotes, c) /\ AmountsKept(b, c)
  BY <1>1, GoodCancel
<1>3. Distinct(c) /\ \A i \in Items : Towards(b, i) => Towards(c, i)
  BY <1>1, TowardsCancel DEF TidyNet, Tidy
<1>4. Marked(b) => Marked(c)
  BY <1>1, MarkedCancel
<1> HIDE DEF c
<1>5. TidyNet(c)
  BY <1>1, <1>3, <1>4 DEF TidyNet, Tidy, Netting
<1> QED
  BY <1>1, <1>2, <1>5, TrackedBecome DEF b

(* Where neither the documents' rows nor the settlements are written.      *)
LEMMA TrackedUnwritten ==
    ASSUME IInv, Tracked, UNCHANGED <<header, item, settlement, editing, repairing>>
    PROVE  Tracked'
<1>1. Priced'
  BY DEF Tracked, Priced, PricedReads
<1>2. RowsKept(Books, Books')
  BY DEF RowsKept, Books
<1>3. TidyNet(Books')
  BY <1>2, TidyKept DEF Tracked, IInv, GoodState
<1> QED
  BY <1>1, <1>3 DEF Tracked

LEMMA TrackedStep ==
    ASSUME IInv, Tracked, [Next]_vars
    PROVE  Tracked'
<1>1. ASSUME NEW i \in Items, Invoicing(i) PROVE Tracked'
  <2>1. ASSUME NEW amt \in TypedAmounts, ApplySettlement(i, amt) PROVE Tracked'
    BY <2>1, TrackedApply
  <2>2. ASSUME NEW amt \in Gross[i], EditInvoice(i, amt) \/ SaveEdit(i, amt) PROVE Tracked'
    BY <2>2, TrackedEdit
  <2>3. ASSUME SeeOriginal(i) \/ GiveUpPost(i) PROVE Tracked'
    BY <2>3, TrackedUnwritten DEF SeeOriginal, GiveUpPost
  <2> QED
    BY <1>1, <2>1, <2>2, <2>3, TrackedConfirm, TrackedPostInvoice, TrackedReverse,
       TrackedCancelInvoice, TrackedRead, TrackedRepair DEF Invoicing, Posting
<1>2. ASSUME NEW s \in Settlements, Settling(s) PROVE Tracked'
  <2>1. ASSUME NEW adv \in UseAdvance, NEW lines \in LineChoices, CreateSettlement(s, lines, adv)
        PROVE  Tracked'
    BY <2>1, TrackedCreate, ReceivablesAssumption DEF Asked
  <2>2. ASSUME NEW adv \in UseAdvance, NEW amt \in FifoAmounts,
               CreateSettlement(s, FifoLines(amt), adv)
        PROVE  Tracked'
    <3>1. FifoLines(amt) \in Seq(Asked)
      BY BooksAre, FifoLinesAre, ReceivablesAssumption
    <3> QED
      BY <2>2, <3>1, TrackedCreate
  <2> QED
    BY <1>2, <2>1, <2>2, TrackedPost, TrackedCancel DEF Settling
<1>3. ASSUME NEW a \in Advances, NEW amt \in AdvanceAmounts, CreateAdvanceBalance(a, amt)
      PROVE  Tracked'
  BY <1>3, TrackedUnwritten DEF CreateAdvanceBalance, reads
<1>4. ASSUME UNCHANGED vars PROVE Tracked'
  BY <1>4, TrackedUnwritten DEF vars, reads
<1> QED
  BY <1>1, <1>2, <1>3, <1>4 DEF Next

LEMMA InitTracked == Init => Tracked
<1> SUFFICES ASSUME Init PROVE Tracked
  OBVIOUS
<1> DEFINE b == Books
<1>1. Priced
  <2>1. PICK amt \in [Items -> UNION Range(Gross)] :
           /\ \A i \in Items : amt[i] \in Gross[i]
           /\ header = [i \in Items |-> NewHeader(amt[i])]
    BY DEF Init
  <2> QED
    BY <2>1 DEF Init, Priced, PricedReads, NewHeader
<1>2. /\ \A i \in Items : b.item[i].settled = 0 /\ b.item[i].original = 0
      /\ \A s \in Settlements : b.settlement[s].lines = <<>> /\ b.settlement[s].marker = {}
  BY DEF Init, Books, NoItem, NoSettlement
<1> HIDE DEF b
<1>3. \A s \in Settlements : DOMAIN b.settlement[s].lines = {}
  BY <1>2
<1>4. Distinct(b) /\ Marked(b)
  BY <1>2, <1>3 DEF Distinct, OneLineEach, Marked
<1>5. \A i \in Items : Towards(b, i)
  BY <1>2, <1>3 DEF Towards, DocSign
<1> QED
  BY <1>1, <1>4, <1>5 DEF Tracked, TidyNet, Tidy, Netting, b

LEMMA TrackedHolds == Spec => [](IInv /\ Tracked)
<1>1. Init => IInv /\ Tracked
  BY InitGood, InitTracked DEF IInv
<1>2. (IInv /\ Tracked) /\ [Next]_vars => (IInv /\ Tracked)'
  BY StepKept, TrackedStep DEF IInv
<1> QED
  BY <1>1, <1>2, PTL DEF Spec

(* A document whose total is not edited between two postings is never      *)
(* settled for more than it is worth, by whatever settlements are posted   *)
(* and cancelled on it (post_settlement's cap at the open amount).         *)
THEOREM NeverOversettled ==
    (\A i \in Items : HasOnePrice(i)) => (Spec => []SettledWithinOriginal)
<1> SUFFICES ASSUME \A i \in Items : HasOnePrice(i) PROVE Spec => []SettledWithinOriginal
  OBVIOUS
<1>1. IInv /\ Tracked => SettledWithinOriginal
  <2> SUFFICES ASSUME IInv, Tracked, NEW i \in Items
               PROVE  Size(item[i].settled) <= Size(item[i].original)
    BY DEF SettledWithinOriginal
  <2>1. Towards(Books, i) /\ Books.item = item /\ item[i] \in ItemRow
    BY BooksAre DEF Tracked, TidyNet, Tidy
  <2> DEFINE x == item[i].settled
             y == item[i].original
  <2>2. x \in Int /\ y \in Int /\ 0 <= DocSign(i) * x /\ DocSign(i) * x <= DocSign(i) * y
    BY <2>1 DEF Towards, ItemRow
  <2> HIDE DEF x, y
  <2>3. Size(x) <= Size(y)
    BY <2>2 DEF DocSign, Size
  <2> QED
    BY <2>3 DEF x, y
<1> QED
  BY <1>1, TrackedHolds, PTL

(* An automatic credit-note settlement takes no more off the invoice than  *)
(* off the note, and under the block rule no less but for the tolerance,   *)
(* now and after it is cancelled, where no note's total is edited: the     *)
(* invoice may be edited, and settled while the note is being posted       *)
(* (_auto_adjust_credit_note_if_enabled, post_settlement).                 *)
THEOREM AdjustmentsNet ==
    (\A i \in CreditNotes : HasOnePrice(i)) => (Spec => []AutoAdjustmentNets)
<1> SUFFICES ASSUME NotesPriced PROVE Spec => []AutoAdjustmentNets
  BY DEF NotesPriced
<1>1. IInv /\ Tracked => AutoAdjustmentNets
  BY BooksAre DEF Tracked, TidyNet, Netting, Marked, AutoAdjustmentNets
<1> QED
  BY <1>1, TrackedHolds, PTL
=============================================================================
