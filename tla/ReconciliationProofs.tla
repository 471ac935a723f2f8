------------------------ MODULE ReconciliationProofs ------------------------
(***************************************************************************)
(* What holds of Reconciliation for every account, run and bound.          *)
(*                                                                         *)
(* The invariant is about the tables a request writes: no line is in two   *)
(* final matches, the sides of a match agree, a line shows as matched      *)
(* exactly when it is, and links belong to final matches.  None of these   *)
(* can be proved alone: the engine goes by what is shown.  The operators   *)
(* that write matches keep them all, and every action is a composition.    *)
(***************************************************************************)
EXTENDS Reconciliation, SumTheorems, SequenceTheorems

Allotment(S) == UNION {[T -> Nat] : T \in SUBSET S}
MatchRow     == [run : Runs, status : Active \cup {"cancelled"},
                 bank : Allotment(Lines), book : Allotment(Books)]
Showings     == Active \cup {"unmatched", "cancelled"}
LinkRows     == [Instruments -> SUBSET (Nat \X Lines)]

\* Both sides have lines, for the same amount and none for more than its own.
Even(m) ==
    /\ BankOf(m) # {} /\ BookOf(m) # {}
    /\ Total(BankOf(m), m.bank) = Total(BookOf(m), m.book)
    /\ \A l \in BankOf(m) : m.bank[l] \in 1..LineAmount[l]
    /\ \A b \in BookOf(m) : m.book[b] \in 1..BookAmount[b]

Rows(ms) == ms \in Seq(MatchRow) /\ \A n \in DOMAIN ms : Even(ms[n])

Apart(ms) ==
    \A n, k \in With(ms, Final) : n # k =>
        /\ BankOf(ms[n]) \cap BankOf(ms[k]) = {}
        /\ BookOf(ms[n]) \cap BookOf(ms[k]) = {}

Right(sh, ms, l) == sh[l] \in Final <=> l \in BankIn(ms, Final)

Single(lk) == \A i, j \in Instruments : \A p \in lk[i] : p \in lk[j] => i = j

LinksOk(lk, ms) ==
    /\ lk \in LinkRows /\ Single(lk)
    /\ \A i \in Instruments : \A p \in lk[i] :
          /\ p[1] \in DOMAIN ms /\ ms[p[1]].status \in Final
          /\ p[2] \in BankOf(ms[p[1]])

\* The tables with matches ms, line statuses sh and links lk, where ex says
\* which lines are ignored.
Sound(ms, sh, lk, ex) ==
    /\ Rows(ms) /\ Apart(ms)
    /\ sh \in [Lines -> Showings]
    /\ \A l \in Lines : ex[l] # "ignored" => Right(sh, ms, l)
    /\ LinksOk(lk, ms)

Ever == Active \cup {"cancelled"}

\* Journal lines of any match of ms, undone or not, are those of ns as well.
Grown(ms, ns) == Len(ms) <= Len(ns) /\ BookIn(ms, Ever) \subseteq BookIn(ns, Ever)
-----------------------------------------------------------------------------
(* The allocation of an amount along lines.                                *)
LEMMA Greatest ==
    ASSUME NEW S, IsFiniteSet(S), S # {}, NEW f, \A x \in S : f[x] \in Int
    PROVE  \E x \in S : \A y \in S : f[y] <= f[x]
<1> DEFINE F == {T \in SUBSET S : T = {} \/ \E x \in T : \A y \in T : f[y] <= f[x]}
<1>1. ASSUME NEW T \in SUBSET S, \A x \in T : T \ {x} \in F
      PROVE  T \in F
  <2>1. CASE T = {}
    BY <2>1
  <2>2. CASE T # {}
    <3>1. PICK x \in T : TRUE
      BY <2>2
    <3>2. T \ {x} \in F
      BY <1>1, <3>1
    <3>3. CASE T \ {x} = {}
      BY <3>1, <3>3
    <3>4. CASE T \ {x} # {}
      <4>1. PICK z \in T \ {x} : \A y \in T \ {x} : f[y] <= f[z]
        BY <3>2, <3>4
      <4>2. f[x] \in Int /\ f[z] \in Int /\ \A y \in T : f[y] \in Int
        OBVIOUS
      <4>3. CASE f[x] <= f[z]
        BY <4>1, <4>3
      <4>4. CASE f[z] <= f[x]
        BY <3>1, <4>1, <4>2, <4>4
      <4> QED
        BY <4>2, <4>3, <4>4
    <3> QED
      BY <3>3, <3>4
  <2> QED
    BY <2>1, <2>2
<1> HIDE DEF F
<1>2. S \in F
  BY <1>1, InductiveFamily
<1> QED
  BY <1>2 DEF F

LEMMA AllottedIs ==
    ASSUME NEW S, \A x \in S : x \in Nat, IsFiniteSet(S), S # {}, NEW amount,
           \A x \in S : amount[x] \in Nat \ {0},
           NEW total \in Nat \ {0}, total <= Total(S, amount)
    PROVE  LET a == Allotted(S, amount, total)
           IN  /\ a \in Allotment(S) /\ DOMAIN a \in SUBSET S /\ DOMAIN a # {}
               /\ \A x \in DOMAIN a : a[x] \in 1..amount[x]
               /\ Total(DOMAIN a, a) = total
<1> DEFINE a == Allotted(S, amount, total)
           Before(x) == {y \in S : y < x}
           before(x) == Total(Before(x), amount)
           D == {x \in S : before(x) < total}
           share(x) == Min({amount[x], total - before(x)})
           f == [x \in S |-> IF before(x) < total THEN share(x) ELSE 0]
           Closed(T) == \A x \in T : Before(x) \subseteq T
           F == {T \in SUBSET S : Closed(T) =>
                    SumFunctionOnSet(f, T) =
                       IF Total(T, amount) <= total THEN Total(T, amount) ELSE total}
<1>1. DOMAIN a = D /\ \A x \in D : a[x] = share(x)
  BY DEF Allotted
<1>2. ASSUME NEW T \in SUBSET S PROVE IsFiniteSet(T) /\ Total(T, amount) \in Nat
  <2>1. IsFiniteSet(T)
    BY FS_Subset
  <2> QED
    BY <2>1, SumIsNatural DEF Total
<1>3. ASSUME NEW x \in S
      PROVE  /\ before(x) \in Nat /\ amount[x] \in Nat \ {0}
             /\ share(x) = IF amount[x] <= total - before(x) THEN amount[x] ELSE total - before(x)
             /\ before(x) < total => share(x) \in 1..amount[x]
  <2>1. before(x) \in Nat /\ amount[x] \in Nat \ {0}
    BY <1>2
  <2>2. share(x) = IF amount[x] <= total - before(x) THEN amount[x] ELSE total - before(x)
    BY <2>1, MinOfTwo
  <2> HIDE DEF share, before
  <2> QED
    BY <2>1, <2>2
<1> HIDE DEF a
<1>4. \A x \in S : f[x] \in Nat /\ f[x] \in Int
  <2> HIDE DEF share, before
  <2> QED
    BY <1>3
<1>5. ASSUME NEW T \in SUBSET S, \A x \in T : T \ {x} \in F, Closed(T)
      PROVE  SumFunctionOnSet(f, T) = IF Total(T, amount) <= total THEN Total(T, amount) ELSE total
  <2>1. CASE T = {}
    <3>1. SumFunctionOnSet(f, {}) = 0 /\ Total({}, amount) = 0
      BY SumOfNone DEF Total
    <3> HIDE DEF f
    <3> QED
      BY <2>1, <3>1
  <2>2. CASE T # {}
    <3> DEFINE id == [y \in S |-> y]
    <3>1. PICK x \in T : \A y \in T : id[y] <= id[x]
      <4>1. IsFiniteSet(T) /\ \A y \in T : id[y] \in Int
        BY <1>2
      <4> HIDE DEF id
      <4> QED
        BY <2>2, <4>1, Greatest
    <3>2. x \in S /\ x \in T /\ (\A y \in T : y <= x) /\ x \in Nat /\ \A y \in T : y \in Nat
      BY <3>1
    <3>3. T \ {x} = Before(x)
      <4>1. Before(x) \subseteq T
        BY <1>5, <3>2
      <4>2. \A y \in T : y # x => y < x
        BY <3>2
      <4>3. x \notin Before(x)
        BY <3>2
      <4> QED
        BY <3>2, <4>1, <4>2, <4>3
    <3>4. Closed(T \ {x})
      <4>1. \A z \in T : z # x => z < x /\ Before(z) \subseteq T
        BY <1>5, <3>2
      <4> QED
        BY <3>2, <4>1
    <3>5. SumFunctionOnSet(f, T \ {x}) = IF before(x) <= total THEN before(x) ELSE total
      <4>1. T \ {x} \in F
        BY <1>5, <3>1
      <4>2. Total(T \ {x}, amount) = before(x)
        BY <3>3
      <4> HIDE DEF f, before, Closed, Before
      <4> QED
        BY <3>4, <4>1, <4>2
    <3>6. SumFunctionOnSet(f, T) = f[x] + SumFunctionOnSet(f, T \ {x})
      <4>1. IsFiniteSet(T) /\ (\A y \in T : f[y] \in Int) /\ x \in T
        BY <1>2, <1>4, <3>2
      <4> HIDE DEF f
      <4> QED
        BY <4>1, SumWithout
    <3>7. Total(T, amount) = amount[x] + before(x)
      <4>1. IsFiniteSet(T) /\ (\A y \in T : amount[y] \in Int) /\ x \in T
        BY <1>2, <3>2
      <4>2. SumFunctionOnSet(amount, T) = amount[x] + SumFunctionOnSet(amount, T \ {x})
        BY <4>1, SumWithout
      <4> QED
        BY <3>3, <4>2 DEF Total
    <3>8. f[x] = IF before(x) < total THEN share(x) ELSE 0
      BY <3>2
    <3> HIDE DEF f, share, before, Closed, Before, F
    <3>9. /\ before(x) \in Nat /\ amount[x] \in Nat \ {0}
          /\ share(x) = IF amount[x] <= total - before(x) THEN amount[x] ELSE total - before(x)
      BY <1>3, <3>2
    <3> QED
      BY <3>5, <3>6, <3>7, <3>8, <3>9
  <2> QED
    BY <2>1, <2>2
<1>6. S \in F
  <2>1. \A T \in SUBSET S : (\A x \in T : T \ {x} \in F) => T \in F
    <3> SUFFICES ASSUME NEW T \in SUBSET S, \A x \in T : T \ {x} \in F PROVE T \in F
      OBVIOUS
    <3>1. Closed(T) => SumFunctionOnSet(f, T) =
                         IF Total(T, amount) <= total THEN Total(T, amount) ELSE total
      BY <1>5
    <3> HIDE DEF f, Closed
    <3> QED
      BY <3>1
  <2> HIDE DEF F
  <2> QED
    BY <2>1, InductiveFamily
<1>7. SumFunctionOnSet(f, S) = total
  <2>1. Closed(S)
    OBVIOUS
  <2>2. Total(S, amount) \in Nat
    BY <1>2
  <2> HIDE DEF f, Closed
  <2> QED
    BY <1>6, <2>1, <2>2
<1>8. D \in SUBSET S /\ IsFiniteSet(D)
  BY <1>2
<1>9. SumFunctionOnSet(f, S) = SumFunctionOnSet(f, D)
  <2>1. (\A x \in D : f[x] \in Int) /\ \A x \in S \ D : f[x] = 0
    BY <1>4
  <2> HIDE DEF f, D
  <2> QED
    BY <1>8, <2>1, SumOnPart
<1>10. SumFunctionOnSet(a, D) = SumFunctionOnSet(f, D)
  <2>1. \A x \in D : a[x] = f[x]
    BY <1>1
  <2> HIDE DEF f, D
  <2> QED
    BY <1>8, <2>1, SumSame
<1>11. Total(DOMAIN a, a) = total
  <2> HIDE DEF f, D
  <2> QED
    BY <1>1, <1>7, <1>9, <1>10 DEF Total
<1>12. \A x \in D : a[x] \in 1..amount[x] /\ a[x] \in Nat
  <2>1. ASSUME NEW x \in D PROVE a[x] \in 1..amount[x] /\ a[x] \in Nat
    <3>1. x \in S /\ before(x) < total /\ a[x] = share(x)
      BY <1>1, <2>1
    <3> HIDE DEF share, before, D
    <3>2. a[x] \in 1..amount[x] /\ amount[x] \in Nat
      BY <1>3, <3>1
    <3> QED
      BY <3>2
  <2> QED
    BY <2>1
<1> HIDE DEF D, f, F
<1>13. DOMAIN a # {}
  <2>1. SUFFICES ASSUME DOMAIN a = {} PROVE FALSE
    OBVIOUS
  <2>2. Total({}, a) = 0
    BY SumOfNone DEF Total
  <2> QED
    BY <1>11, <2>1, <2>2
<1>14. a \in [D -> Nat]
  <2>1. a = [x \in D |-> a[x]]
    BY DEF a, Allotted, D
  <2> QED
    BY <1>1, <1>12, <2>1
<1>15. a \in Allotment(S)
  BY <1>8, <1>14 DEF Allotment
<1> QED
  BY <1>1, <1>8, <1>11, <1>12, <1>13, <1>15 DEF a
-----------------------------------------------------------------------------
(* Matches, undone and made.                                               *)
LEMMA InIs ==
    ASSUME NEW ms, NEW S
    PROVE  /\ \A l : l \in BankIn(ms, S) <=>
                    \E n \in DOMAIN ms : ms[n].status \in S /\ l \in BankOf(ms[n])
           /\ \A b : b \in BookIn(ms, S) <=>
                    \E n \in DOMAIN ms : ms[n].status \in S /\ b \in BookOf(ms[n])
BY DEF BankIn, BookIn, With

LEMMA StandingIs ==
    ASSUME NEW ms, NEW l
    PROVE  /\ Standing(ms, l) \in Showings
           /\ Standing(ms, l) \in Final <=> l \in BankIn(ms, Final)
<1> DEFINE Found(st) == \E n \in DOMAIN ms : ms[n].status = st /\ l \in BankOf(ms[n])
<1>1. l \in BankIn(ms, Final) <=> Found("confirmed") \/ Found("partially_matched")
  BY InIs DEF Final
<1>2. Standing(ms, l) = IF Found("confirmed") THEN "confirmed"
                        ELSE IF Found("partially_matched") THEN "partially_matched"
                        ELSE IF Found("suggested") THEN "suggested" ELSE "unmatched"
  BY DEF Standing
<1> HIDE DEF Found
<1> QED
  BY <1>1, <1>2 DEF Showings, Active, Final

LEMMA RowIs ==
    ASSUME NEW m \in MatchRow
    PROVE  /\ BankOf(m) \in SUBSET Lines /\ BookOf(m) \in SUBSET Books
           /\ m.run \in Runs /\ m.status \in Active \cup {"cancelled"}
BY DEF MatchRow, Allotment, BankOf, BookOf

Cancelled(m) == [m EXCEPT !.status = "cancelled"]

LEMMA CancelledIs ==
    ASSUME NEW m \in MatchRow
    PROVE  /\ Cancelled(m) \in MatchRow /\ Cancelled(m).status = "cancelled"
           /\ BankOf(Cancelled(m)) = BankOf(m) /\ BookOf(Cancelled(m)) = BookOf(m)
           /\ Even(m) => Even(Cancelled(m))
<1> DEFINE A == Allotment(Lines)
           B == Allotment(Books)
           c == Cancelled(m)
<1>1. m \in [run : Runs, status : Active \cup {"cancelled"}, bank : A, book : B]
  BY DEF MatchRow
<1> HIDE DEF A, B
<1>2. /\ c \in [run : Runs, status : Active \cup {"cancelled"}, bank : A, book : B]
      /\ c.status = "cancelled" /\ c.bank = m.bank /\ c.book = m.book
  BY <1>1 DEF Cancelled
<1> HIDE DEF c
<1> QED
  BY <1>2 DEF c, MatchRow, A, B, Even, BankOf, BookOf

\* ns is ms with some of its matches cancelled.
Undone(ms, ns) ==
    /\ ns \in Seq(MatchRow) /\ DOMAIN ns = DOMAIN ms /\ Len(ns) = Len(ms)
    /\ \A n \in DOMAIN ms : ns[n] = ms[n] \/ ns[n] = Cancelled(ms[n])

LEMMA UndoneIs ==
    ASSUME NEW ms, Rows(ms), NEW ns, Undone(ms, ns)
    PROVE  /\ Rows(ns) /\ Grown(ms, ns)
           /\ \A n \in DOMAIN ms : /\ BankOf(ns[n]) = BankOf(ms[n]) /\ BookOf(ns[n]) = BookOf(ms[n])
                                   /\ ns[n].status = ms[n].status \/ ns[n].status = "cancelled"
           /\ Apart(ms) => Apart(ns)
<1>1. \A n \in DOMAIN ms : ms[n] \in MatchRow /\ Even(ms[n])
  BY DEF Rows
<1>2. \A n \in DOMAIN ms :
         /\ ns[n] \in MatchRow /\ Even(ns[n])
         /\ BankOf(ns[n]) = BankOf(ms[n]) /\ BookOf(ns[n]) = BookOf(ms[n])
         /\ ns[n].status = ms[n].status \/ ns[n].status = "cancelled"
  BY <1>1, CancelledIs DEF Undone
<1>3. Rows(ns)
  BY <1>2 DEF Rows, Undone
<1>4. Grown(ms, ns)
  <2>1. Len(ms) \in Int
    BY DEF Rows
  <2> QED
    BY <1>2, <2>1, InIs DEF Grown, Undone, Ever
<1>5. Apart(ms) => Apart(ns)
  BY <1>2 DEF Apart, With, Undone, Final
<1> QED
  BY <1>2, <1>3, <1>4, <1>5

LEMMA WithdrawIs ==
    ASSUME NEW ms, NEW sh, NEW lk, NEW ex, Sound(ms, sh, lk, ex), NEW r, NEW BS, NEW JS
    PROVE  LET ns == Withdraw(ms, r, BS, JS)
           IN  /\ Sound(ns, sh, lk, ex) /\ Undone(ms, ns)
               /\ BankIn(ns, Final) = BankIn(ms, Final) /\ BookIn(ns, Final) = BookIn(ms, Final)
<1> DEFINE ns == Withdraw(ms, r, BS, JS)
<1>1. /\ DOMAIN ns = DOMAIN ms
      /\ \A n \in DOMAIN ms :
            ns[n] = ms[n] \/ (ms[n].status = "suggested" /\ ns[n] = Cancelled(ms[n]))
      /\ ns = [n \in DOMAIN ms |-> ns[n]]
  BY DEF Withdraw, Cancelled
<1> HIDE DEF ns
<1>2. ms \in Seq(MatchRow) /\ \A n \in DOMAIN ms : ms[n] \in MatchRow
  BY DEF Sound, Rows
<1>3. \A n \in DOMAIN ms : ns[n] \in MatchRow
  BY <1>1, <1>2, CancelledIs
<1>4. ns \in Seq(MatchRow) /\ Len(ns) = Len(ms)
  <2> DEFINE k == Len(ms)
  <2>1. k \in Nat /\ DOMAIN ms = 1..k
    BY <1>2
  <2>2. ns \in [1..k -> MatchRow] /\ DOMAIN ns = 1..k
    BY <1>1, <1>3, <2>1
  <2> HIDE DEF k
  <2>3. ns \in Seq(MatchRow)
    BY <2>1, <2>2, SeqDef
  <2>4. Len(ns) = k
    BY <2>1, <2>2, <2>3
  <2> QED
    BY <2>3, <2>4 DEF k
<1>5. Undone(ms, ns)
  BY <1>1, <1>4 DEF Undone
<1>6. /\ Rows(ns) /\ Apart(ns)
      /\ \A n \in DOMAIN ms : BankOf(ns[n]) = BankOf(ms[n]) /\ BookOf(ns[n]) = BookOf(ms[n])
  BY <1>5, UndoneIs DEF Sound
<1>7. \A n \in DOMAIN ms : \/ ns[n].status = ms[n].status
                           \/ ns[n].status \notin Final /\ ms[n].status \notin Final
  BY <1>1, <1>2, CancelledIs DEF Final
<1>8. BankIn(ns, Final) = BankIn(ms, Final) /\ BookIn(ns, Final) = BookIn(ms, Final)
  <2>1. /\ \A l : l \in BankIn(ns, Final) <=> l \in BankIn(ms, Final)
        /\ \A b : b \in BookIn(ns, Final) <=> b \in BookIn(ms, Final)
    <3>1. DOMAIN ns = DOMAIN ms
      BY <1>1
    <3>2. \A n \in DOMAIN ms : ns[n].status \in Final <=> ms[n].status \in Final
      BY <1>7
    <3> QED
      BY <1>6, <3>1, <3>2, InIs
  <2> QED
    BY <2>1
<1>9. LinksOk(lk, ns)
  BY <1>1, <1>6, <1>7 DEF Sound, LinksOk
<1> QED
  BY <1>5, <1>6, <1>8, <1>9 DEF Sound, Right, ns
-----------------------------------------------------------------------------
(* Instruments linked to the lines of a new match.                         *)
LEMMA LinkedLineIs ==
    ASSUME NEW lk \in LinkRows, NEW n \in Nat, NEW l \in Lines, NEW cleared \in SUBSET Instruments
    PROVE  LET c == LinkedLine(lk, n, l, cleared)
           IN  /\ c \in LinkRows
               /\ \A i \in Instruments : c[i] = lk[i] \/ c[i] = {<<n, l>>}
               /\ \A i, j \in Instruments : c[i] # lk[i] /\ c[j] # lk[j] => i = j
<1> DEFINE fit == Fitting(lk, l, cleared)
           one == {<<n, l>>}
           new == [i \in Instruments |-> IF i \in fit THEN one ELSE lk[i]]
           P == SUBSET (Nat \X Lines)
<1>1. one \in P
  BY DEF P
<1> HIDE DEF one, fit
<1>2. LinkedLine(lk, n, l, cleared) = IF \E i \in fit : fit = {i} THEN new ELSE lk
  BY DEF LinkedLine, fit, one
<1>3. lk \in [Instruments -> P]
  BY DEF LinkRows
<1> HIDE DEF P
<1>4. new \in [Instruments -> P] /\ \A i \in Instruments : new[i] = lk[i] \/ new[i] = one
  BY <1>1, <1>3
<1>5. \A i \in Instruments : i \notin fit => new[i] = lk[i]
  OBVIOUS
<1> HIDE DEF new
<1> QED
  BY <1>2, <1>3, <1>4, <1>5 DEF LinkRows, P, one

LEMMA LinkedIs ==
    ASSUME NEW lk \in LinkRows, Single(lk), NEW n \in Nat, NEW S \in SUBSET Lines,
           NEW cleared \in SUBSET Instruments,
           \A i \in Instruments : \A p \in lk[i] : p[1] # n
    PROVE  LET c == Linked(lk, n, S, cleared)
           IN  /\ c \in LinkRows /\ Single(c)
               /\ \A i \in Instruments : \A p \in c[i] : p \in lk[i] \/ (p[1] = n /\ p[2] \in S)
<1> DEFINE m == Cardinality(Lines)
           Next1(f, l) == IF l \in S THEN LinkedLine(f, n, l, cleared) ELSE f
           step == [l \in 1..m |-> [f \in LinkRows |-> Next1(f, l)]]
<1>1. m \in Nat /\ Lines = 1..m
  <2>1. IsFiniteSet(Lines) /\ Lines = 1..Cardinality(Lines)
    BY ReconciliationAssumption
  <2> QED
    BY <2>1, FS_CardinalityType
<1>2. \A l \in 1..m : \A f \in LinkRows : Next1(f, l) \in LinkRows
  BY <1>1, LinkedLineIs
<1> HIDE DEF m, Next1
<1>3. PICK g \in Loops(m, LinkRows, lk, step) : TRUE
  <2>1. \A l \in 1..m : \A f \in LinkRows : step[l][f] \in LinkRows
    BY <1>2
  <2> HIDE DEF step
  <2> QED
    BY <1>1, <2>1, LoopExists
<1>4. g = [l \in 0..m |-> IF l = 0 THEN lk ELSE Next1(g[l-1], l)]
  <2>1. ASSUME NEW l \in 0..m
        PROVE  (IF l = 0 THEN lk ELSE step[l][g[l-1]]) = (IF l = 0 THEN lk ELSE Next1(g[l-1], l))
    <3>1. l # 0 => l \in 1..m /\ l - 1 \in 0..m
      BY <1>1
    <3>2. g \in [0..m -> LinkRows]
      BY <1>3 DEF Loops
    <3> QED
      BY <3>1, <3>2
  <2> HIDE DEF step
  <2> QED
    BY <1>3, <2>1 DEF Loops
<1> DEFINE after == CHOOSE h : h = [l \in 0..m |-> IF l = 0 THEN lk ELSE Next1(h[l-1], l)]
<1>5. after = [l \in 0..m |-> IF l = 0 THEN lk ELSE Next1(after[l-1], l)]
  BY <1>4
<1>6. Linked(lk, n, S, cleared) = after[m]
  BY DEF Linked, m, Next1
<1> HIDE DEF after
<1>7. after[0] = lk /\ \A l \in 1..m : after[l] = Next1(after[l-1], l)
  <2>1. \A l \in 0..m : after[l] = IF l = 0 THEN lk ELSE Next1(after[l-1], l)
    BY <1>5
  <2>2. 0 \in 0..m /\ \A l \in 1..m : l \in 0..m /\ l # 0
    BY <1>1
  <2> QED
    BY <2>1, <2>2
<1>8. \A l \in 0..m : after[l] \in LinkRows
  BY <1>1, <1>2, <1>7, LoopTyped
<1> DEFINE Upto(k) == /\ Single(after[k])
                      /\ \A i \in Instruments : \A p \in after[k][i] :
                             p \in lk[i] \/ (p[1] = n /\ p[2] \in S /\ p[2] <= k)
           I == {k \in Nat : k <= m => Upto(k)}
<1>9. Upto(0)
  BY <1>7
<1>10. ASSUME NEW k \in 1..m, Upto(k-1) PROVE Upto(k)
  <2> DEFINE b == after[k-1]
             c == after[k]
  <2>1. /\ b \in LinkRows /\ Single(b) /\ k \in Nat
        /\ \A i \in Instruments : \A p \in b[i] :
              p \in lk[i] \/ (p[1] = n /\ p[2] \in S /\ p[2] <= k-1)
        /\ \A x \in S : x \in Nat /\ (x <= k-1 => x <= k)
    BY <1>1, <1>8, <1>10
  <2>2. c = Next1(b, k)
    BY <1>7
  <2> HIDE DEF b, c
  <2>3. CASE k \notin S
    <3>1. c = b
      BY <2>2, <2>3 DEF Next1
    <3>2. \A i \in Instruments : \A p \in c[i] :
              p \in lk[i] \/ (p[1] = n /\ p[2] \in S /\ p[2] <= k)
      BY <2>1, <3>1
    <3> QED
      BY <2>1, <3>1, <3>2 DEF c
  <2>4. CASE k \in S
    <3>1. /\ \A i \in Instruments : c[i] = b[i] \/ c[i] = {<<n, k>>}
          /\ \A i, j \in Instruments : c[i] # b[i] /\ c[j] # b[j] => i = j
      BY <2>1, <2>2, <2>4, LinkedLineIs DEF Next1
    <3>2. \A i \in Instruments : <<n, k>> \notin b[i]
      BY <2>1
    <3>3. Single(c)
      BY <2>1, <3>1, <3>2 DEF Single
    <3>4. \A i \in Instruments : \A p \in c[i] :
              p \in lk[i] \/ (p[1] = n /\ p[2] \in S /\ p[2] <= k)
      <4>1. \A i \in Instruments : \A p \in b[i] :
                p \in lk[i] \/ (p[1] = n /\ p[2] \in S /\ p[2] <= k)
        BY <2>1
      <4> DEFINE q == <<n, k>>
      <4>2. q[1] = n /\ q[2] \in S /\ q[2] <= k
        BY <2>1, <2>4
      <4> HIDE DEF q
      <4>3. \A i \in Instruments : c[i] = b[i] \/ c[i] = {q}
        BY <3>1 DEF q
      <4> QED
        BY <4>1, <4>2, <4>3
    <3> QED
      BY <3>3, <3>4 DEF c
  <2> QED
    BY <2>3, <2>4
<1> HIDE DEF Upto
<1>11. Nat \subseteq I
  <2>1. ASSUME NEW k \in I PROVE k + 1 \in I
    <3>1. k + 1 \in Nat /\ (k + 1) - 1 = k /\ (k <= m => Upto(k))
      BY <1>1
    <3>2. k + 1 <= m => k + 1 \in 1..m /\ k <= m
      BY <1>1
    <3>3. k + 1 <= m => Upto(k + 1)
      BY <1>10, <3>1, <3>2
    <3> QED
      BY <3>1, <3>3
  <2>2. 0 \in I
    BY <1>9
  <2> HIDE DEF I
  <2>3. I \in SUBSET Nat
    BY DEF I
  <2> QED
    BY <2>1, <2>2, <2>3, InductiveSetOfNaturals
<1>12. Upto(m)
  BY <1>1, <1>11
<1> QED
  BY <1>1, <1>6, <1>8, <1>12 DEF Upto
-----------------------------------------------------------------------------
(* A match made.                                                           *)
LEMMA TotalIs ==
    ASSUME NEW S, IsFiniteSet(S), S # {}, NEW amount, \A x \in S : amount[x] \in Nat \ {0}
    PROVE  Total(S, amount) \in Nat \ {0}
<1>1. PICK x \in S : TRUE
  OBVIOUS
<1>2. \A y \in S : amount[y] \in Int
  OBVIOUS
<1>3. Total(S, amount) = amount[x] + SumFunctionOnSet(amount, S \ {x})
  BY <1>1, <1>2, SumWithout DEF Total
<1>4. SumFunctionOnSet(amount, S \ {x}) \in Nat
  <2>1. IsFiniteSet(S \ {x}) /\ \A y \in S \ {x} : amount[y] \in Nat
    BY FS_Subset
  <2> QED
    BY <2>1, SumIsNatural
<1> QED
  BY <1>1, <1>3, <1>4

LEMMA RowMade ==
    ASSUME NEW r \in Runs, NEW st \in Active,
           NEW BS \in SUBSET Lines, BS # {}, NEW JS \in SUBSET Books, JS # {}, NEW total,
           total = Min({Total(BS, LineAmount), Total(JS, BookAmount)})
    PROVE  LET m == [run |-> r, status |-> st, bank |-> Allotted(BS, LineAmount, total),
                                               book |-> Allotted(JS, BookAmount, total)]
           IN  /\ m \in MatchRow /\ Even(m) /\ m.status = st
               /\ BankOf(m) \in SUBSET BS /\ BookOf(m) \in SUBSET JS
<1> DEFINE A == Allotted(BS, LineAmount, total)
           B == Allotted(JS, BookAmount, total)
           m == [run |-> r, status |-> st, bank |-> A, book |-> B]
<1>1. /\ IsFiniteSet(BS) /\ \A l \in BS : l \in Nat /\ LineAmount[l] \in Nat \ {0}
      /\ IsFiniteSet(JS) /\ \A b \in JS : b \in Nat /\ BookAmount[b] \in Nat \ {0}
  <2>1. /\ IsFiniteSet(Lines) /\ Lines = 1..Cardinality(Lines)
        /\ IsFiniteSet(Books) /\ Books = 1..Cardinality(Books)
        /\ LineAmount \in [Lines -> Nat \ {0}] /\ BookAmount \in [Books -> Nat \ {0}]
    BY ReconciliationAssumption
  <2>2. Cardinality(Lines) \in Nat /\ Cardinality(Books) \in Nat
    BY <2>1, FS_CardinalityType
  <2>3. (\A l \in Lines : l \in Nat) /\ \A b \in Books : b \in Nat
    BY <2>1, <2>2
  <2> QED
    BY <2>1, <2>3, FS_Subset
<1>2. Total(BS, LineAmount) \in Nat \ {0} /\ Total(JS, BookAmount) \in Nat \ {0}
  BY <1>1, TotalIs
<1>3. total \in Nat \ {0} /\ total <= Total(BS, LineAmount) /\ total <= Total(JS, BookAmount)
  BY <1>2, MinOfTwo
<1>4. /\ A \in Allotment(BS) /\ DOMAIN A \in SUBSET BS /\ DOMAIN A # {}
      /\ \A x \in DOMAIN A : A[x] \in 1..LineAmount[x]
      /\ Total(DOMAIN A, A) = total
  BY <1>1, <1>3, AllottedIs, ZenonT(60)
<1>5. /\ B \in Allotment(JS) /\ DOMAIN B \in SUBSET JS /\ DOMAIN B # {}
      /\ \A x \in DOMAIN B : B[x] \in 1..BookAmount[x]
      /\ Total(DOMAIN B, B) = total
  BY <1>1, <1>3, AllottedIs, ZenonT(60)
<1>6. A \in Allotment(Lines) /\ B \in Allotment(Books)
  BY <1>4, <1>5 DEF Allotment
<1> HIDE DEF A, B
<1>7. m \in MatchRow
  <2> DEFINE P == Allotment(Lines)
             Q == Allotment(Books)
             T == Active \cup {"cancelled"}
  <2>1. A \in P /\ B \in Q /\ st \in T
    BY <1>6
  <2> HIDE DEF P, Q, T
  <2>2. m \in [run : Runs, status : T, bank : P, book : Q]
    BY <2>1
  <2> QED
    BY <2>2 DEF MatchRow, P, Q, T
<1>8. m.bank = A /\ m.book = B /\ m.status = st
  OBVIOUS
<1> HIDE DEF m
<1> QED
  BY <1>4, <1>5, <1>7, <1>8 DEF Even, BankOf, BookOf, m, A, B

LEMMA AppendedIs ==
    ASSUME NEW ms \in Seq(MatchRow), NEW m \in MatchRow
    PROVE  LET ns == Append(ms, m)
               n  == Len(ns)
           IN  /\ ns \in Seq(MatchRow) /\ n = Len(ms) + 1 /\ n \in Nat
               /\ n \notin DOMAIN ms /\ DOMAIN ns = DOMAIN ms \cup {n}
               /\ ns[n] = m /\ \A k \in DOMAIN ms : ns[k] = ms[k]
               /\ Grown(ms, ns)
               /\ \A S, l : l \in BankIn(ns, S) <=>
                                l \in BankIn(ms, S) \/ (m.status \in S /\ l \in BankOf(m))
               /\ \A S, b : b \in BookIn(ns, S) <=>
                                b \in BookIn(ms, S) \/ (m.status \in S /\ b \in BookOf(m))
<1> DEFINE ns == Append(ms, m)
           n  == Len(ns)
<1>1. /\ ns \in Seq(MatchRow) /\ n = Len(ms) + 1 /\ Len(ms) \in Nat
      /\ ns[n] = m /\ \A k \in 1..Len(ms) : ns[k] = ms[k]
      /\ DOMAIN ns = 1..n /\ DOMAIN ms = 1..Len(ms)
  OBVIOUS
<1> HIDE DEF ns, n
<1>2. /\ n \in Nat /\ n \notin DOMAIN ms /\ DOMAIN ns = DOMAIN ms \cup {n}
      /\ \A k \in DOMAIN ms : ns[k] = ms[k]
  BY <1>1
<1>3. /\ \A S, l : l \in BankIn(ns, S) <=>
                       l \in BankIn(ms, S) \/ (m.status \in S /\ l \in BankOf(m))
      /\ \A S, b : b \in BookIn(ns, S) <=>
                       b \in BookIn(ms, S) \/ (m.status \in S /\ b \in BookOf(m))
  <2>1. ns[n] = m
    BY <1>1
  <2> QED
    BY <1>2, <2>1, InIs
<1>4. Grown(ms, ns)
  BY <1>1, <1>3 DEF Grown
<1> QED
  BY <1>1, <1>2, <1>3, <1>4 DEF ns, n

\* The match that was added last to old: its status and journal lines.
Added(old, new, st, JS) ==
    /\ Len(new) = Len(old) + 1 /\ Len(new) \in DOMAIN new
    /\ new[Len(new)].status = st
    /\ BookOf(new[Len(new)]) \in SUBSET JS /\ BookOf(new[Len(new)]) # {}

LEMMA CreatedIs ==
    ASSUME NEW s, NEW ex, Sound(s.matches, s.shown, s.link, ex), s.cleared \in SUBSET Instruments,
           NEW r \in Runs, NEW st \in Active,
           NEW BS \in SUBSET Lines, BS # {}, NEW JS \in SUBSET Books, JS # {},
           st \in Final => Available(s.matches, BS, JS)
    PROVE  LET c == Created(s, r, BS, JS, st)
           IN  /\ Sound(c.matches, c.shown, c.link, ex) /\ Grown(s.matches, c.matches)
               /\ c.cleared = s.cleared /\ Added(s.matches, c.matches, st, JS)
<1> DEFINE total == Min({Total(BS, LineAmount), Total(JS, BookAmount)})
           m  == [run |-> r, status |-> st, bank |-> Allotted(BS, LineAmount, total),
                                            book |-> Allotted(JS, BookAmount, total)]
           ms == s.matches
           ns == Append(ms, m)
           n  == Len(ns)
           c  == Created(s, r, BS, JS, st)
<1>1. /\ m \in MatchRow /\ Even(m) /\ m.status = st
      /\ BankOf(m) \in SUBSET BS /\ BookOf(m) \in SUBSET JS
  BY RowMade
<1>2. /\ c.matches = ns /\ c.shown = Refresh(s.shown, ns, BS) /\ c.cleared = s.cleared
      /\ c.link = IF st \in Final THEN Linked(s.link, n, BankOf(m), s.cleared) ELSE s.link
  BY DEF Created
<1> HIDE DEF c, m, total
<1>3. /\ Rows(ms) /\ Apart(ms) /\ s.shown \in [Lines -> Showings] /\ LinksOk(s.link, ms)
      /\ \A l \in Lines : ex[l] # "ignored" => Right(s.shown, ms, l)
      /\ ms \in Seq(MatchRow)
  BY DEF Sound, Rows
<1>4. /\ ns \in Seq(MatchRow) /\ n = Len(ms) + 1 /\ n \in Nat
      /\ n \notin DOMAIN ms /\ DOMAIN ns = DOMAIN ms \cup {n}
      /\ ns[n] = m /\ \A k \in DOMAIN ms : ns[k] = ms[k]
      /\ Grown(ms, ns)
      /\ \A S, l : l \in BankIn(ns, S) <=>
                       l \in BankIn(ms, S) \/ (m.status \in S /\ l \in BankOf(m))
      /\ \A S, b : b \in BookIn(ns, S) <=>
                       b \in BookIn(ms, S) \/ (m.status \in S /\ b \in BookOf(m))
  BY <1>1, <1>3, AppendedIs
<1> HIDE DEF ms, ns, n
<1>5. Rows(ns)
  BY <1>1, <1>3, <1>4 DEF Rows
<1>6. Apart(ns)
  <2>1. ASSUME st \in Final, NEW k \in DOMAIN ms, ms[k].status \in Final
        PROVE  BankOf(m) \cap BankOf(ms[k]) = {} /\ BookOf(m) \cap BookOf(ms[k]) = {}
    <3>1. BS \cap BankIn(ms, Final) = {} /\ JS \cap BookIn(ms, Final) = {}
      BY <2>1 DEF Available, ms
    <3>2. BankOf(ms[k]) \subseteq BankIn(ms, Final) /\ BookOf(ms[k]) \subseteq BookIn(ms, Final)
      BY <2>1, InIs
    <3> QED
      BY <1>1, <3>1, <3>2
  <2>2. SUFFICES ASSUME NEW j \in DOMAIN ns, NEW k \in DOMAIN ns, j # k,
                        ns[j].status \in Final, ns[k].status \in Final
                 PROVE  /\ BankOf(ns[j]) \cap BankOf(ns[k]) = {}
                        /\ BookOf(ns[j]) \cap BookOf(ns[k]) = {}
    BY DEF Apart, With
  <2>3. CASE j \in DOMAIN ms /\ k \in DOMAIN ms
    BY <1>3, <1>4, <2>2, <2>3 DEF Apart, With
  <2>4. CASE j = n /\ k \in DOMAIN ms
    BY <1>1, <1>4, <2>1, <2>2, <2>4
  <2>5. CASE k = n /\ j \in DOMAIN ms
    BY <1>1, <1>4, <2>1, <2>2, <2>5
  <2> QED
    BY <1>4, <2>2, <2>3, <2>4, <2>5
<1>7. /\ c.shown \in [Lines -> Showings]
      /\ \A l \in Lines : ex[l] # "ignored" => Right(c.shown, ns, l)
  <2>1. c.shown = [l \in Lines |-> IF l \in BS THEN Standing(ns, l) ELSE s.shown[l]]
    BY <1>2 DEF Refresh
  <2>2. \A l \in Lines : /\ Standing(ns, l) \in Showings
                         /\ Standing(ns, l) \in Final <=> l \in BankIn(ns, Final)
    BY StandingIs
  <2>3. \A l \in Lines \ BS : l \in BankIn(ns, Final) <=> l \in BankIn(ms, Final)
    BY <1>1, <1>4
  <2>4. c.shown \in [Lines -> Showings]
    BY <1>3, <2>1, <2>2
  <2>5. ASSUME NEW l \in Lines, ex[l] # "ignored" PROVE Right(c.shown, ns, l)
    <3>1. CASE l \in BS
      BY <2>1, <2>2, <3>1 DEF Right
    <3>2. CASE l \notin BS
      BY <1>3, <2>1, <2>3, <2>5, <3>2 DEF Right
    <3> QED
      BY <3>1, <3>2
  <2> QED
    BY <2>4, <2>5
<1>8. LinksOk(c.link, ns)
  <2>1. /\ s.link \in LinkRows /\ Single(s.link)
        /\ \A i \in Instruments : \A p \in s.link[i] :
              p[1] \in DOMAIN ms /\ ms[p[1]].status \in Final /\ p[2] \in BankOf(ms[p[1]])
    BY <1>3 DEF LinksOk
  <2>2. CASE st \notin Final
    BY <1>2, <1>4, <2>1, <2>2 DEF LinksOk
  <2>3. CASE st \in Final
    <3> DEFINE S == BankOf(m)
               lk == s.link
    <3>1. c.link = Linked(lk, n, S, s.cleared)
      BY <1>2, <2>3
    <3>2. /\ S \in SUBSET Lines /\ lk \in LinkRows /\ Single(lk)
          /\ \A i \in Instruments : \A p \in lk[i] : p[1] # n
      BY <1>1, <1>4, <2>1
    <3> HIDE DEF S, lk
    <3>3. /\ c.link \in LinkRows /\ Single(c.link)
          /\ \A i \in Instruments : \A p \in c.link[i] : p \in lk[i] \/ (p[1] = n /\ p[2] \in S)
      BY <1>4, <3>1, <3>2, LinkedIs
    <3>4. \A i \in Instruments : \A p \in c.link[i] :
              /\ p[1] \in DOMAIN ns /\ ns[p[1]].status \in Final
              /\ p[2] \in BankOf(ns[p[1]])
      BY <1>1, <1>4, <2>1, <2>3, <3>3 DEF S, lk
    <3> QED
      BY <3>3, <3>4 DEF LinksOk
  <2> QED
    BY <2>2, <2>3
<1>9. BookOf(m) # {}
  BY <1>1 DEF Even
<1>10. Added(ms, ns, st, JS)
  BY <1>1, <1>4, <1>9 DEF Added, n
<1> QED
  BY <1>2, <1>4, <1>5, <1>6, <1>7, <1>8, <1>10 DEF Sound, ms, c
-----------------------------------------------------------------------------
(* The matching engine.                                                    *)
Tables == [matches : Seq(MatchRow), shown : [Lines -> Showings], link : LinkRows,
           cleared : SUBSET Instruments]

\* What holds between two rounds: sound tables, grown from those at the start.
Between(old, ex) ==
    {s \in Tables : Sound(s.matches, s.shown, s.link, ex) /\ Grown(old, s.matches)}

LEMMA BetweenIs ==
    ASSUME NEW old, NEW ex, NEW s, Sound(s.matches, s.shown, s.link, ex), Grown(old, s.matches),
           s.cleared \in SUBSET Instruments,
           s = [matches |-> s.matches, shown |-> s.shown, link |-> s.link, cleared |-> s.cleared]
    PROVE  s \in Between(old, ex)
<1> DEFINE A == Seq(MatchRow)
           B == [Lines -> Showings]
           C == SUBSET Instruments
<1>1. s.matches \in A /\ s.shown \in B /\ s.link \in LinkRows /\ s.cleared \in C
  BY DEF Sound, Rows, LinksOk
<1> HIDE DEF A, B, C
<1>2. s \in [matches : A, shown : B, link : LinkRows, cleared : C]
  BY <1>1
<1> QED
  BY <1>2 DEF Between, Tables, A, B, C

LEMMA GrownOn ==
    ASSUME NEW a \in Seq(MatchRow), NEW b \in Seq(MatchRow), NEW c \in Seq(MatchRow),
           Grown(a, b), Grown(b, c)
    PROVE  Grown(a, c)
<1>1. Len(a) \in Int /\ Len(b) \in Int /\ Len(c) \in Int
  OBVIOUS
<1> QED
  BY <1>1 DEF Grown

LEMMA BestIs ==
    ASSUME NEW l \in Lines, NEW C \in SUBSET Books, C # {}
    PROVE  BestOf(l, C) \in C
<1> DEFINE f == [b \in C |-> Score[<<l, b>>]]
<1>1. IsFiniteSet(C)
  BY ReconciliationAssumption, FS_Subset
<1>2. \A b \in C : f[b] \in Int
  <2>1. \A b \in C : <<l, b>> \in Pairs
    BY DEF Pairs
  <2>2. Score \in [Pairs -> 0..100]
    BY ReconciliationAssumption
  <2> QED
    BY <2>1, <2>2
<1> HIDE DEF f
<1>3. PICK b \in C : \A c \in C : f[c] <= f[b]
  BY <1>1, <1>2, Greatest
<1>4. \A c \in C : Score[<<l, c>>] <= Score[<<l, b>>]
  BY <1>3 DEF f
<1> QED
  BY <1>4 DEF BestOf

LEMMA MatchLineIs ==
    ASSUME NEW old \in Seq(MatchRow), NEW s \in Between(old, exception), NEW r \in Runs,
           NEW l \in Lines, exception[l] # "ignored"
    PROVE  MatchLine(r, s, l) \in Between(old, exception)
<1> DEFINE C == Candidates(s.matches, l)
           b == BestOf(l, C)
           BS == {l}
           JS == {b}
<1>1. /\ Sound(s.matches, s.shown, s.link, exception) /\ Grown(old, s.matches)
      /\ s.cleared \in SUBSET Instruments /\ s.matches \in Seq(MatchRow)
  BY DEF Between, Tables
<1>2. \/ MatchLine(r, s, l) = s
      \/ /\ s.shown[l] \notin Final /\ C # {}
         /\ \E st \in Active : MatchLine(r, s, l) = Created(s, r, BS, JS, st)
  BY DEF MatchLine, Active, Final
<1>3. C \in SUBSET Books /\ \A x \in C : x \notin BookIn(s.matches, Active)
  BY DEF Candidates
<1> HIDE DEF C
<1>4. ASSUME s.shown[l] \notin Final, C # {}, NEW st \in Active
      PROVE  Created(s, r, BS, JS, st) \in Between(old, exception)
  <2>1. b \in C
    BY <1>3, <1>4, BestIs
  <2> HIDE DEF b
  <2>2. /\ BS \in SUBSET Lines /\ BS # {} /\ JS \in SUBSET Books /\ JS # {}
    BY <1>3, <2>1
  <2>3. Available(s.matches, BS, JS)
    <3>1. l \notin BankIn(s.matches, Final)
      BY <1>1, <1>4 DEF Sound, Right
    <3>2. b \notin BookIn(s.matches, Final)
      <4>1. b \notin BookIn(s.matches, Active)
        BY <1>3, <2>1
      <4> QED
        BY <4>1, InIs DEF Active
    <3> QED
      BY <3>1, <3>2 DEF Available
  <2> HIDE DEF BS, JS
  <2> DEFINE c == Created(s, r, BS, JS, st)
  <2>5. /\ Sound(c.matches, c.shown, c.link, exception) /\ Grown(s.matches, c.matches)
        /\ c.cleared = s.cleared
    <3>1. Sound(c.matches, c.shown, c.link, exception)
      BY <1>1, <2>2, <2>3, CreatedIs
    <3>2. Grown(s.matches, c.matches)
      BY <1>1, <2>2, <2>3, CreatedIs
    <3>3. c.cleared = s.cleared
      BY DEF Created
    <3> QED
      BY <3>1, <3>2, <3>3
  <2>6. c = [matches |-> c.matches, shown |-> c.shown, link |-> c.link, cleared |-> c.cleared]
    BY DEF Created
  <2> HIDE DEF c
  <2>7. Grown(old, c.matches)
    BY <1>1, <2>5, GrownOn DEF Sound, Rows
  <2>8. c \in Between(old, exception)
    BY <1>1, <2>5, <2>6, <2>7, BetweenIs
  <2> QED
    BY <2>8 DEF c
<1> QED
  BY <1>2, <1>4

(* The rounds of auto_match_import, from tables that are sound.            *)
LEMMA AutoMatchIs ==
    ASSUME NEW r \in Runs, NEW cl \in SUBSET Instruments,
           Sound(matches, shown, link, exception), AutoMatch(r, cl)
    PROVE  \E s \in Between(matches, exception) :
               /\ Len(s.matches) <= MaxMatches
               /\ matches' = s.matches /\ shown' = s.shown /\ link' = s.link
<1> DEFINE m == Cardinality(Lines)
           W == Withdraw(matches, r, Lines, Books)
           start == [Now(cl) EXCEPT !.matches = Withdraw(@, r, Lines, Books)]
           V == Between(matches, exception)
           Next1(f, l) == IF l \in Visible(r) THEN MatchLine(r, f, l) ELSE f
           step == [l \in 1..m |-> [f \in V |-> Next1(f, l)]]
<1>1. m \in Nat /\ Lines = 1..m
  <2>1. IsFiniteSet(Lines) /\ Lines = 1..Cardinality(Lines)
    BY ReconciliationAssumption
  <2> QED
    BY <2>1, FS_CardinalityType
<1>2. \A l \in 1..m : \A f \in V : Next1(f, l) \in V
  <2>1. \A l \in Visible(r) : l \in Lines /\ exception[l] # "ignored"
    BY ReconciliationAssumption DEF Visible
  <2>2. matches \in Seq(MatchRow)
    BY DEF Sound, Rows
  <2> QED
    BY <2>1, <2>2, MatchLineIs
<1>3. start \in V
  <2>1. start = [matches |-> W, shown |-> shown, link |-> link, cleared |-> cl]
    BY DEF Now
  <2>2. Sound(W, shown, link, exception) /\ Undone(matches, W)
    BY WithdrawIs
  <2>3. Grown(matches, W)
    BY <2>2, UndoneIs DEF Sound
  <2> HIDE DEF start, W
  <2>4. /\ start.matches = W /\ start.shown = shown /\ start.link = link
        /\ start.cleared = cl
    BY <2>1
  <2> QED
    BY <2>1, <2>2, <2>3, <2>4, BetweenIs
<1>4. \E h : /\ h = [l \in 0..m |-> IF l = 0 THEN start ELSE Next1(h[l-1], l)]
  <2> HIDE DEF m, V, Next1, start
  <2>1. PICK g \in Loops(m, V, start, step) : TRUE
    <3>1. \A l \in 1..m : \A f \in V : step[l][f] \in V
      BY <1>2
    <3> HIDE DEF step
    <3> QED
      BY <1>1, <1>3, <3>1, LoopExists
  <2>2. ASSUME NEW l \in 0..m
        PROVE  (IF l = 0 THEN start ELSE step[l][g[l-1]])
                  = (IF l = 0 THEN start ELSE Next1(g[l-1], l))
    <3>1. l # 0 => l \in 1..m /\ l - 1 \in 0..m
      BY <1>1
    <3>2. g \in [0..m -> V]
      BY <2>1 DEF Loops
    <3> QED
      BY <3>1, <3>2
  <2> HIDE DEF step
  <2> QED
    BY <2>1, <2>2 DEF Loops
<1> DEFINE after == CHOOSE h : h = [l \in 0..m |-> IF l = 0 THEN start ELSE Next1(h[l-1], l)]
<1>5. after = [l \in 0..m |-> IF l = 0 THEN start ELSE Next1(after[l-1], l)]
  <2> HIDE DEF m, Next1, start
  <2> QED
    BY <1>4
<1>6. /\ Len(after[m].matches) <= MaxMatches
      /\ matches' = after[m].matches /\ shown' = after[m].shown /\ link' = after[m].link
  BY DEF AutoMatch
<1> HIDE DEF after, m, V, Next1, start
<1>7. after[0] = start /\ \A l \in 1..m : after[l] = Next1(after[l-1], l)
  <2>1. \A l \in 0..m : after[l] = IF l = 0 THEN start ELSE Next1(after[l-1], l)
    BY <1>5
  <2>2. 0 \in 0..m /\ \A l \in 1..m : l \in 0..m /\ l # 0
    BY <1>1
  <2> QED
    BY <2>1, <2>2
<1>8. \A l \in 0..m : after[l] \in V
  BY <1>1, <1>2, <1>3, <1>7, LoopTyped
<1>9. after[m] \in V
  BY <1>1, <1>8
<1> QED
  BY <1>6, <1>9 DEF V
-----------------------------------------------------------------------------
(* The invariant, and the steps that keep it.                              *)
Statuses == {"none", "draft", "matching", "review", "reconciled", "locked"}
BookStates == {"none", "posted", "gone"}

Columns ==
    /\ exception \in [Lines -> Exceptions]
    /\ status \in [Runs -> Statuses]
    /\ lockedBy \subseteq Runs
    /\ book \in [Books -> BookStates]
    /\ voucher \in [Lines -> SUBSET Books]
    /\ Len(matches) <= MaxMatches

\* The voucher made from a line is posted, and some match, undone or not,
\* has its journal line.
Vouched(ms) == \A l \in Lines : \A b \in voucher[l] : book[b] = "posted" /\ b \in BookIn(ms, Ever)

IInv == Sound(matches, shown, link, exception) /\ Columns /\ Vouched(matches)

LEMMA RecalculatedIs ==
    ASSUME NEW st \in Statuses, NEW V, NEW sh, NEW loose
    PROVE  Recalculated(st, V, sh, loose) \in Statuses
BY DEF Recalculated, Statuses

LEMMA InitHolds == Init => IInv
<1> SUFFICES ASSUME Init PROVE IInv
  OBVIOUS
<1>1. matches = <<>> /\ DOMAIN matches = {} /\ Len(matches) = 0 /\ matches \in Seq(MatchRow)
  BY DEF Init
<1>2. \A l : l \notin BankIn(matches, Final)
  BY <1>1, InIs
<1>3. shown \in [Lines -> Showings] /\ \A l \in Lines : Right(shown, matches, l)
  BY <1>2 DEF Init, Showings, Right, Final
<1>4. LinksOk(link, matches)
  BY DEF Init, LinksOk, LinkRows, Single
<1>5. Columns
  <2>1. /\ exception \in [Lines -> Exceptions] /\ status \in [Runs -> Statuses]
        /\ lockedBy \subseteq Runs /\ book \in [Books -> BookStates]
        /\ voucher \in [Lines -> SUBSET Books]
    BY DEF Init, Exceptions, Statuses, BookStates
  <2> QED
    BY <1>1, <2>1, ReconciliationAssumption DEF Columns
<1>6. Vouched(matches)
  BY DEF Init, Vouched
<1> QED
  BY <1>1, <1>3, <1>4, <1>5, <1>6 DEF IInv, Sound, Rows, Apart, With

(* A match made by hand or for a voucher.                                  *)
LEMMA ConfirmedIs ==
    ASSUME IInv, NEW r \in Runs, NEW cl \in SUBSET Instruments,
           NEW BS \in SUBSET Lines, BS # {}, NEW JS \in SUBSET Books, JS # {},
           Available(matches, BS, JS)
    PROVE  LET c == Confirmed(r, BS, JS, cl)
               n == Len(c.matches)
           IN  /\ Sound(c.matches, c.shown, c.link, exception) /\ Grown(matches, c.matches)
               /\ n = Len(matches) + 1
               /\ n \in DOMAIN c.matches /\ c.matches[n].status \in Active
               /\ BookOf(c.matches[n]) \in SUBSET JS /\ BookOf(c.matches[n]) # {}
<1> DEFINE W == Withdraw(matches, r, BS, JS)
           s == [Now(cl) EXCEPT !.matches = Withdraw(@, r, BS, JS)]
           c == Confirmed(r, BS, JS, cl)
<1>1. s.matches = W /\ s.shown = shown /\ s.link = link /\ s.cleared = cl
  BY DEF Now
<1>2. PICK st \in Active : c = Created(s, r, BS, JS, st)
  BY DEF Confirmed, Active, Final
<1>3. /\ Sound(W, shown, link, exception) /\ Undone(matches, W)
      /\ BankIn(W, Final) = BankIn(matches, Final) /\ BookIn(W, Final) = BookIn(matches, Final)
  BY WithdrawIs DEF IInv
<1> HIDE DEF W, s, c
<1>4. Sound(s.matches, s.shown, s.link, exception) /\ s.cleared \in SUBSET Instruments
  BY <1>1, <1>3
<1>5. Available(s.matches, BS, JS)
  BY <1>1, <1>3 DEF Available
<1>6. Sound(c.matches, c.shown, c.link, exception)
  BY <1>2, <1>4, <1>5, CreatedIs
<1>7. Grown(s.matches, c.matches)
  BY <1>2, <1>4, <1>5, CreatedIs
<1>8. Added(s.matches, c.matches, st, JS)
  BY <1>2, <1>4, <1>5, CreatedIs
<1>9. Grown(matches, s.matches) /\ Len(s.matches) = Len(matches)
  BY <1>1, <1>3, UndoneIs DEF IInv, Sound, Undone
<1>10. Grown(matches, c.matches)
  BY <1>4, <1>6, <1>7, <1>9, GrownOn DEF IInv, Sound, Rows
<1> QED
  BY <1>6, <1>8, <1>9, <1>10 DEF c, Added

(* Grown tables vouch for the vouchers there were.                         *)
LEMMA VouchedOn ==
    ASSUME IInv, NEW ns, Grown(matches, ns)
    PROVE  Vouched(ns)
BY DEF IInv, Vouched, Grown

LEMMA MatchStep ==
    ASSUME IInv, NEW r \in Runs, NEW cl \in SUBSET Instruments,
           NEW BS \in SUBSET Lines, BS # {}, NEW JS \in SUBSET Books, JS # {},
           Match(r, BS, JS, cl)
    PROVE  IInv'
<1> DEFINE c == Confirmed(r, BS, JS, cl)
<1>1. /\ Sound(c.matches, c.shown, c.link, exception) /\ Grown(matches, c.matches)
      /\ Len(c.matches) = Len(matches) + 1
  BY ConfirmedIs DEF Match
<1>2. /\ matches' = c.matches /\ shown' = c.shown /\ link' = c.link
      /\ status' = [status EXCEPT ![r] = Recalculated(@, Visible(r), c.shown,
                                                      Loose(r, c.matches, book))]
      /\ Len(matches) < MaxMatches /\ UNCHANGED <<exception, lockedBy, book, voucher>>
  BY DEF Match, Commit, Room
<1> HIDE DEF c
<1>3. Len(matches) \in Int /\ MaxMatches \in Int
  BY ReconciliationAssumption DEF IInv, Sound, Rows
<1>4. status' \in [Runs -> Statuses]
  BY <1>2, RecalculatedIs DEF IInv, Columns
<1>5. Columns'
  BY <1>1, <1>2, <1>3, <1>4 DEF IInv, Columns
<1>6. Vouched(c.matches)
  BY <1>1, VouchedOn
<1>7. Vouched(matches)'
  BY <1>2, <1>6 DEF Vouched
<1> QED
  BY <1>1, <1>2, <1>5, <1>7 DEF IInv

LEMMA VoucherStep ==
    ASSUME IInv, NEW r \in Runs, NEW cl \in SUBSET Instruments, NEW l \in Lines, NEW b \in Books,
           CreateVoucher(r, l, b, cl)
    PROVE  IInv'
<1> DEFINE BS == {l}
           JS == {b}
           c  == Confirmed(r, BS, JS, cl)
           bk == [book EXCEPT ![b] = "posted"]
<1>1. /\ matches' = c.matches /\ shown' = c.shown /\ link' = c.link
      /\ status' = [status EXCEPT ![r] = Recalculated(@, Visible(r), c.shown,
                                                      Loose(r, c.matches, bk))]
      /\ book' = bk /\ voucher' = [voucher EXCEPT ![l] = {b}]
      /\ exception' = [exception EXCEPT ![l] = "none"]
      /\ Len(matches) < MaxMatches /\ UNCHANGED lockedBy
      /\ l \in Visible(r) /\ book[b] = "none" /\ Available(matches, BS, JS)
  BY DEF CreateVoucher, Commit, Room
<1>2. BS \in SUBSET Lines /\ BS # {} /\ JS \in SUBSET Books /\ JS # {} /\ \A x \in JS : x = b
  OBVIOUS
<1> HIDE DEF BS, JS
<1>3. /\ Sound(c.matches, c.shown, c.link, exception) /\ Grown(matches, c.matches)
      /\ Len(c.matches) = Len(matches) + 1
      /\ Len(c.matches) \in DOMAIN c.matches /\ c.matches[Len(c.matches)].status \in Active
      /\ BookOf(c.matches[Len(c.matches)]) \in SUBSET JS /\ BookOf(c.matches[Len(c.matches)]) # {}
  BY <1>1, <1>2, ConfirmedIs
<1> HIDE DEF c
<1>4. Len(matches) \in Int /\ MaxMatches \in Int
  BY ReconciliationAssumption DEF IInv, Sound, Rows
<1>5. status' \in [Runs -> Statuses]
  <2> HIDE DEF bk
  <2> QED
    BY <1>1, RecalculatedIs DEF IInv, Columns
<1>6. Columns'
  <2>1. book' \in [Books -> BookStates] /\ voucher' \in [Lines -> SUBSET Books]
        /\ exception' \in [Lines -> Exceptions]
    BY <1>1 DEF IInv, Columns, BookStates, Exceptions
  <2> QED
    BY <1>1, <1>3, <1>4, <1>5, <2>1 DEF IInv, Columns
<1>7. Sound(c.matches, c.shown, c.link, exception')
  <2>1. \A k \in Lines : exception'[k] # "ignored" => exception[k] # "ignored"
    BY <1>1 DEF Visible, IInv, Columns
  <2> QED
    BY <1>3, <2>1 DEF Sound
<1>8. Vouched(matches)'
  <2>1. b \in BookIn(c.matches, Ever)
    BY <1>2, <1>3, InIs DEF Ever
  <2>2. Vouched(c.matches)
    BY <1>3, VouchedOn
  <2>3. \A k \in Lines : \A d \in voucher'[k] : d \in voucher[k] \/ d = b
    BY <1>1 DEF IInv, Columns
  <2>4. \A d \in Books : book[d] = "posted" => book'[d] = "posted"
    BY <1>1 DEF IInv, Columns
  <2>5. book'[b] = "posted"
    BY <1>1 DEF IInv, Columns
  <2>6. \A k \in Lines : voucher[k] \in SUBSET Books
    BY DEF IInv, Columns
  <2> QED
    BY <1>1, <2>1, <2>2, <2>3, <2>4, <2>5, <2>6 DEF Vouched
<1> QED
  BY <1>1, <1>6, <1>7, <1>8 DEF IInv

LEMMA AutoStep ==
    ASSUME IInv, NEW r \in Runs, NEW cl \in SUBSET Instruments, AutoMatch(r, cl)
    PROVE  IInv'
<1>1. PICK s \in Between(matches, exception) :
         /\ Len(s.matches) <= MaxMatches
         /\ matches' = s.matches /\ shown' = s.shown /\ link' = s.link
  BY AutoMatchIs DEF IInv
<1>2. Sound(s.matches, s.shown, s.link, exception) /\ Grown(matches, s.matches)
  BY DEF Between
<1>3. UNCHANGED <<exception, lockedBy, book, voucher>>
  BY DEF AutoMatch
<1>4. status' \in [Runs -> Statuses]
  <2> DEFINE opened == IF status[r] = "none" THEN "draft" ELSE status[r]
  <2>1. \E V, sh, loose, st : /\ status' = [status EXCEPT ![r] = st]
                              /\ st = opened \/ st = Recalculated(opened, V, sh, loose)
    BY DEF AutoMatch
  <2>2. status \in [Runs -> Statuses] /\ opened \in Statuses
    BY DEF IInv, Columns, Statuses
  <2> HIDE DEF opened
  <2> QED
    BY <2>1, <2>2, RecalculatedIs
<1>5. Columns'
  BY <1>1, <1>3, <1>4 DEF IInv, Columns
<1>6. Vouched(s.matches)
  BY <1>2, VouchedOn
<1>7. Vouched(matches)'
  BY <1>1, <1>3, <1>6 DEF Vouched
<1> QED
  BY <1>1, <1>2, <1>3, <1>5, <1>7 DEF IInv

LEMMA UnmatchStep ==
    ASSUME IInv, NEW n \in DOMAIN matches, Unmatch(n)
    PROVE  IInv'
<1> DEFINE ms == [matches EXCEPT ![n].status = "cancelled"]
           r  == matches[n].run
           sh == Refresh(shown, ms, BankOf(ms[n]))
           lk == Unlinked(n)
<1>1. /\ matches' = ms /\ shown' = sh /\ link' = lk
      /\ status' = [status EXCEPT ![r] = Recalculated(@, Visible(r), sh, Loose(r, ms, book))]
      /\ UNCHANGED <<exception, lockedBy, book, voucher>>
  BY DEF Unmatch, Commit
<1>2. /\ matches \in Seq(MatchRow) /\ Rows(matches) /\ Apart(matches)
      /\ shown \in [Lines -> Showings] /\ LinksOk(link, matches)
      /\ \A l \in Lines : exception[l] # "ignored" => Right(shown, matches, l)
  BY DEF IInv, Sound, Rows
<1>3. /\ DOMAIN ms = DOMAIN matches /\ ms[n] = Cancelled(matches[n])
      /\ \A k \in DOMAIN matches : k # n => ms[k] = matches[k]
      /\ ms = [k \in DOMAIN matches |-> ms[k]]
  BY <1>2 DEF Cancelled
<1> HIDE DEF ms
<1>4. Undone(matches, ms)
  <2> DEFINE k == Len(matches)
  <2>1. k \in Nat /\ DOMAIN matches = 1..k /\ \A j \in 1..k : matches[j] \in MatchRow
    BY <1>2
  <2>2. \A j \in 1..k : ms[j] \in MatchRow
    BY <1>3, <2>1, CancelledIs
  <2>3. ms \in [1..k -> MatchRow] /\ DOMAIN ms = 1..k
    BY <1>3, <2>1, <2>2
  <2> HIDE DEF k
  <2>4. ms \in Seq(MatchRow)
    BY <2>1, <2>3, SeqDef
  <2>5. Len(ms) = k
    BY <2>1, <2>3, <2>4
  <2> QED
    BY <1>3, <2>4, <2>5 DEF k, Undone
<1>5. /\ Rows(ms) /\ Grown(matches, ms) /\ Apart(ms)
      /\ \A k \in DOMAIN matches : BankOf(ms[k]) = BankOf(matches[k])
  BY <1>2, <1>4, UndoneIs
<1>6. ms[n].status = "cancelled"
  BY <1>2, <1>3, CancelledIs DEF Rows
<1>7. sh \in [Lines -> Showings] /\ \A l \in Lines : exception[l] # "ignored" => Right(sh, ms, l)
  <2> DEFINE S == BankOf(ms[n])
  <2>1. sh = [l \in Lines |-> IF l \in S THEN Standing(ms, l) ELSE shown[l]]
    BY DEF Refresh
  <2>2. \A l \in Lines : /\ Standing(ms, l) \in Showings
                         /\ Standing(ms, l) \in Final <=> l \in BankIn(ms, Final)
    BY StandingIs
  <2>3. \A l \in Lines : l \notin S => (l \in BankIn(ms, Final) <=> l \in BankIn(matches, Final))
    BY <1>3, <1>5, <1>6, InIs
  <2> HIDE DEF S, sh
  <2>4. sh \in [Lines -> Showings]
    BY <1>2, <2>1, <2>2
  <2>5. ASSUME NEW l \in Lines, exception[l] # "ignored" PROVE Right(sh, ms, l)
    <3>1. CASE l \in S
      BY <2>1, <2>2, <3>1 DEF Right
    <3>2. CASE l \notin S
      BY <1>2, <2>1, <2>3, <2>5, <3>2 DEF Right
    <3> QED
      BY <3>1, <3>2
  <2> QED
    BY <2>4, <2>5
<1>8. LinksOk(lk, ms)
  <2>1. /\ link \in LinkRows /\ Single(link)
        /\ \A i \in Instruments : \A p \in link[i] :
              /\ p[1] \in DOMAIN matches /\ matches[p[1]].status \in Final
              /\ p[2] \in BankOf(matches[p[1]])
    BY <1>2 DEF LinksOk
  <2>2. lk \in LinkRows /\ \A i \in Instruments : \A p \in lk[i] : p \in link[i] /\ p[1] # n
    BY <2>1 DEF LinkRows, Unlinked
  <2> HIDE DEF lk
  <2> QED
    BY <1>3, <1>5, <2>1, <2>2 DEF LinksOk, Single
<1> HIDE DEF sh, lk
<1>9. Columns'
  <2>1. status' \in [Runs -> Statuses]
    BY <1>1, RecalculatedIs DEF IInv, Columns
  <2>2. Len(ms) = Len(matches)
    BY <1>4 DEF Undone
  <2> QED
    BY <1>1, <2>1, <2>2 DEF IInv, Columns
<1>10. Vouched(matches)'
  <2>1. Vouched(ms)
    BY <1>5, VouchedOn
  <2> QED
    BY <1>1, <2>1 DEF Vouched
<1> QED
  BY <1>1, <1>5, <1>7, <1>8, <1>9, <1>10 DEF IInv, Sound

LEMMA ExceptStep ==
    ASSUME IInv, NEW r \in Runs, NEW l \in Lines, NEW e \in Exceptions, Except(r, l, e)
    PROVE  IInv'
<1> DEFINE JS == {}
           ms == Withdraw(matches, r, {l}, JS)
           sh == [shown EXCEPT ![l] = IF e = "ignored" THEN "cancelled" ELSE @]
           V  == IF e = "ignored" THEN Visible(r) \ {l} ELSE Visible(r)
<1>1. /\ matches' = ms /\ shown' = sh /\ link' = link
      /\ status' = [status EXCEPT ![r] = Recalculated(@, V, sh, Loose(r, ms, book))]
      /\ exception' = [exception EXCEPT ![l] = e] /\ l \in Visible(r)
      /\ UNCHANGED <<lockedBy, book, voucher>>
  BY DEF Except, Commit
<1>2. Sound(ms, shown, link, exception) /\ Undone(matches, ms)
  BY WithdrawIs DEF IInv
<1> HIDE DEF ms
<1>3. Grown(matches, ms) /\ Len(ms) = Len(matches)
  BY <1>2, UndoneIs DEF IInv, Sound, Undone
<1>4. Sound(ms, sh, link, exception')
  <2>1. sh \in [Lines -> Showings]
    BY <1>2 DEF Sound, Showings
  <2>2. ASSUME NEW k \in Lines, exception'[k] # "ignored" PROVE Right(sh, ms, k)
    <3>1. shown \in [Lines -> Showings] /\ exception \in [Lines -> Exceptions]
      BY <1>2 DEF Sound, IInv, Columns
    <3>2. exception[k] # "ignored" /\ sh[k] = shown[k]
      BY <1>1, <2>2, <3>1 DEF Visible
    <3> QED
      BY <1>2, <3>2 DEF Sound, Right
  <2> QED
    BY <1>2, <2>1, <2>2 DEF Sound
<1> HIDE DEF sh, V
<1>5. Columns'
  <2>1. status' \in [Runs -> Statuses] /\ exception' \in [Lines -> Exceptions]
    BY <1>1, RecalculatedIs DEF IInv, Columns
  <2> QED
    BY <1>1, <1>3, <2>1 DEF IInv, Columns
<1>6. Vouched(matches)'
  <2>1. Vouched(ms)
    BY <1>3, VouchedOn
  <2> QED
    BY <1>1, <2>1 DEF Vouched
<1> QED
  BY <1>1, <1>4, <1>5, <1>6 DEF IInv

LEMMA OtherStep ==
    ASSUME IInv, \/ \E r \in Runs :
                       \E act \in {"mark_review", "mark_reconciled", "lock_run", "unlock_run"} :
                          RunAction(r, act)
                 \/ \E b \in Books : Post(b) \/ Unpost(b)
    PROVE  IInv'
<1>1. CASE \E r \in Runs :
              \E act \in {"mark_review", "mark_reconciled", "lock_run", "unlock_run"} :
                 RunAction(r, act)
  <2>1. PICK r \in Runs, act \in {"mark_review", "mark_reconciled", "lock_run", "unlock_run"} :
           RunAction(r, act)
    BY <1>1
  <2>2. status' \in [Runs -> Statuses]
    BY <2>1 DEF RunAction, IInv, Columns, Statuses
  <2>3. lockedBy' \subseteq Runs
    BY <2>1 DEF RunAction, IInv, Columns
  <2> QED
    BY <2>1, <2>2, <2>3 DEF RunAction, IInv, Columns, Vouched
<1>2. ASSUME NEW b \in Books, Post(b) PROVE IInv'
  <2>1. book' \in [Books -> BookStates] /\ \A d \in Books : book[d] = "posted" => book'[d] = "posted"
    BY <1>2 DEF Post, IInv, Columns, BookStates
  <2> QED
    BY <1>2, <2>1 DEF Post, IInv, Columns, Vouched
<1>3. ASSUME NEW b \in Books, Unpost(b) PROVE IInv'
  <2>1. book' \in [Books -> BookStates] /\ \A d \in Books \ {b} : book'[d] = book[d]
    BY <1>3 DEF Unpost, IInv, Columns, BookStates
  <2>2. b \notin BookIn(matches, Ever)
    BY <1>3 DEF Unpost, Protected, Ever
  <2> QED
    BY <1>3, <2>1, <2>2 DEF Unpost, IInv, Columns, Vouched
<1> QED
  BY <1>1, <1>2, <1>3

LEMMA StepKept == IInv /\ [Next]_vars => IInv'
<1> SUFFICES ASSUME IInv, [Next]_vars PROVE IInv'
  OBVIOUS
<1>1. ASSUME NEW r \in Runs, NEW cl \in SUBSET Instruments,
             NEW BS \in (SUBSET Lines) \ {{}}, NEW JS \in (SUBSET Books) \ {{}}, Match(r, BS, JS, cl)
      PROVE  IInv'
  BY <1>1, MatchStep
<1>2. ASSUME UNCHANGED vars PROVE IInv'
  BY <1>2 DEF vars, IInv, Columns, Vouched
<1> QED
  BY <1>1, <1>2, AutoStep, VoucherStep, UnmatchStep, ExceptStep, OtherStep DEF Next

LEMMA InvariantHolds == Spec => []IInv
<1> QED
  BY InitHolds, StepKept, PTL DEF Spec
-----------------------------------------------------------------------------
(* Every table keeps its type: the rows of a match are never empty, and no *)
(* link points outside the matches.                                        *)
THEOREM TypeCorrect == Spec => []TypeOK
<1>1. IInv => TypeOK
  <2> SUFFICES ASSUME IInv PROVE TypeOK
    OBVIOUS
  <2>1. ASSUME NEW n \in DOMAIN matches
        PROVE  /\ matches[n].run \in Runs /\ matches[n].status \in Active \cup {"cancelled"}
               /\ BankOf(matches[n]) \in (SUBSET Lines) \ {{}}
               /\ BookOf(matches[n]) \in (SUBSET Books) \ {{}}
    <3>1. matches[n] \in MatchRow /\ Even(matches[n])
      BY DEF IInv, Sound, Rows
    <3> QED
      BY <3>1, RowIs DEF Even
  <2>2. \A i \in Instruments : \A p \in link[i] : p \in (DOMAIN matches) \X Lines
    <3> SUFFICES ASSUME NEW i \in Instruments, NEW p \in link[i]
                 PROVE  p \in (DOMAIN matches) \X Lines
      OBVIOUS
    <3>1. link[i] \in SUBSET (Nat \X Lines) /\ p[1] \in DOMAIN matches
      BY DEF IInv, Sound, LinksOk, LinkRows
    <3> QED
      BY <3>1
  <2> QED
    BY <2>1, <2>2 DEF IInv, Columns, Sound, TypeOK, Showings, Statuses, BookStates
<1> QED
  BY <1>1, InvariantHolds, PTL

(* However the engine, users and vouchers take turns in however many runs, *)
(* no statement line and no journal line is in two final matches           *)
(* (_ensure_bank_lines_available, _ensure_book_lines_available).           *)
THEOREM MatchedOnce == Spec => []OneFinalMatch
<1>1. IInv => OneFinalMatch
  BY DEF IInv, Sound, Apart, OneFinalMatch
<1> QED
  BY <1>1, InvariantHolds, PTL

(* A line that is not ignored shows as matched exactly when a final match  *)
(* has it, though no operation refreshes all lines                         *)
(* (_recalculate_line_statuses_for_lines).                                 *)
THEOREM ShownAsMatched == Spec => []FinalIsShown
<1>1. IInv => FinalIsShown
  BY DEF IInv, Sound, Right, FinalIsShown
<1> QED
  BY <1>1, InvariantHolds, PTL

(* The allocation loops of _create_match lay out the same amount on both   *)
(* sides of every match, whatever the amounts and the number of lines, and *)
(* give no line more than its own.                                         *)
THEOREM AllocationsAgree == Spec => []SidesAgree
<1>1. IInv => SidesAgree
  BY DEF IInv, Sound, Rows, Even, SidesAgree
<1> QED
  BY <1>1, InvariantHolds, PTL

(* An instrument is linked only to lines of final matches, and no two to   *)
(* the same line of a match (link_treasury_instruments_for_match,          *)
(* clear_treasury_instrument_links_for_match).                             *)
THEOREM LinkedWhileMatched == Spec => []LinksAreFinal
<1>1. IInv => LinksAreFinal
  BY DEF IInv, Sound, LinksOk, Single, LinksAreFinal
<1> QED
  BY <1>1, InvariantHolds, PTL

(* A voucher made from a statement line is never unposted: the match made  *)
(* with it protects its journal line even when undone (on_delete=PROTECT). *)
THEOREM VouchersStand == Spec => []VoucherStands
<1>1. IInv => VoucherStands
  BY DEF IInv, Vouched, VoucherStands
<1> QED
  BY <1>1, InvariantHolds, PTL

(* An operation on a run that is not locked leaves the locks as they are.  *)
LEMMA LocksKept ==
    ASSUME IInv, LockHolds, NEW r \in Runs, r \notin lockedBy, lockedBy' = lockedBy,
           \E st : status' = [status EXCEPT ![r] = st]
    PROVE  LockHolds'
BY DEF IInv, Columns, LockHolds

LEMMA AutoMatchLocks ==
    ASSUME IInv, LockHolds, NEW r \in Runs, NEW cl \in SUBSET Instruments, AutoMatch(r, cl),
           r \notin lockedBy
    PROVE  LockHolds'
<1>1. /\ lockedBy' = lockedBy
      /\ \E V, sh, loose, st :
            status' = [status EXCEPT ![r] = st]
  BY DEF AutoMatch
<1> QED
  BY <1>1, LocksKept

\* Every other operation of a run asks whether it is locked.
LEMMA MutableLocks ==
    ASSUME IInv, LockHolds, NEW s, NEW r, NEW V, NEW bk, Mutable(r), Commit(s, r, V, bk),
           r \in Runs, lockedBy' = lockedBy
    PROVE  LockHolds'
<1>1. r \notin lockedBy
  BY DEF Mutable, LockHolds
<1>2. \E st : status' = [status EXCEPT ![r] = st]
  BY DEF Commit
<1> QED
  BY <1>1, <1>2, LocksKept

LEMMA LockStep ==
    ASSUME IInv, LockHolds, [Next]_vars,
           \A r \in lockedBy, cl \in SUBSET Instruments : ~AutoMatch(r, cl)
    PROVE  LockHolds'
<1>1. ASSUME NEW r \in Runs, NEW cl \in SUBSET Instruments, AutoMatch(r, cl)
      PROVE  LockHolds'
  BY <1>1, AutoMatchLocks
<1>2. ASSUME NEW r \in Runs, NEW BS, NEW JS, NEW cl, Match(r, BS, JS, cl) PROVE LockHolds'
  <2>1. Mutable(r) /\ lockedBy' = lockedBy /\ \E s, V, bk : Commit(s, r, V, bk)
    BY <1>2 DEF Match
  <2> QED
    BY <2>1, MutableLocks
<1>3. ASSUME NEW r \in Runs, NEW l, NEW b, NEW cl, CreateVoucher(r, l, b, cl) PROVE LockHolds'
  <2>1. Mutable(r) /\ lockedBy' = lockedBy /\ \E s, V, bk : Commit(s, r, V, bk)
    BY <1>3 DEF CreateVoucher
  <2> QED
    BY <2>1, MutableLocks
<1>4. ASSUME NEW n \in DOMAIN matches, Unmatch(n) PROVE LockHolds'
  <2> DEFINE r == matches[n].run
  <2>1. Mutable(r) /\ lockedBy' = lockedBy /\ \E s, V, bk : Commit(s, r, V, bk)
    BY <1>4 DEF Unmatch
  <2>2. r \in Runs
    <3>1. matches \in Seq(MatchRow)
      BY DEF IInv, Sound, Rows
    <3>2. matches[n] \in MatchRow
      BY <3>1
    <3> QED
      BY <3>2 DEF MatchRow
  <2> QED
    BY <2>1, <2>2, MutableLocks
<1>5. ASSUME NEW r \in Runs, NEW l, NEW e, Except(r, l, e) PROVE LockHolds'
  <2>1. Mutable(r) /\ lockedBy' = lockedBy /\ \E s, V, bk : Commit(s, r, V, bk)
    BY <1>5 DEF Except
  <2> QED
    BY <2>1, MutableLocks
<1>6. ASSUME NEW r \in Runs, NEW act, RunAction(r, act) PROVE LockHolds'
  BY <1>6 DEF RunAction, Mutable, LockHolds, IInv, Columns
<1>7. ASSUME NEW b, Post(b) \/ Unpost(b) PROVE LockHolds'
  BY <1>7 DEF Post, Unpost, LockHolds
<1>8. CASE UNCHANGED vars
  BY <1>8 DEF vars, LockHolds
<1> QED
  BY <1>1, <1>2, <1>3, <1>4, <1>5, <1>6, <1>7, <1>8 DEF Next

(* The behaviours in which the engine asks what the other operations ask   *)
(* (ensure_run_mutable): it leaves a locked run alone.                     *)
SpecAsking ==
    Init /\ [][Next /\ \A r \in lockedBy, cl \in SUBSET Instruments : ~AutoMatch(r, cl)]_vars

(* The engine is the only operation that breaks a lock: if it left locked  *)
(* runs alone, a run that is locked would stay so until it is unlocked,    *)
(* through every match, exception, voucher and action on it and the other  *)
(* runs (auto_match_import, the endpoint of reconciliation_locked).        *)
THEOREM OnlyEngineBreaksLocks == SpecAsking => []LockHolds
<1> DEFINE Asks == \A r \in lockedBy, cl \in SUBSET Instruments : ~AutoMatch(r, cl)
<1>1. Init => IInv /\ LockHolds
  BY InitHolds DEF Init, LockHolds
<1>2. IInv /\ LockHolds /\ [Next /\ Asks]_vars => (IInv /\ LockHolds)'
  <2> SUFFICES ASSUME IInv, LockHolds, [Next /\ Asks]_vars PROVE (IInv /\ LockHolds)'
    OBVIOUS
  <2>1. IInv'
    BY StepKept
  <2>2. CASE Next /\ Asks
    BY <2>1, <2>2, LockStep
  <2>3. CASE UNCHANGED vars
    BY <2>1, <2>3 DEF vars, LockHolds
  <2> QED
    BY <2>1, <2>2, <2>3
<1> QED
  BY <1>1, <1>2, PTL DEF SpecAsking
=============================================================================
