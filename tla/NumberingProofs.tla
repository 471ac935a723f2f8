-------------------------- MODULE NumberingProofs --------------------------
(***************************************************************************)
(* Proofs about Numbering, for any vouchers, scopes, periods, setups and   *)
(* numbers of tries, any number of requests under way on old copies of any *)
(* voucher, and any bound on the numbers: the tables keep their types, no  *)
(* number is skipped, a voucher loses its number only to a request that    *)
(* was overtaken or that found a draft to delete, and the next number of a *)
(* series that nobody sets back is free.                                   *)
(***************************************************************************)
EXTENDS Numbering, WellFoundedInduction, FiniteSetTheorems, TLAPS

Counters == [current : Nat \ {0}, reset : SUBSET Periods]

Lone(S) == \A x, y \in S : x = y

RowOk(c) == /\ Lone(c.number)
            /\ c.status \in {"confirmed", "posted"} => c.number # {}

Tables ==
    /\ setup \in Setups
    /\ series \in [Scopes -> SUBSET Counters]
    /\ voucher \in [Docs -> VoucherRow]
    /\ opened \in [Docs -> SUBSET VoucherRow]
    /\ \A d \in Docs : RowOk(voucher[d]) /\ \A c \in opened[d] : RowOk(c)
    /\ form \in [Scopes -> SUBSET (Nat \ {0})]
    /\ given \in [Scopes -> SUBSET (Nat \ {0})]
    /\ \A s \in Scopes : Lone(series[s]) /\ Lone(form[s])

(* The numbers of vouchers and of their copies are remembered.             *)
NumbersGiven ==
    \A d \in Docs :
        /\ voucher[d].number \subseteq given[ScopeOf[d]]
        /\ \A c \in opened[d] : c.number \subseteq given[ScopeOf[d]]

(* Every number before n was given to a voucher in reach of s's series.    *)
Covered(s, n) ==
    \A k \in START .. n - 1 :
        \E t \in Scopes : k \in given[t] /\ (t = s \/ s = Root)

(* What makes NoneSkipped inductive: a screen that was opened earlier puts *)
(* back a counter that had skipped nothing either, and what was given      *)
(* remains given.                                                          *)
FormsCovered == setup.typed = {} => \A s \in Scopes : \A n \in form[s] : Covered(s, n)

IInv == Tables /\ NumbersGiven /\ NoneSkipped /\ FormsCovered
----------------------------------------------------------------------------
LEMMA LeastOfNaturals ==
    ASSUME NEW S \in SUBSET Nat, S # {}
    PROVE  Min(S) \in S /\ \A m \in S : Min(S) <= m
<1> DEFINE Less == OpToRel(<, Nat)
<1>1. \E n \in S : \A m \in S : ~ (<<m, n>> \in Less)
  <2>1. IsWellFoundedOn(Less, Nat)
    BY NatLessThanWellFounded, Zenon
  <2> HIDE DEF Less
  <2> QED
    BY <2>1, WFMin
<1>2. \A m, n \in Nat : ~ (<<m, n>> \in Less) => n <= m
  BY DEF OpToRel
<1>3. \E n \in S : \A m \in S : n <= m
  <2> HIDE DEF Less
  <2> QED
    BY <1>1, <1>2
<1> QED
  BY <1>3 DEF Min

LEMMA LoneHasOne ==
    ASSUME NEW S, Lone(S)
    PROVE  Cardinality(S) <= 1
<1>1. CASE S = {}
  BY <1>1, FS_EmptySet
<1>2. CASE S # {}
  <2>1. \E x : S = {x}
    BY <1>2 DEF Lone
  <2> QED
    BY <2>1, FS_Singleton
<1> QED
  BY <1>1, <1>2

(* The series a scope draws from is its own or the entity's.               *)
LEMMA SeriesInReach ==
    ASSUME NEW d \in Docs
    PROVE  /\ ScopeOf[d] \in Scopes
           /\ SeriesFor(ScopeOf[d]) \in Scopes
           /\ SeriesFor(ScopeOf[d]) \in {ScopeOf[d], Root}
BY NumberingAssumption DEF SeriesFor

(* What drawing a number does: it is the first free one from the counter   *)
(* of the series that was found, or from the start of a restarted one.     *)
Draws(d, row, n, ser) ==
    /\ \/ ser \in series[SeriesFor(ScopeOf[d])]
       \/ ser.current = START /\ setup.restarts
    /\ ser.current <= n
    /\ \A k \in ser.current .. n - 1 : ~ Free(d, k)
    /\ Saved(d, [row EXCEPT !.number = {n}])
    /\ series' = [series EXCEPT ![SeriesFor(ScopeOf[d])] = {Drawn(ser, n)}]

LEMMA NumberDraws ==
    ASSUME Tables, NEW d \in Docs, NEW row \in VoucherRow, Numbered(d, row)
    PROVE  \E n \in Nat \ {0}, ser \in Counters : Draws(d, row, n, ser)
<1> DEFINE s == SeriesFor(ScopeOf[d])
<1>1. s \in Scopes
  BY SeriesInReach
<1>2. PICK found \in series[s], p \in Periods :
          LET ser == ResetFor(found, p)
              n   == Min(Candidates(d, ser))
          IN  /\ Candidates(d, ser) # {}
              /\ n <= TopNumber
              /\ Saved(d, [row EXCEPT !.number = {n}])
              /\ series' = [series EXCEPT ![s] = {Drawn(ser, n)}]
  BY DEF Numbered
<1> DEFINE ser == ResetFor(found, p)
           n   == Min(Candidates(d, ser))
<1>3. found \in Counters /\ p \in Periods
  BY <1>1, <1>2 DEF Tables
<1>4. /\ ser \in Counters
      /\ ser \in series[s] \/ (ser.current = START /\ setup.restarts)
  BY <1>2, <1>3 DEF ResetFor, NeedsReset, Resets, Counters, START
<1> HIDE DEF s, ser
<1>5. ser.current \in Nat \ {0} /\ Tries \in Nat \ {0}
  BY <1>4, NumberingAssumption DEF Counters, Tries
<1>6. Candidates(d, ser) \in SUBSET Nat
  BY <1>5 DEF Candidates
<1>7. n \in Candidates(d, ser) /\ \A k \in Candidates(d, ser) : n <= k
  BY <1>2, <1>6, LeastOfNaturals DEF ser
<1> HIDE DEF n
<1>8. n \in Nat \ {0} /\ ser.current <= n
  BY <1>5, <1>7 DEF Candidates
<1>9. \A k \in ser.current .. n - 1 : ~ Free(d, k)
  <2> SUFFICES ASSUME NEW k \in ser.current .. n - 1, Free(d, k)
               PROVE  FALSE
    OBVIOUS
  <2>1. k \in Candidates(d, ser)
    BY <1>5, <1>7, <1>8 DEF Candidates
  <2>2. n <= k
    BY <1>7, <2>1
  <2> QED
    BY <1>5, <1>8, <2>2
<1>10. /\ Saved(d, [row EXCEPT !.number = {n}])
       /\ series' = [series EXCEPT ![s] = {Drawn(ser, n)}]
  BY <1>2 DEF ser, n
<1> QED
  BY <1>4, <1>8, <1>9, <1>10 DEF s, Draws

(* The rows are in order after one of them was written.                    *)
LEMMA SavingARow ==
    ASSUME Tables, NumbersGiven, NEW d \in Docs, NEW row \in VoucherRow,
           RowOk(row), Saved(d, row), opened' = opened
    PROVE  /\ voucher' \in [Docs -> VoucherRow]
           /\ given' \in [Scopes -> SUBSET (Nat \ {0})]
           /\ \A e \in Docs : RowOk(voucher'[e])
           /\ voucher'[d] = row /\ row.number \subseteq given'[ScopeOf[d]]
           /\ \A s \in Scopes : given[s] \subseteq given'[s]
           /\ NumbersGiven'
<1>1. ScopeOf[d] \in Scopes /\ row.number \in SUBSET (Nat \ {0})
  BY SeriesInReach DEF VoucherRow
<1>2. /\ voucher' = [voucher EXCEPT ![d] = row]
      /\ given' = [given EXCEPT ![ScopeOf[d]] = @ \cup row.number]
  BY DEF Saved
<1>3. /\ voucher' \in [Docs -> VoucherRow]
      /\ voucher'[d] = row
      /\ \A e \in Docs : e # d => voucher'[e] = voucher[e]
  BY <1>2 DEF Tables
<1>4. /\ given' \in [Scopes -> SUBSET (Nat \ {0})]
      /\ row.number \subseteq given'[ScopeOf[d]]
      /\ \A s \in Scopes : given[s] \subseteq given'[s]
  BY <1>1, <1>2 DEF Tables
<1>5. \A e \in Docs : RowOk(voucher'[e])
  BY <1>3 DEF Tables
<1>6. NumbersGiven'
  <2> SUFFICES ASSUME NEW e \in Docs
               PROVE  /\ voucher'[e].number \subseteq given'[ScopeOf[e]]
                      /\ \A c \in opened[e] : c.number \subseteq given'[ScopeOf[e]]
    BY DEF NumbersGiven
  <2>1. ScopeOf[e] \in Scopes
    BY SeriesInReach
  <2> QED
    BY <1>3, <1>4, <2>1 DEF NumbersGiven
<1> QED
  BY <1>3, <1>4, <1>5, <1>6

(* Nothing is uncovered by numbers being given.                            *)
LEMMA CoveredStays ==
    ASSUME \A s \in Scopes : given[s] \subseteq given'[s],
           NEW s \in Scopes, NEW n, Covered(s, n)
    PROVE  Covered(s, n)'
BY DEF Covered

(* A series that has skipped no number has skipped none after one was      *)
(* drawn from it: those that were tried in vain are on vouchers.           *)
LEMMA DrawingSkipsNone ==
    ASSUME Tables, NumbersGiven, NoneSkipped, setup.typed = {}, NEW d \in Docs,
           NEW n \in Nat \ {0}, NEW found \in Counters,
           found \in series[SeriesFor(ScopeOf[d])] \/ found.current = START,
           found.current <= n,
           \A k \in found.current .. n - 1 : ~ Free(d, k),
           n \in given'[ScopeOf[d]],
           \A s \in Scopes : given[s] \subseteq given'[s],
           series' = [series EXCEPT ![SeriesFor(ScopeOf[d])] = {Drawn(found, n)}]
    PROVE  \A s \in Scopes : \A ser \in series'[s] : Covered(s, ser.current)'
<1> DEFINE t == SeriesFor(ScopeOf[d])
<1>1. t \in Scopes /\ t \in {ScopeOf[d], Root} /\ ScopeOf[d] \in Scopes
  BY SeriesInReach
<1>2. found \in series[t] \/ found.current = START
  OBVIOUS
<1>3. series' = [series EXCEPT ![t] = {Drawn(found, n)}]
  OBVIOUS
<1> HIDE DEF t
<1>4. SUFFICES ASSUME NEW s \in Scopes, NEW ser \in series'[s],
                      NEW k \in START .. ser.current - 1
               PROVE  \E r \in Scopes : k \in given'[r] /\ (r = s \/ s = Root)
  BY DEF Covered
<1>5. CASE s # t
  <2>1. ser \in series[s]
    BY <1>1, <1>3, <1>5 DEF Tables
  <2> QED
    BY <2>1 DEF NoneSkipped
<1>6. CASE s = t
  <2>1. ser.current = n + 1
    BY <1>1, <1>3, <1>6 DEF Tables, Drawn, Counters
  <2>2. k \in Nat /\ found.current \in Nat /\ k <= n
    BY <2>1 DEF START, Counters
  <2>3. CASE k = n
    BY <1>1, <1>6, <2>3
  <2>4. CASE k \in found.current .. n - 1
    <3>1. PICK e \in Docs : ScopeOf[e] = ScopeOf[d] /\ k \in voucher[e].number
      BY <2>4 DEF Free
    <3>2. k \in given[ScopeOf[d]]
      BY <3>1 DEF NumbersGiven
    <3> QED
      BY <1>1, <1>6, <3>2
  <2>5. CASE k \in START .. found.current - 1
    <3>1. found \in series[s]
      BY <1>2, <1>6, <2>5 DEF START
    <3> QED
      BY <2>5, <3>1 DEF NoneSkipped
  <2> QED
    BY <2>2, <2>3, <2>4, <2>5 DEF START
<1> QED
  BY <1>5, <1>6
----------------------------------------------------------------------------
LEMMA InitEstablishes == Init => IInv
<1> SUFFICES ASSUME Init PROVE IInv
  OBVIOUS
<1>1. PICK last \in {{}} \cup {{p} : p \in Resets} :
          series = [s \in Scopes |->
                       IF s = Root THEN {[current |-> START, reset |-> last]} ELSE {}]
  BY DEF Init
<1>2. [current |-> START, reset |-> last] \in Counters
  BY DEF Counters, START, Resets
<1>3. Unnumbered \in VoucherRow /\ RowOk(Unnumbered)
  BY DEF Unnumbered, VoucherRow, RowOk, Lone
<1>4. /\ setup \in Setups
      /\ voucher = [d \in Docs |-> Unnumbered]
      /\ opened = [d \in Docs |-> {}]
      /\ form = [s \in Scopes |-> {}]
      /\ given = [s \in Scopes |-> {}]
  BY DEF Init
<1>5. Tables
  BY <1>1, <1>2, <1>3, <1>4 DEF Tables, Lone
<1>6. NumbersGiven
  BY <1>4 DEF NumbersGiven, Unnumbered
<1>7. NoneSkipped /\ FormsCovered
  BY <1>1, <1>4 DEF NoneSkipped, FormsCovered, START
<1> QED
  BY <1>5, <1>6, <1>7 DEF IInv

(* A confirmation: the voucher gets a number if the row has none.          *)
LEMMA ConfirmStep ==
    ASSUME IInv, NEW d \in Docs, NEW row \in VoucherRow, Lone(row.number),
           NumberedOnce(d, row), UNCHANGED <<setup, opened, form>>
    PROVE  IInv'
<1> USE DEF IInv
<1>1. CASE row.number # {} /\ Saved(d, row) /\ UNCHANGED series
  <2>1. RowOk(row)
    BY <1>1 DEF RowOk
  <2>2. /\ Tables' /\ NumbersGiven'
        /\ \A s \in Scopes : given[s] \subseteq given'[s]
    BY <1>1, <2>1, SavingARow DEF Tables
  <2>3. NoneSkipped'
    BY <1>1, <2>2 DEF NoneSkipped
  <2>4. FormsCovered'
    BY <2>2, CoveredStays DEF FormsCovered
  <2> QED
    BY <2>2, <2>3, <2>4
<1>2. CASE Numbered(d, row)
  <2>1. PICK n \in Nat \ {0}, ser \in Counters : Draws(d, row, n, ser)
    BY <1>2, NumberDraws
  <2> DEFINE new == [row EXCEPT !.number = {n}]
  <2>2. new \in VoucherRow /\ RowOk(new) /\ new.number = {n}
    BY DEF VoucherRow, RowOk, Lone
  <2> HIDE DEF new
  <2>3. Saved(d, new)
    BY <2>1 DEF new, Draws
  <2>4. /\ voucher' \in [Docs -> VoucherRow]
        /\ given' \in [Scopes -> SUBSET (Nat \ {0})]
        /\ \A e \in Docs : RowOk(voucher'[e])
        /\ n \in given'[ScopeOf[d]]
        /\ \A s \in Scopes : given[s] \subseteq given'[s]
        /\ NumbersGiven'
    BY <2>2, <2>3, SavingARow
  <2> DEFINE t    == SeriesFor(ScopeOf[d])
             next == Drawn(ser, n)
  <2>5. t \in Scopes /\ next \in Counters
    BY SeriesInReach DEF Drawn, Counters
  <2>6. series' = [series EXCEPT ![t] = {next}]
    BY <2>1 DEF Draws
  <2> HIDE DEF t, next
  <2>7. series' \in [Scopes -> SUBSET Counters] /\ \A s \in Scopes : Lone(series'[s])
    BY <2>5, <2>6 DEF Tables, Lone
  <2>8. Tables'
    BY <2>4, <2>7 DEF Tables
  <2>9. NoneSkipped'
    <3> SUFFICES ASSUME setup.typed = {}
                 PROVE  \A s \in Scopes : \A found \in series'[s] :
                            Covered(s, found.current)'
      BY DEF NoneSkipped, Covered
    <3> QED
      BY <2>1, <2>4, DrawingSkipsNone DEF Draws
  <2>10. FormsCovered'
    BY <2>4, CoveredStays DEF FormsCovered
  <2> QED
    BY <2>4, <2>8, <2>9, <2>10
<1> QED
  BY <1>1, <1>2 DEF NumberedOnce

(* A copy that a request works on is a row of its voucher.                 *)
LEMMA CopiesAreRows ==
    ASSUME Tables, NEW d \in Docs, NEW c \in Copies(d)
    PROVE  c \in VoucherRow /\ RowOk(c)
BY DEF Copies, Tables

(* The steps that write nothing but the rows of vouchers and copies.       *)
LEMMA RowsStep ==
    ASSUME IInv, UNCHANGED <<setup, series, form>>,
           voucher' \in [Docs -> VoucherRow], opened' \in [Docs -> SUBSET VoucherRow],
           \A d \in Docs : RowOk(voucher'[d]) /\ \A c \in opened'[d] : RowOk(c),
           given' \in [Scopes -> SUBSET (Nat \ {0})],
           \A s \in Scopes : given[s] \subseteq given'[s],
           NumbersGiven'
    PROVE  IInv'
<1> USE DEF IInv
<1>1. Tables'
  BY DEF Tables
<1>2. NoneSkipped'
  BY DEF NoneSkipped
<1>3. FormsCovered'
  BY CoveredStays DEF FormsCovered
<1> QED
  BY <1>1, <1>2, <1>3

LEMMA WorkingStep ==
    ASSUME IInv, NEW d \in Docs, Working(d)
    PROVE  IInv'
<1> USE DEF IInv
<1>1. CASE OpenVoucher(d)
  <2>1. /\ opened' = [opened EXCEPT ![d] = @ \cup {voucher[d]}]
        /\ UNCHANGED <<setup, series, voucher, form, given>>
    BY <1>1 DEF OpenVoucher
  <2>2. opened' \in [Docs -> SUBSET VoucherRow]
    BY <2>1 DEF Tables
  <2>3. \A e \in Docs : \A c \in opened'[e] : c \in opened[e] \/ c = voucher[e]
    BY <2>1 DEF Tables
  <2>4. NumbersGiven'
    BY <2>1, <2>3 DEF NumbersGiven
  <2> QED
    BY <2>1, <2>2, <2>3, <2>4, RowsStep DEF Tables
<1>2. ASSUME NEW c \in opened[d], CloseVoucher(d, c)
      PROVE  IInv'
  <2>1. /\ opened' = [opened EXCEPT ![d] = @ \ {c}]
        /\ UNCHANGED <<setup, series, voucher, form, given>>
    BY <1>2 DEF CloseVoucher
  <2>2. opened' \in [Docs -> SUBSET VoucherRow]
    BY <2>1 DEF Tables
  <2>3. \A e \in Docs : \A x \in opened'[e] : x \in opened[e]
    BY <2>1 DEF Tables
  <2>4. NumbersGiven'
    BY <2>1, <2>3 DEF NumbersGiven
  <2> QED
    BY <2>1, <2>2, <2>3, <2>4, RowsStep DEF Tables
<1>3. ASSUME NEW c \in Copies(d), SaveEdit(d, c)
      PROVE  IInv'
  <2>1. Saved(d, c) /\ UNCHANGED <<setup, series, opened, form>>
    BY <1>3 DEF SaveEdit
  <2>2. c \in VoucherRow /\ RowOk(c)
    BY <1>3, CopiesAreRows
  <2> QED
    BY <2>1, <2>2, SavingARow, RowsStep DEF Tables
<1>4. ASSUME NEW c \in Copies(d), DeleteVoucher(d, c)
      PROVE  IInv'
  <2>1. /\ voucher' = [voucher EXCEPT ![d] = Gone]
        /\ UNCHANGED <<setup, series, opened, form, given>>
    BY <1>4 DEF DeleteVoucher
  <2>2. Gone \in VoucherRow /\ RowOk(Gone) /\ Gone.number = {}
    BY DEF Gone, VoucherRow, RowOk, Lone
  <2>3. /\ voucher' \in [Docs -> VoucherRow]
        /\ \A e \in Docs : voucher'[e] = voucher[e] \/ voucher'[e] = Gone
    BY <2>1, <2>2 DEF Tables
  <2>4. NumbersGiven'
    BY <2>1, <2>2, <2>3 DEF NumbersGiven
  <2> QED
    BY <2>1, <2>2, <2>3, <2>4, RowsStep DEF Tables
<1>5. ASSUME NEW c \in Copies(d), ConfirmReceipt(d, c)
      PROVE  IInv'
  <2> DEFINE row == [c EXCEPT !.status =
                        IF c.status = "draft" THEN "confirmed" ELSE voucher[d].status]
  <2>1. c \in VoucherRow /\ Lone(c.number)
    BY <1>5, CopiesAreRows DEF RowOk
  <2>2. row \in VoucherRow /\ Lone(row.number)
    BY <2>1 DEF VoucherRow, Tables
  <2> HIDE DEF row
  <2>3. NumberedOnce(d, row) /\ UNCHANGED <<setup, opened, form>>
    BY <1>5 DEF ConfirmReceipt, row
  <2> QED
    BY <2>2, <2>3, ConfirmStep
<1>6. CASE ConfirmVoucher(d)
  <2> DEFINE row == [voucher[d] EXCEPT !.status = "confirmed"]
  <2>1. row \in VoucherRow /\ Lone(row.number)
    BY DEF VoucherRow, Tables, RowOk
  <2> HIDE DEF row
  <2>2. NumberedOnce(d, row) /\ UNCHANGED <<setup, opened, form>>
    BY <1>6 DEF ConfirmVoucher, row
  <2> QED
    BY <2>1, <2>2, ConfirmStep
<1>7. ASSUME NEW status \in Moves[voucher[d].status], MoveVoucher(d, status)
      PROVE  IInv'
  <2>1. /\ voucher' = [voucher EXCEPT ![d].status = status]
        /\ UNCHANGED <<setup, series, opened, form, given>>
    BY <1>7 DEF MoveVoucher
  <2>2. voucher[d] \in VoucherRow /\ RowOk(voucher[d])
    BY DEF Tables
  <2> DEFINE row == [voucher[d] EXCEPT !.status = status]
  <2>3. row \in VoucherRow /\ RowOk(row) /\ row.number = voucher[d].number
    BY <1>7, <2>2 DEF VoucherRow, RowOk, Moves
  <2> HIDE DEF row
  <2>4. voucher' = [voucher EXCEPT ![d] = row]
    BY <2>1 DEF row
  <2>5. /\ voucher' \in [Docs -> VoucherRow]
        /\ \A e \in Docs : RowOk(voucher'[e]) /\ voucher'[e].number = voucher[e].number
    BY <2>3, <2>4 DEF Tables
  <2>6. NumbersGiven'
    BY <2>1, <2>5 DEF NumbersGiven
  <2> QED
    BY <2>1, <2>5, <2>6, RowsStep DEF Tables
<1> QED
  BY <1>1, <1>2, <1>3, <1>4, <1>5, <1>6, <1>7 DEF Working

LEMMA SettingStep ==
    ASSUME IInv, NEW s \in Scopes, Setting(s)
    PROVE  IInv'
<1> USE DEF IInv
<1>1. CASE OpenForm(s)
  <2> DEFINE shown == IF series[s] = {} THEN {START} ELSE {ser.current : ser \in series[s]}
  <2>1. /\ form' = [form EXCEPT ![s] = shown]
        /\ UNCHANGED <<setup, series, voucher, opened, given>>
    BY <1>1 DEF OpenForm
  <2>2. shown \in SUBSET (Nat \ {0}) /\ Lone(shown)
    BY DEF Tables, Counters, START, Lone
  <2>3. setup.typed = {} => \A n \in shown : Covered(s, n)
    BY DEF NoneSkipped, Covered, START
  <2> HIDE DEF shown
  <2>4. Tables'
    BY <2>1, <2>2 DEF Tables
  <2>5. FormsCovered'
    BY <2>1, <2>3 DEF FormsCovered, Tables, Covered
  <2> QED
    BY <2>1, <2>4, <2>5 DEF NumbersGiven, NoneSkipped
<1>2. ASSUME NEW n \in form[s] \cup setup.typed, NEW today \in Periods,
             SaveForm(s, n, today)
      PROVE  IInv'
  <2> DEFINE last == IF series[s] = {} THEN {today} \cap Resets
                     ELSE UNION {ser.reset : ser \in series[s]}
             saved == [current |-> n, reset |-> last]
  <2>1. /\ series' = [series EXCEPT ![s] = {saved}]
        /\ form' = [form EXCEPT ![s] = {}]
        /\ UNCHANGED <<setup, voucher, opened, given>>
    BY <1>2 DEF SaveForm
  <2>2. last \in SUBSET Periods
    BY DEF Tables, Counters
  <2>3. n \in Nat \ {0}
    <3>1. setup \in Setup
      BY NumberingAssumption DEF Tables
    <3> QED
      BY <1>2, <3>1 DEF Setup, Tables
  <2> HIDE DEF last
  <2>4. saved \in Counters /\ saved.current = n
    BY <2>2, <2>3 DEF Counters
  <2>5. setup.typed = {} => Covered(s, n)
    BY <1>2 DEF FormsCovered
  <2> HIDE DEF saved
  <2>6. Tables'
    BY <2>1, <2>4 DEF Tables, Lone
  <2>7. NoneSkipped'
    BY <2>1, <2>4, <2>5 DEF NoneSkipped, Tables, Covered
  <2>8. FormsCovered'
    BY <2>1 DEF FormsCovered, Tables, Covered
  <2> QED
    BY <2>1, <2>6, <2>7, <2>8 DEF NumbersGiven
<1> QED
  BY <1>1, <1>2 DEF Setting

LEMMA StepPreserves == IInv /\ [Next]_vars => IInv'
<1> SUFFICES ASSUME IInv, [Next]_vars PROVE IInv'
  OBVIOUS
<1>1. CASE UNCHANGED vars
  BY <1>1 DEF vars, IInv, Tables, NumbersGiven, NoneSkipped, FormsCovered, Covered
<1> QED
  BY <1>1, WorkingStep, SettingStep DEF Next

LEMMA Invariance == Spec => []IInv
BY InitEstablishes, StepPreserves, PTL DEF Spec
----------------------------------------------------------------------------
(* Series, vouchers, the copies under way and open screens keep their      *)
(* types: a scope has one series and a voucher one number at most, and one *)
(* as soon as it is confirmed, whatever is edited, deleted, confirmed from *)
(* an old copy or typed on a screen.                                       *)
THEOREM TypeCorrect == Spec => []TypeOK
<1>1. ASSUME IInv PROVE TypeOK
  <2>1. \A s \in Scopes :
           /\ Cardinality(series[s]) <= 1
           /\ \A ser \in series[s] : ser.current \in Nat \ {0} /\ ser.reset \subseteq Periods
    BY <1>1, LoneHasOne DEF IInv, Tables, Counters
  <2>2. \A d \in Docs : \A c \in {voucher[d]} \cup opened[d] : c \in VoucherRow /\ RowOk(c)
    BY <1>1 DEF IInv, Tables
  <2>3. \A d \in Docs : \A c \in {voucher[d]} \cup opened[d] : Cardinality(c.number) <= 1
    BY <2>2, LoneHasOne DEF RowOk
  <2>4. given \in [Scopes -> SUBSET Nat] /\ form \in [Scopes -> SUBSET Nat]
    BY <1>1 DEF IInv, Tables
  <2>5. voucher \in [Docs -> VoucherRow] /\ setup \in Setups
    BY <1>1 DEF IInv, Tables
  <2> QED
    BY <2>1, <2>2, <2>3, <2>4, <2>5 DEF TypeOK, RowOk
<1> QED
  BY <1>1, Invariance, PTL

(* Series skip no number, of whatever kind the vouchers are: each one that *)
(* allocate_final has passed was given to a voucher in reach, also after a *)
(* settings screen has written an old counter back, a period has restarted *)
(* the series, or an edit has taken a number off a voucher or put one back *)
(* on it.                                                                  *)
THEOREM NoneEverSkipped == Spec => []NoneSkipped
<1>1. IInv => NoneSkipped
  BY DEF IInv
<1> QED
  BY <1>1, Invariance, PTL

(* A voucher keeps the number it has, unless a request that read it before *)
(* somebody else moved it on writes its copy back, or deletes it on having *)
(* found a draft: nothing else takes or exchanges a number.                *)
THEOREM NumbersKept == Spec => NumberIsKept
<1>1. IInv /\ [Next]_vars =>
          [\A d \in Docs :
              voucher[d].number # {} /\ voucher'[d].number # voucher[d].number
                  => Overtaken(d) \/ Deleted(d)]_voucher
  <2> SUFFICES ASSUME IInv, [Next]_vars, NEW e \in Docs,
                      voucher[e].number # {}, voucher'[e].number # voucher[e].number
               PROVE  Overtaken(e) \/ Deleted(e)
    OBVIOUS
  <2> USE DEF IInv
  <2>1. PICK d \in Docs : Working(d)
    <3>1. ~ UNCHANGED vars
      BY DEF vars
    <3>2. \A s \in Scopes : ~ Setting(s)
      BY DEF Setting, OpenForm, SaveForm
    <3> QED
      BY <3>1, <3>2 DEF Next
  <2>2. ASSUME NEW row, Saved(d, row)
        PROVE  d = e /\ voucher'[e] = row
    BY <2>2 DEF Saved, Tables
  <2>3. ASSUME NEW row \in VoucherRow, Numbered(d, row)
        PROVE  d = e
    <3>1. PICK n \in Nat \ {0}, ser \in Counters : Draws(d, row, n, ser)
      BY <2>3, NumberDraws
    <3> QED
      BY <2>2, <3>1 DEF Draws
  <2>4. ASSUME NEW c \in Copies(d), SaveEdit(d, c)
        PROVE  Overtaken(e)
    <3>1. d = e /\ voucher'[e] = c
      BY <2>2, <2>4 DEF SaveEdit
    <3> QED
      BY <2>4, <3>1 DEF Overtaken, Copies
  <2>5. ASSUME NEW c \in Copies(d), DeleteVoucher(d, c)
        PROVE  Deleted(e)
    <3>1. d = e /\ voucher'[e] = Gone
      BY <2>5 DEF DeleteVoucher, Tables
    <3> QED
      BY <2>5, <3>1 DEF DeleteVoucher, Deleted, Gone
  <2>6. ASSUME NEW c \in Copies(d), ConfirmReceipt(d, c)
        PROVE  Overtaken(e)
    <3> DEFINE row == [c EXCEPT !.status =
                          IF c.status = "draft" THEN "confirmed" ELSE voucher[d].status]
    <3>1. c \in VoucherRow
      BY <2>6, CopiesAreRows
    <3>2. row \in VoucherRow /\ row.number = c.number
      BY <3>1 DEF VoucherRow, Tables
    <3> HIDE DEF row
    <3>3. NumberedOnce(d, row) /\ ~LocksVoucher
      BY <2>6 DEF ConfirmReceipt, row
    <3>4. CASE row.number = {} /\ Numbered(d, row)
      <4>1. d = e
        BY <2>3, <3>2, <3>4
      <4>2. c \in opened[e] \ {voucher[e]}
        BY <2>6, <3>2, <3>4, <4>1 DEF Copies
      <4> QED
        BY <3>2, <3>3, <3>4, <4>2 DEF Overtaken
    <3>5. CASE row.number # {} /\ Saved(d, row)
      <4>1. d = e /\ voucher'[e].number = c.number
        BY <2>2, <3>2, <3>5
      <4> QED
        BY <2>6, <4>1 DEF Overtaken, Copies
    <3> QED
      BY <3>3, <3>4, <3>5 DEF NumberedOnce
  <2>7. ~ ConfirmVoucher(d)
    <3> SUFFICES ASSUME ConfirmVoucher(d) PROVE FALSE
      OBVIOUS
    <3> DEFINE row == [voucher[d] EXCEPT !.status = "confirmed"]
    <3>1. row \in VoucherRow /\ row.number = voucher[d].number
      BY DEF VoucherRow, Tables
    <3> HIDE DEF row
    <3>2. NumberedOnce(d, row)
      BY DEF ConfirmVoucher, row
    <3> QED
      BY <2>2, <2>3, <3>1, <3>2 DEF NumberedOnce
  <2>8. ASSUME NEW status, MoveVoucher(d, status)
        PROVE  FALSE
    BY <2>8 DEF MoveVoucher, Tables, VoucherRow
  <2>9. ~ OpenVoucher(d) /\ \A c \in opened[d] : ~ CloseVoucher(d, c)
    BY DEF OpenVoucher, CloseVoucher
  <2> QED
    BY <2>1, <2>4, <2>5, <2>6, <2>7, <2>8, <2>9 DEF Working
<1> QED
  BY <1>1, Invariance, PTL DEF Spec, NumberIsKept
----------------------------------------------------------------------------
(* The entity's own scope has a series; and where nobody sets a series     *)
(* back, it is the only one, and ahead of every number ever given.         *)
Rooted == series[Root] # {}

Ahead ==
    ~(setup.restarts \/ setup.edited) =>
        /\ \A s \in Scopes : s # Root => series[s] = {}
        /\ \A s \in Scopes : form[s] = {}
        /\ \A ser \in series[Root] : \A s \in Scopes : \A n \in given[s] : n < ser.current

Open == IInv /\ Rooted /\ Ahead

LEMMA InitOpen == Init => Open
<1> SUFFICES ASSUME Init PROVE Open
  OBVIOUS
<1>1. PICK last \in {{}} \cup {{p} : p \in Resets} :
          series = [s \in Scopes |->
                       IF s = Root THEN {[current |-> START, reset |-> last]} ELSE {}]
  BY DEF Init
<1>2. Rooted
  BY <1>1, NumberingAssumption DEF Rooted
<1>3. Ahead
  BY <1>1 DEF Init, Ahead
<1> QED
  BY <1>2, <1>3, InitEstablishes DEF Open

(* A row that is written has a number that was given before, or the next.  *)
LEMMA ConfirmStaysOpen ==
    ASSUME Open, NEW d \in Docs, NEW row \in VoucherRow,
           row.number \subseteq given[ScopeOf[d]],
           NumberedOnce(d, row), UNCHANGED <<setup, opened, form>>
    PROVE  Rooted' /\ Ahead'
<1> USE DEF Open, IInv
<1> DEFINE t == SeriesFor(ScopeOf[d])
<1>1. t \in Scopes /\ t \in {ScopeOf[d], Root} /\ ScopeOf[d] \in Scopes
  BY SeriesInReach
<1>2. CASE row.number # {} /\ Saved(d, row) /\ UNCHANGED series
  <2>1. given' = given
    BY <1>1, <1>2 DEF Saved, Tables
  <2> QED
    BY <1>2, <2>1 DEF Rooted, Ahead
<1>3. CASE Numbered(d, row)
  <2>1. PICK n \in Nat \ {0}, ser \in Counters : Draws(d, row, n, ser)
    BY <1>3, NumberDraws
  <2> USE DEF Draws
  <2>2. Rooted'
    BY <1>1, <2>1 DEF Rooted, Tables
  <2>3. ASSUME ~(setup.restarts \/ setup.edited)
        PROVE  Ahead'
    <3>1. t = Root /\ ser \in series[Root]
      BY <1>1, <2>1, <2>3, NumberingAssumption DEF Ahead, SeriesFor
    <3>2. given' = [given EXCEPT ![ScopeOf[d]] = @ \cup {n}]
      BY <2>1 DEF Saved, VoucherRow
    <3>3. series'[Root] = {Drawn(ser, n)} /\ \A s \in Scopes : s # Root => series'[s] = {}
      BY <1>1, <2>1, <2>3, <3>1 DEF Tables, Ahead
    <3>4. Drawn(ser, n).current = n + 1
      BY DEF Drawn, Counters
    <3>5. \A s \in Scopes : \A k \in given[s] : k \in Nat /\ k < n
      BY <2>1, <2>3, <3>1 DEF Ahead, Tables, Counters
    <3>6. \A s \in Scopes : \A k \in given'[s] : k < n + 1
      BY <1>1, <3>2, <3>5 DEF Tables
    <3> QED
      BY <2>3, <3>3, <3>4, <3>6 DEF Ahead
  <2> QED
    BY <2>2, <2>3 DEF Ahead
<1> QED
  BY <1>2, <1>3 DEF NumberedOnce

LEMMA WorkingStaysOpen ==
    ASSUME Open, NEW d \in Docs, Working(d)
    PROVE  Rooted' /\ Ahead'
<1> USE DEF Open, IInv
<1>1. ASSUME UNCHANGED <<setup, series, form, given>>
      PROVE  Rooted' /\ Ahead'
  BY <1>1 DEF Rooted, Ahead
<1>2. ASSUME NEW c \in Copies(d)
      PROVE  c \in VoucherRow /\ c.number \subseteq given[ScopeOf[d]]
  BY <1>2, CopiesAreRows DEF Copies, NumbersGiven
<1>3. ASSUME NEW c \in Copies(d), SaveEdit(d, c)
      PROVE  Rooted' /\ Ahead'
  <2>1. given' = given
    BY <1>2, <1>3, SeriesInReach DEF SaveEdit, Saved, Tables
  <2> QED
    BY <1>1, <1>3, <2>1 DEF SaveEdit
<1>4. ASSUME NEW c \in Copies(d), ConfirmReceipt(d, c)
      PROVE  Rooted' /\ Ahead'
  <2> DEFINE row == [c EXCEPT !.status =
                        IF c.status = "draft" THEN "confirmed" ELSE voucher[d].status]
  <2>1. row \in VoucherRow /\ row.number \subseteq given[ScopeOf[d]]
    BY <1>2, <1>4 DEF VoucherRow, Tables
  <2> HIDE DEF row
  <2>2. NumberedOnce(d, row) /\ UNCHANGED <<setup, opened, form>>
    BY <1>4 DEF ConfirmReceipt, row
  <2> QED
    BY <2>1, <2>2, ConfirmStaysOpen
<1>5. CASE ConfirmVoucher(d)
  <2> DEFINE row == [voucher[d] EXCEPT !.status = "confirmed"]
  <2>1. row \in VoucherRow /\ row.number \subseteq given[ScopeOf[d]]
    BY DEF VoucherRow, Tables, NumbersGiven
  <2> HIDE DEF row
  <2>2. NumberedOnce(d, row) /\ UNCHANGED <<setup, opened, form>>
    BY <1>5 DEF ConfirmVoucher, row
  <2> QED
    BY <2>1, <2>2, ConfirmStaysOpen
<1> QED
  BY <1>1, <1>3, <1>4, <1>5
     DEF Working, OpenVoucher, CloseVoucher, DeleteVoucher, MoveVoucher

LEMMA StaysOpen == Open /\ [Next]_vars => Open'
<1> SUFFICES ASSUME Open, [Next]_vars PROVE Open'
  OBVIOUS
<1>1. IInv'
  BY StepPreserves DEF Open
<1>2. ASSUME NEW s \in Scopes, OpenForm(s)
      PROVE  Rooted' /\ Ahead'
  BY <1>2 DEF OpenForm, Open, Rooted, Ahead
<1>3. ASSUME NEW s \in Scopes, NEW n, NEW today, SaveForm(s, n, today)
      PROVE  Rooted' /\ Ahead'
  <2>1. form[s] # {} /\ setup' = setup /\ \E x : series' = [series EXCEPT ![s] = {x}]
    BY <1>3 DEF SaveForm
  <2>2. Rooted'
    <3>1. PICK x : series' = [series EXCEPT ![s] = {x}]
      BY <2>1
    <3> QED
      BY <3>1, NumberingAssumption DEF Open, IInv, Tables, Rooted
  <2> QED
    BY <1>3, <2>1, <2>2 DEF Open, Ahead
<1>4. CASE UNCHANGED vars
  BY <1>1, <1>4 DEF vars, Open, Rooted, Ahead
<1> QED
  BY <1>1, <1>2, <1>3, <1>4, WorkingStaysOpen DEF Next, Setting, Open

(* Where series do not restart and nobody sets them, the next number is    *)
(* free for every voucher, with however many tries: an edit can put a      *)
(* number back on a voucher, but the series has passed every one of them.  *)
THEOREM NumbersRemain == Spec => []NextIsFree
<1>1. ASSUME Open
      PROVE  NextIsFree
  <2> USE <1>1 DEF Open, IInv
  <2> SUFFICES ASSUME ~(setup.restarts \/ setup.edited), NEW d \in Docs
               PROVE  \E ser \in series[SeriesFor(ScopeOf[d])] : Free(d, ser.current)
    BY DEF NextIsFree
  <2>1. SeriesFor(ScopeOf[d]) = Root /\ series[Root] # {}
    BY SeriesInReach DEF Ahead, SeriesFor, Rooted
  <2>2. PICK ser \in series[Root] : ser \in Counters
    BY <2>1, NumberingAssumption DEF Tables
  <2>3. ASSUME NEW e \in Docs
        PROVE  ser.current \notin voucher[e].number
    <3>1. ScopeOf[e] \in Scopes /\ voucher[e].number \subseteq given[ScopeOf[e]]
      BY SeriesInReach DEF NumbersGiven
    <3> QED
      BY <2>2, <3>1 DEF Ahead, Tables, Counters
  <2> QED
    BY <2>1, <2>3 DEF Free
<1>2. Spec => []Open
  BY InitOpen, StaysOpen, PTL DEF Spec
<1> QED
  BY <1>1, <1>2, PTL
=============================================================================
