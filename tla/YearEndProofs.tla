--------------------------- MODULE YearEndProofs ---------------------------
(* Proofs about YearEnd, for any years, scopes, documents and requests.    *)
EXTENDS YearEnd, TLAPS

(* An opening was carried from the year before: a year that comes between  *)
(* would hide it from the rollback of the close, which looks at the first  *)
(* year that follows.                                                      *)
Adjacent ==
    \A z \in Years : \A h \in opening[z] : z \in Destination(h.source)

IInv == TypeOK /\ Adjacent /\ SourceStaysClosed

LEMMA InitIInv == Init => IInv
BY YearEndAssumption DEF Init, IInv, TypeOK, RowsOK, StampsOK, BooksOK, Adjacent, SourceStaysClosed

Journals == [type : Types, year : Years, scope : Scopes, of : SUBSET Docs]

CallsOn(ys) == [op : {"post", "close", "generate"}, year : ys, scope : Scopes,
                of : SUBSET Docs, created : BOOLEAN]

LEMMA JournalTyped ==
    ASSUME TypeOK, NEW type \in Types, NEW y \in Years, NEW s \in Scopes, NEW of \in SUBSET Docs
    PROVE  WithJournal(type, y, s, of) \subseteq Journals
<1>1. Journal(type, y, s, of) \in Journals
  BY DEF Journal, Journals
<1> QED
  BY <1>1 DEF TypeOK, BooksOK, WithJournal, Purged, Journals

LEMMA CallTyped ==
    ASSUME TypeOK, NEW op \in {"post", "close", "generate"}, NEW y \in years,
           NEW s \in Scopes, NEW of \in SUBSET Docs, NEW created \in BOOLEAN,
           Begin(Call(op, y, s, of, created))
    PROVE  calls' \subseteq CallsOn(years)
<1>1. Call(op, y, s, of, created) \in CallsOn(years)
  BY DEF Call, CallsOn
<1> QED
  BY <1>1 DEF TypeOK, BooksOK, Begin, CallsOn

LEMMA StampsTyped ==
    ASSUME closing' \in [Years -> SUBSET Closings], opening' \in [Years -> SUBSET Openings],
           lifecycle' \in [Years -> [Scopes -> {"preview", "ready_for_review", "approved"}]],
           \A y \in Years : y \in closed' <=> closing'[y] # {},
           \A y \in Years : y \notin years' => opening'[y] = {},
           \A y \in Years : \A g, h \in opening'[y] : g = h
    PROVE  StampsOK'
<1>1. closing' \in [Years -> SUBSET Closings']
  BY DEF Closings
<1>2. opening' \in [Years -> SUBSET Openings']
  BY DEF Openings
<1> QED
  BY <1>1, <1>2 DEF StampsOK

LEMMA TypeInductive == TypeOK /\ [Next]_vars => TypeOK'
<1> SUFFICES ASSUME TypeOK, [Next]_vars PROVE TypeOK'
  OBVIOUS
<1> USE YearEndAssumption DEF TypeOK, RowsOK, StampsOK, BooksOK
<1>1. ASSUME NEW d \in Docs, BeginPost(d) PROVE TypeOK'
  <2>0. YearOf[d] \in years /\ ScopeOf[d] \in Scopes /\ {d} \in SUBSET Docs
    BY <1>1 DEF BeginPost
  <2>1. calls' \subseteq CallsOn(years)
    BY <1>1, <2>0, CallTyped DEF BeginPost
  <2> QED
    BY <1>1, <2>1 DEF BeginPost, CallsOn, stamps
<1>2. ASSUME NEW c \in calls, FinishPost(c) PROVE TypeOK'
  BY <1>2 DEF FinishPost, stamps
<1>3. ASSUME NEW c \in calls, Fail(c) PROVE TypeOK'
  BY <1>3 DEF Fail, stamps
<1>4. ASSUME NEW c \in calls, FinishClose(c) PROVE TypeOK'
  <2>1. c.year \in years /\ c.year \in Years /\ [scope |-> c.scope, of |-> c.of] \in Closings
    BY DEF Closings
  <2>2. ledger' \subseteq Journals
    BY <1>4, <2>1, JournalTyped, ZenonT(60) DEF FinishClose, Types
  <2>3. \A x \in Years : x \in closed' <=> closing'[x] # {}
    BY <1>4, <2>1 DEF FinishClose
  <2>4. closing' \in [Years -> SUBSET Closings]
    BY <1>4, <2>1 DEF FinishClose
  <2>5. /\ UNCHANGED <<years, active, opening, lifecycle, rolledBack, posted>>
        /\ closed' = closed \cup {c.year} /\ calls' \subseteq calls
    BY <1>4 DEF FinishClose
  <2> QED
    BY <2>1, <2>2, <2>3, <2>4, <2>5, ZenonT(60) DEF Journals
<1>5. ASSUME NEW c \in calls, FinishGenerate(c) PROVE TypeOK'
  <2>1. PICK z \in Opened(c.year) :
          /\ MayOpen(z)
          /\ ledger' = WithJournal("opening_balance", z, c.scope, c.of)
          /\ opening' = [opening EXCEPT ![z] =
                 {[source |-> c.year, scope |-> c.scope, of |-> c.of, locked |-> FALSE,
                   created |-> c.created, before |-> active]}]
          /\ years' = years \cup {z}
          /\ active' = {z}
    BY <1>5 DEF FinishGenerate
  <2>2. z \in Years
    BY <2>1 DEF Opened, Destination, Later
  <2>3. [source |-> c.year, scope |-> c.scope, of |-> c.of, locked |-> FALSE,
         created |-> c.created, before |-> active] \in Openings
    BY DEF Openings
  <2>4. ledger' \subseteq Journals
    BY <2>1, <2>2, JournalTyped DEF Types
  <2>5. /\ opening' \in [Years -> SUBSET Openings]
        /\ \A x \in Years : x \notin years' => opening'[x] = {}
        /\ \A x \in Years : \A g, h \in opening'[x] : g = h
    <3>1. \A x \in Years : x # z => opening'[x] = opening[x]
      BY <2>1
    <3>2. opening'[z] = {[source |-> c.year, scope |-> c.scope, of |-> c.of, locked |-> FALSE,
                          created |-> c.created, before |-> active]}
      BY <2>1, <2>2
    <3>3. opening' \in [Years -> SUBSET Openings]
      BY <2>1, <2>2, <2>3
    <3>4. ASSUME NEW x \in Years PROVE x \notin years' => opening'[x] = {}
      BY <3>1, <2>1
    <3>5. ASSUME NEW x \in Years PROVE \A g, h \in opening'[x] : g = h
      <4>1. \A g, h \in opening[x] : g = h
        OBVIOUS
      <4>2. CASE x = z
        BY <3>2, <4>1, <4>2
      <4>3. CASE x # z
        BY <3>1, <4>1, <4>3
      <4> QED
        BY <4>2, <4>3
    <3> QED
      BY <3>3, <3>4, <3>5
  <2>6. UNCHANGED <<closed, closing, lifecycle, rolledBack, posted>> /\ calls' \subseteq calls
    BY <1>5 DEF FinishGenerate
  <2>7. years \subseteq years' /\ years' \subseteq Years /\ active' \subseteq years'
    BY <2>1, <2>2
  <2>8. calls' \subseteq CallsOn(years')
    <3>1. SUFFICES ASSUME NEW k \in calls' PROVE k \in CallsOn(years')
      OBVIOUS
    <3>2. k \in CallsOn(years)
      BY <2>6 DEF CallsOn
    <3> QED
      BY <3>2, <2>7 DEF CallsOn
  <2>9. RowsOK'
    BY <2>6, <2>7
  <2>10. StampsOK'
    <3>1. /\ closing' \in [Years -> SUBSET Closings]
          /\ lifecycle' \in [Years -> [Scopes -> {"preview", "ready_for_review", "approved"}]]
          /\ \A x \in Years : x \in closed' <=> closing'[x] # {}
      BY <2>6
    <3> HIDE DEF StampsOK
    <3> QED
      BY <2>5, <3>1, StampsTyped
  <2>11. BooksOK'
    BY <2>4, <2>8 DEF Journals, CallsOn
  <2> QED
    BY <2>9, <2>10, <2>11
<1>6. ASSUME NEW y \in Years, CreateYear(y) PROVE TypeOK'
  BY <1>6 DEF CreateYear, stamps
<1>7. ASSUME NEW y \in Years, LockOpening(y) PROVE TypeOK'
  <2>1. PICK z \in Destination(y) :
          opening' = [opening EXCEPT ![z] = {[h EXCEPT !.locked = TRUE] : h \in opening[z]}]
    BY <1>7 DEF LockOpening
  <2>2. z \in years /\ z \in Years
    BY DEF Destination, Later
  <2>3. ASSUME NEW h \in opening[z] PROVE [h EXCEPT !.locked = TRUE] \in Openings
    <3>1. h \in Openings
      BY <2>2
    <3> QED
      BY <3>1 DEF Openings
  <2>4. {[h EXCEPT !.locked = TRUE] : h \in opening[z]} \in SUBSET Openings
    BY <2>3
  <2>5. opening' \in [Years -> SUBSET Openings]
    BY <2>1, <2>4
  <2>6. /\ \A x \in Years : x \notin years' => opening'[x] = {}
        /\ \A x \in Years : \A g, h \in opening'[x] : g = h
    <3>1. \A x \in Years : x # z => opening'[x] = opening[x]
      BY <2>1
    <3>2. opening'[z] = {[h EXCEPT !.locked = TRUE] : h \in opening[z]} /\ years' = years
      BY <1>7, <2>1, <2>2 DEF LockOpening
    <3>4. ASSUME NEW x \in Years PROVE x \notin years' => opening'[x] = {}
      BY <3>1, <3>2, <2>2
    <3>5. ASSUME NEW x \in Years PROVE \A g, h \in opening'[x] : g = h
      <4>1. \A g, h \in opening[x] : g = h
        OBVIOUS
      <4>2. CASE x = z
        <5>1. SUFFICES ASSUME NEW g \in opening'[z], NEW h \in opening'[z] PROVE g = h
          BY <4>2
        <5>2. PICK k \in opening[z] : g = [k EXCEPT !.locked = TRUE]
          BY <3>2
        <5>3. PICK l \in opening[z] : h = [l EXCEPT !.locked = TRUE]
          BY <3>2
        <5>4. k = l
          BY <4>1, <4>2, <5>2, <5>3
        <5> QED
          BY <5>2, <5>3, <5>4
      <4>3. CASE x # z
        BY <3>1, <4>1, <4>3
      <4> QED
        BY <4>2, <4>3
    <3> QED
      BY <3>4, <3>5
  <2>7. UNCHANGED <<years, active, closed, closing, lifecycle, rolledBack, posted, ledger, calls>>
    BY <1>7 DEF LockOpening
  <2>8. StampsOK'
    <3>1. /\ closing' \in [Years -> SUBSET Closings]
          /\ lifecycle' \in [Years -> [Scopes -> {"preview", "ready_for_review", "approved"}]]
          /\ \A x \in Years : x \in closed' <=> closing'[x] # {}
      BY <2>7
    <3> HIDE DEF StampsOK
    <3> QED
      BY <2>5, <2>6, <3>1, StampsTyped
  <2>9. RowsOK' /\ BooksOK'
    BY <2>7
  <2> QED
    BY <2>8, <2>9
<1>8. ASSUME NEW y \in Years, NEW s \in Scopes, BeginClose(y, s) PROVE TypeOK'
  <2>1. calls' \subseteq CallsOn(years)
    BY <1>8, CallTyped DEF BeginClose, Income
  <2> QED
    BY <1>8, <2>1 DEF BeginClose, CallsOn, stamps
<1>9. ASSUME NEW y \in Years, NEW s \in Scopes, RollbackClose(y, s) PROVE TypeOK'
  BY <1>9 DEF RollbackClose, Purged
<1>10. ASSUME NEW y \in Years, NEW s \in Scopes, BeginGenerate(y, s) PROVE TypeOK'
  <2>1. Balances(y, s) \subseteq Docs
    BY DEF Balances, Income
  <2>2. calls' \subseteq CallsOn(years)
    BY <1>10, <2>1, CallTyped DEF BeginGenerate
  <2> QED
    BY <1>10, <2>2 DEF BeginGenerate, CallsOn, stamps
<1>11. ASSUME NEW y \in Years, NEW s \in Scopes, RollbackOpening(y, s) PROVE TypeOK'
  <2>0. PICK z \in Destination(y) : \E h \in opening[z] : Undo(z, h, s)
    BY <1>11 DEF RollbackOpening
  <2>1. PICK h \in opening[z] : Undo(z, h, s)
    BY <2>0
  <2> DEFINE gone == Gone(z, h, ledger')
  <2>2. z \in years /\ gone \subseteq {z} /\ gone \cap closed = {} /\ gone \cap rolledBack = {}
    BY DEF Destination, Later, Unused, Gone
  <2>3. ledger' \subseteq ledger
    BY <2>1 DEF Undo, Purged
  <2> HIDE DEF gone
  <2>4. years' = years \ gone /\ active' = (h.before \cap years) \ gone
        /\ calls' = {c \in calls : c.year \notin gone}
    BY <2>1 DEF Undo, gone
  <2> QED
    BY <2>1, <2>2, <2>3, <2>4 DEF Undo
<1>12. ASSUME NEW y \in Years, NEW s \in Scopes,
              NEW to \in {"ready_for_review", "approved"}, MarkOpeningLifecycle(y, s, to)
       PROVE TypeOK'
  BY <1>12 DEF MarkOpeningLifecycle
<1>13. CASE UNCHANGED vars
  BY <1>13 DEF vars, stamps
<1> HIDE DEF TypeOK, RowsOK, StampsOK, BooksOK
<1> QED
  BY <1>1, <1>2, <1>3, <1>4, <1>5, <1>6, <1>7, <1>8, <1>9, <1>10, <1>11, <1>12, <1>13 DEF Next

(* Every step but the six named here leaves years, closes and openings.    *)
LEMMA StepsThatMatter ==
    ASSUME TypeOK, [Next]_vars
    PROVE  \/ UNCHANGED <<closed, closing, opening, ledger, years>>
           \/ \E c \in calls : FinishClose(c) \/ FinishGenerate(c)
           \/ \E y \in Years : CreateYear(y) \/ LockOpening(y)
           \/ \E y \in Years, s \in Scopes : RollbackClose(y, s) \/ RollbackOpening(y, s)
<1>1. CASE UNCHANGED vars
  BY <1>1 DEF vars, stamps
<1>2. CASE \E d \in Docs : BeginPost(d)
  BY <1>2 DEF BeginPost, stamps
<1>3. CASE \E c \in calls : FinishPost(c) \/ Fail(c)
  BY <1>3 DEF FinishPost, Fail, stamps
<1>4. CASE \E y \in Years, s \in Scopes : BeginClose(y, s) \/ BeginGenerate(y, s)
  BY <1>4 DEF BeginClose, BeginGenerate, stamps
<1>5. CASE \E y \in Years, s \in Scopes, to \in {"ready_for_review", "approved"} :
              MarkOpeningLifecycle(y, s, to)
  BY <1>5 DEF MarkOpeningLifecycle
<1> QED
  BY <1>1, <1>2, <1>3, <1>4, <1>5 DEF Next

LEMMA SafeStep == IInv /\ [Next]_vars => Adjacent' /\ SourceStaysClosed'
<1> SUFFICES ASSUME IInv, [Next]_vars PROVE Adjacent' /\ SourceStaysClosed'
  OBVIOUS
<1>t. TypeOK /\ TypeOK'
  BY TypeInductive DEF IInv
<1>n. Years \subseteq Nat
  BY YearEndAssumption DEF YearEndAssumption
<1>s. \A z \in Years : \A h \in opening[z] :
        /\ h.source \in Years /\ z \in years /\ h.source < z
        /\ h.source \in years \cap closed
        /\ \A w \in years : h.source < w => z <= w
  BY <1>t, <1>n DEF IInv, TypeOK, StampsOK, Openings, Adjacent, SourceStaysClosed, Destination, Later
<1> DEFINE Sound(z, h) == /\ z \in Destination(h.source)'
                          /\ h.source \in years' \cap closed'
<1>1. SUFFICES ASSUME NEW z \in Years, NEW h \in opening'[z] PROVE Sound(z, h)
  BY <1>t DEF TypeOK, RowsOK, Adjacent, SourceStaysClosed
<1> USE DEF Destination, Later
<1>2. CASE UNCHANGED <<closed, closing, opening, ledger, years>>
  BY <1>2, <1>s
<1>3. ASSUME NEW c \in calls, FinishClose(c) PROVE Sound(z, h)
  BY <1>3, <1>s DEF FinishClose
<1>4. ASSUME NEW c \in calls, FinishGenerate(c) PROVE Sound(z, h)
  <2>1. PICK x \in Opened(c.year) :
          /\ MayOpen(x)
          /\ opening' = [opening EXCEPT ![x] =
                 {[source |-> c.year, scope |-> c.scope, of |-> c.of, locked |-> FALSE,
                   created |-> c.created, before |-> active]}]
          /\ years' = years \cup {x}
    BY <1>4 DEF FinishGenerate
  <2>2. c.year \in years \cap closed /\ closed' = closed /\ c.year \in Nat
    BY <1>4, <1>t, <1>n DEF FinishGenerate, TypeOK, RowsOK
  <2>3. x \in Years /\ x \in Nat /\ c.year < x /\ \A w \in years : c.year < w => x <= w
    BY <2>1, <2>2, <1>n, <1>t DEF Opened, TypeOK, RowsOK
  <2>4. CASE z = x
    BY <2>1, <2>2, <2>3, <2>4, <1>t DEF TypeOK, StampsOK
  <2>5. CASE z # x
    <3>1. h \in opening[z]
      BY <2>1, <2>5, <1>t DEF TypeOK, StampsOK
    <3>2. ~(h.source < x /\ x < z)
      <4>1. CASE x \in years
        BY <4>1, <3>1, <1>s, <2>2, <2>3, <1>n
      <4>2. CASE x \notin years
        <5>1. x = c.year + 1 /\ ~ \E w \in years : w > c.year
          BY <4>2, <2>1 DEF Opened
        <5> QED
          BY <5>1, <3>1, <1>s, <2>2, <2>3, <1>n
      <4> QED
        BY <4>1, <4>2
    <3> QED
      BY <3>1, <3>2, <1>s, <2>1, <2>2, <2>3, <1>n
  <2> QED
    BY <2>4, <2>5
<1>5. ASSUME NEW y \in Years, CreateYear(y) PROVE Sound(z, h)
  <2>1. \A w \in years : w < y
    BY <1>5, <1>n, <1>t DEF CreateYear, TypeOK, RowsOK
  <2>2. h \in opening[z] /\ years' = years \cup {y} /\ closed' = closed
    BY <1>5 DEF CreateYear, stamps
  <2> QED
    BY <2>1, <2>2, <1>s, <1>n
<1>6. ASSUME NEW y \in Years, LockOpening(y) PROVE Sound(z, h)
  <2>1. PICK x \in Destination(y) :
          opening' = [opening EXCEPT ![x] = {[g EXCEPT !.locked = TRUE] : g \in opening[x]}]
    BY <1>6 DEF LockOpening
  <2>2. PICK g \in opening[z] : g.source = h.source
    <3>1. CASE z = x
      <4>1. PICK g \in opening[z] : h = [g EXCEPT !.locked = TRUE]
        BY <3>1, <2>1, <1>t DEF TypeOK, StampsOK
      <4>2. g \in Openings
        BY <4>1, <1>t DEF TypeOK, StampsOK
      <4> QED
        BY <4>1, <4>2 DEF Openings
    <3>2. CASE z # x
      BY <3>2, <2>1, <1>t DEF TypeOK, StampsOK
    <3> QED
      BY <3>1, <3>2
  <2> QED
    BY <1>6, <2>2, <1>s DEF LockOpening
<1>7. ASSUME NEW y \in Years, NEW s \in Scopes, RollbackClose(y, s) PROVE Sound(z, h)
  <2>1. h \in opening[z] /\ years' = years /\ closed' = closed \ {y}
    BY <1>7 DEF RollbackClose
  <2>2. h.source # y
    BY <1>7, <2>1, <1>s DEF RollbackClose, CarriedForward
  <2> QED
    BY <2>1, <2>2, <1>s
<1>8. ASSUME NEW y \in Years, NEW s \in Scopes, RollbackOpening(y, s) PROVE Sound(z, h)
  <2>1. PICK x \in Destination(y) : \E g \in opening[x] : Undo(x, g, s)
    BY <1>8 DEF RollbackOpening
  <2>2. PICK g \in opening[x] : Undo(x, g, s)
    BY <2>1
  <2> DEFINE gone == Gone(x, g, ledger')
  <2>3. gone \subseteq {x} /\ gone \cap closed = {} /\ years' = years \ gone
    BY <2>2, <1>t DEF Undo, Gone, Unused, TypeOK, StampsOK
  <2> HIDE DEF gone
  <2>4. z # x /\ h \in opening[z] /\ closed' = closed
    BY <2>2, <1>t DEF Undo, TypeOK, StampsOK
  <2> QED
    BY <2>3, <2>4, <1>s
<1> HIDE DEF Sound
<1> QED
  BY <1>t, <1>2, <1>3, <1>4, <1>5, <1>6, <1>7, <1>8, StepsThatMatter

(* A journal posted or purged at one locator leaves those at the others.   *)
LEMMA OthersStay ==
    ASSUME NEW type, NEW y, NEW s, NEW of, NEW j \in ledger,
           j.type # type \/ j.year # y \/ j.scope # s
    PROVE  j \in WithJournal(type, y, s, of) /\ j \in Purged(type, y, s)
BY DEF WithJournal, Purged, At

(* A generation under way carries something, so its journal is posted.     *)
GenerationCarries == \A c \in calls : c.op = "generate" => c.of # {}

LEMMA CarriesStep == TypeOK /\ GenerationCarries /\ [Next]_vars => GenerationCarries'
<1> SUFFICES ASSUME GenerationCarries, [Next]_vars PROVE GenerationCarries'
  OBVIOUS
<1> USE DEF GenerationCarries
<1>1. CASE UNCHANGED vars
  BY <1>1 DEF vars
<1>2. CASE \E d \in Docs : BeginPost(d)
  BY <1>2 DEF BeginPost, Begin, Call
<1>3. CASE \E c \in calls : FinishPost(c) \/ Fail(c) \/ FinishClose(c) \/ FinishGenerate(c)
  BY <1>3 DEF FinishPost, Fail, FinishClose, FinishGenerate
<1>4. CASE \E y \in Years : CreateYear(y) \/ LockOpening(y)
  BY <1>4 DEF CreateYear, LockOpening
<1>5. ASSUME NEW y \in Years, NEW s \in Scopes,
             BeginClose(y, s) \/ BeginGenerate(y, s)
      PROVE GenerationCarries'
  BY <1>5 DEF BeginClose, BeginGenerate, Begin, Call
<1>6. CASE \E y \in Years, s \in Scopes : RollbackClose(y, s)
  BY <1>6 DEF RollbackClose
<1>7. CASE \E y \in Years, s \in Scopes : RollbackOpening(y, s)
  BY <1>7 DEF RollbackOpening, Undo
<1>8. CASE \E y \in Years, s \in Scopes, to \in {"ready_for_review", "approved"} :
              MarkOpeningLifecycle(y, s, to)
  BY <1>8 DEF MarkOpeningLifecycle
<1> QED
  BY <1>1, <1>2, <1>3, <1>4, <1>5, <1>6, <1>7, <1>8 DEF Next

LEMMA RecordStep ==
    TypeOK /\ GenerationCarries /\ RecordHasJournal /\ [Next]_vars => RecordHasJournal'
<1> SUFFICES ASSUME TypeOK, GenerationCarries, RecordHasJournal, [Next]_vars,
                    NEW y \in years'
             PROVE  /\ \A h \in closing'[y] : h.of # {} =>
                          Journal("year_end_close", y, h.scope, h.of) \in ledger'
                    /\ \A h \in opening'[y] :
                          Journal("opening_balance", y, h.scope, h.of) \in ledger'
  BY DEF RecordHasJournal, Journal
<1> DEFINE Closing(h) == Journal("year_end_close", y, h.scope, h.of)
           Opening(h) == Journal("opening_balance", y, h.scope, h.of)
           Kept == /\ \A h \in closing'[y] : h.of # {} => Closing(h) \in ledger'
                   /\ \A h \in opening'[y] : Opening(h) \in ledger'
<1>y. y \in Years
  BY TypeInductive DEF TypeOK, RowsOK
<1>r. /\ \A h \in closing[y] : h.of # {} => Closing(h) \in ledger
      /\ \A h \in opening[y] : Opening(h) \in ledger
  <2>1. CASE y \in years
    BY <2>1 DEF RecordHasJournal
  <2>2. CASE y \notin years
    BY <2>2, <1>y DEF TypeOK, RowsOK, StampsOK
  <2> QED
    BY <2>1, <2>2
<1>f. \A h : /\ Closing(h).type = "year_end_close" /\ Closing(h).year = y
             /\ Opening(h).type = "opening_balance" /\ Opening(h).year = y
  BY DEF Journal
<1> HIDE DEF Closing, Opening
<1>1. ASSUME UNCHANGED <<closed, closing, opening, ledger, years>> PROVE Kept
  BY <1>1, <1>r
<1>2. ASSUME NEW c \in calls, FinishClose(c) PROVE Kept
  <2>1. /\ ledger' = WithJournal("year_end_close", c.year, c.scope, c.of)
        /\ closing' = [closing EXCEPT ![c.year] = {[scope |-> c.scope, of |-> c.of]}]
        /\ opening' = opening
    BY <1>2 DEF FinishClose
  <2>2. \A h \in opening'[y] : Opening(h) \in ledger'
    BY <2>1, <1>r, <1>f, OthersStay
  <2>3. CASE y = c.year
    BY <2>1, <2>2, <2>3, <1>y DEF TypeOK, StampsOK, WithJournal, Closing
  <2>4. CASE y # c.year
    BY <2>1, <2>2, <2>4, <1>r, <1>f, <1>y, OthersStay DEF TypeOK, StampsOK
  <2> QED
    BY <2>3, <2>4
<1>3. ASSUME NEW c \in calls, FinishGenerate(c) PROVE Kept
  <2>1. PICK z \in Opened(c.year) :
          /\ ledger' = WithJournal("opening_balance", z, c.scope, c.of)
          /\ opening' = [opening EXCEPT ![z] =
                 {[source |-> c.year, scope |-> c.scope, of |-> c.of, locked |-> FALSE,
                   created |-> c.created, before |-> active]}]
    BY <1>3 DEF FinishGenerate
  <2>2. closing' = closing /\ c.of # {}
    BY <1>3 DEF FinishGenerate, GenerationCarries
  <2>3. \A h \in closing'[y] : h.of # {} => Closing(h) \in ledger'
    BY <2>1, <2>2, <1>r, <1>f, OthersStay
  <2>4. CASE y = z
    BY <2>1, <2>2, <2>3, <2>4, <1>y DEF TypeOK, StampsOK, WithJournal, Opening
  <2>5. CASE y # z
    BY <2>1, <2>3, <2>5, <1>r, <1>f, <1>y, OthersStay DEF TypeOK, StampsOK
  <2> QED
    BY <2>4, <2>5
<1>4. ASSUME NEW x \in Years, CreateYear(x) PROVE Kept
  BY <1>4, <1>r DEF CreateYear, stamps
<1>5. ASSUME NEW x \in Years, LockOpening(x) PROVE Kept
  <2>1. PICK z \in Destination(x) :
          opening' = [opening EXCEPT ![z] = {[g EXCEPT !.locked = TRUE] : g \in opening[z]}]
    BY <1>5 DEF LockOpening
  <2>2. closing' = closing /\ ledger' = ledger
    BY <1>5 DEF LockOpening
  <2>3. ASSUME NEW h \in opening'[y] PROVE Opening(h) \in ledger'
    <3>1. PICK g \in opening[y] : g.scope = h.scope /\ g.of = h.of
      <4>1. CASE y = z
        <5>1. PICK g \in opening[y] : h = [g EXCEPT !.locked = TRUE]
          BY <4>1, <2>1, <1>y DEF TypeOK, StampsOK
        <5>2. g \in Openings
          BY <5>1, <1>y DEF TypeOK, StampsOK
        <5> QED
          BY <5>1, <5>2 DEF Openings
      <4>2. CASE y # z
        BY <4>2, <2>1, <1>y DEF TypeOK, StampsOK
      <4> QED
        BY <4>1, <4>2
    <3> QED
      BY <3>1, <2>2, <1>r DEF Opening
  <2> QED
    BY <2>2, <2>3, <1>r
<1>6. ASSUME NEW x \in Years, NEW s \in Scopes, RollbackClose(x, s) PROVE Kept
  <2>1. /\ ledger' = Purged("year_end_close", x, s) /\ opening' = opening
        /\ closing' = [closing EXCEPT ![x] = {}]
    BY <1>6 DEF RollbackClose
  <2>2. \A h \in opening'[y] : Opening(h) \in ledger'
    BY <2>1, <1>r, <1>f, OthersStay
  <2>3. CASE y = x
    BY <2>1, <2>2, <2>3, <1>y DEF TypeOK, StampsOK
  <2>4. CASE y # x
    <3>1. \A j \in ledger : j.year # x => j \in ledger'
      BY <2>1 DEF Purged, At
    <3>2. closing'[y] = closing[y]
      BY <2>1, <2>4, <1>y DEF TypeOK, StampsOK
    <3> QED
      BY <2>2, <2>4, <3>1, <3>2, <1>r, <1>f
  <2> QED
    BY <2>3, <2>4
<1>7. ASSUME NEW x \in Years, NEW s \in Scopes, RollbackOpening(x, s) PROVE Kept
  <2>1. PICK z \in Destination(x) : \E g \in opening[z] : Undo(z, g, s)
    BY <1>7 DEF RollbackOpening
  <2>2. /\ ledger' = Purged("opening_balance", z, s) /\ closing' = closing
        /\ opening' = [opening EXCEPT ![z] = {}]
    BY <2>1 DEF Undo
  <2>3. \A h \in closing'[y] : h.of # {} => Closing(h) \in ledger'
    BY <2>2, <1>r, <1>f, OthersStay
  <2>4. CASE y = z
    BY <2>2, <2>3, <2>4, <1>y DEF TypeOK, StampsOK
  <2>5. CASE y # z
    <3>1. \A j \in ledger : j.year # z => j \in ledger'
      BY <2>2 DEF Purged, At
    <3>2. opening'[y] = opening[y]
      BY <2>2, <2>5, <1>y DEF TypeOK, StampsOK
    <3> QED
      BY <2>3, <2>5, <3>1, <3>2, <1>r, <1>f
  <2> QED
    BY <2>4, <2>5
<1>8. Kept
  <2> HIDE DEF Kept
  <2> QED
    BY <1>1, <1>2, <1>3, <1>4, <1>5, <1>6, <1>7, StepsThatMatter
<1> QED
  BY <1>8 DEF Closing, Opening

LEMMA KeptStep ==
    TypeOK /\ [Next]_vars =>
        [\A y \in Years : \A h \in opening[y] :
            \/ opening'[y] = {h}
            \/ ~h.locked /\ opening'[y] \in {{}, {[h EXCEPT !.locked = TRUE]}}]_opening
<1> SUFFICES ASSUME TypeOK, [Next]_vars, NEW y \in Years, NEW h \in opening[y]
             PROVE  \/ opening'[y] = {h}
                    \/ ~h.locked /\ opening'[y] \in {{}, {[h EXCEPT !.locked = TRUE]}}
  OBVIOUS
<1> DEFINE Kept == \/ opening'[y] = {h}
                   \/ ~h.locked /\ opening'[y] \in {{}, {[h EXCEPT !.locked = TRUE]}}
<1>0. opening[y] = {h} /\ h \in Openings
  BY DEF TypeOK, StampsOK
<1>1. ASSUME opening' = opening PROVE Kept
  BY <1>1, <1>0
<1>2. ASSUME NEW c \in calls, FinishGenerate(c) PROVE Kept
  <2>1. PICK z \in Opened(c.year) :
          /\ MayOpen(z)
          /\ opening' = [opening EXCEPT ![z] =
                 {[source |-> c.year, scope |-> c.scope, of |-> c.of, locked |-> FALSE,
                   created |-> c.created, before |-> active]}]
    BY <1>2 DEF FinishGenerate
  <2>2. z # y
    BY <2>1, <1>0 DEF MayOpen
  <2> QED
    BY <2>1, <2>2, <1>0 DEF TypeOK, StampsOK
<1>3. ASSUME NEW x \in Years, LockOpening(x) PROVE Kept
  <2>1. PICK z \in Destination(x) :
          opening' = [opening EXCEPT ![z] = {[g EXCEPT !.locked = TRUE] : g \in opening[z]}]
    BY <1>3 DEF LockOpening
  <2>2. CASE y = z
    <3>1. opening'[y] = {[h EXCEPT !.locked = TRUE]}
      BY <2>1, <2>2, <1>0 DEF TypeOK, StampsOK
    <3>2. h.locked => [h EXCEPT !.locked = TRUE] = h
      BY <1>0 DEF Openings
    <3>3. h.locked \in BOOLEAN
      BY <1>0 DEF Openings
    <3> QED
      BY <3>1, <3>2, <3>3
  <2>3. CASE y # z
    BY <2>1, <2>3, <1>0 DEF TypeOK, StampsOK
  <2> QED
    BY <2>2, <2>3
<1>4. ASSUME NEW x \in Years, NEW s \in Scopes, RollbackOpening(x, s) PROVE Kept
  <2>1. PICK z \in Destination(x) : \E g \in opening[z] : Undo(z, g, s)
    BY <1>4 DEF RollbackOpening
  <2>2. PICK g \in opening[z] : Undo(z, g, s)
    BY <2>1
  <2> QED
    BY <2>2, <1>0 DEF Undo, TypeOK, StampsOK
<1> HIDE DEF Kept
<1>5. \A c \in calls : FinishClose(c) => opening' = opening
  BY DEF FinishClose
<1>6. \A x \in Years : CreateYear(x) => opening' = opening
  BY DEF CreateYear, stamps
<1>7. \A x \in Years, s \in Scopes : RollbackClose(x, s) => opening' = opening
  BY DEF RollbackClose
<1>8. Kept
  BY <1>1, <1>2, <1>3, <1>4, <1>5, <1>6, <1>7, StepsThatMatter
<1> QED
  BY <1>8 DEF Kept

(* The type invariant holds in every state.                                *)
THEOREM TypeCorrect == Spec => []TypeOK
<1>1. Init => TypeOK
  BY InitIInv DEF IInv
<1> QED
  BY <1>1, TypeInductive, PTL DEF Spec

(* While the next year stands on the balances of a year, that year is      *)
(* there and closed, for any number of years, branches and requests that   *)
(* close, generate and roll back at once.                                  *)
THEOREM SourceClosed == Spec => []SourceStaysClosed
<1>1. IInv /\ [Next]_vars => IInv'
  BY TypeInductive, SafeStep DEF IInv
<1>2. IInv => SourceStaysClosed
  BY DEF IInv
<1> QED
  BY InitIInv, <1>1, <1>2, PTL DEF Spec

(* A close or an opening on record has its journal in the ledger, whatever *)
(* scopes the requests name.                                               *)
THEOREM RecordsHaveJournals == Spec => []RecordHasJournal
<1>1. Init => TypeOK /\ GenerationCarries /\ RecordHasJournal
  <2>1. Init => GenerationCarries /\ RecordHasJournal
    BY YearEndAssumption DEF Init, GenerationCarries, RecordHasJournal
  <2> QED
    BY <2>1, InitIInv DEF IInv
<1> QED
  BY <1>1, TypeInductive, CarriesStep, RecordStep, PTL DEF Spec

(* No opening is generated over, and a locked one stays.                   *)
THEOREM OpeningsKept == Spec => OpeningIsKept
<1>1. Init => TypeOK
  BY InitIInv DEF IInv
<1> QED
  BY <1>1, TypeInductive, KeptStep, PTL DEF Spec, OpeningIsKept

(* A posting that has read its year open gets into the books of a year     *)
(* that has been closed since, or whose close has read them already.       *)
Overtakes ==
    \E c \in calls : /\ FinishPost(c)
                     /\ \/ c.year \in closed
                        \/ \E k \in calls : k.op = "close" /\ k.year = c.year

(* What a posting under way posts is of its year, and what a close under   *)
(* way has read is all there is.                                           *)
ReadInFull ==
    \A c \in calls :
        /\ c.op = "post" => \A d \in c.of : YearOf[d] = c.year
        /\ c.op = "close" => Income(c.year, c.scope) \subseteq c.of

LEMMA CoverStep ==
    ASSUME TypeOK, ReadInFull, ClosingCoversYear, [Next /\ ~Overtakes]_vars
    PROVE  ReadInFull' /\ ClosingCoversYear'
<1> USE DEF ReadInFull, ClosingCoversYear
\* Where nothing is posted, incomes are what they were.
<1>i. ASSUME posted' = posted PROVE \A y, s : Income(y, s)' = Income(y, s)
  BY <1>i DEF Income
<1>k. ASSUME posted' = posted, calls' \subseteq calls PROVE ReadInFull'
  BY <1>i, <1>k
<1>c. ASSUME posted' = posted, closed' \subseteq closed,
             \A y \in closed' : closing'[y] = closing[y]
      PROVE  ClosingCoversYear'
  BY <1>i, <1>c
<1>1. CASE UNCHANGED vars
  BY <1>1, <1>k, <1>c DEF vars, stamps
<1>2. ASSUME NEW d \in Docs, BeginPost(d) PROVE ReadInFull' /\ ClosingCoversYear'
  BY <1>2, <1>i, <1>c DEF BeginPost, Begin, Call, stamps
<1>3. ASSUME NEW c \in calls, FinishPost(c), ~Overtakes
      PROVE  ReadInFull' /\ ClosingCoversYear'
  <2>1. /\ posted' = posted \cup c.of /\ calls' \subseteq calls
        /\ closed' = closed /\ closing' = closing
    BY <1>3 DEF FinishPost, stamps
  <2>2. \A d \in c.of : YearOf[d] = c.year
    BY <1>3 DEF FinishPost
  <2>3. \A y, s : y # c.year => Income(y, s)' = Income(y, s)
    BY <2>1, <2>2 DEF Income
  <2>4. c.year \notin closed /\ \A k \in calls : k.op = "close" => k.year # c.year
    BY <1>3 DEF Overtakes
  <2> QED
    BY <2>1, <2>3, <2>4
<1>4. ASSUME NEW c \in calls, Fail(c) PROVE ReadInFull' /\ ClosingCoversYear'
  BY <1>4, <1>k, <1>c DEF Fail, stamps
<1>5. ASSUME NEW c \in calls, FinishClose(c) PROVE ReadInFull' /\ ClosingCoversYear'
  <2>1. /\ posted' = posted /\ calls' \subseteq calls /\ closed' = closed \cup {c.year}
        /\ closing' = [closing EXCEPT ![c.year] = {[scope |-> c.scope, of |-> c.of]}]
    BY <1>5 DEF FinishClose
  <2>2. c.year \in Years /\ closing \in [Years -> SUBSET Closings] /\ closed \subseteq Years
    BY DEF TypeOK, RowsOK, StampsOK, BooksOK
  <2>3. Income(c.year, c.scope) \subseteq c.of
    BY <1>5 DEF FinishClose
  <2>4. ASSUME NEW y \in closed', NEW h \in closing'[y]
        PROVE  Income(y, h.scope)' \subseteq h.of
    <3>1. CASE y = c.year
      BY <2>1, <2>2, <2>3, <3>1, <1>i
    <3>2. CASE y # c.year
      BY <2>1, <2>2, <3>2, <1>i
    <3> QED
      BY <3>1, <3>2
  <2> QED
    BY <2>1, <2>4, <1>k
<1>6. ASSUME NEW c \in calls, FinishGenerate(c) PROVE ReadInFull' /\ ClosingCoversYear'
  BY <1>6, <1>k, <1>c DEF FinishGenerate
<1>7. ASSUME NEW y \in Years, CreateYear(y) \/ LockOpening(y)
      PROVE  ReadInFull' /\ ClosingCoversYear'
  BY <1>7, <1>k, <1>c DEF CreateYear, LockOpening, stamps
<1>8. ASSUME NEW y \in Years, NEW s \in Scopes, BeginClose(y, s)
      PROVE  ReadInFull' /\ ClosingCoversYear'
  BY <1>8, <1>i, <1>c DEF BeginClose, Begin, Call, stamps
<1>9. ASSUME NEW y \in Years, NEW s \in Scopes, BeginGenerate(y, s)
      PROVE  ReadInFull' /\ ClosingCoversYear'
  BY <1>9, <1>i, <1>c DEF BeginGenerate, Begin, Call, stamps
<1>10. ASSUME NEW y \in Years, NEW s \in Scopes, RollbackClose(y, s)
       PROVE  ReadInFull' /\ ClosingCoversYear'
  <2>1. /\ posted' = posted /\ calls' = calls /\ closed' = closed \ {y}
        /\ closing' = [closing EXCEPT ![y] = {}]
    BY <1>10 DEF RollbackClose
  <2>2. \A x \in closed' : closing'[x] = closing[x]
    BY <2>1 DEF TypeOK, RowsOK, StampsOK
  <2> QED
    BY <2>1, <2>2, <1>k, <1>c
<1>11. ASSUME NEW y \in Years, NEW s \in Scopes, RollbackOpening(y, s)
       PROVE  ReadInFull' /\ ClosingCoversYear'
  <2>1. posted' = posted /\ calls' \subseteq calls /\ closed' = closed /\ closing' = closing
    BY <1>11 DEF RollbackOpening, Undo
  <2> QED
    BY <2>1, <1>k, <1>c
<1>12. ASSUME NEW y \in Years, NEW s \in Scopes,
              NEW to \in {"ready_for_review", "approved"}, MarkOpeningLifecycle(y, s, to)
       PROVE  ReadInFull' /\ ClosingCoversYear'
  BY <1>12, <1>k, <1>c DEF MarkOpeningLifecycle
<1> HIDE DEF ReadInFull, ClosingCoversYear
<1> QED
  BY <1>1, <1>2, <1>3, <1>4, <1>5, <1>6, <1>7, <1>8, <1>9, <1>10, <1>11, <1>12 DEF Next

(* A close transfers all of the year's income if no posting overtakes it:  *)
(* nothing else the year-end code does, with whatever closes, generations  *)
(* and rollbacks under way, keeps income out of the transfer.  A lock of   *)
(* the year, which close_financial_year took before it reads the books and *)
(* _assert_financial_year_open held until the posting commits, is enough.  *)
THEOREM ClosesCover ==
    Init /\ [][Next /\ ~Overtakes]_vars => []ClosingCoversYear
<1> DEFINE CInv == TypeOK /\ ReadInFull /\ ClosingCoversYear
<1>1. Init => CInv
  <2>1. Init => ReadInFull /\ ClosingCoversYear
    BY DEF Init, ReadInFull, ClosingCoversYear
  <2> QED
    BY <2>1, InitIInv DEF IInv
<1>2. CInv /\ [Next /\ ~Overtakes]_vars => CInv'
  BY TypeInductive, CoverStep
<1>3. CInv => ClosingCoversYear
  OBVIOUS
<1> QED
  BY <1>1, <1>2, <1>3, PTL
=============================================================================
