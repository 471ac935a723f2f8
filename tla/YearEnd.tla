------------------------------ MODULE YearEnd ------------------------------
(***************************************************************************)
(* The end of a financial year (reports/services/controls): closing it     *)
(* with a journal that transfers its income, carrying its balances forward *)
(* into the opening journal of the next year, and rolling either back.     *)
(*                                                                         *)
(* A close and a generation read the books first, without a lock           *)
(* (BeginClose, BeginGenerate), and then, in one transaction that locks    *)
(* the rows of the years, post what they read and stamp the years          *)
(* (FinishClose, FinishGenerate).  So does the posting of a document: it   *)
(* reads that its year is open, and commits later.  Rollbacks decide and   *)
(* write under the locks, one action each.                                 *)
(*                                                                         *)
(* Amounts are abstracted to the documents they come from: a journal is    *)
(* the set of documents whose income it closes or whose balances it        *)
(* carries.                                                                *)
(***************************************************************************)
EXTENDS Integers, FiniteSets

CONSTANTS
    Years,          \* financial years, numbered in the order of their dates
    Scopes,         \* the subentity a request names: a branch, or All
    All,            \* no subentity: the whole entity
    Docs,           \* documents that earn or spend something
    YearOf,         \* the financial year of each document
    ScopeOf,        \* its branch, or All
    Requested,      \* bound: years and scopes that closes and rollbacks name
    Reviewed,       \* bound: those whose opening is reviewed
    MaxCalls        \* bound: requests under way at once

ASSUME YearEndAssumption ==
    /\ Years \subseteq Nat /\ All \in Scopes /\ MaxCalls \in Nat
    /\ Reviewed \subseteq Requested /\ Requested \subseteq Years \X Scopes
    /\ YearOf \in [Docs -> Years] /\ ScopeOf \in [Docs -> Scopes]

VARIABLES
    years,          \* the EntityFinancialYear rows there are
    active,         \* those with isactive
    closed,         \* those with is_year_closed (and the lock dates)
    closing,        \* metadata.year_end_close of each year, if any
    opening,        \* metadata.opening_carry_forward of each year, if any
    lifecycle,      \* of each year and scope: the review of its opening
    rolledBack,     \* years with metadata.year_end_close_rollbacks
    posted,         \* documents in the ledger
    ledger,         \* closing and opening journals in the ledger
    calls           \* requests between their reads and their transaction

stamps == <<closed, closing, opening, lifecycle, rolledBack>>
vars == <<years, active, stamps, posted, ledger, calls>>

Types == {"year_end_close", "opening_balance"}

(* What the metadata of a year records.                                    *)
Closings == [scope : Scopes, of : SUBSET Docs]
Openings == [source : Years, scope : Scopes, of : SUBSET Docs,
             locked : BOOLEAN, created : BOOLEAN, before : SUBSET Years]

Init ==
    /\ years \in {{1}, {1, 2}} /\ years \subseteq Years
    /\ active = {1}
    /\ closed = {} /\ rolledBack = {}
    /\ closing = [y \in Years |-> {}]
    /\ opening = [y \in Years |-> {}]
    /\ lifecycle = [y \in Years |-> [s \in Scopes |-> "preview"]]
    /\ posted = {} /\ ledger = {} /\ calls = {}
----------------------------------------------------------------------------
InScope(t, s) == s \in {All, t}

(* The reports of a year in a scope: its income, and its balance sheet.    *)
Income(y, s) == {d \in posted : YearOf[d] = y /\ InScope(ScopeOf[d], s)}

Balances(y, s) ==
    Income(y, s) \cup
    UNION {j.of : j \in {k \in ledger : /\ k.type = "opening_balance" /\ k.year = y
                                        /\ InScope(k.scope, s)}}

(* _resolve_destination_year: the first year after this one, if any.       *)
Later(y) == {z \in years : z > y}
Destination(y) == {z \in Later(y) : \A w \in Later(y) : z <= w}

(* The journals posted under one locator of PostingService: the subentity  *)
(* is a part of it.                                                        *)
At(type, y, s) == {j \in ledger : j.type = type /\ j.year = y /\ j.scope = s}

(* Faulty: whatever was posted for the year.                               *)
PurgedYear(type, y, s) == {j \in ledger : j.year # y}

Purged(type, y, s) == ledger \ At(type, y, s)

Journal(type, y, s, of) == [type |-> type, year |-> y, scope |-> s, of |-> of]

(* A journal posted again replaces the one at its locator; one without     *)
(* lines is not posted.                                                    *)
WithJournal(type, y, s, of) ==
    IF of = {} THEN ledger ELSE Purged(type, y, s) \cup {Journal(type, y, s, of)}

Call(op, y, s, of, created) ==
    [op |-> op, year |-> y, scope |-> s, of |-> of, created |-> created]

Begin(c) ==
    /\ Cardinality(calls) < MaxCalls
    /\ c \notin calls
    /\ calls' = calls \cup {c}
----------------------------------------------------------------------------
(* PostingService.post of a document: _assert_financial_year_open reads    *)
(* the year without a lock.                                                *)
BeginPost(d) ==
    /\ d \notin posted
    /\ YearOf[d] \in years \ closed
    /\ Begin(Call("post", YearOf[d], ScopeOf[d], {d}, FALSE))
    /\ UNCHANGED <<years, active, stamps, posted, ledger>>

FinishPost(c) ==
    /\ c.op = "post"
    /\ posted' = posted \cup c.of
    /\ calls' = calls \ {c}
    /\ UNCHANGED <<years, active, stamps, ledger>>

(* A request that fails, or is refused under the lock, changes nothing.    *)
Fail(c) ==
    /\ calls' = calls \ {c}
    /\ UNCHANGED <<years, active, stamps, posted, ledger>>

(* Years are entered in their order.                                       *)
CreateYear(y) ==
    /\ y - 1 \in years /\ Later(y - 1) = {}
    /\ years' = years \cup {y}
    /\ active' = active \cup {y}
    /\ UNCHANGED <<stamps, posted, ledger, calls>>

BeginClose(y, s) ==
    /\ y \in years \ closed
    /\ Begin(Call("close", y, s, Income(y, s), FALSE))
    /\ UNCHANGED <<years, active, stamps, posted, ledger>>

FinishClose(c) ==
    /\ c.op = "close"
    /\ c.year \notin closed
    /\ ledger' = WithJournal("year_end_close", c.year, c.scope, c.of)
    /\ closed' = closed \cup {c.year}
    /\ closing' = [closing EXCEPT ![c.year] = {[scope |-> c.scope, of |-> c.of]}]
    /\ calls' = calls \ {c}
    /\ UNCHANGED <<years, active, opening, lifecycle, rolledBack, posted>>

(* Faulty: this year must not have been opened from itself.                *)
CarriedForwardSelf(y) == \E h \in opening[y] : h.source = y

(* The next year must not have been opened from this one.                  *)
CarriedForward(y) ==
    \E z \in Destination(y) : \E h \in opening[z] : h.source = y

(* The journal is purged in the scope of this request, whatever the scope  *)
(* the year was closed in.                                                 *)
RollbackClose(y, s) ==
    /\ closing[y] # {}
    /\ ~CarriedForward(y)
    /\ ledger' = Purged("year_end_close", y, s)
    /\ closed' = closed \ {y}
    /\ closing' = [closing EXCEPT ![y] = {}]
    /\ rolledBack' = rolledBack \cup {y}
    /\ UNCHANGED <<years, active, opening, lifecycle, posted, calls>>

MarkOpeningLifecycle(y, s, to) ==
    /\ y \in years /\ <<y, s>> \in Reviewed
    /\ to = "approved" => lifecycle[y][s] # "preview"
    /\ lifecycle[y][s] # to
    /\ lifecycle' = [lifecycle EXCEPT ![y][s] = to]
    /\ UNCHANGED <<years, active, closed, closing, opening, rolledBack, posted, ledger, calls>>
----------------------------------------------------------------------------
(* can_generate, and the snapshot: the source is closed, its opening has   *)
(* been approved, and the next year, if there is one, has none.            *)
BeginGenerate(y, s) ==
    /\ y \in closed
    /\ lifecycle[y][s] = "approved"
    /\ \A z \in Destination(y) : opening[z] = {}
    /\ Balances(y, s) # {}
    /\ Begin(Call("generate", y, s, Balances(y, s), Later(y) = {}))
    /\ UNCHANGED <<years, active, stamps, posted, ledger>>

(* _resolve_destination_fy: the next year, created if there is none.       *)
Opened(y) == IF Later(y) = {} THEN {y + 1} \cap Years ELSE Destination(y)

(* Faulty: that there is no opening has been seen by can_generate.         *)
MayOpenSeen(z) == z \notin closed

(* That it is open is asked by PostingService, of the opening journal.     *)
MayOpen(z) == opening[z] = {} /\ z \notin closed

(* Under the locks of both years the source must still be closed, and the  *)
(* destination open and without an opening.  Only the destination stays    *)
(* active; the years that were are remembered.                             *)
FinishGenerate(c) ==
    /\ c.op = "generate"
    /\ c.year \in closed
    /\ \E z \in Opened(c.year) :
          /\ MayOpen(z)
          /\ ledger' = WithJournal("opening_balance", z, c.scope, c.of)
          /\ opening' = [opening EXCEPT ![z] =
                 {[source |-> c.year, scope |-> c.scope, of |-> c.of, locked |-> FALSE,
                   created |-> c.created, before |-> active]}]
          /\ years' = years \cup {z}
          /\ active' = {z}
    /\ calls' = calls \ {c}
    /\ UNCHANGED <<closed, closing, lifecycle, rolledBack, posted>>

LockOpening(y) ==
    /\ \E z \in Destination(y) :
          /\ opening[z] # {}
          /\ opening' = [opening EXCEPT ![z] = {[h EXCEPT !.locked = TRUE] : h \in opening[z]}]
    /\ UNCHANGED <<years, active, closed, closing, lifecycle, rolledBack, posted, ledger, calls>>

(* Faulty: the metadata of the year is not looked at.                      *)
UnusedBooks(z, books) ==
    (\A d \in posted : YearOf[d] # z) /\ \A j \in books : j.year # z

(* A year that the generation created and that holds nothing is deleted:   *)
(* no entry, and no metadata but the log of such rollbacks.                *)
Unused(z, books) ==
    /\ \A d \in posted : YearOf[d] # z
    /\ \A j \in books : j.year # z
    /\ closing[z] = {} /\ z \notin rolledBack
    /\ \A s \in Scopes : lifecycle[z][s] = "preview"

Gone(z, h, books) == IF h.created /\ Unused(z, books) THEN {z} ELSE {}

(* Neither that the destination is open nor that it has not itself been    *)
(* carried forward is asked.  What was under way for a year that is        *)
(* deleted fails.                                                          *)
Undo(z, h, s) ==
    /\ ~h.locked
    /\ ledger' = Purged("opening_balance", z, s)
    /\ opening' = [opening EXCEPT ![z] = {}]
    /\ years' = years \ Gone(z, h, ledger')
    /\ active' = (h.before \cap years) \ Gone(z, h, ledger')
    /\ calls' = {c \in calls : c.year \notin Gone(z, h, ledger')}
    /\ UNCHANGED <<closed, closing, lifecycle, rolledBack, posted>>

RollbackOpening(y, s) ==
    \E z \in Destination(y) : \E h \in opening[z] : Undo(z, h, s)

Next ==
    \/ \E d \in Docs : BeginPost(d)
    \/ \E c \in calls : FinishPost(c) \/ FinishClose(c) \/ FinishGenerate(c) \/ Fail(c)
    \/ \E y \in Years :
          \/ CreateYear(y)
          \/ LockOpening(y)
          \/ \E s \in {t \in Scopes : <<y, t>> \in Requested} :
                \/ BeginClose(y, s) \/ RollbackClose(y, s)
                \/ BeginGenerate(y, s) \/ RollbackOpening(y, s)
                \/ \E to \in {"ready_for_review", "approved"} : MarkOpeningLifecycle(y, s, to)

Spec == Init /\ [][Next]_vars
----------------------------------------------------------------------------
RowsOK ==
    /\ years \subseteq Years /\ active \subseteq years /\ closed \subseteq years
    /\ rolledBack \subseteq years /\ posted \subseteq Docs

StampsOK ==
    /\ closing \in [Years -> SUBSET Closings]
    /\ opening \in [Years -> SUBSET Openings]
    /\ lifecycle \in [Years -> [Scopes -> {"preview", "ready_for_review", "approved"}]]
    /\ \A y \in Years :
          /\ y \in closed <=> closing[y] # {}
          /\ y \notin years => opening[y] = {}
          /\ \A g, h \in opening[y] : g = h

BooksOK ==
    /\ ledger \subseteq [type : Types, year : Years, scope : Scopes, of : SUBSET Docs]
    /\ calls \subseteq [op : {"post", "close", "generate"}, year : years, scope : Scopes,
                        of : SUBSET Docs, created : BOOLEAN]

TypeOK == RowsOK /\ StampsOK /\ BooksOK

(* What a year's opening was carried from is there and still closed: while *)
(* the next year stands on its balances, its books cannot be reopened,     *)
(* though the close, the generation and both rollbacks run concurrently.   *)
SourceStaysClosed ==
    \A y \in years : \A h \in opening[y] : h.source \in years \cap closed

(* A close or an opening on record has its journal in the ledger, with the *)
(* content on record, whatever scopes later requests named.                *)
RecordHasJournal ==
    \A y \in years :
        /\ \A h \in closing[y] : h.of # {} =>
              Journal("year_end_close", y, h.scope, h.of) \in ledger
        /\ \A h \in opening[y] :
              Journal("opening_balance", y, h.scope, h.of) \in ledger

(* An opening is not generated over, and once locked stays: of two         *)
(* generations that both found none the second is refused.                 *)
OpeningIsKept ==
    [][\A y \in Years : \A h \in opening[y] :
          \/ opening'[y] = {h}
          \/ ~h.locked /\ opening'[y] \in {{}, {[h EXCEPT !.locked = TRUE]}}]_opening

(* Closing a year transfers all of its income in the scope it names (the   *)
(* close's preview: "rows expected to reset through the close transfer").  *)
ClosingCoversYear ==
    \A y \in closed : \A h \in closing[y] : Income(y, h.scope) \subseteq h.of
=============================================================================
