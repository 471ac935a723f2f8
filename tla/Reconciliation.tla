--------------------------- MODULE Reconciliation ---------------------------
(***************************************************************************)
(* Bank reconciliation (bank_reco/services): the runs over a bank account  *)
(* match lines of the imported statements with journal lines of the bank's *)
(* ledger, by the matching engine or by hand, and link the treasury        *)
(* instruments they find cleared (treasury/reconciliation.py).             *)
(*                                                                         *)
(* A run sees every line of the account up to its date, whichever import   *)
(* brought it, so two runs work on the same lines; a match is seen by all  *)
(* runs, but its suggestion is withdrawn only by the run that made it.     *)
(* Each request is one transaction and is taken here as one action:        *)
(* nothing is locked, and requests that overlap are outside this module.   *)
(* The lines are those of one direction, money in or money out.            *)
(***************************************************************************)
EXTENDS Integers, FiniteSets, Sequences, FiniteSetsExt

CONSTANTS
    Runs,           \* statement imports, each with at most one run
    Lines,          \* statement lines, numbered in the order of their dates
    Books,          \* journal lines of the bank's ledger, likewise
    Instruments,    \* payment instruments of the treasury
    Sees,           \* of each run: the lines up to its date
    Ledger,         \* of each run: the journal lines up to its date
    LineAmount, BookAmount, InstrumentAmount,
    Score,          \* of each line and journal line: the confidence of the
                    \* engine, 0 for another amount or distant dates
    Safe,           \* pairs alike in date and in reference or cheque number
    Named,          \* pairs of an instrument and a line that quotes it
    Locking,        \* runs that somebody locks
    Unwritten,      \* journal lines of vouchers that are yet to be posted
    MaxMatches      \* bound of the model: matches ever made

Pairs == Lines \X Books

ASSUME ReconciliationAssumption ==
    /\ Lines = 1..Cardinality(Lines) /\ Books = 1..Cardinality(Books)
    /\ IsFiniteSet(Lines) /\ IsFiniteSet(Books) /\ IsFiniteSet(Instruments)
    /\ Sees \in [Runs -> SUBSET Lines] /\ Ledger \in [Runs -> SUBSET Books]
    /\ LineAmount \in [Lines -> Nat \ {0}] /\ BookAmount \in [Books -> Nat \ {0}]
    /\ InstrumentAmount \in [Instruments -> Nat \ {0}]
    /\ Score \in [Pairs -> 0..100]
    /\ \A p \in Pairs : Score[p] > 0 => LineAmount[p[1]] = BookAmount[p[2]]
    /\ Safe \subseteq {p \in Pairs : Score[p] > 0}
    /\ \A l \in Lines : \A b, c \in Books :      \* ties: by date, then by number
          b # c /\ Score[<<l, b>>] > 0 => Score[<<l, b>>] # Score[<<l, c>>]
    /\ Named \subseteq Instruments \X Lines
    /\ Unwritten \subseteq Books /\ Locking \subseteq Runs
    /\ MaxMatches \in Nat

VARIABLES
    matches,        \* the matches in the order they were made: run, status,
                    \* and what each side's lines were allocated
    shown,          \* the reconciliation_status of each statement line
    exception,      \* the exception_status of each statement line
    status,         \* the status of each run
    lockedBy,       \* the runs that hold locked_at
    book,           \* whether each journal line is posted, or deleted since
    voucher,        \* the journal line of the voucher made from a line
    link            \* of each instrument: the match and line it is linked to

vars == <<matches, shown, exception, status, lockedBy, book, voucher, link>>

Final == {"confirmed", "partially_matched"}        \* FINAL_MATCH_STATUSES
Active == Final \cup {"suggested"}                 \* ACTIVE_MATCH_STATUSES
Exceptions == {"none", "ignored", "hold_for_review"}

Init ==
    /\ matches = <<>>
    /\ shown = [l \in Lines |-> "unmatched"]
    /\ exception = [l \in Lines |-> "none"]
    /\ status = [r \in Runs |-> "none"]
    /\ lockedBy = {}
    /\ book = [b \in Books |-> IF b \in Unwritten THEN "none" ELSE "posted"]
    /\ voucher = [l \in Lines |-> {}]
    /\ link = [i \in Instruments |-> {}]

\* bank_lines_for_run: an ignored line is in no run any more.
Visible(r) == {l \in Sees[r] : exception[l] # "ignored"}

BankOf(m) == DOMAIN m.bank
BookOf(m) == DOMAIN m.book
With(ms, S) == {n \in DOMAIN ms : ms[n].status \in S}

\* The lines of ms that stand in a match whose status is in S.
BankIn(ms, S) == UNION {BankOf(ms[n]) : n \in With(ms, S)}
BookIn(ms, S) == UNION {BookOf(ms[n]) : n \in With(ms, S)}

Total(S, amount) == SumFunctionOnSet(amount, S)

(* Faulty: every line is allocated in full.                                *)
AllottedInFull(S, amount, total) == [x \in S |-> amount[x]]

(* Faulty: a line counts as laid out before it is.                         *)
AllottedLate(S, amount, total) ==
    LET before == [x \in S |-> Total({y \in S : y <= x}, amount)]
    IN [x \in {y \in S : before[y] < total} |-> Min({amount[x], total - before[x]})]

(* The loops of _create_match: total is laid out along the lines in order; *)
(* those it does not reach are left out of the match.                      *)
Allotted(S, amount, total) ==
    LET before == [x \in S |-> Total({y \in S : y < x}, amount)]
    IN [x \in {y \in S : before[y] < total} |-> Min({amount[x], total - before[x]})]

(* _recalculate_line_statuses_for_lines, over the matches of all runs.     *)
Standing(ms, l) ==
    LET found == {ms[n].status : n \in {k \in DOMAIN ms : l \in BankOf(ms[k])}}
    IN IF "confirmed" \in found THEN "confirmed"
       ELSE IF "partially_matched" \in found THEN "partially_matched"
       ELSE IF "suggested" \in found THEN "suggested" ELSE "unmatched"

Refresh(sh, ms, S) == [l \in Lines |-> IF l \in S THEN Standing(ms, l) ELSE sh[l]]

(* _cancel_existing_suggestions: those of the run itself that touch a line *)
(* of BS or JS.  The lines they held are not refreshed.                    *)
Withdraw(ms, r, BS, JS) ==
    [n \in DOMAIN ms |->
        IF /\ ms[n].run = r /\ ms[n].status = "suggested"
           /\ BankOf(ms[n]) \cap BS # {} \/ BookOf(ms[n]) \cap JS # {}
        THEN [ms[n] EXCEPT !.status = "cancelled"]
        ELSE ms[n]]

(* link_treasury_instruments_for_match, of the match n: the one instrument *)
(* cleared for a line's amount, quoted by it and linked to nothing yet.    *)
Fitting(lk, l, cleared) ==
    {i \in cleared : InstrumentAmount[i] = LineAmount[l] /\ lk[i] = {} /\ <<i, l>> \in Named}

LinkedLine(lk, n, l, cleared) ==
    LET fit == Fitting(lk, l, cleared)
    IN IF \E i \in fit : fit = {i}
       THEN [i \in Instruments |-> IF i \in fit THEN {<<n, l>>} ELSE lk[i]]
       ELSE lk

Linked(lk, n, S, cleared) ==
    LET after[l \in 0..Cardinality(Lines)] ==
            IF l = 0 THEN lk
            ELSE IF l \in S THEN LinkedLine(after[l-1], n, l, cleared) ELSE after[l-1]
    IN after[Cardinality(Lines)]
-----------------------------------------------------------------------------
\* The tables a match is written to, as a transaction has them so far, and
\* the instruments it finds CLEARED.  They clear and bounce at any time.
Now(cl) == [matches |-> matches, shown |-> shown, link |-> link, cleared |-> cl]

(* _create_match                                                           *)
Created(s, r, BS, JS, st) ==
    LET total == Min({Total(BS, LineAmount), Total(JS, BookAmount)})
        m  == [run |-> r, status |-> st, bank |-> Allotted(BS, LineAmount, total),
                                         book |-> Allotted(JS, BookAmount, total)]
        ms == Append(s.matches, m)
    IN [matches |-> ms,
        shown   |-> Refresh(s.shown, ms, BS),
        link    |-> IF st \in Final THEN Linked(s.link, Len(ms), BankOf(m), s.cleared)
                ELSE s.link,
        cleared |-> s.cleared]

(* _recalculate_run_metrics: the status it leaves a run r in that had st,  *)
(* from the run's lines V and the posted journal lines loose without an    *)
(* active match up to its date.                                            *)
Recalculated(st, V, sh, loose) ==
    LET seen == {sh[l] : l \in V}
    IN IF "confirmed" \in seen /\ "unmatched" \notin seen /\ loose = {} THEN "reconciled"
       ELSE IF "suggested" \in seen THEN "review"
       ELSE IF "confirmed" \in seen THEN "matching" ELSE st

Loose(r, ms, bk) == {b \in Ledger[r] : bk[b] = "posted"} \ BookIn(ms, Active)

\* s is committed, and the metrics of r are recalculated over its lines V.
Commit(s, r, V, bk) ==
    /\ matches' = s.matches /\ shown' = s.shown /\ link' = s.link
    /\ status' = [status EXCEPT ![r] = Recalculated(@, V, s.shown, Loose(r, s.matches, bk))]

Room == Len(matches) < MaxMatches       \* for one more match

Mutable(r) == status[r] \notin {"none", "locked"}       \* ensure_run_mutable

(* candidate_book_lines, best first: no journal line of an active match.   *)
Candidates(ms, l) ==
    {b \in Books : book[b] = "posted" /\ Score[<<l, b>>] > 0} \ BookIn(ms, Active)
BestOf(l, C) == CHOOSE b \in C : \A c \in C : Score[<<l, c>>] <= Score[<<l, b>>]

(* One round of auto_match_import: the line l is left alone, or matched    *)
(* with its best candidate, for good if it is safe and stands out by 5.    *)
MatchLine(r, s, l) ==
    LET C == Candidates(s.matches, l)
        b == BestOf(l, C)
        clear == \A c \in C \ {b} : Score[<<l, b>>] - Score[<<l, c>>] >= 5
    IN IF \/ s.shown[l] \in Final
          \/ exception[l] = "hold_for_review"
          \/ \E n \in With(s.matches, Final) : s.matches[n].run = r /\ l \in BankOf(s.matches[n])
          \/ C = {}
       THEN s
       ELSE Created(s, r, {l}, {b}, IF <<l, b>> \in Safe /\ clear THEN "confirmed" ELSE "suggested")

(* auto_match_import, which also opens the run.  It does not ask whether   *)
(* the run is locked.                                                      *)
AutoMatch(r, cl) ==
    LET start == [Now(cl) EXCEPT !.matches = Withdraw(@, r, Lines, Books)]
        after[l \in 0..Cardinality(Lines)] ==
            IF l = 0 THEN start
            ELSE IF l \in Visible(r) THEN MatchLine(r, after[l-1], l) ELSE after[l-1]
        done  == after[Cardinality(Lines)]
        opened == IF status[r] = "none" THEN "draft" ELSE status[r]
    IN /\ Len(done.matches) <= MaxMatches
       /\ matches' = done.matches /\ shown' = done.shown /\ link' = done.link
       /\ status' = [status EXCEPT ![r] =
              IF Len(done.matches) = Len(matches) THEN opened
              ELSE Recalculated(opened, Visible(r), done.shown, Loose(r, done.matches, book))]
       /\ UNCHANGED <<exception, lockedBy, book, voucher>>

(* Faulty: only the statement's side is checked.                           *)
AvailableBank(ms, BS, JS) == BS \cap BankIn(ms, Final) = {}

(* _ensure_bank_lines_available, _ensure_book_lines_available              *)
Available(ms, BS, JS) == BS \cap BankIn(ms, Final) = {} /\ JS \cap BookIn(ms, Final) = {}

(* confirm_manual_match                                                    *)
Confirmed(r, BS, JS, cl) ==
    LET start == [Now(cl) EXCEPT !.matches = Withdraw(@, r, BS, JS)]
    IN Created(start, r, BS, JS,
               IF Total(BS, LineAmount) = Total(JS, BookAmount) THEN "confirmed"
                                                               ELSE "partially_matched")

\* Match and group match: the status of the journal entries is not asked.
Match(r, BS, JS, cl) ==
    /\ Room /\ Mutable(r) /\ BS \subseteq Visible(r) /\ \A b \in JS : book[b] = "posted"
    /\ Available(matches, BS, JS)
    /\ Commit(Confirmed(r, BS, JS, cl), r, Visible(r), book)
    /\ UNCHANGED <<exception, lockedBy, book, voucher>>

(* Faulty: the links outlive the match.                                    *)
LinksKept(n) == link

(* clear_treasury_instrument_links_for_match                               *)
Unlinked(n) == [i \in Instruments |-> {p \in link[i] : p[1] # n}]

(* Faulty: the lines are not refreshed.                                    *)
UnmatchOnly(n) ==
    LET ms == [matches EXCEPT ![n].status = "cancelled"]
        r  == matches[n].run
    IN /\ Mutable(r)
       /\ Commit([matches |-> ms, shown |-> shown, link |-> Unlinked(n)], r, Visible(r), book)
       /\ UNCHANGED <<exception, lockedBy, book, voucher>>

(* unmatch: any match of the run, also a suggestion.                       *)
Unmatch(n) ==
    LET ms == [matches EXCEPT ![n].status = "cancelled"]
        r  == matches[n].run
    IN /\ Mutable(r)
       /\ Commit([matches |-> ms, shown |-> Refresh(shown, ms, BankOf(ms[n])),
                  link |-> Unlinked(n)], r, Visible(r), book)
       /\ UNCHANGED <<exception, lockedBy, book, voucher>>

(* apply_exception_action: refused for a line this run has matched, not    *)
(* for one another run has.  The line is not refreshed.                    *)
Except(r, l, e) ==
    LET ms == Withdraw(matches, r, {l}, {})
        sh == [shown EXCEPT ![l] = IF e = "ignored" THEN "cancelled" ELSE @]
        V  == IF e = "ignored" THEN Visible(r) \ {l} ELSE Visible(r)
    IN /\ Mutable(r) /\ l \in Visible(r)
       /\ ~\E n \in With(matches, Final) : matches[n].run = r /\ l \in BankOf(matches[n])
       /\ Commit([matches |-> ms, shown |-> sh, link |-> link], r, V, book)
       /\ exception' = [exception EXCEPT ![l] = e]
       /\ UNCHANGED <<lockedBy, book, voucher>>

(* create_voucher_from_bank_line: posts a bank voucher for the line, whose *)
(* journal line b is matched with it in the same transaction.              *)
CreateVoucher(r, l, b, cl) ==
    LET bk == [book EXCEPT ![b] = "posted"]
    IN /\ Room /\ Mutable(r) /\ l \in Visible(r) /\ shown[l] \notin Final
       /\ \A c \in voucher[l] : book[c] = "gone"
       /\ book[b] = "none" /\ BookAmount[b] = LineAmount[l]
       /\ Available(matches, {l}, {b})
       /\ Commit(Confirmed(r, {l}, {b}, cl), r, Visible(r), bk)
       /\ book' = bk /\ voucher' = [voucher EXCEPT ![l] = {b}]
       /\ exception' = [exception EXCEPT ![l] = "none"]
       /\ UNCHANGED lockedBy
-----------------------------------------------------------------------------
\* What mark_reconciled asks of the metrics.
NothingLeft(r) ==
    /\ \A l \in Visible(r) : shown[l] \notin {"unmatched", "suggested"}
    /\ Loose(r, matches, book) = {}

(* apply_run_action                                                        *)
RunAction(r, act) ==
    /\ IF act = "unlock_run" THEN status[r] # "none" ELSE Mutable(r)
    /\ act = "mark_reconciled" => NothingLeft(r)
    /\ act = "lock_run" => r \in Locking
    /\ status' = [status EXCEPT ![r] = CASE act = "mark_reconciled" -> "reconciled"
                                         [] act = "lock_run" -> "locked"
                                         [] OTHER -> "review"]
    /\ lockedBy' = CASE act = "lock_run" -> lockedBy \cup {r}
                     [] act = "unlock_run" -> lockedBy \ {r}
                     [] OTHER -> lockedBy
    /\ UNCHANGED <<matches, shown, exception, book, voucher, link>>

(* A voucher is posted elsewhere.                                          *)
Post(b) ==
    /\ book[b] = "none" /\ book' = [book EXCEPT ![b] = "posted"]
    /\ UNCHANGED <<matches, shown, exception, status, lockedBy, voucher, link>>

(* Faulty: only a match that stands protects the journal line.             *)
ProtectedWhileActive(b) == b \in BookIn(matches, Active)

(* BankReconciliationMatchBookLine.journal_line is on_delete=PROTECT, and  *)
(* the row outlives its match.                                             *)
Protected(b) == b \in BookIn(matches, Active \cup {"cancelled"})

(* A voucher is unposted or posted again, which deletes its journal lines. *)
Unpost(b) ==
    /\ book[b] = "posted" /\ ~Protected(b)
    /\ book' = [book EXCEPT ![b] = "gone"]
    /\ UNCHANGED <<matches, shown, exception, status, lockedBy, voucher, link>>

Next ==
    \/ \E r \in Runs, cl \in SUBSET Instruments :
          \/ AutoMatch(r, cl)
          \/ \E BS \in (SUBSET Lines) \ {{}}, JS \in (SUBSET Books) \ {{}} : Match(r, BS, JS, cl)
          \/ \E l \in Lines, b \in Books : CreateVoucher(r, l, b, cl)
    \/ \E n \in DOMAIN matches : Unmatch(n)
    \/ \E r \in Runs, l \in Lines, e \in Exceptions : Except(r, l, e)
    \/ \E r \in Runs, act \in {"mark_review", "mark_reconciled", "lock_run", "unlock_run"} :
          RunAction(r, act)
    \/ \E b \in Books : Post(b) \/ Unpost(b)

Spec == Init /\ [][Next]_vars
-----------------------------------------------------------------------------
(* The tables hold values of their columns.                                *)
TypeOK ==
    /\ Len(matches) <= MaxMatches
    /\ \A n \in DOMAIN matches :
          /\ matches[n].run \in Runs /\ matches[n].status \in Active \cup {"cancelled"}
          /\ BankOf(matches[n]) \in (SUBSET Lines) \ {{}}
          /\ BookOf(matches[n]) \in (SUBSET Books) \ {{}}
    /\ shown \in [Lines -> Active \cup {"unmatched", "cancelled"}]
    /\ exception \in [Lines -> Exceptions]
    /\ status \in [Runs -> {"none", "draft", "matching", "review", "reconciled", "locked"}]
    /\ lockedBy \subseteq Runs
    /\ book \in [Books -> {"none", "posted", "gone"}]
    /\ voucher \in [Lines -> SUBSET Books]
    /\ \A i \in Instruments : \A p \in link[i] : p \in (DOMAIN matches) \X Lines

(* No statement line and no journal line is in two final matches, whether  *)
(* the engine made them, a user by hand or a voucher made from a line, and *)
(* whichever runs they belong to (the two _ensure_ checks ask all runs).   *)
OneFinalMatch ==
    \A n, k \in With(matches, Final) : n # k =>
        /\ BankOf(matches[n]) \cap BankOf(matches[k]) = {}
        /\ BookOf(matches[n]) \cap BookOf(matches[k]) = {}

(* A line that is not ignored shows as matched exactly when a final match  *)
(* of some run has it: what lists, metrics and the engine go by is kept in *)
(* step although matching, unmatching and exceptions each refresh only     *)
(* part of the lines.                                                      *)
FinalIsShown ==
    \A l \in Lines : exception[l] # "ignored" =>
        (shown[l] \in Final <=> l \in BankIn(matches, Final))

(* The two sides of a match are allocated the same amount, and no line     *)
(* more than its own (the two allocation loops of _create_match).          *)
SidesAgree ==
    \A n \in DOMAIN matches :
        LET m == matches[n]
        IN /\ Total(BankOf(m), m.bank) = Total(BookOf(m), m.book)
           /\ \A l \in BankOf(m) : m.bank[l] \in 1..LineAmount[l]
           /\ \A b \in BookOf(m) : m.book[b] \in 1..BookAmount[b]

(* An instrument is linked to a line only while a final match has that     *)
(* line, and no two instruments to the same line: undoing a match releases *)
(* what it linked (treasury/reconciliation.py).                            *)
LinksAreFinal ==
    \A i \in Instruments : \A p \in link[i] :
        /\ matches[p[1]].status \in Final /\ p[2] \in BankOf(matches[p[1]])
        /\ \A j \in Instruments : p \in link[j] => i = j

(* The voucher made from a statement line stays posted, and with it the    *)
(* only one: the match that came with it protects its journal line even    *)
(* after it is undone, so that the voucher cannot be unposted nor hence    *)
(* cancelled, which create_voucher_from_bank_line asks for.                *)
VoucherStands == \A l \in Lines : \A b \in voucher[l] : book[b] = "posted"

(* "Run ... is locked. Unlock it before applying further reconciliation,   *)
(* voucher, or exception actions": a run that is locked stays so until it  *)
(* is unlocked (ensure_run_mutable).                                       *)
LockHolds == \A r \in lockedBy : status[r] = "locked"
=============================================================================
