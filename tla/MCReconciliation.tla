-------------------------- MODULE MCReconciliation --------------------------
(* A small instance of Reconciliation for TLC: two statement lines of the  *)
(* same amount, journal lines that fit one, either or both of them, and    *)
(* two runs, the earlier of which sees the first line only.                *)
EXTENDS Reconciliation, TLC

CONSTANTS early, late, cheque, transfer

SeesUpTo   == (early :> {1}) @@ (late :> {1, 2})
LedgerUpTo == (early :> {1}) @@ (late :> {1, 2, 3})
OneEach    == [l \in Lines |-> 1]
TwoIsTwo   == [b \in Books |-> IF b = 2 THEN 2 ELSE 1]
InstrumentOne == [i \in Instruments |-> 1]
Scores     == [p \in Pairs |-> CASE p[2] = 2 -> 0
                                 [] p = <<1, 1>> -> 98
                                 [] p = <<1, 3>> -> 82
                                 [] p = <<2, 1>> -> 82
                                 [] p = <<2, 3>> -> 74]
Alike      == {<<1, 1>>}
Quoted     == {<<cheque, 1>>, <<transfer, 1>>, <<transfer, 2>>}

\* Which status an unlocked run has decides nothing but LockHolds.
Unlocked == [r \in Runs |-> status[r] \notin {"none", "locked"}]
Essence  == <<matches, shown, exception, Unlocked, {r \in Runs : status[r] = "none"},
              book, voucher, link>>
=============================================================================
