---------------------------- MODULE MCNumbering ----------------------------
(* Small instances of Numbering for TLC: the vouchers of a financial year  *)
(* that spans two calendar years, in a branch that draws from the series   *)
(* of the entity until it has one of its own.                              *)
EXTENDS Numbering, TLC

CONSTANTS root, branch, d1, d2

InBranch == [d \in Docs |-> branch]

SetUp(kind, restarts, edited, typed) ==
    [kind |-> kind, restarts |-> restarts, edited |-> edited, typed |-> typed]

(* Each kind, with series that restart, with screens that write a counter  *)
(* back, with both, with neither, and with a counter that is typed.        *)
EverySetup ==
    {SetUp("payment", TRUE, TRUE, {}), SetUp("payment", FALSE, TRUE, {2}),
     SetUp("payment", FALSE, FALSE, {}), SetUp("receipt", TRUE, FALSE, {}),
     SetUp("receipt", FALSE, TRUE, {}), SetUp("receipt", FALSE, FALSE, {}),
     SetUp("journal", TRUE, FALSE, {}), SetUp("journal", FALSE, FALSE, {})}
=============================================================================
