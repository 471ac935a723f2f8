---------------------------- MODULE Allocation ----------------------------
(***************************************************************************)
(* What settling promises of the bills (post_settlement and                *)
(* cancel_settlement): a settlement takes from the bills at most once in   *)
(* its life, all it takes at once and of no bill more than the others have *)
(* left of it; what it has taken stays as it is, until all of it is given  *)
(* back for good.                                                          *)
(***************************************************************************)
EXTENDS Integers, Functions

CONSTANTS Bills, Settlements, Amount

VARIABLES
    taken,      \* what each settlement has taken of each bill
    over        \* the settlements that have taken, or never will

vars == <<taken, over>>

Nothing == [b \in Bills |-> 0]

Init == taken = [s \in Settlements |-> Nothing] /\ over = {}

Left(b) == Amount[b] - SumFunction([s \in Settlements |-> taken[s][b]])

\* Where nothing is left of a bill, nothing is taken of it.
Take(s) ==
    /\ s \notin over /\ over' = over \cup {s}
    /\ taken' \in [Settlements -> [Bills -> Nat]]
    /\ \A t \in Settlements \ {s} : taken'[t] = taken[t]
    /\ \A b \in Bills : taken'[s][b] <= Left(b)

GiveBack(s) ==
    /\ taken' = [taken EXCEPT ![s] = Nothing]
    /\ over' = over \cup {s}

Next == \E s \in Settlements : Take(s) \/ GiveBack(s)

Spec == Init /\ [][Next]_vars
=============================================================================
