------------------------------- MODULE Ledger -------------------------------
(***************************************************************************)
(* What posting/services/posting_service.py promises its callers ("one    *)
(* atomic posting run ... safe re-post", posting/models.py): at every      *)
(* moment a document is either not in the ledger or there with all the    *)
(* lines of exactly one run, and the only thing that ever happens is that  *)
(* a new run takes the place of the document's previous one, whole and at  *)
(* once.                                                                   *)
(***************************************************************************)
CONSTANTS Runs, Docs

VARIABLES
    shown,      \* the runs whose lines a document has in the ledger
    used        \* the runs that have taken effect

vars == <<shown, used>>

Init == shown = [d \in Docs |-> {}] /\ used = {}

Post(d, r) ==
    /\ r \notin used
    /\ shown' = [shown EXCEPT ![d] = {r}]
    /\ used' = used \cup {r}

Next == \E d \in Docs, r \in Runs : Post(d, r)

Spec == Init /\ [][Next]_vars
=============================================================================
