----------------------------- MODULE MCPosting -----------------------------
(* Small instances of Posting for TLC. *)
EXTENDS Posting, TLC

CONSTANTS r1, r2, r3, w1, w2, voucher, opening

(* hash() of a str is salted per process: no two processes agree. *)
ProcessKeys == [w \in Workers |-> [d \in Docs |-> <<w, d>>]]

(* Agreement on the documents no caller locks, and only there. *)
NeededKeys == [w \in Workers |-> [d \in Docs |->
                  IF d \in HeaderLocked THEN <<w, d>> ELSE d]]

AllKeys == Docs \cup (Workers \X Docs)

Line(n, side, amount) == [n |-> n, drcr |-> side, amount |-> amount]

(* A sale with a split debit and a line of zero, which is skipped; a       *)
(* credit for more than was debited.                                       *)
Sale    == {Line(1, TRUE, 1), Line(2, TRUE, 2), Line(3, FALSE, 3), Line(4, TRUE, 0)}
Lopside == {Line(1, TRUE, 1), Line(2, FALSE, 2)}

SomeInputs  == {Sale, Lopside}
RunSymmetry == Permutations(Runs)
=============================================================================
