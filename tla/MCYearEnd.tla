----------------------------- MODULE MCYearEnd -----------------------------
(* A small instance of YearEnd for TLC: a document of a branch in the      *)
(* first of three years.                                                   *)
EXTENDS YearEnd, TLC

CONSTANTS branch, d

ThreeYears     == 1 .. 3
FirstYear      == [doc \in Docs |-> 1]
InBranch       == [doc \in Docs |-> branch]
WholeEntity    == {<<1, All>>, <<2, All>>}
WholeAndBranch == WholeEntity \cup {<<1, branch>>}
=============================================================================
