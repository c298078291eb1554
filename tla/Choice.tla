------------------------------- MODULE Choice -------------------------------
(***************************************************************************)
(* A chain of early returns, as the value beside the first condition that  *)
(* holds.                                                                  *)
(***************************************************************************)
EXTENDS Absent, Integers

FirstOf(choices, otherwise) ==
    LET holds == {i \in DOMAIN choices : choices[i][1]}
    IN  IF holds = {} THEN otherwise
        ELSE choices[CHOOSE i \in holds : \A j \in holds : i <= j][2]
=============================================================================
