------------------------------- MODULE Absent -------------------------------
(***************************************************************************)
(* A value that is not there: SQL's NULL, Python's None.                   *)
(***************************************************************************)
CONSTANT None
=============================================================================
