------------------------------ MODULE MCReading ------------------------------
(***************************************************************************)
(* Instances of Reading for TLC.                                           *)
(***************************************************************************)
EXTENDS Reading

CONSTANTS w1, w2, r1, r2
=============================================================================
