----------------------------- MODULE MCEventFeed -----------------------------
(***************************************************************************)
(* Instances of EventFeed for TLC.                                         *)
(***************************************************************************)
EXTENDS EventFeed

CONSTANTS a1, a2
=============================================================================
