----------------------------- MODULE MCPipeline -----------------------------
(***************************************************************************)
(* Pipeline for TLC, with up to two step lists: on the second one "hired"  *)
(* is no longer final and a reason is gone.  A behaviour stays in one of   *)
(* three scopes, each of which has what the others leave out.              *)
(***************************************************************************)
EXTENDS Pipeline, TLC

CONSTANTS p1, i1, l1, l2, r1, r2

VARIABLE scope

MCStep == {"new", "hired", "onboarded", "rejected"}
MCFirstStep == [l \in List |-> "new"]
MCHired == [l \in List |-> IF l = l1 THEN "hired" ELSE "onboarded"]
MCRejected == [l \in List |-> "rejected"]
MCAllowedMove ==
    [l \in List |->
        {<<"new", "hired">>, <<"new", "rejected">>}
        \cup IF l = l1 THEN {} ELSE {<<"hired", "onboarded">>, <<"hired", "rejected">>}]
MCListedReason == [l \in List |-> IF l = l1 THEN Reason ELSE Reason \ {r1}]

InTxn(kind) == {txn[p] : p \in {q \in Actor : txn[q] # None /\ txn[q].kind = kind}}

OneApplication ==
    /\ \A a \in Application \ {1} : application[a] = None
    /\ \A t \in InTxn("apply") : t.app = 1
    /\ \A o \in Opening : opening[o] = "open"
OneItem == \A t \in InTxn("propose") : t.item = i1
FirstList ==
    /\ loaded = {l1}
    /\ \A t \in InTxn("move") : t.from = "new"

\* p1 is also the scoring worker; the first item is the first.
OneProposes ==
    /\ \A p \in Actor \ {p1} : txn[p] # None => txn[p].kind # "propose"
    /\ \A t \in InTxn("propose") : t.item = i1 \/ item[i1] # None

\* Two proposals on one application; its list is replaced; several
\* applications to an opening that is closed.
InScope ==
    /\ OneProposes
    /\ CASE scope = "decisions" -> OneApplication /\ FirstList
         [] scope = "lists" -> OneApplication /\ OneItem
         [] scope = "requests" ->
               /\ FirstList /\ OneItem
               /\ \A t \in InTxn("move") : t.to = "rejected" /\ t.reason = r2
               /\ \A t \in InTxn("propose") : t.reason = r2

Scopes == {"decisions", "lists", "requests"}

MCInit == Init /\ scope \in Scopes
MCNext == Next /\ UNCHANGED scope /\ InScope'

MCSpec == MCInit /\ [][MCNext]_<<vars, scope>> /\ Fairness
=============================================================================
