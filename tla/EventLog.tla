------------------------------ MODULE EventLog ------------------------------
(***************************************************************************)
(* What the CRM is promised about events, with no senders, locks or        *)
(* transactions in sight: an event is published with its change, or        *)
(* neither is; the CRM receives published events only; the attempts at one *)
(* end with the delivery, if any; an event marked delivered was received.  *)
(* It may be received more often than that, and in any order.              *)
(***************************************************************************)
EXTENDS Sequences

CONSTANT Event

VARIABLES
    published,    \* events whose change is committed
    received,     \* events the CRM has received, at least once
    attempts      \* [Event -> Seq({"delivered", "failed"})], delivery_attempt

logVars == <<published, received, attempts>>

Init ==
    /\ published = {}
    /\ received = {}
    /\ attempts = [e \in Event |-> <<>>]

Publish(S) ==
    /\ published' = published \cup S
    /\ UNCHANGED <<received, attempts>>

(***************************************************************************)
(* The CRM receives e; whether it gets to say so is another matter.        *)
(***************************************************************************)
Receive(e) ==
    /\ e \in published
    /\ received' = received \cup {e}
    /\ UNCHANGED <<published, attempts>>

Attempted(e, outcome) ==
    /\ e \in published
    /\ \A i \in DOMAIN attempts[e] : attempts[e][i] = "failed"
    /\ outcome = "delivered" => e \in received
    /\ attempts' = [attempts EXCEPT ![e] = Append(@, outcome)]
    /\ UNCHANGED <<published, received>>

Next ==
    \/ \E S \in SUBSET Event : Publish(S)
    \/ \E e \in Event : Receive(e)
    \/ \E e \in Event, outcome \in {"delivered", "failed"} : Attempted(e, outcome)

Spec == Init /\ [][Next]_logVars
=============================================================================
