------------------------------- MODULE Checks -------------------------------
(***************************************************************************)
(* One candidate's fields and the people who check them: verify_field and  *)
(* close_checked_candidate (intake/manual.py), the route that does both in *)
(* one transaction, and the trigger on a resolution (migration 0010), at   *)
(* READ COMMITTED.                                                         *)
(***************************************************************************)
EXTENDS Absent, FiniteSets

CONSTANTS
    Field,
    Checker      \* requests that check a field

ASSUME FieldAssumption == Field # {}
ASSUME NoFieldAssumption == None \notin Field

VARIABLES
    unverified,  \* fields whose current row is unverified, as committed
    item,        \* the unverified_candidate item: "open", "checked" or "dismissed"
    check,       \* the requests under way, and the field whose newest row is theirs
    overlapped   \* a check committed while another had already counted

checksVars == <<unverified, item, check, overlapped>>

NoCheck == [stage |-> "idle", field |-> None]

ChecksInit ==
    /\ unverified = Field /\ item = "open" /\ overlapped = FALSE
    /\ check = [t \in Checker |-> NoCheck]

CheckAt(t, stage) == check[t].stage = stage
CheckGoes(t, stage) == check' = [check EXCEPT ![t].stage = stage]

\* The transaction sees its own row.
SeenBy(t) == unverified \ {check[t].field}

\* A check adds a verified row, also of a field that already has one.
InsertCheck(t, field) ==
    /\ CheckAt(t, "idle")
    /\ check' = [check EXCEPT ![t] = [stage |-> "inserted", field |-> field]]
    /\ UNCHANGED <<unverified, item, overlapped>>

\* Mutant of CountUnchecked: counts before its own row is there.
CountBefore(t) ==
    /\ CheckAt(t, "inserted")
    /\ CheckGoes(t, IF unverified = {} /\ item = "open" THEN "closing" ELSE "leaving")
    /\ UNCHANGED <<unverified, item, overlapped>>

\* unchecked_fields, and the open item when there are none.
CountUnchecked(t) ==
    /\ CheckAt(t, "inserted")
    /\ CheckGoes(t, IF SeenBy(t) = {} /\ item = "open" THEN "closing" ELSE "leaving")
    /\ UNCHANGED <<unverified, item, overlapped>>

\* The resolution: refused, and the check with it, if there is one or a field
\* has become unverified.  Waits for a resolution that is being inserted.
InsertResolution(t) ==
    /\ CheckAt(t, "closing")
    /\ ~ \E u \in Checker : CheckAt(u, "resolved")
    /\ IF item = "open" /\ SeenBy(t) = {} THEN CheckGoes(t, "resolved")
       ELSE check' = [check EXCEPT ![t] = NoCheck]
    /\ UNCHANGED <<unverified, item, overlapped>>

CommitCheck(t) ==
    /\ CheckAt(t, "leaving") \/ CheckAt(t, "resolved")
    /\ unverified' = SeenBy(t)
    /\ item' = IF CheckAt(t, "resolved") THEN "checked" ELSE item
    /\ overlapped' = (overlapped \/ \E u \in Checker \ {t} : CheckAt(u, "leaving"))
    /\ check' = [check EXCEPT ![t] = NoCheck]

\* An application or a reading gives a field a new, unverified row: a check
\* under way has no longer written the newest.
RenewField(field) ==
    /\ field \in unverified => \E t \in Checker : check[t].field = field
    /\ unverified' = unverified \cup {field}
    /\ check' = [t \in Checker |->
                    IF check[t].field = field THEN [check[t] EXCEPT !.field = None] ELSE check[t]]
    /\ UNCHANGED <<item, overlapped>>

\* From the queue, with the same trigger.
ResolveByHand(outcome) ==
    /\ item = "open"
    /\ outcome = "checked" => unverified = {}
    /\ ~ \E t \in Checker : CheckAt(t, "resolved")
    /\ item' = outcome
    /\ UNCHANGED <<unverified, check, overlapped>>

ChecksNext ==
    \/ \E t \in Checker :
        \/ \E field \in Field : InsertCheck(t, field)
        \/ CountUnchecked(t) \/ InsertResolution(t) \/ CommitCheck(t)
    \/ \E field \in Field : RenewField(field)
    \/ \E outcome \in {"checked", "dismissed"} : ResolveByHand(outcome)

ChecksSpec == ChecksInit /\ [][ChecksNext]_checksVars

-----------------------------------------------------------------------------

(***************************************************************************)
(* "Once no field is left unchecked, the candidate's unverified_candidate  *)
(* review item is resolved as checked": an item does not stay open for a   *)
(* candidate whose last field has been checked, but where the last checks  *)
(* overlapped, and each still counted the other's field.                   *)
(***************************************************************************)
LastCheckClosesTheItem ==
    unverified = {} /\ item = "open" => overlapped
=============================================================================
