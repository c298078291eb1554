------------------------------ MODULE JobLedger ------------------------------
(***************************************************************************)
(* What the job queue promises, with no workers, locks or transactions in  *)
(* sight: a job, once submitted, is open until it settles exactly once;    *)
(* each attempt leaves exactly one entry in the append-only history; an    *)
(* attempt whose worker stopped leaves the job open, until MaxAttempts of  *)
(* them have failed it. A handler's work is kept exactly when "succeeded"  *)
(* is written, in the same step.                                           *)
(***************************************************************************)
EXTENDS Naturals, Sequences, FiniteSets

CONSTANTS
    Job,          \* jobs.job ids
    MaxAttempts   \* MAX_ATTEMPTS: stopped attempts after which a job fails

VARIABLES
    state,        \* [Job -> {"absent", "open", "succeeded", "failed"}]
    history       \* [Job -> Seq of run outcomes], audit.job_run

ledgerVars == <<state, history>>

Init ==
    /\ state = [j \in Job |-> "absent"]
    /\ history = [j \in Job |-> <<>>]

(***************************************************************************)
(* A new job, put in the queue.                                            *)
(***************************************************************************)
Submit(j) ==
    /\ state[j] = "absent"
    /\ state' = [state EXCEPT ![j] = "open"]
    /\ UNCHANGED history

(***************************************************************************)
(* One attempt at j ends with an outcome of its own, which is final. An    *)
(* attempt that succeeds may leave follow-up jobs behind, all at once with *)
(* its own success: no follow-up of work that was not kept.                *)
(***************************************************************************)
Settle(j, outcome, followUp) ==
    /\ state[j] = "open"
    /\ \A k \in followUp : state[k] = "absent"
    /\ outcome = "failed" => followUp = {}
    /\ state' = [k \in Job |-> IF k = j THEN outcome
                               ELSE IF k \in followUp THEN "open" ELSE state[k]]
    /\ history' = [history EXCEPT ![j] = Append(@, outcome)]

(***************************************************************************)
(* One attempt at each job of S is found to have lost its worker.          *)
(***************************************************************************)
Stop(S) ==
    /\ \A j \in S : state[j] = "open"
    /\ history' = [j \in Job |-> IF j \in S THEN Append(history[j], "stopped")
                                 ELSE history[j]]
    /\ state' = [j \in Job |-> IF j \in S /\ Len(history[j]) + 1 >= MaxAttempts
                               THEN "failed" ELSE state[j]]

Next ==
    \/ \E j \in Job : Submit(j)
    \/ \E j \in Job, outcome \in {"succeeded", "failed"}, followUp \in SUBSET Job :
          Settle(j, outcome, followUp)
    \/ \E S \in SUBSET Job : Stop(S)

Spec == Init /\ [][Next]_ledgerVars
=============================================================================
