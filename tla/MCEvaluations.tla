--------------------------- MODULE MCEvaluations ----------------------------
EXTENDS Evaluations

MCSubmitterOf == [a \in Submission |-> "c1"]

\* Withdrawals come and go while no run is at work.
MCNext ==
    /\ EvaluationsNext
    /\ locked' # locked => \A a \in Submission : work[a].status # "running"

MCSpec == EvaluationsInit /\ [][MCNext]_evaluationsVars
=============================================================================
