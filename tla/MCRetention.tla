---------------------------- MODULE MCRetention -----------------------------
EXTENDS Retention

MCMonths == [no_application |-> 1, in_process |-> None, rejected |-> 1, hired |-> 1, withdrawn |-> 1]

MCSpec == RetentionInit /\ [][RetentionNext]_retentionVars
=============================================================================
