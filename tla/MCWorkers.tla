----------------------------- MODULE MCWorkers ------------------------------
(***************************************************************************)
(* EventDelivery and JobQueue for TLC, side by side: a behaviour is one of *)
(* the senders or one of the workers, with the others where they began.    *)
(* No lock connection of a worker is lost alone.                           *)
(***************************************************************************)
EXTENDS EventDelivery

CONSTANTS
    s1, s2, w1, w2,
    Worker, Job, Foreign, OneShot, MaxAttempts,
    MaxWorkerFaults

VARIABLES
    side,
    status, tries, delayed, runs, rowLock, advisory, alive, lockUp,
    workerPhase, job, result, todo, fixed, workerFaults

queueVars ==
    <<status, tries, delayed, runs, rowLock, advisory, alive, lockUp, workerPhase, job, result,
      todo, fixed, workerFaults>>

Queue == INSTANCE JobQueue
         WITH LockLoss <- FALSE, MaxFaults <- MaxWorkerFaults, attempts <- tries,
              phase <- workerPhase, faults <- workerFaults

WorkersInit == side \in {"senders", "workers"} /\ Init /\ Queue!Init

WorkersNext ==
    \/ side = "senders" /\ Next /\ UNCHANGED <<side, queueVars>>
    \/ side = "workers" /\ Queue!Next /\ UNCHANGED <<side, vars>>

WorkersSpec == WorkersInit /\ [][WorkersNext]_<<side, vars, queueVars>> /\ Fairness

(***************************************************************************)
(* "Two workers never run the same one" (jobs/queue.py): NeverRunTwice of  *)
(* JobQueue, over crashes, sessions that end in either order, commits in   *)
(* flight and recoveries by other workers.                                 *)
(***************************************************************************)
NeverRunTwice == Queue!NeverRunTwice
=============================================================================
