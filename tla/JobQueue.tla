------------------------------ MODULE JobQueue ------------------------------
(***************************************************************************)
(* The background job queue: src/src/jobs/queue.py and the worker loop of  *)
(* src/src/jobs/__main__.py, over PostgreSQL at READ COMMITTED.            *)
(*                                                                         *)
(* A worker process uses two connections. On the lock connection it holds  *)
(* a session advisory lock on the job; on the work connection it runs two  *)
(* transactions, one that claims the job and one that does the work and    *)
(* records the run. The server ends a dead process's two sessions          *)
(* independently, in either order, and a COMMIT it had already received    *)
(* still takes effect: that is why a phase outlives the process here.      *)
(***************************************************************************)
EXTENDS Naturals, Sequences, FiniteSets

CONSTANTS
    Worker,        \* worker processes
    Job,           \* jobs.job ids, in the order they were given out
    Foreign,       \* jobs of a kind no worker of this release has a handler for
    OneShot,       \* workers started for one given job (work --job J)
    MaxAttempts,   \* MAX_ATTEMPTS
    LockLoss,      \* may a live worker lose its idle lock connection alone?
    MaxFaults,     \* bound: crashes, database errors and lost lock connections
    None           \* no holder

ASSUME JobAssumption == Job \subseteq Nat
ASSUME MaxAttemptsAssumption == MaxAttempts \in Nat \ {0}
ASSUME MaxFaultsAssumption == MaxFaults \in Nat
ASSUME NoneAssumption == None \notin Worker
ASSUME LockLossAssumption == LockLoss \in BOOLEAN

VARIABLES
    status,     \* jobs.job.status as committed; "absent" before its INSERT commits
    attempts,   \* jobs.job.attempts
    delayed,    \* run_after is still in the future
    runs,       \* audit.job_run: the outcomes recorded for each job, oldest first
    rowLock,    \* whose transaction holds the FOR UPDATE / UPDATE lock on the row
    advisory,   \* whose lock session holds the job's advisory lock
    alive,      \* the worker process is running
    lockUp,     \* its lock session is open at the server
    phase,      \* how far its work session has come
    job,        \* the job in hand
    result,     \* the outcome its open transaction has written, not yet committed
    todo,       \* recover_stopped: jobs still to look at
    fixed,      \* recover_stopped: jobs marked in its open transaction
    faults      \* faults so far, up to MaxFaults

vars == <<status, attempts, delayed, runs, rowLock, advisory, alive, lockUp,
          phase, job, result, todo, fixed, faults>>

table == <<status, attempts, delayed, runs>>
recovery == <<todo, fixed>>

Status == {"absent", "queued", "running", "succeeded", "failed"}
Settled == {"succeeded", "failed"}
Outcome == {"succeeded", "failed", "stopped"}

(***************************************************************************)
(* "due" is a process whose next call is recover_stopped (it has just      *)
(* started, a minute has passed, or the last call failed); "gone" is a     *)
(* dead process's ended work session.                                      *)
(***************************************************************************)
Phase == {"due", "idle", "picked", "locked", "working", "finishing", "releasing",
          "scanning", "holding", "gone"}

Init ==
    /\ status = [j \in Job |-> "absent"]
    /\ attempts = [j \in Job |-> 0]
    /\ delayed = [j \in Job |-> FALSE]
    /\ runs = [j \in Job |-> <<>>]
    /\ rowLock = [j \in Job |-> None]
    /\ advisory = [j \in Job |-> None]
    /\ alive = [w \in Worker |-> TRUE]
    /\ lockUp = [w \in Worker |-> FALSE]
    /\ phase = [w \in Worker |-> "due"]
    /\ job = [w \in Worker |-> None]
    /\ result = [w \in Worker |-> None]
    /\ todo = [w \in Worker |-> {}]
    /\ fixed = [w \in Worker |-> {}]
    /\ faults = 0

-----------------------------------------------------------------------------
(* Lock releases.                                                           *)

Without(locks, w) == [j \in Job |-> IF locks[j] = w THEN None ELSE locks[j]]
Oldest(S) == {j \in S : \A k \in S : j <= k}

(***************************************************************************)
(* enqueue: an INSERT with or without run_after. Ids are given out before  *)
(* the INSERT commits, so they need not become visible in order.           *)
(***************************************************************************)
Enqueue(j) ==
    /\ status[j] = "absent"
    /\ status' = [status EXCEPT ![j] = "queued"]
    /\ \E later \in BOOLEAN : delayed' = [delayed EXCEPT ![j] = later]
    /\ UNCHANGED <<attempts, runs, rowLock, advisory, alive, lockUp, phase, job,
                   result, recovery, faults>>

(***************************************************************************)
(* run_after passes.                                                       *)
(***************************************************************************)
ComeDue(j) ==
    /\ delayed[j]
    /\ delayed' = [delayed EXCEPT ![j] = FALSE]
    /\ UNCHANGED <<status, attempts, runs, rowLock, advisory, alive, lockUp, phase,
                   job, result, recovery, faults>>

-----------------------------------------------------------------------------
(* work_one.                                                                *)

(***************************************************************************)
(* The rows claim's SELECT can return: queued, of a handled kind, due, and *)
(* not locked by another transaction (SKIP LOCKED).                        *)
(***************************************************************************)
Claimable == {j \in Job \ Foreign : /\ status[j] = "queued"
                                    /\ ~delayed[j]
                                    /\ rowLock[j] = None}

(***************************************************************************)
(* claim's SELECT ... FOR UPDATE SKIP LOCKED LIMIT 1: the oldest claimable *)
(* job, or the one the worker was started for.                             *)
(***************************************************************************)
Pick(w, j) ==
    /\ alive[w]
    /\ phase[w] = "idle"
    /\ j \in (IF w \in OneShot THEN Claimable ELSE Oldest(Claimable))
    /\ rowLock' = [rowLock EXCEPT ![j] = w]
    /\ lockUp' = [lockUp EXCEPT ![w] = TRUE]
    /\ phase' = [phase EXCEPT ![w] = "picked"]
    /\ job' = [job EXCEPT ![w] = j]
    /\ UNCHANGED <<table, advisory, alive, result, recovery, faults>>

(***************************************************************************)
(* claim's pg_try_advisory_lock, granted.                                  *)
(***************************************************************************)
LockJob(w) ==
    /\ alive[w]
    /\ phase[w] = "picked"
    /\ lockUp[w]
    /\ advisory[job[w]] = None
    /\ advisory' = [advisory EXCEPT ![job[w]] = w]
    /\ phase' = [phase EXCEPT ![w] = "locked"]
    /\ UNCHANGED <<table, rowLock, alive, lockUp, job, result, recovery, faults>>

(***************************************************************************)
(* Refused: some session still holds it. claim returns None and does not   *)
(* look for another job; the transaction ends with nothing written.        *)
(***************************************************************************)
LockRefused(w) ==
    /\ alive[w]
    /\ phase[w] = "picked"
    /\ lockUp[w]
    /\ advisory[job[w]] # None
    /\ rowLock' = Without(rowLock, w)
    /\ phase' = [phase EXCEPT ![w] = "releasing"]
    /\ UNCHANGED <<table, advisory, alive, lockUp, job, result, recovery, faults>>

(***************************************************************************)
(* Mutant of ClaimCommit: a lock of the transaction, not of the session.   *)
(***************************************************************************)
ClaimCommitReleasesLock(w) ==
    /\ phase[w] = "locked"
    /\ status' = [status EXCEPT ![job[w]] = "running"]
    /\ attempts' = [attempts EXCEPT ![job[w]] = @ + 1]
    /\ rowLock' = Without(rowLock, w)
    /\ advisory' = Without(advisory, w)
    /\ phase' = [phase EXCEPT ![w] = "working"]
    /\ UNCHANGED <<delayed, runs, alive, lockUp, job, result, recovery, faults>>

(***************************************************************************)
(* claim's UPDATE to running, and the COMMIT of the claiming transaction.  *)
(***************************************************************************)
ClaimCommit(w) ==
    /\ phase[w] = "locked"
    /\ status' = [status EXCEPT ![job[w]] = "running"]
    /\ attempts' = [attempts EXCEPT ![job[w]] = @ + 1]
    /\ rowLock' = Without(rowLock, w)
    /\ phase' = [phase EXCEPT ![w] = "working"]
    /\ UNCHANGED <<delayed, runs, advisory, alive, lockUp, job, result, recovery,
                   faults>>

(***************************************************************************)
(* Mutants of GuardAllows: only the finality of a finished job is kept; a  *)
(* finished job may be taken up again.                                     *)
(***************************************************************************)
GuardOnlyFinished(old, new) == old \notin Settled
GuardNotFinal(old, new) == old # "queued" \/ new \in {"queued", "running"}

(***************************************************************************)
(* jobs.guard_job, the trigger on every UPDATE of jobs.job: which status   *)
(* may follow which. A finished job is final.                              *)
(***************************************************************************)
GuardAllows(old, new) ==
    \/ old = "queued" /\ new \in {"queued", "running"}
    \/ old = "running" /\ new \in {"running", "queued", "succeeded", "failed"}

(***************************************************************************)
(* Mutant of Finish: the outcome is never set.                             *)
(***************************************************************************)
FinishWithoutOutcome(w) ==
    /\ alive[w]
    /\ phase[w] = "working"
    /\ rowLock[job[w]] = None
    /\ GuardAllows(status[job[w]], "failed")
    /\ rowLock' = [rowLock EXCEPT ![job[w]] = w]
    /\ phase' = [phase EXCEPT ![w] = "finishing"]
    /\ UNCHANGED <<table, advisory, alive, lockUp, job, result, recovery, faults>>

(***************************************************************************)
(* run_job: the handler returns, or raises and its savepoint is rolled     *)
(* back; then the status UPDATE, which waits for the row and passes the    *)
(* trigger, and the run record. Nothing is visible before the COMMIT.      *)
(***************************************************************************)
Finish(w) ==
    /\ alive[w]
    /\ phase[w] = "working"
    /\ rowLock[job[w]] = None
    /\ \E outcome \in Settled :
          /\ GuardAllows(status[job[w]], outcome)
          /\ result' = [result EXCEPT ![w] = outcome]
    /\ rowLock' = [rowLock EXCEPT ![job[w]] = w]
    /\ phase' = [phase EXCEPT ![w] = "finishing"]
    /\ UNCHANGED <<table, advisory, alive, lockUp, job, recovery, faults>>

(***************************************************************************)
(* The trigger refuses the UPDATE, because the job was requeued or settled *)
(* behind this worker's back: the whole work transaction rolls back, no    *)
(* run is recorded.                                                        *)
(***************************************************************************)
FinishRefused(w) ==
    /\ alive[w]
    /\ phase[w] = "working"
    /\ rowLock[job[w]] = None
    /\ \A outcome \in Settled : ~GuardAllows(status[job[w]], outcome)
    /\ phase' = [phase EXCEPT ![w] = "releasing"]
    /\ UNCHANGED <<table, rowLock, advisory, alive, lockUp, job, result, recovery,
                   faults>>

(***************************************************************************)
(* Mutant of WorkCommit: no savepoint, so a failed handler's follow-up job *)
(* is kept with the failed run.                                            *)
(***************************************************************************)
WorkCommitNoSavepoint(w) ==
    /\ phase[w] = "finishing"
    /\ \E followUp \in SUBSET {k \in Job : status[k] = "absent"} :
          /\ Cardinality(followUp) <= 1
          /\ status' = [k \in Job |-> IF k = job[w] THEN result[w]
                                      ELSE IF k \in followUp THEN "queued" ELSE status[k]]
          /\ delayed' = [k \in Job |-> IF k \in followUp THEN TRUE ELSE delayed[k]]
    /\ runs' = [runs EXCEPT ![job[w]] = Append(@, result[w])]
    /\ rowLock' = Without(rowLock, w)
    /\ result' = [result EXCEPT ![w] = None]
    /\ phase' = [phase EXCEPT ![w] = "releasing"]
    /\ UNCHANGED <<attempts, advisory, alive, lockUp, job, recovery, faults>>

(***************************************************************************)
(* The work transaction commits: status, run record and, when the handler  *)
(* succeeded, its writes, among them possibly a delayed follow-up job.     *)
(***************************************************************************)
WorkCommit(w) ==
    /\ phase[w] = "finishing"
    /\ \E followUp \in SUBSET {k \in Job : status[k] = "absent"} :
          /\ Cardinality(followUp) <= 1
          /\ result[w] = "failed" => followUp = {}
          /\ status' = [k \in Job |-> IF k = job[w] THEN result[w]
                                      ELSE IF k \in followUp THEN "queued" ELSE status[k]]
          /\ delayed' = [k \in Job |-> IF k \in followUp THEN TRUE ELSE delayed[k]]
    /\ runs' = [runs EXCEPT ![job[w]] = Append(@, result[w])]
    /\ rowLock' = Without(rowLock, w)
    /\ result' = [result EXCEPT ![w] = None]
    /\ phase' = [phase EXCEPT ![w] = "releasing"]
    /\ UNCHANGED <<attempts, advisory, alive, lockUp, job, recovery, faults>>

(***************************************************************************)
(* Mutant of Release: the connection goes back to the pool still holding   *)
(* its session locks.                                                      *)
(***************************************************************************)
ReleaseWithoutUnlock(w) ==
    /\ alive[w]
    /\ phase[w] = "releasing"
    /\ lockUp' = [lockUp EXCEPT ![w] = FALSE]
    /\ phase' = [phase EXCEPT ![w] = "idle"]
    /\ job' = [job EXCEPT ![w] = None]
    /\ UNCHANGED <<table, rowLock, advisory, alive, result, recovery, faults>>

(***************************************************************************)
(* work_one's finally: pg_advisory_unlock_all, errors suppressed.          *)
(***************************************************************************)
Release(w) ==
    /\ alive[w]
    /\ phase[w] = "releasing"
    /\ advisory' = Without(advisory, w)
    /\ lockUp' = [lockUp EXCEPT ![w] = FALSE]
    /\ phase' = [phase EXCEPT ![w] = "idle"]
    /\ job' = [job EXCEPT ![w] = None]
    /\ UNCHANGED <<table, rowLock, alive, result, recovery, faults>>

-----------------------------------------------------------------------------
(* recover_stopped.                                                         *)

(***************************************************************************)
(* The loop of main: RECOVER_EVERY_SECONDS have passed.                    *)
(***************************************************************************)
RecoveryDue(w) ==
    /\ alive[w]
    /\ phase[w] = "idle"
    /\ phase' = [phase EXCEPT ![w] = "due"]
    /\ UNCHANGED <<table, rowLock, advisory, alive, lockUp, job, result, recovery,
                   faults>>

(***************************************************************************)
(* SELECT ... WHERE status = 'running' FOR UPDATE SKIP LOCKED.             *)
(***************************************************************************)
Scan(w) ==
    /\ alive[w]
    /\ phase[w] = "due"
    /\ LET found == {j \in Job : status[j] = "running" /\ rowLock[j] = None}
       IN  /\ todo' = [todo EXCEPT ![w] = found]
           /\ rowLock' = [j \in Job |-> IF j \in found THEN w ELSE rowLock[j]]
    /\ fixed' = [fixed EXCEPT ![w] = {}]
    /\ lockUp' = [lockUp EXCEPT ![w] = TRUE]
    /\ phase' = [phase EXCEPT ![w] = "scanning"]
    /\ UNCHANGED <<table, advisory, alive, job, result, faults>>

(***************************************************************************)
(* The lock is held: the worker is still there, the job is left alone. Its *)
(* row stays locked until the transaction ends.                            *)
(***************************************************************************)
LeaveAlone(w) ==
    /\ alive[w]
    /\ phase[w] = "scanning"
    /\ lockUp[w]
    /\ \E j \in Oldest(todo[w]) :
          /\ advisory[j] # None
          /\ todo' = [todo EXCEPT ![w] = @ \ {j}]
    /\ UNCHANGED <<table, rowLock, advisory, alive, lockUp, phase, job, result, fixed,
                   faults>>

(***************************************************************************)
(* The lock is free: the worker has gone.                                  *)
(***************************************************************************)
HoldStopped(w) ==
    /\ alive[w]
    /\ phase[w] = "scanning"
    /\ lockUp[w]
    /\ \E j \in Oldest(todo[w]) :
          /\ advisory[j] = None
          /\ advisory' = [advisory EXCEPT ![j] = w]
          /\ job' = [job EXCEPT ![w] = j]
    /\ phase' = [phase EXCEPT ![w] = "holding"]
    /\ UNCHANGED <<table, rowLock, alive, lockUp, result, recovery, faults>>

(***************************************************************************)
(* Mutant of MarkStopped: the finally without the unlock.                  *)
(***************************************************************************)
MarkWithoutUnlock(w) ==
    /\ alive[w]
    /\ phase[w] = "holding"
    /\ lockUp[w]
    /\ fixed' = [fixed EXCEPT ![w] = @ \cup {job[w]}]
    /\ todo' = [todo EXCEPT ![w] = @ \ {job[w]}]
    /\ job' = [job EXCEPT ![w] = None]
    /\ phase' = [phase EXCEPT ![w] = "scanning"]
    /\ UNCHANGED <<table, rowLock, advisory, alive, lockUp, result, faults>>

(***************************************************************************)
(* The status UPDATE and the failed run, in the open transaction; the      *)
(* advisory lock is given back before that transaction commits.            *)
(***************************************************************************)
MarkStopped(w) ==
    /\ alive[w]
    /\ phase[w] = "holding"
    /\ lockUp[w]
    /\ fixed' = [fixed EXCEPT ![w] = @ \cup {job[w]}]
    /\ todo' = [todo EXCEPT ![w] = @ \ {job[w]}]
    /\ advisory' = Without(advisory, w)
    /\ job' = [job EXCEPT ![w] = None]
    /\ phase' = [phase EXCEPT ![w] = "scanning"]
    /\ UNCHANGED <<table, rowLock, alive, lockUp, result, faults>>

(***************************************************************************)
(* lock_conn.commit(), then the COMMIT of the recovering transaction.      *)
(***************************************************************************)
RecoverCommit(w) ==
    /\ phase[w] = "scanning"
    /\ todo[w] = {}
    /\ alive[w] => lockUp[w]
    /\ status' = [j \in Job |-> IF j \in fixed[w]
                                THEN IF attempts[j] >= MaxAttempts THEN "failed" ELSE "queued"
                                ELSE status[j]]
    /\ runs' = [j \in Job |-> IF j \in fixed[w] THEN Append(runs[j], "stopped")
                              ELSE runs[j]]
    /\ rowLock' = Without(rowLock, w)
    /\ fixed' = [fixed EXCEPT ![w] = {}]
    /\ lockUp' = [lockUp EXCEPT ![w] = lockUp[w] /\ ~alive[w]]
    /\ phase' = [phase EXCEPT ![w] = IF alive[w] THEN "idle" ELSE "gone"]
    /\ UNCHANGED <<attempts, delayed, advisory, alive, job, result, todo, faults>>

-----------------------------------------------------------------------------
(* Faults. The server ends a transaction it lost the client of.             *)

Fault == faults < MaxFaults /\ faults' = faults + 1

(***************************************************************************)
(* The process dies: killed, crashed, machine lost.                        *)
(***************************************************************************)
Crash(w) ==
    /\ Fault
    /\ alive[w]
    /\ alive' = [alive EXCEPT ![w] = FALSE]
    /\ UNCHANGED <<table, rowLock, advisory, lockUp, phase, job, result, recovery>>

EndWorkSession(w) ==
    /\ ~alive[w]
    /\ phase[w] # "gone"
    /\ phase' = [phase EXCEPT ![w] = "gone"]
    /\ rowLock' = Without(rowLock, w)
    /\ job' = [job EXCEPT ![w] = None]
    /\ result' = [result EXCEPT ![w] = None]
    /\ todo' = [todo EXCEPT ![w] = {}]
    /\ fixed' = [fixed EXCEPT ![w] = {}]
    /\ UNCHANGED <<table, advisory, alive, lockUp, faults>>

EndLockSession(w) ==
    /\ ~alive[w]
    /\ lockUp[w]
    /\ advisory' = Without(advisory, w)
    /\ lockUp' = [lockUp EXCEPT ![w] = FALSE]
    /\ UNCHANGED <<table, rowLock, alive, phase, job, result, recovery, faults>>

(***************************************************************************)
(* The supervisor starts the process again (restart: unless-stopped); main *)
(* recovers before it works.                                               *)
(***************************************************************************)
Restart(w) ==
    /\ ~alive[w]
    /\ phase[w] = "gone"
    /\ ~lockUp[w]
    /\ alive' = [alive EXCEPT ![w] = TRUE]
    /\ phase' = [phase EXCEPT ![w] = "due"]
    /\ job' = [job EXCEPT ![w] = None]
    /\ UNCHANGED <<table, rowLock, advisory, lockUp, result, recovery, faults>>

(***************************************************************************)
(* The database fails the work connection of a live process: its           *)
(* transaction rolls back, the finally releases the advisory lock.         *)
(***************************************************************************)
WorkError(w) ==
    /\ Fault
    /\ alive[w]
    /\ phase[w] \in {"picked", "locked", "working", "finishing"}
    /\ rowLock' = Without(rowLock, w)
    /\ result' = [result EXCEPT ![w] = None]
    /\ phase' = [phase EXCEPT ![w] = "releasing"]
    /\ UNCHANGED <<table, advisory, alive, lockUp, job, recovery>>

(***************************************************************************)
(* recover_stopped raises and rolls back. last_recovery is not moved on,   *)
(* so the loop's next call is recover_stopped again.                       *)
(***************************************************************************)
RecoverAborts(w) ==
    /\ alive[w]
    /\ phase[w] \in {"scanning", "holding"}
    /\ rowLock' = Without(rowLock, w)
    /\ advisory' = Without(advisory, w)
    /\ lockUp' = [lockUp EXCEPT ![w] = FALSE]
    /\ phase' = [phase EXCEPT ![w] = "due"]
    /\ job' = [job EXCEPT ![w] = None]
    /\ todo' = [todo EXCEPT ![w] = {}]
    /\ fixed' = [fixed EXCEPT ![w] = {}]
    /\ UNCHANGED <<table, alive, result>>

RecoverError(w) == Fault /\ RecoverAborts(w)

(***************************************************************************)
(* The lock connection alone is lost while the process and its work        *)
(* connection live on (it sits idle through the whole of the work).        *)
(***************************************************************************)
LoseLock(w) ==
    /\ LockLoss
    /\ Fault
    /\ alive[w]
    /\ lockUp[w]
    /\ advisory' = Without(advisory, w)
    /\ lockUp' = [lockUp EXCEPT ![w] = FALSE]
    /\ UNCHANGED <<table, rowLock, alive, phase, job, result, recovery>>

(***************************************************************************)
(* It is noticed only where the next statement on it is not suppressed.    *)
(***************************************************************************)
NoticeLostLock(w) ==
    /\ alive[w]
    /\ ~lockUp[w]
    /\ \/ /\ phase[w] = "picked"
          /\ rowLock' = Without(rowLock, w)
          /\ phase' = [phase EXCEPT ![w] = "releasing"]
          /\ UNCHANGED <<table, advisory, alive, lockUp, job, result, recovery, faults>>
       \/ RecoverAborts(w) /\ UNCHANGED faults

-----------------------------------------------------------------------------
Work(w) ==
    \/ \E j \in Job : Pick(w, j)
    \/ LockJob(w)
    \/ LockRefused(w)
    \/ ClaimCommit(w)
    \/ Finish(w)
    \/ FinishRefused(w)
    \/ WorkCommit(w)
    \/ Release(w)

Recover(w) ==
    \/ RecoveryDue(w)
    \/ Scan(w)
    \/ LeaveAlone(w)
    \/ HoldStopped(w)
    \/ MarkStopped(w)
    \/ RecoverCommit(w)

Fail(w) ==
    \/ Crash(w)
    \/ EndWorkSession(w)
    \/ EndLockSession(w)
    \/ Restart(w)
    \/ WorkError(w)
    \/ RecoverError(w)
    \/ LoseLock(w)
    \/ NoticeLostLock(w)

Next ==
    \/ \E j \in Job : Enqueue(j) \/ ComeDue(j)
    \/ \E w \in Worker : Work(w) \/ Recover(w) \/ Fail(w)

Spec == Init /\ [][Next]_vars

-----------------------------------------------------------------------------
(* Properties.                                                              *)

(***************************************************************************)
(* Every variable has its type: the columns' CHECK constraints and the     *)
(* worker's local state; a worker that is at a job has a job in hand, and  *)
(* one that is about to commit its work has an outcome.                    *)
(***************************************************************************)
TypeOK ==
    /\ status \in [Job -> Status]
    /\ attempts \in [Job -> Nat]
    /\ delayed \in [Job -> BOOLEAN]
    /\ runs \in [Job -> Seq(Outcome)]
    /\ rowLock \in [Job -> Worker \cup {None}]
    /\ advisory \in [Job -> Worker \cup {None}]
    /\ alive \in [Worker -> BOOLEAN]
    /\ lockUp \in [Worker -> BOOLEAN]
    /\ phase \in [Worker -> Phase]
    /\ job \in [Worker -> Job \cup {None}]
    /\ result \in [Worker -> Settled \cup {None}]
    /\ todo \in [Worker -> SUBSET Job]
    /\ fixed \in [Worker -> SUBSET Job]
    /\ faults \in 0 .. MaxFaults
    /\ \A w \in Worker :
          /\ phase[w] \in {"picked", "locked", "working", "finishing", "holding"}
                => job[w] \in Job
          /\ phase[w] = "finishing" => result[w] \in Settled

(***************************************************************************)
(* w's work on j can still reach the database: it is at work in a living   *)
(* process, or its outcome is written and only the COMMIT is outstanding.  *)
(***************************************************************************)
WorksOn(w, j) ==
    /\ job[w] = j
    /\ \/ phase[w] = "working" /\ alive[w]
       \/ phase[w] = "finishing"

(***************************************************************************)
(* "Two workers never run the same one" (queue.py, module docstring), over *)
(* crashes at any point, sessions that end in either order, commits in     *)
(* flight and recoveries by other workers.                                 *)
(***************************************************************************)
NeverRunTwice ==
    \A j \in Job : \A v, w \in Worker : WorksOn(v, j) /\ WorksOn(w, j) => v = w

(***************************************************************************)
(* The record cannot lose or invent a run: every claim that was counted in *)
(* attempts has its row in audit.job_run, except the one still open.       *)
(***************************************************************************)
RunsMatchAttempts ==
    \A j \in Job : attempts[j] = Len(runs[j]) + (IF status[j] = "running" THEN 1 ELSE 0)

(***************************************************************************)
(* The run history explains the status: an unsettled job has only stopped  *)
(* runs, fewer than MAX_ATTEMPTS of them; a succeeded job succeeded in its *)
(* last run and in no other; a failed one failed in its last run or was    *)
(* stopped MAX_ATTEMPTS times. A handler's work is kept at most once.      *)
(***************************************************************************)
OnlyStopped(history, n) == \A i \in 1 .. n : history[i] = "stopped"

HistoryExplainsStatus ==
    \A j \in Job :
        LET n == Len(runs[j])
        IN  /\ status[j] \notin Settled => n < MaxAttempts /\ OnlyStopped(runs[j], n)
            /\ status[j] \in Settled =>
                  /\ n \in 1 .. MaxAttempts
                  /\ OnlyStopped(runs[j], n - 1)
                  /\ \/ runs[j][n] = status[j]
                     \/ runs[j][n] = "stopped" /\ n = MaxAttempts /\ status[j] = "failed"

(***************************************************************************)
(* The refinement mapping: who works on a job is hidden, what the table    *)
(* and the record show remains.                                            *)
(***************************************************************************)
LedgerState ==
    [j \in Job |-> IF status[j] \in {"queued", "running"} THEN "open" ELSE status[j]]

Ledger == INSTANCE JobLedger WITH state <- LedgerState, history <- runs

(***************************************************************************)
(* The queue, its workers and their faults implement the job ledger.       *)
(***************************************************************************)
ImplementsLedger == Ledger!Spec

-----------------------------------------------------------------------------
(* Liveness.                                                                *)

(***************************************************************************)
(* A living process keeps taking its next step, dead sessions end, the     *)
(* supervisor restarts the process, and run_after passes (weak fairness).  *)
(* Strong fairness for the two choices of the loop: a minute passes again  *)
(* and again, and a worker that again and again finds a job it could claim *)
(* does not forever look only while another session has it locked; and for *)
(* the status UPDATE, which queues for the row. A handler is assumed to    *)
(* return or raise (its calls have timeouts), with either outcome. No      *)
(* fault and no submission is assumed.                                     *)
(***************************************************************************)
Fairness ==
    /\ \A j \in Job : WF_vars(ComeDue(j))
    /\ \A w \in Worker :
          /\ SF_vars(\E j \in Job : Pick(w, j))
          /\ SF_vars(RecoveryDue(w))
          /\ WF_vars(LockJob(w) \/ LockRefused(w) \/ ClaimCommit(w) \/ Release(w))
          /\ SF_vars(Finish(w) \/ FinishRefused(w))
          /\ WF_vars(alive[w] /\ WorkCommit(w))
          /\ WF_vars(Scan(w) \/ LeaveAlone(w) \/ HoldStopped(w) \/ MarkStopped(w)
                     \/ RecoverCommit(w))
          /\ WF_vars(EndWorkSession(w))
          /\ WF_vars(EndLockSession(w))
          /\ WF_vars(Restart(w))
          /\ WF_vars(NoticeLostLock(w))

FairSpec == Spec /\ Fairness

(***************************************************************************)
(* A queued job of a kind the workers handle is settled in the end, however*)
(* its workers die: recover_stopped finds it, requeues or fails it (NFR-04).*)
(***************************************************************************)
EveryJobSettles ==
    \A j \in Job \ Foreign : (status[j] = "queued") ~> (status[j] \in Settled)

(***************************************************************************)
(* No lock outlives its use: a locked row and a held advisory lock are     *)
(* always given back, also by dead processes and failed recoveries.        *)
(***************************************************************************)
LocksComeFree ==
    \A j \in Job : []<>(rowLock[j] = None /\ advisory[j] = None)
=============================================================================
