--------------------------- MODULE JobQueueProofs ---------------------------
(***************************************************************************)
(* Proofs about JobQueue, for any workers, any jobs and any number of      *)
(* faults. The argument has three layers.                                  *)
(*                                                                         *)
(*  - RowInv: what the row lock protects. It holds under every fault and   *)
(*    is enough for the table and the record of runs to be right.          *)
(*  - HistoryInv: each status is explained by the recorded runs; with      *)
(*    RowInv it makes every step a step of JobLedger.                      *)
(*  - LockInv: what the advisory lock protects, as long as no lock         *)
(*    connection is lost alone. It is what keeps two workers off one job.  *)
(***************************************************************************)
EXTENDS JobQueue, TLAPS

(***************************************************************************)
(* The row lock. A job picked or locked for claiming is still queued; a    *)
(* job whose outcome is written, or that a recovery is looking at, is      *)
(* still running; in all four cases the worker's transaction has the row.  *)
(***************************************************************************)
RowsOf(w) ==
    /\ phase[w] \in {"picked", "locked"}
          => rowLock[job[w]] = w /\ status[job[w]] = "queued"
    /\ phase[w] = "finishing"
          => rowLock[job[w]] = w /\ status[job[w]] = "running"
    /\ phase[w] = "holding" => job[w] \in todo[w]
    /\ phase[w] \notin {"scanning", "holding"} => todo[w] = {} /\ fixed[w] = {}
    /\ \A j \in todo[w] \cup fixed[w] : rowLock[j] = w /\ status[j] = "running"

RowInv == \A w \in Worker : RowsOf(w)

(***************************************************************************)
(* Every variable of the queue and of its workers keeps its type, whatever *)
(* step or fault comes.                                                    *)
(***************************************************************************)
THEOREM TypeCorrect == Spec => []TypeOK
<1> USE JobAssumption, MaxFaultsAssumption, NoneAssumption
        DEF TypeOK, Status, Settled, Outcome, Phase
<1>1. Init => TypeOK
  BY DEF Init
<1>2. TypeOK /\ [Next]_vars => TypeOK'
  <2> SUFFICES ASSUME TypeOK, [Next]_vars PROVE TypeOK'
    OBVIOUS
  <2> USE DEF table, recovery, Without, Oldest, Claimable, Fault
  <2>0. CASE UNCHANGED vars
    BY <2>0 DEF vars
  <2>1. ASSUME NEW j \in Job, Enqueue(j) \/ ComeDue(j) PROVE TypeOK'
    <3>1. CASE Enqueue(j)
      BY <3>1 DEF Enqueue
    <3>2. CASE ComeDue(j)
      BY <3>2 DEF ComeDue
    <3> QED
      BY <2>1, <3>1, <3>2
  <2>2. ASSUME NEW w \in Worker, Work(w) PROVE TypeOK'
    <3>1. ASSUME NEW j \in Job, Pick(w, j) PROVE TypeOK'
      BY <3>1 DEF Pick
    <3>2. CASE LockJob(w)
      BY <3>2 DEF LockJob
    <3>3. CASE LockRefused(w)
      BY <3>3 DEF LockRefused
    <3>4. CASE ClaimCommit(w)
      <4>1. job[w] \in Job /\ attempts[job[w]] \in Nat
        BY <3>4 DEF ClaimCommit
      <4>2. attempts' \in [Job -> Nat] /\ status' \in [Job -> Status]
        BY <3>4, <4>1 DEF ClaimCommit
      <4> QED
        BY <3>4, <4>1, <4>2 DEF ClaimCommit
    <3>5. CASE Finish(w)
      BY <3>5 DEF Finish
    <3>6. CASE FinishRefused(w)
      BY <3>6 DEF FinishRefused
    <3>7. CASE WorkCommit(w)
      <4>1. job[w] \in Job
        BY <3>7 DEF WorkCommit
      <4>2. runs' \in [Job -> Seq(Outcome)]
        <5>1. runs[job[w]] \in Seq(Outcome) /\ result[w] \in Outcome
          BY <3>7, <4>1 DEF WorkCommit
        <5>2. Append(runs[job[w]], result[w]) \in Seq(Outcome)
          BY <5>1
        <5> QED
          BY <3>7, <4>1, <5>2 DEF WorkCommit
      <4>3. status' \in [Job -> Status] /\ delayed' \in [Job -> BOOLEAN]
        <5>1. PICK followUp \in SUBSET {k \in Job : status[k] = "absent"} :
                 /\ status' = [k \in Job |-> IF k = job[w] THEN result[w]
                                            ELSE IF k \in followUp THEN "queued" ELSE status[k]]
                 /\ delayed' = [k \in Job |-> IF k \in followUp THEN TRUE ELSE delayed[k]]
          BY <3>7 DEF WorkCommit
        <5>2. result[w] \in Status /\ status \in [Job -> Status] /\ delayed \in [Job -> BOOLEAN]
          BY <3>7 DEF WorkCommit
        <5> QED
          BY ONLY <5>1, <5>2 DEF Status
      <4>4. rowLock' \in [Job -> Worker \cup {None}]
        <5>1. rowLock' = Without(rowLock, w) /\ rowLock \in [Job -> Worker \cup {None}]
          BY <3>7 DEF WorkCommit
        <5> QED
          BY ONLY <5>1 DEF Without
      <4> QED
        BY <3>7, <4>1, <4>2, <4>3, <4>4 DEF WorkCommit
    <3>8. CASE Release(w)
      BY <3>8 DEF Release
    <3> QED
      BY <2>2, <3>1, <3>2, <3>3, <3>4, <3>5, <3>6, <3>7, <3>8 DEF Work
  <2>3. ASSUME NEW w \in Worker, Recover(w) PROVE TypeOK'
    <3>1. CASE RecoveryDue(w)
      BY <3>1 DEF RecoveryDue
    <3>2. CASE Scan(w)
      BY <3>2 DEF Scan
    <3>3. CASE LeaveAlone(w)
      BY <3>3 DEF LeaveAlone
    <3>4. CASE HoldStopped(w)
      BY <3>4 DEF HoldStopped
    <3>5. CASE MarkStopped(w)
      BY <3>5 DEF MarkStopped
    <3>6. CASE RecoverCommit(w)
      BY <3>6 DEF RecoverCommit
    <3> QED
      BY <2>3, <3>1, <3>2, <3>3, <3>4, <3>5, <3>6 DEF Recover
  <2>4. ASSUME NEW w \in Worker, Fail(w) PROVE TypeOK'
    <3>1. CASE Crash(w)
      BY <3>1 DEF Crash
    <3>2. CASE EndWorkSession(w)
      BY <3>2 DEF EndWorkSession
    <3>3. CASE EndLockSession(w)
      BY <3>3 DEF EndLockSession
    <3>4. CASE Restart(w)
      BY <3>4 DEF Restart
    <3>5. CASE WorkError(w)
      BY <3>5 DEF WorkError
    <3>6. CASE RecoverError(w)
      BY <3>6 DEF RecoverError, RecoverAborts
    <3>7. CASE LoseLock(w)
      BY <3>7 DEF LoseLock
    <3>8. CASE NoticeLostLock(w)
      <4>1. CASE RecoverAborts(w) /\ UNCHANGED faults
        BY <4>1 DEF RecoverAborts
      <4> QED
        BY <3>8, <4>1 DEF NoticeLostLock
    <3> QED
      BY <2>4, <3>1, <3>2, <3>3, <3>4, <3>5, <3>6, <3>7, <3>8 DEF Fail
  <2> QED
    BY <2>0, <2>1, <2>2, <2>3, <2>4 DEF Next
<1> QED
  BY <1>1, <1>2, PTL DEF Spec

-----------------------------------------------------------------------------
(***************************************************************************)
(* The row lock, over every step and every fault.                          *)
(***************************************************************************)
LEMMA RowsCorrect == Spec => []RowInv
<1> USE JobAssumption, NoneAssumption
<1>1. Init => RowInv
  BY DEF Init, RowInv, RowsOf
<1>2. TypeOK /\ RowInv /\ [Next]_vars => RowInv'
  <2> SUFFICES ASSUME TypeOK, RowInv, [Next]_vars PROVE RowInv'
    OBVIOUS
  <2> USE DEF TypeOK, RowInv, RowsOf, Phase, Settled, table, recovery, Without, Oldest,
              Claimable, Fault
  <2>0. CASE UNCHANGED vars
    BY <2>0 DEF vars
  <2>1. ASSUME NEW j \in Job, Enqueue(j) \/ ComeDue(j) PROVE RowInv'
    <3>1. UNCHANGED <<rowLock, phase, job, todo, fixed>>
      BY <2>1 DEF Enqueue, ComeDue
    <3>2. \A k \in Job : status[k] # "absent" => status'[k] = status[k]
      BY <2>1 DEF Enqueue, ComeDue
    <3>3. ASSUME NEW w \in Worker PROVE RowsOf(w)'
      <4>1. RowsOf(w) /\ job[w] \in Job \cup {None} /\ todo[w] \subseteq Job
            /\ fixed[w] \subseteq Job
        OBVIOUS
      <4>2. phase[w] \in {"picked", "locked", "finishing"} => job[w] \in Job
        BY <2>1
      <4> QED
        BY ONLY <3>1, <3>2, <4>1, <4>2 DEF RowsOf
    <3> QED
      BY <3>3
  <2>2. ASSUME NEW w \in Worker, Work(w) PROVE RowInv'
    <3>1. ASSUME NEW j \in Job, Pick(w, j) PROVE RowInv'
      BY <3>1 DEF Pick
    <3>2. CASE LockJob(w)
      BY <3>2 DEF LockJob
    <3>3. CASE LockRefused(w)
      BY <3>3 DEF LockRefused
    <3>4. CASE ClaimCommit(w)
      BY <3>4 DEF ClaimCommit
    <3>5. CASE Finish(w)
      BY <3>5 DEF Finish, GuardAllows
    <3>6. CASE FinishRefused(w)
      BY <3>6 DEF FinishRefused
    <3>7. CASE WorkCommit(w)
      BY <3>7 DEF WorkCommit
    <3>8. CASE Release(w)
      BY <3>8 DEF Release
    <3> QED
      BY <2>2, <3>1, <3>2, <3>3, <3>4, <3>5, <3>6, <3>7, <3>8 DEF Work
  <2>3. ASSUME NEW w \in Worker, Recover(w) PROVE RowInv'
    <3>1. CASE RecoveryDue(w)
      BY <3>1 DEF RecoveryDue
    <3>2. CASE Scan(w)
      BY <3>2 DEF Scan
    <3>3. CASE LeaveAlone(w)
      BY <3>3 DEF LeaveAlone
    <3>4. CASE HoldStopped(w)
      BY <3>4 DEF HoldStopped
    <3>5. CASE MarkStopped(w)
      BY <3>5 DEF MarkStopped
    <3>6. CASE RecoverCommit(w)
      <4>1. ASSUME NEW v \in Worker, v # w
            PROVE  \A j \in Job : rowLock[j] = v => rowLock'[j] = v /\ status'[j] = status[j]
        BY <3>6, <4>1 DEF RecoverCommit
      <4>2. /\ phase'[w] \in {"idle", "gone"} /\ todo'[w] = {} /\ fixed'[w] = {}
            /\ \A v \in Worker \ {w} :
                  phase'[v] = phase[v] /\ todo'[v] = todo[v] /\ fixed'[v] = fixed[v]
            /\ job' = job
        BY <3>6 DEF RecoverCommit
      <4>3. ASSUME NEW v \in Worker, v # w PROVE RowsOf(v)'
        <5>1. RowsOf(v)
          BY DEF RowInv
        <5>2. /\ phase'[v] = phase[v] /\ todo'[v] = todo[v] /\ fixed'[v] = fixed[v]
              /\ job'[v] = job[v]
          BY <4>2, <4>3
        <5>3. \A j \in todo[v] \cup fixed[v] : rowLock'[j] = v /\ status'[j] = "running"
          BY <4>1, <4>3, <5>1
        <5>4. ASSUME phase[v] \in {"picked", "locked", "finishing"}
              PROVE  rowLock'[job[v]] = v /\ status'[job[v]] = status[job[v]]
          <6>1. job[v] \in Job /\ rowLock[job[v]] = v
            BY <5>1, <5>4
          <6> QED
            BY ONLY <4>1, <4>3, <6>1
        <5> QED
          BY <5>1, <5>2, <5>3, <5>4
      <4>4. RowsOf(w)'
        BY <4>2
      <4> QED
        BY <4>3, <4>4
    <3> QED
      BY <2>3, <3>1, <3>2, <3>3, <3>4, <3>5, <3>6 DEF Recover
  <2>4. ASSUME NEW w \in Worker, Fail(w) PROVE RowInv'
    <3>1. CASE Crash(w)
      BY <3>1 DEF Crash
    <3>2. CASE EndWorkSession(w)
      BY <3>2 DEF EndWorkSession
    <3>3. CASE EndLockSession(w)
      BY <3>3 DEF EndLockSession
    <3>4. CASE Restart(w)
      BY <3>4 DEF Restart
    <3>5. CASE WorkError(w)
      BY <3>5 DEF WorkError
    <3>6. CASE RecoverError(w)
      BY <3>6 DEF RecoverError, RecoverAborts
    <3>7. CASE LoseLock(w)
      BY <3>7 DEF LoseLock
    <3>8. CASE NoticeLostLock(w)
      <4>1. CASE RecoverAborts(w) /\ UNCHANGED faults
        BY <4>1 DEF RecoverAborts
      <4>2. CASE ~RecoverAborts(w)
        <5>1. /\ rowLock' = Without(rowLock, w)
              /\ phase[w] = "picked" /\ phase' = [phase EXCEPT ![w] = "releasing"]
              /\ UNCHANGED <<status, job, todo, fixed>>
          BY <3>8, <4>2 DEF NoticeLostLock
        <5> QED
          BY <5>1
      <4> QED
        BY <3>8, <4>1, <4>2 DEF NoticeLostLock
    <3> QED
      BY <2>4, <3>1, <3>2, <3>3, <3>4, <3>5, <3>6, <3>7, <3>8 DEF Fail
  <2> QED
    BY <2>0, <2>1, <2>2, <2>3, <2>4 DEF Next
<1> QED
  BY <1>1, <1>2, TypeCorrect, PTL DEF Spec

-----------------------------------------------------------------------------
(***************************************************************************)
(* The advisory lock. A living worker between its claim and its release    *)
(* holds it, so a recovery that got the lock has no worker to fear, and    *)
(* none can appear while the recovery keeps the row.                       *)
(***************************************************************************)
HoldsLock(w) ==
    alive[w] /\ phase[w] \in {"locked", "working", "finishing", "holding"}
       => advisory[job[w]] = w

AtWork(w) == alive[w] /\ phase[w] = "working" => status[job[w]] = "running"

SafeToRequeue(w) == \A j \in fixed[w] : \A v \in Worker : ~WorksOn(v, j)

LockInv ==
    /\ \A w \in Worker : HoldsLock(w) /\ AtWork(w) /\ SafeToRequeue(w)
    /\ NeverRunTwice

(***************************************************************************)
(* "Two workers never run the same one" (queue.py): for any workers, jobs, *)
(* crashes and database errors, unless a lock connection is lost alone.    *)
(***************************************************************************)
THEOREM Exclusion == Spec => [](~LockLoss => NeverRunTwice)
<1> USE JobAssumption, NoneAssumption
<1> DEFINE I == ~LockLoss => LockInv
<1>1. Init => I
  BY DEF Init, LockInv, HoldsLock, AtWork, SafeToRequeue, NeverRunTwice, WorksOn
<1>2. TypeOK /\ RowInv /\ I /\ [Next]_vars => I'
  <2> SUFFICES ASSUME TypeOK, RowInv, ~LockLoss, LockInv, [Next]_vars PROVE LockInv'
    OBVIOUS
  <2> USE DEF TypeOK, RowInv, RowsOf, LockInv, HoldsLock, AtWork, SafeToRequeue,
              NeverRunTwice, WorksOn, table, recovery, Without, Oldest
  <2>0. CASE UNCHANGED vars
    BY <2>0 DEF vars
  <2>1. ASSUME NEW j \in Job, Enqueue(j) PROVE LockInv'
    BY <2>1 DEF Enqueue
  <2>2. ASSUME NEW j \in Job, ComeDue(j) PROVE LockInv'
    BY <2>2 DEF ComeDue
  <2>3. ASSUME NEW w \in Worker, Work(w) PROVE LockInv'
    <3>1. ASSUME NEW j \in Job, Pick(w, j) PROVE LockInv'
      BY <3>1 DEF Pick
    <3>2. CASE LockJob(w)
      BY <3>2 DEF LockJob
    <3>3. CASE LockRefused(w)
      BY <3>3 DEF LockRefused
    <3>4. CASE ClaimCommit(w)
      BY <3>4 DEF ClaimCommit
    <3>5. CASE Finish(w)
      BY <3>5 DEF Finish, GuardAllows
    <3>6. CASE FinishRefused(w)
      BY <3>6 DEF FinishRefused
    <3>7. CASE WorkCommit(w)
      <4>1. /\ WorksOn(w, job[w]) /\ job[w] \in Job
            /\ phase' = [phase EXCEPT ![w] = "releasing"]
            /\ UNCHANGED <<advisory, alive, job, fixed>>
        BY <3>7 DEF WorkCommit
      <4>2. \A j \in Job : j # job[w] /\ status[j] = "running" => status'[j] = "running"
        BY <3>7 DEF WorkCommit
      <4>3. \A v \in Worker, j \in Job : WorksOn(v, j)' => WorksOn(v, j) /\ j # job[w]
        BY <4>1
      <4>4. ASSUME NEW v \in Worker PROVE AtWork(v)'
        <5>1. SUFFICES ASSUME alive[v], phase'[v] = "working" PROVE status'[job[v]] = "running"
          BY <4>1
        <5>2. phase[v] = "working" /\ job[v] \in Job /\ WorksOn(v, job[v]) /\ v # w
          BY <4>1, <5>1
        <5>3. job[v] # job[w]
          <6>1. NeverRunTwice
            OBVIOUS
          <6> QED
            BY ONLY <4>1, <5>2, <6>1 DEF NeverRunTwice
        <5>4. status[job[v]] = "running"
          BY <5>1, <5>2
        <5> QED
          BY ONLY <4>2, <5>2, <5>3, <5>4
      <4> QED
        BY <4>1, <4>3, <4>4
    <3>8. CASE Release(w)
      BY <3>8 DEF Release
    <3> QED
      BY <2>3, <3>1, <3>2, <3>3, <3>4, <3>5, <3>6, <3>7, <3>8 DEF Work
  <2>4. ASSUME NEW w \in Worker, Recover(w) PROVE LockInv'
    <3>1. CASE RecoveryDue(w)
      BY <3>1 DEF RecoveryDue
    <3>2. CASE Scan(w)
      BY <3>2 DEF Scan
    <3>3. CASE LeaveAlone(w)
      BY <3>3 DEF LeaveAlone
    <3>4. CASE HoldStopped(w)
      BY <3>4 DEF HoldStopped
    <3>5. CASE MarkStopped(w)
      BY <3>5 DEF MarkStopped
    <3>6. CASE RecoverCommit(w)
      <4>1. /\ phase' = [phase EXCEPT ![w] = IF alive[w] THEN "idle" ELSE "gone"]
            /\ fixed' = [fixed EXCEPT ![w] = {}]
            /\ UNCHANGED <<advisory, alive, job>>
        BY <3>6 DEF RecoverCommit
      <4>2. \A j \in Job \ fixed[w] : status'[j] = status[j]
        BY <3>6 DEF RecoverCommit
      <4>3. \A v \in Worker, j \in Job : WorksOn(v, j)' => WorksOn(v, j)
        BY <4>1
      <4>4. ASSUME NEW v \in Worker PROVE AtWork(v)'
        <5>1. SUFFICES ASSUME alive[v], phase'[v] = "working" PROVE status'[job[v]] = "running"
          BY <4>1
        <5>2. phase[v] = "working" /\ job[v] \in Job /\ WorksOn(v, job[v])
          BY <4>1, <5>1
        <5>3. job[v] \notin fixed[w] /\ status[job[v]] = "running"
          <6>1. AtWork(v)
            OBVIOUS
          <6>2. status[job[v]] = "running"
            BY ONLY <5>1, <5>2, <6>1 DEF AtWork
          <6>3. job[v] \notin fixed[w]
            <7>1. SafeToRequeue(w)
              OBVIOUS
            <7> QED
              BY ONLY <5>2, <7>1 DEF SafeToRequeue
          <6> QED
            BY <6>2, <6>3
        <5> QED
          BY ONLY <4>2, <5>2, <5>3
      <4> QED
        BY <4>1, <4>3, <4>4
    <3> QED
      BY <2>4, <3>1, <3>2, <3>3, <3>4, <3>5, <3>6 DEF Recover
  <2>5. ASSUME NEW w \in Worker, Fail(w) PROVE LockInv'
    <3>1. CASE Crash(w)
      BY <3>1 DEF Crash
    <3>2. CASE EndWorkSession(w)
      BY <3>2 DEF EndWorkSession
    <3>3. CASE EndLockSession(w)
      BY <3>3 DEF EndLockSession
    <3>4. CASE Restart(w)
      BY <3>4 DEF Restart
    <3>5. CASE WorkError(w)
      BY <3>5 DEF WorkError
    <3>6. ASSUME RecoverAborts(w) PROVE LockInv'
      BY <3>6 DEF RecoverAborts
    <3>7. CASE LoseLock(w)
      BY <3>7 DEF LoseLock
    <3>8. CASE NoticeLostLock(w) /\ ~RecoverAborts(w)
      <4>1. /\ phase[w] = "picked" /\ phase' = [phase EXCEPT ![w] = "releasing"]
            /\ UNCHANGED <<status, advisory, alive, job, fixed>>
        BY <3>8 DEF NoticeLostLock
      <4> QED
        BY <4>1
    <3> QED
      BY <2>5, <3>1, <3>2, <3>3, <3>4, <3>5, <3>6, <3>7, <3>8
         DEF Fail, RecoverError, NoticeLostLock
  <2> QED
    BY <2>0, <2>1, <2>2, <2>3, <2>4, <2>5 DEF Next
<1>3. I => (~LockLoss => NeverRunTwice)
  BY DEF LockInv
<1> QED
  BY <1>1, <1>2, <1>3, TypeCorrect, RowsCorrect, PTL DEF Spec

-----------------------------------------------------------------------------
(***************************************************************************)
(* The four steps that change what the job table and the run record show;  *)
(* every other step, fault or not, leaves both alone.                      *)
(***************************************************************************)
LEMMA TableSteps ==
    ASSUME [Next]_vars
    PROVE  \/ UNCHANGED <<status, attempts, runs>>
           \/ \E j \in Job : Enqueue(j)
           \/ \E w \in Worker : ClaimCommit(w) \/ WorkCommit(w) \/ RecoverCommit(w)
<1>1. ASSUME NEW w \in Worker, Work(w)
      PROVE  UNCHANGED <<status, attempts, runs>> \/ ClaimCommit(w) \/ WorkCommit(w)
  BY <1>1 DEF Work, Pick, LockJob, LockRefused, Finish, FinishRefused, Release, table
<1>2. ASSUME NEW w \in Worker, Recover(w)
      PROVE  UNCHANGED <<status, attempts, runs>> \/ RecoverCommit(w)
  BY <1>2 DEF Recover, RecoveryDue, Scan, LeaveAlone, HoldStopped, MarkStopped, table
<1>3. ASSUME NEW w \in Worker, Fail(w)
      PROVE  UNCHANGED <<status, attempts, runs>>
  BY <1>3 DEF Fail, Crash, EndWorkSession, EndLockSession, Restart, WorkError,
              RecoverError, RecoverAborts, LoseLock, NoticeLostLock, table
<1>4. ASSUME NEW j \in Job, ComeDue(j)
      PROVE  UNCHANGED <<status, attempts, runs>>
  BY <1>4 DEF ComeDue
<1> QED
  BY <1>1, <1>2, <1>3, <1>4 DEF Next, vars

(***************************************************************************)
(* The status and the number of attempts of one job, explained by its runs.*)
(***************************************************************************)
Explained(st, att, history) ==
    LET n == Len(history)
    IN  /\ att = n + (IF st = "running" THEN 1 ELSE 0)
        /\ st \notin Settled => n < MaxAttempts /\ OnlyStopped(history, n)
        /\ st \in Settled =>
              /\ n \in 1 .. MaxAttempts
              /\ OnlyStopped(history, n - 1)
              /\ \/ history[n] = st
                 \/ history[n] = "stopped" /\ n = MaxAttempts /\ st = "failed"

HistoryInv == \A j \in Job : Explained(status[j], attempts[j], runs[j])

(***************************************************************************)
(* What one more run does to the history, as the handler's own outcome or  *)
(* as the mark of a worker that stopped.                                   *)
(***************************************************************************)
LEMMA OneMoreRun ==
    ASSUME NEW history \in Seq(Outcome), NEW att \in Nat,
           Explained("running", att, history)
    PROVE  /\ \A o \in Settled : Explained(o, att, Append(history, o))
           /\ Explained(IF att >= MaxAttempts THEN "failed" ELSE "queued", att,
                        Append(history, "stopped"))
<1> USE MaxAttemptsAssumption DEF Explained, OnlyStopped, Settled, Outcome
<1>1. /\ Len(history) \in Nat /\ att = Len(history) + 1 /\ Len(history) < MaxAttempts
      /\ \A i \in 1 .. Len(history) : history[i] = "stopped"
  OBVIOUS
<1>2. ASSUME NEW o \in Outcome
      PROVE  /\ Len(Append(history, o)) = Len(history) + 1
             /\ Append(history, o)[Len(history) + 1] = o
             /\ \A i \in 1 .. Len(history) : Append(history, o)[i] = history[i]
  OBVIOUS
<1>3. \A o \in Settled : Explained(o, att, Append(history, o))
  BY <1>1, <1>2
<1>4. Explained(IF att >= MaxAttempts THEN "failed" ELSE "queued", att,
                Append(history, "stopped"))
  BY <1>1, <1>2
<1> QED
  BY <1>3, <1>4

(***************************************************************************)
(* What a claim does to it: one more attempt, no run yet.                  *)
(***************************************************************************)
LEMMA OneMoreClaim ==
    ASSUME NEW history, NEW att, Len(history) \in Nat, Explained("queued", att, history)
    PROVE  Explained("running", att + 1, history)
<1> DEFINE n == Len(history)
<1>1. n \in Nat /\ att = n /\ n < MaxAttempts /\ OnlyStopped(history, n)
  BY DEF Explained, Settled
<1>2. att + 1 = n + 1
  BY <1>1
<1> QED
  BY <1>1, <1>2 DEF Explained, Settled

(***************************************************************************)
(* A job's status, its attempts and its recorded runs keep explaining one  *)
(* another through claims, commits and recoveries.                         *)
(***************************************************************************)
LEMMA HistoryCorrect == Spec => []HistoryInv
<1>1. Init => HistoryInv
  BY MaxAttemptsAssumption DEF Init, HistoryInv, Explained, OnlyStopped, Settled
<1>2. TypeOK /\ RowInv /\ HistoryInv /\ [Next]_vars => HistoryInv'
  <2> SUFFICES ASSUME TypeOK, RowInv, HistoryInv, [Next]_vars,
                      NEW j \in Job
               PROVE  Explained(status[j], attempts[j], runs[j])'
    BY DEF HistoryInv
  <2>1. /\ Explained(status[j], attempts[j], runs[j])
        /\ runs[j] \in Seq(Outcome) /\ attempts[j] \in Nat
    BY DEF HistoryInv, TypeOK
  <2>2. CASE UNCHANGED <<status, attempts, runs>>
    BY <2>1, <2>2
  <2>3. ASSUME NEW k \in Job, Enqueue(k) PROVE Explained(status[j], attempts[j], runs[j])'
    BY <2>1, <2>3 DEF Enqueue, Explained, Settled, TypeOK
  <2>4. ASSUME NEW w \in Worker, ClaimCommit(w)
        PROVE  Explained(status[j], attempts[j], runs[j])'
    <3>1. job[w] \in Job /\ status[job[w]] = "queued"
      BY <2>4 DEF ClaimCommit, TypeOK, RowInv, RowsOf
    <3>2. CASE j = job[w]
      <4>1. /\ status'[j] = "running" /\ attempts'[j] = attempts[j] + 1
            /\ runs'[j] = runs[j]
        BY <2>4, <3>1, <3>2 DEF ClaimCommit, TypeOK
      <4>2. Explained("queued", attempts[j], runs[j]) /\ Len(runs[j]) \in Nat
        BY <2>1, <3>1, <3>2
      <4>3. Explained("running", attempts[j] + 1, runs[j])
        BY <4>2, OneMoreClaim
      <4> QED
        BY <4>1, <4>3
    <3>3. CASE j # job[w]
      BY <2>1, <2>4, <3>3 DEF ClaimCommit, TypeOK
    <3> QED
      BY <3>2, <3>3
  <2>5. ASSUME NEW w \in Worker, WorkCommit(w)
        PROVE  Explained(status[j], attempts[j], runs[j])'
    <3>1. job[w] \in Job /\ status[job[w]] = "running" /\ result[w] \in Settled
      BY <2>5 DEF WorkCommit, TypeOK, RowInv, RowsOf
    <3>2. CASE j = job[w]
      <4>1. /\ status'[j] = result[w] /\ attempts'[j] = attempts[j]
            /\ runs'[j] = Append(runs[j], result[w])
        BY <2>5, <3>1, <3>2 DEF WorkCommit, TypeOK
      <4> QED
        BY <2>1, <3>1, <3>2, <4>1, OneMoreRun
    <3>3. CASE j # job[w]
      <4>1. /\ attempts'[j] = attempts[j] /\ runs'[j] = runs[j]
            /\ status'[j] = status[j] \/ (status[j] = "absent" /\ status'[j] = "queued")
        BY <2>5, <3>3 DEF WorkCommit, TypeOK
      <4> QED
        BY <2>1, <4>1 DEF Explained, Settled
    <3> QED
      BY <3>2, <3>3
  <2>6. ASSUME NEW w \in Worker, RecoverCommit(w)
        PROVE  Explained(status[j], attempts[j], runs[j])'
    <3>1. CASE j \in fixed[w]
      <4>1. status[j] = "running"
        BY <3>1 DEF RowInv, RowsOf
      <4>2. /\ status'[j] = (IF attempts[j] >= MaxAttempts THEN "failed" ELSE "queued")
            /\ attempts'[j] = attempts[j] /\ runs'[j] = Append(runs[j], "stopped")
        BY <2>6, <3>1 DEF RecoverCommit
      <4> QED
        BY <2>1, <4>1, <4>2, OneMoreRun
    <3>2. CASE j \notin fixed[w]
      BY <2>1, <2>6, <3>2 DEF RecoverCommit
    <3> QED
      BY <3>1, <3>2
  <2> QED
    BY <2>2, <2>3, <2>4, <2>5, <2>6, TableSteps
<1> QED
  BY <1>1, <1>2, TypeCorrect, RowsCorrect, PTL DEF Spec

(***************************************************************************)
(* The record neither loses nor invents a run, whatever fails.             *)
(***************************************************************************)
THEOREM RunsAccounted == Spec => []RunsMatchAttempts
<1>1. HistoryInv => RunsMatchAttempts
  BY DEF HistoryInv, Explained, RunsMatchAttempts
<1> QED
  BY <1>1, HistoryCorrect, PTL

(***************************************************************************)
(* Every status is explained by the recorded runs, whatever fails; a       *)
(* handler's work is kept at most once.                                    *)
(***************************************************************************)
THEOREM StatusExplained == Spec => []HistoryExplainsStatus
<1>1. HistoryInv => HistoryExplainsStatus
  BY DEF HistoryInv, Explained, HistoryExplainsStatus
<1> QED
  BY <1>1, HistoryCorrect, PTL

-----------------------------------------------------------------------------
(***************************************************************************)
(* The queue implements the ledger: each step that changes the table is a  *)
(* ledger step, every other one leaves the ledger as it is. Claiming a job *)
(* is invisible to it.                                                     *)
(***************************************************************************)
THEOREM Refinement == Spec => ImplementsLedger
<1>1. Init => Ledger!Init
  BY DEF Init, Ledger!Init, LedgerState
<1>2. TypeOK /\ RowInv /\ HistoryInv /\ [Next]_vars => [Ledger!Next]_(Ledger!ledgerVars)
  <2> SUFFICES ASSUME TypeOK, RowInv, HistoryInv, [Next]_vars
               PROVE  Ledger!Next \/ UNCHANGED <<LedgerState, runs>>
    BY DEF Ledger!ledgerVars
  <2>1. CASE UNCHANGED <<status, attempts, runs>>
    BY <2>1 DEF LedgerState
  <2>2. ASSUME NEW j \in Job, Enqueue(j) PROVE Ledger!Submit(j)
    BY <2>2 DEF Enqueue, Ledger!Submit, LedgerState, TypeOK
  <2>3. ASSUME NEW w \in Worker, ClaimCommit(w) PROVE UNCHANGED <<LedgerState, runs>>
    <3>1. job[w] \in Job /\ status[job[w]] = "queued"
      BY <2>3 DEF ClaimCommit, TypeOK, RowInv, RowsOf
    <3> QED
      BY <2>3, <3>1 DEF ClaimCommit, LedgerState, TypeOK
  <2>4. ASSUME NEW w \in Worker, WorkCommit(w) PROVE Ledger!Next
    <3>1. job[w] \in Job /\ status[job[w]] = "running" /\ result[w] \in Settled
      BY <2>4 DEF WorkCommit, TypeOK, RowInv, RowsOf
    <3>2. PICK followUp \in SUBSET {k \in Job : status[k] = "absent"} :
             /\ result[w] = "failed" => followUp = {}
             /\ status' = [k \in Job |-> IF k = job[w] THEN result[w]
                                         ELSE IF k \in followUp THEN "queued" ELSE status[k]]
      BY <2>4 DEF WorkCommit
    <3>3. runs' = [runs EXCEPT ![job[w]] = Append(@, result[w])]
      BY <2>4 DEF WorkCommit
    <3>4. LedgerState' = [k \in Job |-> IF k = job[w] THEN result[w]
                                        ELSE IF k \in followUp THEN "open"
                                        ELSE LedgerState[k]]
      BY <3>1, <3>2 DEF LedgerState, Settled
    <3>5. Ledger!Settle(job[w], result[w], followUp)
      BY <3>1, <3>2, <3>3, <3>4 DEF Ledger!Settle, LedgerState
    <3> QED
      BY <3>1, <3>2, <3>5 DEF Ledger!Next, Settled
  <2>5. ASSUME NEW w \in Worker, RecoverCommit(w) PROVE Ledger!Stop(fixed[w])
    <3>1. \A j \in fixed[w] : /\ j \in Job /\ status[j] = "running"
                              /\ attempts[j] = Len(runs[j]) + 1
      BY DEF RowInv, RowsOf, TypeOK, HistoryInv, Explained
    <3>2. \A j \in Job : LedgerState'[j] = IF j \in fixed[w] /\ Len(runs[j]) + 1 >= MaxAttempts
                                           THEN "failed" ELSE LedgerState[j]
      BY <2>5, <3>1 DEF RecoverCommit, LedgerState
    <3>3. LedgerState' = [j \in Job |-> IF j \in fixed[w] /\ Len(runs[j]) + 1 >= MaxAttempts
                                        THEN "failed" ELSE LedgerState[j]]
      BY <3>2 DEF LedgerState
    <3> QED
      BY <2>5, <3>1, <3>3 DEF RecoverCommit, Ledger!Stop, LedgerState
  <2>6. fixed \in [Worker -> SUBSET Job]
    BY DEF TypeOK
  <2> QED
    BY <2>1, <2>2, <2>3, <2>4, <2>5, <2>6, TableSteps DEF Ledger!Next
<1> QED
  BY <1>1, <1>2, TypeCorrect, RowsCorrect, HistoryCorrect, PTL
  DEF Spec, ImplementsLedger, Ledger!Spec
=============================================================================
