---------------------------- MODULE ReadingProofs ----------------------------
(***************************************************************************)
(* Theorems about Reading: its types, that the attempts of one request     *)
(* never fork, and that it implements IntakeRecord.                        *)
(***************************************************************************)
EXTENDS Reading, TLAPS

Busy == {"claimed", "reading", "writing"}
Phases == {"idle", "claimed", "reading", "writing", "settling", "gone"}

(***************************************************************************)
(* The parts of the type invariant.                                        *)
(***************************************************************************)
Typed ==
    /\ uploaded \in SUBSET File
    /\ receiving \in SUBSET File
    /\ configured \in Reader
    /\ inForce \in Reader
    /\ reader \in [Worker -> Reader]
    /\ job \in [Job -> JobRow \cup {None}]
    /\ phase \in [Worker -> Phases]
    /\ hand \in [Worker -> Job \cup {None}]
    /\ todo \in [Worker -> SUBSET File]
    /\ faults \in 0 .. MaxFaults
    /\ deploys \in 0 .. MaxDeploys

KeptTyped ==
    /\ readings \in SUBSET ReadingRow
    /\ lastId \in Nat
    /\ flagged \in SUBSET (File \X ({Abandoned, Hidden} \cup Failure))

Hands ==
    \A w \in Worker :
        /\ phase[w] \in Busy <=> hand[w] # None
        /\ hand[w] # None => job[hand[w]] # None /\ job[hand[w]].status = "running"
        /\ \A v \in Worker \ {w} : hand[w] # None => hand[v] # hand[w]

Owners == \A r \in readings : r.by # None => phase[r.by] \in {"writing", "settling"}

LEMMA TypeParts == TypeOK <=> Typed /\ KeptTyped /\ Hands /\ Owners
BY DEF TypeOK, Typed, KeptTyped, Hands, Owners, Busy, Phases

LEMMA RowIsNotNone == \A row \in JobRow : row # None
BY NoneAssumption

-----------------------------------------------------------------------------
LEMMA TypedInit == Init => Typed /\ KeptTyped /\ Hands /\ Owners
BY NoneAssumption, ReaderAssumption, BoundsAssumption
   DEF Init, Typed, KeptTyped, Hands, Owners, Busy, Phases

LEMMA TypedStep ==
    ASSUME Typed, KeptTyped, Hands, Owners, Next
    PROVE  Typed'
<1> USE NoneAssumption, RowIsNotNone DEF Typed
<1>1. ASSUME NEW f \in File, Uploads(f) PROVE Typed'
  BY <1>1, BoundsAssumption DEF Uploads, Receive, ReceiveCommit, ReceiveFails, JobRow, setting, kept, worker
<1>2. ASSUME NEW name \in Reader, Reconfigure(name) PROVE Typed'
  BY <1>2, BoundsAssumption DEF Reconfigure, upload, kept, worker
<1>3. ASSUME RestartApi PROVE Typed'
  BY <1>3 DEF RestartApi, kept, worker
<1>4. ASSUME NEW w \in Worker, NEW j \in Job, Claim(w, j) PROVE Typed'
  BY <1>4 DEF Claim, Goto, JobRow, upload, setting, kept, Phases
<1>5. ASSUME NEW w \in Worker, NEW j \in Job, RecoverStopped(w, j) PROVE Typed'
  BY <1>5 DEF RecoverStopped, JobRow, upload, setting, worker
<1>6. ASSUME NEW w \in Worker, Read(w) PROVE Typed'
  <2>1. ASSUME AlreadyRead(w) \/ Commit(w) PROVE Typed'
    BY <2>1 DEF AlreadyRead, Commit, Settled, Goto, upload, setting, kept, Phases
  <2>2. ASSUME NEW a \in 1 .. MaxAttempts, Requeued(w, a), phase[w] \in Busy,
               UNCHANGED <<upload, setting, kept, faults>>
        PROVE  Typed'
    <3>1. Current(w) \in JobRow
      BY <2>2 DEF Hands, Current
    <3>2. [Current(w) EXCEPT !.attempt = a, !.status = "queued"] \in JobRow
      BY <3>1 DEF JobRow
    <3> QED BY <2>2, <3>2 DEF Requeued, Goto, upload, setting, kept, Phases
  <2>3. ASSUME WaitForSlot(w) \/ Retry(w) PROVE Typed'
    <3>1. Current(w) \in JobRow /\ phase[w] \in Busy
      BY <2>3 DEF WaitForSlot, Retry, Hands, Current, Busy
    <3>2. Current(w).attempt \in 1 .. MaxAttempts
      BY <3>1 DEF JobRow
    <3>3. CASE WaitForSlot(w)
      BY <3>3, <3>1, <3>2, <2>2 DEF WaitForSlot
    <3>4. CASE Retry(w)
      <4>1. Current(w).attempt + 1 \in 1 .. MaxAttempts
        BY <3>2, <3>4, BoundsAssumption DEF Retry
      <4> QED BY <4>1, <3>1, <3>4, <2>2 DEF Retry
    <3> QED BY <2>3, <3>3, <3>4
  <2>4. ASSUME TakeSlot(w) \/ Record(w) PROVE Typed'
    BY <2>4 DEF TakeSlot, Record, Goto, upload, setting, Phases
  <2> QED BY <1>6, <2>1, <2>3, <2>4 DEF Read
<1>7. ASSUME NEW w \in Worker, Settle(w) PROVE Typed'
  BY <1>7 DEF Settle, SettleScan, SettleNext, SettleCommit, AbandonedFiles, Goto, upload, setting, Phases
<1>8. ASSUME NEW w \in Worker, Fail(w) PROVE Typed'
  BY <1>8, BoundsAssumption DEF Fail, Crash, HandlerFails, Restart, Fault, Settled, Goto, upload, setting, worker, Phases
<1> QED BY <1>1, <1>2, <1>3, <1>4, <1>5, <1>6, <1>7, <1>8 DEF Next

(***************************************************************************)
(* A row that is inserted, kept or discarded leaves rows in order.         *)
(***************************************************************************)
LEMMA InsertKeepsTypes ==
    ASSUME KeptTyped, NEW w \in Worker, NEW f \in File, NEW name \in Reader \cup {GaveUp},
           NEW outcome \in Answer \cup Failure \cup {Abandoned},
           Insert(w, f, name, outcome), UNCHANGED flagged
    PROVE  KeptTyped'
BY DEF KeptTyped, Insert, ReadingRow

LEMMA FlagTypes ==
    ASSUME NEW outcome \in Answer \cup Failure \cup {Abandoned}
    PROVE  Flag(outcome) \subseteq {Abandoned, Hidden} \cup Failure
BY OutcomeAssumption DEF Flag

LEMMA KeepKeepsTypes ==
    ASSUME KeptTyped, NEW w \in Worker, Keep(w)
    PROVE  KeptTyped'
<1>1. readings' \in SUBSET ReadingRow
  BY DEF KeptTyped, Keep, ReadingRow
<1>2. ASSUME NEW r \in Mine(w)
      PROVE  {r.file} \X Flag(r.outcome) \subseteq File \X ({Abandoned, Hidden} \cup Failure)
  <2>1. r.file \in File /\ r.outcome \in Answer \cup Failure \cup {Abandoned}
    BY DEF KeptTyped, Mine, ReadingRow
  <2> QED BY <2>1, FlagTypes
<1>3. UNION {{r.file} \X Flag(r.outcome) : r \in Mine(w)}
        \subseteq File \X ({Abandoned, Hidden} \cup Failure)
  BY <1>2
<1> QED BY <1>1, <1>3 DEF KeptTyped, Keep

LEMMA DiscardKeepsTypes ==
    ASSUME KeptTyped, NEW w \in Worker, Discard(w)
    PROVE  KeptTyped'
BY DEF KeptTyped, Discard

LEMMA KeptTypedStep ==
    ASSUME Typed, KeptTyped, Hands, Owners, Next
    PROVE  KeptTyped'
<1>1. ASSUME UNCHANGED kept PROVE KeptTyped'
  BY <1>1 DEF kept, KeptTyped
<1>2. ASSUME NEW f \in File, Uploads(f) PROVE UNCHANGED kept
  BY <1>2 DEF Uploads, Receive, ReceiveCommit, ReceiveFails
<1>3. ASSUME NEW name \in Reader, Reconfigure(name) PROVE UNCHANGED kept
  BY <1>3 DEF Reconfigure
<1>4. ASSUME RestartApi PROVE UNCHANGED kept
  BY <1>4 DEF RestartApi
<1>5. ASSUME NEW w \in Worker, NEW j \in Job, Claim(w, j) \/ RecoverStopped(w, j)
      PROVE  UNCHANGED kept
  BY <1>5 DEF Claim, RecoverStopped
<1>6. ASSUME NEW w \in Worker, Read(w) PROVE KeptTyped'
  <2>1. CASE AlreadyRead(w) \/ WaitForSlot(w) \/ TakeSlot(w) \/ Retry(w)
    BY <2>1, <1>1 DEF AlreadyRead, WaitForSlot, TakeSlot, Retry
  <2>2. CASE Record(w)
    <3>1. Current(w).file \in File /\ reader[w] \in Reader
      BY <2>2 DEF Record, Current, Typed, Hands, Busy, JobRow
    <3>2. PICK outcome \in Final(w) : Insert(w, Current(w).file, reader[w], outcome)
      BY <2>2 DEF Record
    <3>3. outcome \in Answer \cup Failure \cup {Abandoned}
      BY <3>2 DEF Final
    <3> QED BY <2>2, <3>1, <3>2, <3>3, InsertKeepsTypes DEF Record
  <2>3. CASE Commit(w)
    BY <2>3, KeepKeepsTypes DEF Commit
  <2> QED BY <1>6, <2>1, <2>2, <2>3 DEF Read
<1>7. ASSUME NEW w \in Worker, Settle(w) PROVE KeptTyped'
  <2>1. CASE SettleScan(w)
    BY <2>1, <1>1 DEF SettleScan
  <2>2. CASE SettleNext(w)
    <3>1. PICK f \in todo[w] : \/ Insert(w, f, GaveUp, Abandoned)
                              \/ UNCHANGED <<readings, lastId>>
      BY <2>2 DEF SettleNext
    <3>2. f \in File
      BY <3>1 DEF Typed
    <3>3. CASE Insert(w, f, GaveUp, Abandoned)
      BY <2>2, <3>2, <3>3, InsertKeepsTypes DEF SettleNext
    <3>4. CASE UNCHANGED <<readings, lastId>>
      BY <2>2, <3>4 DEF SettleNext, KeptTyped
    <3> QED BY <3>1, <3>3, <3>4
  <2>3. CASE SettleCommit(w)
    BY <2>3, KeepKeepsTypes DEF SettleCommit
  <2> QED BY <1>7, <2>1, <2>2, <2>3 DEF Settle
<1>8. ASSUME NEW w \in Worker, Fail(w) PROVE KeptTyped'
  <2>1. CASE Crash(w) \/ HandlerFails(w)
    BY <2>1, DiscardKeepsTypes DEF Crash, HandlerFails
  <2>2. CASE Restart(w)
    BY <2>2, <1>1 DEF Restart
  <2> QED BY <1>8, <2>1, <2>2 DEF Fail
<1> QED BY <1>1, <1>2, <1>3, <1>4, <1>5, <1>6, <1>7, <1>8 DEF Next

-----------------------------------------------------------------------------
(* Hands and jobs.                                                          *)

(***************************************************************************)
(* A worker that lets go of its job, which is settled, leaves the others'. *)
(***************************************************************************)
LEMMA LettingGo ==
    ASSUME Typed, Hands, NEW w \in Worker, NEW next \in {"idle", "gone"},
           hand' = [hand EXCEPT ![w] = None], Goto(w, next),
           \A v \in Worker \ {w} : hand[v] # None => job'[hand[v]] = job[hand[v]]
    PROVE  Hands'
BY NoneAssumption DEF Typed, Hands, Goto, Busy

LEMMA SettledHands ==
    ASSUME Typed, Hands, NEW w \in Worker, phase[w] \in Busy, Settled(w)
    PROVE  Hands'
<1>1. \A v \in Worker \ {w} : hand[v] # None => job'[hand[v]] = job[hand[v]]
  BY DEF Settled, Typed, Hands
<1> QED BY <1>1, LettingGo DEF Settled

LEMMA RequeuedHands ==
    ASSUME Typed, Hands, NEW w \in Worker, NEW a, phase[w] \in Busy, Requeued(w, a)
    PROVE  Hands'
<1>1. \A v \in Worker \ {w} : hand[v] # None => job'[hand[v]] = job[hand[v]]
  BY DEF Requeued, NewJob, Typed, Hands
<1> QED BY <1>1, LettingGo DEF Requeued

LEMMA HandsStep ==
    ASSUME Typed, KeptTyped, Hands, Owners, Next
    PROVE  Hands'
<1> USE NoneAssumption, RowIsNotNone
<1>1. ASSUME UNCHANGED <<phase, hand, job>> PROVE Hands'
  BY <1>1 DEF Hands
<1>2. ASSUME NEW f \in File, Uploads(f) PROVE Hands'
  <2>1. CASE Receive(f) \/ ReceiveFails(f)
    BY <2>1, <1>1 DEF Receive, ReceiveFails, worker
  <2>2. CASE \E k \in Job, q \in Request : ReceiveCommit(f, k, q)
    BY <2>2 DEF ReceiveCommit, NewJob, worker, Hands, Typed
  <2> QED BY <1>2, <2>1, <2>2 DEF Uploads
<1>3. ASSUME NEW name \in Reader, Reconfigure(name) PROVE Hands'
  BY <1>3, <1>1 DEF Reconfigure, worker
<1>4. ASSUME RestartApi PROVE Hands'
  BY <1>4, <1>1 DEF RestartApi, worker
<1>5. ASSUME NEW w \in Worker, NEW j \in Job, Claim(w, j) PROVE Hands'
  BY <1>5 DEF Claim, Goto, Hands, Typed, JobRow, Busy
<1>6. ASSUME NEW w \in Worker, NEW j \in Job, RecoverStopped(w, j) PROVE Hands'
  BY <1>6 DEF RecoverStopped, worker, Hands, Typed
<1>7. ASSUME NEW w \in Worker, Read(w) PROVE Hands'
  <2>1. CASE AlreadyRead(w) \/ Commit(w)
    BY <2>1, SettledHands DEF AlreadyRead, Commit, Busy
  <2>2. CASE WaitForSlot(w) \/ Retry(w)
    BY <2>2, RequeuedHands DEF WaitForSlot, Retry, Busy
  <2>3. CASE TakeSlot(w) \/ Record(w)
    BY <2>3 DEF TakeSlot, Record, Goto, Hands, Typed, Busy
  <2> QED BY <1>7, <2>1, <2>2, <2>3 DEF Read
<1>8. ASSUME NEW w \in Worker, Settle(w) PROVE Hands'
  BY <1>8 DEF Settle, SettleScan, SettleNext, SettleCommit, Goto, Hands, Typed, Busy
<1>9. ASSUME NEW w \in Worker, Fail(w) PROVE Hands'
  <2>1. CASE Crash(w)
    BY <2>1, LettingGo DEF Crash
  <2>2. CASE HandlerFails(w)
    BY <2>2, SettledHands DEF HandlerFails, Busy
  <2>3. CASE Restart(w)
    BY <2>3 DEF Restart, Goto, Hands, Typed, Busy
  <2> QED BY <1>9, <2>1, <2>2, <2>3 DEF Fail
<1> QED BY <1>2, <1>3, <1>4, <1>5, <1>6, <1>7, <1>8, <1>9 DEF Next

(***************************************************************************)
(* Only a worker that has come to its INSERT has an uncommitted row.       *)
(***************************************************************************)
LEMMA OwnersStep ==
    ASSUME Typed, KeptTyped, Hands, Owners, Next
    PROVE  Owners'
<1>1. ASSUME NEW w \in Worker, UNCHANGED kept, phase[w] \notin {"writing", "settling"},
             \A v \in Worker \ {w} : phase'[v] = phase[v]
      PROVE  Owners'
  BY <1>1 DEF kept, Owners, KeptTyped, ReadingRow
<1>2. ASSUME UNCHANGED kept, UNCHANGED phase PROVE Owners'
  BY <1>2 DEF kept, Owners
<1>3. ASSUME NEW w \in Worker, Keep(w) \/ Discard(w),
             \A v \in Worker \ {w} : phase'[v] = phase[v]
      PROVE  Owners'
  <2>1. \A r \in readings' : r.by # None => r \in readings /\ r.by \in Worker \ {w}
    BY <1>3, NoneAssumption DEF Keep, Discard, Mine, KeptTyped, ReadingRow
  <2> QED BY <2>1, <1>3 DEF Owners
<1>4. ASSUME NEW f \in File, Uploads(f) PROVE Owners'
  BY <1>4, <1>2 DEF Uploads, Receive, ReceiveCommit, ReceiveFails, worker
<1>5. ASSUME NEW name \in Reader, Reconfigure(name) PROVE Owners'
  BY <1>5, <1>2 DEF Reconfigure, worker
<1>6. ASSUME RestartApi PROVE Owners'
  BY <1>6, <1>2 DEF RestartApi, worker
<1>7. ASSUME NEW w \in Worker, NEW j \in Job, Claim(w, j) \/ RecoverStopped(w, j)
      PROVE  Owners'
  BY <1>7, <1>1, <1>2 DEF Claim, RecoverStopped, worker, Goto, Typed
<1>8. ASSUME NEW w \in Worker, Read(w) PROVE Owners'
  <2>1. CASE AlreadyRead(w) \/ WaitForSlot(w) \/ TakeSlot(w) \/ Retry(w)
    BY <2>1, <1>1 DEF AlreadyRead, WaitForSlot, TakeSlot, Retry, Settled, Requeued, Goto, Typed
  <2>2. CASE Record(w)
    BY <2>2 DEF Record, Insert, Goto, Typed, Owners, KeptTyped, ReadingRow
  <2>3. CASE Commit(w)
    BY <2>3, <1>3 DEF Commit, Settled, Goto, Typed
  <2> QED BY <1>8, <2>1, <2>2, <2>3 DEF Read
<1>9. ASSUME NEW w \in Worker, Settle(w) PROVE Owners'
  <2>1. CASE SettleScan(w)
    BY <2>1, <1>1 DEF SettleScan, Goto, Typed
  <2>2. CASE SettleNext(w)
    BY <2>2 DEF SettleNext, Insert, Owners
  <2>3. CASE SettleCommit(w)
    BY <2>3, <1>3 DEF SettleCommit, Goto, Typed
  <2> QED BY <1>9, <2>1, <2>2, <2>3 DEF Settle
<1>10. ASSUME NEW w \in Worker, Fail(w) PROVE Owners'
  <2>1. CASE Crash(w) \/ HandlerFails(w)
    BY <2>1, <1>3 DEF Crash, HandlerFails, Settled, Goto, Typed
  <2>2. CASE Restart(w)
    BY <2>2, <1>1 DEF Restart, Goto, Typed
  <2> QED BY <1>10, <2>1, <2>2 DEF Fail
<1> QED BY <1>4, <1>5, <1>6, <1>7, <1>8, <1>9, <1>10 DEF Next

(***************************************************************************)
(* The variables keep their types, a job is in one worker's hands at most, *)
(* and only a worker at its INSERT has an uncommitted reading.             *)
(***************************************************************************)
THEOREM ReadingTypes == Spec => []TypeOK
<1>1. Init => TypeOK
  BY TypedInit, TypeParts
<1>2. TypeOK /\ [Next]_vars => TypeOK'
  <2> SUFFICES ASSUME TypeOK, [Next]_vars PROVE TypeOK'
    OBVIOUS
  <2> USE TypeParts
  <2>1. CASE Next
    BY <2>1, TypedStep, KeptTypedStep, HandsStep, OwnersStep
       DEF TypeOK, Typed, KeptTyped, Hands, Owners, Busy, Phases
  <2>2. CASE UNCHANGED vars
    BY <2>2 DEF vars, upload, setting, kept, worker, TypeOK, Typed, KeptTyped, Hands, Owners
  <2> QED BY <2>1, <2>2
<1> QED BY <1>1, <1>2, PTL DEF Spec

-----------------------------------------------------------------------------
(* The attempts of a request.                                               *)

LEMMA AttemptsInRange ==
    ASSUME TypeOK, NEW w \in Worker, WaitForSlot(w) \/ Retry(w)
    PROVE  \E a \in 1 .. MaxAttempts : Requeued(w, a)
<1>1. Current(w) \in JobRow
  BY DEF WaitForSlot, Retry, TypeOK, Current
<1>2. Current(w).attempt \in 1 .. MaxAttempts
  BY <1>1 DEF JobRow
<1>3. Retry(w) => Current(w).attempt + 1 \in 1 .. MaxAttempts
  BY <1>2, BoundsAssumption DEF Retry
<1> QED BY <1>2, <1>3 DEF WaitForSlot, Retry

LEMMA RequeuedRequests ==
    ASSUME TypeOK, NEW w \in Worker, NEW a \in 1 .. MaxAttempts, hand[w] # None, Requeued(w, a)
    PROVE  \E k \in Job :
               /\ job[k] = None /\ k # hand[w]
               /\ job'[k] \in JobRow
               /\ job'[k].request = Current(w).request
               /\ job'[k].file = Current(w).file
               /\ job'[hand[w]] = None
               /\ \A j \in Job \ {k, hand[w]} : job'[j] = job[j]
<1>1. hand[w] \in Job /\ Current(w) \in JobRow /\ Current(w) # None
  BY DEF TypeOK, Current
<1>2. PICK k \in Job :
          /\ NewJob(k)
          /\ job' = [job EXCEPT ![hand[w]] = None,
                                ![k] = [Current(w) EXCEPT !.attempt = a, !.status = "queued"]]
  BY DEF Requeued
<1>3. job[k] = None /\ k # hand[w]
  BY <1>1, <1>2 DEF NewJob, Current
<1>4. job'[k] = [Current(w) EXCEPT !.attempt = a, !.status = "queued"]
  BY <1>2, <1>3 DEF TypeOK
<1>5. job'[k] \in JobRow /\ job'[k].request = Current(w).request /\ job'[k].file = Current(w).file
  BY <1>1, <1>4 DEF JobRow
<1>6. job'[hand[w]] = None /\ \A j \in Job \ {k, hand[w]} : job'[j] = job[j]
  BY <1>1, <1>2, <1>3 DEF TypeOK
<1> QED BY <1>3, <1>5, <1>6

LEMMA OneJobStep ==
    ASSUME TypeOK, OneJobPerRequest, Next
    PROVE  OneJobPerRequest'
<1> USE NoneAssumption, RowIsNotNone
<1>1. ASSUME \A j \in Job : job'[j] # None =>
                 job[j] # None /\ job'[j].request = job[j].request
      PROVE  OneJobPerRequest'
  BY <1>1 DEF OneJobPerRequest
<1>2. ASSUME UNCHANGED job PROVE OneJobPerRequest'
  BY <1>2 DEF OneJobPerRequest
<1>3. ASSUME NEW f \in File, Uploads(f) PROVE OneJobPerRequest'
  <2>1. CASE Receive(f) \/ ReceiveFails(f)
    BY <2>1, <1>2 DEF Receive, ReceiveFails
  <2>2. ASSUME NEW k \in Job, NEW q \in Request, ReceiveCommit(f, k, q)
        PROVE  OneJobPerRequest'
    BY <2>2 DEF ReceiveCommit, NewJob, FreeRequest, OneJobPerRequest, TypeOK
  <2> QED BY <1>3, <2>1, <2>2 DEF Uploads
<1>4. ASSUME NEW name \in Reader, Reconfigure(name) PROVE OneJobPerRequest'
  BY <1>4, <1>2 DEF Reconfigure
<1>5. ASSUME RestartApi PROVE OneJobPerRequest'
  BY <1>5, <1>2 DEF RestartApi
<1>6. ASSUME NEW w \in Worker, NEW j \in Job, Claim(w, j) \/ RecoverStopped(w, j)
      PROVE  OneJobPerRequest'
  BY <1>6, <1>1 DEF Claim, RecoverStopped, TypeOK, JobRow
<1>7. ASSUME NEW w \in Worker, Settled(w) PROVE OneJobPerRequest'
  BY <1>7, <1>1 DEF Settled, TypeOK
<1>8. ASSUME NEW w \in Worker, Read(w) PROVE OneJobPerRequest'
  <2>1. CASE AlreadyRead(w) \/ Commit(w)
    BY <2>1, <1>7 DEF AlreadyRead, Commit
  <2>2. CASE WaitForSlot(w) \/ Retry(w)
    <3>1. hand[w] \in Job /\ hand[w] # None /\ job[hand[w]] # None
      BY <2>2 DEF WaitForSlot, Retry, TypeOK
    <3>2. PICK a \in 1 .. MaxAttempts : Requeued(w, a)
      BY <2>2, AttemptsInRange
    <3>3. PICK k \in Job :
              /\ job[k] = None /\ k # hand[w]
              /\ job'[k].request = job[hand[w]].request
              /\ job'[hand[w]] = None
              /\ \A j \in Job \ {k, hand[w]} : job'[j] = job[j]
      BY <3>1, <3>2, RequeuedRequests DEF Current
    <3> QED BY <3>1, <3>3 DEF OneJobPerRequest
  <2>3. CASE TakeSlot(w) \/ Record(w)
    BY <2>3, <1>2 DEF TakeSlot, Record
  <2> QED BY <1>8, <2>1, <2>2, <2>3 DEF Read
<1>9. ASSUME NEW w \in Worker, Settle(w) PROVE OneJobPerRequest'
  BY <1>9, <1>2 DEF Settle, SettleScan, SettleNext, SettleCommit
<1>10. ASSUME NEW w \in Worker, Fail(w) PROVE OneJobPerRequest'
  BY <1>10, <1>2, <1>7 DEF Fail, Crash, HandlerFails, Restart
<1> QED BY <1>3, <1>4, <1>5, <1>6, <1>8, <1>9, <1>10 DEF Next

(***************************************************************************)
(* For any workers and faults: of the jobs one upload has brought about,   *)
(* one at most is unsettled.                                               *)
(***************************************************************************)
THEOREM AttemptsNeverFork == Spec => []OneJobPerRequest
<1>1. Init => OneJobPerRequest
  BY DEF Init, OneJobPerRequest
<1>2. TypeOK /\ OneJobPerRequest /\ [Next]_vars => OneJobPerRequest'
  BY OneJobStep DEF vars, OneJobPerRequest
<1> QED BY <1>1, <1>2, ReadingTypes, PTL DEF Spec

-----------------------------------------------------------------------------
(***************************************************************************)
(* The invariant the refinement rests on. A file is Lost when it is        *)
(* uploaded, nobody has read it and no job is left for it; it then stays   *)
(* lost until it is given up. So what settle_abandoned has found is lost   *)
(* or given up by another worker when it comes to it, and what it has      *)
(* inserted is lost until it commits. A row that a job has inserted is of  *)
(* that job's file and its worker's reader.                                *)
(***************************************************************************)
Answered(f) == \E r \in Seen : r.file = f
Lost(f) == /\ f \in uploaded
           /\ ~Answered(f)
           /\ \A j \in Job : job[j] # None => job[j].file # f

UniqueKey == \A r, s \in readings : r.file = s.file /\ r.reader = s.reader => r = s

AskedAgain == \A f \in receiving : f \in uploaded => Answered(f)

ListedStand == \A w \in Worker : \A f \in todo[w] : ReadBy(f, GaveUp) \/ Lost(f)

JobsRow(r) ==
    /\ phase[r.by] = "writing"
    /\ r.file = Current(r.by).file
    /\ r.reader = reader[r.by]
    /\ r.outcome \in Answer \cup Failure

SettlersRow(r) ==
    /\ phase[r.by] = "settling"
    /\ r.reader = GaveUp
    /\ r.outcome = Abandoned
    /\ Lost(r.file)

OpenRowsStand == \A r \in readings : r.by # None => JobsRow(r) \/ SettlersRow(r)

WritersHaveRows == \A w \in Worker : phase[w] = "writing" => Mine(w) # {}

Inv ==
    /\ TypeOK
    /\ OneJobPerRequest
    /\ UniqueKey
    /\ AskedAgain
    /\ ListedStand
    /\ OpenRowsStand
    /\ WritersHaveRows

-----------------------------------------------------------------------------
(* What a step leaves alone.                                                *)

Act(w) ==
    \/ \E j \in Job : Claim(w, j) \/ RecoverStopped(w, j)
    \/ Read(w)
    \/ Settle(w)
    \/ Fail(w)

Environment ==
    \/ \E f \in File : Uploads(f)
    \/ \E name \in Reader : Reconfigure(name)
    \/ RestartApi

LEMMA WhoSteps == Next <=> Environment \/ \E w \in Worker : Act(w)
BY DEF Next, Environment, Act

Stays(v) ==
    /\ phase'[v] = phase[v]
    /\ hand'[v] = hand[v]
    /\ reader'[v] = reader[v]
    /\ todo'[v] = todo[v]
    /\ hand[v] # None => job'[hand[v]] = job[hand[v]]

LEMMA EnvironmentLeaves ==
    ASSUME TypeOK, Environment
    PROVE  UNCHANGED kept /\ \A v \in Worker : Stays(v)
<1>1. ASSUME NEW f \in File, Uploads(f) PROVE UNCHANGED kept /\ \A v \in Worker : Stays(v)
  BY <1>1 DEF Uploads, Receive, ReceiveCommit, ReceiveFails, NewJob, setting, worker, Stays, TypeOK
<1>2. ASSUME NEW name \in Reader, Reconfigure(name)
      PROVE  UNCHANGED kept /\ \A v \in Worker : Stays(v)
  BY <1>2 DEF Reconfigure, worker, Stays
<1>3. ASSUME RestartApi PROVE UNCHANGED kept /\ \A v \in Worker : Stays(v)
  BY <1>3 DEF RestartApi, worker, Stays
<1> QED BY <1>1, <1>2, <1>3 DEF Environment

LEMMA OthersStay ==
    ASSUME TypeOK, NEW w \in Worker, Act(w), NEW v \in Worker \ {w}
    PROVE  Stays(v)
<1>1. ASSUME NEW j \in Job, Claim(w, j) \/ RecoverStopped(w, j) PROVE Stays(v)
  BY <1>1 DEF Claim, RecoverStopped, Goto, setting, worker, Stays, TypeOK
<1>2. ASSUME Settled(w), phase[w] \in Busy, UNCHANGED setting PROVE Stays(v)
  BY <1>2 DEF Settled, Goto, setting, Stays, TypeOK, Busy
<1>3. CASE Read(w)
  <2>1. CASE AlreadyRead(w) \/ Commit(w)
    BY <2>1, <1>2 DEF AlreadyRead, Commit, Busy
  <2>2. CASE WaitForSlot(w) \/ Retry(w)
    <3>1. PICK a \in 1 .. MaxAttempts : Requeued(w, a)
      BY <2>2, AttemptsInRange
    <3>2. hand[w] \in Job /\ hand[w] # None /\ UNCHANGED setting
      BY <2>2 DEF WaitForSlot, Retry, TypeOK
    <3>3. hand[v] # None => job'[hand[v]] = job[hand[v]]
      <4>1. PICK k \in Job :
                /\ job[k] = None
                /\ \A j \in Job \ {k, hand[w]} : job'[j] = job[j]
        BY <3>1, <3>2, RequeuedRequests
      <4> QED BY <4>1 DEF TypeOK
    <3> QED BY <3>1, <3>2, <3>3 DEF Requeued, Goto, setting, Stays, TypeOK
  <2>3. CASE TakeSlot(w) \/ Record(w)
    BY <2>3 DEF TakeSlot, Record, Goto, setting, Stays, TypeOK
  <2> QED BY <1>3, <2>1, <2>2, <2>3 DEF Read
<1>4. CASE Settle(w)
  BY <1>4 DEF Settle, SettleScan, SettleNext, SettleCommit, Goto, setting, Stays, TypeOK
<1>5. CASE Fail(w)
  <2>1. CASE Crash(w) \/ Restart(w)
    BY <2>1 DEF Crash, Restart, Goto, setting, Stays, TypeOK
  <2>2. CASE HandlerFails(w)
    BY <2>2, <1>2 DEF HandlerFails, Busy
  <2> QED BY <1>5, <2>1, <2>2 DEF Fail
<1> QED BY <1>1, <1>3, <1>4, <1>5 DEF Act

-----------------------------------------------------------------------------
(* What a step does to the readings.                                        *)

Quiet(w) == UNCHANGED kept /\ Mine(w) = {} /\ phase'[w] # "writing"
Ends(w) == (Keep(w) \/ Discard(w)) /\ phase'[w] # "writing"

LEMMA KindsOfStep ==
    ASSUME TypeOK, NEW w \in Worker, Act(w)
    PROVE  Quiet(w) \/ Record(w) \/ SettleNext(w) \/ Ends(w)
<1>1. phase[w] \notin {"writing", "settling"} => Mine(w) = {}
  BY NoneAssumption DEF TypeOK, Mine
<1>2. ASSUME NEW j \in Job, Claim(w, j) \/ RecoverStopped(w, j) PROVE Quiet(w)
  BY <1>1, <1>2 DEF Claim, RecoverStopped, Goto, worker, Quiet, TypeOK
<1>3. CASE Read(w)
  <2>1. CASE AlreadyRead(w) \/ WaitForSlot(w) \/ TakeSlot(w) \/ Retry(w)
    BY <2>1, <1>1 DEF AlreadyRead, WaitForSlot, TakeSlot, Retry, Settled, Requeued, Goto, Quiet, TypeOK
  <2>2. CASE Commit(w)
    BY <2>2 DEF Commit, Settled, Goto, Ends, TypeOK
  <2> QED BY <1>3, <2>1, <2>2 DEF Read
<1>4. CASE Settle(w)
  BY <1>1, <1>4 DEF Settle, SettleScan, SettleCommit, Goto, Quiet, Ends, TypeOK
<1>5. CASE Fail(w)
  BY <1>1, <1>5 DEF Fail, Crash, HandlerFails, Restart, Settled, Goto, Quiet, Ends, TypeOK
<1> QED BY <1>2, <1>3, <1>4, <1>5 DEF Act

LEMMA InsertOrNot ==
    ASSUME NEW w \in Worker, Record(w) \/ SettleNext(w)
    PROVE  \/ UNCHANGED kept
           \/ \E f, name, outcome : Insert(w, f, name, outcome)
BY DEF Record, SettleNext, kept

(***************************************************************************)
(* What is committed stays, and what is newly so was an open row.          *)
(***************************************************************************)
LEMMA SeenStays ==
    ASSUME TypeOK, Next
    PROVE  /\ Seen \subseteq Seen'
           /\ \A r \in Seen' \ Seen :
                  \E s \in readings : s.by # None /\ s.file = r.file /\ s.reader = r.reader
<1> DEFINE Goal == /\ Seen \subseteq Seen'
                   /\ \A r \in Seen' \ Seen :
                          \E s \in readings : s.by # None /\ s.file = r.file /\ s.reader = r.reader
<1> USE NoneAssumption
<1>1. ASSUME UNCHANGED kept PROVE Goal
  BY <1>1 DEF kept, Seen
<1>2. ASSUME NEW w \in Worker, Act(w) PROVE Goal
  <2>1. ASSUME NEW f, NEW name, NEW outcome, Insert(w, f, name, outcome) PROVE Goal
    BY <2>1 DEF Insert, Seen
  <2>2. ASSUME Keep(w) PROVE Goal
    BY <2>2 DEF Keep, Seen, TypeOK, ReadingRow
  <2>3. ASSUME Discard(w) PROVE Goal
    BY <2>3 DEF Discard, Mine, Seen
  <2> QED BY <1>1, <1>2, <2>1, <2>2, <2>3, KindsOfStep, InsertOrNot DEF Quiet, Ends
<1> QED BY <1>1, <1>2, WhoSteps, EnvironmentLeaves

LEMMA UniqueKeyStep ==
    ASSUME TypeOK, UniqueKey, Next
    PROVE  UniqueKey'
<1> USE NoneAssumption
<1>1. ASSUME UNCHANGED kept PROVE UniqueKey'
  BY <1>1 DEF kept, UniqueKey
<1>2. ASSUME NEW w \in Worker, Act(w) PROVE UniqueKey'
  <2>1. ASSUME NEW f, NEW name, NEW outcome, Insert(w, f, name, outcome) PROVE UniqueKey'
    BY <2>1 DEF Insert, KeyFree, UniqueKey
  <2>2. ASSUME Keep(w) PROVE UniqueKey'
    <3>1. \A r \in readings' : \E s \in readings :
              /\ r = IF s.by = w THEN [s EXCEPT !.by = None] ELSE s
              /\ r.file = s.file /\ r.reader = s.reader
      BY <2>2 DEF Keep, TypeOK, ReadingRow
    <3> QED BY <3>1 DEF UniqueKey
  <2>3. ASSUME Discard(w) PROVE UniqueKey'
    BY <2>3 DEF Discard, UniqueKey
  <2> QED BY <1>1, <1>2, <2>1, <2>2, <2>3, KindsOfStep, InsertOrNot DEF Quiet, Ends
<1> QED BY <1>1, <1>2, WhoSteps, EnvironmentLeaves

-----------------------------------------------------------------------------
(* The invariant holds.                                                     *)

(***************************************************************************)
(* A job is for a file that had one, or whose upload commits.              *)
(***************************************************************************)
LEMMA JobsComeFrom ==
    ASSUME TypeOK, Next
    PROVE  /\ uploaded \subseteq uploaded'
           /\ \A j \in Job : job'[j] # None =>
                  \/ job'[j].file \in receiving
                  \/ \E i \in Job : job[i] # None /\ job[i].file = job'[j].file
<1> DEFINE Goal == /\ uploaded \subseteq uploaded'
                   /\ \A j \in Job : job'[j] # None =>
                          \/ job'[j].file \in receiving
                          \/ \E i \in Job : job[i] # None /\ job[i].file = job'[j].file
<1> USE NoneAssumption, RowIsNotNone
<1>1. ASSUME UNCHANGED uploaded, UNCHANGED job PROVE Goal
  BY <1>1
<1>2. ASSUME NEW w \in Worker, UNCHANGED uploaded, Settled(w) PROVE Goal
  BY <1>2 DEF Settled, TypeOK
<1>3. ASSUME NEW f \in File, Uploads(f) PROVE Goal
  BY <1>3 DEF Uploads, Receive, ReceiveCommit, ReceiveFails, TypeOK
<1>4. ASSUME NEW name \in Reader, Reconfigure(name) PROVE Goal
  BY <1>1, <1>4 DEF Reconfigure, upload
<1>5. ASSUME RestartApi PROVE Goal
  BY <1>1, <1>5 DEF RestartApi
<1>6. ASSUME NEW w \in Worker, NEW j \in Job, Claim(w, j) \/ RecoverStopped(w, j) PROVE Goal
  BY <1>6 DEF Claim, RecoverStopped, upload, TypeOK, JobRow
<1>7. ASSUME NEW w \in Worker, Read(w) PROVE Goal
  <2>1. CASE AlreadyRead(w) \/ Commit(w)
    BY <2>1, <1>2 DEF AlreadyRead, Commit, upload
  <2>2. CASE WaitForSlot(w) \/ Retry(w)
    <3>1. PICK a \in 1 .. MaxAttempts : Requeued(w, a)
      BY <2>2, AttemptsInRange
    <3>2. hand[w] \in Job /\ hand[w] # None /\ job[hand[w]] # None
      BY <2>2 DEF WaitForSlot, Retry, TypeOK
    <3>3. PICK k \in Job :
              /\ job'[k].file = job[hand[w]].file
              /\ job'[hand[w]] = None
              /\ \A j \in Job \ {k, hand[w]} : job'[j] = job[j]
      BY <3>1, <3>2, RequeuedRequests DEF Current
    <3>4. UNCHANGED uploaded
      BY <2>2 DEF WaitForSlot, Retry, upload
    <3> QED BY <3>2, <3>3, <3>4
  <2>3. CASE TakeSlot(w) \/ Record(w)
    BY <2>3, <1>1 DEF TakeSlot, Record, upload
  <2> QED BY <1>7, <2>1, <2>2, <2>3 DEF Read
<1>8. ASSUME NEW w \in Worker, Settle(w) PROVE Goal
  BY <1>1, <1>8 DEF Settle, SettleScan, SettleNext, SettleCommit, upload
<1>9. ASSUME NEW w \in Worker, Fail(w) PROVE Goal
  BY <1>1, <1>2, <1>9 DEF Fail, Crash, HandlerFails, Restart, upload
<1> QED BY <1>3, <1>4, <1>5, <1>6, <1>7, <1>8, <1>9 DEF Next

LEMMA LostStep ==
    ASSUME Inv, Next, NEW f \in File, Lost(f)
    PROVE  Lost(f)' \/ ReadBy(f, GaveUp)'
<1>1. f \in uploaded'
  BY JobsComeFrom DEF Inv, Lost
<1>2. \A j \in Job : job'[j] # None => job'[j].file # f
  BY JobsComeFrom DEF Inv, Lost, AskedAgain
<1>3. ASSUME Answered(f)' PROVE ReadBy(f, GaveUp)'
  <2>1. PICK r \in Seen' : r.file = f
    BY <1>3 DEF Answered
  <2>2. r \notin Seen
    BY <2>1 DEF Lost, Answered
  <2>3. PICK s \in readings : s.by # None /\ s.file = f /\ s.reader = r.reader
    BY <2>1, <2>2, SeenStays DEF Inv
  <2>4. s.by \in Worker
    BY <2>3 DEF Inv, TypeOK, ReadingRow
  <2>5. ~JobsRow(s)
    BY <2>3, <2>4 DEF Inv, TypeOK, JobsRow, Current, Lost
  <2>6. s.reader = GaveUp
    BY <2>3, <2>5 DEF Inv, OpenRowsStand, SettlersRow
  <2> QED BY <2>1, <2>3, <2>6 DEF ReadBy
<1> QED BY <1>1, <1>2, <1>3 DEF Lost

LEMMA AskedAgainStep ==
    ASSUME Inv, Next
    PROVE  AskedAgain'
<1> SUFFICES ASSUME NEW f \in receiving', f \in uploaded' PROVE Answered(f)'
  BY DEF AskedAgain
<1>1. Answered(f) => Answered(f)'
  BY SeenStays DEF Inv, Answered
<1>2. ASSUME NEW g \in File, Uploads(g) PROVE Answered(f)
  <2>1. CASE Receive(g)
    BY <1>2, <2>1 DEF Receive, AnsweredByAnotherReader, Newest, Answered, Inv, AskedAgain
  <2>2. CASE \E k \in Job, q \in Request : ReceiveCommit(g, k, q)
    BY <1>2, <2>2 DEF ReceiveCommit, Inv, AskedAgain
  <2>3. CASE ReceiveFails(g)
    BY <1>2, <2>3 DEF ReceiveFails, Inv, AskedAgain
  <2> QED BY <1>2, <2>1, <2>2, <2>3 DEF Uploads
<1>3. ASSUME NEW name \in Reader, Reconfigure(name) PROVE Answered(f)
  BY <1>3 DEF Reconfigure, upload, Inv, AskedAgain
<1>4. ASSUME RestartApi PROVE FALSE
  BY <1>4 DEF RestartApi
<1>5. ASSUME NEW w \in Worker, Act(w) PROVE UNCHANGED upload
  BY <1>5 DEF Act, Claim, RecoverStopped, Read, AlreadyRead, WaitForSlot, TakeSlot, Retry, Record,
              Commit, Settle, SettleScan, SettleNext, SettleCommit, Fail, Crash, HandlerFails, Restart
<1> QED BY <1>1, <1>2, <1>3, <1>4, <1>5, WhoSteps DEF Environment, upload, Inv, AskedAgain

LEMMA ListedStep ==
    ASSUME Inv, Next
    PROVE  ListedStand'
<1> SUFFICES ASSUME NEW w \in Worker, NEW f \in todo'[w] PROVE ReadBy(f, GaveUp)' \/ Lost(f)'
  BY DEF ListedStand
<1>1. ASSUME f \in todo[w] PROVE ReadBy(f, GaveUp)' \/ Lost(f)'
  <2>1. f \in File
    BY <1>1 DEF Inv, TypeOK
  <2>2. ReadBy(f, GaveUp) => ReadBy(f, GaveUp)'
    BY SeenStays DEF Inv, ReadBy
  <2> QED BY <1>1, <2>1, <2>2, LostStep DEF Inv, ListedStand
<1>2. ASSUME Act(w), f \notin todo[w] PROVE Lost(f)'
  <2>1. SettleScan(w)
    BY <1>2 DEF Act, Claim, RecoverStopped, Read, AlreadyRead, WaitForSlot, TakeSlot, Retry, Record,
                Commit, Settle, SettleNext, SettleCommit, Fail, Crash, HandlerFails, Restart,
                Settled, Requeued, worker, Inv, TypeOK
  <2>2. f \in AbandonedFiles
    BY <1>2, <2>1 DEF SettleScan, Inv, TypeOK
  <2> QED BY <2>1, <2>2 DEF SettleScan, AbandonedFiles, Lost, Answered, Seen, upload, kept
<1>3. ~Act(w) => todo'[w] = todo[w]
  BY WhoSteps, EnvironmentLeaves, OthersStay DEF Stays, Inv
<1> QED BY <1>1, <1>2, <1>3

LEMMA OpenRowStays ==
    ASSUME Inv, Next, UniqueKey', NEW v \in Worker, Stays(v),
           NEW r \in readings, r \in readings', r.by = v
    PROVE  JobsRow(r)' \/ SettlersRow(r)'
<1>1. r.by # None /\ r.file \in File
  BY NoneAssumption DEF Inv, TypeOK, ReadingRow
<1>2. CASE JobsRow(r)
  <2>1. hand[v] # None
    BY <1>2 DEF JobsRow, Inv, TypeOK
  <2> QED BY <1>2, <2>1 DEF JobsRow, Stays, Current
<1>3. CASE SettlersRow(r)
  <2>1. ASSUME ReadBy(r.file, GaveUp)' PROVE FALSE
    <3>1. PICK s \in readings' : s.by = None /\ s.file = r.file /\ s.reader = GaveUp
      BY <2>1 DEF ReadBy, Seen
    <3> QED BY <1>1, <1>3, <3>1 DEF SettlersRow, UniqueKey
  <2>2. Lost(r.file)'
    BY <1>1, <1>3, <2>1, LostStep DEF SettlersRow
  <2> QED BY <1>3, <2>2 DEF SettlersRow, Stays
<1> QED BY <1>1, <1>2, <1>3 DEF Inv, OpenRowsStand

LEMMA OpenRowsStep ==
    ASSUME Inv, Next, UniqueKey'
    PROVE  OpenRowsStand'
<1> SUFFICES ASSUME NEW r \in readings', r.by # None PROVE JobsRow(r)' \/ SettlersRow(r)'
  BY DEF OpenRowsStand
<1>1. CASE Environment
  <2>1. r \in readings
    BY <1>1, EnvironmentLeaves DEF Inv, kept
  <2> QED BY <1>1, <2>1, EnvironmentLeaves, OpenRowStays DEF Inv, TypeOK, ReadingRow
<1>2. ASSUME NEW w \in Worker, Act(w) PROVE JobsRow(r)' \/ SettlersRow(r)'
  <2>1. ASSUME r \in readings, r.by # w PROVE JobsRow(r)' \/ SettlersRow(r)'
    BY <1>2, <2>1, OthersStay, OpenRowStays DEF Inv, TypeOK, ReadingRow
  <2>2. CASE Quiet(w)
    <3>1. r \in readings /\ r.by # w
      BY <2>2 DEF Quiet, kept, Mine
    <3> QED BY <2>1, <3>1
  <2>3. CASE Ends(w)
    <3>1. r \in readings /\ r.by # w
      BY <2>3, NoneAssumption DEF Ends, Keep, Discard, Mine, Inv, TypeOK, ReadingRow
    <3> QED BY <2>1, <3>1
  <2>4. CASE Record(w)
    <3>1. Mine(w) = {}
      BY <2>4, NoneAssumption DEF Record, Mine, Inv, TypeOK
    <3>2. PICK outcome \in Final(w) : Insert(w, Current(w).file, reader[w], outcome)
      BY <2>4 DEF Record
    <3>3. CASE r \in readings
      BY <2>1, <3>1, <3>3 DEF Mine
    <3>4. CASE r \notin readings
      <4>1. r.file = Current(w).file /\ r.reader = reader[w] /\ r.outcome = outcome /\ r.by = w
        BY <3>2, <3>4 DEF Insert
      <4>2. phase'[w] = "writing" /\ Current(w)' = Current(w) /\ reader'[w] = reader[w]
        BY <2>4 DEF Record, Goto, Current, setting, Inv, TypeOK
      <4>3. outcome \in Answer \cup Failure
        BY <3>2 DEF Final
      <4> QED BY <4>1, <4>2, <4>3 DEF JobsRow, Current
    <3> QED BY <3>3, <3>4
  <2>5. CASE SettleNext(w)
    <3>1. phase[w] = "settling" /\ phase' = phase /\ UNCHANGED <<upload, job>>
      BY <2>5 DEF SettleNext
    <3>2. Seen' = Seen
      BY <2>5, NoneAssumption DEF SettleNext, Insert, Seen
    <3>3. ASSUME NEW f, Lost(f) PROVE Lost(f)'
      BY <3>1, <3>2, <3>3 DEF Lost, Answered, upload
    <3>4. CASE r \in readings
      <4>1. CASE r.by = w
        <5>1. SettlersRow(r)
          BY <3>1, <3>4, <4>1 DEF Inv, OpenRowsStand, JobsRow
        <5> QED BY <3>1, <3>3, <5>1 DEF SettlersRow
      <4> QED BY <2>1, <3>4, <4>1
    <3>5. CASE r \notin readings
      <4>1. PICK f \in todo[w] : Insert(w, f, GaveUp, Abandoned)
        BY <2>5, <3>5 DEF SettleNext
      <4>2. r.file = f /\ r.reader = GaveUp /\ r.outcome = Abandoned /\ r.by = w
        BY <3>5, <4>1 DEF Insert
      <4>3. ~ReadBy(f, GaveUp)
        BY <4>1 DEF Insert, KeyFree, ReadBy, Seen
      <4>4. Lost(f)
        BY <4>1, <4>3 DEF Inv, ListedStand
      <4> QED BY <3>1, <3>3, <4>2, <4>4 DEF SettlersRow
    <3> QED BY <3>4, <3>5
  <2> QED BY <1>2, <2>2, <2>3, <2>4, <2>5, KindsOfStep DEF Inv
<1> QED BY <1>1, <1>2, WhoSteps

LEMMA WritersStep ==
    ASSUME Inv, Next
    PROVE  WritersHaveRows'
<1> SUFFICES ASSUME NEW v \in Worker, phase'[v] = "writing" PROVE Mine(v)' # {}
  BY DEF WritersHaveRows
<1>1. ASSUME phase[v] = "writing", Mine(v) \subseteq readings' PROVE Mine(v)' # {}
  BY <1>1 DEF Mine, Inv, WritersHaveRows
<1>2. CASE Environment
  BY <1>1, <1>2, EnvironmentLeaves DEF Inv, Stays, kept, Mine
<1>3. ASSUME NEW w \in Worker, Act(w) PROVE Mine(v)' # {}
  <2>1. ASSUME NEW f, NEW name, NEW outcome, Insert(w, f, name, outcome) PROVE readings \subseteq readings'
    BY <2>1 DEF Insert
  <2>2. CASE v = w
    <3>1. Record(w) \/ SettleNext(w)
      BY <1>3, <2>2, KindsOfStep DEF Quiet, Ends, Inv
    <3>2. Record(w)
      BY <2>2, <3>1 DEF SettleNext
    <3>3. PICK outcome \in Final(w) : Insert(w, Current(w).file, reader[w], outcome)
      BY <3>2 DEF Record
    <3>4. \E r \in readings' : r.by = w
      <4> DEFINE row == [id |-> lastId + 1, file |-> Current(w).file, reader |-> reader[w],
                         outcome |-> outcome, by |-> w]
      <4>1. row \in readings'
        BY <3>3 DEF Insert
      <4>2. row.by = w
        OBVIOUS
      <4> QED BY <4>1, <4>2
    <3> QED BY <2>2, <3>4 DEF Mine
  <2>3. CASE v # w
    <3>1. phase[v] = "writing"
      BY <1>3, <2>3, OthersStay DEF Stays, Inv
    <3>2. CASE Quiet(w)
      BY <1>1, <3>1, <3>2 DEF Quiet, kept, Mine
    <3>3. CASE Record(w) \/ SettleNext(w)
      BY <1>1, <2>1, <3>1, <3>3, InsertOrNot DEF kept, Mine
    <3>4. CASE Ends(w)
      BY <1>1, <2>3, <3>1, <3>4 DEF Ends, Keep, Discard, Mine
    <3> QED BY <1>3, <3>2, <3>3, <3>4, KindsOfStep DEF Inv
  <2> QED BY <2>2, <2>3
<1> QED BY <1>2, <1>3, WhoSteps

(***************************************************************************)
(* The inductive invariant: one row for each file and reader; what a       *)
(* settler is about to give up, or has but not committed, is lost; what a  *)
(* job has inserted is of its file; an upload that queues a re-read is of  *)
(* a file that was answered.                                               *)
(***************************************************************************)
THEOREM InvCorrect == Spec => []Inv
<1>1. Init => UniqueKey /\ AskedAgain /\ ListedStand /\ OpenRowsStand /\ WritersHaveRows
  BY DEF Init, UniqueKey, AskedAgain, ListedStand, OpenRowsStand, WritersHaveRows
<1>2. Init => TypeOK /\ OneJobPerRequest
  BY TypedInit, TypeParts DEF Init, OneJobPerRequest
<1>3. ASSUME Inv, Next, TypeOK' PROVE Inv'
  BY <1>3, OneJobStep, UniqueKeyStep, AskedAgainStep, ListedStep, OpenRowsStep, WritersStep DEF Inv
<1>4. ASSUME Inv, UNCHANGED vars PROVE Inv'
  BY <1>4 DEF vars, upload, setting, kept, worker, Inv, TypeOK, OneJobPerRequest, UniqueKey, AskedAgain,
              ListedStand, OpenRowsStand, WritersHaveRows, ReadBy, Lost, Answered, Seen, JobsRow,
              SettlersRow, Mine, Current
<1>5. Inv /\ TypeOK' /\ [Next]_vars => Inv'
  BY <1>3, <1>4
<1> QED BY <1>1, <1>2, <1>5, ReadingTypes, PTL DEF Spec, Inv

-----------------------------------------------------------------------------
(* Reading implements IntakeRecord.                                         *)

Answers == {[file |-> r.file, reader |-> r.reader, outcome |-> r.outcome] : r \in Seen}
Requests == [f \in File |-> Asked(f)]

LEMMA AnswersSame ==
    ASSUME Seen' = Seen
    PROVE  Answers' = Answers
BY DEF Answers

(***************************************************************************)
(* A step that leaves every request where it was, and one that settles the *)
(* last job of a request.                                                  *)
(***************************************************************************)
LEMMA RequestsSame ==
    ASSUME TypeOK, TypeOK',
           \A j \in Job : job[j] # None => \E k \in Job :
               job'[k] # None /\ job'[k].file = job[j].file /\ job'[k].request = job[j].request,
           \A j \in Job : job'[j] # None => \E k \in Job :
               job[k] # None /\ job[k].file = job'[j].file /\ job[k].request = job'[j].request
    PROVE  Requests' = Requests
<1>1. ASSUME NEW f \in File PROVE Asked(f)' = Asked(f)
  BY DEF Asked
<1> QED BY <1>1 DEF Requests

LEMMA RequestDropped ==
    ASSUME TypeOK, OneJobPerRequest, NEW j \in Job, job[j] # None,
           job' = [job EXCEPT ![j] = None]
    PROVE  /\ job[j].file \in File
           /\ job[j].request \in Requests[job[j].file]
           /\ job[j].request \in Request
           /\ Requests' = [Requests EXCEPT ![job[j].file] = @ \ {job[j].request}]
<1>1. job[j] \in JobRow
  BY DEF TypeOK
<1>2. job[j].file \in File /\ job[j].request \in Request
  BY <1>1 DEF JobRow
<1>3. ASSUME NEW f \in File
      PROVE  Asked(f)' = IF f = job[j].file THEN Asked(f) \ {job[j].request} ELSE Asked(f)
  BY <1>2 DEF Asked, TypeOK, OneJobPerRequest
<1>4. job[j].request \in Asked(job[j].file)
  BY <1>2 DEF Asked
<1>5. Requests' = [Requests EXCEPT ![job[j].file] = @ \ {job[j].request}]
  BY <1>2, <1>3 DEF Requests
<1> QED BY <1>2, <1>4, <1>5 DEF Requests

LEMMA MapInit == Init => Intake!Init
BY NoneAssumption DEF Init, Intake!Init, Asked, Seen

(***************************************************************************)
(* A step that changes no request, no answer and no flag is a stutter.     *)
(***************************************************************************)
Stutter == UNCHANGED <<uploaded, Requests, Answers, flagged>>

LEMMA StutterMaps ==
    ASSUME Stutter
    PROVE  UNCHANGED Intake!intakeVars
BY DEF Stutter, Intake!intakeVars, Requests, Answers

LEMMA DropMaps ==
    ASSUME TypeOK, OneJobPerRequest, NEW j \in Job, job[j] # None,
           job' = [job EXCEPT ![j] = None], UNCHANGED <<uploaded, Seen, flagged>>
    PROVE  Intake!Next
<1>1. Intake!Drop(job[j].file, job[j].request)
  BY RequestDropped, AnswersSame DEF Intake!Drop, Requests, Answers
<1> QED BY <1>1, RequestDropped DEF Intake!Next

LEMMA AnsweredMaps ==
    ASSUME NEW f
    PROVE  Answered(f) <=> Intake!Answered(f)
<1>1. ASSUME NEW r \in Seen
      PROVE  [file |-> r.file, reader |-> r.reader, outcome |-> r.outcome] \in Answers
  BY DEF Answers
<1>2. ASSUME NEW a \in Answers PROVE \E r \in Seen : r.file = a.file
  BY DEF Answers
<1> QED BY <1>1, <1>2 DEF Answered, Intake!Answered, Answers

LEMMA AskMaps ==
    ASSUME Inv, NEW f \in File, NEW k \in Job, NEW q \in Request, ReceiveCommit(f, k, q)
    PROVE  Intake!Next
<1>1. f \notin uploaded \/ Answered(f)
  BY DEF ReceiveCommit, Inv, AskedAgain
<1>2. Answered(f) => Intake!Answered(f)
  BY AnsweredMaps
<1>3. \A g \in File : q \notin Requests[g]
  BY DEF ReceiveCommit, FreeRequest, Requests, Asked
<1>4. ASSUME NEW g \in File PROVE Asked(g)' = IF g = f THEN Asked(g) \cup {q} ELSE Asked(g)
  <2>1. job[k] = None /\ \A j \in Job \ {k} : job'[j] = job[j]
    BY DEF ReceiveCommit, NewJob, Inv, TypeOK
  <2>2. job'[k] # None /\ job'[k].file = f /\ job'[k].request = q
    <3>1. job'[k] = [file |-> f, attempt |-> 1, request |-> q, status |-> "queued"]
      BY DEF ReceiveCommit, Inv, TypeOK
    <3>2. job'[k] \in JobRow
      BY <3>1, BoundsAssumption DEF JobRow
    <3> QED BY <3>1, <3>2, RowIsNotNone
  <2> QED BY <2>1, <2>2 DEF Asked
<1>5. Requests' = [Requests EXCEPT ![f] = @ \cup {q}]
  BY <1>4 DEF Requests
<1>6. Seen' = Seen
  BY DEF ReceiveCommit, kept, Seen
<1>7. Intake!Ask(f, q)
  BY <1>1, <1>2, <1>3, <1>5, <1>6, AnswersSame DEF Intake!Ask, ReceiveCommit, kept, Requests, Answers
<1> QED BY <1>7 DEF Intake!Next

(***************************************************************************)
(* A COMMIT adds the answers of the worker's rows.                         *)
(***************************************************************************)
Entry(r) == [file |-> r.file, reader |-> r.reader, outcome |-> r.outcome]

LEMMA KeepAnswers ==
    ASSUME TypeOK, NEW w \in Worker, Keep(w)
    PROVE  Answers' = Answers \cup {Entry(r) : r \in Mine(w)}
<1> USE NoneAssumption
<1>1. ASSUME NEW a \in Answers' PROVE a \in Answers \cup {Entry(r) : r \in Mine(w)}
  <2>1. PICK r \in Seen' : a = Entry(r)
    BY DEF Answers, Entry
  <2>2. PICK s \in readings : r = IF s.by = w THEN [s EXCEPT !.by = None] ELSE s
    BY <2>1 DEF Seen, Keep
  <2>3. Entry(r) = Entry(s)
    BY <2>2 DEF Entry, TypeOK, ReadingRow
  <2>4. s \in Seen \/ s \in Mine(w)
    BY <2>1, <2>2 DEF Seen, Mine
  <2> QED BY <2>1, <2>3, <2>4 DEF Answers, Entry
<1>2. ASSUME NEW r \in Seen PROVE Entry(r) \in Answers'
  <2>1. r \in Seen'
    BY DEF Seen, Keep
  <2> QED BY <2>1 DEF Answers, Entry
<1>3. ASSUME NEW r \in Mine(w) PROVE Entry(r) \in Answers'
  <2>1. [r EXCEPT !.by = None] \in readings'
    BY DEF Mine, Keep
  <2>2. [r EXCEPT !.by = None].by = None /\ Entry([r EXCEPT !.by = None]) = Entry(r)
    BY DEF Mine, TypeOK, ReadingRow, Entry
  <2>3. [r EXCEPT !.by = None] \in Seen'
    BY <2>1, <2>2 DEF Seen
  <2> QED BY <2>2, <2>3 DEF Answers, Entry
<1>4. Answers = {Entry(r) : r \in Seen}
  BY DEF Answers, Entry
<1>5. Answers \subseteq Answers' /\ {Entry(r) : r \in Mine(w)} \subseteq Answers'
  BY ONLY <1>2, <1>3, <1>4
<1> QED BY ONLY <1>1, <1>5

LEMMA ReplyMaps ==
    ASSUME Inv, NEW w \in Worker, Commit(w)
    PROVE  Intake!Next
<1>1. hand[w] \in Job /\ job[hand[w]] # None /\ job' = [job EXCEPT ![hand[w]] = None]
  BY DEF Inv, TypeOK, Commit, Settled
<1> DEFINE f == job[hand[w]].file
           q == job[hand[w]].request
<1>2. /\ f \in File /\ q \in Request /\ q \in Requests[f]
      /\ Requests' = [Requests EXCEPT ![f] = @ \ {q}]
  BY <1>1, RequestDropped DEF Inv
<1>3. PICK r \in readings : r.by = w
  BY DEF Commit, Inv, WritersHaveRows, Mine
<1>4. \A s \in Mine(w) : JobsRow(s)
  BY NoneAssumption DEF Commit, Mine, Inv, OpenRowsStand, SettlersRow
<1>5. JobsRow(r) /\ Mine(w) = {r}
  BY <1>3, <1>4 DEF Mine, JobsRow, Inv, UniqueKey
<1>6. r.file = f /\ r.reader \in Reader /\ r.outcome \in Answer \cup Failure
  BY <1>3, <1>5 DEF JobsRow, Current, Inv, TypeOK
<1>7. ASSUME NEW a \in Answers, a.file = f, a.reader = r.reader PROVE FALSE
  <2>1. PICK s \in Seen : a = Entry(s)
    BY DEF Answers, Entry
  <2>2. s \in readings /\ s.by = None /\ s.file = r.file /\ s.reader = r.reader
    BY <1>6, <1>7, <2>1 DEF Seen, Entry
  <2> QED BY <1>3, <2>2, NoneAssumption DEF Inv, UniqueKey
<1>8. Answers' = Answers \cup {[file |-> f, reader |-> r.reader, outcome |-> r.outcome]}
  BY <1>5, <1>6, KeepAnswers DEF Commit, Inv, Entry
<1>9. flagged' = flagged \cup ({f} \X Intake!Flag(r.outcome))
  BY <1>5, <1>6 DEF Commit, Keep, Flag, Intake!Flag, Hidden
<1>10. UNCHANGED uploaded
  BY DEF Commit, upload
<1>11. Intake!Reply(f, q, r.reader, r.outcome)
  BY <1>2, <1>7, <1>8, <1>9, <1>10 DEF Intake!Reply, Requests, Answers
<1> QED BY <1>2, <1>6, <1>11 DEF Intake!Next

LEMMA GiveUpIsNext ==
    ASSUME NEW S \in SUBSET File, Intake!GiveUp(S)
    PROVE  Intake!Next
<1>1. \E T \in SUBSET File : Intake!GiveUp(T)
  BY Zenon
<1> QED BY <1>1, Zenon DEF Intake!Next

LEMMA GiveUpMaps ==
    ASSUME Inv, NEW w \in Worker, SettleCommit(w)
    PROVE  Intake!Next
<1>1. ASSUME NEW r \in Mine(w)
      PROVE  SettlersRow(r) /\ r.file \in File
  BY NoneAssumption DEF Mine, SettleCommit, Inv, TypeOK, ReadingRow, OpenRowsStand, JobsRow
<1>2. PICK S \in SUBSET File : S = {r.file : r \in Mine(w)}
  BY <1>1
<1>3. ASSUME NEW f \in S PROVE f \in uploaded /\ Requests[f] = {} /\ ~Intake!Answered(f)
  <2>1. f \in File /\ Lost(f)
    BY <1>1, <1>2, <1>3 DEF SettlersRow
  <2>2. Requests[f] = {}
    BY <2>1 DEF Requests, Asked, Lost
  <2> QED BY <2>1, <2>2, AnsweredMaps DEF Lost
<1>4. {Entry(r) : r \in Mine(w)} = {[file |-> f, reader |-> GaveUp, outcome |-> Abandoned] : f \in S}
  BY <1>1, <1>2 DEF SettlersRow, Entry
<1>5. Answers' = Answers \cup {[file |-> f, reader |-> GaveUp, outcome |-> Abandoned] : f \in S}
  BY <1>4, KeepAnswers DEF SettleCommit, Inv
<1>6. UNION {{r.file} \X Flag(r.outcome) : r \in Mine(w)} = S \X {Abandoned}
  <2>1. \A r \in Mine(w) : Flag(r.outcome) = {Abandoned}
    BY <1>1 DEF SettlersRow, Flag, Abandoned
  <2> QED BY <1>2, <2>1
<1>7. flagged' = flagged \cup (S \X {Abandoned})
  BY <1>6 DEF SettleCommit, Keep
<1>8. Requests' = Requests /\ UNCHANGED uploaded
  BY DEF SettleCommit, upload, Requests, Asked
<1>9. Intake!GiveUp(S)
  BY <1>3, <1>5, <1>7, <1>8 DEF Intake!GiveUp, Requests, Answers, Intake!Abandoned, Abandoned
<1> QED BY <1>9, GiveUpIsNext

LEMMA StepMaps ==
    ASSUME Inv, Inv', Next
    PROVE  Intake!Next \/ UNCHANGED Intake!intakeVars
<1> DEFINE Goal == Intake!Next \/ UNCHANGED Intake!intakeVars
<1> USE NoneAssumption, RowIsNotNone
<1>1. ASSUME UNCHANGED <<uploaded, flagged>>, Seen' = Seen, Requests' = Requests PROVE Goal
  BY <1>1, AnswersSame, StutterMaps DEF Stutter
<1>2. ASSUME UNCHANGED job PROVE Requests' = Requests
  BY <1>2 DEF Requests, Asked
<1>3. ASSUME UNCHANGED kept PROVE Seen' = Seen /\ UNCHANGED flagged
  BY <1>3 DEF kept, Seen
<1>4. ASSUME NEW w \in Worker, Settled(w), phase[w] \in Busy, UNCHANGED <<uploaded, flagged>>,
             Seen' = Seen
      PROVE  Goal
  <2>1. hand[w] \in Job /\ job[hand[w]] # None /\ job' = [job EXCEPT ![hand[w]] = None]
    BY <1>4 DEF Settled, Inv, TypeOK, Busy
  <2> QED BY <1>4, <2>1, DropMaps DEF Inv
<1>5. ASSUME NEW f \in File, Uploads(f) PROVE Goal
  <2>1. CASE Receive(f) \/ ReceiveFails(f)
    BY <1>1, <1>2, <1>3, <2>1 DEF Receive, ReceiveFails
  <2>2. CASE \E k \in Job, q \in Request : ReceiveCommit(f, k, q)
    BY <2>2, AskMaps
  <2> QED BY <1>5, <2>1, <2>2 DEF Uploads
<1>6. ASSUME NEW name \in Reader, Reconfigure(name) PROVE Goal
  BY <1>1, <1>2, <1>3, <1>6 DEF Reconfigure, upload
<1>7. ASSUME RestartApi PROVE Goal
  BY <1>1, <1>2, <1>3, <1>7 DEF RestartApi
<1>8. ASSUME NEW w \in Worker, NEW j \in Job, Claim(w, j) PROVE Goal
  <2>1. /\ \A i \in Job \ {j} : job'[i] = job[i]
        /\ job[j] \in JobRow /\ job'[j] # None
        /\ job'[j].file = job[j].file /\ job'[j].request = job[j].request
    BY <1>8 DEF Claim, Inv, TypeOK, JobRow
  <2>2. Requests' = Requests
    BY <2>1, RequestsSame DEF Inv
  <2> QED BY <1>1, <1>3, <1>8, <2>2 DEF Claim, upload
<1>9. ASSUME NEW w \in Worker, NEW j \in Job, RecoverStopped(w, j) PROVE Goal
  <2>1. CASE job' = [job EXCEPT ![j].status = "queued"]
    <3>1. /\ \A i \in Job \ {j} : job'[i] = job[i]
          /\ job[j] \in JobRow /\ job'[j] # None
          /\ job'[j].file = job[j].file /\ job'[j].request = job[j].request
      BY <1>9, <2>1 DEF RecoverStopped, Inv, TypeOK, JobRow
    <3>2. Requests' = Requests
      BY <3>1, RequestsSame DEF Inv
    <3> QED BY <1>1, <1>3, <1>9, <3>2 DEF RecoverStopped, upload
  <2>2. CASE job' = [job EXCEPT ![j] = None]
    BY <1>3, <1>9, <2>2, DropMaps DEF RecoverStopped, upload, Inv
  <2> QED BY <1>9, <2>1, <2>2 DEF RecoverStopped
<1>10. ASSUME NEW w \in Worker, Read(w) PROVE Goal
  <2>1. CASE AlreadyRead(w)
    BY <1>3, <1>4, <2>1 DEF AlreadyRead, upload, Busy
  <2>2. CASE WaitForSlot(w) \/ Retry(w)
    <3>1. PICK a \in 1 .. MaxAttempts : Requeued(w, a)
      BY <2>2, AttemptsInRange DEF Inv
    <3>2. hand[w] \in Job /\ hand[w] # None /\ job[hand[w]] # None
      BY <2>2 DEF WaitForSlot, Retry, Inv, TypeOK
    <3>3. PICK k \in Job :
              /\ job[k] = None /\ k # hand[w]
              /\ job'[k] \in JobRow
              /\ job'[k].request = job[hand[w]].request
              /\ job'[k].file = job[hand[w]].file
              /\ job'[hand[w]] = None
              /\ \A j \in Job \ {k, hand[w]} : job'[j] = job[j]
      BY <3>1, <3>2, RequeuedRequests DEF Current, Inv
    <3>4. ASSUME NEW j \in Job, job[j] # None
          PROVE  \E i \in Job :
                     job'[i] # None /\ job'[i].file = job[j].file /\ job'[i].request = job[j].request
      <4>1. CASE j = hand[w]
        BY <3>3, <4>1
      <4>2. CASE j # hand[w]
        BY <3>3, <3>4, <4>2
      <4> QED BY <4>1, <4>2
    <3>5. ASSUME NEW j \in Job, job'[j] # None
          PROVE  \E i \in Job :
                     job[i] # None /\ job[i].file = job'[j].file /\ job[i].request = job'[j].request
      <4>1. CASE j = k
        BY <3>2, <3>3, <4>1
      <4>2. CASE j # k
        BY <3>3, <3>5, <4>2
      <4> QED BY <4>1, <4>2
    <3>6. Requests' = Requests
      BY <3>4, <3>5, RequestsSame DEF Inv
    <3> QED BY <1>1, <1>3, <2>2, <3>6 DEF WaitForSlot, Retry, upload
  <2>3. CASE TakeSlot(w)
    BY <1>1, <1>2, <1>3, <2>3 DEF TakeSlot, upload
  <2>4. CASE Record(w)
    <3>1. Seen' = Seen
      BY <2>4 DEF Record, Insert, Seen
    <3> QED BY <1>1, <1>2, <2>4, <3>1 DEF Record, upload
  <2>5. CASE Commit(w)
    BY <2>5, ReplyMaps
  <2> QED BY <1>10, <2>1, <2>2, <2>3, <2>4, <2>5 DEF Read
<1>11. ASSUME NEW w \in Worker, Settle(w) PROVE Goal
  <2>1. CASE SettleScan(w)
    BY <1>1, <1>2, <1>3, <2>1 DEF SettleScan, upload
  <2>2. CASE SettleNext(w)
    <3>1. Seen' = Seen
      BY <2>2 DEF SettleNext, Insert, Seen
    <3> QED BY <1>1, <1>2, <2>2, <3>1 DEF SettleNext, upload
  <2>3. CASE SettleCommit(w)
    BY <2>3, GiveUpMaps
  <2> QED BY <1>11, <2>1, <2>2, <2>3 DEF Settle
<1>12. ASSUME NEW w \in Worker, Fail(w) PROVE Goal
  <2>1. ASSUME Discard(w) PROVE Seen' = Seen /\ UNCHANGED flagged
    BY <2>1 DEF Discard, Mine, Seen
  <2>2. CASE Crash(w)
    BY <1>1, <1>2, <2>1, <2>2 DEF Crash, upload
  <2>3. CASE HandlerFails(w)
    BY <1>4, <2>1, <2>3 DEF HandlerFails, upload, Busy
  <2>4. CASE Restart(w)
    BY <1>1, <1>2, <1>3, <2>4 DEF Restart, upload
  <2> QED BY <1>12, <2>2, <2>3, <2>4 DEF Fail
<1> QED BY <1>5, <1>6, <1>7, <1>8, <1>9, <1>10, <1>11, <1>12 DEF Next

(***************************************************************************)
(* For any files, readers, workers and faults, uploads, attempts, slots,   *)
(* stops and settling come to an intake record: one reading for each       *)
(* reader of a file, each one asked for, flags with it, and a CV given up  *)
(* only when nobody has read it and no request is left.                    *)
(***************************************************************************)
THEOREM ReadingImplementsIntake == Spec => ImplementsIntake
<1>1. Init => Intake!Init
  BY MapInit
<1>2. Inv /\ Inv' /\ [Next]_vars => [Intake!Next]_(Intake!intakeVars)
  <2> SUFFICES ASSUME Inv, Inv', [Next]_vars PROVE [Intake!Next]_(Intake!intakeVars)
    OBVIOUS
  <2>1. CASE Next
    BY <2>1, StepMaps
  <2>2. CASE UNCHANGED vars
    <3>1. Stutter
      BY <2>2 DEF vars, upload, kept, Stutter, Requests, Asked, Answers, Seen
    <3> QED BY <3>1, StutterMaps
  <2> QED BY <2>1, <2>2
<1> QED BY <1>1, <1>2, InvCorrect, PTL DEF Spec, ImplementsIntake, Intake!Spec
=============================================================================
