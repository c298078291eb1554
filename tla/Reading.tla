------------------------------- MODULE Reading -------------------------------
(***************************************************************************)
(* Uploaded CVs and their reading: src/src/intake/uploads.py, reading.py   *)
(* and records.py, the worker's recovery in src/src/jobs/__main__.py, and  *)
(* the unique keys of migrations 0010_cv_intake.py and                     *)
(* 0016_reading_per_reader.py, over PostgreSQL at READ COMMITTED.          *)
(*                                                                         *)
(* A read_cv job is one transaction of a worker. The row it inserts for    *)
(* its reading is seen by others when it commits; until then an insert     *)
(* with the same key waits. The reader in force is a setting that each     *)
(* process takes up when it starts. Of the job queue this module uses what *)
(* JobLedger says: a job's work is kept with its settling or not at all.   *)
(***************************************************************************)
EXTENDS Naturals, FiniteSets

CONSTANTS
    Worker,       \* worker processes
    File,         \* raw.capture ids of uploaded CVs
    Reader,       \* names a reader can have
    FirstReader,  \* the one configured at first
    GaveUp,       \* READ_BY: the reader settle_abandoned records
    Answer,       \* "read", or "hidden" when the OCR found hidden content
    Failure,      \* codes an attempt can fail with
    Retryable,    \* those that are tried again: OcrTimeout, OcrUnavailable
    MaxAttempts,  \* OcrLimits.max_attempts
    Slots,        \* OcrLimits.max_concurrency
    Job,          \* jobs.job ids of unsettled read_cv jobs
    Request,      \* names for the uploads that queued a reading (see JobRow)
    MaxFaults,    \* bound: crashes and handlers that raise
    MaxDeploys,   \* bound: changes of the configured reader
    None

Abandoned == "ocr_failed"
Hidden == "hidden_content"

ASSUME IdAssumption == File \subseteq Nat /\ Job \subseteq Nat
ASSUME BoundsAssumption ==
    /\ MaxAttempts \in Nat \ {0}
    /\ Slots \in Nat \ {0}
    /\ MaxFaults \in Nat
    /\ MaxDeploys \in Nat
ASSUME ReaderAssumption ==
    /\ FirstReader \in Reader
    /\ GaveUp \notin Reader
ASSUME OutcomeAssumption ==
    /\ Answer \subseteq {"read", "hidden"}
    /\ Retryable \subseteq Failure
    /\ Failure \cap {"read", "hidden", Abandoned, Hidden} = {}

VARIABLES
    uploaded,    \* files with a committed intake.cv_upload row
    receiving,   \* files whose upload transaction has decided to queue a reading
    configured,  \* TALENT_OCR_MODE: the reader a process that starts now will use
    inForce,     \* the reader of the API process
    reader,      \* the reader of each worker process
    job,         \* unsettled read_cv jobs; None for a free id
    readings,    \* intake.cv_reading, uncommitted rows too
    lastId,      \* its identity column
    flagged,     \* flagged_document review items: file and reason, resolved ones too
    phase,       \* how far each worker has come
    hand,        \* the job it is running
    todo,        \* settle_abandoned: files still to record
    faults,
    deploys

upload == <<uploaded, receiving>>
setting == <<configured, inForce, reader, deploys>>
kept == <<readings, lastId, flagged>>
worker == <<phase, hand, todo>>
vars == <<upload, setting, job, kept, worker, faults>>

(***************************************************************************)
(* Settled jobs are forgotten and their ids free again: nothing reads them *)
(* but a count. request is a name for the upload that asked for the        *)
(* reading, handed on to the job that takes the attempt further. run_after *)
(* only delays a job.                                                      *)
(***************************************************************************)
JobRow == [file : File, attempt : 1 .. MaxAttempts, request : Request,
           status : {"queued", "running"}]
ReadingRow == [id : Nat, file : File, reader : Reader \cup {GaveUp},
               outcome : Answer \cup Failure \cup {Abandoned}, by : Worker \cup {None}]

ASSUME NoneAssumption == None \notin Worker \cup Job \cup JobRow

Init ==
    /\ uploaded = {}
    /\ receiving = {}
    /\ configured = FirstReader
    /\ inForce = FirstReader
    /\ reader = [w \in Worker |-> FirstReader]
    /\ job = [j \in Job |-> None]
    /\ readings = {}
    /\ lastId = 0
    /\ flagged = {}
    /\ phase = [w \in Worker |-> "idle"]
    /\ hand = [w \in Worker |-> None]
    /\ todo = [w \in Worker |-> {}]
    /\ faults = 0
    /\ deploys = 0

-----------------------------------------------------------------------------
(* Readings.                                                                *)

Seen == {r \in readings : r.by = None}
ReadBy(f, name) == \E r \in Seen : r.file = f /\ r.reader = name
Newest(f) == {r \in Seen : r.file = f /\ \A s \in Seen : s.file = f => s.id <= r.id}

(***************************************************************************)
(* _RECORD: the INSERT waits while another transaction has the key, and    *)
(* does nothing when the key is there.                                     *)
(***************************************************************************)
KeyFree(f, name) == \A r \in readings : ~(r.file = f /\ r.reader = name)

Insert(w, f, name, outcome) ==
    /\ KeyFree(f, name)
    /\ lastId' = lastId + 1
    /\ readings' = readings \cup {[id |-> lastId + 1, file |-> f, reader |-> name,
                                   outcome |-> outcome, by |-> w]}

(***************************************************************************)
(* The reason an outcome sends its CV to a person for, if any.             *)
(***************************************************************************)
Flag(outcome) == IF outcome = "hidden" THEN {Hidden}
                 ELSE IF outcome = "read" THEN {} ELSE {outcome}

(***************************************************************************)
(* w's transaction commits: its readings, and with them the review items   *)
(* that are not there yet (open_document_review).                          *)
(***************************************************************************)
Mine(w) == {r \in readings : r.by = w}

Keep(w) ==
    /\ readings' = {IF r.by = w THEN [r EXCEPT !.by = None] ELSE r : r \in readings}
    /\ flagged' = flagged \cup UNION {{r.file} \X Flag(r.outcome) : r \in Mine(w)}
    /\ UNCHANGED lastId

(***************************************************************************)
(* It rolls back.                                                          *)
(***************************************************************************)
Discard(w) ==
    /\ readings' = readings \ Mine(w)
    /\ UNCHANGED <<lastId, flagged>>

-----------------------------------------------------------------------------
(* Uploads.                                                                 *)

(***************************************************************************)
(* _answered_by_another_reader, for the reader of the API process.         *)
(***************************************************************************)
AnsweredByAnotherReader(f) == \E r \in Newest(f) : r.reader # inForce

(***************************************************************************)
(* receive_cv, as far as the decision to queue a reading: the file is new, *)
(* or its newest answer another reader's. Any other upload changes nothing *)
(* here. A second upload of a new file waits for the first (keep_original).*)
(***************************************************************************)
Receive(f) ==
    /\ f \notin receiving
    /\ f \in uploaded => AnsweredByAnotherReader(f)
    /\ receiving' = receiving \cup {f}
    /\ UNCHANGED <<uploaded, setting, job, kept, worker, faults>>

(***************************************************************************)
(* Its COMMIT. A job's id is the lowest free one.                          *)
(***************************************************************************)
NewJob(k) == job[k] = None /\ \A i \in Job : i < k => job[i] # None
FreeRequest(q) == \A j \in Job : job[j] # None => job[j].request # q

ReceiveCommit(f, k, q) ==
    /\ f \in receiving
    /\ NewJob(k)
    /\ FreeRequest(q)
    /\ receiving' = receiving \ {f}
    /\ uploaded' = uploaded \cup {f}
    /\ job' = [job EXCEPT ![k] = [file |-> f, attempt |-> 1, request |-> q,
                                  status |-> "queued"]]
    /\ UNCHANGED <<setting, kept, worker, faults>>

ReceiveFails(f) ==
    /\ f \in receiving
    /\ receiving' = receiving \ {f}
    /\ UNCHANGED <<uploaded, setting, job, kept, worker, faults>>

-----------------------------------------------------------------------------
(* A read_cv job: handle, read_cv.                                          *)

Current(w) == job[hand[w]]

Goto(w, next) == phase' = [phase EXCEPT ![w] = next]

(***************************************************************************)
(* claim.                                                                  *)
(***************************************************************************)
Claim(w, j) ==
    /\ phase[w] = "idle"
    /\ job[j] # None
    /\ job[j].status = "queued"
    /\ job' = [job EXCEPT ![j].status = "running"]
    /\ hand' = [hand EXCEPT ![w] = j]
    /\ Goto(w, "claimed")
    /\ UNCHANGED <<upload, setting, kept, todo, faults>>

(***************************************************************************)
(* Mutant of Settled: the worker goes on to its next job with this one in  *)
(* hand.                                                                   *)
(***************************************************************************)
SettledInHand(w) ==
    /\ job' = [job EXCEPT ![hand[w]] = None]
    /\ Goto(w, "idle")
    /\ UNCHANGED <<hand, todo>>

(***************************************************************************)
(* The job is settled; w is free again.                                    *)
(***************************************************************************)
Settled(w) ==
    /\ job' = [job EXCEPT ![hand[w]] = None]
    /\ hand' = [hand EXCEPT ![w] = None]
    /\ Goto(w, "idle")
    /\ UNCHANGED todo

(***************************************************************************)
(* _ALREADY_READ, or no new row from _RECORD: nothing to add.              *)
(***************************************************************************)
AlreadyRead(w) ==
    /\ phase[w] \in {"claimed", "reading"}
    /\ ReadBy(Current(w).file, reader[w])
    /\ Settled(w)
    /\ UNCHANGED <<upload, setting, kept, faults>>

(***************************************************************************)
(* Mutant of Requeued: the successor is queued in a transaction of its own,*)
(* and the worker stops before the job is settled.                         *)
(***************************************************************************)
RequeuedApart(w, attempt) ==
    /\ \E k \in Job :
          /\ NewJob(k)
          /\ job' = [job EXCEPT ![k] = [Current(w) EXCEPT !.attempt = attempt,
                                                         !.status = "queued"]]
    /\ hand' = [hand EXCEPT ![w] = None]
    /\ Goto(w, "gone")
    /\ UNCHANGED todo

(***************************************************************************)
(* The job is settled and another one queued in the same transaction.      *)
(***************************************************************************)
Requeued(w, attempt) ==
    /\ \E k \in Job :
          /\ NewJob(k)
          /\ job' = [job EXCEPT ![hand[w]] = None,
                                ![k] = [Current(w) EXCEPT !.attempt = attempt,
                                                          !.status = "queued"]]
    /\ hand' = [hand EXCEPT ![w] = None]
    /\ Goto(w, "idle")
    /\ UNCHANGED todo

(***************************************************************************)
(* _take_slot: a slot is held to the end of the transaction.               *)
(***************************************************************************)
SlotFree == Cardinality({w \in Worker : phase[w] \in {"reading", "writing"}}) < Slots

WaitForSlot(w) ==
    /\ phase[w] = "claimed"
    /\ ~ReadBy(Current(w).file, reader[w])
    /\ ~SlotFree
    /\ Requeued(w, Current(w).attempt)
    /\ UNCHANGED <<upload, setting, kept, faults>>

TakeSlot(w) ==
    /\ phase[w] = "claimed"
    /\ ~ReadBy(Current(w).file, reader[w])
    /\ SlotFree
    /\ Goto(w, "reading")
    /\ UNCHANGED <<upload, setting, job, kept, hand, todo, faults>>

(***************************************************************************)
(* The attempt failed in a way worth trying again.                         *)
(***************************************************************************)
Retry(w) ==
    /\ phase[w] = "reading"
    /\ Retryable # {}
    /\ Current(w).attempt < MaxAttempts
    /\ Requeued(w, Current(w).attempt + 1)
    /\ UNCHANGED <<upload, setting, kept, faults>>

(***************************************************************************)
(* It ended with an answer, or a failure that is not tried again: the file *)
(* is missing, refused, the answer unreadable, or the attempts used up.    *)
(***************************************************************************)
Final(w) == Answer \cup
            (IF Current(w).attempt < MaxAttempts THEN Failure \ Retryable ELSE Failure)

Record(w) ==
    /\ phase[w] = "reading"
    /\ \E outcome \in Final(w) : Insert(w, Current(w).file, reader[w], outcome)
    /\ Goto(w, "writing")
    /\ UNCHANGED <<upload, setting, job, flagged, hand, todo, faults>>

Commit(w) ==
    /\ phase[w] = "writing"
    /\ Keep(w)
    /\ Settled(w)
    /\ UNCHANGED <<upload, setting, faults>>

-----------------------------------------------------------------------------
(* Recovery: _recover.                                                      *)

(***************************************************************************)
(* Mutant of RecoverStopped: a job on its last attempt is not touched.     *)
(***************************************************************************)
RecoverBeforeLast(w, j) ==
    /\ phase[w] = "idle"
    /\ job[j] # None
    /\ job[j].status = "running"
    /\ job[j].attempt < MaxAttempts
    /\ \A v \in Worker : hand[v] # j
    /\ \/ job' = [job EXCEPT ![j].status = "queued"]
       \/ job' = [job EXCEPT ![j] = None]
    /\ UNCHANGED <<upload, setting, kept, worker, faults>>

(***************************************************************************)
(* recover_stopped: a running job whose worker is gone is queued again, or *)
(* failed for good (here after any number of runs).                        *)
(***************************************************************************)
RecoverStopped(w, j) ==
    /\ phase[w] = "idle"
    /\ job[j] # None
    /\ job[j].status = "running"
    /\ \A v \in Worker : hand[v] # j
    /\ \/ job' = [job EXCEPT ![j].status = "queued"]
       \/ job' = [job EXCEPT ![j] = None]
    /\ UNCHANGED <<upload, setting, kept, worker, faults>>

(***************************************************************************)
(* Mutant of AbandonedFiles: only running jobs are looked for.             *)
(***************************************************************************)
AbandonedUnlessRunning ==
    {f \in uploaded : /\ \A r \in Seen : r.file # f
                      /\ \A j \in Job :
                            job[j] # None /\ job[j].status = "running" => job[j].file # f}

(***************************************************************************)
(* settle_abandoned: the query, in one snapshot; each file in order; the   *)
(* COMMIT.                                                                 *)
(***************************************************************************)
AbandonedFiles ==
    {f \in uploaded : /\ \A r \in Seen : r.file # f
                      /\ \A j \in Job : job[j] # None => job[j].file # f}

SettleScan(w) ==
    /\ phase[w] = "idle"
    /\ AbandonedFiles # {}
    /\ todo' = [todo EXCEPT ![w] = AbandonedFiles]
    /\ Goto(w, "settling")
    /\ UNCHANGED <<upload, setting, job, kept, hand, faults>>

SettleNext(w) ==
    /\ phase[w] = "settling"
    /\ \E f \in todo[w] :
          /\ \A g \in todo[w] : f <= g
          /\ \/ Insert(w, f, GaveUp, Abandoned)
             \/ ReadBy(f, GaveUp) /\ UNCHANGED <<readings, lastId>>
          /\ todo' = [todo EXCEPT ![w] = @ \ {f}]
    /\ UNCHANGED <<upload, setting, job, flagged, phase, hand, faults>>

SettleCommit(w) ==
    /\ phase[w] = "settling"
    /\ todo[w] = {}
    /\ Keep(w)
    /\ Goto(w, "idle")
    /\ UNCHANGED <<upload, setting, job, hand, todo, faults>>

-----------------------------------------------------------------------------
(* Deployments and faults.                                                  *)

(***************************************************************************)
(* The setting is changed; the API and each worker take it up when they    *)
(* are started again. Open uploads roll back.                              *)
(***************************************************************************)
Reconfigure(name) ==
    /\ deploys < MaxDeploys
    /\ name # configured
    /\ configured' = name
    /\ deploys' = deploys + 1
    /\ UNCHANGED <<upload, inForce, reader, job, kept, worker, faults>>

RestartApi ==
    /\ inForce # configured
    /\ inForce' = configured
    /\ receiving' = {}
    /\ UNCHANGED <<uploaded, configured, reader, deploys, job, kept, worker, faults>>

Restart(w) ==
    /\ \/ phase[w] = "gone"
       \/ phase[w] = "idle" /\ reader[w] # configured
    /\ reader' = [reader EXCEPT ![w] = configured]
    /\ Goto(w, "idle")
    /\ UNCHANGED <<upload, configured, inForce, deploys, job, kept, hand, todo, faults>>

Fault == faults < MaxFaults /\ faults' = faults + 1

(***************************************************************************)
(* The worker stops: its transaction rolls back, its job stays running.    *)
(***************************************************************************)
Crash(w) ==
    /\ Fault
    /\ phase[w] \notin {"idle", "gone"}
    /\ Discard(w)
    /\ hand' = [hand EXCEPT ![w] = None]
    /\ todo' = [todo EXCEPT ![w] = {}]
    /\ Goto(w, "gone")
    /\ UNCHANGED <<upload, setting, job>>

(***************************************************************************)
(* The handler raises (the blob store, an unusable file): its work is      *)
(* undone and the job failed, which is final.                              *)
(***************************************************************************)
HandlerFails(w) ==
    /\ Fault
    /\ phase[w] \in {"claimed", "reading", "writing"}
    /\ Discard(w)
    /\ Settled(w)
    /\ UNCHANGED <<upload, setting>>

-----------------------------------------------------------------------------
Uploads(f) ==
    \/ Receive(f)
    \/ \E k \in Job, q \in Request : ReceiveCommit(f, k, q)
    \/ ReceiveFails(f)

Read(w) ==
    \/ AlreadyRead(w)
    \/ WaitForSlot(w)
    \/ TakeSlot(w)
    \/ Retry(w)
    \/ Record(w)
    \/ Commit(w)

Settle(w) == SettleScan(w) \/ SettleNext(w) \/ SettleCommit(w)

Fail(w) == Crash(w) \/ HandlerFails(w) \/ Restart(w)

Next ==
    \/ \E f \in File : Uploads(f)
    \/ \E name \in Reader : Reconfigure(name)
    \/ RestartApi
    \/ \E w \in Worker :
          \/ \E j \in Job : Claim(w, j) \/ RecoverStopped(w, j)
          \/ Read(w)
          \/ Settle(w)
          \/ Fail(w)

Spec == Init /\ [][Next]_vars

-----------------------------------------------------------------------------
(* Properties.                                                              *)

(***************************************************************************)
(* Every variable has its type; a worker with a CV has the running job for *)
(* it, and nobody else does; only a worker that has come to its INSERT has *)
(* an uncommitted reading.                                                 *)
(***************************************************************************)
TypeOK ==
    /\ uploaded \in SUBSET File
    /\ receiving \in SUBSET File
    /\ configured \in Reader
    /\ inForce \in Reader
    /\ reader \in [Worker -> Reader]
    /\ job \in [Job -> JobRow \cup {None}]
    /\ readings \in SUBSET ReadingRow
    /\ lastId \in Nat
    /\ flagged \in SUBSET (File \X ({Abandoned, Hidden} \cup Failure))
    /\ phase \in [Worker -> {"idle", "claimed", "reading", "writing", "settling", "gone"}]
    /\ hand \in [Worker -> Job \cup {None}]
    /\ todo \in [Worker -> SUBSET File]
    /\ faults \in 0 .. MaxFaults
    /\ deploys \in 0 .. MaxDeploys
    /\ \A w \in Worker :
          /\ phase[w] \in {"claimed", "reading", "writing"} <=> hand[w] # None
          /\ hand[w] # None => job[hand[w]] # None /\ job[hand[w]].status = "running"
          /\ \A v \in Worker \ {w} : hand[w] # None => hand[v] # hand[w]
    /\ \A r \in readings : r.by # None => phase[r.by] \in {"writing", "settling"}

(***************************************************************************)
(* The attempts at a reading never fork: of the jobs that one upload has   *)
(* brought about, attempt after attempt, stop after stop, one at most is   *)
(* unsettled (a retry is queued in the transaction that settles the        *)
(* attempt before it).                                                     *)
(***************************************************************************)
OneJobPerRequest ==
    \A j, k \in Job : job[j] # None /\ job[k] # None /\ job[j].request = job[k].request
        => j = k

(***************************************************************************)
(* The mapping hides attempts, slots, workers and open transactions.       *)
(***************************************************************************)
Asked(f) == {q \in Request :
                \E j \in Job : job[j] # None /\ job[j].file = f /\ job[j].request = q}

Intake == INSTANCE IntakeRecord WITH
    asked <- [f \in File |-> Asked(f)],
    answers <- {[file |-> r.file, reader |-> r.reader, outcome |-> r.outcome] : r \in Seen}

(***************************************************************************)
(* "Recorded once, and the CV goes to a person" (record_failure): one      *)
(* reading for each reader, whatever jobs and workers overlap, each one    *)
(* asked for; a failure or hidden content is flagged with it; and a CV is  *)
(* given up only when nobody has read it and no job is left that could.    *)
(***************************************************************************)
ImplementsIntake == Intake!Spec

(***************************************************************************)
(* upload_status: what the uploader is shown.                              *)
(***************************************************************************)
Failed(outcome) == outcome \notin {"read", "hidden"}

Status(f) ==
    IF \E r \in Newest(f) : Failed(r.outcome) THEN "failed"
    ELSE IF \E r \in Newest(f) : r.reader = inForce THEN "ready"
    ELSE "processing"

(***************************************************************************)
(* "A re-read has already been queued, so it reads as still processing"    *)
(* (upload_status).                                                        *)
(***************************************************************************)
RereadIsQueued ==
    \A f \in uploaded :
        Newest(f) # {} /\ Status(f) = "processing" =>
            \E j \in Job : job[j] # None /\ job[j].file = f

-----------------------------------------------------------------------------
(* Liveness.                                                                *)

(***************************************************************************)
(* A worker that lives takes its next step (a call to the OCR has a time-  *)
(* out), one that is gone is started again, and the loop's minute passes   *)
(* again and again: recovery and settling come to be called in the end.    *)
(* claim takes the oldest job, so a queued job is not passed over for ever.*)
(* Not fair: uploads, deployments, faults, and what the OCR answers.       *)
(***************************************************************************)
Proceed(w) ==
    \/ Read(w)
    \/ SettleNext(w)
    \/ SettleCommit(w)
    \/ phase[w] = "gone" /\ Restart(w)

Fairness ==
    /\ \A j \in Job : SF_vars(\E w \in Worker : Claim(w, j))
    /\ SF_vars(\E w \in Worker, j \in Job : RecoverStopped(w, j))
    /\ SF_vars(\E w \in Worker : SettleScan(w))
    /\ \A w \in Worker : WF_vars(Proceed(w))

FairSpec == Spec /\ Fairness

(***************************************************************************)
(* "The CV waits for a person, and is never lost" (reading.py): every      *)
(* uploaded CV has a reading recorded in the end, read or failed, whatever *)
(* becomes of its jobs and of the workers at them.                         *)
(***************************************************************************)
EveryCvAnswered == \A f \in File : f \in uploaded ~> \E r \in Seen : r.file = f
=============================================================================
