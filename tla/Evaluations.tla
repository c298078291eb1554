---------------------------- MODULE Evaluations -----------------------------
(***************************************************************************)
(* What the job of an application does: score_application                  *)
(* (scoring/platform.py) for a sales opening, assess_application           *)
(* (assess/worker.py) for any other, over PostgreSQL at READ COMMITTED.    *)
(*                                                                         *)
(* A job's reads are steps of their own, because withdrawals, decisions    *)
(* and other jobs commit between them; what it writes, and that it has     *)
(* ended, appears with its COMMIT.  There are workers enough for all jobs  *)
(* to run at once.  An application has one job, and one more for every     *)
(* retry, so its evaluation and its items are named after it.              *)
(***************************************************************************)
EXTENDS Absent, Naturals, FiniteSets

CONSTANTS
    Submission,      \* applications
    Submitter,       \* candidates
    SubmitterOf,     \* the candidate of each application
    Sales,           \* the applications to openings of job_type sales
    MaxAssessments,  \* assess.worker.MAX_ATTEMPTS: jobs, the retries included
    MaxStarts        \* jobs.queue.MAX_ATTEMPTS: runs of one job whose worker stops

ASSUME SubmitterOfAssumption == SubmitterOf \in [Submission -> Submitter]
ASSUME SalesAssumption == Sales \subseteq Submission
ASSUME MaxAssessmentsAssumption == MaxAssessments \in Nat \ {0}
ASSUME MaxStartsAssumption == MaxStarts \in Nat \ {0}

VARIABLES
    work,       \* per application, its latest job and how far the run of it has come
    locked,     \* core.candidate_locked: withdrawals that stand
    ended,      \* applications whose current step has an outcome
    uploaded,   \* candidates with a CV file
    evaluated,  \* applications with a core.evaluation
    opened,     \* pipeline.review_item: <<kind, application>>
    resolved,   \* the items with a resolution
    before      \* per application, the items resolved before it was created

evaluationsVars ==
    <<work, locked, ended, uploaded, evaluated, opened, resolved, before>>
records == <<locked, ended, uploaded, resolved, before>>

Kind == {"proposed_rejection", "borderline_score", "ai_assessment"}
Items == Kind \X Submission

JobStatus == {"none", "queued", "running", "succeeded", "failed"}

\* What a run has come to know; "idle" while none is at work.
Stage == {"idle", "begun", "live", "over",              \* the application was read
          "score", "near", "reject", "locked",          \* scoring: what will be written
          "file", "report", "unscored", "wait",         \* matching: what the service said
          "report asked", "unscored asked"}             \* after asking for an open item

\* told: an item that is open already says what a new one would.
NotQueued ==
    [status |-> "none", attempt |-> 1, starts |-> 0, stage |-> "idle", told |-> FALSE]

EvaluationsInit ==
    /\ work = [a \in Submission |-> NotQueued]
    /\ locked = {} /\ ended = {}
    /\ uploaded \in SUBSET Submitter
    /\ evaluated = {} /\ opened = {} /\ resolved = {}
    /\ before = [a \in Submission |-> {}]

Whose(a) == SubmitterOf[a]
OpenItems == opened \ resolved
RunAt(a, stage) == work[a].status = "running" /\ work[a].stage = stage
Goes(a, stage) == work' = [work EXCEPT ![a].stage = stage]

-----------------------------------------------------------------------------
(* What people do.                                                          *)

\* An application and, by a trigger, its job.  Nothing here asks about a withdrawal.
ApplyTo(a) ==
    /\ work[a].status = "none"
    /\ work' = [work EXCEPT ![a].status = "queued"]
    /\ before' = [before EXCEPT ![a] = resolved]
    /\ UNCHANGED <<locked, ended, uploaded, evaluated, opened, resolved>>

Withdraw(c) ==
    /\ c \notin locked
    /\ locked' = locked \cup {c}
    /\ UNCHANGED <<work, ended, uploaded, evaluated, opened, resolved, before>>

Lift(c) ==
    /\ c \in locked
    /\ locked' = locked \ {c}
    /\ UNCHANGED <<work, ended, uploaded, evaluated, opened, resolved, before>>

\* A move to a step with an outcome.
EndApplication(a) ==
    /\ work[a].status # "none"
    /\ a \notin ended
    /\ Whose(a) \notin locked
    /\ ended' = ended \cup {a}
    /\ UNCHANGED <<work, locked, uploaded, evaluated, opened, resolved, before>>

UploadCv(c) ==
    /\ c \notin locked
    /\ c \notin uploaded
    /\ uploaded' = uploaded \cup {c}
    /\ UNCHANGED <<work, locked, ended, evaluated, opened, resolved, before>>

\* A locked record's items are not found.
ResolveItem(item) ==
    /\ item \in OpenItems
    /\ Whose(item[2]) \notin locked
    /\ resolved' = resolved \cup {item}
    /\ UNCHANGED <<work, locked, ended, uploaded, evaluated, opened, before>>

-----------------------------------------------------------------------------
(* A run of the job: it begins, fails or is stopped, and commits.           *)

Begin(a) ==
    /\ work[a].status = "queued"
    /\ work' = [work EXCEPT ![a].status = "running", ![a].starts = @ + 1, ![a].stage = "begun"]
    /\ UNCHANGED <<records, evaluated, opened>>

Ended(a, status) == work' = [work EXCEPT ![a].status = status, ![a].stage = "idle"]

\* Its worker stops; recover_stopped finds the job.
StopRun(a) ==
    /\ work[a].status = "running"
    /\ Ended(a, IF work[a].starts >= MaxStarts THEN "failed" ELSE "queued")
    /\ UNCHANGED <<records, evaluated, opened>>

\* run_job rolls its savepoint back and the job has failed.
FailRun(a) ==
    /\ Ended(a, "failed")
    /\ UNCHANGED <<records, evaluated, opened>>

Commits(a, scored, items) ==
    /\ Ended(a, "succeeded")
    /\ evaluated' = IF scored THEN evaluated \cup {a} ELSE evaluated
    /\ opened' = opened \cup (items \X {a})
    /\ UNCHANGED records

-----------------------------------------------------------------------------
(* score_application.                                                       *)

ReadApplication(a) ==
    /\ a \in Sales /\ RunAt(a, "begun")
    /\ Goes(a, IF a \in ended THEN "over" ELSE "live")
    /\ UNCHANGED <<records, evaluated, opened>>

\* is_locked, then the fields and the verdict on them.
AskLocked(a) ==
    /\ RunAt(a, "live") \/ RunAt(a, "over")
    /\ IF Whose(a) \in locked THEN Goes(a, "locked")
       ELSE \E verdict \in {"score", "near", "reject"} :
              Goes(a, IF verdict = "reject" /\ work[a].stage = "over" THEN "score" ELSE verdict)
    /\ UNCHANGED <<records, evaluated, opened>>

CommitScore(a) ==
    \/ RunAt(a, "locked") /\ Commits(a, FALSE, {})
    \/ RunAt(a, "score") /\ Commits(a, TRUE, {})
    \/ RunAt(a, "near") /\ Commits(a, TRUE, {"borderline_score"})
    \/ /\ RunAt(a, "reject")
       /\ a \notin ended
       /\ Commits(a, TRUE, {"proposed_rejection"})

\* The trigger on the item refuses one for an application that has ended since.
ProposalRefused(a) ==
    /\ RunAt(a, "reject") /\ a \in ended
    /\ FailRun(a)

-----------------------------------------------------------------------------
(* assess_application.                                                      *)

\* The newest CV file, if the candidate has one and the blob store still does.
ReadCv(a) ==
    /\ a \notin Sales /\ RunAt(a, "begun")
    /\ \/ Whose(a) \in uploaded /\ Goes(a, "file")
       \/ Goes(a, "unscored")
    /\ UNCHANGED <<records, evaluated, opened>>

\* The blob store answers with an error, or no service is configured: nothing
\* on the way catches it.
CvUnreachable(a) ==
    /\ a \notin Sales /\ RunAt(a, "begun") /\ Whose(a) \in uploaded
    /\ FailRun(a)

\* The service grades the CV, refuses it or answers with nonsense, or is away.
Match(a) ==
    /\ RunAt(a, "file")
    /\ \/ Goes(a, "report")
       \/ Goes(a, "unscored")
       \/ Goes(a, IF work[a].attempt >= MaxAssessments THEN "unscored" ELSE "wait")
    /\ UNCHANGED <<records, evaluated, opened>>

\* Mutant of OpenAlready: a resolved item counts as well.
OpenEver(a, scored) ==
    \E item \in opened :
        /\ item[1] = "ai_assessment"
        /\ Whose(item[2]) = Whose(a)
        /\ \/ item[2] \in evaluated /\ item[2] = a
           \/ ~scored /\ item[2] \notin evaluated

\* An open item that says what this one would: of the same application when
\* there is an evaluation to attach, of the same candidate when there is none.
OpenAlready(a, scored) ==
    \E item \in OpenItems :
        /\ item[1] = "ai_assessment"
        /\ Whose(item[2]) = Whose(a)
        /\ \/ item[2] \in evaluated /\ item[2] = a
           \/ ~scored /\ item[2] \notin evaluated

AskOpenItem(a) ==
    /\ \/ /\ RunAt(a, "report")
          /\ work' = [work EXCEPT ![a].stage = "report asked", ![a].told = OpenAlready(a, TRUE)]
       \/ /\ RunAt(a, "unscored")
          /\ work' = [work EXCEPT ![a].stage = "unscored asked", ![a].told = OpenAlready(a, FALSE)]
    /\ UNCHANGED <<records, evaluated, opened>>

CommitAssessment(a) ==
    LET items == IF work[a].told THEN {} ELSE {"ai_assessment"}
    IN  \/ RunAt(a, "report asked") /\ Commits(a, TRUE, items)
        \/ RunAt(a, "unscored asked") /\ Commits(a, FALSE, items)

\* Mutant of Retry: the new job does not say which attempt it is.
RetryUncounted(a) ==
    /\ RunAt(a, "wait")
    /\ work' = [work EXCEPT ![a] = [NotQueued EXCEPT !.status = "queued"]]
    /\ UNCHANGED <<records, evaluated, opened>>

\* This job has succeeded and another is queued for later.
Retry(a) ==
    /\ RunAt(a, "wait")
    /\ work' = [work EXCEPT ![a] = [NotQueued EXCEPT !.status = "queued",
                                                     !.attempt = work[a].attempt + 1]]
    /\ UNCHANGED <<records, evaluated, opened>>

-----------------------------------------------------------------------------

RunOf(a) ==
    \/ Begin(a)
    \/ ReadApplication(a) \/ AskLocked(a) \/ CommitScore(a) \/ ProposalRefused(a)
    \/ ReadCv(a) \/ CvUnreachable(a) \/ Match(a) \/ AskOpenItem(a) \/ CommitAssessment(a)
    \/ Retry(a)

EvaluationsNext ==
    \/ \E a \in Submission : ApplyTo(a) \/ EndApplication(a) \/ RunOf(a) \/ StopRun(a)
    \/ \E c \in Submitter : Withdraw(c) \/ Lift(c) \/ UploadCv(c)
    \/ \E item \in Items : ResolveItem(item)

EvaluationsSpec ==
    /\ EvaluationsInit /\ [][EvaluationsNext]_evaluationsVars
    /\ \A a \in Submission : WF_evaluationsVars(RunOf(a))

-----------------------------------------------------------------------------
(* Properties.                                                              *)

(***************************************************************************)
(* The types of the variables; a job is tried so often and no more.        *)
(***************************************************************************)
EvaluationsTypeOK ==
    /\ work \in [Submission -> [status : JobStatus, attempt : 1 .. MaxAssessments,
                                starts : 0 .. MaxStarts, stage : Stage, told : BOOLEAN]]
    /\ locked \subseteq Submitter /\ uploaded \subseteq Submitter
    /\ ended \subseteq Submission /\ evaluated \subseteq Submission
    /\ resolved \subseteq opened /\ opened \subseteq Items
    /\ before \in [Submission -> SUBSET Items]

(***************************************************************************)
(* assess/worker.py: "the application goes to a person".  When the job of  *)
(* an application that is not sales has succeeded, a person has or had an  *)
(* item to work from: one that names its evaluation, or one without a      *)
(* score about the same candidate, which nobody had resolved by the time   *)
(* the application arrived.  Items of the candidate's other applications   *)
(* are opened and resolved while the run looks for one.                    *)
(***************************************************************************)
AssessmentReachesAPerson ==
    \A a \in Submission \ Sales :
        work[a].status = "succeeded" =>
            \E item \in opened \ before[a] :
                /\ item[1] = "ai_assessment"
                /\ Whose(item[2]) = Whose(a)
                /\ item[2] \in {a} \cup (Submission \ evaluated)

(***************************************************************************)
(* candidates/withdrawal.py: "while the withdrawal stands, the record is   *)
(* ... not scored".  No evaluation appears of a candidate who is locked.   *)
(***************************************************************************)
NotScoredWhileLocked ==
    [][\A a \in evaluated' \ evaluated : Whose(a) \notin locked]_evaluationsVars

(***************************************************************************)
(* Every application's work comes to an end, however often its worker      *)
(* stops and the service is away.                                          *)
(***************************************************************************)
EveryApplicationSettles ==
    \A a \in Submission :
        work[a].status # "none" ~> work[a].status \in {"succeeded", "failed"}
=============================================================================
