----------------------------- MODULE Retention ------------------------------
(***************************************************************************)
(* How a candidate's data comes and goes: CV uploads and applications from *)
(* the careers page (intake/uploads.py, intake/public_apply.py), which     *)
(* restart the candidate's clock, the reading of the CVs                   *)
(* (intake/reading.py), and the eraser (ops/retention.py, migration 0014), *)
(* which runs as a script of its own beside them.                          *)
(*                                                                         *)
(* An application, a reading and an erasure are steps of one transaction   *)
(* each; other transactions commit in between.  A candidate has one CV     *)
(* file, which one reader reads, and its clock counts months.              *)
(***************************************************************************)
EXTENDS Choice, FiniteSets

CONSTANTS
    Applicant,   \* candidates, by id
    Legible,     \* those whose CV the reader makes something of
    Opening,     \* public, open requisitions
    Eraser,      \* runs of "ops.retention erase --confirm"
    Months,      \* core.retention_rule: the period of each case, or None
    MaxMonths    \* bound of the clocks, at which they stand

Case == {"no_application", "in_process", "rejected", "hired", "withdrawn"}

ASSUME MonthsAssumption == Months \in [Case -> 1 .. MaxMonths \cup {None}]

VARIABLES
    known,       \* core.candidate
    clock,       \* months since a candidate's last activity
    result,      \* of each application, <<candidate, opening>>: its outcome, or "live"
    asking,      \* candidates with a withdrawal that stands
    applying,    \* applications whose candidate was not locked when it looked
    beingRead,   \* candidates whose CV is being read
    answered,    \* intake.cv_reading, of the candidates whose CV was read, with its answer
    fields,      \* candidates with stored field values
    files,       \* candidates whose file is in the object store
    again,       \* what was stored of a candidate after it was erased: "file", "values"
    erased,      \* core.erasure
    inForce,     \* whether a policy is
    eraser       \* each run and how far it has come

retentionVars ==
    <<known, clock, result, asking, applying, beingRead, answered, fields, files, again,
      erased, inForce, eraser>>
readings == <<beingRead, answered>>
people == <<known, clock, result, asking, applying, readings, inForce>>

\* due: what the run found, later the files it has yet to delete; gone: whom its
\* transaction has emptied so far; kept: who of these got new values since.
NotRun == [stage |-> "idle", due |-> {}, gone |-> {}, kept |-> {}]

RetentionInit ==
    /\ known = {} /\ asking = {} /\ applying = {} /\ beingRead = {} /\ answered = {}
    /\ fields = {} /\ files = {} /\ again = {} /\ erased = {} /\ inForce = FALSE
    /\ clock = [c \in Applicant |-> 0]
    /\ result = [a \in Applicant \X Opening |-> "none"]
    /\ eraser = [e \in Eraser |-> NotRun]

-----------------------------------------------------------------------------
(* core.candidate_retention: which rule applies, and whether time is up.    *)

States(c) == {result[a] : a \in {c} \X Opening}

CaseOf(c) ==
    FirstOf(<< <<c \in asking, "withdrawn">>,
               <<"hired" \in States(c), "hired">>,
               <<States(c) = {"none"}, "no_application">>,
               <<"rejected" \in States(c), "rejected">> >>, "in_process")

Due == {c \in known \ erased : Months[CaseOf(c)] # None /\ clock[c] >= Months[CaseOf(c)]}

-----------------------------------------------------------------------------
(* Uploads, applications and what becomes of them.                          *)

RestartClock(c) == clock' = [clock EXCEPT ![c] = 0]

Emptied(c) == c \in erased \/ \E e \in Eraser : c \in eraser[e].gone

\* New values, which a transaction that has emptied the record does not see.
GiveValues(c) ==
    /\ fields' = fields \cup {c}
    /\ again' = IF Emptied(c) THEN again \cup {<<"values", c>>} ELSE again
    /\ eraser' = [e \in Eraser |->
          [eraser[e] EXCEPT !.kept = IF c \in eraser[e].gone THEN @ \cup {c} ELSE @]]

\* The same file is the same candidate, and is stored unless it is there.
ReceiveCv(c) ==
    /\ known' = known \cup {c}
    /\ files' = files \cup {c}
    /\ again' = IF c \in known \ files THEN again \cup {<<"file", c>>} ELSE again
    /\ UNCHANGED <<clock, result, asking, applying, readings, fields, erased, inForce, eraser>>

\* A locked record is left alone: its CV, sent again, makes a new candidate,
\* who is one of the others.
BeginApply(c, opening) ==
    /\ c \in known \ asking
    /\ applying' = applying \cup {<<c, opening>>}
    /\ UNCHANGED <<known, clock, result, asking, readings, fields, files, again, erased, inForce,
                   eraser>>

\* Once for an opening; a second application is rolled back.
CommitApply(a) ==
    /\ a \in applying
    /\ applying' = applying \ {a}
    /\ IF result[a] = "none"
       THEN result' = [result EXCEPT ![a] = "live"] /\ RestartClock(a[1]) /\ GiveValues(a[1])
       ELSE UNCHANGED <<result, clock, fields, again, eraser>>
    /\ UNCHANGED <<known, asking, readings, files, erased, inForce>>

\* read_cv, from blobs.get on: neither a withdrawal nor an erasure is asked for.
BeginReading(c) ==
    /\ c \in (files \cap Legible) \ answered
    /\ beingRead' = beingRead \cup {c}
    /\ UNCHANGED <<known, clock, result, asking, applying, answered, fields, files, again, erased,
                   inForce, eraser>>

CommitReading(c) ==
    /\ c \in beingRead
    /\ beingRead' = beingRead \ {c} /\ answered' = answered \cup {c}
    /\ GiveValues(c)
    /\ UNCHANGED <<known, clock, result, asking, applying, files, erased, inForce>>

MoveToOutcome(a, outcome) ==
    /\ result[a] = "live" /\ a[1] \notin asking
    /\ result' = [result EXCEPT ![a] = outcome]
    /\ RestartClock(a[1])
    /\ UNCHANGED <<known, asking, applying, readings, fields, files, again, erased, inForce,
                   eraser>>

Ask(c) ==
    /\ c \in known \ asking
    /\ asking' = asking \cup {c}
    /\ UNCHANGED <<known, clock, result, applying, readings, fields, files, again, erased, inForce,
                   eraser>>

LiftAsked(c) ==
    /\ c \in asking
    /\ asking' = asking \ {c}
    /\ UNCHANGED <<known, clock, result, applying, readings, fields, files, again, erased, inForce,
                   eraser>>

MonthPasses ==
    /\ \E c \in known : clock[c] < MaxMonths
    /\ clock' = [c \in Applicant |-> IF c \in known /\ clock[c] < MaxMonths THEN clock[c] + 1 ELSE clock[c]]
    /\ UNCHANGED <<known, result, asking, applying, readings, fields, files, again, erased, inForce,
                   eraser>>

\* load_policy with --activate.  Another version later would have other periods.
ActivatePolicy ==
    /\ ~inForce
    /\ inForce' = TRUE
    /\ UNCHANGED <<known, clock, result, asking, applying, readings, fields, files, again, erased,
                   eraser>>

-----------------------------------------------------------------------------
(* A run of the eraser.                                                     *)

EraserAt(e, stage) == eraser[e].stage = stage
EraserGoes(e, stage) ==
    eraser' = [eraser EXCEPT ![e] = [NotRun EXCEPT !.stage = stage, !.due = eraser[e].due]]

\* What is due, or one candidate on request.
Look(e) ==
    /\ EraserAt(e, "idle")
    /\ \E due \in {{c} : c \in known} \cup (IF inForce THEN {Due} ELSE {}) :
          eraser' = [eraser EXCEPT ![e] = [NotRun EXCEPT !.stage = "erasing", !.due = due]]
    /\ UNCHANGED <<people, fields, files, again, erased>>

\* core.erase_candidate: it makes a temporary table that lasts to the COMMIT,
\* and a row of core.erasure, one for a candidate; and takes the answer from
\* the readings, of which one that was read must have one.  Waits for another
\* run that is erasing the same one.
EraseCandidate(e, c) ==
    /\ EraserAt(e, "erasing")
    /\ c \in eraser[e].due \ eraser[e].gone
    /\ \A d \in Eraser \ {e} : EraserAt(d, "erasing") => c \notin eraser[d].gone
    /\ IF eraser[e].gone # {} \/ c \in erased \cup answered
       THEN EraserGoes(e, "failed")
       ELSE eraser' = [eraser EXCEPT ![e].gone = @ \cup {c}]
    /\ UNCHANGED <<people, fields, files, again, erased>>

CommitErasure(e) ==
    /\ EraserAt(e, "erasing")
    /\ eraser[e].gone = eraser[e].due
    /\ erased' = erased \cup eraser[e].gone
    /\ fields' = fields \ (eraser[e].gone \ eraser[e].kept)
    /\ EraserGoes(e, "files")
    /\ UNCHANGED <<people, files, again>>

\* Mutant of DeleteFile: before the COMMIT.
DeleteFileEarly(e, c) ==
    /\ EraserAt(e, "erasing")
    /\ c \in eraser[e].gone
    /\ files' = files \ {c}
    /\ UNCHANGED <<people, fields, again, erased, eraser>>

\* delete_files, one by one; due is what is left of them.
DeleteFile(e, c) ==
    /\ EraserAt(e, "files")
    /\ c \in eraser[e].due
    /\ files' = files \ {c}
    /\ eraser' = [eraser EXCEPT ![e].due = @ \ {c}]
    /\ UNCHANGED <<people, fields, again, erased>>

RunOver(e) ==
    /\ EraserAt(e, "files") /\ eraser[e].due = {}
    /\ EraserGoes(e, "over")
    /\ UNCHANGED <<people, fields, files, again, erased>>

\* The script is stopped, or the object store answers with an error.
StopEraser(e) ==
    /\ EraserAt(e, "erasing") \/ EraserAt(e, "files")
    /\ EraserGoes(e, IF EraserAt(e, "files") THEN "left" ELSE "stopped")
    /\ UNCHANGED <<people, fields, files, again, erased>>

RetentionNext ==
    \/ \E c \in Applicant :
        ReceiveCv(c) \/ BeginReading(c) \/ CommitReading(c) \/ Ask(c) \/ LiftAsked(c)
    \/ \E c \in Applicant, opening \in Opening : BeginApply(c, opening)
    \/ \E a \in Applicant \X Opening :
        CommitApply(a) \/ \E outcome \in {"rejected", "hired"} : MoveToOutcome(a, outcome)
    \/ MonthPasses \/ ActivatePolicy
    \/ \E e \in Eraser :
        \/ Look(e) \/ CommitErasure(e) \/ RunOver(e) \/ StopEraser(e)
        \/ \E c \in Applicant : EraseCandidate(e, c) \/ DeleteFile(e, c)

RetentionSpec == RetentionInit /\ [][RetentionNext]_retentionVars

-----------------------------------------------------------------------------
(* Properties.                                                              *)

(***************************************************************************)
(* "What goes: the field values, the original CV and the reader's answer   *)
(* to it".  A file goes only once the erasure of its candidate is          *)
(* committed, and goes with it: it is left only while or where a run is    *)
(* stopped between the two, or if it has been sent again since.  Values,   *)
(* and an answer, stand on an erased record only if they were given to it  *)
(* after it was emptied, as by a reading that had begun.  Of an erasure    *)
(* that fails, as one does when the CV was read before, it says nothing.   *)
(***************************************************************************)
DataGoesWithItsErasure ==
    /\ known \ erased \subseteq files
    /\ \A c \in erased \cap (fields \cup answered) : <<"values", c>> \in again
    /\ \A c \in erased \cap files :
          \/ <<"file", c>> \in again
          \/ \E e \in Eraser : eraser[e].stage \in {"files", "left"} /\ c \in eraser[e].due

(***************************************************************************)
(* ops/retention.py, run: "Erases everything whose time is up."  A run     *)
(* that was not stopped leaves nothing behind that was due when it looked. *)
(***************************************************************************)
RunErasesWhatIsDue ==
    \A e \in Eraser : eraser[e].stage = "failed" => eraser[e].due \subseteq erased

(***************************************************************************)
(* docs/ops/RUNBOOK.md: "What erasure removes: every field value, the      *)
(* original CV and the reader's answer to it".  A run that was to erase    *)
(* one candidate, and was not stopped, leaves this one erased.             *)
(***************************************************************************)
ErasedOneAtATime ==
    \A e \in Eraser, c \in Applicant :
        eraser[e].stage = "failed" /\ eraser[e].due = {c} => c \in erased
=============================================================================
