------------------------- MODULE EvaluationsProofs --------------------------
(***************************************************************************)
(* Theorems about Evaluations: each assessment reaches a person, and its   *)
(* jobs keep to what the job queue promises; and about Verdicts: a score   *)
(* is near one line at most, and its parts explain it in full.             *)
(***************************************************************************)
EXTENDS Evaluations, Verdicts, Sequences, WellFoundedInduction, TLAPS

WorkRow ==
    [status : JobStatus, attempt : 1 .. MaxAssessments, starts : 0 .. MaxStarts,
     stage : Stage, told : BOOLEAN]

\* A job that can still be started has not been too often, and who waits for
\* another attempt has one left.
Counted ==
    \A a \in Submission :
        /\ work[a].status \in {"none", "queued"} => work[a].starts < MaxStarts
        /\ work[a].stage = "wait" => work[a].attempt < MaxAssessments

Types == EvaluationsTypeOK /\ Counted

LEMMA NotQueuedTypes == NotQueued \in WorkRow /\ 0 < MaxStarts
BY MaxAssessmentsAssumption, MaxStartsAssumption DEF NotQueued, WorkRow, JobStatus, Stage

LEMMA TypesInit == EvaluationsInit => Types
<1> SUFFICES ASSUME EvaluationsInit PROVE Types
  OBVIOUS
<1>1. work \in [Submission -> WorkRow]
  BY NotQueuedTypes DEF EvaluationsInit
<1>2. EvaluationsTypeOK
  BY <1>1 DEF EvaluationsInit, EvaluationsTypeOK, WorkRow
<1>3. Counted
  BY NotQueuedTypes DEF EvaluationsInit, Counted, NotQueued
<1> QED BY <1>2, <1>3 DEF Types

(***************************************************************************)
(* What a step of one job may do to it and keep its types.                 *)
(***************************************************************************)
LEMMA RowStep ==
    ASSUME Types, NEW a \in Submission, NEW row \in WorkRow,
           work' = [work EXCEPT ![a] = row],
           row.status \in {"none", "queued"} => row.starts < MaxStarts,
           row.stage = "wait" => row.attempt < MaxAssessments
    PROVE  work' \in [Submission -> WorkRow] /\ Counted'
BY DEF Types, EvaluationsTypeOK, WorkRow, Counted

LEMMA StageStep ==
    ASSUME Types, NEW a \in Submission, NEW stage \in Stage \ {"wait"}, Goes(a, stage),
           work[a].status = "running"
    PROVE  work' \in [Submission -> WorkRow] /\ Counted'
<1>1. [work[a] EXCEPT !.stage = stage] \in WorkRow /\ work[a] \in WorkRow
  BY DEF Types, EvaluationsTypeOK, WorkRow
<1>2. work' = [work EXCEPT ![a] = [work[a] EXCEPT !.stage = stage]]
  BY DEF Goes
<1>3. [work[a] EXCEPT !.stage = stage].status = "running"
      /\ [work[a] EXCEPT !.stage = stage].stage # "wait"
  BY <1>1 DEF WorkRow
<1> QED BY <1>1, <1>2, <1>3, RowStep

LEMMA EndStep ==
    ASSUME Types, NEW a \in Submission, NEW status \in {"queued", "succeeded", "failed"},
           Ended(a, status), status = "queued" => work[a].starts < MaxStarts
    PROVE  work' \in [Submission -> WorkRow] /\ Counted'
<1> DEFINE row == [work[a] EXCEPT !.status = status, !.stage = "idle"]
<1>1. row \in WorkRow /\ work[a] \in WorkRow
  BY DEF Types, EvaluationsTypeOK, WorkRow, JobStatus, Stage
<1>2. work' = [work EXCEPT ![a] = row]
  BY DEF Ended
<1>3. row.status = status /\ row.stage = "idle" /\ row.starts = work[a].starts
  BY <1>1 DEF WorkRow
<1> HIDE DEF row
<1>4. work' \in [Submission -> WorkRow] /\ Counted'
  BY <1>1, <1>2, <1>3, RowStep
<1> QED BY <1>4 DEF Ended, Types, EvaluationsTypeOK

LEMMA CommitStep ==
    ASSUME Types, NEW a \in Submission, NEW scored \in BOOLEAN, NEW items \in SUBSET Kind,
           Commits(a, scored, items)
    PROVE  Types'
<1>1. work' \in [Submission -> WorkRow] /\ Counted'
  BY EndStep DEF Commits
<1>2. evaluated' \subseteq Submission /\ opened' \subseteq Items /\ opened \subseteq opened'
  BY DEF Commits, Types, EvaluationsTypeOK, Items
<1> QED BY <1>1, <1>2 DEF Commits, records, Types, EvaluationsTypeOK, WorkRow

LEMMA PeopleTypes ==
    ASSUME Types,
           \/ \E a \in Submission : EndApplication(a)
           \/ \E c \in Submitter : Withdraw(c) \/ Lift(c) \/ UploadCv(c)
           \/ \E i \in Items : ResolveItem(i)
    PROVE  Types'
BY DEF Types, EvaluationsTypeOK, Counted, EndApplication, Withdraw, Lift, UploadCv, ResolveItem,
       OpenItems

LEMMA TypesStep ==
    ASSUME Types, EvaluationsNext
    PROVE  Types'
<1>0. ASSUME work' \in [Submission -> WorkRow], Counted',
             UNCHANGED <<records, evaluated, opened>>
      PROVE  Types'
  BY <1>0 DEF records, Types, EvaluationsTypeOK, WorkRow
<1>00. work \in [Submission -> WorkRow]
  BY DEF Types, EvaluationsTypeOK, WorkRow
<1>1. ASSUME NEW a \in Submission, ApplyTo(a) PROVE Types'
  <2> DEFINE row == [work[a] EXCEPT !.status = "queued"]
  <2>1. row \in WorkRow /\ work' = [work EXCEPT ![a] = row] /\ row.starts < MaxStarts
        /\ row.stage = work[a].stage /\ row.attempt = work[a].attempt
    BY <1>1, <1>00 DEF ApplyTo, WorkRow, JobStatus, Types, Counted
  <2> HIDE DEF row
  <2>2. work' \in [Submission -> WorkRow] /\ Counted'
    BY <2>1, RowStep DEF Types, Counted
  <2> QED BY <1>1, <2>2 DEF ApplyTo, Types, EvaluationsTypeOK, WorkRow
<1>2. ASSUME NEW a \in Submission, Begin(a) PROVE Types'
  <2> DEFINE row == [work[a] EXCEPT !.status = "running", !.starts = @ + 1, !.stage = "begun"]
  <2>1. work[a].starts + 1 \in 0 .. MaxStarts
    BY <1>2, <1>00, MaxStartsAssumption DEF Begin, WorkRow, Types, Counted
  <2>2. row \in WorkRow /\ work' = [work EXCEPT ![a] = row]
        /\ row.status = "running" /\ row.stage = "begun"
    BY <1>2, <1>00, <2>1 DEF Begin, WorkRow, JobStatus, Stage
  <2> HIDE DEF row
  <2>3. work' \in [Submission -> WorkRow] /\ Counted'
    BY <2>2, RowStep
  <2> QED BY <1>0, <1>00, <1>2, <2>3 DEF Begin
<1>3. ASSUME NEW a \in Submission, StopRun(a) PROVE Types'
  <2>1. work[a].starts \in Nat /\ MaxStarts \in Nat
    BY <1>00, MaxStartsAssumption DEF WorkRow
  <2>2. CASE work[a].starts >= MaxStarts
    BY <1>0, <1>3, <2>2, EndStep DEF StopRun
  <2>3. CASE work[a].starts < MaxStarts
    BY <1>0, <1>3, <2>1, <2>3, EndStep DEF StopRun
  <2> QED BY <2>1, <2>2, <2>3
<1>4. ASSUME NEW a \in Submission, ProposalRefused(a) \/ CvUnreachable(a) PROVE Types'
  BY <1>0, <1>4, EndStep DEF ProposalRefused, CvUnreachable, FailRun
<1>5. ASSUME NEW a \in Submission, ReadApplication(a) \/ AskLocked(a) \/ ReadCv(a) PROVE Types'
  <2>1. PICK stage \in Stage \ {"wait"} : Goes(a, stage)
    BY <1>5 DEF ReadApplication, AskLocked, ReadCv, Stage
  <2> QED BY <1>0, <1>00, <1>5, <2>1, StageStep DEF ReadApplication, AskLocked, ReadCv, RunAt
<1>6. ASSUME NEW a \in Submission, Match(a) PROVE Types'
  <2>1. CASE \E stage \in {"report", "unscored"} : Goes(a, stage)
    BY <1>0, <1>00, <1>6, <2>1, StageStep DEF Match, RunAt, Stage
  <2>2. CASE work[a].attempt < MaxAssessments /\ Goes(a, "wait")
    <3> DEFINE row == [work[a] EXCEPT !.stage = "wait"]
    <3>1. row \in WorkRow /\ work' = [work EXCEPT ![a] = row] /\ row.status = "running"
          /\ row.attempt < MaxAssessments
      BY <1>6, <1>00, <2>2 DEF Match, RunAt, Goes, WorkRow, Stage
    <3> HIDE DEF row
    <3>2. work' \in [Submission -> WorkRow] /\ Counted'
      BY <3>1, RowStep
    <3> QED BY <1>0, <1>00, <1>6, <3>2 DEF Match
  <2>3. work[a].attempt \in Nat /\ MaxAssessments \in Nat
    BY <1>00, MaxAssessmentsAssumption DEF WorkRow
  <2>4. CASE work[a].attempt >= MaxAssessments
    BY <1>6, <2>1, <2>4 DEF Match
  <2>5. CASE work[a].attempt < MaxAssessments
    BY <1>6, <2>1, <2>2, <2>3, <2>5 DEF Match
  <2> QED BY <2>3, <2>4, <2>5
<1>7. ASSUME NEW a \in Submission, AskOpenItem(a) PROVE Types'
  <2>1. PICK stage \in {"report asked", "unscored asked"}, told \in BOOLEAN :
           work' = [work EXCEPT ![a].stage = stage, ![a].told = told]
    BY <1>7 DEF AskOpenItem, OpenAlready
  <2> DEFINE row == [work[a] EXCEPT !.stage = stage, !.told = told]
  <2>2. row \in WorkRow /\ work' = [work EXCEPT ![a] = row] /\ row.status = "running"
        /\ row.stage # "wait"
    BY <1>7, <1>00, <2>1 DEF AskOpenItem, RunAt, WorkRow, Stage
  <2> HIDE DEF row
  <2>3. work' \in [Submission -> WorkRow] /\ Counted'
    BY <2>2, RowStep
  <2> QED BY <1>0, <1>00, <1>7, <2>3 DEF AskOpenItem
<1>8. ASSUME NEW a \in Submission, CommitScore(a) \/ CommitAssessment(a) PROVE Types'
  BY <1>8, CommitStep DEF CommitScore, CommitAssessment, Kind
<1>9. ASSUME NEW a \in Submission, Retry(a) PROVE Types'
  <2> DEFINE row == [NotQueued EXCEPT !.status = "queued", !.attempt = work[a].attempt + 1]
  <2>1. work[a].attempt + 1 \in 1 .. MaxAssessments
    BY <1>9, <1>00, MaxAssessmentsAssumption DEF Retry, RunAt, WorkRow, Types, Counted
  <2>2. row \in WorkRow /\ row.starts = 0 /\ row.stage = "idle"
    BY <2>1, NotQueuedTypes DEF NotQueued, WorkRow, JobStatus
  <2>3. work' = [work EXCEPT ![a] = row]
    BY <1>9 DEF Retry
  <2> HIDE DEF row
  <2>4. work' \in [Submission -> WorkRow] /\ Counted'
    BY <2>2, <2>3, NotQueuedTypes, RowStep
  <2> QED BY <1>0, <1>00, <1>9, <2>4 DEF Retry
<1> QED
  BY <1>1, <1>2, <1>3, <1>4, <1>5, <1>6, <1>7, <1>8, <1>9, PeopleTypes
     DEF EvaluationsNext, RunOf

LEMMA EvaluationsTypes == EvaluationsSpec => []Types
<1>1. Types /\ [EvaluationsNext]_evaluationsVars => Types'
  BY TypesStep DEF evaluationsVars, Types, EvaluationsTypeOK, Counted
<1> QED BY TypesInit, <1>1, PTL DEF EvaluationsSpec

-----------------------------------------------------------------------------
(* Assessments.                                                             *)

Reaches(a) ==
    \E i \in opened \ before[a] :
        /\ i[1] = "ai_assessment"
        /\ Whose(i[2]) = Whose(a)
        /\ i[2] \in {a} \cup (Submission \ evaluated)

\* An item about an assessment is there from its commit, which is a job's last.
ItemsFollow ==
    \A i \in opened : i[1] = "ai_assessment" => work[i[2]].status = "succeeded"

BeforeIsResolved ==
    \A a \in Submission : before[a] \subseteq resolved /\ <<"ai_assessment", a>> \notin before[a]

\* Only a sales application is scored.
ScoringStages == {"live", "over", "score", "near", "reject", "locked"}
SalesApart == \A a \in Submission \ Sales : work[a].stage \notin ScoringStages

ToldIsThere ==
    \A a \in Submission :
        work[a].stage \in {"report asked", "unscored asked"} /\ work[a].told => Reaches(a)

IdleUnlessRunning ==
    \A a \in Submission : work[a].status # "running" => work[a].stage = "idle"

AssessmentInv ==
    /\ IdleUnlessRunning /\ ItemsFollow /\ BeforeIsResolved /\ SalesApart /\ ToldIsThere
    /\ AssessmentReachesAPerson

LEMMA ReachesIsTheProperty ==
    AssessmentReachesAPerson <=>
        \A a \in Submission \ Sales : work[a].status = "succeeded" => Reaches(a)
BY DEF AssessmentReachesAPerson, Reaches

(***************************************************************************)
(* An item that was there stays, and what has succeeded is scored no more. *)
(***************************************************************************)
LEMMA ReachesStays ==
    ASSUME Types, ItemsFollow, NEW a \in Submission, Reaches(a), before'[a] = before[a],
           opened \subseteq opened',
           \A b \in evaluated' \ evaluated : b = a \/ work[b].status # "succeeded"
    PROVE  Reaches(a)'
<1>1. PICK i \in opened \ before[a] :
        i[1] = "ai_assessment" /\ Whose(i[2]) = Whose(a) /\ i[2] \in {a} \cup (Submission \ evaluated)
  BY DEF Reaches
<1>2. work[i[2]].status = "succeeded"
  BY <1>1 DEF ItemsFollow
<1>3. i[2] \in {a} \cup (Submission \ evaluated')
  BY <1>1, <1>2
<1> QED BY <1>1, <1>3 DEF Reaches, Whose

(***************************************************************************)
(* A step that writes neither an item nor an evaluation.                   *)
(***************************************************************************)
LEMMA NothingWritten ==
    ASSUME Types, AssessmentInv, NEW a \in Submission, UNCHANGED <<opened, evaluated, before>>,
           resolved \subseteq resolved',
           \A b \in Submission \ {a} : work'[b] = work[b],
           work[a].status # "succeeded" \/ work'[a] = work[a],
           work'[a].status = work[a].status \/ work'[a].status # "succeeded",
           work'[a].status # "running" => work'[a].stage = "idle",
           a \in Sales \/ work'[a].stage \notin ScoringStages,
           work'[a].stage \in {"report asked", "unscored asked"} /\ work'[a].told
             => Reaches(a)
    PROVE  AssessmentInv'
<1> USE DEF AssessmentInv, Types, EvaluationsTypeOK
<1>1. \A b \in Submission : Reaches(b) => Reaches(b)'
  BY ReachesStays
<1>2. ItemsFollow' /\ BeforeIsResolved' /\ SalesApart' /\ IdleUnlessRunning'
  BY DEF ItemsFollow, BeforeIsResolved, SalesApart, IdleUnlessRunning, Items
<1>3. ToldIsThere'
  BY <1>1 DEF ToldIsThere
<1>4. ASSUME NEW b \in Submission \ Sales, work'[b].status = "succeeded"
      PROVE  Reaches(b)'
  <2>1. work[b].status = "succeeded"
    BY <1>4
  <2> QED BY <2>1, <1>1, ReachesIsTheProperty
<1>5. AssessmentReachesAPerson'
  BY <1>4 DEF AssessmentReachesAPerson, Reaches
<1> QED BY <1>2, <1>3, <1>5

LEMMA ApplyStep ==
    ASSUME Types, AssessmentInv, NEW a \in Submission, ApplyTo(a)
    PROVE  AssessmentInv'
<1> USE DEF AssessmentInv, Types, EvaluationsTypeOK
<1>1. /\ \A b \in Submission \ {a} : work'[b] = work[b] /\ before'[b] = before[b]
      /\ work[a].status = "none" /\ work'[a].status = "queued" /\ work'[a].stage = work[a].stage
      /\ work'[a].told = work[a].told /\ before'[a] = resolved
      /\ UNCHANGED <<resolved, opened, evaluated>>
  BY DEF ApplyTo
<1>2. ItemsFollow' /\ SalesApart' /\ IdleUnlessRunning'
  BY <1>1 DEF ItemsFollow, SalesApart, IdleUnlessRunning, Items
<1>3. <<"ai_assessment", a>> \notin resolved
  BY <1>1 DEF ItemsFollow
<1>4. BeforeIsResolved'
  BY <1>1, <1>3 DEF BeforeIsResolved
<1>5. \A b \in Submission \ {a} : Reaches(b) => Reaches(b)'
  BY <1>1, ReachesStays
<1>6. ToldIsThere'
  BY <1>1, <1>5 DEF ToldIsThere, IdleUnlessRunning
<1>7. ASSUME NEW b \in Submission \ Sales, work'[b].status = "succeeded"
      PROVE  Reaches(b)'
  <2>1. b # a /\ work[b].status = "succeeded"
    BY <1>1, <1>7
  <2> QED BY <2>1, <1>5, ReachesIsTheProperty
<1>8. AssessmentReachesAPerson'
  BY <1>7 DEF AssessmentReachesAPerson, Reaches
<1> QED BY <1>2, <1>4, <1>6, <1>8

(***************************************************************************)
(* A job that commits is done, and its items are there.                    *)
(***************************************************************************)
LEMMA CommitReaches ==
    ASSUME Types, AssessmentInv, NEW a \in Submission, NEW scored \in BOOLEAN,
           NEW items \in SUBSET Kind, Commits(a, scored, items), work[a].status = "running",
           a \in Sales \/ Reaches(a) \/ "ai_assessment" \in items
    PROVE  AssessmentInv'
<1> USE DEF AssessmentInv, Types, EvaluationsTypeOK
<1>1. /\ \A b \in Submission \ {a} : work'[b] = work[b]
      /\ work'[a].status = "succeeded" /\ work'[a].stage = "idle"
      /\ opened' = opened \cup (items \X {a}) /\ evaluated' \subseteq evaluated \cup {a}
      /\ UNCHANGED <<before, resolved>>
  BY DEF Commits, Ended, records
<1>2. \A b \in Submission : Reaches(b) => Reaches(b)'
  BY <1>1, ReachesStays
<1>3. ItemsFollow' /\ BeforeIsResolved' /\ SalesApart' /\ IdleUnlessRunning'
  BY <1>1 DEF ItemsFollow, BeforeIsResolved, SalesApart, IdleUnlessRunning, Items, ScoringStages
<1>4. ToldIsThere'
  BY <1>1, <1>2 DEF ToldIsThere
<1>5. ASSUME a \notin Sales PROVE Reaches(a)'
  <2>1. CASE Reaches(a)
    BY <2>1, <1>2
  <2>2. CASE "ai_assessment" \in items
    <3>1. <<"ai_assessment", a>> \in opened' \ before'[a]
      BY <2>2, <1>1 DEF BeforeIsResolved
    <3> QED BY <3>1 DEF Reaches
  <2> QED BY <1>5, <2>1, <2>2
<1>6. ASSUME NEW b \in Submission \ Sales, work'[b].status = "succeeded"
      PROVE  Reaches(b)'
  <2>1. b = a \/ work[b].status = "succeeded"
    BY <1>1, <1>6
  <2> QED BY <2>1, <1>2, <1>5, ReachesIsTheProperty
<1>7. AssessmentReachesAPerson'
  BY <1>6 DEF AssessmentReachesAPerson, Reaches
<1> QED BY <1>3, <1>4, <1>7

(***************************************************************************)
(* An item that is open already reaches the application as well.           *)
(***************************************************************************)
LEMMA OpenAlreadyReaches ==
    ASSUME Types, AssessmentInv, NEW a \in Submission, NEW scored \in BOOLEAN,
           OpenAlready(a, scored)
    PROVE  Reaches(a)
<1>1. PICK i \in OpenItems :
        /\ i[1] = "ai_assessment" /\ Whose(i[2]) = Whose(a)
        /\ i[2] = a \/ i[2] \notin evaluated
  BY DEF OpenAlready
<1>2. i \in opened \ before[a] /\ i[2] \in Submission
  BY <1>1 DEF OpenItems, AssessmentInv, BeforeIsResolved, Types, EvaluationsTypeOK, Items
<1> QED BY <1>1, <1>2 DEF Reaches

LEMMA AssessmentStep ==
    ASSUME Types, AssessmentInv, EvaluationsNext
    PROVE  AssessmentInv'
<1>1. ASSUME NEW c \in Submitter, Withdraw(c) \/ Lift(c) \/ UploadCv(c) PROVE AssessmentInv'
  BY <1>1 DEF Withdraw, Lift, UploadCv, AssessmentInv, IdleUnlessRunning, ItemsFollow,
              BeforeIsResolved, SalesApart, ToldIsThere, AssessmentReachesAPerson, Reaches, Whose
<1>2. ASSUME NEW a \in Submission, EndApplication(a) PROVE AssessmentInv'
  BY <1>2 DEF EndApplication, AssessmentInv, IdleUnlessRunning, ItemsFollow,
              BeforeIsResolved, SalesApart, ToldIsThere, AssessmentReachesAPerson, Reaches, Whose
<1>3. ASSUME NEW i \in Items, ResolveItem(i) PROVE AssessmentInv'
  BY <1>3 DEF ResolveItem, AssessmentInv, IdleUnlessRunning, ItemsFollow,
              BeforeIsResolved, SalesApart, ToldIsThere, AssessmentReachesAPerson, Reaches, Whose
<1>4. ASSUME NEW a \in Submission, NEW stage \in Stage, Goes(a, stage),
             UNCHANGED <<records, opened, evaluated>>, work[a].status = "running",
             stage \notin {"report asked", "unscored asked"},
             a \in Sales \/ stage \notin ScoringStages
      PROVE  AssessmentInv'
  <2>1. /\ \A b \in Submission \ {a} : work'[b] = work[b]
        /\ work'[a].status = "running" /\ work'[a].stage = stage
    BY <1>4 DEF Goes, Types, EvaluationsTypeOK
  <2> QED BY <1>4, <2>1, NothingWritten DEF records
<1>5. ASSUME NEW a \in Submission,
             ReadApplication(a) \/ AskLocked(a) \/ ReadCv(a) \/ Match(a)
      PROVE  AssessmentInv'
  <2>1. PICK stage \in Stage : /\ Goes(a, stage)
                               /\ stage \notin {"report asked", "unscored asked"}
                               /\ a \in Sales \/ stage \notin ScoringStages
    BY <1>5 DEF ReadApplication, AskLocked, ReadCv, Match, RunAt, Stage, AssessmentInv, SalesApart,
                ScoringStages
  <2> QED BY <1>4, <1>5, <2>1 DEF ReadApplication, AskLocked, ReadCv, Match, RunAt
<1>6. ASSUME NEW a \in Submission, NEW status \in {"queued", "failed"}, Ended(a, status),
             UNCHANGED <<records, opened, evaluated>>, work[a].status = "running"
      PROVE  AssessmentInv'
  <2>1. /\ \A b \in Submission \ {a} : work'[b] = work[b]
        /\ work'[a].status = status /\ work'[a].stage = "idle"
    BY <1>6 DEF Ended, Types, EvaluationsTypeOK
  <2> QED BY <1>6, <2>1, NothingWritten DEF records, ScoringStages
<1>7. ASSUME NEW a \in Submission, StopRun(a) \/ ProposalRefused(a) \/ CvUnreachable(a)
      PROVE  AssessmentInv'
  <2>1. PICK status \in {"queued", "failed"} : Ended(a, status)
    BY <1>7 DEF StopRun, ProposalRefused, CvUnreachable, FailRun
  <2> QED BY <1>6, <1>7, <2>1 DEF StopRun, ProposalRefused, CvUnreachable, FailRun, RunAt
<1>8. ASSUME NEW a \in Submission, Begin(a) \/ Retry(a) PROVE AssessmentInv'
  <2>1. /\ \A b \in Submission \ {a} : work'[b] = work[b]
        /\ work'[a].status \in {"running", "queued"} /\ work'[a].stage \in {"begun", "idle"}
        /\ work'[a].status # "running" => work'[a].stage = "idle"
        /\ work[a].status # "succeeded"
        /\ UNCHANGED <<records, opened, evaluated>>
    <3>1. CASE Begin(a)
      BY <3>1 DEF Begin, Types, EvaluationsTypeOK
    <3>2. CASE Retry(a)
      <4> DEFINE row == [NotQueued EXCEPT !.status = "queued", !.attempt = work[a].attempt + 1]
      <4>1. row.status = "queued" /\ row.stage = "idle"
        BY DEF NotQueued
      <4>2. work' = [work EXCEPT ![a] = row] /\ work[a].status = "running"
            /\ UNCHANGED <<records, opened, evaluated>>
        BY <3>2 DEF Retry, RunAt
      <4> HIDE DEF row
      <4> QED BY <4>1, <4>2 DEF Types, EvaluationsTypeOK
    <3> QED BY <1>8, <3>1, <3>2
  <2> QED BY <2>1, NothingWritten DEF records, ScoringStages
<1>9. ASSUME NEW a \in Submission, AskOpenItem(a) PROVE AssessmentInv'
  <2>1. PICK stage \in {"report asked", "unscored asked"}, scored \in BOOLEAN :
           work' = [work EXCEPT ![a].stage = stage, ![a].told = OpenAlready(a, scored)]
    BY <1>9 DEF AskOpenItem
  <2>2. /\ \A b \in Submission \ {a} : work'[b] = work[b]
        /\ work'[a].status = "running" /\ work[a].status = "running" /\ work'[a].stage = stage
        /\ work'[a].told = OpenAlready(a, scored)
        /\ UNCHANGED <<records, opened, evaluated>>
    <3>1. PICK told \in BOOLEAN : told = OpenAlready(a, scored)
      BY DEF OpenAlready
    <3>2. work' = [work EXCEPT ![a].stage = stage, ![a].told = told]
      BY <2>1, <3>1
    <3>3. work'[a].told = told /\ work'[a].stage = stage /\ work'[a].status = work[a].status
          /\ \A b \in Submission \ {a} : work'[b] = work[b]
      BY <3>2 DEF Types, EvaluationsTypeOK
    <3> QED BY <1>9, <3>1, <3>3 DEF AskOpenItem, RunAt
  <2>3. work'[a].told => Reaches(a)
    BY <2>2, OpenAlreadyReaches
  <2>4. work'[a].stage \notin ScoringStages
    BY <2>2 DEF ScoringStages
  <2> QED BY <2>2, <2>3, <2>4, NothingWritten DEF records
<1>10. ASSUME NEW a \in Submission, CommitScore(a) PROVE AssessmentInv'
  <2>1. a \in Sales
    BY <1>10 DEF CommitScore, RunAt, AssessmentInv, SalesApart, ScoringStages
  <2>2. PICK scored \in BOOLEAN, items \in SUBSET Kind : Commits(a, scored, items)
    BY <1>10 DEF CommitScore, Kind
  <2> QED BY <1>10, <2>1, <2>2, CommitReaches DEF CommitScore, RunAt
<1>11. ASSUME NEW a \in Submission, CommitAssessment(a) PROVE AssessmentInv'
  <2>1. PICK scored \in BOOLEAN :
           Commits(a, scored, IF work[a].told THEN {} ELSE {"ai_assessment"})
    BY <1>11 DEF CommitAssessment
  <2>2. work[a].told => Reaches(a)
    BY <1>11 DEF CommitAssessment, RunAt, AssessmentInv, ToldIsThere
  <2>3. work[a].status = "running" /\ {} \in SUBSET Kind /\ {"ai_assessment"} \in SUBSET Kind
    BY <1>11 DEF CommitAssessment, RunAt, Kind
  <2>4. CASE work[a].told
    BY <2>1, <2>2, <2>3, <2>4, CommitReaches
  <2>5. CASE ~work[a].told
    BY <2>1, <2>3, <2>5, CommitReaches
  <2> QED BY <2>4, <2>5
<1> QED
  BY <1>1, <1>2, <1>3, <1>5, <1>7, <1>8, <1>9, <1>10, <1>11, ApplyStep DEF EvaluationsNext, RunOf

(***************************************************************************)
(* assess/worker.py: for any number of applications, candidates, retries   *)
(* and restarts, when the job of an application that is not sales has      *)
(* succeeded, a person has or had an item to work from.                    *)
(***************************************************************************)
THEOREM AssessmentsReachPeople == EvaluationsSpec => []AssessmentReachesAPerson
<1>1. EvaluationsInit => AssessmentInv
  <2> SUFFICES ASSUME EvaluationsInit PROVE AssessmentInv
    OBVIOUS
  <2>1. \A a \in Submission : work[a].status = "none" /\ work[a].stage = "idle"
    BY DEF EvaluationsInit, NotQueued
  <2>2. opened = {} /\ resolved = {} /\ \A a \in Submission : before[a] = {}
    BY DEF EvaluationsInit
  <2> QED
    BY <2>1, <2>2
       DEF AssessmentInv, IdleUnlessRunning, ItemsFollow, BeforeIsResolved, SalesApart,
           ToldIsThere, AssessmentReachesAPerson, ScoringStages
<1>2. AssessmentInv /\ UNCHANGED evaluationsVars => AssessmentInv'
  BY DEF evaluationsVars, AssessmentInv, IdleUnlessRunning, ItemsFollow, BeforeIsResolved,
         SalesApart, ToldIsThere, AssessmentReachesAPerson, Reaches, Whose
<1>3. Types /\ AssessmentInv /\ EvaluationsNext => AssessmentInv'
  BY AssessmentStep
<1>4. AssessmentInv => AssessmentReachesAPerson
  BY DEF AssessmentInv
<1> QED BY EvaluationsTypes, <1>1, <1>2, <1>3, <1>4, PTL DEF EvaluationsSpec

-----------------------------------------------------------------------------
(* Verdicts.                                                                *)

(***************************************************************************)
(* A set of natural numbers has a least one.                               *)
(***************************************************************************)
LEMMA LeastNumber ==
    ASSUME NEW S \in SUBSET Nat, S # {}
    PROVE  \E m \in S : \A n \in S : m <= n
<1> DEFINE Less == OpToRel(<, Nat)
<1>1. IsWellFoundedOn(Less, Nat)
  BY NatLessThanWellFounded
<1>2. \A x, y \in Nat : <<x, y>> \in Less <=> x < y
  BY DEF OpToRel
<1> HIDE DEF Less
<1>3. PICK m \in S : \A n \in S : <<n, m>> \notin Less
  BY <1>1, WFMin
<1>4. \A n \in S : m \in Nat /\ n \in Nat /\ ~(n < m)
  BY <1>2, <1>3
<1> QED
  BY <1>4

(***************************************************************************)
(* FirstOf gives a value that stands beside a condition that holds, or     *)
(* what it gives otherwise.                                                *)
(***************************************************************************)
LEMMA FirstOfHolds ==
    ASSUME NEW choices, DOMAIN choices \in SUBSET Nat, NEW otherwise
    PROVE  \/ FirstOf(choices, otherwise) = otherwise
           \/ \E i \in DOMAIN choices : choices[i][1] /\ FirstOf(choices, otherwise) = choices[i][2]
<1> DEFINE holds == {i \in DOMAIN choices : choices[i][1]}
           first == CHOOSE i \in holds : \A j \in holds : i <= j
<1>1. CASE holds = {}
  BY <1>1 DEF FirstOf
<1>2. CASE holds # {}
  <2>1. \E i \in holds : \A j \in holds : i <= j
    <3>1. holds \in SUBSET Nat
      OBVIOUS
    <3> QED
      BY <3>1, <1>2, LeastNumber
  <2>2. first \in holds
    BY <2>1
  <2>3. FirstOf(choices, otherwise) = choices[first][2]
    BY <1>2, Zenon DEF FirstOf
  <2> QED
    BY <2>2, <2>3
<1> QED
  BY <1>1, <1>2

LEMMA FirstOfThree ==
    ASSUME NEW p, NEW q, NEW r, NEW x, NEW y, NEW z, NEW otherwise
    PROVE  FirstOf(<< <<p, x>>, <<q, y>>, <<r, z>> >>, otherwise)
             = IF p THEN x ELSE IF q THEN y ELSE IF r THEN z ELSE otherwise
BY DEF FirstOf

LEMMA EntryTierIs ==
    ASSUME NEW score \in Int
    PROVE  EntryTier(score) = IF score >= 75 THEN "P1" ELSE IF score >= 55 THEN "P2"
                              ELSE IF score >= 35 THEN "P3" ELSE "P4"
<1> DEFINE p == score >= 75
           q == score >= 55
           r == score >= 35
<1>1. FirstOf(<< <<p, "P1">>, <<q, "P2">>, <<r, "P3">> >>, "P4")
        = IF p THEN "P1" ELSE IF q THEN "P2" ELSE IF r THEN "P3" ELSE "P4"
  <2> HIDE DEF p, q, r
  <2> QED
    BY FirstOfThree
<1> QED
  BY <1>1, Zenon DEF EntryTier

LEMMA HeadhuntTierIs ==
    ASSUME NEW score \in Int
    PROVE  HeadhuntTier(score) = IF score >= 80 THEN "T1" ELSE IF score >= 60 THEN "T2"
                                 ELSE IF score >= 40 THEN "T3" ELSE "T4"
<1> DEFINE p == score >= 80
           q == score >= 60
           r == score >= 40
<1>1. FirstOf(<< <<p, "T1">>, <<q, "T2">>, <<r, "T3">> >>, "T4")
        = IF p THEN "T1" ELSE IF q THEN "T2" ELSE IF r THEN "T3" ELSE "T4"
  <2> HIDE DEF p, q, r
  <2> QED
    BY FirstOfThree
<1> QED
  BY <1>1, Zenon DEF HeadhuntTier

LEMMA CappedIs ==
    ASSUME NEW points \in Int
    PROVE  /\ Capped(points) \in 0 .. 100
           /\ points \in 0 .. 100 => Capped(points) = points
<1>1. Min({100, points}) = IF points < 100 THEN points ELSE 100
  BY DEF Min
<1>2. \A m \in Int : Max({0, m}) = IF m < 0 THEN 0 ELSE m
  BY DEF Max
<1>3. Min({100, points}) \in Int
  BY <1>1
<1> QED
  BY <1>1, <1>2, <1>3 DEF Capped

(***************************************************************************)
(* What the parts can come to, whatever the profile.                       *)
(***************************************************************************)
LEMMA EntryPoints ==
    ASSUME NEW c
    PROVE  /\ LocationPoints(c) \in 0 .. 30 /\ SalesPoints(c) \in 0 .. 25
           /\ EntryLevelPoints(c) \in 0 .. 20 /\ EducationPoints(c) \in 0 .. 15
           /\ ContactPoints(c) \in 0 .. 10 /\ BrokeragePoints(c) \in 0 .. 10
           /\ PlatformPoints(c) \in {-5, 0}
<1>1. LocationPoints(c) \in 0 .. 30
  BY FirstOfThree DEF LocationPoints
<1>2. SalesPoints(c) \in 0 .. 25
  BY FirstOfThree DEF SalesPoints
<1>3. EntryLevelPoints(c) \in 0 .. 20
  <2> DEFINE p == AtLeast(c.graduated, CurrentYear - 3)
             q == AtLeast(c.graduated, 2022)
             r == AtMost(c.months, 36)
             u == AtMost(c.months, 72)
             v == AtMost(c.months, 96)
  <2>1. FirstOf(<< <<p, 20>>, <<q, 20>>, <<c.student, 15>>, <<r, 20>>, <<u, 12>>, <<v, 5>> >>, 0)
          \in 0 .. 20
    <3> HIDE DEF p, q, r, u, v
    <3> QED
      BY DEF FirstOf
  <2> QED
    BY <2>1 DEF EntryLevelPoints
<1>4. EducationPoints(c) \in 0 .. 15
  <2> DEFINE p == "bachelor" \in c.education
             q == "undergraduate" \in c.education
             r == "diploma" \in c.education
             u == "high_school" \in c.education
  <2>1. FirstOf(<< <<p, 15>>, <<q, 12>>, <<r, 8>>, <<u, 5>> >>, 0) \in 0 .. 15
    <3> HIDE DEF p, q, r, u
    <3> QED
      BY DEF FirstOf
  <2> QED
    BY <2>1, Zenon DEF EducationPoints
<1>5. ContactPoints(c) \in 0 .. 10
  <2> DEFINE p == "egyptian_phone" \in c.contact
             q == c.contact \cap {"other_phone", "email"} # {}
             r == "profile_url" \in c.contact
  <2>1. FirstOf(<< <<p, 10>>, <<q, 5>>, <<r, 3>> >>, 0) \in 0 .. 10
    <3> HIDE DEF p, q, r
    <3> QED
      BY FirstOfThree
  <2> QED
    BY <2>1, Zenon DEF ContactPoints
<1>6. BrokeragePoints(c) \in 0 .. 10 /\ PlatformPoints(c) \in {-5, 0}
  BY DEF BrokeragePoints, PlatformPoints
<1> QED
  BY <1>1, <1>2, <1>3, <1>4, <1>5, <1>6

LEMMA OtherPoints ==
    ASSUME NEW c
    PROVE  /\ RemotePoints(c) \in Int /\ RecencyPoints(c) \in Int
           /\ ProfilePoints(c) \in Int /\ IntentPoints(c) \in Int
BY FirstOfThree DEF RemotePoints, RecencyPoints, ProfilePoints, IntentPoints

(***************************************************************************)
(* What the parts of a headhunt score can come to.                         *)
(***************************************************************************)
LEMMA TitlePointsIn ==
    ASSUME NEW c
    PROVE  TitlePoints(c) \in 0 .. 25
<1> DEFINE points == {0} \cup {t[2] : t \in {t \in TenuredTitle : t[1] \in c.title}}
           short == {n \in 0 .. 25 : 25 - n \in points}
<1>1. ASSUME NEW x \in points PROVE x \in 0 .. 25
  <2>1. CASE x = 0
    BY <2>1
  <2>2. CASE \E t \in TenuredTitle : x = t[2]
    <3>1. PICK t \in TenuredTitle : x = t[2]
      BY <2>2
    <3>2. t[2] \in {25, 22, 20, 18, 15, 13}
      BY DEF TenuredTitle
    <3> QED
      BY <3>1, <3>2
  <2> QED
    BY <2>1, <2>2
<1>2. 0 \in points
  OBVIOUS
<1> HIDE DEF points
<1>3. short \in SUBSET Nat /\ 25 \in short
  BY <1>2
<1>4. PICK m \in short : \A n \in short : m <= n
  BY <1>3, LeastNumber
<1>6. \A x \in points : 25 - x \in short /\ x \in 0 .. 25
  BY <1>1
<1>7. 25 - m \in points /\ \A x \in points : 25 - m >= x
  BY <1>6, <1>4
<1>5. Max(points) \in points
  BY <1>7 DEF Max
<1> QED
  BY <1>1, <1>5 DEF TitlePoints, points

LEMMA HeadhuntPoints ==
    ASSUME NEW c
    PROVE  /\ HeadhuntLocation(c) \in 0 .. 15 /\ EmployerPoints(c) \in 0 .. 25
           /\ TenurePoints(c) \in 0 .. 20 /\ MovePoints(c) \in 0 .. 15
<1>1. HeadhuntLocation(c) \in 0 .. 15
  BY FirstOfThree DEF HeadhuntLocation
<1>2. EmployerPoints(c) \in 0 .. 25
  <2> DEFINE q == c.employer \in {"real_estate", "premium"}
             r == c.employer = "standard"
  <2>1. FirstOf(<< <<c.brokerage, 25>>, <<q, 12>>, <<r, 8>> >>, 0) \in 0 .. 25
    <3> HIDE DEF q, r
    <3> QED
      BY FirstOfThree
  <2> QED
    BY <2>1, Zenon DEF EmployerPoints
<1>3. TenurePoints(c) \in 0 .. 20
  BY FirstOfThree DEF TenurePoints
<1>4. MovePoints(c) \in 0 .. 15
  <2> DEFINE p == c.signal = "open_to_work"
             q == c.signal = "engaged_post"
  <2>1. FirstOf(<< <<p, 15>>, <<q, 10>> >>, 5) \in 0 .. 15
    <3> HIDE DEF p, q
    <3> QED
      BY DEF FirstOf
  <2> QED
    BY <2>1, Zenon DEF MovePoints
<1> QED
  BY <1>1, <1>2, <1>3, <1>4

(***************************************************************************)
(* A score is a whole number from 0 to 100, the tier is the one of its     *)
(* lines, and a score with no reason beside it is its parts and the rest.  *)
(***************************************************************************)
LEMMA EntryScore ==
    ASSUME NEW c, ScoreEntry(c).reason = None
    PROVE  LET result == ScoreEntry(c)
           IN  /\ result.score \in 0 .. 100 /\ result.tier = EntryTier(result.score)
               /\ result.parts =
                    [location |-> LocationPoints(c), sales |-> SalesPoints(c),
                     entry |-> EntryLevelPoints(c), education |-> EducationPoints(c),
                     contact |-> ContactPoints(c), employer |-> BrokeragePoints(c),
                     platform |-> PlatformPoints(c)]
<1> DEFINE parts == [location |-> LocationPoints(c), sales |-> SalesPoints(c),
                     entry |-> EntryLevelPoints(c), education |-> EducationPoints(c),
                     contact |-> ContactPoints(c), employer |-> BrokeragePoints(c),
                     platform |-> PlatformPoints(c)]
           points == Total(parts) + RemotePoints(c) + RecencyPoints(c)
                        + ProfilePoints(c) + IntentPoints(c)
           why == EntryDisqualification(c)
<1>1. points \in Int
  BY EntryPoints, OtherPoints DEF Total
<1>2. ScoreEntry(c) =
        IF why # None THEN [reason |-> why, score |-> 0, tier |-> "P4", parts |-> NoParts]
        ELSE [reason |-> None, score |-> Capped(points), tier |-> EntryTier(Capped(points)),
              parts |-> parts]
  BY Zenon DEF ScoreEntry
<1> HIDE DEF parts, points, why
<1>3. ScoreEntry(c) =
        [reason |-> None, score |-> Capped(points), tier |-> EntryTier(Capped(points)),
         parts |-> parts]
  BY <1>2
<1> QED
  BY <1>1, <1>3, CappedIs DEF parts

LEMMA HeadhuntScore ==
    ASSUME NEW c, ScoreHeadhunt(c).reason = None
    PROVE  LET result == ScoreHeadhunt(c)
               parts == result.parts
           IN  /\ result.score \in 0 .. 100 /\ result.tier = HeadhuntTier(result.score)
               /\ result.score = Total(parts)
               /\ DOMAIN parts = DOMAIN NoParts
               /\ parts.location \in 0 .. 15 /\ parts.sales \in 0 .. 25
               /\ parts.entry \in 0 .. 20 /\ parts.employer \in 0 .. 25
               /\ parts.platform \in 0 .. 15
               /\ parts.education = 0 /\ parts.contact = 0
<1> DEFINE parts == [NoParts EXCEPT !.location = HeadhuntLocation(c), !.sales = TitlePoints(c),
                                 !.entry = TenurePoints(c), !.employer = EmployerPoints(c),
                                 !.platform = MovePoints(c)]
           why == HeadhuntDisqualification(c)
<1>1. /\ DOMAIN parts = DOMAIN NoParts
      /\ parts.location = HeadhuntLocation(c) /\ parts.sales = TitlePoints(c)
      /\ parts.entry = TenurePoints(c) /\ parts.employer = EmployerPoints(c)
      /\ parts.platform = MovePoints(c) /\ parts.education = 0 /\ parts.contact = 0
  BY DEF NoParts
<1>2. ScoreHeadhunt(c) =
        IF why # None THEN [reason |-> why, score |-> 0, tier |-> "T4", parts |-> NoParts]
        ELSE [reason |-> None, score |-> Capped(Total(parts)),
              tier |-> HeadhuntTier(Capped(Total(parts))), parts |-> parts]
  BY Zenon DEF ScoreHeadhunt
<1> HIDE DEF parts, why
<1>3. Total(parts) \in 0 .. 100
  BY <1>1, HeadhuntPoints, TitlePointsIn DEF Total
<1>4. ScoreHeadhunt(c) =
        [reason |-> None, score |-> Total(parts), tier |-> HeadhuntTier(Total(parts)),
         parts |-> parts]
  BY <1>2, <1>3, CappedIs
<1> QED
  BY <1>1, <1>3, <1>4, HeadhuntPoints, TitlePointsIn

\* A verdict is of what is known, and the near lines are of its score.
VerdictIs ==
    verdict # None =>
        /\ verdict.mode \in Mode
        /\ verdict.result = ScoreCandidate(Profile, verdict.mode)
        /\ \A policy \in Policy :
              verdict.near[policy] =
                  IF verdict.result.reason # None THEN None
                  ELSE NearLine(verdict.result.score, verdict.mode, policy)

LEMMA VerdictStays == VerdictsSpec => []VerdictIs
<1>1. VerdictsInit => VerdictIs
  BY DEF VerdictsInit, VerdictIs
<1>2. VerdictIs /\ [VerdictsNext]_verdictsVars => VerdictIs'
  <2> SUFFICES ASSUME VerdictIs, [VerdictsNext]_verdictsVars PROVE VerdictIs'
    OBVIOUS
  <2>1. ASSUME NEW fact \in Fact, Learn(fact) PROVE VerdictIs'
    BY <2>1 DEF Learn, VerdictIs
  <2>2. ASSUME NEW mode \in Mode, Evaluate(mode) PROVE VerdictIs'
    <3>1. Profile' = Profile
      BY <2>2 DEF Evaluate, Profile
    <3> HIDE DEF Profile
    <3> QED
      BY <2>2, <3>1 DEF Evaluate, VerdictIs
  <2>3. CASE UNCHANGED verdictsVars
    <3>1. Profile' = Profile /\ verdict' = verdict
      BY <2>3 DEF verdictsVars, Profile
    <3> QED
      BY <3>1 DEF VerdictIs
  <2> QED
    BY <2>1, <2>2, <2>3 DEF VerdictsNext
<1> QED
  BY <1>1, <1>2, PTL DEF VerdictsSpec

THEOREM NearOne == VerdictsSpec => []NearOneLine
<1>1. VerdictIs => NearOneLine
  <2> SUFFICES ASSUME VerdictIs, verdict # None, NEW policy \in Policy,
                      verdict.near[policy] # None
               PROVE  LET near == verdict.near[policy]
                          lines == Lines[verdict.mode]
                      IN  /\ verdict.result.tier \in {near[2], near[3]}
                          /\ \A i \in DOMAIN lines :
                                IsNear(verdict.result.score - lines[i][1], policy)
                                  => lines[i] = near
    BY DEF NearOneLine
  <2> DEFINE near == verdict.near[policy]
             score == verdict.result.score
             mode == verdict.mode
             lines == Lines[mode]
             choices == [i \in DOMAIN lines |-> <<IsNear(score - lines[i][1], policy), lines[i]>>]
  <2>1. verdict.result.reason = None /\ near = NearLine(score, mode, policy)
    BY DEF VerdictIs
  <2>2. \/ mode = "entry" /\ verdict.result = ScoreEntry(Profile)
        \/ mode = "headhunt" /\ verdict.result = ScoreHeadhunt(Profile)
    BY DEF VerdictIs, Mode, ScoreCandidate
  <2>3. /\ score \in 0 .. 100
        /\ mode = "entry" => verdict.result.tier = EntryTier(score)
        /\ mode = "headhunt" => verdict.result.tier = HeadhuntTier(score)
    BY <2>1, <2>2, EntryScore, HeadhuntScore
  <2>4. /\ DOMAIN lines = 1 .. 3 /\ DOMAIN choices = 1 .. 3
        /\ \A i \in 1 .. 3 : choices[i] = <<IsNear(score - lines[i][1], policy), lines[i]>>
    BY <2>2 DEF Lines
  <2>5. near = FirstOf(choices, None)
    BY <2>1, Zenon DEF NearLine
  <2> HIDE DEF choices
  <2>0. near # None
    OBVIOUS
  <2>6. PICK i \in 1 .. 3 : choices[i][1] /\ near = choices[i][2]
    <3> HIDE DEF near
    <3> QED
      BY <2>0, <2>4, <2>5, FirstOfHolds
  <2>7. IsNear(score - lines[i][1], policy) /\ near = lines[i]
    BY <2>4, <2>6
  <2>8. policy.points \in 1 .. 9
    BY DEF Policy, MaxPoints
  <2>9. \A d \in Int : IsNear(d, policy) => d \in -9 .. 9
    BY <2>8 DEF IsNear
  <2> QED
    BY <2>2, <2>3, <2>4, <2>7, <2>9, EntryTierIs, HeadhuntTierIs DEF Lines
<1> QED
  BY <1>1, VerdictStays, PTL

LEMMA ExplainedOf ==
    ASSUME NEW c, NEW mode \in Mode
    PROVE  LET result == ScoreCandidate(c, mode)
           IN  /\ \A part \in DOMAIN result.parts : result.parts[part] <= OutOf[mode][part]
               /\ Total(result.parts) + OtherAdjustments(c, mode) = result.score
               /\ mode = "headhunt" => OtherAdjustments(c, mode) = 0
<1> DEFINE result == ScoreCandidate(c, mode)
           parts == result.parts
<1>1. /\ OtherAdjustments(c, mode) =
            IF result.reason # None THEN 0 ELSE result.score - Total(parts)
      /\ mode = "entry" => result = ScoreEntry(c)
      /\ mode = "headhunt" => result = ScoreHeadhunt(c)
  BY Zenon DEF OtherAdjustments, ScoreCandidate, Mode
<1> HIDE DEF result
<1>2. CASE result.reason # None
  <2>1. result.score = 0 /\ parts = NoParts
    BY <1>1, <1>2 DEF ScoreEntry, ScoreHeadhunt, Mode
  <2>2. Total(NoParts) = 0
    BY DEF NoParts, Total
  <2>3. \A part \in DOMAIN NoParts : NoParts[part] <= OutOf[mode][part]
    BY DEF NoParts, OutOf, Mode
  <2> QED
    BY <1>1, <1>2, <2>1, <2>2, <2>3 DEF result
<1>3. CASE result.reason = None /\ mode = "entry"
  <2>1. /\ result.score \in Int
        /\ parts = [location |-> LocationPoints(c), sales |-> SalesPoints(c),
                     entry |-> EntryLevelPoints(c), education |-> EducationPoints(c),
                     contact |-> ContactPoints(c), employer |-> BrokeragePoints(c),
                     platform |-> PlatformPoints(c)]
    BY <1>1, <1>3, EntryScore
  <2>2. Total(parts) \in Int
    BY <2>1, EntryPoints DEF Total
  <2>3. \A part \in DOMAIN parts : parts[part] <= OutOf["entry"][part]
    BY <2>1, EntryPoints DEF OutOf
  <2> QED
    BY <1>1, <1>3, <2>1, <2>2, <2>3 DEF result
<1>4. CASE result.reason = None /\ mode = "headhunt"
  <2>1. /\ result.score \in Int /\ Total(parts) = result.score
        /\ \A part \in DOMAIN parts : parts[part] <= OutOf["headhunt"][part]
    BY <1>1, <1>4, HeadhuntScore DEF OutOf, NoParts
  <2> QED
    BY <1>1, <1>4, <2>1 DEF result
<1> QED
  BY <1>2, <1>3, <1>4 DEF Mode

THEOREM ExplainedWhole == VerdictsSpec => []ExplainedInFull
<1>1. VerdictIs => ExplainedInFull
  <2> SUFFICES ASSUME VerdictIs, verdict # None
               PROVE  LET parts == verdict.result.parts
                          most == OutOf[verdict.mode]
                      IN  /\ \A part \in DOMAIN parts : parts[part] <= most[part]
                          /\ Total(parts) + OtherAdjustments(Profile, verdict.mode)
                                = verdict.result.score
                          /\ verdict.mode = "headhunt" => OtherAdjustments(Profile, "headhunt") = 0
    BY DEF ExplainedInFull
  <2>1. verdict.mode \in Mode /\ verdict.result = ScoreCandidate(Profile, verdict.mode)
    BY DEF VerdictIs
  <2> QED
    BY <2>1, ExplainedOf
<1> QED
  BY <1>1, VerdictStays, PTL

-----------------------------------------------------------------------------
(***************************************************************************)
(* The jobs as the queue promises to run them.  Evaluations keeps only the *)
(* latest job of an application; runs is a history variable beside it: the *)
(* outcome of every run of every job, oldest first, as audit.job_run.      *)
(***************************************************************************)
VARIABLE runs

Jobs == Submission \X (1 .. MaxAssessments)
JobOf(a) == <<a, work[a].attempt>>

\* The n-th job of an application: those before the latest have been retried.
StateOf(row, n) ==
    IF row.status = "none" \/ n > row.attempt THEN "absent"
    ELSE IF n < row.attempt THEN "succeeded"
    ELSE IF row.status \in {"queued", "running"} THEN "open" ELSE row.status

JobState == [j \in Jobs |-> StateOf(work[j[1]], j[2])]

Ledger == INSTANCE JobLedger
    WITH Job <- Jobs, MaxAttempts <- MaxStarts, state <- JobState, history <- runs

\* The steps that end a run, with the outcome run_job or recover_stopped records.
EndsAs(a, outcome) ==
    \/ outcome = "stopped" /\ StopRun(a)
    \/ outcome = "failed" /\ (ProposalRefused(a) \/ CvUnreachable(a))
    \/ outcome = "succeeded" /\ (CommitScore(a) \/ CommitAssessment(a) \/ Retry(a))

Outcome == {"stopped", "failed", "succeeded"}

\* Every step of Evaluations, with its entry if it ends a run.
RunsNext ==
    /\ EvaluationsNext
    /\ \/ \E a \in Submission, outcome \in Outcome :
             EndsAs(a, outcome) /\ runs' = [runs EXCEPT ![JobOf(a)] = Append(@, outcome)]
       \/ (\A a \in Submission, outcome \in Outcome : ~EndsAs(a, outcome)) /\ UNCHANGED runs

RunsSpec ==
    /\ EvaluationsInit /\ runs = [j \in Jobs |-> <<>>]
    /\ [][RunsNext]_<<evaluationsVars, runs>>

\* A job has been started as often as it has runs, and once more while it runs.
StartsAreRuns ==
    /\ runs \in [Jobs -> Seq(Outcome)]
    /\ \A a \in Submission :
          /\ work[a].status = "none" => work[a].attempt = 1 /\ work[a].starts = 0
          /\ \A n \in 1 .. MaxAssessments :
                work[a].status = "none" \/ n > work[a].attempt => runs[<<a, n>>] = <<>>
          /\ work[a].status = "queued" => work[a].starts = Len(runs[JobOf(a)])
          /\ work[a].status = "running" => work[a].starts = Len(runs[JobOf(a)]) + 1

\* What a step does to the one job it is about.
LEMMA JobMoves ==
    ASSUME Types, NEW a \in Submission, NEW row \in WorkRow, work' = [work EXCEPT ![a] = row]
    PROVE  /\ JobState' = [j \in Jobs |-> IF j[1] = a THEN StateOf(row, j[2]) ELSE JobState[j]]
           /\ \A j \in Jobs : j[1] = a => JobState[j] = StateOf(work[a], j[2])
           /\ work[a] \in WorkRow /\ JobOf(a) \in Jobs
           /\ \A b \in Submission : b # a => work'[b] = work[b]
           /\ work'[a] = row
<1>1. work \in [Submission -> WorkRow]
  BY DEF Types, EvaluationsTypeOK, WorkRow
<1>2. /\ work[a] \in WorkRow /\ work'[a] = row
      /\ \A b \in Submission : b # a => work'[b] = work[b]
  BY <1>1
<1>3. JobOf(a) \in Jobs
  BY <1>2 DEF JobOf, Jobs, WorkRow
<1>4. \A j \in Jobs : j[1] \in Submission
  BY DEF Jobs
<1>5. JobState' = [j \in Jobs |-> StateOf(work'[j[1]], j[2])]
  BY DEF JobState
<1>6. \A j \in Jobs : StateOf(work'[j[1]], j[2]) = IF j[1] = a THEN StateOf(row, j[2]) ELSE JobState[j]
  BY <1>2, <1>4 DEF JobState
<1>7. JobState' = [j \in Jobs |-> IF j[1] = a THEN StateOf(row, j[2]) ELSE JobState[j]]
  BY <1>5, <1>6
<1>8. \A j \in Jobs : j[1] = a => JobState[j] = StateOf(work[a], j[2])
  BY DEF JobState
<1> QED
  BY <1>2, <1>3, <1>7, <1>8

\* The fields a step leaves a job's row with, and the run it ends.
LEMMA LedgerRow ==
    ASSUME Types, NEW a \in Submission, NEW outcome, EndsAs(a, outcome)
    PROVE  /\ work[a].status = "running"
           /\ \E row \in WorkRow :
                 /\ work' = [work EXCEPT ![a] = row]
                 /\ \/ /\ outcome = "stopped"
                       /\ row.status = IF work[a].starts >= MaxStarts THEN "failed" ELSE "queued"
                       /\ row.attempt = work[a].attempt /\ row.starts = work[a].starts
                    \/ /\ outcome \in {"failed", "succeeded"} /\ row.status = outcome
                       /\ row.attempt = work[a].attempt
                    \/ /\ outcome = "succeeded" /\ row.status = "queued" /\ row.starts = 0
                       /\ work[a].attempt < MaxAssessments /\ row.attempt = work[a].attempt + 1
<1>1. work \in [Submission -> WorkRow] /\ work[a] \in WorkRow
  BY DEF Types, EvaluationsTypeOK, WorkRow
<1>2. ASSUME NEW status \in {"queued", "succeeded", "failed"}, Ended(a, status)
      PROVE  \E row \in WorkRow :
                 /\ work' = [work EXCEPT ![a] = row]
                 /\ row.status = status /\ row.attempt = work[a].attempt
                 /\ row.starts = work[a].starts
  <2> DEFINE row == [work[a] EXCEPT !.status = status, !.stage = "idle"]
  <2>1. row \in WorkRow /\ work' = [work EXCEPT ![a] = row]
    BY <1>1, <1>2 DEF Ended, WorkRow, JobStatus, Stage
  <2>2. row.status = status /\ row.attempt = work[a].attempt /\ row.starts = work[a].starts
    BY <1>1 DEF WorkRow
  <2> QED
    BY <2>1, <2>2
<1>3. CASE outcome = "stopped" /\ StopRun(a)
  <2>1. work[a].status = "running"
        /\ Ended(a, IF work[a].starts >= MaxStarts THEN "failed" ELSE "queued")
    BY <1>3 DEF StopRun
  <2>2. CASE work[a].starts >= MaxStarts
    BY <1>2, <1>3, <2>1, <2>2
  <2>3. CASE ~(work[a].starts >= MaxStarts)
    BY <1>2, <1>3, <2>1, <2>3
  <2> QED
    BY <2>2, <2>3
<1>4. CASE outcome = "failed" /\ (ProposalRefused(a) \/ CvUnreachable(a))
  <2>1. work[a].status = "running" /\ Ended(a, "failed")
    BY <1>4 DEF ProposalRefused, CvUnreachable, FailRun, RunAt
  <2> QED
    BY <1>2, <1>4, <2>1
<1>5. CASE outcome = "succeeded" /\ (CommitScore(a) \/ CommitAssessment(a))
  <2>1. work[a].status = "running" /\ Ended(a, "succeeded")
    BY <1>5 DEF CommitScore, CommitAssessment, Commits, RunAt
  <2> QED
    BY <1>2, <1>5, <2>1
<1>6. CASE outcome = "succeeded" /\ Retry(a)
  <2> DEFINE row == [NotQueued EXCEPT !.status = "queued", !.attempt = work[a].attempt + 1]
  <2>1. work[a].status = "running" /\ work' = [work EXCEPT ![a] = row]
        /\ work[a].attempt < MaxAssessments
    BY <1>6 DEF Retry, RunAt, Types, Counted
  <2>2. work[a].attempt + 1 \in 1 .. MaxAssessments
    BY <1>1, <2>1, MaxAssessmentsAssumption DEF WorkRow
  <2>3. row \in WorkRow /\ row.status = "queued" /\ row.starts = 0
        /\ row.attempt = work[a].attempt + 1
    BY <2>2, NotQueuedTypes DEF NotQueued, WorkRow, JobStatus
  <2> QED
    BY <1>6, <2>1, <2>3
<1> QED
  BY <1>3, <1>4, <1>5, <1>6 DEF EndsAs

LEMMA JobParts ==
    \A j \in Jobs : j[1] \in Submission /\ j[2] \in 1 .. MaxAssessments /\ j = <<j[1], j[2]>>
BY DEF Jobs

\* StartsAreRuns after a step about one job.
LEMMA RunsAfter ==
    ASSUME Types, StartsAreRuns, NEW a \in Submission, NEW row \in WorkRow,
           work' = [work EXCEPT ![a] = row],
           runs' \in [Jobs -> Seq(Outcome)],
           \A j \in Jobs : j[1] # a => runs'[j] = runs[j],
           row.status = "none" => row.attempt = 1 /\ row.starts = 0,
           \A n \in 1 .. MaxAssessments :
              row.status = "none" \/ n > row.attempt => runs'[<<a, n>>] = <<>>,
           row.status = "queued" => row.starts = Len(runs'[<<a, row.attempt>>]),
           row.status = "running" => row.starts = Len(runs'[<<a, row.attempt>>]) + 1
    PROVE  StartsAreRuns'
<1>1. /\ work'[a] = row
      /\ \A b \in Submission : b # a => work'[b] = work[b]
  BY JobMoves
<1>2. \A b \in Submission, n \in 1 .. MaxAssessments :
          <<b, n>> \in Jobs /\ (b # a => runs'[<<b, n>>] = runs[<<b, n>>])
  BY DEF Jobs
<1>3. work[a].attempt \in 1 .. MaxAssessments
      /\ \A b \in Submission : work[b].attempt \in 1 .. MaxAssessments
  BY DEF Types, EvaluationsTypeOK
<1>4. ASSUME NEW b \in Submission
      PROVE  /\ work'[b].status = "none" => work'[b].attempt = 1 /\ work'[b].starts = 0
             /\ \A n \in 1 .. MaxAssessments :
                   work'[b].status = "none" \/ n > work'[b].attempt => runs'[<<b, n>>] = <<>>
             /\ work'[b].status = "queued"
                   => work'[b].starts = Len(runs'[<<b, work'[b].attempt>>])
             /\ work'[b].status = "running"
                   => work'[b].starts = Len(runs'[<<b, work'[b].attempt>>]) + 1
  <2>1. CASE b = a
    BY <1>1, <2>1
  <2>2. CASE b # a
    <3>1. work'[b] = work[b]
      BY <1>1, <2>2
    <3>2. \A n \in 1 .. MaxAssessments : runs'[<<b, n>>] = runs[<<b, n>>]
      BY <1>2, <2>2
    <3>3. runs'[<<b, work[b].attempt>>] = runs[<<b, work[b].attempt>>]
      BY <1>3, <3>2
    <3> QED
      BY <3>1, <3>2, <3>3 DEF StartsAreRuns, JobOf
  <2> QED
    BY <2>1, <2>2
<1> QED
  BY <1>4 DEF StartsAreRuns, JobOf

\* A run that ends leaves its entry, and none other.
LEMMA RunEnds ==
    ASSUME Types, StartsAreRuns, NEW a \in Submission, NEW outcome \in Outcome,
           runs' = [runs EXCEPT ![JobOf(a)] = Append(@, outcome)]
    PROVE  /\ runs' \in [Jobs -> Seq(Outcome)]
           /\ \A j \in Jobs : j # JobOf(a) => runs'[j] = runs[j]
           /\ JobOf(a) \in Jobs /\ Len(runs[JobOf(a)]) \in Nat
           /\ Len(runs'[JobOf(a)]) = Len(runs[JobOf(a)]) + 1
           /\ runs' = [j \in Jobs |-> IF j = JobOf(a) THEN Append(runs[j], outcome) ELSE runs[j]]
<1>1. JobOf(a) \in Jobs
  BY DEF JobOf, Jobs, Types, EvaluationsTypeOK
<1>2. runs \in [Jobs -> Seq(Outcome)]
  BY DEF StartsAreRuns
<1>3. Append(runs[JobOf(a)], outcome) \in Seq(Outcome)
      /\ Len(Append(runs[JobOf(a)], outcome)) = Len(runs[JobOf(a)]) + 1
      /\ Len(runs[JobOf(a)]) \in Nat
  BY <1>1, <1>2
<1>4. runs'[JobOf(a)] = Append(runs[JobOf(a)], outcome)
  BY <1>1, <1>2
<1> QED
  BY <1>1, <1>2, <1>3, <1>4

\* A run that ends is a stop or the one settling of its job.
LEMMA RunEndsInLedger ==
    ASSUME Types, StartsAreRuns, NEW a \in Submission, NEW outcome \in Outcome,
           EndsAs(a, outcome), runs' = [runs EXCEPT ![JobOf(a)] = Append(@, outcome)]
    PROVE  StartsAreRuns' /\ Ledger!Next
<1> DEFINE attempt == work[a].attempt
<1>1. PICK row \in WorkRow :
          /\ work[a].status = "running"
          /\ work' = [work EXCEPT ![a] = row]
          /\ \/ /\ outcome = "stopped"
                /\ row.status = IF work[a].starts >= MaxStarts THEN "failed" ELSE "queued"
                /\ row.attempt = work[a].attempt /\ row.starts = work[a].starts
             \/ /\ outcome \in {"failed", "succeeded"} /\ row.status = outcome
                /\ row.attempt = work[a].attempt
             \/ /\ outcome = "succeeded" /\ row.status = "queued" /\ row.starts = 0
                /\ work[a].attempt < MaxAssessments /\ row.attempt = work[a].attempt + 1
  BY LedgerRow
<1>2. /\ JobState' = [j \in Jobs |-> IF j[1] = a THEN StateOf(row, j[2]) ELSE JobState[j]]
      /\ \A j \in Jobs : j[1] = a => JobState[j] = StateOf(work[a], j[2])
      /\ work[a] \in WorkRow
  BY <1>1, JobMoves
<1>3. /\ runs' \in [Jobs -> Seq(Outcome)]
      /\ \A j \in Jobs : j # JobOf(a) => runs'[j] = runs[j]
      /\ JobOf(a) \in Jobs /\ Len(runs[JobOf(a)]) \in Nat
      /\ Len(runs'[JobOf(a)]) = Len(runs[JobOf(a)]) + 1
      /\ runs' = [j \in Jobs |-> IF j = JobOf(a) THEN Append(runs[j], outcome) ELSE runs[j]]
  BY RunEnds
<1>4. /\ attempt \in 1 .. MaxAssessments /\ work[a].starts \in 0 .. MaxStarts
      /\ row.attempt \in 1 .. MaxAssessments
      /\ work[a].starts = Len(runs[JobOf(a)]) + 1
      /\ \A n \in 1 .. MaxAssessments : n > attempt => runs[<<a, n>>] = <<>>
  BY <1>1, <1>2 DEF WorkRow, StartsAreRuns
<1>5. /\ JobOf(a) = <<a, attempt>>
      /\ \A n \in 1 .. MaxAssessments : <<a, n>> \in Jobs
      /\ \A n \in 1 .. MaxAssessments : n # attempt => runs'[<<a, n>>] = runs[<<a, n>>]
      /\ \A j \in Jobs : j[1] # a => j # JobOf(a) /\ runs'[j] = runs[j]
  BY <1>3 DEF JobOf, Jobs
<1>6. \A n \in 1 .. MaxAssessments : n > attempt => runs'[<<a, n>>] = <<>>
  BY <1>4, <1>5, MaxAssessmentsAssumption
<1>7. JobState[JobOf(a)] = "open"
  BY <1>1, <1>2, <1>3, <1>4, <1>5 DEF StateOf
<1>8. CASE /\ outcome = "stopped"
           /\ row.status = IF work[a].starts >= MaxStarts THEN "failed" ELSE "queued"
           /\ row.attempt = work[a].attempt /\ row.starts = work[a].starts
  <2>1. StartsAreRuns'
    <3>1. \A n \in 1 .. MaxAssessments :
              row.status = "none" \/ n > row.attempt => runs'[<<a, n>>] = <<>>
      BY <1>6, <1>8
    <3>2. row.status = "queued" => row.starts = Len(runs'[<<a, row.attempt>>])
      BY <1>3, <1>4, <1>5, <1>8
    <3>3. row.status # "none" /\ row.status # "running"
      BY <1>8
    <3> QED
      BY <1>1, <1>3, <1>5, <3>1, <3>2, <3>3, RunsAfter
  <2>2. Ledger!Stop({JobOf(a)})
    <3>1. runs' = [j \in Jobs |-> IF j \in {JobOf(a)} THEN Append(runs[j], "stopped") ELSE runs[j]]
      BY <1>3, <1>8
    <3>2. ASSUME NEW j \in Jobs
          PROVE  JobState'[j] = IF j \in {JobOf(a)} /\ Len(runs[j]) + 1 >= MaxStarts
                                THEN "failed" ELSE JobState[j]
      <4>1. CASE j = JobOf(a)
        <5>1. JobState'[j] = StateOf(row, attempt)
          BY <1>2, <1>5, <4>1
        <5>2. StateOf(row, attempt) = IF work[a].starts >= MaxStarts THEN "failed" ELSE "open"
          BY <1>4, <1>8 DEF StateOf
        <5> QED
          BY <1>4, <1>7, <4>1, <5>1, <5>2
      <4>2. CASE j # JobOf(a) /\ j[1] = a
        <5>1. j[2] \in 1 .. MaxAssessments /\ j[2] # attempt
          BY <1>5, <4>2, JobParts
        <5>2. StateOf(row, j[2]) = StateOf(work[a], j[2])
          BY <1>1, <1>4, <1>8, <5>1, MaxAssessmentsAssumption DEF StateOf
        <5> QED
          BY <1>2, <4>2, <5>2
      <4>3. CASE j[1] # a
        BY <1>2, <1>5, <4>3
      <4> QED
        BY <4>1, <4>2, <4>3
    <3>3. JobState' = [j \in Jobs |-> IF j \in {JobOf(a)} /\ Len(runs[j]) + 1 >= MaxStarts
                                      THEN "failed" ELSE JobState[j]]
      BY <1>2, <3>2
    <3> QED
      BY <1>7, <3>1, <3>3 DEF Ledger!Stop
  <2>3. {JobOf(a)} \in SUBSET Jobs
    BY <1>3
  <2> QED
    BY <2>1, <2>2, <2>3 DEF Ledger!Next
<1>9. ASSUME NEW followUp \in SUBSET Jobs, outcome \in {"failed", "succeeded"},
             outcome = "failed" => followUp = {},
             \A k \in followUp : JobState[k] = "absent" /\ k[1] = a /\ k[2] = row.attempt,
             \A n \in 1 .. MaxAssessments :
                StateOf(row, n) = IF n = attempt THEN outcome
                                  ELSE IF <<a, n>> \in followUp THEN "open"
                                  ELSE StateOf(work[a], n)
      PROVE  Ledger!Next
  <2>1. ASSUME NEW j \in Jobs
        PROVE  JobState'[j] = IF j = JobOf(a) THEN outcome
                              ELSE IF j \in followUp THEN "open" ELSE JobState[j]
    <3>1. CASE j[1] = a
      <4>1. j = <<a, j[2]>> /\ j[2] \in 1 .. MaxAssessments
        BY <3>1, JobParts
      <4>2. j = JobOf(a) <=> j[2] = attempt
        BY <1>5, <4>1
      <4>3. JobState'[j] = StateOf(row, j[2]) /\ JobState[j] = StateOf(work[a], j[2])
        BY <1>2, <3>1
      <4> QED
        BY <1>9, <4>1, <4>2, <4>3
    <3>2. CASE j[1] # a
      BY <1>2, <1>5, <1>9, <3>2
    <3> QED
      BY <3>1, <3>2
  <2>2. JobState' = [j \in Jobs |-> IF j = JobOf(a) THEN outcome
                                    ELSE IF j \in followUp THEN "open" ELSE JobState[j]]
    BY <1>2, <2>1
  <2>3. Ledger!Settle(JobOf(a), outcome, followUp)
    BY <1>7, <1>9, <2>2 DEF Ledger!Settle
  <2> QED
    BY <1>3, <1>9, <2>3 DEF Ledger!Next
<1>10. CASE /\ outcome \in {"failed", "succeeded"} /\ row.status = outcome
            /\ row.attempt = work[a].attempt
  <2>1. StartsAreRuns'
    <3>1. \A n \in 1 .. MaxAssessments :
              row.status = "none" \/ n > row.attempt => runs'[<<a, n>>] = <<>>
      BY <1>6, <1>10
    <3>2. row.status # "none" /\ row.status # "running" /\ row.status # "queued"
      BY <1>10
    <3> QED
      BY <1>1, <1>3, <1>5, <3>1, <3>2, RunsAfter
  <2>2. \A n \in 1 .. MaxAssessments :
            StateOf(row, n) = IF n = attempt THEN outcome ELSE StateOf(work[a], n)
    BY <1>1, <1>4, <1>10, MaxAssessmentsAssumption DEF StateOf
  <2>3. ASSUME NEW n \in 1 .. MaxAssessments
        PROVE  StateOf(row, n) = IF n = attempt THEN outcome
                                 ELSE IF <<a, n>> \in {} THEN "open" ELSE StateOf(work[a], n)
    BY <2>2
  <2>4. Ledger!Next
    <3> HIDE DEF attempt
    <3>1. {} \in SUBSET Jobs
      OBVIOUS
    <3>2. \A k \in {} : JobState[k] = "absent" /\ k[1] = a /\ k[2] = row.attempt
      OBVIOUS
    <3> QED
      BY <1>9, <1>10, <2>3, <3>1, <3>2
  <2> QED
    BY <2>1, <2>4
<1>11. CASE /\ outcome = "succeeded" /\ row.status = "queued" /\ row.starts = 0
            /\ work[a].attempt < MaxAssessments /\ row.attempt = work[a].attempt + 1
  <2> DEFINE next == <<a, attempt + 1>>
  <2>1. attempt + 1 \in 1 .. MaxAssessments /\ next \in Jobs /\ attempt + 1 # attempt
    BY <1>4, <1>5, <1>11, MaxAssessmentsAssumption
  <2>2. runs'[next] = <<>>
    BY <1>4, <1>6, <2>1
  <2>3. StartsAreRuns'
    <3>1. \A n \in 1 .. MaxAssessments :
              row.status = "none" \/ n > row.attempt => runs'[<<a, n>>] = <<>>
      BY <1>4, <1>6, <1>11, MaxAssessmentsAssumption
    <3>2. row.status = "queued" => row.starts = Len(runs'[<<a, row.attempt>>])
      <4>1. runs'[<<a, row.attempt>>] = <<>>
        BY <1>11, <2>2
      <4> QED
        BY <1>11, <4>1
    <3>3. row.status # "none" /\ row.status # "running"
      BY <1>11
    <3> QED
      BY <1>1, <1>3, <1>5, <3>1, <3>2, <3>3, RunsAfter
  <2>4. JobState[next] = "absent"
    <3>1. JobState[next] = StateOf(work[a], attempt + 1)
      BY <1>2, <2>1
    <3>2. attempt + 1 > attempt
      BY <1>4
    <3> QED
      BY <3>1, <3>2 DEF StateOf
  <2>5. ASSUME NEW n \in 1 .. MaxAssessments
        PROVE  StateOf(row, n) = IF n = attempt THEN outcome
                                 ELSE IF <<a, n>> \in {next} THEN "open"
                                 ELSE StateOf(work[a], n)
    <3>1. <<a, n>> \in {next} <=> n = attempt + 1
      OBVIOUS
    <3>2. CASE n > attempt + 1
      BY <1>1, <1>4, <1>11, <3>1, <3>2, MaxAssessmentsAssumption DEF StateOf
    <3>3. CASE n = attempt + 1
      BY <1>1, <1>4, <1>11, <3>1, <3>3, MaxAssessmentsAssumption DEF StateOf
    <3>4. CASE n <= attempt
      BY <1>1, <1>4, <1>11, <3>1, <3>4, MaxAssessmentsAssumption DEF StateOf
    <3> QED
      BY <1>4, <3>2, <3>3, <3>4, MaxAssessmentsAssumption
  <2>6. Ledger!Next
    <3>1. {next} \in SUBSET Jobs
      BY <2>1
    <3>2. \A k \in {next} : JobState[k] = "absent" /\ k[1] = a /\ k[2] = row.attempt
      BY <1>11, <2>4
    <3>3. outcome \in {"failed", "succeeded"} /\ outcome # "failed"
      BY <1>11
    <3> QED
      BY <1>9, <2>5, <3>1, <3>2, <3>3
  <2> QED
    BY <2>3, <2>6
<1> QED
  BY <1>1, <1>8, <1>10, <1>11

\* A job that goes on, or is begun, is as open as it was.
LEMMA RunGoesOn ==
    ASSUME Types, StartsAreRuns, UNCHANGED runs, NEW a \in Submission, NEW row \in WorkRow,
           work' = [work EXCEPT ![a] = row],
           work[a].status \in {"queued", "running"}, row.status = "running",
           row.attempt = work[a].attempt,
           row.starts = IF work[a].status = "queued" THEN work[a].starts + 1 ELSE work[a].starts
    PROVE  StartsAreRuns' /\ UNCHANGED Ledger!ledgerVars
<1>1. /\ JobState' = [j \in Jobs |-> IF j[1] = a THEN StateOf(row, j[2]) ELSE JobState[j]]
      /\ \A j \in Jobs : j[1] = a => JobState[j] = StateOf(work[a], j[2])
  BY JobMoves
<1>2. \A n \in 1 .. MaxAssessments : StateOf(row, n) = StateOf(work[a], n)
  BY DEF StateOf
<1>3. ASSUME NEW j \in Jobs
      PROVE  (IF j[1] = a THEN StateOf(row, j[2]) ELSE JobState[j]) = JobState[j]
  BY <1>1, <1>2, JobParts
<1>4. JobState = [j \in Jobs |-> JobState[j]]
  BY DEF JobState
<1>5. JobState' = JobState
  BY <1>1, <1>3, <1>4
<1>6. runs' \in [Jobs -> Seq(Outcome)]
  BY DEF StartsAreRuns
<1>7. \A n \in 1 .. MaxAssessments : n > row.attempt => runs'[<<a, n>>] = <<>>
  BY DEF StartsAreRuns
<1>8. row.starts = Len(runs'[<<a, row.attempt>>]) + 1
  BY DEF StartsAreRuns, JobOf
<1>9. StartsAreRuns'
  BY <1>6, <1>7, <1>8, RunsAfter
<1> QED
  BY <1>5, <1>9 DEF Ledger!ledgerVars

LEMMA StageGoesOn ==
    ASSUME Types, StartsAreRuns, UNCHANGED runs, NEW a \in Submission, NEW stage \in Stage,
           Goes(a, stage), work[a].status = "running"
    PROVE  StartsAreRuns' /\ UNCHANGED Ledger!ledgerVars
<1> DEFINE row == [work[a] EXCEPT !.stage = stage]
<1>1. work[a] \in WorkRow
  BY DEF Types, EvaluationsTypeOK, WorkRow
<1>2. row \in WorkRow /\ row.status = "running" /\ row.attempt = work[a].attempt
      /\ row.starts = work[a].starts
  BY <1>1 DEF WorkRow
<1>3. work' = [work EXCEPT ![a] = row]
  BY DEF Goes
<1> QED
  BY <1>2, <1>3, RunGoesOn

\* An application submits the first job.
LEMMA ApplicationSubmits ==
    ASSUME Types, StartsAreRuns, UNCHANGED runs, NEW a \in Submission, ApplyTo(a)
    PROVE  StartsAreRuns' /\ Ledger!Next
<1> DEFINE row == [work[a] EXCEPT !.status = "queued"]
           first == <<a, 1>>
<1>1. work[a] \in WorkRow /\ work[a].status = "none"
  BY DEF Types, EvaluationsTypeOK, WorkRow, ApplyTo
<1>2. work[a].attempt = 1 /\ work[a].starts = 0
      /\ \A n \in 1 .. MaxAssessments : runs[<<a, n>>] = <<>>
  BY <1>1 DEF StartsAreRuns
<1>3. row \in WorkRow /\ row.status = "queued" /\ row.attempt = 1 /\ row.starts = 0
  BY <1>1, <1>2 DEF WorkRow, JobStatus
<1>4. work' = [work EXCEPT ![a] = row]
  BY DEF ApplyTo
<1>5. /\ JobState' = [j \in Jobs |-> IF j[1] = a THEN StateOf(row, j[2]) ELSE JobState[j]]
      /\ \A j \in Jobs : j[1] = a => JobState[j] = StateOf(work[a], j[2])
  BY <1>3, <1>4, JobMoves
<1>6. 1 \in 1 .. MaxAssessments /\ first \in Jobs
  BY MaxAssessmentsAssumption DEF Jobs
<1>7. StartsAreRuns'
  <2>1. runs' \in [Jobs -> Seq(Outcome)]
    BY DEF StartsAreRuns
  <2>2. Len(runs'[<<a, row.attempt>>]) = 0
    <3>1. runs'[<<a, row.attempt>>] = <<>>
      BY <1>2, <1>3, <1>6
    <3> QED
      BY <3>1
  <2> QED
    BY <1>2, <1>3, <1>4, <2>1, <2>2, RunsAfter
<1>8. ASSUME NEW j \in Jobs
      PROVE  (IF j[1] = a THEN StateOf(row, j[2]) ELSE JobState[j])
                = IF j = first THEN "open" ELSE JobState[j]
  <2>1. CASE j[1] = a
    <3>1. j = <<a, j[2]>> /\ j[2] \in 1 .. MaxAssessments
      BY <2>1, JobParts
    <3>2. JobState[j] = "absent"
      BY <1>1, <1>5, <2>1 DEF StateOf
    <3>3. StateOf(row, j[2]) = IF j[2] = 1 THEN "open" ELSE "absent"
      BY <1>3, <3>1, MaxAssessmentsAssumption DEF StateOf
    <3> QED
      BY <2>1, <3>1, <3>2, <3>3
  <2>2. CASE j[1] # a
    BY <2>2
  <2> QED
    BY <2>1, <2>2
<1>9. JobState[first] = "absent"
  BY <1>1, <1>5, <1>6 DEF StateOf
<1>10. JobState' = [JobState EXCEPT ![first] = "open"]
  <2>1. JobState = [j \in Jobs |-> JobState[j]]
    BY DEF JobState
  <2>2. JobState' = [j \in Jobs |-> IF j = first THEN "open" ELSE JobState[j]]
    BY <1>5, <1>8
  <2> HIDE DEF first
  <2>3. [JobState EXCEPT ![first] = "open"]
           = [j \in Jobs |-> IF j = first THEN "open" ELSE JobState[j]]
    BY <2>1, <1>6
  <2> QED
    BY <2>2, <2>3
<1>11. Ledger!Submit(first)
  BY <1>9, <1>10 DEF Ledger!Submit
<1> QED
  BY <1>6, <1>7, <1>11 DEF Ledger!Next

\* Every other step leaves the ledger alone.
LEMMA RunsStep ==
    ASSUME Types, StartsAreRuns, RunsNext
    PROVE  StartsAreRuns' /\ (Ledger!Next \/ UNCHANGED Ledger!ledgerVars)
<1>1. CASE \E a \in Submission, outcome \in Outcome :
             EndsAs(a, outcome) /\ runs' = [runs EXCEPT ![JobOf(a)] = Append(@, outcome)]
  BY <1>1, RunEndsInLedger
<1>2. CASE (\A a \in Submission, outcome \in Outcome : ~EndsAs(a, outcome)) /\ UNCHANGED runs
  <2>1. CASE UNCHANGED work
    <3>1. UNCHANGED JobState
      BY <2>1 DEF JobState
    <3>2. StartsAreRuns'
      BY <1>2, <2>1 DEF StartsAreRuns, JobOf
    <3> QED
      BY <1>2, <3>1, <3>2 DEF Ledger!ledgerVars
  <2>2. ASSUME NEW a \in Submission,
               ApplyTo(a) \/ EndApplication(a) \/ RunOf(a) \/ StopRun(a)
        PROVE  StartsAreRuns' /\ (Ledger!Next \/ UNCHANGED Ledger!ledgerVars)
    <3>0. work[a] \in WorkRow
      BY DEF Types, EvaluationsTypeOK, WorkRow
    <3>1. CASE ApplyTo(a)
      BY <1>2, <3>1, ApplicationSubmits
    <3>2. CASE EndApplication(a)
      BY <2>1, <3>2 DEF EndApplication
    <3>3. CASE Begin(a)
      <4> DEFINE row == [work[a] EXCEPT !.status = "running", !.starts = @ + 1, !.stage = "begun"]
      <4>1. work[a].status = "queued" /\ work' = [work EXCEPT ![a] = row]
        BY <3>3 DEF Begin
      <4>2. work[a].starts + 1 \in 0 .. MaxStarts
        BY <3>0, <4>1, MaxStartsAssumption DEF Types, Counted, WorkRow
      <4>3. row \in WorkRow /\ row.status = "running" /\ row.attempt = work[a].attempt
            /\ row.starts = work[a].starts + 1
        BY <3>0, <4>2 DEF WorkRow, JobStatus, Stage
      <4> QED
        BY <1>2, <4>1, <4>3, RunGoesOn
    <3>4. CASE ReadApplication(a) \/ AskLocked(a) \/ ReadCv(a) \/ Match(a)
      <4>1. \E stage \in Stage : Goes(a, stage) /\ work[a].status = "running"
        BY <3>4 DEF ReadApplication, AskLocked, ReadCv, Match, RunAt, Stage
      <4> QED
        BY <1>2, <4>1, StageGoesOn
    <3>5. CASE AskOpenItem(a)
      <4>1. \A scored \in BOOLEAN : OpenAlready(a, scored) \in BOOLEAN
        BY DEF OpenAlready
      <4>2. PICK stage \in {"report asked", "unscored asked"}, told \in BOOLEAN :
                /\ work[a].status = "running"
                /\ work' = [work EXCEPT ![a] = [work[a] EXCEPT !.stage = stage, !.told = told]]
        BY <3>5, <4>1 DEF AskOpenItem, RunAt
      <4> DEFINE row == [work[a] EXCEPT !.stage = stage, !.told = told]
      <4>3. row \in WorkRow /\ row.status = "running" /\ row.attempt = work[a].attempt
            /\ row.starts = work[a].starts
        BY <3>0, <4>2 DEF WorkRow, Stage
      <4> QED
        BY <1>2, <4>2, <4>3, RunGoesOn
    <3>6. CASE CommitScore(a) \/ CommitAssessment(a) \/ Retry(a)
      BY <1>2, <3>6 DEF EndsAs, Outcome
    <3>7. CASE ProposalRefused(a) \/ CvUnreachable(a)
      BY <1>2, <3>7 DEF EndsAs, Outcome
    <3>8. CASE StopRun(a)
      BY <1>2, <3>8 DEF EndsAs, Outcome
    <3> QED
      BY <2>2, <3>1, <3>2, <3>3, <3>4, <3>5, <3>6, <3>7, <3>8 DEF RunOf
  <2>3. ASSUME NEW c \in Submitter, Withdraw(c) \/ Lift(c) \/ UploadCv(c)
        PROVE  UNCHANGED work
    BY <2>3 DEF Withdraw, Lift, UploadCv
  <2>4. ASSUME NEW item \in Items, ResolveItem(item)
        PROVE  UNCHANGED work
    BY <2>4 DEF ResolveItem
  <2> QED
    BY <2>1, <2>2, <2>3, <2>4 DEF RunsNext, EvaluationsNext
<1> QED
  BY <1>1, <1>2 DEF RunsNext

LEMMA RunsInit ==
    ASSUME EvaluationsInit, runs = [j \in Jobs |-> <<>>]
    PROVE  StartsAreRuns /\ Ledger!Init
<1>1. \A a \in Submission : work[a] = NotQueued
  BY DEF EvaluationsInit
<1>2. NotQueued.status = "none" /\ NotQueued.attempt = 1 /\ NotQueued.starts = 0
  BY DEF NotQueued
<1>3. runs \in [Jobs -> Seq(Outcome)]
  OBVIOUS
<1>4. \A a \in Submission, n \in 1 .. MaxAssessments : runs[<<a, n>>] = <<>>
  BY DEF Jobs
<1>5. StartsAreRuns
  BY <1>1, <1>2, <1>3, <1>4 DEF StartsAreRuns
<1>6. JobState = [j \in Jobs |-> "absent"]
  BY <1>1, <1>2 DEF JobState, StateOf, Jobs
<1> QED
  BY <1>5, <1>6 DEF Ledger!Init

(***************************************************************************)
(* The jobs of score_application and assess_application keep to what the   *)
(* queue promises (JobLedger, which JobQueue implements): the run counter  *)
(* that fails a job after MaxStarts lost workers counts the entries of     *)
(* audit.job_run, a job settles once, and the job a retry queues appears   *)
(* with the success of the one that asked for it.                          *)
(***************************************************************************)
THEOREM JobsKeepTheLedger == RunsSpec => Ledger!Spec
<1> DEFINE RunsInv == Types /\ StartsAreRuns
<1>1. EvaluationsInit /\ runs = [j \in Jobs |-> <<>>] => RunsInv /\ Ledger!Init
  BY TypesInit, RunsInit
<1>2. RunsInv /\ [RunsNext]_<<evaluationsVars, runs>>
         => RunsInv' /\ [Ledger!Next]_(Ledger!ledgerVars)
  <2> SUFFICES ASSUME RunsInv, [RunsNext]_<<evaluationsVars, runs>>
               PROVE  RunsInv' /\ [Ledger!Next]_(Ledger!ledgerVars)
    OBVIOUS
  <2>1. CASE RunsNext
    BY <2>1, RunsStep, TypesStep DEF RunsNext
  <2>2. CASE UNCHANGED <<evaluationsVars, runs>>
    <3>1. UNCHANGED <<work, runs>>
      BY <2>2 DEF evaluationsVars
    <3>2. UNCHANGED JobState
      BY <3>1 DEF JobState
    <3>3. StartsAreRuns'
      BY <3>1 DEF StartsAreRuns, JobOf
    <3>4. Types'
      BY <2>2 DEF evaluationsVars, Types, EvaluationsTypeOK, Counted
    <3> QED
      BY <3>1, <3>2, <3>3, <3>4 DEF Ledger!ledgerVars
  <2> QED
    BY <2>1, <2>2
<1> QED
  BY <1>1, <1>2, PTL DEF RunsSpec, Ledger!Spec
=============================================================================
