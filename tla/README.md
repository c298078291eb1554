# TAI Talent AI: the specifications

TLA+ models of the hiring platform in `src/`, checked with TLC on small
instances and, for the safety properties, proved with TLAPS for every instance.
Paths below are relative to the repository's root, where the Python packages are
under `src/` and the database's triggers under `migrations/versions/`.

Everything the platform decides, it decides in PostgreSQL at READ COMMITTED:
an API request is one transaction, so is a job's work, and the rules sit in
triggers and unique indexes. What can go wrong is therefore rarely inside one
function. It is between two statements of a transaction while another commits,
between a commit and the crash that follows it, and between a lock and the
session that is supposed to hold it. The models are about those places.

## 1. The system's parts

| Part | State it keeps | Operations | Talks to |
|---|---|---|---|
| **Job queue** `src/jobs` | `jobs.job` (status, attempts, run_after), `audit.job_run`; row locks and session advisory locks | enqueue, claim, run, record, recover stopped jobs | every part that queues work |
| **Pipeline** `src/pipeline`, migration 0005 | openings, applications, moves, review items and resolutions, step lists | apply, move, propose, confirm, dismiss, reverse, close, load a list | API requests and scoring/assessment jobs write it; events are written by its triggers |
| **CRM events** `src/integrations`, migration 0007 | `integration.event`, `delivery_attempt` | triggers insert events; senders deliver; the feed lists | the CRM, over HTTP |
| **CV intake** `src/intake` | uploads, consents, captured files, reading attempts, extracted fields | receive, read (with retries and a limit of slots), settle abandoned, read again with another reader, correct by hand | blob store, OCR/extraction service, job queue |
| **AI assessment** `src/assess` | assessments, and review items on an application | assess an application; open an item for a person | matching service, job queue, pipeline |
| **Scoring** `src/scoring` | evaluations, borderline items | score an application, propose a rejection | job queue, pipeline |
| **Candidates** `src/candidates` | joins of duplicates, withdrawals, archive | join, undo, withdraw, lift, resolve a check, search | API |
| **API** `src/api` | idempotency keys; rate limits in memory | routes | all of the above |
| **Operations** `src/ops` | retention policy, erasures; a directory of dumps | erase, delete files; take, check, prune and drill backups; watch, preflight | database, blob store |
| **Importer** `src/importer` | imported rows | import the master workbook, again after edits; count it | database, blob store |
| **Replay, reports** | none | read-only computations | database |
| **Auth, config, db, infra, web** | none shared | adapters and a browser client | libraries |

What is hard, and what makes each part correct:

* **Job queue.** A worker has two connections; a crash ends their sessions in
  either order, perhaps with a COMMIT in flight; recovery by another worker
  guesses from a free lock that a job was abandoned. Correct when no two workers'
  work on a job reaches the database, every counted run is recorded, the record
  explains the status, and every job settles.
* **Pipeline.** Triggers read what has been committed, some before they lock and
  some without a lock. Correct when each committed move, proposal and decision is
  legal where it lands in the record, a candidate has one live application per
  opening, a confirmed rejection is that rejection, and requests do not deadlock.
* **Events.** A sender holds a lock in a transaction while it waits for the CRM;
  ids are given out before commits. Correct when nothing is recorded as
  delivered that was not, no two senders send one event, every event is tried
  out, and who reads the feed misses nothing and sees moves in order.
* **Intake.** A failed reading queues its own successor, a person takes over when
  attempts run out, a CV in the middle of that must not be given up, and the
  reader in force can change at any point. Correct when attempts do not fork
  and every CV ends in fields or with a person.
* **Assessment, scoring.** Jobs of one candidate overlap, withdrawals and
  resolutions commit while they run, the matching service comes and goes.
  Correct when every application's work ends and an assessed one reaches a person;
  nobody should be scored under a withdrawal (finding 7). A score's parts, total, tier
  and line must agree.
* **Candidates.** Overlapping joins must leave groups one level deep, a join
  answers its match, groups of duplicates hold who can be reached and nobody
  else, the last check of a field closes its item.
* **API.** Every route asks on its own who may see what; together they must
  say nothing about a record out of sight, and the queue must lead somewhere. A
  repeated idempotency key gets the first answer and does nothing. A walk over
  pages misses nothing while rows come and go.
* **Operations.** Erasure commits first, the blobs go after: a crash between
  them. Backups overlap, skip their check and stop half way; the last good one must stay.
* **Importer.** The workbook is edited between imports, people check and
  erase what it brought in: the count must say so.

`PROJECT.json` lists each hazard at its line, with the properties that answer it.

## 2. Modules

| Module | Models | Kind |
|---|---|---|
| `JobQueue` | `src/jobs/queue.py`, the loop of `src/jobs/__main__.py`, `guard_job` of migration 0004 | detailed |
| `JobLedger` | what the queue promises: submitted, stopped some times, settled once | abstract |
| `Pipeline` | `src/pipeline/store.py`, `lists.py`, the triggers of migrations 0005 and 0010 | detailed |
| `PipelineRecord` | what the record promises: each entry legal after those before it | abstract |
| `EventDelivery` | `src/integrations/webhooks.py` | detailed |
| `EventLog` | what the CRM is promised about events and the attempts at them | abstract |
| `EventFeed` | the writing of events (0007) and `src/integrations/events.py` | detailed |
| `Reading` | `src/intake/reading.py`, `uploads.py`, `records.py`, `_recover` of `src/jobs/__main__.py`, the keys of migrations 0010 and 0016 | detailed |
| `IntakeRecord` | what is promised about CVs: asked, answered once for each reader, flagged, or given up when nothing is left | abstract |
| `Evaluations` | `src/scoring/platform.py`, `src/assess/worker.py`, `open_ai_review_item`, withdrawals as they meet jobs | detailed |
| `ScoringRules` | the criteria of `rulesets/v2026_08_04.py`, `borderline.py`, `explain.py` | functions |
| `Verdicts` | a candidate's evaluation as more becomes known (`mapping.py`, `score_application`) | detailed |
| `Visibility` | `src/pipeline/access.py`, `src/candidates/reads.py`, `queue.py`, `reviews.py`, `documents.py`, `withdrawal.py`, `src/integrations/events.py` and the routes over them | detailed |
| `Retries` | `src/api/idempotency.py` | detailed |
| `Paging` | `src/api/pages.py` and the list queries | detailed |
| `Duplicates` | `src/candidates/duplicates.py`: keys, pairs, groups | detailed |
| `Joins` | `src/candidates/joins.py`, `duplicates.record`, the trigger of migration 0012 | detailed |
| `Checks` | `verify_field`, `close_checked_candidate` of `src/intake/manual.py` | detailed |
| `Retention` | `src/ops/retention.py`, migration 0014, `src/intake/public_apply.py`, the writes of `read_cv` | detailed |
| `Imports` | `src/importer/tai_master.py`, `rows.py`, `reconcile.py` | detailed |
| `Backups` | `src/ops/backup.py` | detailed |
| `OpeningLoads` | `src/pipeline/load_openings.py` | detailed |
| `Absent`, `Choice` | `None`, and a chain of early returns | helpers |
| `MC...` | instances for TLC | |
| `MCParts`, `MCWorkers` | the smaller parts, and the two worker loops, side by side, one at a time | composition |
| `...Proofs` | theorems and proofs | |

### JobQueue

The table's columns are functions of the job (`status`, `attempts`, `delayed` for
a future `run_after`), `runs` is `audit.job_run`. `rowLock` and `advisory` are the
two kinds of lock; `lockUp` is the lock connection's session. A worker's `phase`
is how far the work connection has come and outlives the process (`alive`): a
COMMIT the server has received still takes effect after a crash. `Pick`,
`LockJob`/`LockRefused`, `ClaimCommit` are the statements of `claim`; `Finish`,
`FinishRefused`, `WorkCommit`, `Release` those of `run_job` and `work_one`;
`Scan`, `LeaveAlone`, `HoldStopped`, `MarkStopped`, `RecoverCommit` those of
`recover_stopped`. `GuardAllows` is the trigger that judges status changes.
A handler is its outcome and at most one follow-up job, queued in its savepoint.
Priorities and job kinds are data except that some kinds have no handler
(`Foreign`), and a worker may have been started for one job (`OneShot`).

### Pipeline

A person (or the scoring worker) has one request at a time. `txn` is what the
request's open transaction is about to write or has inserted, `phase` how far it
has come: a statement reads what is committed when it starts, and an insert is
seen by others at the COMMIT. `AskMove` is where `check_move`'s DECLARE reads the
list in force, before the lock; `InsertMove` is the lock, the judgement
(`MayMove`) and the insert; `CommitMove` the COMMIT. A confirmation reads item,
step and list (`AskConfirm`), then inserts its move (`DeclareMove`, `InsertMove`),
then its resolution (`InsertResolution`). Unique indexes are the waits for and
refusals by `Inserting` rows. List contents are constants (`AllowedMove`, ...),
constrained by `ListAssumption`, which states what the list tables' keys and
triggers enforce. Loads of a step list happen one at a time (an operator's command).
Owners, teams and access scopes are data: they only narrow who may ask.

### EventDelivery and EventFeed

`EventDelivery`: a sender reads up to `CandidatesPerCheck` due rows (`Look`),
takes the advisory lock of one (`TryLock`, `SkipLocked`), looks again (`Post`,
`NoLongerDue`), posts while its transaction is open (`Answered`) and records
(`Record`). `received` is what the CRM has, whatever it was heard to answer. Time
is two flags of an event: `waiting` (the gap after its last attempt) and `expired`
(its 24 hours). `MaxTries` stands for the number of attempts the real gaps leave
room for in 24 hours: they fall at 0, 1 min, 6 min, 36 min, 2 h 36, 8 h 36,
14 h 36 and 20 h 36, eight in all. `--event` and `--once` are a sender with
fewer events and one that stops.

`EventFeed`: events get ids in order when they are inserted (`Move`, `Other`) and
are seen at `Commit`; `Move` holds the application's lock to the end. `Read` gives
a reader one page above the last id it processed. The feed's 30 days and types are
filters on data; whose events it shows whom is `ListEvents` of `Visibility`.

### Reading

`Receive` is `receive_cv` up to its decision to queue a reading, `ReceiveCommit` its
COMMIT; an upload that queues nothing changes nothing here, and overlapping uploads
of a file that is known decide as successive ones do. `job` holds the unsettled
`read_cv` jobs. `Claim`, `AlreadyRead`, `WaitForSlot`, `TakeSlot`, `Retry`, `Record`,
`Commit` are the branches of `read_cv` in the worker's transaction; a retry or a wait
for a slot queues its successor where the job is settled (`Requeued`). `Record` is
the INSERT: its row is in `readings` with `by` set to the worker until the COMMIT, and
others' inserts of the same key wait for it. `SettleScan`, `SettleNext`,
`SettleCommit` are `settle_abandoned`: a query, then an insert for each file, with
other workers' COMMITs between. `configured`, `inForce` and `reader` are the setting and
what the API and each worker took up when they last started. Uploads, jobs and
readings keep nothing of the CV but its file. Of the queue it uses what `JobQueue`
establishes: a job is in one worker's hands at a time, and its work is kept with its
settling or not at all. Three places allow more than the code does: a stopped job may be failed
for good after any number of runs, a delay (`run_after`) may be of any length, and
ids of settled jobs are used again.

### Evaluations, ScoringRules and Verdicts

An application has one job at a time (`work`): the trigger of migration 0019
queues it with the application, a retry queues its successor. A run's statements
are steps (`ReadApplication`, `AskLocked`, `CommitScore`; `ReadCv`, `Match`,
`AskOpenItem`, `CommitAssessment`, `Retry`), so that withdrawals, decisions and other
jobs commit in between; what it writes appears with its COMMIT. `StopRun` and
`FailRun` are what the queue makes of a worker that stops and a handler that
raises. The service's answer is an outcome. `before` only remembers which items were
resolved before an application came. The scorer itself is `ScoringRules`: a profile is what it can tell
apart of a candidate (which lists the texts match, the numbers), each `_score_*`
method an operator. `Verdicts` lets columns become known one at a time, then scores.

### Visibility, Retries and Paging

In `Visibility` each route is an operator that gives its answer as a chain of
refusals, in the order of the code's early returns (`Answer`), and each list an operator
that gives its rows; the requests that change records are actions guarded by the same
operators. `ListEvents` is the feed, which has a recruiter's scope and asks nothing about
withdrawals; it shows the events of applications and, to who sees all, of scores. Overlap of
requests is left to the other modules. `Retries` has the
statements of `respond` as steps: advisory lock, lookup, replay or work, COMMIT; any
of them may break. `Paging` has one walk over ids that appear and vanish.

### Duplicates, Joins and Checks

`Duplicates`: records are sets of pieces (what stands in which column, as what, with
which key); `Scan` reads them and finds pairs, `TakePair` is one union. `Joins` and
`Checks` have each statement of their transactions as a step: `AskMatch`,
`CheckJoin` (the trigger), `InsertJoin` (the index), `FindItem`, `AnswerItem`,
`CommitJoin`; `InsertCheck`, `CountUnchecked`, `InsertResolution`, `CommitCheck`.
Waiting for a unique key is a guard. `unseen` and `overlapped` remember which
transactions did not see each other.

### Retention, Imports, Backups and OpeningLoads

`Retention`: candidates arrive, apply and withdraw, and their CVs are read
(`BeginReading`, `CommitReading`: the file is fetched, the answer is kept with its fields,
with other COMMITs between), while runs of the eraser look for
who is due (`Look`), empty their records one by one in one transaction
(`EraseCandidate`, `CommitErasure`) and delete files one by one (`DeleteFile`); a run
may stop anywhere. `EraseCandidate` fails where the code's does: for a second candidate of
a transaction, for one who is erased, and for one with an answered reading (`answered`),
since the table demands the answer that the function takes away. `Legible` are the candidates
whose CV a reader makes something of: all the others are those that can be erased at all.
A clock counts months up to `MaxMonths`. `Imports`: the workbook is
a function from row numbers to cells; reading the rows, hashing the file and the
transaction are three steps; `CountsMatch` is `reconcile`, which writes down what
the database should hold a second time. `Backups`: a take dumps, writes its file,
counts the tables, restores unless `--no-verify`, writes its manifest and prunes; `dumps` says
of each file in the directory what its manifest says of the check: there is none, it was not made, or it
succeeded (`"restored"`). `skipped` and `outrun` remember which takes have pruned. `OpeningLoads`: a load lists what is open, then posts
line by line; a post may outlive its client (`adrift`).

## 3. What is checked

| Run | Instance | Properties | Shows |
|---|---|---|---|
| `workers`: job workers | 2 workers (one one-shot), 3 jobs (one foreign), 2 attempts, 3 faults | `NeverRunTwice` | no two workers' work on one job can both reach the database |
| `workers`: senders | 2 senders, 2 events, 2 tries, 1 fault, fair | `TypeOK`, `SentAlone`, `ImplementsLog`, `EveryEventTriedOut` | locks, stale rows and faults do not falsify the record or starve an event |
| `jobs_ledger` | 2 workers, 2 jobs, 2 attempts, 2 faults of every kind, fair | `TypeOK`, `RunsMatchAttempts`, `HistoryExplainsStatus`, `ImplementsLedger`, `EveryJobSettles`, `LocksComeFree` | the record is true and complete whatever fails; every job settles |
| `jobs_lock_lost` | 2 workers, 2 jobs, 1 fault: the lock connection may be lost alone | `NeverRunTwice` is violated | finding 1 |
| `pipeline`: decisions, lists | 2 people, 1 application, 2 proposals with one list, or 1 with 2 lists; fair | `TypeOK`, `ConfirmedIsTheRejection`, `ImplementsRecord`, `EveryRequestEnds` | overlapping moves and decisions are legal where they land |
| `pipeline`: requests | 2 people, 3 application ids, 1 candidate, 1 opening; fair | `OneLiveApplication`, `ReopenedOnce`, `ImplementsRecord`, `EveryRequestEnds` | overlapping applications and reversals; nobody waits for ever |
| `pipeline_closed` | 1 person, 1 opening | `ClosedTakesNone` is violated | finding 2 |
| `parts`: feed | 4 events, 2 applications | `MovesReadInOrder` | who follows the feed reads moves in order |
| `parts`: assessments, scorings | 2 assessments of 1 candidate, 1 scoring; 2 attempts, 2 starts; fair | `AssessmentReachesAPerson`, `EveryApplicationSettles` | overlapping jobs, withdrawals, resolutions and retries lose nobody |
| `parts`: visibility | 5 people of 4 roles, 2 candidates | `OutOfSightReadsAsMissing`, `QueueLeadsSomewhere` | the routes and lists that are to say nothing of a record out of sight say nothing; the queue leads somewhere |
| `parts`: retries | 4 attempts, 1 key, 2 bodies | `OncePerKey`, `AnswersAreOfTheRequest` | one creation per key, and answers true to the request |
| `parts`: paging | 5 ids, pages of 2, both directions | `WalkMeetsEveryRowOnce` | no row twice, none missed, an end |
| `parts`: joins | 3 records, 1 match, 2 joins at once | `GroupsAreOneLevel`, `JoinAnswersItsMatch` | groups one level deep but for joins that overlapped |
| `parts`: checks | 2 fields, 2 people | `LastCheckClosesTheItem` | the item closes but for checks that overlapped |
| `parts`: duplicates | 3 records, 5 pieces, keys shared by 2 at most | `GroupsAreTheReachable` | groups do not depend on the order of pairs |
| `parts`: retention | 2 applicants, 1 with a legible CV, 2 runs | `DataGoesWithItsErasure` | files go after and with an erasure that succeeds, wherever runs stop |
| `parts`: verdicts | 22 facts, 3 at a time, both tracks | `NearOneLine`, `ExplainedInFull` | line, tier, parts and total agree |
| `parts`: imports | 2 rows, 5 kinds of cells, 1 edit, 1 check | `CountExplainsEveryDifference` | the count matches exactly when nothing differs |
| `parts`: backups | 2 takers, 3 dumps, 2 kept, any of them without the check | `AProvedBackupStays` | pruning leaves a restored backup, but for takes outrun or without the check |
| `parts`: openings | 2 lines, 2 loads | `NoJobLoadedTwice` | loading again creates nothing new |
| `retention_batch` | 2 applicants, no CV read, 1 run | `RunErasesWhatIsDue` is violated | finding 5 |
| `retention_answer` | 1 applicant, whose CV is read, 1 run | `ErasedOneAtATime` is violated | finding 6 |
| `assessed_while_locked` | 1 application, not for sales; withdrawals only while no run is at work | `NotScoredWhileLocked` is violated | finding 7 |
| `event_feed_skips` | 2 events, 2 applications | `ResumeMissesNothing` is violated | finding 3 |
| `cv_reading` | 2 workers, 1 slot, 1 file uploaded twice, 2 readers, 2 attempts, 1 fault, fair | `TypeOK`, `OneJobPerRequest`, `ImplementsIntake`, `EveryCvAnswered` | attempts never fork, the record of a CV is true, every CV is answered |
| `cv_reread` | the same without faults | `RereadIsQueued` is violated | finding 4 |

**The run `parts`.** The parts in it share no variable and no step, so a product would
multiply their states and say nothing more: a behaviour is one of one part (`part` is
chosen at the start), the others stay where they began. It is one run of 188,894
distinct states. Its bounds beyond the constants are in `MCParts`, each a conjunct on a
part's steps: `ScopeOnly` (the assessments' candidate does not withdraw, which no
step of an assessment asks about; the scored one does), `SecondIsPlain` (the second
candidate only has what joining needs; two items at a time, proposals of one recruiter), `SecondOnlySends` (of the
second applicant only a file; withdrawals and readings begin before the first run, the second run
begins during it, for the first applicant, after the month has passed), `OneAsksToStop` and the pieces a record may hold (each way to be linked
once), `FirstIsFirst` and that the third record is not joined into (symmetric cases
left out), `FewWrites` (a table only fills, before the deployment's take),
`ThirdIsEdited` (one row is edited, the other is moved, checked or erased), `FewOpen`
(two openings of a line are one too many). Larger instances were checked once by hand
and hold as well: `Imports` with two edits (3.6 million states), `Backups` with four
dumps and any writes (16.7 million), `Verdicts` with four facts.

Two assessments of one candidate are the pair that looks for one another's item;
two attempts and two starts reach both sides of the limits. Five people are two
recruiters and one of each other role. Five ids with pages of two make three pages with
rows coming and going on either side. Three records make a chain of two joins, or of two
duplicates. Two runs of the eraser overlap, one per stop. Three facts at a time fill
every part of a score beside two others, and cover each pair of rules that meet in
one operator. Three dumps of which two are kept let two takers outrun one another; two rows let a table
be written between its dump and its count without having been empty.

**The runs `workers` and `pipeline`** are put together in the same way: a behaviour of
`workers` is one of the senders or one of the job workers (606,278 states); one of `pipeline`
stays in one of three scopes, each of which has what the others leave out: two proposals,
a second list, or several applications and a closing (194,543 states). `JobQueue`'s liveness and its
record are checked in `jobs_ledger`, where every fault may happen, on two jobs.

**The bounds of the others.** Two workers, senders or people are enough for every pairwise race;
each protocol's lock is between a pair (one holds, one waits), and the proofs
remove the bound for the safety properties. Two attempts reach both sides of
`MAX_ATTEMPTS`. Three faults let a worker and the one that recovers after it both
die and a third recovery be disturbed; two are enough to kill both workers at one
job in the run with liveness. Three applications make a chain of two reversals.
Two candidates per look with two events let one sender hold a row that the other
has already dealt with. Four events are two moves of one application with another
application's moves between. One CV is enough for the intake, whose CVs meet only in the queue and at
the slots: two requests for it with one slot are two jobs that wait for each other, and three
ids leave room for the successor of each. Two attempts are one retry and one failure
that is recorded; an answer with hidden content goes through every branch an answer
without takes. With two events and two candidates per look, a sender
whose due events are all held by others is not reached. No run uses symmetry. The unbounded counters are bounded by the sets of ids
and by `MaxFaults`, `MaxDeploys`, `MaxAttempts` and `MaxTries`.

`CHECK_DEADLOCK FALSE` appears where the ids run out, and in `parts` and the runs about
retention and a withdrawal, whose people need not do anything: with every application
decided, or every event delivered or parked, there may be nothing left to do.
`jobs_ledger` and `jobs_lock_lost` check deadlock: a worker always has its next loop.

**Fairness.** A process that lives takes its next step, a dead process's sessions
end, and the supervisor starts it again (`restart: unless-stopped`,
`deploy/compose.prod.yaml:134-156`). Handlers return or raise: their calls to other
services have time-outs; a POST to the CRM ends after ten seconds. Locks are
queued for in order by PostgreSQL, so waiting for one is strongly fair. In
the queue, `Pick` is strongly fair: a worker that finds a claimable job again and
again does not always find it locked at that instant. In `Reading` a claim of each job is
strongly fair, since `claim` takes the oldest first, and recovery and settling are as well:
the loop calls them every minute (`RECOVER_EVERY_SECONDS`). In `Evaluations` a run that
is queued or under way takes its next step; it may be stopped, but only `MaxStarts`
times, as the queue counts. Never assumed: that anybody
submits anything, that the CRM answers, that there is no fault (their number is
finite in an instance).

Each property of a passing run has a mutant in `PROJECT.json`: a plausible bug in
the code (a guard dropped, a lock released early, an outcome not recorded), which
makes TLC find the property violated. The mutants are defined in the modules,
before the definition they change.

### Findings

1. *"Two workers never run the same one"* (`src/jobs/queue.py:3-4`) does not hold
   if the lock connection, idle while the work runs on the other, is lost alone:
   recovery requeues the job, a second worker runs it alongside the first
   (`jobs_lock_lost`). `jobs_ledger` shows that at most one of the two outcomes is
   recorded all the same, because `guard_job` refuses the other.
2. *"A closed requisition takes no applications"* (`docs/api/API_PLAN.md:249`): an
   application inserted while the opening is open can commit after its closing,
   since `check_application` reads the status without locking the row
   (`pipeline_closed`).
3. *"a caller resumes from the last event it processed"*
   (`src/integrations/events.py:42`): a transaction with a lower event id that
   commits after a higher one has been read is never seen (`event_feed_skips`).
4. *"a re-read has already been queued, so it reads as still processing"*
   (`src/intake/uploads.py:128`): only an upload queues a re-read. A CV answered before
   the reader in force changed, or by a worker not yet restarted, is shown as
   processing while no job will read it (`cv_reread`). The same states are
   reached for good when the reader is changed and changed back: an upload queues a
   re-read, which finds its reader's old answer (`reading.py:174`) and does nothing.
5. *"Erases everything whose time is up"* (`src/ops/retention.py:194`): a run erases all
   due candidates in one transaction, and `core.erase_candidate` creates a temporary table
   that lasts to its end (`0014_retention.py:173`). With two candidates due the second
   fails, everything is rolled back and nobody is erased (`retention_batch`).
6. *"What erasure removes: every field value, the original CV and the reader's answer to
   it"* (`docs/ops/RUNBOOK.md:218`; `src/ops/retention.py:12` says the same): for a candidate
   whose CV was read, nothing can be removed. `core.erase_candidate` sets the reading's
   `answer_capture_id` to NULL (`0014_retention.py:197-198`), which the table's CHECK refuses
   of a reading with outcome `read` (`0010_cv_intake.py:170`). The erasure is rolled back, and
   with it those of everybody else the run had to erase (`retention_answer`). So
   `DataGoesWithItsErasure` is about candidates whose CV was not read, or is read
   by a job that had begun when the record was emptied.
7. *"While the withdrawal stands, the record is ... not scored"*
   (`src/candidates/withdrawal.py:7-8`; `0013_consent_withdrawal.py:5-7`):
   an assessment job never asks. The CV of a candidate who withdrew before the run began is sent to the
   matching service and an evaluation is written (`assessed_while_locked`).

Also met while modelling. No run is about these; where a property comes near one, its
statement excepts it in so many words:

* Joins that overlap can make a group of two levels; last checks that overlap leave
  the item open; assessment jobs without a score that overlap open two items; all three
  triggers or queries read without a lock. The properties name the overlaps.
* Scoring asks once whether a candidate is locked, so a withdrawal after that does
  not stop it; what was not scored while locked is not scored after the lifting. A broken blob store or missing settings fail an
  assessment for good with no item.
* `create_application`, `undo_join`, and the other records named by a group or a match
  answer about records out of sight. The feed (`src/integrations/events.py:48-52`) keeps a
  recruiter's scope but does not ask about withdrawals, and neither does the webhook's query (99-117 of
  `webhooks.py`): the events of a candidate who has withdrawn are listed and sent, although the record is
  said to be "not listed" (`0013_consent_withdrawal.py:5-7`) and to exist for nobody but an admin
  (`src/api/withdrawal_routes.py:5-6`). `OutOfSightReadsAsMissing` excepts exactly that.
* After an erasure, importing the unchanged workbook writes the fields back; the record
  cannot be erased again. The workbook's own capture is never erased,
  nor is the form of the careers page, kept as a capture of its own
  (`src/intake/public_apply.py:201-210`) that is none of those `core.erase_candidate` collects (172-181). An application
  with an old upload gives an erased record values again. A run that stops after its
  COMMIT leaves files that nothing deletes later; a file sent again before its deletion
  is lost. A candidate with one ended and one live application counts as rejected, and
  can be due, although "Nothing is erased while a candidate is still in the process"
  (`docs/retention/proposed-2026-09-17.json`).
* `erase --candidate` without a policy gives the reason `retention`, which the table
  refuses (`0014_retention.py:99`).
* A score written with a comma is imported and then counted as a difference. A row is
  known by its position: one put in above others makes their people anew.
* A backup's row counts are taken after its dump: a table that got its first row in
  between makes a good dump look incomplete. Dumps of failed takes count towards `--keep`,
  and so do those of `--no-verify` (`backup.py:205`, used at `docs/ops/RUNBOOK.md:148`): as many of
  these as are kept remove every dump that was ever restored.
* A post of `load_openings` that commits after the next load has read the list makes
  a second opening: the client has given up after 30 seconds, or was answered 502 or 504 by a gateway
  (`load_openings.py:195-203`), while the API still works on it.

## 4. What is proved

`THEOREM Spec => ...`, for any sets of workers, jobs, people, lists, applications,
senders and events, and any bounds.

| Theorem | Statement | Module |
|---|---|---|
| `TypeCorrect` | `[]TypeOK` | `JobQueueProofs` |
| `Exclusion` | `[]NeverRunTwice`, when no lock connection is lost alone (`~LockLoss`) | |
| `RunsAccounted`, `StatusExplained` | `[]RunsMatchAttempts`, `[]HistoryExplainsStatus`, with every fault | |
| `Refinement` | `ImplementsLedger` | |
| `TypeCorrect` | `[]TypeOK` | `PipelineProofs` |
| `OneLiveApplicationCorrect`, `ReopenedOnceCorrect`, `ConfirmedIsTheRejectionCorrect` | the three invariants | |
| `PipelineImplementsRecord` | `ImplementsRecord` | |
| `DeliveryTypes`, `SentAloneCorrect` | `[]TypeOK`, `[]SentAlone` | `EventDeliveryProofs` |
| `DeliveryImplementsLog` | `ImplementsLog` | |
| `FeedTypes`, `MovesInOrderCorrect` | the feed's types, `[]MovesReadInOrder` | `EventFeedProofs` |
| `ReadingTypes`, `AttemptsNeverFork` | `[]TypeOK`, `[]OneJobPerRequest` | `ReadingProofs` |
| `ReadingImplementsIntake` | `ImplementsIntake` | |
| `KeysMakeOnce`, `AnswersAreRight` | `[]OncePerKey`, `[]AnswersAreOfTheRequest` | `OperationsProofs` |
| `LoadingAgainCreatesNothing` | `[]NoJobLoadedTwice` | |
| `BackupsStay` | `[]AProvedBackupStays` | |
| `WalksMeetEveryRow` | `[]WalkMeetsEveryRowOnce` | |
| `CountExplains` | `[]CountExplainsEveryDifference` | |
| `GroupsStayFlat`, `JoinsAnswer` | `[]GroupsAreOneLevel`, `[]JoinAnswersItsMatch` | `CandidatesProofs` |
| `TheLastCheckCloses` | `[]LastCheckClosesTheItem` | |
| `ErasureTakesTheData` | `[]DataGoesWithItsErasure` | |
| `OutOfSight`, `QueueLeads` | `[]OutOfSightReadsAsMissing`, `[]QueueLeadsSomewhere` | |
| `GroupsAreReachable` | `[]GroupsAreTheReachable` | |
| `AssessmentsReachPeople` | `[]AssessmentReachesAPerson` | `EvaluationsProofs` |
| `JobsKeepTheLedger` | its jobs implement `JobLedger`'s `Spec` | |
| `NearOne`, `ExplainedWhole` | `[]NearOneLine`, `[]ExplainedInFull` | |

All are of the form `Spec => ...`, with the component's own specification
(`RetriesSpec`, `JoinsSpec`, ...) in the last three modules. They rest on the named assumptions of the modules only: ids are numbers
(`JobAssumption`, `ApplicationAssumption`, `EventAssumption`, `IdAssumption`), outcomes
are told apart (`OutcomeAssumption`), the settler's name is no reader's (`ReaderAssumption`), bounds are naturals,
`None` is not one of the things it stands in for, an application has a candidate
(`SubmitterOfAssumption`), a file has a line and a candidate a field (`LinesAssumption`,
`FieldAssumption`), a list has finitely many rows (`RowIdAssumption`), the rows of a sheet
are numbered without gaps (`SheetRowAssumption`), a score cell reads as a whole number of
tenths (`CellsAssumption`), and `ListAssumption`. TLC evaluates each of them in the runs.

**The queue.** None of the invariants is inductive alone. `RowInv` says that who
has written a row's new state holds the row's lock, `LockInv` that a worker from
its claim to its release has the advisory lock while its lock session is open,
and that a job in recovery's hands is nobody else's; `HistoryInv` ties the
recorded runs to status and attempts, uncommitted outcomes included. `Exclusion`
follows from `LockInv`: two workers on one job would hold one advisory lock, or
recovery would have taken it in between. That step needs `~LockLoss`; the other
theorems do without, since a refused outcome is refused by the row's state alone.

**The pipeline.** `Inv` adds to what is committed what is about to be. `Grounded`:
committed moves chain, from the first step to the last, each by a loaded list.
`RequestsStand`: what an open transaction read may be old, but what it inserted
under the application's lock is still legal, for the lock is kept to the end, and
`RowsStand` the same of inserted rows and unique keys. `DecisionsStand`: nothing
follows a rejection, so the move a confirmation made stays last until its
resolution commits. The refinement maps each COMMIT to one legal entry, every other
step to a stutter.

**Delivery.** `DeliveryInv` says that a row a sender holds may be old but was true
(`tries` is no more than the attempts recorded), and that once it is locked and
looked at again it is current for as long as the sender's session lives.
`Record` needs the session, so it maps to a legal entry of the log; a POST maps to
the CRM receiving the event, heard or not.

**The feed.** `FeedInv`: of an application's events at most the one that holds its
lock is open, and it has the highest id among them; so committed moves are in id order.

**Intake.** `Lost(f)` says that a file is uploaded, unanswered and without a job. A lost
file stays lost until it is given up, because only a request for an *answered* file can
queue a job for one that is known (`AskedAgain`). So what a settler's query found is
lost, or given up by somebody else, when its insert comes (`ListedStand`), and what it has
inserted is lost until it commits (`OpenRowsStand`), however many statements lie between.
`UniqueKey` is the unique index, uncommitted rows included. The refinement maps a
reading's COMMIT to a reply, a settler's to giving up, a settling without a row to
dropping the request; retries and waits are stutters, since the successor
carries the request on.

**Keys.** Who works under a key holds its lock (`Holds`) and there is nothing fresh under
it (`NothingKept`); what is kept was made (`KeptIsMade`). So `OncePerKey` survives the COMMIT
that keeps another response, and an answer, given at the end, names what was made.

**Loads.** While no two loads met, one load at most is under way and nothing is adrift
(`OneAtATime`), and of what is open at or past its line it knows (`KnowsWhatIsOpen`):
so it posts only what is not there.

**Backups.** A take has a number of its own and has counted the takes begun since (`Numbered`);
its dump was removed only if that were as many as are kept (`InPlace`), and has a manifest once it
was recorded, which says whether it was restored (`Recorded`). No more dumps are newer than one than were begun after
it (`NewerAreFew`, by cardinality of an interval), so a take that was not outrun keeps its
own when it prunes, and its own was restored unless it was made with `--no-verify` (`skipped`).

**Joins.** `DeeperIsUnseen`: what a join past the trigger would make deeper was committed
after the trigger looked, and is in `unseen`; so at its COMMIT a second level names a pair that
did not see each other (`OneLevelApart`). `JoinedOnce` is the unique index, uncommitted rows included. The match of a join past its lookup
has been answered, or is being answered under the item's unique key.

**Checks.** `LeavesForAReason`: unless checks overlapped, who leaves the item open does
so because a field is unchecked in what it sees, and that field still is at its COMMIT.

**Erasure.** `RunsInOrder`: the files a run has yet to delete, or has left, are of the erased,
and values or an answer given to a record while a run was emptying it are known to have come after: a
run does not empty a record that has an answer. `RunGoes`
carries the property over a run's own progress.

**Evaluations.** `ToldIsThere`: who was
told that an item is open was told of one that names it or an application without a
score; what had been resolved before the application came is resolved (`BeforeIsResolved`),
so an open item is none of that; and an item is there from the COMMIT of a job that has
succeeded (`ItemsFollow`), which is its last, so an item without a score keeps being one.

**Jobs of an application.** `JobQueueProofs` shows that the queue implements `JobLedger`;
`JobsKeepTheLedger` shows that `Evaluations`, which has no queue, lets its jobs do nothing
else. A job of the ledger is an application and the number of the attempt; the ledger's history,
which `Evaluations` does not keep, is the history variable `runs`: each step that ends
a run appends its outcome, every other step leaves it alone, and no step is forbidden by it.
`StartsAreRuns`: a job was started as often as it has entries in `runs`, once more while
it runs, and a job that is not there yet has none. So the run counter that fails a job
after `MaxStarts` stops is `Len(history)`; a retry is one `Settle` with its successor as
follow-up. No run states this theorem, for `runs` is of no use to the other properties;
TLC agrees on one assessment and one scoring with two attempts and two starts (37,076 states).

**Pages.** A row's `Rank` is how many of the list come before it; different rows have
different ranks and every rank below the size is some row's (`RankOrders`,
`RankReaches`), so a page has exactly its rows and its last row is where the next begins. `PagingInv`:
what is shown is reached by the cursor, what was in scope throughout and is reached is
shown, and every page but the last took `Limit` rows that had not been.

**Imports.** `ImportsInv`: of a row nobody erased, each field is what its captured cells
make, or that with a check after it, the evaluation is what the captured score makes, and the
file is there. The count compares the same with the sheet, so the two directions of
`CountExplainsEveryDifference` are this invariant read from either end.

**Visibility.** `RecordsBelong`: what is applied for, waits or is done belongs to a candidate
there is, and a proposed rejection to an application there is. With it each route's answer is
computed from one question, `Visible` (`AnswersAboutCandidate`, `AnswersAboutItem`,
`UnseenIsNowhere`), and the answers about an unseen candidate and about nobody are one record
(`Unmentioned`).

**Duplicates.** The root of a record is a recursive function, so there has to be one, and
only one, that satisfies its equation. `RootsAfterUnion` shows that pointing one root at
another keeps both: a second solution after the union would give a second one before it. No
induction over the depth of the forest is needed. `GroupsInv`: what was taken is
in one group, and a set that no link leaves holds each group whole or not at all.

**Verdicts.** `VerdictIs` says that a verdict is of the profile as it stands. The rest is
arithmetic over chains of early returns (`FirstOfThree`, ...), and that a set of
numbers has a least (`LeastNumber`), from the well-foundedness of `<`.

**Only model-checked:** liveness (`EveryJobSettles`, `LocksComeFree`,
`EveryRequestEnds`, `EveryEventTriedOut`, `EveryCvAnswered`, `EveryApplicationSettles`), since
fairness and ENABLED are beyond the prover; the violations, which are counterexamples.
Every safety invariant of a passing run and every refinement is proved.

**Limits of what is shown.** The exceptions in `GroupsAreOneLevel`, `LastCheckClosesTheItem`,
`NoJobLoadedTwice`, `AProvedBackupStays` and `DataGoesWithItsErasure` are the code's, not
the models': the exempted states are reached. `AssessmentReachesAPerson` is about jobs that
succeed, and an item that was found open counts even if it is resolved by the COMMIT.
`GroupsAreOneLevel` and `LastCheckClosesTheItem` say what overlap alone can break; that overlap
does break it, although a group is said to be "always one level deep"
(`0012_duplicates.py:15`), they do not forbid. `OutOfSightReadsAsMissing` is about the routes and lists
it names, and its comment names those that answer otherwise.
`SentAlone` is about senders whose session lives:
without it a POST under way can overlap another sender's, and the CRM can receive
an event twice, as the code's own docs say. Webhooks promise no order.
`ImplementsRecord` says that some loaded list allowed each move, not that the list
was in force at the COMMIT. `EveryCvAnswered` is about a CV's first answer:
`settle_abandoned` leaves alone a file that any
reader has read, so a re-read that failed for good reaches no person.
`EveryEventTriedOut` is about any finite set of events;
one sender makes about 8600 attempts a day if each takes its full ten seconds.

## 5. Not modelled

* **Replay and reports**: sequential, read-only computations over stored data, with nothing
  between two of their steps; the parts the import uses are in `Imports` and `Verdicts`.
* **Auth, config, logging, blob and OCR adapters, the web client**: no shared state.
* **Watch, preflight, the drill of a backup** (`src/ops`): they read other programs' state and report it.
* **Rate limits** (`src/api/limits.py`): counters in the memory of one process.
* **The conversion of an answer into fields** (`src/intake/answer.py`, `cv_fields.py`,
  `experience.py`) and the tidying of names and numbers (`src/candidates/duplicates.py:60-140`):
  text processing; the models start from what it yields.
* **Single inserts with nothing to race**: teams, job posts, the text of a consent,
  the signature of a borderline rule, the audit row of an opened document.
* In the modelled parts: payloads and signatures, wording, search terms and filters.

## 6. Plan

The work of the plan so far: the queue, the pipeline, the events and the intake in depth,
each with a refinement; then every other part whose state two actors share. Left, in order:

1. An abstract specification of what a candidate is promised (seen, scored, assessed,
   erased), and `Evaluations`, `Retention` and `Visibility` shown to implement it together:
   today they share the withdrawal only in what each assumes of it.
2. `Evaluations` over `JobQueue` itself: both are shown to keep to `JobLedger`, one as what
   runs jobs and one as what they do, but no module has the two side by side.
