----------------------------- MODULE Visibility -----------------------------
(***************************************************************************)
(* What the API answers whom about a candidate: the scope of               *)
(* pipeline/access.py and candidates/reads.py as each route applies it,     *)
(* over the records that change what is in scope.                          *)
(*                                                                         *)
(* A request is one transaction and one step here: what it may see is read *)
(* at its start, and what overlapping requests do to each other is the     *)
(* subject of Pipeline, Joins and Checks.  A candidate has one evaluation, *)
(* one document and one application to each recruiter's opening; what an   *)
(* application may do next is the subject of Pipeline.  Events are those   *)
(* of the last thirty days.                                                *)
(***************************************************************************)
EXTENDS Choice, FiniteSets

CONSTANTS
    Person,
    RolesOf,      \* the roles of each person's sign-in token
    Owner,        \* whose openings there are
    Candidate,
    Unknown       \* the id of a candidate there never was

ASSUME OwnerAssumption == Owner \subseteq Person
ASSUME UnknownAssumption == Unknown \notin Candidate

VARIABLES
    created,      \* core.candidate
    typedBy,      \* who typed a candidate in by hand; None if nobody did
    applied,      \* pipeline.application: <<candidate, owner>>
    withdrawn,    \* candidates with a withdrawal, lifted or not
    hidden,       \* core.candidate_locked
    archived,
    unchecked,    \* candidates with a field nobody has verified
    waiting,      \* review items without a resolution: <<kind, candidate, owner>>
    done,         \* review items with one
    joined        \* joins not undone: <<primary, joined>>

visibilityVars ==
    <<created, typedBy, applied, withdrawn, hidden, archived, unchecked, waiting, done, joined>>

\* A proposed rejection is about an application, the others about a candidate.
ItemKind == {"proposed_rejection", "unverified_candidate", "flagged_document"}
Item == {i \in ItemKind \X Candidate \X (Owner \cup {None}) :
            (i[1] = "proposed_rejection") = (i[3] # None)}

VisibilityInit ==
    /\ created = {} /\ typedBy = [c \in Candidate |-> None]
    /\ applied = {} /\ withdrawn = {} /\ hidden = {} /\ archived = {}
    /\ unchecked = {} /\ waiting = {} /\ done = {} /\ joined = {}

-----------------------------------------------------------------------------
(* Who is asking.                                                           *)

ActorOf(p) ==
    LET roles == RolesOf[p]
    IN  FirstOf(<< <<roles \cap {"ta_lead", "admin"} # {},
                     [subject |-> p, seesAll |-> TRUE, isAdmin |-> "admin" \in roles]>>,
                   <<"recruiter" \in roles,
                     [subject |-> p, seesAll |-> FALSE, isAdmin |-> FALSE]>> >>, None)

ReaderOf(p) ==
    IF ActorOf(p) = None /\ "criteria_owner" \in RolesOf[p]
    THEN [subject |-> p, seesAll |-> TRUE, isAdmin |-> FALSE]
    ELSE ActorOf(p)

NotLocked(actor, c) == actor.isAdmin \/ c \notin hidden

Visible(actor, c) ==
    /\ c \in created
    /\ NotLocked(actor, c)
    /\ \/ actor.seesAll
       \/ <<c, actor.subject>> \in applied
       \/ typedBy[c] = actor.subject

VisibleApplication(actor, a) ==
    /\ a \in applied
    /\ NotLocked(actor, a[1])
    /\ actor.seesAll \/ a[2] = actor.subject

\* The answer to a route: nobody without a role gets past its first line.
Answer(actor, refusals) == IF actor = None THEN "forbidden" ELSE FirstOf(refusals, "ok")

-----------------------------------------------------------------------------
(* What is said of a candidate.                                             *)

FetchCandidate(p, c) ==
    LET actor == ActorOf(p) IN Answer(actor, << <<~Visible(actor, c), "no_candidate">> >>)

ListCandidates(p) ==
    LET actor == ActorOf(p)
    IN  IF actor = None THEN {} ELSE {c \in Candidate : Visible(actor, c)}

SearchCandidates(p, match) == ListCandidates(p) \cap match

ListEvaluations(p, c) ==
    LET actor == ReaderOf(p) IN Answer(actor, << <<~Visible(actor, c), "no_candidate">> >>)

FetchEvaluation(p, c) ==
    LET actor == ReaderOf(p) IN Answer(actor, << <<~Visible(actor, c), "no_evaluation">> >>)

\* The evaluation first, then the candidate's fields, in the same scope.
ExplainEvaluation(p, c) ==
    LET actor == ReaderOf(p)
    IN  Answer(actor, << <<~Visible(actor, c), "no_evaluation">>,
                         <<~Visible(actor, c), "no_candidate">> >>)

ListDocuments(p, c) ==
    LET actor == ActorOf(p) IN Answer(actor, << <<~Visible(actor, c), "no_candidate">> >>)

DownloadDocument(p, c) ==
    LET actor == ActorOf(p) IN Answer(actor, << <<~Visible(actor, c), "no_document">> >>)

VerifyField(p, c) ==
    LET actor == ActorOf(p) IN Answer(actor, << <<~Visible(actor, c), "no_candidate">> >>)

RecordWithdrawal(p, c) ==
    LET actor == ActorOf(p)
    IN  Answer(actor, << <<~Visible(actor, c), "no_candidate">>,
                         <<c \in hidden, "already_exists">> >>)

\* An admin is not asked whether the candidate is there.
CandidateWithdrawals(p, c) ==
    LET actor == ActorOf(p)
    IN  Answer(actor, << <<~actor.isAdmin /\ ~Visible(actor, c), "no_candidate">> >>)

ListWithdrawals(p) ==
    LET actor == ActorOf(p) IN IF actor # None /\ actor.isAdmin THEN hidden ELSE {}

LiftWithdrawal(p, c) ==
    LET actor == ActorOf(p)
    IN  Answer(actor, << <<~actor.isAdmin, "forbidden">>,
                         <<c \notin withdrawn, "no_withdrawal">>,
                         <<c \notin hidden, "already_lifted">> >>)

CandidateGroup(p, c) ==
    LET actor == ReaderOf(p) IN Answer(actor, << <<~Visible(actor, c), "no_candidate">> >>)

\* The database refuses a second level of a group.
JoinCandidates(p, primary, other) ==
    LET actor == ActorOf(p)
    IN  Answer(actor, << <<primary = other, "invalid_request">>,
                         <<~Visible(actor, primary), "no_candidate">>,
                         <<~Visible(actor, other), "no_candidate">>,
                         <<\E j \in joined : j[2] = primary \/ j[1] = other, "refused">>,
                         <<\E j \in joined : j[2] = other, "already_exists">> >>)

\* Only the primary has to be in scope.
SplitGroup(p, j) ==
    LET actor == ActorOf(p)
    IN  Answer(actor, << <<j \notin joined, "no_join">>,
                         <<~Visible(actor, j[1]), "no_candidate">> >>)

-----------------------------------------------------------------------------
(* What is said of an application and of a recruiter's opening.             *)

FetchRequisition(p, owner) ==
    LET actor == ActorOf(p)
    IN  Answer(actor, << <<~actor.seesAll /\ owner # p, "no_requisition">> >>)

CreateRequisition(p, owner) ==
    LET actor == ActorOf(p)
    IN  Answer(actor, << <<~actor.seesAll /\ owner # p, "forbidden">> >>)

\* The candidate is not looked at, only that there is one.
CreateApplication(p, c, owner) ==
    LET actor == ActorOf(p)
    IN  Answer(actor, << <<FetchRequisition(p, owner) # "ok", "no_requisition">>,
                         <<c \notin created, "no_such_record">>,
                         <<<<c, owner>> \in applied, "already_exists">> >>)

FetchApplication(p, a) ==
    LET actor == ActorOf(p)
    IN  Answer(actor, << <<~VisibleApplication(actor, a), "no_application">> >>)

\* Moves, the history of them and reversals look the application up alike.
CreateTransition(p, a) == FetchApplication(p, a)
TransitionHistory(p, a) == FetchApplication(p, a)
ReverseRejection(p, a) == FetchApplication(p, a)

ListApplications(p) ==
    LET actor == ActorOf(p)
    IN  IF actor = None THEN {} ELSE {a \in applied : VisibleApplication(actor, a)}

\* Whom an event of the feed is about: an application, or a score.  Whether the
\* candidate is locked is not asked.
ListEvents(p) ==
    LET actor == ActorOf(p)
    IN  IF actor = None THEN {}
        ELSE {a[1] : a \in {b \in applied : actor.seesAll \/ b[2] = actor.subject}}
             \cup (IF actor.seesAll THEN created ELSE {})

-----------------------------------------------------------------------------
(* Review items: about an application, about a candidate, and the queue.    *)

\* Mutant of VisibleReview: the item is looked up without its candidate.
VisibleToOwner(actor, i) ==
    /\ i \in waiting \cup done
    /\ i[1] = "proposed_rejection"
    /\ actor.seesAll \/ i[3] = actor.subject

VisibleReview(actor, i) ==
    /\ i \in waiting \cup done
    /\ i[1] = "proposed_rejection"
    /\ NotLocked(actor, i[2])
    /\ actor.seesAll \/ i[3] = actor.subject

FetchReviewItem(p, i) ==
    LET actor == ReaderOf(p) IN Answer(actor, << <<~VisibleReview(actor, i), "no_item">> >>)

ListReviewItems(p) ==
    LET actor == ReaderOf(p)
    IN  IF actor = None THEN {} ELSE {i \in waiting \cup done : VisibleReview(actor, i)}

ResolveReviewItem(p, i) ==
    LET actor == ActorOf(p)
    IN  Answer(actor, << <<~VisibleReview(actor, i), "no_item">>,
                         <<i \in done, "already_resolved">>,
                         <<~VisibleApplication(actor, <<i[2], i[3]>>), "no_application">> >>)

VisibleCandidateReview(actor, i) ==
    /\ i \in waiting \cup done
    /\ i[1] # "proposed_rejection"
    /\ i[2] \notin archived
    /\ Visible(actor, i[2])

FetchCandidateReviewItem(p, i) ==
    LET actor == ReaderOf(p)
    IN  Answer(actor, << <<~VisibleCandidateReview(actor, i), "no_item">> >>)

ListCandidateReviewItems(p) ==
    LET actor == ReaderOf(p)
    IN  IF actor = None THEN {} ELSE {i \in waiting \cup done : VisibleCandidateReview(actor, i)}

\* decision: "checked" or "dismissed", and a dismissal with no reason.
ResolveCandidateReviewItem(p, i, decision) ==
    LET actor == ActorOf(p)
    IN  Answer(actor, << <<decision = "no_reason", "invalid_request">>,
                         <<~VisibleCandidateReview(actor, i), "no_item">>,
                         <<i \in done, "already_resolved">>,
                         <<decision = "checked" /\ i[1] = "unverified_candidate"
                           /\ i[2] \in unchecked, "not_checked">> >>)

\* Mutant of QueueLines: archived candidates wait as well.
QueueLinesOfAll(actor) ==
    {i \in waiting :
        /\ NotLocked(actor, i[2])
        /\ IF i[3] # None THEN actor.seesAll \/ i[3] = actor.subject ELSE Visible(actor, i[2])}

QueueLines(actor) ==
    {i \in waiting :
        /\ i[2] \notin archived
        /\ NotLocked(actor, i[2])
        /\ IF i[3] # None THEN actor.seesAll \/ i[3] = actor.subject ELSE Visible(actor, i[2])}

ReviewQueue(p) ==
    LET actor == ReaderOf(p) IN IF actor = None THEN {} ELSE QueueLines(actor)

\* How many lines of each kind; for who sees everything.
QueueSummary(p) ==
    LET actor == ActorOf(p)
    IN  IF actor = None \/ ~actor.seesAll THEN None
        ELSE [kind \in ItemKind |-> Cardinality({i \in QueueLines(actor) : i[1] = kind})]

\* Where a line of the queue is resolved.
ResolveAt(p, i) ==
    IF i[1] = "proposed_rejection" THEN ResolveReviewItem(p, i)
    ELSE ResolveCandidateReviewItem(p, i, "dismissed")

-----------------------------------------------------------------------------
(* What changes the records.                                                *)

\* Typed in by hand: every field is unchecked, and an item says so.
EnterCandidate(p, c) ==
    /\ ActorOf(p) # None
    /\ c \notin created
    /\ created' = created \cup {c}
    /\ typedBy' = [typedBy EXCEPT ![c] = p]
    /\ unchecked' = unchecked \cup {c}
    /\ waiting' = waiting \cup {<<"unverified_candidate", c, None>>}
    /\ UNCHANGED <<applied, withdrawn, hidden, archived, done, joined>>

\* Imported or uploaded, or the candidate applied: then with an application.
CandidateArrives(c) ==
    /\ c \notin created
    /\ created' = created \cup {c}
    /\ unchecked' = unchecked \cup {c}
    /\ \E owner \in Owner : applied' \in {applied, applied \cup {<<c, owner>>}}
    /\ UNCHANGED <<typedBy, withdrawn, hidden, archived, waiting, done, joined>>

Apply(p, c, owner) ==
    /\ CreateApplication(p, c, owner) = "ok"
    /\ applied' = applied \cup {<<c, owner>>}
    /\ UNCHANGED <<created, typedBy, withdrawn, hidden, archived, unchecked, waiting, done, joined>>

\* A job proposes a rejection or flags a document.
OpenItem(i) ==
    /\ i \notin waiting \cup done
    /\ \/ i[1] = "proposed_rejection" /\ <<i[2], i[3]>> \in applied
       \/ i[1] = "flagged_document" /\ i[2] \in created
    /\ waiting' = waiting \cup {i}
    /\ UNCHANGED <<created, typedBy, applied, withdrawn, hidden, archived, unchecked, done, joined>>

Withdrawal(p, c) ==
    /\ RecordWithdrawal(p, c) = "ok"
    /\ withdrawn' = withdrawn \cup {c}
    /\ hidden' = hidden \cup {c}
    /\ UNCHANGED <<created, typedBy, applied, archived, unchecked, waiting, done, joined>>

LiftOf(p, c) ==
    /\ LiftWithdrawal(p, c) = "ok"
    /\ hidden' = hidden \ {c}
    /\ UNCHANGED <<created, typedBy, applied, withdrawn, archived, unchecked, waiting, done, joined>>

\* From the command line, in nobody's scope.
ArchiveCandidate(c) ==
    /\ c \in created \ archived
    /\ archived' = archived \cup {c}
    /\ UNCHANGED <<created, typedBy, applied, withdrawn, hidden, unchecked, waiting, done, joined>>

\* The check of the last unchecked field closes the candidate's item.
CheckLastField(p, c) ==
    LET item == <<"unverified_candidate", c, None>>
    IN  /\ VerifyField(p, c) = "ok"
        /\ c \in unchecked
        /\ unchecked' = unchecked \ {c}
        /\ waiting' = waiting \ {item}
        /\ done' = done \cup (waiting \cap {item})
        /\ UNCHANGED <<created, typedBy, applied, withdrawn, hidden, archived, joined>>

Resolve(p, i) ==
    /\ \/ ResolveAt(p, i) = "ok"
       \/ i[1] # "proposed_rejection" /\ ResolveCandidateReviewItem(p, i, "checked") = "ok"
    /\ waiting' = waiting \ {i}
    /\ done' = done \cup {i}
    /\ UNCHANGED <<created, typedBy, applied, withdrawn, hidden, archived, unchecked, joined>>

JoinOf(p, primary, other) ==
    /\ JoinCandidates(p, primary, other) = "ok"
    /\ joined' = joined \cup {<<primary, other>>}
    /\ UNCHANGED <<created, typedBy, applied, withdrawn, hidden, archived, unchecked, waiting, done>>

UndoOf(p, j) ==
    /\ SplitGroup(p, j) = "ok"
    /\ joined' = joined \ {j}
    /\ UNCHANGED <<created, typedBy, applied, withdrawn, hidden, archived, unchecked, waiting, done>>

RequestOf(p) ==
    \/ \E c \in Candidate :
        \/ EnterCandidate(p, c) \/ Withdrawal(p, c) \/ LiftOf(p, c) \/ CheckLastField(p, c)
        \/ \E owner \in Owner : Apply(p, c, owner)
        \/ \E other \in Candidate : JoinOf(p, c, other)
    \/ \E i \in waiting : Resolve(p, i)
    \/ \E j \in joined : UndoOf(p, j)

VisibilityNext ==
    \/ \E p \in Person : RequestOf(p)
    \/ \E c \in Candidate : CandidateArrives(c) \/ ArchiveCandidate(c)
    \/ \E i \in Item : OpenItem(i)

VisibilitySpec == VisibilityInit /\ [][VisibilityNext]_visibilityVars

-----------------------------------------------------------------------------
(* Properties.                                                              *)

\* What the API says to p of candidate c, of what belongs to it and of what
\* could be done to it alone; q is whose application it is.
SaidOf(p, c, q) ==
    [candidate |-> FetchCandidate(p, c), evaluations |-> ListEvaluations(p, c),
     evaluation |-> FetchEvaluation(p, c), explained |-> ExplainEvaluation(p, c),
     documents |-> ListDocuments(p, c), document |-> DownloadDocument(p, c),
     check |-> VerifyField(p, c), withdraw |-> RecordWithdrawal(p, c),
     withdrawals |-> CandidateWithdrawals(p, c), group |-> CandidateGroup(p, c),
     application |-> FetchApplication(p, <<c, q>>), move |-> CreateTransition(p, <<c, q>>),
     history |-> TransitionHistory(p, <<c, q>>), reversal |-> ReverseRejection(p, <<c, q>>),
     items |-> {<<FetchReviewItem(p, i), ResolveReviewItem(p, i), FetchCandidateReviewItem(p, i),
                  ResolveCandidateReviewItem(p, i, "checked")>> :
                  i \in {<<"proposed_rejection", c, q>>, <<"unverified_candidate", c, None>>,
                         <<"flagged_document", c, None>>}}]

InSight(p, c) == ReaderOf(p) # None /\ Visible(ReaderOf(p), c)

(***************************************************************************)
(* pipeline/access.py: "Something out of scope is reported as not found,   *)
(* exactly like something that does not exist."  A person who may not see  *)
(* a candidate, who is another's or has asked to be left alone, gets from  *)
(* the routes of SaidOf, and when joining it with another, the answer of a *)
(* candidate there never was, finds nothing of theirs in a list, and is    *)
(* shown nobody's withdrawal.                                              *)
(*                                                                         *)
(* Not among these are the routes that do answer otherwise: creating an    *)
(* application, undoing a join, the other records a group or a match       *)
(* names, an answer kept for a retry, the counts of the reports, what the  *)
(* careers page says to who has a token; and, of a candidate who has asked *)
(* to be left alone, the feed of events, which goes on showing theirs.     *)
(***************************************************************************)
OutOfSightReadsAsMissing ==
    \A p \in Person, c \in created :
        ~InSight(p, c) =>
            /\ \A q \in Owner : SaidOf(p, c, q) = SaidOf(p, Unknown, q)
            /\ \A other \in Candidate \ {c} :
                  /\ JoinCandidates(p, c, other) = JoinCandidates(p, Unknown, other)
                  /\ JoinCandidates(p, other, c) = JoinCandidates(p, other, Unknown)
            /\ c \in ListEvents(p) => c \in hidden
            /\ c \notin ListCandidates(p) \cup ListWithdrawals(p)
            /\ LiftWithdrawal(p, c) \in {"forbidden", LiftWithdrawal(p, Unknown)}
            /\ \A a \in ListApplications(p) : a[1] # c
            /\ \A i \in ListReviewItems(p) \cup ListCandidateReviewItems(p) \cup ReviewQueue(p) :
                  i[2] # c

(***************************************************************************)
(* candidates/queue.py: everything that waits for a person, "in one list". *)
(* A line leads somewhere: whoever works in the pipeline and reads it can  *)
(* open its candidate and resolve it where it says; and what either list   *)
(* of review items shows open is a line, unless the candidate is archived. *)
(***************************************************************************)
QueueLeadsSomewhere ==
    \A p \in Person :
        /\ ActorOf(p) # None =>
              \A i \in ReviewQueue(p) : FetchCandidate(p, i[2]) = "ok" /\ ResolveAt(p, i) = "ok"
        /\ \A i \in (ListReviewItems(p) \cup ListCandidateReviewItems(p)) \cap waiting :
              i \in ReviewQueue(p) \/ i[2] \in archived
        /\ QueueSummary(p) # None =>
              QueueSummary(p)["proposed_rejection"] + QueueSummary(p)["unverified_candidate"]
                + QueueSummary(p)["flagged_document"] = Cardinality(ReviewQueue(p))
=============================================================================
