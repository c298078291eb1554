---------------------------- MODULE EventDelivery ----------------------------
(***************************************************************************)
(* Events to the CRM: the senders of src/src/integrations/webhooks.py,     *)
(* over PostgreSQL at READ COMMITTED.                                      *)
(*                                                                         *)
(* A sender makes one attempt per transaction: it looks for due events,    *)
(* locks one (an advisory lock of the transaction), looks again, posts it  *)
(* while the transaction is open, and records the attempt. Its session may *)
(* end under it while it waits for the CRM's answer.                       *)
(***************************************************************************)
EXTENDS Naturals, Sequences, FiniteSets

CONSTANTS
    Sender,              \* processes of "webhooks deliver"
    Event,               \* integration.event ids
    CandidatesPerCheck,  \* CANDIDATES_PER_CHECK: how many due events one look returns
    MaxTries,            \* attempts the retry gaps leave room for in 24 hours
    MaxFaults,           \* bound: crashes and lost sessions
    None                 \* no sender, no row

ASSUME EventAssumption == Event \subseteq Nat
ASSUME BoundsAssumption ==
    /\ CandidatesPerCheck \in Nat \ {0}
    /\ MaxTries \in Nat
    /\ MaxFaults \in Nat

VARIABLES
    published,  \* integration.event: the events committed so far
    attempts,   \* integration.delivery_attempt: the outcomes recorded for each event
    waiting,    \* the gap after the event's last attempt has not passed
    expired,    \* 24 hours have passed since the event
    received,   \* what the CRM has received (external)
    phase,      \* how far each sender has come
    session,    \* its database session is open at the server
    rows,       \* candidates it has still to look at: id and tries, as first read
    row,        \* the candidate in hand
    answer,     \* how its POST ended
    lock,       \* whose transaction holds the event's advisory lock
    faults      \* faults so far, up to MaxFaults

table == <<published, attempts, waiting, expired>>
sender == <<phase, session, rows, row, answer>>
vars == <<table, received, sender, lock, faults>>

Outcome == {"delivered", "failed"}
Candidate == [id : Event, tries : Nat]

ASSUME NoneAssumption == None \notin Sender \cup Candidate \cup Outcome

Init ==
    /\ published = {}
    /\ attempts = [e \in Event |-> <<>>]
    /\ waiting = [e \in Event |-> FALSE]
    /\ expired = [e \in Event |-> FALSE]
    /\ received = {}
    /\ phase = [s \in Sender |-> "idle"]
    /\ session = [s \in Sender |-> FALSE]
    /\ rows = [s \in Sender |-> {}]
    /\ row = [s \in Sender |-> None]
    /\ answer = [s \in Sender |-> None]
    /\ lock = [e \in Event |-> None]
    /\ faults = 0

-----------------------------------------------------------------------------
(* The changes that are events, and time.                                   *)

(***************************************************************************)
(* The COMMIT of a transaction whose changes wrote the events of S.        *)
(***************************************************************************)
Publish(S) ==
    /\ S # {}
    /\ S \cap published = {}
    /\ published' = published \cup S
    /\ UNCHANGED <<attempts, waiting, expired, received, sender, lock, faults>>

(***************************************************************************)
(* Time passes, as far as it decides whether an event is still due.        *)
(***************************************************************************)
Undelivered(e) == \A i \in DOMAIN attempts[e] : attempts[e][i] # "delivered"

GapPasses(e) ==
    /\ waiting[e]
    /\ Undelivered(e)
    /\ ~expired[e]
    /\ Len(attempts[e]) < MaxTries
    /\ waiting' = [waiting EXCEPT ![e] = FALSE]
    /\ UNCHANGED <<published, attempts, expired, received, sender, lock, faults>>

Expire(e) ==
    /\ e \in published
    /\ Undelivered(e)
    /\ ~expired[e]
    /\ expired' = [expired EXCEPT ![e] = TRUE]
    /\ UNCHANGED <<published, attempts, waiting, received, sender, lock, faults>>

-----------------------------------------------------------------------------
(* deliver_next.                                                            *)

(***************************************************************************)
(* Mutant of Due: the gap of a retry is NULL, an index beyond the array.   *)
(***************************************************************************)
DueWithoutLeast(e) ==
    /\ e \in published
    /\ attempts[e] = <<>>
    /\ ~expired[e]

(***************************************************************************)
(* _DUE: not delivered, under 24 hours old, its gap has passed.            *)
(***************************************************************************)
Due(e) ==
    /\ e \in published
    /\ Undelivered(e)
    /\ ~expired[e]
    /\ ~waiting[e]

Oldest(S, n) == {e \in S : Cardinality({d \in S : d < e}) < n}

(***************************************************************************)
(* The transaction of deliver_next begins: the oldest due events.          *)
(***************************************************************************)
Look(s) ==
    /\ phase[s] = "idle"
    /\ rows' = [rows EXCEPT ![s] =
                  {[id |-> e, tries |-> Len(attempts[e])] :
                      e \in Oldest({e \in Event : Due(e)}, CandidatesPerCheck)}]
    /\ session' = [session EXCEPT ![s] = TRUE]
    /\ phase' = [phase EXCEPT ![s] = "claiming"]
    /\ UNCHANGED <<table, received, row, answer, lock, faults>>

Without(s) == [e \in Event |-> IF lock[e] = s THEN None ELSE lock[e]]

(***************************************************************************)
(* Nothing is due, or others have it all: the transaction ends, and with   *)
(* it the locks on candidates that turned out not to be due any more.      *)
(***************************************************************************)
NothingDue(s) ==
    /\ phase[s] = "claiming"
    /\ session[s]
    /\ rows[s] = {}
    /\ phase' = [phase EXCEPT ![s] = "idle"]
    /\ session' = [session EXCEPT ![s] = FALSE]
    /\ lock' = Without(s)
    /\ UNCHANGED <<table, received, rows, row, answer, faults>>

OldestRow(s, r) == r \in rows[s] /\ \A q \in rows[s] : r.id <= q.id

TryLock(s) ==
    /\ phase[s] = "claiming"
    /\ session[s]
    /\ \E r \in rows[s] :
          /\ OldestRow(s, r)
          /\ lock[r.id] = None
          /\ lock' = [lock EXCEPT ![r.id] = s]
          /\ row' = [row EXCEPT ![s] = r]
          /\ rows' = [rows EXCEPT ![s] = @ \ {r}]
    /\ phase' = [phase EXCEPT ![s] = "checking"]
    /\ UNCHANGED <<table, received, session, answer, faults>>

SkipLocked(s) ==
    /\ phase[s] = "claiming"
    /\ session[s]
    /\ \E r \in rows[s] :
          /\ OldestRow(s, r)
          /\ lock[r.id] # None
          /\ rows' = [rows EXCEPT ![s] = @ \ {r}]
    /\ UNCHANGED <<table, received, phase, session, row, answer, lock, faults>>

(***************************************************************************)
(* Mutant of StillDue: there is no second look.                            *)
(***************************************************************************)
NoSecondLook(r) == TRUE

(***************************************************************************)
(* _DUE again, at the same now: of an attempt recorded since the first     *)
(* look, the gap cannot have passed by then.                               *)
(***************************************************************************)
StillDue(r) == Len(attempts[r.id]) = r.tries

Post(s) ==
    /\ phase[s] = "checking"
    /\ session[s]
    /\ StillDue(row[s])
    /\ phase' = [phase EXCEPT ![s] = "sending"]
    /\ UNCHANGED <<table, received, session, rows, row, answer, lock, faults>>

NoLongerDue(s) ==
    /\ phase[s] = "checking"
    /\ session[s]
    /\ ~StillDue(row[s])
    /\ phase' = [phase EXCEPT ![s] = "claiming"]
    /\ row' = [row EXCEPT ![s] = None]
    /\ UNCHANGED <<table, received, session, rows, answer, lock, faults>>

(***************************************************************************)
(* Mutant of Answered: an error nobody took down.                          *)
(***************************************************************************)
AnswerLost(s) ==
    /\ phase[s] = "sending"
    /\ phase' = [phase EXCEPT ![s] = "recording"]
    /\ UNCHANGED <<table, received, session, rows, row, answer, lock, faults>>

(***************************************************************************)
(* Mutant of Answered: no answer within ten seconds is taken for a yes.    *)
(***************************************************************************)
SilenceIsConsent(s) ==
    /\ phase[s] = "sending"
    /\ answer' = [answer EXCEPT ![s] = "delivered"]
    /\ received' \in {received, received \cup {row[s].id}}
    /\ phase' = [phase EXCEPT ![s] = "recording"]
    /\ UNCHANGED <<table, session, rows, row, lock, faults>>

(***************************************************************************)
(* A 2xx in time; or any other answer, no answer, no connection. The CRM   *)
(* may have received the event in each of these cases.                     *)
(***************************************************************************)
Answered(s) ==
    /\ phase[s] = "sending"
    /\ \E outcome \in Outcome :
          /\ answer' = [answer EXCEPT ![s] = outcome]
          /\ received' \in {received \cup {row[s].id}}
                           \cup (IF outcome = "failed" THEN {received} ELSE {})
    /\ phase' = [phase EXCEPT ![s] = "recording"]
    /\ UNCHANGED <<table, session, rows, row, lock, faults>>

(***************************************************************************)
(* The INSERT, which UNIQUE (event_id, attempt) lets through, and COMMIT.  *)
(***************************************************************************)
Record(s) ==
    /\ phase[s] = "recording"
    /\ session[s]
    /\ LET e == row[s].id
       IN  /\ row[s].tries = Len(attempts[e])
           /\ attempts' = [attempts EXCEPT ![e] = Append(@, answer[s])]
           /\ waiting' = [waiting EXCEPT ![e] = TRUE]
    /\ phase' = [phase EXCEPT ![s] = "idle"]
    /\ session' = [session EXCEPT ![s] = FALSE]
    /\ rows' = [rows EXCEPT ![s] = {}]
    /\ row' = [row EXCEPT ![s] = None]
    /\ answer' = [answer EXCEPT ![s] = None]
    /\ lock' = Without(s)
    /\ UNCHANGED <<published, expired, received, faults>>

-----------------------------------------------------------------------------
(* Faults.                                                                  *)

Fault == faults < MaxFaults /\ faults' = faults + 1

Dies(s) ==
    /\ phase' = [phase EXCEPT ![s] = "gone"]
    /\ rows' = [rows EXCEPT ![s] = {}]
    /\ row' = [row EXCEPT ![s] = None]
    /\ answer' = [answer EXCEPT ![s] = None]
    /\ UNCHANGED <<table, session, lock>>

(***************************************************************************)
(* The process is killed, at any point. A request it had sent may arrive.  *)
(***************************************************************************)
Crash(s) ==
    /\ Fault
    /\ phase[s] # "gone"
    /\ received' \in {received} \cup
                     (IF phase[s] = "sending" THEN {received \cup {row[s].id}} ELSE {})
    /\ Dies(s)

(***************************************************************************)
(* The server ends the session of a live sender: its locks are free.       *)
(***************************************************************************)
LoseSession(s) ==
    /\ Fault
    /\ phase[s] \notin {"idle", "gone"}
    /\ session[s]
    /\ session' = [session EXCEPT ![s] = FALSE]
    /\ lock' = Without(s)
    /\ UNCHANGED <<table, received, phase, rows, row, answer>>

(***************************************************************************)
(* The next statement of a live sender is refused, for want of a session   *)
(* or by the unique key: nothing in main catches that.                     *)
(***************************************************************************)
Refused(s) ==
    /\ phase[s] \in {"claiming", "checking", "recording"}
    /\ session[s] => phase[s] = "recording" /\ row[s].tries # Len(attempts[row[s].id])
    /\ Dies(s)
    /\ UNCHANGED <<received, faults>>

EndSession(s) ==
    /\ phase[s] = "gone"
    /\ session[s]
    /\ session' = [session EXCEPT ![s] = FALSE]
    /\ lock' = Without(s)
    /\ UNCHANGED <<table, received, phase, rows, row, answer, faults>>

(***************************************************************************)
(* restart: unless-stopped.                                                *)
(***************************************************************************)
Restart(s) ==
    /\ phase[s] = "gone"
    /\ ~session[s]
    /\ phase' = [phase EXCEPT ![s] = "idle"]
    /\ UNCHANGED <<table, received, session, rows, row, answer, lock, faults>>

-----------------------------------------------------------------------------
Deliver(s) ==
    \/ Look(s)
    \/ NothingDue(s)
    \/ TryLock(s)
    \/ SkipLocked(s)
    \/ Post(s)
    \/ NoLongerDue(s)
    \/ Answered(s)
    \/ Record(s)

Fail(s) ==
    \/ Crash(s)
    \/ LoseSession(s)
    \/ Refused(s)
    \/ EndSession(s)
    \/ Restart(s)

Next ==
    \/ \E S \in SUBSET Event : Publish(S)
    \/ \E e \in Event : GapPasses(e) \/ Expire(e)
    \/ \E s \in Sender : Deliver(s) \/ Fail(s)

Spec == Init /\ [][Next]_vars

-----------------------------------------------------------------------------
(* Properties.                                                              *)

(***************************************************************************)
(* Every variable has its type; a sender past its claim has an event in    *)
(* hand, and one past its POST has the answer.                             *)
(***************************************************************************)
TypeOK ==
    /\ published \in SUBSET Event
    /\ attempts \in [Event -> Seq(Outcome)]
    /\ waiting \in [Event -> BOOLEAN]
    /\ expired \in [Event -> BOOLEAN]
    /\ received \in SUBSET Event
    /\ phase \in [Sender -> {"idle", "claiming", "checking", "sending", "recording", "gone"}]
    /\ session \in [Sender -> BOOLEAN]
    /\ rows \in [Sender -> SUBSET Candidate]
    /\ row \in [Sender -> Candidate \cup {None}]
    /\ answer \in [Sender -> Outcome \cup {None}]
    /\ lock \in [Event -> Sender \cup {None}]
    /\ faults \in 0 .. MaxFaults
    /\ \A s \in Sender :
          /\ phase[s] \in {"checking", "sending", "recording"} => row[s] \in Candidate
          /\ phase[s] = "recording" => answer[s] \in Outcome

(***************************************************************************)
(* "Two workers never send the same event at the same time" (webhooks.py), *)
(* nor one that has been delivered: as long as the database session that   *)
(* holds the lock lives. Senders look, lock and look again while others    *)
(* record, crash and lose their sessions.                                  *)
(***************************************************************************)
Sending(s, e) ==
    phase[s] \in {"sending", "recording"} /\ session[s] /\ row[s].id = e

SentAlone ==
    \A s \in Sender, e \in Event : Sending(s, e) =>
        /\ Undelivered(e)
        /\ \A t \in Sender \ {s} : ~Sending(t, e)

(***************************************************************************)
(* The mapping hides senders, locks and time.                              *)
(***************************************************************************)
Log == INSTANCE EventLog

(***************************************************************************)
(* Whatever the senders' faults: the CRM receives committed events only,   *)
(* the record of the attempts ends with the delivery, and it claims none   *)
(* the CRM did not receive (API plan, section 7; BR-410).                  *)
(***************************************************************************)
ImplementsLog == Log!Spec

-----------------------------------------------------------------------------
(* Liveness.                                                                *)

(***************************************************************************)
(* Gaps pass, senders take their next step (a POST times out after ten     *)
(* seconds), dead sessions end and the supervisor restarts the process.    *)
(* Not fair: new events, the 24 hours, faults, and what the CRM answers.   *)
(***************************************************************************)
Fairness ==
    /\ \A e \in Event : WF_vars(GapPasses(e))
    /\ \A s \in Sender :
          /\ WF_vars(Deliver(s))
          /\ WF_vars(Refused(s) \/ EndSession(s) \/ Restart(s))

FairSpec == Spec /\ Fairness

(***************************************************************************)
(* "Nothing is lost while the CRM is down" (API plan, section 7): an event *)
(* is tried until it is delivered, its 24 hours have passed, or the gaps   *)
(* leave room for no more, however its senders die and whatever becomes of *)
(* the other events.                                                       *)
(***************************************************************************)
TriedOut(e) == ~Undelivered(e) \/ expired[e] \/ Len(attempts[e]) >= MaxTries

EveryEventTriedOut == \A e \in Event : e \in published ~> TriedOut(e)
=============================================================================
