------------------------------ MODULE Pipeline ------------------------------
(***************************************************************************)
(* Openings, applications, moves and rejections: src/src/pipeline/store.py *)
(* and lists.py, and the triggers and unique indexes of migration          *)
(* 0005_pipeline.py that judge every insert, at READ COMMITTED.            *)
(*                                                                         *)
(* An API request is one transaction of several statements. Each statement *)
(* sees what has been committed when it starts; what it inserts is seen by *)
(* the others when the transaction commits. An actor here is a person (or  *)
(* the scoring worker) with at most one request in progress.               *)
(***************************************************************************)
EXTENDS Naturals, Sequences, FiniteSets

CONSTANTS
    Actor,         \* people making requests, one request at a time each
    Opening,       \* pipeline.opening ids
    Candidate,     \* core.candidate ids
    Application,   \* pipeline.application ids that can be given out
    Item,          \* ids of proposed rejections (pipeline.review_item)
    List,          \* step list versions
    Step,          \* step codes, of any list
    Reason,        \* rejection reason codes, of any list
    FirstStep,     \* [List -> Step]: the step with the lowest position
    Hired,         \* [List -> Step]: the step with outcome 'hired'
    Rejected,      \* [List -> Step]: the step with outcome 'rejected'
    AllowedMove,   \* [List -> SUBSET (Step \X Step)]
    ListedReason,  \* [List -> SUBSET Reason]
    SeededList,    \* the list the migrations put in force
    None

(***************************************************************************)
(* What the keys and triggers of the list tables enforce on a list before  *)
(* it can be in force (check_allowed_move, check_activation).              *)
(***************************************************************************)
ASSUME ListAssumption ==
    /\ SeededList \in List
    /\ FirstStep \in [List -> Step]
    /\ Hired \in [List -> Step]
    /\ Rejected \in [List -> Step]
    /\ AllowedMove \in [List -> SUBSET (Step \X Step)]
    /\ ListedReason \in [List -> SUBSET Reason]
    /\ \A l \in List : \A m \in AllowedMove[l] : m[1] \notin {Hired[l], Rejected[l]}
ASSUME ApplicationAssumption == Application \subseteq Nat
VARIABLES
    loaded,        \* lists loaded and activated so far
    active,        \* the list in force: active_list()
    opening,       \* pipeline.opening.status
    application,   \* pipeline.application rows; None while there is none
    moves,         \* pipeline.move rows of each application, by sequence
    item,          \* pipeline.review_item rows (proposed rejections)
    resolution,    \* pipeline.review_resolution, by item
    phase,         \* how far each actor's request has come
    txn,           \* what its transaction is about to write or has written
    appLock        \* who holds pg_advisory_xact_lock(application id)

record == <<application, moves, item, resolution>>
lists == <<loaded, active>>
vars == <<loaded, active, opening, application, moves, item, resolution, phase, txn,
          appLock>>

Phase == {"idle", "reading", "judging", "resolving", "writing"}

Row == [candidate : Candidate, opening : Opening, reopens : Application \cup {None}]
Move == [list : List, from : Step \cup {None}, to : Step, reason : Reason \cup {None},
         by : Actor]
ItemRow == [app : Application, reason : Reason]
Resolution == [outcome : {"confirmed", "dismissed"}, by : Actor]

(***************************************************************************)
(* What a transaction writes: a move, alone or to confirm an item; a       *)
(* dismissal; a proposed rejection; a new application with its first move. *)
(***************************************************************************)
MoveTxn == [kind : {"move"}, app : Application, from : Step, to : Step,
            reason : Reason \cup {None}, list : List, item : Item \cup {None}]
DismissTxn == [kind : {"dismiss"}, item : Item]
ProposeTxn == [kind : {"propose"}, item : Item, app : Application, reason : Reason]
ApplyTxn == [kind : {"apply"}, app : Application, row : Row, list : List]
Transaction == MoveTxn \cup DismissTxn \cup ProposeTxn \cup ApplyTxn

(***************************************************************************)
(* None is no row and no key.                                              *)
(***************************************************************************)
ASSUME NoneAssumption ==
    /\ None \notin Actor
    /\ None \notin Application
    /\ None \notin Item
    /\ None \notin Reason
    /\ None \notin Row \cup ItemRow \cup Resolution \cup Transaction

Init ==
    /\ loaded = {SeededList}
    /\ active = SeededList
    /\ opening = [o \in Opening |-> "open"]
    /\ application = [a \in Application |-> None]
    /\ moves = [a \in Application |-> <<>>]
    /\ item = [i \in Item |-> None]
    /\ resolution = [i \in Item |-> None]
    /\ phase = [p \in Actor |-> "idle"]
    /\ txn = [p \in Actor |-> None]
    /\ appLock = [a \in Application |-> None]

-----------------------------------------------------------------------------
(* Lists and openings.                                                      *)

(***************************************************************************)
(* load_step_list: one transaction, its last row the activation. A version *)
(* is loaded once (its primary key).                                       *)
(***************************************************************************)
LoadList(l) ==
    /\ l \notin loaded
    /\ loaded' = loaded \cup {l}
    /\ active' = l
    /\ UNCHANGED <<opening, record, phase, txn, appLock>>

(***************************************************************************)
(* close_opening, at its COMMIT. guard_opening: a closed opening is final. *)
(***************************************************************************)
CloseOpening(o) ==
    /\ opening[o] = "open"
    /\ opening' = [opening EXCEPT ![o] = "closed"]
    /\ UNCHANGED <<lists, record, phase, txn, appLock>>

-----------------------------------------------------------------------------
(* A request's transaction.                                                 *)

Idle(p) == phase[p] = "idle" /\ txn[p] = None

Proceed(p, next, request) ==
    /\ phase' = [phase EXCEPT ![p] = next]
    /\ txn' = [txn EXCEPT ![p] = request]

(***************************************************************************)
(* Mutant of End: a lock of the session, which outlives the transaction.   *)
(***************************************************************************)
EndWithoutUnlock(p) ==
    /\ Proceed(p, "idle", None)
    /\ UNCHANGED appLock

(***************************************************************************)
(* The transaction ends: its locks go, its request is answered.            *)
(***************************************************************************)
End(p) ==
    /\ Proceed(p, "idle", None)
    /\ appLock' = [a \in Application |-> IF appLock[a] = p THEN None ELSE appLock[a]]

(***************************************************************************)
(* Rows other transactions have inserted and not committed yet. An insert  *)
(* with the same unique key waits for them to end.                         *)
(***************************************************************************)
Inserting(p, kind) == phase[p] = "writing" /\ txn[p] # None /\ txn[p].kind = kind

-----------------------------------------------------------------------------
(* Moves (move_application).                                                *)

Current(a) == moves[a][Len(moves[a])]
Final(move) == move.to \in {Hired[move.list], Rejected[move.list]}

(***************************************************************************)
(* The requests that some list would allow: from, to, reason. check_move   *)
(* refuses any other whatever the state.                                   *)
(***************************************************************************)
ReasonFits(l, to, reason) ==
    IF to = Rejected[l] THEN reason \in ListedReason[l] ELSE reason = None

Requestable ==
    {m \in Step \X Step \X (Reason \cup {None}) :
        \E l \in List : <<m[1], m[2]>> \in AllowedMove[l] /\ ReasonFits(l, m[2], m[3])}

(***************************************************************************)
(* The INSERT begins: check_move's DECLARE reads the active list, before   *)
(* the lock is asked for. The step the application is said to be at is the *)
(* client's.                                                               *)
(***************************************************************************)
AskMove(p) ==
    /\ Idle(p)
    /\ \E a \in Application, m \in Requestable :
          /\ application[a] # None
          /\ Proceed(p, "judging",
                     [kind |-> "move", app |-> a, from |-> m[1], to |-> m[2],
                      reason |-> m[3], list |-> active, item |-> None])
    /\ UNCHANGED <<lists, opening, record, appLock>>

(***************************************************************************)
(* confirm_proposed_rejection, first: the item, unresolved; the step its   *)
(* application is at; the active list's rejected step.                     *)
(***************************************************************************)
AskConfirm(p) ==
    /\ Idle(p)
    /\ \E i \in Item :
          /\ item[i] # None
          /\ resolution[i] = None
          /\ Proceed(p, "reading",
                     [kind |-> "move", app |-> item[i].app, from |-> Current(item[i].app).to,
                      to |-> Rejected[active], reason |-> item[i].reason, list |-> active,
                      item |-> i])
    /\ UNCHANGED <<lists, opening, record, appLock>>

(***************************************************************************)
(* Then the INSERT of its move begins, and reads the active list again.    *)
(***************************************************************************)
DeclareMove(p) ==
    /\ phase[p] = "reading"
    /\ Proceed(p, "judging", [txn[p] EXCEPT !.list = active])
    /\ UNCHANGED <<lists, opening, record, appLock>>

(***************************************************************************)
(* Mutant of MayMove: nothing but the mover's list keeps a final step final.*)
(***************************************************************************)
MayMoveFinalByAllowed(m) ==
    /\ m.from = Current(m.app).to
    /\ <<m.from, m.to>> \in AllowedMove[m.list]
    /\ ReasonFits(m.list, m.to, m.reason)

(***************************************************************************)
(* check_move, once it holds the lock: the last move as committed, judged  *)
(* by the list read before.                                                *)
(***************************************************************************)
MayMove(m) ==
    /\ m.from = Current(m.app).to
    /\ ~Final(Current(m.app))
    /\ <<m.from, m.to>> \in AllowedMove[m.list]
    /\ ReasonFits(m.list, m.to, m.reason)

(***************************************************************************)
(* Mutant of InsertMove: no lock, and no unique sequence behind it.        *)
(***************************************************************************)
InsertMoveUnlocked(p) ==
    /\ phase[p] = "judging"
    /\ MayMove(txn[p])
    /\ phase' = [phase EXCEPT ![p] = IF txn[p].item = None THEN "writing" ELSE "resolving"]
    /\ UNCHANGED <<lists, opening, record, txn, appLock>>

(***************************************************************************)
(* pg_advisory_xact_lock, granted when nobody holds it; the move is judged *)
(* and inserted.                                                           *)
(***************************************************************************)
InsertMove(p) ==
    /\ phase[p] = "judging"
    /\ appLock[txn[p].app] = None
    /\ MayMove(txn[p])
    /\ appLock' = [appLock EXCEPT ![txn[p].app] = p]
    /\ phase' = [phase EXCEPT ![p] = IF txn[p].item = None THEN "writing" ELSE "resolving"]
    /\ UNCHANGED <<lists, opening, record, txn>>

(***************************************************************************)
(* Refused: the request's whole transaction rolls back.                    *)
(***************************************************************************)
RefuseMove(p) ==
    /\ phase[p] = "judging"
    /\ appLock[txn[p].app] = None
    /\ ~MayMove(txn[p])
    /\ End(p)
    /\ UNCHANGED <<lists, opening, record>>

-----------------------------------------------------------------------------
(* Decisions on proposed rejections.                                        *)

(***************************************************************************)
(* dismiss_proposed_rejection: the item is read, unresolved; its           *)
(* application is not looked at.                                           *)
(***************************************************************************)
AskDismiss(p) ==
    /\ Idle(p)
    /\ \E i \in Item :
          /\ item[i] # None
          /\ resolution[i] = None
          /\ Proceed(p, "resolving", [kind |-> "dismiss", item |-> i])
    /\ UNCHANGED <<lists, opening, record, appLock>>

(***************************************************************************)
(* Another transaction has inserted a resolution of the same item.         *)
(***************************************************************************)
Resolving(i) == \E q \in Actor : /\ phase[q] = "writing"
                                 /\ txn[q].kind \in {"move", "dismiss"}
                                 /\ txn[q].item = i

(***************************************************************************)
(* The INSERT of the resolution: check_resolution asks for the rejection   *)
(* move just inserted; the unique review_item_id for being the only one.   *)
(***************************************************************************)
InsertResolution(p) ==
    /\ phase[p] = "resolving"
    /\ ~Resolving(txn[p].item)
    /\ resolution[txn[p].item] = None
    /\ txn[p].kind = "move" => txn[p].to = Rejected[txn[p].list]
    /\ phase' = [phase EXCEPT ![p] = "writing"]
    /\ UNCHANGED <<lists, opening, record, txn, appLock>>

(***************************************************************************)
(* Mutant of RefuseResolution: the refusal does not end the transaction.   *)
(***************************************************************************)
RefuseResolutionLeftOpen(p) ==
    /\ phase[p] = "resolving"
    /\ ~Resolving(txn[p].item)
    /\ resolution[txn[p].item] # None
    /\ phase' = [phase EXCEPT ![p] = "idle"]
    /\ UNCHANGED <<lists, opening, record, txn, appLock>>

(***************************************************************************)
(* Refused: somebody else has decided. A confirmation's move rolls back    *)
(* with it.                                                                *)
(***************************************************************************)
RefuseResolution(p) ==
    /\ phase[p] = "resolving"
    /\ ~Resolving(txn[p].item)
    /\ resolution[txn[p].item] # None
    /\ End(p)
    /\ UNCHANGED <<lists, opening, record>>

(***************************************************************************)
(* propose_rejection, the scoring worker's: check_review_item reads the    *)
(* application's last move without a lock, and takes the active list.      *)
(***************************************************************************)
AskPropose(p) ==
    /\ Idle(p)
    /\ \E i \in Item, a \in Application, reason \in ListedReason[active] :
          /\ item[i] = None
          /\ \A q \in Actor : Inserting(q, "propose") => txn[q].item # i
          /\ application[a] # None
          /\ ~Final(Current(a))
          /\ Proceed(p, "writing",
                     [kind |-> "propose", item |-> i, app |-> a, reason |-> reason])
    /\ UNCHANGED <<lists, opening, record, appLock>>

-----------------------------------------------------------------------------
(* Applications.                                                            *)

(***************************************************************************)
(* Ids are given out in order (identity columns).                          *)
(***************************************************************************)
Unused == {a \in Application :
             /\ application[a] = None
             /\ \A q \in Actor : Inserting(q, "apply") => txn[q].app # a}

(***************************************************************************)
(* check_application and start_application: the opening is read, without a *)
(* lock, and is open; the new row's first move is to the active list's     *)
(* first step. Two transactions with the same unique key: the later waits. *)
(***************************************************************************)
InsertApplication(p, row) ==
    /\ opening[row.opening] = "open"
    /\ FirstStep[active] # Rejected[active]
    /\ \E a \in Unused :
          /\ \A b \in Unused : a <= b
          /\ Proceed(p, "writing",
                     [kind |-> "apply", app |-> a, row |-> row, list |-> active])
    /\ UNCHANGED <<lists, opening, record, appLock>>

(***************************************************************************)
(* Mutant of AskApply: application_once_per_opening is not unique.         *)
(***************************************************************************)
AskApplyTwice(p) ==
    /\ Idle(p)
    /\ \E c \in Candidate, o \in Opening :
          InsertApplication(p, [candidate |-> c, opening |-> o, reopens |-> None])

(***************************************************************************)
(* create_application. application_once_per_opening: one row per candidate *)
(* and opening, reopenings aside.                                          *)
(***************************************************************************)
AskApply(p) ==
    /\ Idle(p)
    /\ \E c \in Candidate, o \in Opening :
          LET row == [candidate |-> c, opening |-> o, reopens |-> None]
          IN  /\ \A a \in Application : application[a] # row
              /\ \A q \in Actor : Inserting(q, "apply") => txn[q].row # row
              /\ InsertApplication(p, row)

(***************************************************************************)
(* Mutant of AskReverse: neither unique key is there.                      *)
(***************************************************************************)
AskReverseTwice(p) ==
    /\ Idle(p)
    /\ \E a \in Application :
          /\ application[a] # None
          /\ Current(a).to = Rejected[Current(a).list]
          /\ InsertApplication(p, [application[a] EXCEPT !.reopens = a])

(***************************************************************************)
(* reverse_rejection: check_reversal wants the rejection as latest move; a *)
(* final step's, so it stays. The reversal and the new application that    *)
(* reopens the old one are inserted in one transaction; rejection_move_id  *)
(* and reopens_application_id are unique.                                  *)
(***************************************************************************)
AskReverse(p) ==
    /\ Idle(p)
    /\ \E a \in Application :
          /\ application[a] # None
          /\ Current(a).to = Rejected[Current(a).list]
          /\ \A b \in Application : application[b] # None => application[b].reopens # a
          /\ \A q \in Actor : Inserting(q, "apply") => txn[q].row.reopens # a
          /\ InsertApplication(p, [application[a] EXCEPT !.reopens = a])

-----------------------------------------------------------------------------
(* The end of a request's transaction.                                      *)

(***************************************************************************)
(* COMMIT of a move, with the resolution of the item it confirms.          *)
(***************************************************************************)
CommitMove(p) ==
    /\ Inserting(p, "move")
    /\ LET m == txn[p]
       IN  /\ moves' = [moves EXCEPT ![m.app] =
                           Append(@, [list |-> m.list, from |-> m.from, to |-> m.to,
                                      reason |-> m.reason, by |-> p])]
           /\ resolution' = [i \in Item |->
                               IF i = m.item THEN [outcome |-> "confirmed", by |-> p]
                                             ELSE resolution[i]]
    /\ End(p)
    /\ UNCHANGED <<lists, opening, application, item>>

CommitDismissal(p) ==
    /\ Inserting(p, "dismiss")
    /\ resolution' = [resolution EXCEPT ![txn[p].item] =
                         [outcome |-> "dismissed", by |-> p]]
    /\ End(p)
    /\ UNCHANGED <<lists, opening, application, moves, item>>

CommitProposal(p) ==
    /\ Inserting(p, "propose")
    /\ item' = [item EXCEPT ![txn[p].item] = [app |-> txn[p].app, reason |-> txn[p].reason]]
    /\ End(p)
    /\ UNCHANGED <<lists, opening, application, moves, resolution>>

CommitApplication(p) ==
    /\ Inserting(p, "apply")
    /\ LET t == txn[p]
       IN  /\ application' = [application EXCEPT ![t.app] = t.row]
           /\ moves' = [moves EXCEPT ![t.app] =
                           <<[list |-> t.list, from |-> None, to |-> FirstStep[t.list],
                              reason |-> None, by |-> p]>>]
    /\ End(p)
    /\ UNCHANGED <<lists, opening, item, resolution>>

(***************************************************************************)
(* The request fails, at any point: nothing of it is kept.                 *)
(***************************************************************************)
Rollback(p) ==
    /\ phase[p] # "idle"
    /\ End(p)
    /\ UNCHANGED <<lists, opening, record>>

-----------------------------------------------------------------------------
Ask(p) ==
    \/ AskMove(p)
    \/ AskConfirm(p)
    \/ AskDismiss(p)
    \/ AskPropose(p)
    \/ AskApply(p)
    \/ AskReverse(p)

Go(p) ==
    \/ DeclareMove(p)
    \/ InsertMove(p)
    \/ RefuseMove(p)
    \/ InsertResolution(p)
    \/ RefuseResolution(p)
    \/ CommitMove(p)
    \/ CommitDismissal(p)
    \/ CommitProposal(p)
    \/ CommitApplication(p)

Next ==
    \/ \E l \in List : LoadList(l)
    \/ \E o \in Opening : CloseOpening(o)
    \/ \E p \in Actor : Ask(p) \/ Go(p) \/ Rollback(p)

Spec == Init /\ [][Next]_vars

-----------------------------------------------------------------------------
(* Properties.                                                              *)

(***************************************************************************)
(* Every variable has its type, and a request that has come somewhere has  *)
(* the transaction that goes with it.                                      *)
(***************************************************************************)
TypeOK ==
    /\ loaded \in SUBSET List
    /\ active \in loaded
    /\ opening \in [Opening -> {"open", "closed"}]
    /\ application \in [Application -> Row \cup {None}]
    /\ moves \in [Application -> Seq(Move)]
    /\ item \in [Item -> ItemRow \cup {None}]
    /\ resolution \in [Item -> Resolution \cup {None}]
    /\ phase \in [Actor -> Phase]
    /\ \A p \in Actor :
          /\ phase[p] = "idle" => txn[p] = None
          /\ phase[p] \in {"reading", "judging"} => txn[p] \in MoveTxn
          /\ phase[p] = "resolving" =>
                txn[p] \in MoveTxn \cup DismissTxn /\ txn[p].item \in Item
          /\ phase[p] = "writing" => txn[p] # None
    /\ txn \in [Actor -> Transaction \cup {None}]
    /\ appLock \in [Application -> Actor \cup {None}]

(***************************************************************************)
(* One candidate, one opening, one live application: of all applications   *)
(* of a candidate to an opening at most one has not been reopened (BR-108; *)
(* the two unique indexes and check_application).                          *)
(***************************************************************************)
Exists(a) == application[a] # None
Reopened(a) == \E b \in Application : Exists(b) /\ application[b].reopens = a

OneLiveApplication ==
    \A a, b \in Application : Exists(a) /\ Exists(b) /\ a # b =>
        \/ application[a].candidate # application[b].candidate
        \/ application[a].opening # application[b].opening
        \/ Reopened(a)
        \/ Reopened(b)

(***************************************************************************)
(* What is reopened was rejected, stays rejected, and is reopened once.    *)
(***************************************************************************)
ReopenedOnce ==
    \A a, b \in Application : Exists(b) /\ application[b].reopens = a =>
        /\ Exists(a)
        /\ Current(a).to = Rejected[Current(a).list]
        /\ \A d \in Application \ {b} : Exists(d) => application[d].reopens # a

(***************************************************************************)
(* A confirmed item is its application's rejection: the last move is the   *)
(* rejection, made by the person who confirmed, with the proposed reason;  *)
(* and no second item claims that move (BR-405; check_resolution).         *)
(***************************************************************************)
Confirmed(i) == resolution[i] # None /\ resolution[i].outcome = "confirmed"

ConfirmedIsTheRejection ==
    \A i \in Item : Confirmed(i) =>
        LET a == item[i].app
        IN  /\ Current(a).to = Rejected[Current(a).list]
            /\ Current(a).reason = item[i].reason
            /\ Current(a).by = resolution[i].by
            /\ \A j \in Item \ {i} : Confirmed(j) => item[j].app # a

(***************************************************************************)
(* The record hides requests, transactions and locks.                      *)
(***************************************************************************)
Record == INSTANCE PipelineRecord

(***************************************************************************)
(* Whatever requests overlap, the record is one that could have been made  *)
(* one legal entry at a time.                                              *)
(***************************************************************************)
ImplementsRecord == Record!Spec

(***************************************************************************)
(* "A closed requisition takes no applications" (docs/api/API_PLAN.md).    *)
(***************************************************************************)
ClosedTakesNone ==
    [][\A a \in Application :
          application[a] = None /\ application'[a] # None =>
              opening[application'[a].opening] = "open"]_vars

-----------------------------------------------------------------------------
(* Liveness.                                                                *)

(***************************************************************************)
(* The server carries a request's statements out. Locks are granted in the *)
(* order they were asked for, so waiting for one is strongly fair. Nobody  *)
(* has to ask for anything.                                                *)
(***************************************************************************)
Fairness ==
    \A p \in Actor :
        /\ WF_vars(DeclareMove(p))
        /\ SF_vars(InsertMove(p) \/ RefuseMove(p))
        /\ SF_vars(InsertResolution(p) \/ RefuseResolution(p))
        /\ WF_vars(CommitMove(p) \/ CommitDismissal(p) \/ CommitProposal(p)
                   \/ CommitApplication(p))

FairSpec == Spec /\ Fairness

(***************************************************************************)
(* Requests do not wait for one another for ever: the lock on the          *)
(* application and the waits for unique keys never close a circle.         *)
(***************************************************************************)
EveryRequestEnds == \A p \in Actor : phase[p] # "idle" ~> phase[p] = "idle"
=============================================================================
