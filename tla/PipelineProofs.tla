--------------------------- MODULE PipelineProofs ---------------------------
(***************************************************************************)
(* Proofs about Pipeline, for any people, applications, lists and reasons: *)
(* every variable keeps its type; what an open transaction has inserted    *)
(* stays legal until it commits; so the record is as PipelineRecord says.  *)
(***************************************************************************)
EXTENDS Pipeline, TLAPS

-----------------------------------------------------------------------------
(* Types.                                                                   *)

(***************************************************************************)
(* The transaction that goes with how far a request has come.              *)
(***************************************************************************)
Fits(ph, t) ==
    /\ ph \in Phase
    /\ t \in Transaction \cup {None}
    /\ ph = "idle" => t = None
    /\ ph \in {"reading", "judging"} => t \in MoveTxn
    /\ ph = "resolving" => t \in MoveTxn \cup DismissTxn /\ t.item \in Item
    /\ ph = "writing" => t # None

RecordTypes ==
    /\ loaded \in SUBSET List
    /\ active \in loaded
    /\ opening \in [Opening -> {"open", "closed"}]
    /\ application \in [Application -> Row \cup {None}]
    /\ moves \in [Application -> Seq(Move)]
    /\ item \in [Item -> ItemRow \cup {None}]
    /\ resolution \in [Item -> Resolution \cup {None}]

RequestTypes ==
    /\ phase \in [Actor -> Phase]
    /\ txn \in [Actor -> Transaction \cup {None}]
    /\ appLock \in [Application -> Actor \cup {None}]
    /\ \A p \in Actor : Fits(phase[p], txn[p])

(***************************************************************************)
(* The type invariant, split into the record's part and the requests'.     *)
(***************************************************************************)
LEMMA TypeParts == TypeOK <=> RecordTypes /\ RequestTypes
  BY DEF TypeOK, RecordTypes, RequestTypes, Fits, Phase

(***************************************************************************)
(* A request that goes on, or ends, with a transaction that fits.          *)
(***************************************************************************)
LEMMA ProceedTypes ==
  ASSUME NEW p \in Actor, NEW next, NEW request, RequestTypes, Fits(next, request),
         Proceed(p, next, request),
         appLock' \in [Application -> Actor \cup {None}]
  PROVE  RequestTypes'
<1>1. /\ phase' \in [Actor -> Phase]
      /\ txn' \in [Actor -> Transaction \cup {None}]
  BY DEF RequestTypes, Fits, Proceed
<1>2. ASSUME NEW q \in Actor PROVE Fits(phase'[q], txn'[q])
  BY DEF RequestTypes, Proceed
<1>3. QED
  BY <1>1, <1>2 DEF RequestTypes, Fits

(***************************************************************************)
(* A transaction that ends leaves its request idle and its locks free.     *)
(***************************************************************************)
LEMMA EndTypes ==
  ASSUME NEW p \in Actor, RequestTypes, End(p)
  PROVE  RequestTypes'
<1>1. Fits("idle", None)
  BY DEF Fits, Phase
<1>2. appLock' \in [Application -> Actor \cup {None}]
  BY DEF End, RequestTypes
<1>3. QED
  BY <1>1, <1>2, ProceedTypes DEF End

(***************************************************************************)
(* A new phase for the same transaction.                                   *)
(***************************************************************************)
LEMMA SameTypes ==
  ASSUME NEW p \in Actor, NEW next, RequestTypes, Fits(next, txn[p]),
         phase' = [phase EXCEPT ![p] = next], txn' = txn,
         appLock' \in [Application -> Actor \cup {None}]
  PROVE  RequestTypes'
<1>1. phase' \in [Actor -> Phase]
  BY DEF RequestTypes, Fits
<1>2. ASSUME NEW q \in Actor PROVE Fits(phase'[q], txn'[q])
  BY DEF RequestTypes
<1>3. QED
  BY <1>1, <1>2 DEF RequestTypes

(***************************************************************************)
(* The current step of an application that has moves.                      *)
(***************************************************************************)
Moved(a) == moves[a] # <<>>

(***************************************************************************)
(* An application that has moved is at a move: its last one.               *)
(***************************************************************************)
LEMMA CurrentType ==
  ASSUME RecordTypes, NEW a \in Application, Moved(a)
  PROVE  Current(a) \in Move
  BY DEF RecordTypes, Moved, Current

-----------------------------------------------------------------------------
(* The invariant.                                                           *)

OfKind(p, kind) == txn[p] # None /\ txn[p].kind = kind

(***************************************************************************)
(* Every application has moved, every proposal is about an application,    *)
(* also one that is not committed yet.                                     *)
(***************************************************************************)
Grounded ==
    /\ \A a \in Application : Exists(a) => Moved(a)
    /\ \A i \in Item : item[i] # None => Exists(item[i].app)
    /\ \A p \in Actor : OfKind(p, "propose") => Exists(txn[p].app)

(***************************************************************************)
(* p's move: its application and list are there; the item it confirms says *)
(* the same; once inserted, p has the lock and the move is still legal.    *)
(***************************************************************************)
MoveStands(p) ==
    OfKind(p, "move") =>
        /\ Exists(txn[p].app)
        /\ txn[p].list \in loaded
        /\ txn[p].item # None =>
              /\ item[txn[p].item] # None
              /\ item[txn[p].item] = [app |-> txn[p].app, reason |-> txn[p].reason]
        /\ phase[p] \in {"resolving", "writing"} =>
              /\ appLock[txn[p].app] = p
              /\ MayMove(txn[p])
        /\ phase[p] = "writing" /\ txn[p].item # None => txn[p].to = Rejected[txn[p].list]

(***************************************************************************)
(* p's decision is the only one on its item, once inserted.                *)
(***************************************************************************)
Decides(p) == /\ phase[p] = "writing"
              /\ OfKind(p, "move") \/ OfKind(p, "dismiss")
              /\ txn[p].item # None

DecisionStands(p) ==
    /\ OfKind(p, "dismiss") => item[txn[p].item] # None
    /\ Decides(p) =>
          /\ resolution[txn[p].item] = None
          /\ \A q \in Actor : q # p /\ Decides(q) => txn[q].item # txn[p].item

(***************************************************************************)
(* p's proposal has an item id of its own and a listed reason.             *)
(***************************************************************************)
ProposalStands(p) ==
    OfKind(p, "propose") =>
        /\ phase[p] = "writing"
        /\ item[txn[p].item] = None
        /\ \E l \in loaded : txn[p].reason \in ListedReason[l]
        /\ \A q \in Actor : q # p /\ OfKind(q, "propose") => txn[q].item # txn[p].item

(***************************************************************************)
(* p's application has an id and unique keys of its own; what it reopens   *)
(* was rejected.                                                           *)
(***************************************************************************)
Same(r, s) == r.candidate = s.candidate /\ r.opening = s.opening /\ r.reopens = s.reopens

Reopens(row) ==
    row.reopens # None =>
        /\ Exists(row.reopens)
        /\ application[row.reopens].candidate = row.candidate
        /\ application[row.reopens].opening = row.opening
        /\ Current(row.reopens).to = Rejected[Current(row.reopens).list]

ApplicationStands(p) ==
    OfKind(p, "apply") =>
        /\ phase[p] = "writing"
        /\ application[txn[p].app] = None
        /\ txn[p].list \in loaded
        /\ \A b \in Application : Exists(b) => ~Same(application[b], txn[p].row)
        /\ Reopens(txn[p].row)
        /\ \A q \in Actor : q # p /\ OfKind(q, "apply") =>
              txn[q].app # txn[p].app /\ ~Same(txn[q].row, txn[p].row)

RequestsStand ==
    \A p \in Actor : /\ MoveStands(p)
                     /\ DecisionStands(p)
                     /\ ProposalStands(p)
                     /\ ApplicationStands(p)

(***************************************************************************)
(* What has been committed: no two rows with the same keys; every          *)
(* reopening is of a rejected application; a candidate's applications to   *)
(* an opening go back to a first one; one of them at most is live.         *)
(***************************************************************************)
RowsStand ==
    /\ \A a, b \in Application : Exists(a) /\ Exists(b) /\ a # b =>
          ~Same(application[a], application[b])
    /\ \A a \in Application : Exists(a) => Reopens(application[a])
    /\ \A a \in Application : Exists(a) =>
          \E b \in Application : /\ Exists(b)
                                 /\ application[b].candidate = application[a].candidate
                                 /\ application[b].opening = application[a].opening
                                 /\ application[b].reopens = None

DecisionsStand ==
    /\ \A i \in Item : resolution[i] # None => item[i] # None
    /\ ConfirmedIsTheRejection

Inv ==
    /\ RecordTypes
    /\ RequestTypes
    /\ Grounded
    /\ RequestsStand
    /\ RowsStand
    /\ OneLiveApplication
    /\ DecisionsStand

Stands(p) ==
    /\ MoveStands(p)
    /\ DecisionStands(p)
    /\ ProposalStands(p)
    /\ ApplicationStands(p)
    /\ OfKind(p, "propose") => Exists(txn[p].app)

(***************************************************************************)
(* A step of p that leaves the record alone: what the others have pending  *)
(* still stands, if p takes none of their locks and keys.                  *)
(***************************************************************************)
LEMMA RecordKept ==
  ASSUME Inv, NEW p \in Actor, UNCHANGED <<lists, opening, record>>, RequestTypes',
         \A q \in Actor : q # p => phase'[q] = phase[q] /\ txn'[q] = txn[q],
         \A a \in Application : appLock[a] \notin {None, p} => appLock'[a] = appLock[a],
         Stands(p)'
  PROVE  Inv'
<1>1. /\ loaded' = loaded /\ active' = active /\ opening' = opening
      /\ application' = application /\ moves' = moves
      /\ item' = item /\ resolution' = resolution
  BY DEF lists, record
<1>2. RecordTypes' /\ RowsStand' /\ OneLiveApplication' /\ DecisionsStand'
  BY <1>1 DEF Inv, RecordTypes, RowsStand, OneLiveApplication, DecisionsStand,
     ConfirmedIsTheRejection, Confirmed, Exists, Reopened, Reopens, Same, Current
<1>3. Grounded'
  BY <1>1 DEF Inv, Grounded, Stands, Exists, Moved, OfKind
<1>4. ASSUME NEW q \in Actor, q # p
      PROVE  /\ MoveStands(q)'
             /\ DecisionStands(q)'
             /\ ProposalStands(q)'
             /\ ApplicationStands(q)'
  <2>1. phase'[q] = phase[q] /\ txn'[q] = txn[q]
    BY <1>4
  <2>2. MoveStands(q)'
    <3>1. MoveStands(q) /\ Fits(phase[q], txn[q])
      BY DEF Inv, RequestsStand, RequestTypes
    <3>2. SUFFICES ASSUME OfKind(q, "move") PROVE MoveStands(q)'
      BY <2>1 DEF MoveStands, OfKind
    <3>3. txn[q].app \in Application
      BY <3>1, <3>2 DEF Fits, OfKind, Transaction, MoveTxn, DismissTxn, ProposeTxn, ApplyTxn
    <3>4. appLock[txn[q].app] = q => appLock'[txn[q].app] = q
      BY <3>3, <1>4, NoneAssumption
    <3>5. QED
      BY <1>1, <2>1, <3>1, <3>2, <3>4 DEF MoveStands, OfKind, Exists, MayMove, Current, Final
  <2>3. DecisionStands(q)'
    BY <1>1, <1>4, <2>1 DEF Inv, RequestsStand, DecisionStands, Decides, OfKind, Stands
  <2>4. ProposalStands(q)'
    BY <1>1, <1>4, <2>1 DEF Inv, RequestsStand, ProposalStands, OfKind, Stands
  <2>5. ApplicationStands(q)'
    <3>1. ApplicationStands(q)
      BY DEF Inv, RequestsStand
    <3>2. \A r \in Actor : r # q /\ OfKind(r, "apply")' /\ OfKind(q, "apply") =>
             txn'[r].app # txn[q].app /\ ~Same(txn'[r].row, txn[q].row)
      BY <1>4, <2>1, <3>1 DEF ApplicationStands, OfKind, Stands, Same
    <3>3. QED
      BY <1>1, <2>1, <3>1, <3>2 DEF ApplicationStands, OfKind, Same, Reopens, Exists, Current
  <2>6. QED
    BY <2>2, <2>3, <2>4, <2>5
<1>5. RequestsStand'
  BY <1>4 DEF RequestsStand, Stands
<1>6. QED
  BY <1>2, <1>3, <1>5 DEF Inv

(***************************************************************************)
(* A request that ends with nothing written.                               *)
(***************************************************************************)
LEMMA EndKeeps ==
  ASSUME Inv, NEW p \in Actor, End(p), UNCHANGED <<lists, opening, record>>
  PROVE  Inv'
<1>1. RequestTypes'
  BY EndTypes DEF Inv
<1>2. phase'[p] = "idle" /\ txn'[p] = None
  BY DEF End, Proceed, Inv, RequestTypes
<1>3. Stands(p)'
  BY <1>2 DEF Stands, MoveStands, DecisionStands, ProposalStands, ApplicationStands, OfKind,
     Decides
<1>4. \A q \in Actor : q # p => phase'[q] = phase[q] /\ txn'[q] = txn[q]
  BY DEF End, Proceed, Inv, RequestTypes
<1>5. \A a \in Application : appLock[a] \notin {None, p} => appLock'[a] = appLock[a]
  BY DEF End
<1>6. QED
  BY <1>1, <1>3, <1>4, <1>5, RecordKept

(***************************************************************************)
(* A request that goes on, taking no lock.                                 *)
(***************************************************************************)
LEMMA ProceedKeeps ==
  ASSUME Inv, NEW p \in Actor, NEW next, NEW request, Proceed(p, next, request),
         Fits(next, request), UNCHANGED <<lists, opening, record, appLock>>, Stands(p)'
  PROVE  Inv'
<1>1. RequestTypes'
  BY ProceedTypes DEF Inv, RequestTypes
<1>2. \A q \in Actor : q # p => phase'[q] = phase[q] /\ txn'[q] = txn[q]
  BY DEF Proceed, Inv, RequestTypes
<1>3. QED
  BY <1>1, <1>2, RecordKept

(***************************************************************************)
(* What Proceed does to the actor who proceeds.                            *)
(***************************************************************************)
LEMMA ProceedEffect ==
  ASSUME RequestTypes, NEW p \in Actor, NEW next, NEW request, Proceed(p, next, request)
  PROVE  phase'[p] = next /\ txn'[p] = request
  BY DEF Proceed, RequestTypes

(***************************************************************************)
(* A move asked for names an application that is there and the list in     *)
(* force; nothing is inserted yet.                                         *)
(***************************************************************************)
LEMMA AskMoveKeeps ==
  ASSUME Inv, NEW p \in Actor, AskMove(p)
  PROVE  Inv'
<1>1. PICK a \in Application, m \in Requestable :
         /\ Exists(a)
         /\ Proceed(p, "judging", [kind |-> "move", app |-> a, from |-> m[1], to |-> m[2],
                                   reason |-> m[3], list |-> active, item |-> None])
  BY DEF AskMove, Exists
<1> DEFINE t == [kind |-> "move", app |-> a, from |-> m[1], to |-> m[2],
                 reason |-> m[3], list |-> active, item |-> None]
<1>2. t \in MoveTxn /\ active \in loaded
  BY DEF Requestable, MoveTxn, Inv, RecordTypes
<1>3. Fits("judging", t)
  BY <1>2 DEF Fits, Phase, Transaction
<1>4. phase'[p] = "judging" /\ txn'[p] = t
  BY <1>1, ProceedEffect DEF Inv
<1>5. UNCHANGED <<lists, opening, record, appLock>>
  BY DEF AskMove
<1>6. Stands(p)'
  BY <1>1, <1>2, <1>4, <1>5 DEF Stands, MoveStands, DecisionStands, ProposalStands,
     ApplicationStands, OfKind, Decides, Exists, lists, record
<1>7. QED
  BY <1>1, <1>3, <1>5, <1>6, ProceedKeeps

(***************************************************************************)
(* A confirmation carries over the item's application and reason.          *)
(***************************************************************************)
LEMMA AskConfirmKeeps ==
  ASSUME Inv, NEW p \in Actor, AskConfirm(p)
  PROVE  Inv'
<1>1. PICK i \in Item :
         /\ item[i] # None
         /\ Proceed(p, "reading",
               [kind |-> "move", app |-> item[i].app, from |-> Current(item[i].app).to,
                to |-> Rejected[active], reason |-> item[i].reason, list |-> active,
                item |-> i])
  BY DEF AskConfirm
<1> DEFINE t == [kind |-> "move", app |-> item[i].app, from |-> Current(item[i].app).to,
                 to |-> Rejected[active], reason |-> item[i].reason, list |-> active,
                 item |-> i]
<1>2. item[i] \in ItemRow /\ Exists(item[i].app) /\ active \in loaded /\ active \in List
  BY <1>1 DEF Inv, RecordTypes, Grounded
<1>3. item[i].app \in Application /\ Moved(item[i].app)
  BY <1>2 DEF ItemRow, Inv, Grounded
<1>4. Current(item[i].app) \in Move
  BY <1>3, CurrentType DEF Inv
<1>5. t \in MoveTxn
  BY <1>2, <1>3, <1>4, ListAssumption DEF MoveTxn, Move, ItemRow
<1>6. Fits("reading", t)
  BY <1>5 DEF Fits, Phase, Transaction
<1>7. phase'[p] = "reading" /\ txn'[p] = t
  BY <1>1, ProceedEffect DEF Inv
<1>8. UNCHANGED <<lists, opening, record, appLock>>
  BY DEF AskConfirm
<1>9. item[i] = [app |-> item[i].app, reason |-> item[i].reason]
  BY <1>2 DEF ItemRow
<1>10. Stands(p)'
  BY <1>1, <1>2, <1>7, <1>8, <1>9 DEF Stands, MoveStands, DecisionStands, ProposalStands,
     ApplicationStands, OfKind, Decides, Exists, lists, record
<1>11. QED
  BY <1>1, <1>6, <1>8, <1>10, ProceedKeeps

(***************************************************************************)
(* Reading the list in force a second time changes nothing else of the     *)
(* request.                                                                *)
(***************************************************************************)
LEMMA DeclareMoveKeeps ==
  ASSUME Inv, NEW p \in Actor, DeclareMove(p)
  PROVE  Inv'
<1> DEFINE t == [txn[p] EXCEPT !.list = active]
<1>1. txn[p] \in MoveTxn /\ MoveStands(p)
  BY DEF DeclareMove, Inv, RequestTypes, Fits, RequestsStand
<1>2. active \in loaded /\ active \in List
  BY DEF Inv, RecordTypes
<1>3. t \in MoveTxn /\ t.app = txn[p].app /\ t.item = txn[p].item /\ t.reason = txn[p].reason
      /\ t.list = active
  BY <1>1, <1>2 DEF MoveTxn
<1>4. Fits("judging", t)
  BY <1>3 DEF Fits, Phase, Transaction
<1>5. Proceed(p, "judging", t) /\ UNCHANGED <<lists, opening, record, appLock>>
  BY DEF DeclareMove
<1>6. phase'[p] = "judging" /\ txn'[p] = t
  BY <1>5, ProceedEffect DEF Inv
<1>7. OfKind(p, "move") /\ t.kind = "move"
  BY <1>1, <1>3, NoneAssumption DEF OfKind, MoveTxn, Transaction
<1> HIDE DEF t
<1>8. Stands(p)'
  BY <1>1, <1>2, <1>3, <1>5, <1>6, <1>7 DEF Stands, MoveStands, DecisionStands, ProposalStands,
     ApplicationStands, OfKind, Decides, Exists, lists, record
<1>9. QED
  BY <1>4, <1>5, <1>8, ProceedKeeps

(***************************************************************************)
(* The lock was free and the move is legal: both hold from here to the     *)
(* COMMIT.                                                                 *)
(***************************************************************************)
LEMMA InsertMoveKeeps ==
  ASSUME Inv, NEW p \in Actor, InsertMove(p)
  PROVE  Inv'
<1> DEFINE next == IF txn[p].item = None THEN "writing" ELSE "resolving"
<1>1. txn[p] \in MoveTxn /\ MoveStands(p)
  BY DEF InsertMove, Inv, RequestTypes, Fits, RequestsStand
<1>2. txn[p].app \in Application /\ txn[p] # None /\ txn[p].kind = "move"
  BY <1>1, NoneAssumption DEF MoveTxn, Transaction
<1>3. Fits(next, txn[p])
  BY <1>1, NoneAssumption DEF Fits, Phase, Transaction, MoveTxn
<1>4. /\ phase' = [phase EXCEPT ![p] = next]
      /\ txn' = txn
      /\ appLock' = [appLock EXCEPT ![txn[p].app] = p]
      /\ appLock[txn[p].app] = None
      /\ MayMove(txn[p])
      /\ UNCHANGED <<lists, opening, record>>
  BY DEF InsertMove
<1>5. RequestTypes'
  <2>1. appLock' \in [Application -> Actor \cup {None}]
    BY <1>4 DEF Inv, RequestTypes
  <2> HIDE DEF next
  <2>2. QED
    BY <1>3, <1>4, <2>1, SameTypes DEF Inv
<1>6. phase'[p] = next /\ \A q \in Actor : q # p => phase'[q] = phase[q]
  BY <1>4 DEF Inv, RequestTypes
<1>7. appLock'[txn[p].app] = p
  BY <1>2, <1>4 DEF Inv, RequestTypes
<1>8. Stands(p)'
  <2>1. phase'[p] = "writing" => txn[p].item = None
    BY <1>6
  <2>2. MayMove(txn[p])'
    BY <1>4 DEF MayMove, Current, Final, ReasonFits, record
  <2> HIDE DEF next
  <2>3. MoveStands(p)'
    BY <1>1, <1>2, <1>4, <1>6, <1>7, <2>1, <2>2 DEF MoveStands, OfKind, Exists, lists, record
  <2>4. QED
    BY <2>1, <2>3, <1>2, <1>4 DEF Stands, DecisionStands, ProposalStands, ApplicationStands,
       OfKind, Decides
<1>9. \A a \in Application : appLock[a] \notin {None, p} => appLock'[a] = appLock[a]
  BY <1>2, <1>4 DEF Inv, RequestTypes
<1>10. QED
  BY <1>4, <1>5, <1>6, <1>8, <1>9, RecordKept

(***************************************************************************)
(* Nobody else has a resolution of the item inserted, so it is this        *)
(* transaction's alone.                                                    *)
(***************************************************************************)
LEMMA InsertResolutionKeeps ==
  ASSUME Inv, NEW p \in Actor, InsertResolution(p)
  PROVE  Inv'
<1>1. /\ txn[p] \in MoveTxn \cup DismissTxn
      /\ txn[p].item \in Item
      /\ MoveStands(p)
      /\ DecisionStands(p)
  BY DEF InsertResolution, Inv, RequestTypes, Fits, RequestsStand
<1>2. txn[p] # None /\ txn[p].item # None /\ txn[p].kind \in {"move", "dismiss"}
  BY <1>1, NoneAssumption DEF MoveTxn, DismissTxn, Transaction
<1>3. Fits("writing", txn[p])
  BY <1>1, <1>2 DEF Fits, Phase, Transaction
<1>4. /\ phase' = [phase EXCEPT ![p] = "writing"]
      /\ phase[p] = "resolving"
      /\ txn' = txn
      /\ appLock' = appLock
      /\ resolution[txn[p].item] = None
      /\ ~Resolving(txn[p].item)
      /\ txn[p].kind = "move" => txn[p].to = Rejected[txn[p].list]
      /\ UNCHANGED <<lists, opening, record>>
  BY DEF InsertResolution
<1>5. RequestTypes'
  BY <1>3, <1>4, SameTypes DEF Inv, RequestTypes
<1>6. phase'[p] = "writing" /\ \A q \in Actor : q # p => phase'[q] = phase[q]
  BY <1>4 DEF Inv, RequestTypes
<1>7. Stands(p)'
  <2>1. MoveStands(p)'
    BY <1>1, <1>2, <1>4, <1>6 DEF MoveStands, OfKind, Exists, MayMove, Current, Final,
       lists, record
  <2>2. \A q \in Actor : q # p /\ Decides(q) => txn[q].item # txn[p].item
    BY <1>4 DEF Decides, Resolving, OfKind
  <2>3. DecisionStands(p)'
    BY <1>1, <1>2, <1>4, <1>6, <2>2 DEF DecisionStands, Decides, OfKind, record
  <2>4. QED
    BY <2>1, <2>3, <1>2, <1>4 DEF Stands, ProposalStands, ApplicationStands, OfKind
<1>8. QED
  BY <1>4, <1>5, <1>6, <1>7, RecordKept

(***************************************************************************)
(* A dismissal asked for names an item that is there.                      *)
(***************************************************************************)
LEMMA AskDismissKeeps ==
  ASSUME Inv, NEW p \in Actor, AskDismiss(p)
  PROVE  Inv'
<1>1. PICK i \in Item : /\ item[i] # None
                        /\ Proceed(p, "resolving", [kind |-> "dismiss", item |-> i])
  BY DEF AskDismiss
<1>2. Fits("resolving", [kind |-> "dismiss", item |-> i])
  BY DEF Fits, Phase, Transaction, DismissTxn
<1>3. phase'[p] = "resolving" /\ txn'[p] = [kind |-> "dismiss", item |-> i]
  BY <1>1, ProceedEffect DEF Inv
<1>4. UNCHANGED <<lists, opening, record, appLock>>
  BY DEF AskDismiss
<1>5. Stands(p)'
  BY <1>1, <1>3, <1>4 DEF Stands, MoveStands, DecisionStands, ProposalStands,
     ApplicationStands, OfKind, Decides, record
<1>6. QED
  BY <1>1, <1>2, <1>4, <1>5, ProceedKeeps

(***************************************************************************)
(* What another transaction is about to write, when it is of that kind.    *)
(***************************************************************************)
LEMMA KindTypes ==
  ASSUME RequestTypes, NEW q \in Actor
  PROVE  /\ OfKind(q, "move") => txn[q] \in MoveTxn
         /\ OfKind(q, "dismiss") => txn[q] \in DismissTxn
         /\ OfKind(q, "propose") => txn[q] \in ProposeTxn
         /\ OfKind(q, "apply") => txn[q] \in ApplyTxn
  BY DEF RequestTypes, OfKind, Transaction, MoveTxn, DismissTxn, ProposeTxn, ApplyTxn

(***************************************************************************)
(* A proposal takes an item id nobody else has taken.                      *)
(***************************************************************************)
LEMMA AskProposeKeeps ==
  ASSUME Inv, NEW p \in Actor, AskPropose(p)
  PROVE  Inv'
<1>1. PICK i \in Item, a \in Application, reason \in ListedReason[active] :
         /\ item[i] = None
         /\ \A q \in Actor : Inserting(q, "propose") => txn[q].item # i
         /\ Exists(a)
         /\ Proceed(p, "writing",
                    [kind |-> "propose", item |-> i, app |-> a, reason |-> reason])
  BY DEF AskPropose, Exists
<1> DEFINE t == [kind |-> "propose", item |-> i, app |-> a, reason |-> reason]
<1>2. active \in loaded /\ reason \in Reason
  BY ListAssumption DEF Inv, RecordTypes
<1>3. Fits("writing", t)
  BY <1>2, NoneAssumption DEF Fits, Phase, Transaction, ProposeTxn
<1>4. phase'[p] = "writing" /\ txn'[p] = t
  BY <1>1, ProceedEffect DEF Inv
<1>5. UNCHANGED <<lists, opening, record, appLock>>
  BY DEF AskPropose
<1>6. \A q \in Actor : q # p => phase'[q] = phase[q] /\ txn'[q] = txn[q]
  BY <1>1 DEF Proceed, Inv, RequestTypes
<1>7. \A q \in Actor : q # p /\ OfKind(q, "propose")' => txn'[q].item # i
  BY <1>1, <1>6 DEF Inv, RequestsStand, ProposalStands, OfKind, Inserting
<1>8. ProposalStands(p)'
  BY <1>1, <1>2, <1>4, <1>5, <1>7 DEF ProposalStands, OfKind, lists, record
<1>9. Stands(p)'
  BY <1>1, <1>4, <1>5, <1>8 DEF Stands, MoveStands, DecisionStands,
     ApplicationStands, OfKind, Decides, Exists, record
<1>10. QED
  BY <1>1, <1>3, <1>5, <1>9, ProceedKeeps

(***************************************************************************)
(* An application about to be inserted, its keys free of every other's.    *)
(***************************************************************************)
LEMMA InsertApplicationKeeps ==
  ASSUME Inv, NEW p \in Actor, NEW row \in Row, InsertApplication(p, row),
         UNCHANGED <<lists, opening, record, appLock>>,
         \A b \in Application : Exists(b) => ~Same(application[b], row),
         \A q \in Actor : q # p /\ OfKind(q, "apply") => ~Same(txn[q].row, row),
         Reopens(row)
  PROVE  Inv'
<1>1. PICK a \in Unused :
         Proceed(p, "writing", [kind |-> "apply", app |-> a, row |-> row, list |-> active])
  BY DEF InsertApplication
<1> DEFINE t == [kind |-> "apply", app |-> a, row |-> row, list |-> active]
<1>2. active \in loaded /\ active \in List /\ a \in Application /\ application[a] = None
  BY DEF Inv, RecordTypes, Unused
<1>3. Fits("writing", t)
  BY <1>2, NoneAssumption DEF Fits, Phase, Transaction, ApplyTxn
<1>4. phase'[p] = "writing" /\ txn'[p] = t
  BY <1>1, ProceedEffect DEF Inv
<1>5. \A q \in Actor : q # p => phase'[q] = phase[q] /\ txn'[q] = txn[q]
  BY <1>1 DEF Proceed, Inv, RequestTypes
<1>6. \A q \in Actor : q # p /\ OfKind(q, "apply")' =>
         txn'[q].app # a /\ ~Same(txn'[q].row, row)
  BY <1>5 DEF Inv, RequestsStand, ApplicationStands, OfKind, Inserting, Unused
<1>7. /\ (\A b \in Application : Exists(b) => ~Same(application[b], row))'
      /\ Reopens(row)'
  BY DEF record, Exists, Same, Reopens, Current
<1>8. ApplicationStands(p)'
  BY <1>2, <1>4, <1>6, <1>7 DEF ApplicationStands, OfKind, lists, record, Same
<1>9. Stands(p)'
  BY <1>4, <1>8 DEF Stands, MoveStands, DecisionStands, ProposalStands, OfKind, Decides
<1>10. QED
  BY <1>1, <1>3, <1>9, ProceedKeeps

(***************************************************************************)
(* An application's keys are nobody else's, committed or inserted.         *)
(***************************************************************************)
LEMMA AskApplyKeeps ==
  ASSUME Inv, NEW p \in Actor, AskApply(p)
  PROVE  Inv'
<1>1. PICK c \in Candidate, o \in Opening :
         LET row == [candidate |-> c, opening |-> o, reopens |-> None]
         IN  /\ \A a \in Application : application[a] # row
             /\ \A q \in Actor : Inserting(q, "apply") => txn[q].row # row
             /\ InsertApplication(p, row)
  BY DEF AskApply
<1> DEFINE row == [candidate |-> c, opening |-> o, reopens |-> None]
<1>2. row \in Row
  BY DEF Row
<1>3. \A r \in Row : Same(r, row) => r = row
  BY DEF Row, Same
<1>4. \A b \in Application : Exists(b) => ~Same(application[b], row)
  BY <1>1, <1>3 DEF Inv, RecordTypes, Exists
<1>5. \A q \in Actor : q # p /\ OfKind(q, "apply") => ~Same(txn[q].row, row)
  <2> SUFFICES ASSUME NEW q \in Actor, OfKind(q, "apply")
               PROVE  ~Same(txn[q].row, row)
    OBVIOUS
  <2>1. txn[q] \in ApplyTxn /\ Inserting(q, "apply")
    BY KindTypes DEF Inv, RequestsStand, ApplicationStands, OfKind, Inserting
  <2>2. QED
    BY <1>1, <1>3, <2>1 DEF ApplyTxn
<1>6. Reopens(row) /\ InsertApplication(p, row)
  BY <1>1 DEF Reopens
<1>7. UNCHANGED <<lists, opening, record, appLock>>
  BY <1>6 DEF InsertApplication
<1> HIDE DEF row
<1>8. QED
  BY <1>2, <1>4, <1>5, <1>6, <1>7, InsertApplicationKeeps

(***************************************************************************)
(* A reversal's application reopens a rejected one that nobody else        *)
(* reopens, committed or inserted.                                         *)
(***************************************************************************)
LEMMA AskReverseKeeps ==
  ASSUME Inv, NEW p \in Actor, AskReverse(p)
  PROVE  Inv'
<1>1. PICK a \in Application :
         /\ Exists(a)
         /\ Current(a).to = Rejected[Current(a).list]
         /\ \A b \in Application : Exists(b) => application[b].reopens # a
         /\ \A q \in Actor : Inserting(q, "apply") => txn[q].row.reopens # a
         /\ InsertApplication(p, [application[a] EXCEPT !.reopens = a])
  BY DEF AskReverse, Exists
<1> DEFINE row == [application[a] EXCEPT !.reopens = a]
<1>2. /\ row \in Row
      /\ row.reopens = a
      /\ row.candidate = application[a].candidate
      /\ row.opening = application[a].opening
  BY <1>1 DEF Row, Inv, RecordTypes, Exists
<1>3. InsertApplication(p, row)
  BY <1>1
<1> HIDE DEF row
<1>4. Reopens(row)
  BY <1>1, <1>2 DEF Reopens
<1>5. \A b \in Application : Exists(b) => ~Same(application[b], row)
  BY <1>1, <1>2 DEF Same
<1>6. \A q \in Actor : q # p /\ OfKind(q, "apply") => ~Same(txn[q].row, row)
  BY <1>1, <1>2 DEF Same, Inv, RequestsStand, ApplicationStands, OfKind, Inserting
<1>7. UNCHANGED <<lists, opening, record, appLock>>
  BY <1>3 DEF InsertApplication
<1>8. QED
  BY <1>2, <1>3, <1>4, <1>5, <1>6, <1>7, InsertApplicationKeeps

-----------------------------------------------------------------------------
(* Lists, openings and commits.                                             *)

(***************************************************************************)
(* The lists in force may only grow, the status of an opening may change:  *)
(* nobody's pending request depends on either once it is inserted.         *)
(***************************************************************************)
LEMMA SurroundingsKept ==
  ASSUME Inv, UNCHANGED <<record, phase, txn, appLock>>, loaded \subseteq loaded',
         RecordTypes'
  PROVE  Inv'
<1>1. /\ application' = application /\ moves' = moves
      /\ item' = item /\ resolution' = resolution
      /\ phase' = phase /\ txn' = txn /\ appLock' = appLock
  BY DEF record
<1>2. RequestTypes'
  BY <1>1 DEF Inv, RequestTypes
<1>3. Grounded' /\ RowsStand' /\ OneLiveApplication' /\ DecisionsStand'
  BY <1>1 DEF Inv, Grounded, Moved, OfKind, RowsStand, OneLiveApplication, DecisionsStand,
     ConfirmedIsTheRejection, Confirmed, Exists, Reopened, Reopens, Same, Current
<1>4. ASSUME NEW q \in Actor
      PROVE  /\ MoveStands(q)'
             /\ DecisionStands(q)'
             /\ ProposalStands(q)'
             /\ ApplicationStands(q)'
  <2>1. MoveStands(q)'
    <3>1. MoveStands(q)
      BY DEF Inv, RequestsStand
    <3>2. QED
      BY <1>1, <3>1 DEF MoveStands, OfKind, Exists, MayMove, Current, Final
  <2>2. DecisionStands(q)'
    BY <1>1 DEF Inv, RequestsStand, DecisionStands, Decides, OfKind
  <2>3. ProposalStands(q)'
    BY <1>1 DEF Inv, RequestsStand, ProposalStands, OfKind
  <2>4. ApplicationStands(q)'
    <3>1. ApplicationStands(q)
      BY DEF Inv, RequestsStand
    <3>2. QED
      BY <1>1, <3>1 DEF ApplicationStands, OfKind, Exists, Same, Reopens, Current
  <2>5. QED
    BY <2>1, <2>2, <2>3, <2>4
<1>5. RequestsStand'
  BY <1>4 DEF RequestsStand
<1>6. QED
  BY <1>2, <1>3, <1>5 DEF Inv

(***************************************************************************)
(* A new list in force: nobody's inserted request is affected.             *)
(***************************************************************************)
LEMMA LoadListKeeps ==
  ASSUME Inv, NEW l \in List, LoadList(l)
  PROVE  Inv'
<1>1. RecordTypes'
  BY DEF LoadList, record, Inv, RecordTypes
<1>2. QED
  BY <1>1, SurroundingsKept DEF LoadList

(***************************************************************************)
(* A closed opening: nobody's inserted request is affected.                *)
(***************************************************************************)
LEMMA CloseOpeningKeeps ==
  ASSUME Inv, NEW o \in Opening, CloseOpening(o)
  PROVE  Inv'
<1>1. RecordTypes'
  BY DEF CloseOpening, lists, record, Inv, RecordTypes
<1>2. QED
  BY <1>1, SurroundingsKept DEF CloseOpening, lists

(***************************************************************************)
(* At a COMMIT p's request is over; the others' go on as they were.        *)
(***************************************************************************)
LEMMA EndEffect ==
  ASSUME Inv, NEW p \in Actor, End(p)
  PROVE  /\ RequestTypes'
         /\ Stands(p)'
         /\ \A q \in Actor : q # p => phase'[q] = phase[q] /\ txn'[q] = txn[q]
         /\ ~Decides(p)'
         /\ \A kind : ~OfKind(p, kind)'
         /\ \A a \in Application : appLock[a] \notin {None, p} => appLock'[a] = appLock[a]
<1>1. RequestTypes'
  BY EndTypes DEF Inv
<1>2. phase'[p] = "idle" /\ txn'[p] = None
  BY DEF End, Proceed, Inv, RequestTypes
<1>3. Stands(p)' /\ ~Decides(p)' /\ \A kind : ~OfKind(p, kind)'
  BY <1>2 DEF Stands, MoveStands, DecisionStands, ProposalStands, ApplicationStands, OfKind,
     Decides
<1>4. \A q \in Actor : q # p => phase'[q] = phase[q] /\ txn'[q] = txn[q]
  BY DEF End, Proceed, Inv, RequestTypes
<1>5. \A a \in Application : appLock[a] \notin {None, p} => appLock'[a] = appLock[a]
  BY DEF End
<1>6. QED
  BY <1>1, <1>3, <1>4, <1>5

(***************************************************************************)
(* What p's move does to the record when it commits.                       *)
(***************************************************************************)
NewMove(p) == [list |-> txn[p].list, from |-> txn[p].from, to |-> txn[p].to,
               reason |-> txn[p].reason, by |-> p]

(***************************************************************************)
(* The move that commits is legal at its COMMIT, its application's last    *)
(* move is now this one, and no other application's has changed.           *)
(***************************************************************************)
LEMMA CommitMoveEffect ==
  ASSUME Inv, NEW p \in Actor, CommitMove(p)
  PROVE  /\ txn[p] \in MoveTxn /\ OfKind(p, "move") /\ phase[p] = "writing"
         /\ NewMove(p) \in Move
         /\ Exists(txn[p].app) /\ Moved(txn[p].app)
         /\ appLock[txn[p].app] = p /\ MayMove(txn[p])
         /\ moves' = [moves EXCEPT ![txn[p].app] = Append(@, NewMove(p))]
         /\ resolution' = [i \in Item |->
               IF i = txn[p].item THEN [outcome |-> "confirmed", by |-> p] ELSE resolution[i]]
         /\ \A a \in Application :
               Current(a)' = IF a = txn[p].app THEN NewMove(p) ELSE Current(a)
         /\ RecordTypes'
         /\ loaded' = loaded /\ application' = application /\ item' = item
<1>1. txn[p] \in MoveTxn /\ OfKind(p, "move") /\ phase[p] = "writing" /\ MoveStands(p)
  BY KindTypes DEF CommitMove, Inserting, OfKind, Inv, RequestsStand
<1>2. NewMove(p) \in Move
  BY <1>1 DEF NewMove, Move, MoveTxn
<1>3. /\ moves' = [moves EXCEPT ![txn[p].app] = Append(@, NewMove(p))]
      /\ resolution' = [i \in Item |->
            IF i = txn[p].item THEN [outcome |-> "confirmed", by |-> p] ELSE resolution[i]]
      /\ loaded' = loaded /\ active' = active /\ opening' = opening
      /\ application' = application /\ item' = item
  BY DEF CommitMove, NewMove, lists
<1>4. txn[p].app \in Application /\ moves \in [Application -> Seq(Move)]
  BY <1>1 DEF MoveTxn, Inv, RecordTypes
<1>5. moves'[txn[p].app] = Append(moves[txn[p].app], NewMove(p))
  BY <1>3, <1>4
<1>6. ASSUME NEW a \in Application
      PROVE  Current(a)' = IF a = txn[p].app THEN NewMove(p) ELSE Current(a)
  <2>1. CASE a = txn[p].app
    <3>1. moves[a] \in Seq(Move) /\ moves'[a] = Append(moves[a], NewMove(p))
      BY <1>4, <1>5, <2>1
    <3>2. Append(moves[a], NewMove(p))[Len(Append(moves[a], NewMove(p)))] = NewMove(p)
      BY <1>2, <3>1
    <3>3. QED
      BY <2>1, <3>1, <3>2 DEF Current
  <2>2. CASE a # txn[p].app
    BY <1>3, <1>4, <2>2 DEF Current
  <2>3. QED
    BY <2>1, <2>2
<1>7. Exists(txn[p].app) /\ Moved(txn[p].app) /\ appLock[txn[p].app] = p /\ MayMove(txn[p])
  BY <1>1, <1>4 DEF MoveStands, Inv, Grounded
<1>8. RecordTypes'
  BY <1>2, <1>3, <1>4 DEF Inv, RecordTypes, Resolution
<1>9. QED
  BY <1>1, <1>2, <1>3, <1>6, <1>7, <1>8

(***************************************************************************)
(* A rejected application is not the one that moves.                       *)
(***************************************************************************)
LEMMA RejectedStays ==
  ASSUME Inv, NEW p \in Actor, CommitMove(p), NEW a \in Application,
         Current(a).to = Rejected[Current(a).list]
  PROVE  a # txn[p].app /\ Current(a)' = Current(a)
<1>1. a # txn[p].app
  BY CommitMoveEffect DEF MayMove, Final
<1>2. QED
  BY <1>1, CommitMoveEffect

(***************************************************************************)
(* p's item, if its move confirms one, is still open and nobody else's.    *)
(***************************************************************************)
LEMMA CommitMoveItem ==
  ASSUME Inv, NEW p \in Actor, CommitMove(p), txn[p].item # None
  PROVE  /\ txn[p].item \in Item /\ Decides(p)
         /\ item[txn[p].item] # None
         /\ item[txn[p].item].app = txn[p].app
         /\ item[txn[p].item].reason = txn[p].reason
         /\ txn[p].to = Rejected[txn[p].list]
         /\ resolution[txn[p].item] = None
         /\ \A q \in Actor : q # p /\ Decides(q) => txn[q].item # txn[p].item
<1>1. txn[p] \in MoveTxn /\ OfKind(p, "move") /\ phase[p] = "writing"
  BY CommitMoveEffect
<1>2. MoveStands(p) /\ DecisionStands(p)
  BY DEF Inv, RequestsStand
<1>3. Decides(p) /\ txn[p].item \in Item
  BY <1>1 DEF Decides, MoveTxn
<1>4. QED
  BY <1>1, <1>2, <1>3 DEF MoveStands, DecisionStands

(***************************************************************************)
(* A committed move, with the decision it carries out: the others'         *)
(* inserted moves are of other applications, and nothing that had been     *)
(* rejected has moved.                                                     *)
(***************************************************************************)
LEMMA CommitMoveKeeps ==
  ASSUME Inv, NEW p \in Actor, CommitMove(p)
  PROVE  Inv'
<1>1. /\ moves' = [moves EXCEPT ![txn[p].app] = Append(@, NewMove(p))]
      /\ resolution' = [i \in Item |->
            IF i = txn[p].item THEN [outcome |-> "confirmed", by |-> p] ELSE resolution[i]]
      /\ loaded' = loaded /\ application' = application /\ item' = item
      /\ RecordTypes'
      /\ txn[p] \in MoveTxn /\ appLock[txn[p].app] = p /\ txn[p].app \in Application
  BY CommitMoveEffect DEF MoveTxn
<1>2. \A a \in Application : Exists(a)' = Exists(a)
  BY <1>1 DEF Exists
<1>3. End(p)
  BY DEF CommitMove
<1>4. /\ RequestTypes'
      /\ Stands(p)'
      /\ \A q \in Actor : q # p => phase'[q] = phase[q] /\ txn'[q] = txn[q]
      /\ ~Decides(p)'
      /\ \A kind : ~OfKind(p, kind)'
      /\ \A a \in Application : appLock[a] \notin {None, p} => appLock'[a] = appLock[a]
  BY <1>3, EndEffect
<1>5. Grounded'
  <2>1. ASSUME NEW a \in Application, Exists(a) PROVE moves'[a] # <<>>
    <3>1. moves[a] # <<>> /\ moves[a] \in Seq(Move) /\ moves \in [Application -> Seq(Move)]
      BY <2>1 DEF Inv, Grounded, Moved, RecordTypes
    <3>2. Append(moves[a], NewMove(p)) # <<>>
      BY <3>1, CommitMoveEffect
    <3>3. QED
      BY <1>1, <3>1, <3>2
  <2>2. \A q \in Actor : OfKind(q, "propose")' => application[txn'[q].app] # None
    BY <1>4 DEF Inv, Grounded, OfKind, Exists
  <2>3. QED
    BY <1>1, <2>1, <2>2 DEF Inv, Grounded, Exists, Moved
<1>6. ASSUME NEW row \in Row, Reopens(row) PROVE Reopens(row)'
  BY <1>1, <1>6, RejectedStays DEF Reopens, Row, Exists
<1>7. ASSUME NEW q \in Actor, q # p
      PROVE  /\ MoveStands(q)'
             /\ DecisionStands(q)'
             /\ ProposalStands(q)'
             /\ ApplicationStands(q)'
  <2>1. phase'[q] = phase[q] /\ txn'[q] = txn[q]
    BY <1>4, <1>7
  <2>2. MoveStands(q) /\ DecisionStands(q) /\ ProposalStands(q) /\ ApplicationStands(q)
    BY DEF Inv, RequestsStand
  <2>3. MoveStands(q)'
    <3> SUFFICES ASSUME OfKind(q, "move") PROVE MoveStands(q)'
      BY <2>1 DEF MoveStands, OfKind
    <3>1. txn[q].app \in Application
      BY KindTypes DEF Inv, MoveTxn
    <3>2. appLock[txn[q].app] = q =>
             /\ appLock'[txn[q].app] = q
             /\ txn[q].app # txn[p].app
             /\ moves'[txn[q].app] = moves[txn[q].app]
      <4>1. q # None /\ moves \in [Application -> Seq(Move)]
        BY NoneAssumption DEF Inv, RecordTypes
      <4>2. QED
        BY <1>1, <1>4, <1>7, <3>1, <4>1
    <3>3. appLock[txn[q].app] = q /\ MayMove(txn[q]) => MayMove(txn[q])'
      BY <2>1, <3>2 DEF MayMove, Current, Final
    <3>4. QED
      BY <1>1, <2>1, <2>2, <3>2, <3>3 DEF MoveStands, OfKind, Exists
  <2>4. DecisionStands(q)'
    <3>1. Decides(q) => txn[q].item \in Item /\ txn[q].item # txn[p].item
      BY <1>7, CommitMoveItem, KindTypes DEF Decides, Inv, MoveTxn, DismissTxn
    <3>2. Decides(q)' = Decides(q) /\ OfKind(q, "dismiss")' = OfKind(q, "dismiss")
      BY <2>1 DEF Decides, OfKind
    <3>3. Decides(q) => resolution'[txn[q].item] = None
      BY <1>1, <2>2, <3>1 DEF DecisionStands
    <3>4. \A r \in Actor : r # q /\ Decides(r)' /\ Decides(q) => txn'[r].item # txn[q].item
      BY <1>4, <2>2 DEF DecisionStands, Decides, OfKind
    <3>5. QED
      BY <1>1, <2>1, <2>2, <3>2, <3>3, <3>4 DEF DecisionStands
  <2>5. ProposalStands(q)'
    BY <1>1, <1>4, <2>1, <2>2 DEF ProposalStands, OfKind
  <2>6. ApplicationStands(q)'
    <3> SUFFICES ASSUME OfKind(q, "apply") PROVE ApplicationStands(q)'
      BY <2>1 DEF ApplicationStands, OfKind
    <3>1. PICK row \in Row : row = txn[q].row
      BY KindTypes DEF Inv, ApplyTxn
    <3>2. Reopens(row)'
      BY <1>6, <2>2, <3>1 DEF ApplicationStands
    <3>3. \A r \in Actor : r # q /\ OfKind(r, "apply")' =>
             txn'[r].app # txn[q].app /\ ~Same(txn'[r].row, row)
      BY <1>4, <2>2, <3>1 DEF ApplicationStands, OfKind
    <3>4. \A b \in Application : application'[b] # None => ~Same(application'[b], row)
      BY <1>1, <2>2, <3>1 DEF ApplicationStands, Exists
    <3>5. /\ phase[q] = "writing" /\ application'[txn[q].app] = None
          /\ txn[q].list \in loaded'
      BY <1>1, <2>2 DEF ApplicationStands
    <3>6. Reopens(txn[q].row)'
      BY <2>1, <3>1, <3>2 DEF Reopens, Exists, Current
    <3>7. QED
      BY <2>1, <3>1, <3>3, <3>4, <3>5, <3>6 DEF ApplicationStands, Exists, Same
  <2>7. QED
    BY <2>3, <2>4, <2>5, <2>6
<1>8. RequestsStand'
  BY <1>4, <1>7 DEF RequestsStand, Stands
<1>9. RowsStand'
  <2>1. \A a \in Application : Exists(a)' => Reopens(application[a])'
    BY <1>1, <1>6 DEF Inv, RowsStand, RecordTypes, Exists
  <2>2. QED
    BY <1>1, <2>1 DEF Inv, RowsStand, Exists, Same, Reopens, Current
<1>10. OneLiveApplication'
  BY <1>1 DEF Inv, OneLiveApplication, Exists, Reopened
<1>11. DecisionsStand'
  <2>1. ASSUME NEW i \in Item, Confirmed(i), i # txn[p].item
        PROVE  item[i].app # txn[p].app /\ Current(item[i].app)' = Current(item[i].app)
    <3>1. item[i] # None /\ item[i] \in ItemRow
      BY <2>1 DEF Inv, DecisionsStand, Confirmed, RecordTypes
    <3>2. Current(item[i].app).to = Rejected[Current(item[i].app).list]
      BY <2>1 DEF Inv, DecisionsStand, ConfirmedIsTheRejection
    <3>3. PICK a \in Application : a = item[i].app
      BY <3>1 DEF ItemRow
    <3>4. a # txn[p].app /\ Current(a)' = Current(a)
      BY <3>2, <3>3, RejectedStays
    <3>5. QED
      BY <1>1, <3>3, <3>4 DEF Current
  <2>2. \A i \in Item : i # txn[p].item =>
           resolution'[i] = resolution[i] /\ Confirmed(i)' = Confirmed(i)
    BY <1>1 DEF Confirmed
  <2>3. ASSUME NEW i \in Item, i = txn[p].item
        PROVE  /\ item[i].app = txn[p].app /\ item[i] # None
               /\ resolution'[i].by = p
               /\ Current(item[i].app)' = NewMove(p)
               /\ NewMove(p).to = Rejected[NewMove(p).list]
               /\ NewMove(p).reason = item[i].reason
    BY <1>1, <2>3, CommitMoveItem, CommitMoveEffect, NoneAssumption DEF NewMove
  <2>4. ASSUME NEW i \in Item, Confirmed(i)'
        PROVE  /\ Current(item[i].app)'.to = Rejected[Current(item[i].app)'.list]
               /\ Current(item[i].app)'.reason = item[i].reason
               /\ Current(item[i].app)'.by = resolution'[i].by
               /\ \A j \in Item \ {i} : Confirmed(j)' => item[j].app # item[i].app
    <3>1. CASE i = txn[p].item
      BY <2>1, <2>2, <2>3, <3>1 DEF NewMove
    <3>2. CASE i # txn[p].item
      BY <2>1, <2>2, <2>3, <2>4, <3>2 DEF Inv, DecisionsStand, ConfirmedIsTheRejection
    <3>3. QED
      BY <3>1, <3>2
  <2>5. ConfirmedIsTheRejection'
    BY <1>1, <2>4 DEF ConfirmedIsTheRejection, Current
  <2>6. \A i \in Item : resolution'[i] # None => item[i] # None
    BY <2>2, <2>3 DEF Inv, DecisionsStand
  <2>7. QED
    BY <1>1, <2>5, <2>6 DEF DecisionsStand
<1>12. QED
  BY <1>1, <1>4, <1>5, <1>8, <1>9, <1>10, <1>11 DEF Inv

(***************************************************************************)
(* A committed dismissal: the item was open and nobody else decides it.    *)
(***************************************************************************)
LEMMA CommitDismissalKeeps ==
  ASSUME Inv, NEW p \in Actor, CommitDismissal(p)
  PROVE  Inv'
<1>1. /\ txn[p] \in DismissTxn /\ phase[p] = "writing" /\ OfKind(p, "dismiss")
      /\ DecisionStands(p)
  BY KindTypes DEF CommitDismissal, Inserting, OfKind, Inv, RequestsStand
<1>2. PICK i \in Item : i = txn[p].item
  BY <1>1 DEF DismissTxn
<1>3. Decides(p) /\ item[i] # None /\ resolution[i] = None
  BY <1>1, <1>2, NoneAssumption DEF DecisionStands, Decides
<1>4. /\ loaded' = loaded /\ active' = active /\ opening' = opening
      /\ application' = application /\ moves' = moves /\ item' = item
      /\ resolution' = [resolution EXCEPT ![i] = [outcome |-> "dismissed", by |-> p]]
      /\ End(p)
  BY <1>2 DEF CommitDismissal, lists
<1>5. /\ RequestTypes'
      /\ Stands(p)'
      /\ \A q \in Actor : q # p => phase'[q] = phase[q] /\ txn'[q] = txn[q]
      /\ ~Decides(p)'
      /\ \A kind : ~OfKind(p, kind)'
      /\ \A a \in Application : appLock[a] \notin {None, p} => appLock'[a] = appLock[a]
  BY <1>4, EndEffect
<1>6. RecordTypes'
  BY <1>4 DEF Inv, RecordTypes, Resolution
<1>7. resolution'[i] = [outcome |-> "dismissed", by |-> p]
      /\ \A j \in Item : j # i => resolution'[j] = resolution[j]
  BY <1>4 DEF Inv, RecordTypes
<1>8. Grounded'
  BY <1>4, <1>5 DEF Inv, Grounded, OfKind, Exists, Moved
<1>9. ASSUME NEW q \in Actor, q # p
      PROVE  /\ MoveStands(q)'
             /\ DecisionStands(q)'
             /\ ProposalStands(q)'
             /\ ApplicationStands(q)'
  <2>1. phase'[q] = phase[q] /\ txn'[q] = txn[q]
    BY <1>5, <1>9
  <2>2. MoveStands(q) /\ DecisionStands(q) /\ ProposalStands(q) /\ ApplicationStands(q)
    BY DEF Inv, RequestsStand
  <2>3. MoveStands(q)'
    <3> SUFFICES ASSUME OfKind(q, "move") PROVE MoveStands(q)'
      BY <2>1 DEF MoveStands, OfKind
    <3>1. txn[q].app \in Application /\ q # None
      BY KindTypes, NoneAssumption DEF Inv, MoveTxn
    <3>2. appLock[txn[q].app] = q => appLock'[txn[q].app] = q
      BY <1>5, <1>9, <3>1
    <3>3. QED
      BY <1>4, <2>1, <2>2, <3>2 DEF MoveStands, OfKind, Exists, MayMove, Current, Final
  <2>4. DecisionStands(q)'
    <3>1. Decides(q) => txn[q].item \in Item /\ txn[q].item # i
      BY <1>1, <1>2, <1>3, <1>9, KindTypes
      DEF DecisionStands, Decides, Inv, MoveTxn, DismissTxn
    <3>2. Decides(q)' = Decides(q) /\ OfKind(q, "dismiss")' = OfKind(q, "dismiss")
      BY <2>1 DEF Decides, OfKind
    <3>3. Decides(q) => resolution'[txn[q].item] = None
      BY <1>7, <2>2, <3>1 DEF DecisionStands
    <3>4. \A r \in Actor : r # q /\ Decides(r)' /\ Decides(q) => txn'[r].item # txn[q].item
      BY <1>5, <2>2 DEF DecisionStands, Decides, OfKind
    <3>5. QED
      BY <1>4, <2>1, <2>2, <3>2, <3>3, <3>4 DEF DecisionStands
  <2>5. ProposalStands(q)'
    BY <1>4, <1>5, <2>1, <2>2 DEF ProposalStands, OfKind
  <2>6. ApplicationStands(q)'
    <3>1. \A r \in Actor : r # q /\ OfKind(r, "apply")' /\ OfKind(q, "apply") =>
             txn'[r].app # txn[q].app /\ ~Same(txn'[r].row, txn[q].row)
      BY <1>5, <2>2 DEF ApplicationStands, OfKind
    <3>2. QED
      BY <1>4, <2>1, <2>2, <3>1 DEF ApplicationStands, OfKind, Same, Reopens, Exists, Current
  <2>7. QED
    BY <2>3, <2>4, <2>5, <2>6
<1>10. RequestsStand'
  BY <1>5, <1>9 DEF RequestsStand, Stands
<1>11. RowsStand' /\ OneLiveApplication'
  BY <1>4 DEF Inv, RowsStand, OneLiveApplication, Exists, Reopened, Reopens, Same, Current
<1>12. DecisionsStand'
  <2>1. \A j \in Item : Confirmed(j)' => Confirmed(j) /\ j # i
    BY <1>7 DEF Confirmed
  <2>2. \A j \in Item : resolution'[j] # None => item[j] # None
    BY <1>3, <1>7 DEF Inv, DecisionsStand
  <2>3. ConfirmedIsTheRejection'
    BY <1>4, <1>7, <2>1 DEF Inv, DecisionsStand, ConfirmedIsTheRejection, Current
  <2>4. QED
    BY <1>4, <2>2, <2>3 DEF DecisionsStand
<1>13. QED
  BY <1>5, <1>6, <1>8, <1>10, <1>11, <1>12 DEF Inv

(***************************************************************************)
(* A committed proposal: its item is new to everybody.                     *)
(***************************************************************************)
LEMMA CommitProposalKeeps ==
  ASSUME Inv, NEW p \in Actor, CommitProposal(p)
  PROVE  Inv'
<1>1. /\ txn[p] \in ProposeTxn /\ OfKind(p, "propose") /\ ProposalStands(p)
      /\ Exists(txn[p].app)
  BY KindTypes DEF CommitProposal, Inserting, OfKind, Inv, RequestsStand, Grounded
<1>2. PICK i \in Item : i = txn[p].item
  BY <1>1 DEF ProposeTxn
<1> DEFINE new == [app |-> txn[p].app, reason |-> txn[p].reason]
<1>3. new \in ItemRow /\ new # None /\ Exists(new.app) /\ item[i] = None
  BY <1>1, <1>2, NoneAssumption DEF ProposeTxn, ItemRow, ProposalStands
<1>4. /\ loaded' = loaded /\ active' = active /\ opening' = opening
      /\ application' = application /\ moves' = moves /\ resolution' = resolution
      /\ item' = [item EXCEPT ![i] = new]
      /\ End(p)
  BY <1>2 DEF CommitProposal, lists
<1> HIDE DEF new
<1>5. /\ RequestTypes'
      /\ Stands(p)'
      /\ \A q \in Actor : q # p => phase'[q] = phase[q] /\ txn'[q] = txn[q]
      /\ ~Decides(p)'
      /\ \A kind : ~OfKind(p, kind)'
      /\ \A a \in Application : appLock[a] \notin {None, p} => appLock'[a] = appLock[a]
  BY <1>4, EndEffect
<1>6. RecordTypes'
  BY <1>3, <1>4 DEF Inv, RecordTypes
<1>7. item'[i] = new /\ \A j \in Item : j # i => item'[j] = item[j]
  BY <1>4 DEF Inv, RecordTypes
<1>8. Grounded'
  <2>1. \A q \in Actor : OfKind(q, "propose")' => application[txn'[q].app] # None
    BY <1>5 DEF Inv, Grounded, OfKind, Exists
  <2>2. \A j \in Item : item'[j] # None => application[item'[j].app] # None
    BY <1>3, <1>7 DEF Inv, Grounded, Exists
  <2>3. QED
    BY <1>4, <2>1, <2>2 DEF Inv, Grounded, Exists, Moved
<1>9. ASSUME NEW q \in Actor, q # p
      PROVE  /\ MoveStands(q)'
             /\ DecisionStands(q)'
             /\ ProposalStands(q)'
             /\ ApplicationStands(q)'
  <2>1. phase'[q] = phase[q] /\ txn'[q] = txn[q]
    BY <1>5, <1>9
  <2>2. MoveStands(q) /\ DecisionStands(q) /\ ProposalStands(q) /\ ApplicationStands(q)
    BY DEF Inv, RequestsStand
  <2>3. MoveStands(q)'
    <3> SUFFICES ASSUME OfKind(q, "move") PROVE MoveStands(q)'
      BY <2>1 DEF MoveStands, OfKind
    <3>1. txn[q].app \in Application /\ txn[q].item \in Item \cup {None} /\ q # None
      BY KindTypes, NoneAssumption DEF Inv, MoveTxn
    <3>2. appLock[txn[q].app] = q => appLock'[txn[q].app] = q
      BY <1>5, <1>9, <3>1
    <3>3. txn[q].item # None => item'[txn[q].item] = item[txn[q].item]
      BY <1>3, <1>7, <2>2, <3>1 DEF MoveStands
    <3>4. QED
      BY <1>4, <2>1, <2>2, <3>2, <3>3 DEF MoveStands, OfKind, Exists, MayMove, Current, Final
  <2>4. DecisionStands(q)'
    <3>1. OfKind(q, "dismiss") => txn[q].item \in Item
      BY KindTypes DEF Inv, DismissTxn
    <3>2. OfKind(q, "dismiss") => item'[txn[q].item] # None
      BY <1>3, <1>7, <2>2, <3>1 DEF DecisionStands
    <3>3. \A r \in Actor : r # q /\ Decides(r)' /\ Decides(q) => txn'[r].item # txn[q].item
      BY <1>5, <2>2 DEF DecisionStands, Decides, OfKind
    <3>4. QED
      BY <1>4, <2>1, <2>2, <3>2, <3>3 DEF DecisionStands, Decides, OfKind
  <2>5. ProposalStands(q)'
    <3> SUFFICES ASSUME OfKind(q, "propose") PROVE ProposalStands(q)'
      BY <2>1 DEF ProposalStands, OfKind
    <3>1. txn[q].item \in Item
      BY KindTypes DEF Inv, ProposeTxn
    <3>2. txn[q].item # i
      BY <1>1, <1>2, <1>9 DEF ProposalStands
    <3>3. item'[txn[q].item] = None
      BY <1>7, <2>2, <3>1, <3>2 DEF ProposalStands
    <3>4. QED
      BY <1>4, <1>5, <2>1, <2>2, <3>3 DEF ProposalStands, OfKind
  <2>6. ApplicationStands(q)'
    <3>1. \A r \in Actor : r # q /\ OfKind(r, "apply")' /\ OfKind(q, "apply") =>
             txn'[r].app # txn[q].app /\ ~Same(txn'[r].row, txn[q].row)
      BY <1>5, <2>2 DEF ApplicationStands, OfKind
    <3>2. QED
      BY <1>4, <2>1, <2>2, <3>1 DEF ApplicationStands, OfKind, Same, Reopens, Exists, Current
  <2>7. QED
    BY <2>3, <2>4, <2>5, <2>6
<1>10. RequestsStand'
  BY <1>5, <1>9 DEF RequestsStand, Stands
<1>11. RowsStand' /\ OneLiveApplication'
  BY <1>4 DEF Inv, RowsStand, OneLiveApplication, Exists, Reopened, Reopens, Same, Current
<1>12. DecisionsStand'
  <2>1. \A j \in Item : resolution[j] # None => item[j] # None /\ item'[j] = item[j]
    BY <1>3, <1>7 DEF Inv, DecisionsStand
  <2>2. \A j \in Item : Confirmed(j)' = Confirmed(j)
    BY <1>4 DEF Confirmed
  <2>3. \A j \in Item : Confirmed(j) => item'[j] = item[j]
    BY <2>1 DEF Confirmed
  <2>4. ConfirmedIsTheRejection'
    BY <1>4, <2>2, <2>3 DEF Inv, DecisionsStand, ConfirmedIsTheRejection, Current
  <2>5. QED
    BY <1>4, <2>1, <2>4 DEF DecisionsStand
<1>13. QED
  BY <1>5, <1>6, <1>8, <1>10, <1>11, <1>12 DEF Inv

(***************************************************************************)
(* The new application's keys are its own, and whatever of the same        *)
(* candidate and opening was there has been reopened, or is by this one.   *)
(***************************************************************************)
LEMMA CommitApplicationKeeps ==
  ASSUME Inv, NEW p \in Actor, CommitApplication(p)
  PROVE  Inv'
<1>1. /\ txn[p] \in ApplyTxn /\ OfKind(p, "apply") /\ ApplicationStands(p)
  BY KindTypes DEF CommitApplication, Inserting, OfKind, Inv, RequestsStand
<1>2. PICK new \in Application, row \in Row, l \in List :
         new = txn[p].app /\ row = txn[p].row /\ l = txn[p].list
  BY <1>1 DEF ApplyTxn
<1> DEFINE first == [list |-> l, from |-> None, to |-> FirstStep[l], reason |-> None,
                     by |-> p]
<1>3. first \in Move
  BY ListAssumption DEF Move
<1>4. /\ application[new] = None /\ row # None /\ Reopens(row)
      /\ \A b \in Application : Exists(b) => ~Same(application[b], row)
  BY <1>1, <1>2, NoneAssumption DEF ApplicationStands
<1>5. /\ loaded' = loaded /\ active' = active /\ opening' = opening
      /\ item' = item /\ resolution' = resolution
      /\ application' = [application EXCEPT ![new] = row]
      /\ moves' = [moves EXCEPT ![new] = <<first>>]
      /\ End(p)
  BY <1>2 DEF CommitApplication, lists
<1> HIDE DEF first
<1>6. /\ RequestTypes'
      /\ Stands(p)'
      /\ \A q \in Actor : q # p => phase'[q] = phase[q] /\ txn'[q] = txn[q]
      /\ ~Decides(p)'
      /\ \A kind : ~OfKind(p, kind)'
      /\ \A a \in Application : appLock[a] \notin {None, p} => appLock'[a] = appLock[a]
  BY <1>5, EndEffect
<1>7. RecordTypes'
  BY <1>3, <1>5 DEF Inv, RecordTypes
<1>8. /\ application'[new] = row /\ moves'[new] = <<first>>
      /\ \A a \in Application : a # new => application'[a] = application[a]
                                         /\ moves'[a] = moves[a]
  BY <1>5 DEF Inv, RecordTypes
<1>9. \A a \in Application : Exists(a) => /\ a # new
                                          /\ application'[a] = application[a]
                                          /\ moves'[a] = moves[a]
  BY <1>4, <1>8 DEF Exists
<1>10. Grounded'
  <2>1. \A q \in Actor : OfKind(q, "propose")' => application'[txn'[q].app] # None
    <3> SUFFICES ASSUME NEW q \in Actor, OfKind(q, "propose")'
                 PROVE  application'[txn'[q].app] # None
      OBVIOUS
    <3>1. txn'[q] = txn[q] /\ OfKind(q, "propose")
      BY <1>6 DEF OfKind
    <3>2. txn[q].app \in Application /\ Exists(txn[q].app)
      BY <3>1, KindTypes DEF Inv, Grounded, ProposeTxn
    <3>3. QED
      BY <1>9, <3>1, <3>2 DEF Exists
  <2>2. \A i \in Item : item[i] # None => application'[item[i].app] # None
    BY <1>9 DEF Inv, Grounded, Exists, RecordTypes, ItemRow
  <2>3. \A a \in Application : application'[a] # None => moves'[a] # <<>>
    BY <1>8 DEF Inv, Grounded, Exists, Moved
  <2>4. QED
    BY <1>5, <2>1, <2>2, <2>3 DEF Grounded, Exists, Moved
<1>11. ASSUME NEW r \in Row, Reopens(r) PROVE Reopens(r)'
  BY <1>9, <1>11 DEF Reopens, Row, Exists, Current
<1>12. ASSUME NEW q \in Actor, q # p
       PROVE  /\ MoveStands(q)'
              /\ DecisionStands(q)'
              /\ ProposalStands(q)'
              /\ ApplicationStands(q)'
  <2>1. phase'[q] = phase[q] /\ txn'[q] = txn[q]
    BY <1>6, <1>12
  <2>2. MoveStands(q) /\ DecisionStands(q) /\ ProposalStands(q) /\ ApplicationStands(q)
    BY DEF Inv, RequestsStand
  <2>3. MoveStands(q)'
    <3> SUFFICES ASSUME OfKind(q, "move") PROVE MoveStands(q)'
      BY <2>1 DEF MoveStands, OfKind
    <3>1. txn[q].app \in Application /\ Exists(txn[q].app) /\ q # None
      BY <2>2, KindTypes, NoneAssumption DEF Inv, MoveTxn, MoveStands
    <3>2. /\ application'[txn[q].app] = application[txn[q].app]
          /\ moves'[txn[q].app] = moves[txn[q].app]
          /\ appLock[txn[q].app] = q => appLock'[txn[q].app] = q
      BY <1>6, <1>9, <1>12, <3>1
    <3>3. MayMove(txn[q]) => MayMove(txn[q])'
      BY <2>1, <3>2 DEF MayMove, Current, Final
    <3>4. QED
      BY <1>5, <2>1, <2>2, <3>2, <3>3 DEF MoveStands, OfKind, Exists
  <2>4. DecisionStands(q)'
    <3>1. \A r \in Actor : r # q /\ Decides(r)' /\ Decides(q) => txn'[r].item # txn[q].item
      BY <1>6, <2>2 DEF DecisionStands, Decides, OfKind
    <3>2. QED
      BY <1>5, <2>1, <2>2, <3>1 DEF DecisionStands, Decides, OfKind
  <2>5. ProposalStands(q)'
    BY <1>5, <1>6, <2>1, <2>2 DEF ProposalStands, OfKind
  <2>6. ApplicationStands(q)'
    <3> SUFFICES ASSUME OfKind(q, "apply") PROVE ApplicationStands(q)'
      BY <2>1 DEF ApplicationStands, OfKind
    <3>1. PICK r \in Row : r = txn[q].row
      BY KindTypes DEF Inv, ApplyTxn
    <3>2. Reopens(r)'
      BY <1>11, <2>2, <3>1 DEF ApplicationStands
    <3>3. \A s \in Actor : s # q /\ OfKind(s, "apply")' =>
             txn'[s].app # txn[q].app /\ ~Same(txn'[s].row, r)
      BY <1>6, <2>2, <3>1 DEF ApplicationStands, OfKind
    <3>4. txn[q].app \in Application /\ txn[q].app # new /\ ~Same(row, r)
      BY <1>1, <1>2, <1>12, <2>2, <3>1, KindTypes DEF ApplicationStands, Inv, ApplyTxn
    <3>5. \A b \in Application : application'[b] # None => ~Same(application'[b], r)
      BY <1>8, <2>2, <3>1, <3>4 DEF ApplicationStands, Exists
    <3>6. /\ phase[q] = "writing" /\ application'[txn[q].app] = None
          /\ txn[q].list \in loaded'
      BY <1>5, <1>8, <2>2, <3>4 DEF ApplicationStands
    <3>7. Reopens(txn[q].row)'
      BY <2>1, <3>1, <3>2 DEF Reopens, Exists, Current
    <3>8. QED
      BY <2>1, <3>1, <3>3, <3>5, <3>6, <3>7 DEF ApplicationStands, Exists, Same
  <2>7. QED
    BY <2>3, <2>4, <2>5, <2>6
<1>13. RequestsStand'
  BY <1>6, <1>12 DEF RequestsStand, Stands
<1>14. PICK root \in Application \cup {None} :
          row.reopens # None =>
             /\ root = row.reopens /\ Exists(root) /\ root \in Application
             /\ application[root].candidate = row.candidate
             /\ application[root].opening = row.opening
  BY <1>4 DEF Reopens, Row
<1>15. RowsStand'
  <2>1. \A a, b \in Application : application'[a] # None /\ application'[b] # None /\ a # b =>
           ~Same(application'[a], application'[b])
    BY <1>4, <1>8 DEF Inv, RowsStand, Exists, Same
  <2>2. ASSUME NEW a \in Application, Exists(a)' PROVE Reopens(application[a])'
    <3>1. PICK r \in Row : r = application'[a]
      BY <1>7, <2>2 DEF RecordTypes, Exists
    <3>2. Reopens(r)
      BY <1>4, <1>8, <2>2, <3>1 DEF Inv, RowsStand, Exists
    <3>3. Reopens(r)'
      BY <1>11, <3>2
    <3>4. QED
      BY <3>1, <3>3 DEF Reopens, Exists, Current
  <2>3. ASSUME NEW a \in Application, Exists(a)'
        PROVE  \E b \in Application : /\ application'[b] # None
                                      /\ application'[b].candidate = application'[a].candidate
                                      /\ application'[b].opening = application'[a].opening
                                      /\ application'[b].reopens = None
    <3>1. \A c \in Application : Exists(c) =>
             \E b \in Application : /\ application'[b] # None
                                    /\ application'[b].candidate = application[c].candidate
                                    /\ application'[b].opening = application[c].opening
                                    /\ application'[b].reopens = None
      BY <1>9 DEF Inv, RowsStand, Exists
    <3>2. CASE a # new
      BY <1>8, <2>3, <3>1, <3>2 DEF Exists
    <3>3. CASE a = new /\ row.reopens = None
      BY <1>4, <1>8, <3>3
    <3>4. CASE a = new /\ row.reopens # None
      BY <1>8, <1>14, <3>1, <3>4
    <3>5. QED
      BY <3>2, <3>3, <3>4
  <2>4. QED
    BY <2>1, <2>2, <2>3 DEF RowsStand, Exists, Same
<1>16. \A d \in Application : Reopened(d) => Reopened(d)'
  BY <1>9 DEF Reopened, Exists
<1>17. ASSUME NEW b \in Application, Exists(b),
              application[b].candidate = row.candidate, application[b].opening = row.opening
       PROVE  Reopened(b)'
  <2>1. CASE row.reopens = None
    <3>1. PICK c \in Application : /\ Exists(c)
                                   /\ application[c].candidate = row.candidate
                                   /\ application[c].opening = row.opening
                                   /\ application[c].reopens = None
      BY <1>17 DEF Inv, RowsStand
    <3>2. QED
      BY <1>4, <2>1, <3>1 DEF Same
  <2>2. CASE row.reopens # None /\ b = root
    BY <1>4, <1>8, <1>14, <2>2 DEF Reopened, Exists
  <2>3. CASE row.reopens # None /\ b # root
    <3>1. Reopened(b) \/ Reopened(root)
      BY <1>14, <1>17, <2>3 DEF Inv, OneLiveApplication
    <3>2. ~Reopened(root)
      <4> SUFFICES ASSUME NEW c \in Application, Exists(c), application[c].reopens = root
                   PROVE  FALSE
        BY DEF Reopened
      <4>1. root # None
        BY <1>14, <2>3
      <4>2. application[root].candidate = application[c].candidate
            /\ application[root].opening = application[c].opening
        BY <4>1 DEF Inv, RowsStand, Reopens
      <4>3. Same(application[c], row)
        BY <1>14, <2>3, <4>2 DEF Same
      <4>4. QED
        BY <1>4, <4>3
    <3>3. QED
      BY <1>16, <3>1, <3>2
  <2>4. QED
    BY <2>1, <2>2, <2>3
<1>18. OneLiveApplication'
  <2> SUFFICES ASSUME NEW a \in Application, NEW b \in Application,
                      application'[a] # None, application'[b] # None, a # b,
                      application'[a].candidate = application'[b].candidate,
                      application'[a].opening = application'[b].opening
               PROVE  Reopened(a)' \/ Reopened(b)'
    BY DEF OneLiveApplication, Exists
  <2>1. CASE a = new
    BY <1>8, <1>17, <2>1 DEF Exists
  <2>2. CASE b = new
    BY <1>8, <1>17, <2>2 DEF Exists
  <2>3. CASE a # new /\ b # new
    BY <1>8, <1>16, <2>3 DEF Inv, OneLiveApplication, Exists
  <2>4. QED
    BY <2>1, <2>2, <2>3
<1>19. DecisionsStand'
  <2>1. ASSUME NEW i \in Item, Confirmed(i)
        PROVE  moves'[item[i].app] = moves[item[i].app]
    BY <1>9, <2>1 DEF Inv, DecisionsStand, Confirmed, Grounded, RecordTypes, ItemRow
  <2>2. \A i \in Item : Confirmed(i)' = Confirmed(i)
    BY <1>5 DEF Confirmed
  <2>3. ConfirmedIsTheRejection'
    <3>1. ConfirmedIsTheRejection
      BY DEF Inv, DecisionsStand
    <3>2. item' = item /\ resolution' = resolution
      BY <1>5
    <3>3. QED
      BY ONLY <2>1, <2>2, <3>1, <3>2 DEF ConfirmedIsTheRejection, Current
  <2>4. QED
    BY <1>5, <2>3 DEF Inv, DecisionsStand
<1>20. QED
  BY <1>6, <1>7, <1>10, <1>13, <1>15, <1>18, <1>19 DEF Inv

-----------------------------------------------------------------------------
(* The invariant holds.                                                     *)

(***************************************************************************)
(* It holds in the empty database with the seeded list in force.           *)
(***************************************************************************)
LEMMA InitInv == Init => Inv
<1> SUFFICES ASSUME Init PROVE Inv
  OBVIOUS
<1>1. RecordTypes
  BY ListAssumption DEF Init, RecordTypes
<1>2. RequestTypes
  BY DEF Init, RequestTypes, Fits, Phase
<1>3. Grounded /\ RowsStand /\ OneLiveApplication /\ DecisionsStand
  BY DEF Init, Grounded, RowsStand, OneLiveApplication, DecisionsStand, Exists, OfKind,
     ConfirmedIsTheRejection, Confirmed
<1>4. RequestsStand
  BY DEF Init, RequestsStand, MoveStands, DecisionStands, ProposalStands, ApplicationStands,
     OfKind, Decides
<1>5. QED
  BY <1>1, <1>2, <1>3, <1>4 DEF Inv

(***************************************************************************)
(* No step of any request, in any interleaving, breaks the invariant.      *)
(***************************************************************************)
LEMMA StepInv == Inv /\ [Next]_vars => Inv'
<1> SUFFICES ASSUME Inv, [Next]_vars PROVE Inv'
  OBVIOUS
<1>1. ASSUME NEW l \in List, LoadList(l) PROVE Inv'
  BY <1>1, LoadListKeeps
<1>2. ASSUME NEW o \in Opening, CloseOpening(o) PROVE Inv'
  BY <1>2, CloseOpeningKeeps
<1>3. ASSUME NEW p \in Actor, Ask(p) PROVE Inv'
  BY <1>3, AskMoveKeeps, AskConfirmKeeps, AskDismissKeeps, AskProposeKeeps, AskApplyKeeps,
     AskReverseKeeps DEF Ask
<1>4. ASSUME NEW p \in Actor, Go(p) PROVE Inv'
  <2>1. CASE DeclareMove(p) \/ InsertMove(p) \/ InsertResolution(p)
    BY <2>1, DeclareMoveKeeps, InsertMoveKeeps, InsertResolutionKeeps
  <2>2. CASE RefuseMove(p)
    BY <2>2, EndKeeps DEF RefuseMove
  <2>3. CASE RefuseResolution(p)
    BY <2>3, EndKeeps DEF RefuseResolution
  <2>4. CASE CommitMove(p) \/ CommitDismissal(p) \/ CommitProposal(p) \/ CommitApplication(p)
    BY <2>4, CommitMoveKeeps, CommitDismissalKeeps, CommitProposalKeeps, CommitApplicationKeeps
  <2>5. QED
    BY <1>4, <2>1, <2>2, <2>3, <2>4 DEF Go
<1>5. ASSUME NEW p \in Actor, Rollback(p) PROVE Inv'
  BY <1>5, EndKeeps DEF Rollback
<1>6. ASSUME UNCHANGED vars PROVE Inv'
  <2>1. RecordTypes'
    BY <1>6 DEF vars, Inv, RecordTypes
  <2>2. QED
    BY <1>6, <2>1, SurroundingsKept DEF vars, record
<1>7. QED
  BY <1>1, <1>2, <1>3, <1>4, <1>5, <1>6 DEF Next

(***************************************************************************)
(* In every reachable state what is committed is in order, and what is     *)
(* inserted and not committed would still be in order if it were.          *)
(***************************************************************************)
THEOREM InvCorrect == Spec => []Inv
  BY InitInv, StepInv, PTL DEF Spec

(***************************************************************************)
(* Every variable keeps its type, and every request the transaction that   *)
(* goes with how far it has come.                                          *)
(***************************************************************************)
THEOREM TypeCorrect == Spec => []TypeOK
<1>1. Inv => TypeOK
  BY TypeParts DEF Inv
<1>2. QED
  BY <1>1, InvCorrect, PTL

(***************************************************************************)
(* Of a candidate's applications to an opening at most one has not been    *)
(* reopened, however applications and reversals overlap.                   *)
(***************************************************************************)
THEOREM OneLiveApplicationCorrect == Spec => []OneLiveApplication
<1>1. Inv => OneLiveApplication
  BY DEF Inv
<1>2. QED
  BY <1>1, InvCorrect, PTL

(***************************************************************************)
(* A reopened application was rejected, is still, and has one successor.   *)
(***************************************************************************)
THEOREM ReopenedOnceCorrect == Spec => []ReopenedOnce
<1>1. ASSUME Inv PROVE ReopenedOnce
  <2> SUFFICES ASSUME NEW a \in Application, NEW b \in Application, Exists(b),
                      application[b].reopens = a
               PROVE  /\ Exists(a)
                      /\ Current(a).to = Rejected[Current(a).list]
                      /\ \A d \in Application \ {b} :
                            Exists(d) => application[d].reopens # a
    BY DEF ReopenedOnce
  <2>1. a # None
    BY NoneAssumption
  <2>2. \A d \in Application : Exists(d) /\ application[d].reopens = a =>
           /\ Exists(a)
           /\ application[a].candidate = application[d].candidate
           /\ application[a].opening = application[d].opening
           /\ Current(a).to = Rejected[Current(a).list]
    BY <1>1, <2>1 DEF Inv, RowsStand, Reopens
  <2>3. ASSUME NEW d \in Application, d # b, Exists(d), application[d].reopens = a
        PROVE  FALSE
    BY <1>1, <2>2, <2>3 DEF Inv, RowsStand, Same
  <2>4. QED
    BY <2>2, <2>3
<1>2. QED
  BY <1>1, InvCorrect, PTL

(***************************************************************************)
(* A confirmed proposal is its application's last move, by the person who  *)
(* confirmed, for the proposed reason, and the only one of its kind.       *)
(***************************************************************************)
THEOREM ConfirmedIsTheRejectionCorrect == Spec => []ConfirmedIsTheRejection
<1>1. Inv => ConfirmedIsTheRejection
  BY DEF Inv, DecisionsStand
<1>2. QED
  BY <1>1, InvCorrect, PTL

-----------------------------------------------------------------------------
(* Refinement.                                                              *)

(***************************************************************************)
(* The empty database is the empty record.                                 *)
(***************************************************************************)
LEMMA InitRecord == Init => Record!Init
  BY DEF Init, Record!Init

(***************************************************************************)
(* A committed move is a legal entry at its COMMIT, not only when it was   *)
(* judged; with its decision, if it confirms an item.                      *)
(***************************************************************************)
LEMMA CommitMoveRecord ==
  ASSUME Inv, NEW p \in Actor, CommitMove(p)
  PROVE  Record!Next
<1>1. PICK a \in Application, m \in Record!AMove :
         /\ a = txn[p].app
         /\ m = NewMove(p)
  <2>1. txn[p] \in MoveTxn
    BY CommitMoveEffect
  <2>2. txn[p].app \in Application /\ NewMove(p) \in Record!AMove
    BY <2>1 DEF MoveTxn, Record!AMove, NewMove
  <2>3. QED
    BY <2>2
<1>2. Record!Advance(a, m)
  <2>1. /\ txn[p].list \in loaded
        /\ NewMove(p).list = txn[p].list /\ NewMove(p).from = txn[p].from
        /\ NewMove(p).to = txn[p].to /\ NewMove(p).reason = txn[p].reason
    BY CommitMoveEffect DEF Inv, RequestsStand, MoveStands, NewMove
  <2>2. /\ Exists(a)
        /\ moves' = [moves EXCEPT ![a] = Append(@, m)]
        /\ loaded' = loaded /\ application' = application /\ item' = item
        /\ MayMove(txn[p])
    BY <1>1, CommitMoveEffect
  <2>3. QED
    BY <1>1, <2>1, <2>2 DEF Record!Advance, Record!Last, MayMove, Current, Final, ReasonFits,
       Exists
<1>3. CASE txn[p].item = None
  <2>1. resolution' = resolution
    BY <1>3, CommitMoveEffect, NoneAssumption DEF Inv, RecordTypes
  <2>2. QED
    BY <1>2, <2>1 DEF Record!Next
<1>4. CASE txn[p].item # None
  <2>1. PICK i \in Item : i = txn[p].item
    BY <1>4, CommitMoveItem
  <2>2. /\ item[i] # None /\ item[i].app = a /\ resolution[i] = None
        /\ m.to = Rejected[m.list] /\ m.reason = item[i].reason /\ m.by = p
    BY <1>1, <1>4, <2>1, CommitMoveItem DEF NewMove
  <2>3. resolution' = [resolution EXCEPT ![i] = [outcome |-> "confirmed", by |-> p]]
    BY <2>1, CommitMoveEffect DEF Inv, RecordTypes
  <2>4. Record!Confirm(i, m)
    BY <1>2, <2>2, <2>3 DEF Record!Confirm, Record!Decide
  <2>5. QED
    BY <2>4 DEF Record!Next
<1>5. QED
  BY <1>3, <1>4

(***************************************************************************)
(* A committed dismissal is one decision of the record.                    *)
(***************************************************************************)
LEMMA CommitDismissalRecord ==
  ASSUME Inv, NEW p \in Actor, CommitDismissal(p)
  PROVE  Record!Next
<1>1. /\ txn[p] \in DismissTxn /\ phase[p] = "writing" /\ OfKind(p, "dismiss")
      /\ DecisionStands(p)
  BY KindTypes DEF CommitDismissal, Inserting, OfKind, Inv, RequestsStand
<1>2. PICK i \in Item : i = txn[p].item
  BY <1>1 DEF DismissTxn
<1>3. item[i] # None /\ resolution[i] = None
  BY <1>1, <1>2, NoneAssumption DEF DecisionStands, Decides
<1>4. Record!Dismiss(i, p)
  BY <1>2, <1>3 DEF Record!Dismiss, Record!Decide, CommitDismissal, lists
<1>5. QED
  BY <1>4 DEF Record!Next

(***************************************************************************)
(* A committed proposal is one entry, its reason of some loaded list.      *)
(***************************************************************************)
LEMMA CommitProposalRecord ==
  ASSUME Inv, NEW p \in Actor, CommitProposal(p)
  PROVE  Record!Next
<1>1. /\ txn[p] \in ProposeTxn /\ ProposalStands(p) /\ OfKind(p, "propose")
      /\ Exists(txn[p].app)
  BY KindTypes DEF CommitProposal, Inserting, OfKind, Inv, RequestsStand, Grounded
<1>2. PICK i \in Item, a \in Application, reason \in Reason :
         i = txn[p].item /\ a = txn[p].app /\ reason = txn[p].reason
  BY <1>1 DEF ProposeTxn
<1>3. Record!Propose(i, a, reason)
  BY <1>1, <1>2 DEF Record!Propose, CommitProposal, ProposalStands, Exists, lists
<1>4. QED
  BY <1>3 DEF Record!Next

(***************************************************************************)
(* A committed application starts legally at its COMMIT.                   *)
(***************************************************************************)
LEMMA CommitApplicationRecord ==
  ASSUME Inv, NEW p \in Actor, CommitApplication(p)
  PROVE  Record!Next
<1>1. txn[p] \in ApplyTxn /\ ApplicationStands(p) /\ OfKind(p, "apply")
  BY KindTypes DEF CommitApplication, Inserting, OfKind, Inv, RequestsStand
<1>2. PICK a \in Application, row \in Row, l \in List :
         a = txn[p].app /\ row = txn[p].row /\ l = txn[p].list
  BY <1>1 DEF ApplyTxn
<1>3. /\ row = [candidate |-> row.candidate, opening |-> row.opening, reopens |-> row.reopens]
      /\ row.candidate \in Candidate /\ row.opening \in Opening
      /\ row.reopens \in Application \cup {None}
  BY DEF Row
<1>4. /\ application[a] = None /\ l \in loaded /\ Reopens(row)
      /\ \A b \in Application : Exists(b) => ~Same(application[b], row)
  BY <1>1, <1>2 DEF ApplicationStands
<1>5. /\ application' = [application EXCEPT ![a] = row]
      /\ moves' = [moves EXCEPT ![a] =
                      <<[list |-> l, from |-> None, to |-> FirstStep[l], reason |-> None,
                         by |-> p]>>]
      /\ loaded' = loaded /\ item' = item /\ resolution' = resolution
  BY <1>2 DEF CommitApplication, lists
<1>6. Record!Start(a, row.candidate, row.opening, row.reopens, l, p)
  BY <1>3, <1>4, <1>5 DEF Record!Start, Record!Last, Reopens, Same, Exists, Current
<1>7. QED
  BY <1>3, <1>6 DEF Record!Next

(***************************************************************************)
(* Only LoadList and the four COMMITs show in the record, each as one      *)
(* legal entry; every other step leaves it alone.                          *)
(***************************************************************************)
LEMMA StepRecord == Inv /\ [Next]_vars => [Record!Next]_(Record!recordVars)
<1> SUFFICES ASSUME Inv, [Next]_vars PROVE Record!Next \/ UNCHANGED Record!recordVars
  OBVIOUS
<1>1. ASSUME NEW l \in List, LoadList(l) PROVE Record!Next
  <2>1. Record!Load(l)
    BY <1>1 DEF LoadList, record, Record!Load
  <2>2. QED
    BY <2>1 DEF Record!Next
<1>2. ASSUME NEW o \in Opening, CloseOpening(o) PROVE UNCHANGED Record!recordVars
  BY <1>2 DEF CloseOpening, lists, record, Record!recordVars
<1>3. ASSUME NEW p \in Actor, Ask(p) PROVE UNCHANGED Record!recordVars
  BY <1>3 DEF Ask, AskMove, AskConfirm, AskDismiss, AskPropose, AskApply, AskReverse,
     InsertApplication, lists, record, Record!recordVars
<1>4. ASSUME NEW p \in Actor, Go(p) PROVE Record!Next \/ UNCHANGED Record!recordVars
  <2>1. CASE CommitMove(p) \/ CommitDismissal(p) \/ CommitProposal(p) \/ CommitApplication(p)
    BY <2>1, CommitMoveRecord, CommitDismissalRecord, CommitProposalRecord,
       CommitApplicationRecord
  <2>2. CASE \/ DeclareMove(p) \/ InsertMove(p) \/ RefuseMove(p)
             \/ InsertResolution(p) \/ RefuseResolution(p)
    BY <2>2 DEF DeclareMove, InsertMove, RefuseMove, InsertResolution, RefuseResolution,
       lists, record, Record!recordVars
  <2>3. QED
    BY <1>4, <2>1, <2>2 DEF Go
<1>5. ASSUME NEW p \in Actor, Rollback(p) PROVE UNCHANGED Record!recordVars
  BY <1>5 DEF Rollback, lists, record, Record!recordVars
<1>6. ASSUME UNCHANGED vars PROVE UNCHANGED Record!recordVars
  BY <1>6 DEF vars, Record!recordVars
<1>7. QED
  BY <1>1, <1>2, <1>3, <1>4, <1>5, <1>6 DEF Next

(***************************************************************************)
(* However requests overlap, roll back and wait, the record is one that    *)
(* could have been made one legal entry at a time.                         *)
(***************************************************************************)
THEOREM PipelineImplementsRecord == Spec => ImplementsRecord
  BY InitRecord, StepRecord, InvCorrect, PTL DEF Spec, ImplementsRecord, Record!Spec
=============================================================================
