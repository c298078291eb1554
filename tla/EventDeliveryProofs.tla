------------------------- MODULE EventDeliveryProofs -------------------------
(***************************************************************************)
(* Proofs about EventDelivery, for any senders, events, bounds and faults: *)
(* types, SentAlone, and that it implements EventLog. What a sender knows  *)
(* of its candidates may be old, but never wrong about what it has seen;   *)
(* and while its session lives, its lock keeps it from growing old.        *)
(***************************************************************************)
EXTENDS EventDelivery, TLAPS

(***************************************************************************)
(* A candidate row as its sender read it: a committed event whose first    *)
(* tries attempts failed. Later ones may have been recorded since.         *)
(***************************************************************************)
TrueRow(r) ==
    /\ r.id \in published
    /\ r.tries <= Len(attempts[r.id])
    /\ \A i \in 1 .. r.tries : attempts[r.id][i] = "failed"

AtEvent(s) == phase[s] \in {"checking", "sending", "recording"}

(***************************************************************************)
(* What a sender holds on to.                                              *)
(***************************************************************************)
SenderInv(s) ==
    /\ \A r \in rows[s] : TrueRow(r)
    /\ AtEvent(s) => TrueRow(row[s])
    /\ AtEvent(s) /\ session[s] => lock[row[s].id] = s
    /\ phase[s] \in {"sending", "recording"} /\ session[s] => StillDue(row[s])
    /\ phase[s] = "recording" /\ answer[s] = "delivered" => row[s].id \in received

DeliveryInv ==
    /\ TypeOK
    /\ \A s \in Sender : SenderInv(s)

(***************************************************************************)
(* The types, one sender's action at a time.                               *)
(***************************************************************************)
LEMMA StepTypes == TypeOK /\ [Next]_vars => TypeOK'
<1> SUFFICES ASSUME TypeOK, [Next]_vars PROVE TypeOK'
  OBVIOUS
<1> USE DEF TypeOK, table, sender
<1>1. ASSUME NEW S \in SUBSET Event, Publish(S) PROVE TypeOK'
  BY <1>1 DEF Publish
<1>2. ASSUME NEW e \in Event, GapPasses(e) PROVE TypeOK'
  BY <1>2 DEF GapPasses
<1>3. ASSUME NEW e \in Event, Expire(e) PROVE TypeOK'
  BY <1>3 DEF Expire
<1>4. ASSUME NEW s \in Sender, Look(s) PROVE TypeOK'
  <2>1. {[id |-> e, tries |-> Len(attempts[e])] :
            e \in Oldest({e \in Event : Due(e)}, CandidatesPerCheck)} \in SUBSET Candidate
    <3>1. \A e \in Event : [id |-> e, tries |-> Len(attempts[e])] \in Candidate
      <4>1. \A e \in Event : attempts[e] \in Seq(Outcome)
        OBVIOUS
      <4> QED
        BY <4>1 DEF Candidate
    <3> QED
      BY <3>1 DEF Oldest
  <2> QED
    BY <1>4, <2>1 DEF Look
<1>5. ASSUME NEW s \in Sender, NothingDue(s) PROVE TypeOK'
  BY <1>5 DEF NothingDue, Without
<1>6. ASSUME NEW s \in Sender, TryLock(s) PROVE TypeOK'
  BY <1>6 DEF TryLock, OldestRow, Candidate
<1>7. ASSUME NEW s \in Sender, SkipLocked(s) PROVE TypeOK'
  BY <1>7 DEF SkipLocked
<1>8. ASSUME NEW s \in Sender, Post(s) PROVE TypeOK'
  BY <1>8 DEF Post
<1>9. ASSUME NEW s \in Sender, NoLongerDue(s) PROVE TypeOK'
  BY <1>9 DEF NoLongerDue
<1>10. ASSUME NEW s \in Sender, Answered(s) PROVE TypeOK'
  <2>1. row[s] \in Candidate
    BY <1>10 DEF Answered
  <2>2. row[s].id \in Event
    BY <2>1 DEF Candidate
  <2> QED
    BY <1>10, <2>2 DEF Answered
<1>11. ASSUME NEW s \in Sender, Record(s) PROVE TypeOK'
  <2>1. row[s] \in Candidate /\ answer[s] \in Outcome
    BY <1>11 DEF Record
  <2>2. row[s].id \in Event
    BY <2>1 DEF Candidate
  <2>3. attempts' \in [Event -> Seq(Outcome)]
    BY <1>11, <2>1, <2>2 DEF Record
  <2> QED
    BY <1>11, <2>3 DEF Record, Without
<1>12. ASSUME NEW s \in Sender, Crash(s) PROVE TypeOK'
  <2>1. phase[s] = "sending" => row[s].id \in Event
    BY DEF Candidate
  <2> QED
    BY <1>12, <2>1, BoundsAssumption DEF Crash, Fault, Dies
<1>13. ASSUME NEW s \in Sender, LoseSession(s) PROVE TypeOK'
  BY <1>13, BoundsAssumption DEF LoseSession, Fault, Without
<1>14. ASSUME NEW s \in Sender, Refused(s) PROVE TypeOK'
  BY <1>14 DEF Refused, Dies
<1>15. ASSUME NEW s \in Sender, EndSession(s) PROVE TypeOK'
  BY <1>15 DEF EndSession, Without
<1>16. ASSUME NEW s \in Sender, Restart(s) PROVE TypeOK'
  BY <1>16 DEF Restart
<1>17. CASE UNCHANGED vars
  BY <1>17 DEF vars
<1> QED
  BY <1>1, <1>2, <1>3, <1>4, <1>5, <1>6, <1>7, <1>8, <1>9, <1>10, <1>11, <1>12, <1>13,
     <1>14, <1>15, <1>16, <1>17 DEF Next, Deliver, Fail

(***************************************************************************)
(* A true row stays true: attempts are only added.                         *)
(***************************************************************************)
AttemptsGrow ==
    \A e \in Event : \/ attempts'[e] = attempts[e]
                     \/ \E o \in Outcome : attempts'[e] = Append(attempts[e], o)

LEMMA RowStaysTrue ==
    ASSUME TypeOK, AttemptsGrow, published \subseteq published',
           NEW r \in Candidate, TrueRow(r)
    PROVE  /\ r.id \in published'
           /\ r.tries <= Len(attempts'[r.id])
           /\ \A i \in 1 .. r.tries : attempts'[r.id][i] = "failed"
<1>1. r.id \in Event /\ r.tries \in Nat
  BY DEF Candidate
<1>2. attempts[r.id] \in Seq(Outcome)
  BY <1>1 DEF TypeOK
<1>3. CASE attempts'[r.id] = attempts[r.id]
  BY <1>1, <1>3 DEF TrueRow
<1>4. CASE \E o \in Outcome : attempts'[r.id] = Append(attempts[r.id], o)
  <2>1. PICK o \in Outcome : attempts'[r.id] = Append(attempts[r.id], o)
    BY <1>4
  <2>2. Len(attempts'[r.id]) = Len(attempts[r.id]) + 1
    BY <1>2, <2>1
  <2>3. \A i \in 1 .. Len(attempts[r.id]) : attempts'[r.id][i] = attempts[r.id][i]
    BY <1>2, <2>1
  <2>4. r.tries <= Len(attempts[r.id]) /\ Len(attempts[r.id]) \in Nat
    BY <1>2 DEF TrueRow
  <2>5. \A i \in 1 .. r.tries : i \in 1 .. Len(attempts[r.id])
    BY <1>1, <2>4
  <2> QED
    BY <1>1, <2>2, <2>3, <2>4, <2>5 DEF TrueRow
<1> QED
  BY <1>1, <1>3, <1>4 DEF AttemptsGrow

(***************************************************************************)
(* What one sender does leaves another's SenderInv alone: it takes none of *)
(* the other's locks, and records attempts only at events it has locked.   *)
(***************************************************************************)
LEMMA OthersKeep ==
    ASSUME DeliveryInv, TypeOK', AttemptsGrow, published \subseteq published',
           received \subseteq received',
           NEW t \in Sender,
           phase'[t] = phase[t], session'[t] = session[t], rows'[t] = rows[t],
           row'[t] = row[t], answer'[t] = answer[t],
           \A e \in Event : lock[e] = t => lock'[e] = t /\ attempts'[e] = attempts[e]
    PROVE  SenderInv(t)'
<1>1. SenderInv(t) /\ TypeOK
  BY DEF DeliveryInv
<1>2. \A r \in rows[t] : r \in Candidate
  BY <1>1 DEF TypeOK
<1>3. \A r \in rows'[t] : TrueRow(r)'
  BY <1>1, <1>2, RowStaysTrue DEF SenderInv, TrueRow
<1>4. AtEvent(t) => row[t] \in Candidate /\ row[t].id \in Event
  BY <1>1 DEF AtEvent, TypeOK, Candidate
<1>5. AtEvent(t) => TrueRow(row[t])'
  BY <1>1, <1>4, RowStaysTrue DEF SenderInv, TrueRow
<1>6. AtEvent(t) /\ session[t] => lock'[row[t].id] = t /\ attempts'[row[t].id] = attempts[row[t].id]
  BY <1>1, <1>4 DEF SenderInv
<1> QED
  BY <1>1, <1>3, <1>5, <1>6 DEF SenderInv, AtEvent, TrueRow, StillDue

(***************************************************************************)
(* A step of s that leaves the attempts alone and takes no lock of others. *)
(***************************************************************************)
OnlyMoves(s) ==
    /\ \A t \in Sender \ {s} :
          /\ phase'[t] = phase[t]
          /\ session'[t] = session[t]
          /\ rows'[t] = rows[t]
          /\ row'[t] = row[t]
          /\ answer'[t] = answer[t]
    /\ \A e \in Event : lock[e] \notin {None, s} => lock'[e] = lock[e]
    /\ published' = published
    /\ received \subseteq received'

LEMMA MovesKeep ==
    ASSUME DeliveryInv, TypeOK', NEW s \in Sender, OnlyMoves(s), UNCHANGED attempts,
           SenderInv(s)'
    PROVE  DeliveryInv'
<1>1. AttemptsGrow
  BY DEF AttemptsGrow
<1>2. ASSUME NEW t \in Sender \ {s}
      PROVE  SenderInv(t)'
  <2>1. \A e \in Event : lock[e] = t => lock'[e] = t /\ attempts'[e] = attempts[e]
    BY NoneAssumption DEF OnlyMoves
  <2> QED
    BY <1>1, <2>1, OthersKeep DEF OnlyMoves
<1> QED
  BY <1>2 DEF DeliveryInv

(***************************************************************************)
(* A look finds true rows.                                                 *)
(***************************************************************************)
LEMMA LookKeeps ==
    ASSUME DeliveryInv, TypeOK', NEW s \in Sender, Look(s)
    PROVE  DeliveryInv'
<1> USE DEF DeliveryInv, TypeOK, Look, table
<1>1. OnlyMoves(s)
  BY DEF OnlyMoves
<1>2. ASSUME NEW r \in rows'[s]
      PROVE  TrueRow(r)'
  <2> DEFINE found == Oldest({e \in Event : Due(e)}, CandidatesPerCheck)
  <2>1. found \subseteq {e \in Event : Due(e)}
    BY DEF Oldest
  <2>2. r \in {[id |-> e, tries |-> Len(attempts[e])] : e \in found}
    OBVIOUS
  <2> HIDE DEF found
  <2>3. PICK e \in found : r = [id |-> e, tries |-> Len(attempts[e])]
    BY ONLY <2>2
  <2>4. e \in Event /\ Due(e)
    BY ONLY <2>1, <2>3
  <2>5. attempts[e] \in Seq(Outcome)
    BY <2>4
  <2>6. \A i \in 1 .. Len(attempts[e]) : attempts[e][i] = "failed"
    BY <2>4, <2>5 DEF Due, Undelivered, Outcome
  <2> QED
    BY <2>3, <2>4, <2>5, <2>6 DEF TrueRow, Due
<1>3. SenderInv(s)'
  BY <1>2 DEF SenderInv, AtEvent
<1> QED
  BY <1>1, <1>3, MovesKeep

LEMMA NothingDueKeeps ==
    ASSUME DeliveryInv, TypeOK', NEW s \in Sender, NothingDue(s)
    PROVE  DeliveryInv'
<1> USE DEF DeliveryInv, TypeOK, NothingDue, table
<1>1. OnlyMoves(s)
  BY DEF OnlyMoves, Without
<1>2. SenderInv(s)'
  BY DEF SenderInv, AtEvent
<1> QED
  BY <1>1, <1>2, MovesKeep

LEMMA TryLockKeeps ==
    ASSUME DeliveryInv, TypeOK', NEW s \in Sender, TryLock(s)
    PROVE  DeliveryInv'
<1> USE DEF DeliveryInv, TypeOK, TryLock, table
<1>1. OnlyMoves(s)
  BY DEF OnlyMoves, OldestRow, Candidate
<1>2. PICK r \in rows[s] : /\ lock' = [lock EXCEPT ![r.id] = s]
                           /\ row' = [row EXCEPT ![s] = r]
                           /\ rows' = [rows EXCEPT ![s] = @ \ {r}]
  OBVIOUS
<1>3. row'[s] = r /\ lock'[r.id] = s /\ rows'[s] \subseteq rows[s] /\ phase'[s] = "checking"
  BY <1>2 DEF Candidate
<1>4. SenderInv(s)'
  BY <1>3 DEF SenderInv, AtEvent, TrueRow
<1> QED
  BY <1>1, <1>4, MovesKeep

LEMMA SkipLockedKeeps ==
    ASSUME DeliveryInv, TypeOK', NEW s \in Sender, SkipLocked(s)
    PROVE  DeliveryInv'
<1> USE DEF DeliveryInv, TypeOK, SkipLocked, table
<1>1. OnlyMoves(s)
  BY DEF OnlyMoves
<1>2. SenderInv(s)'
  BY DEF SenderInv, AtEvent, TrueRow
<1> QED
  BY <1>1, <1>2, MovesKeep

LEMMA PostKeeps ==
    ASSUME DeliveryInv, TypeOK', NEW s \in Sender, Post(s) \/ NoLongerDue(s)
    PROVE  DeliveryInv'
<1> USE DEF DeliveryInv, TypeOK, Post, NoLongerDue, table
<1>1. OnlyMoves(s)
  BY DEF OnlyMoves
<1>2. UNCHANGED <<attempts, published, received, rows, lock, session, answer>>
  OBVIOUS
<1>3. SenderInv(s)'
  <2>1. CASE Post(s)
    <3>1. /\ phase[s] = "checking" /\ phase'[s] = "sending"
          /\ row'[s] = row[s] /\ StillDue(row[s])
      BY <2>1
    <3>2. SenderInv(s)
      OBVIOUS
    <3> QED
      BY ONLY <1>2, <3>1, <3>2 DEF SenderInv, AtEvent, TrueRow, StillDue
  <2>2. CASE NoLongerDue(s)
    <3>1. phase'[s] = "claiming"
      BY <2>2
    <3>2. SenderInv(s)
      OBVIOUS
    <3> QED
      BY ONLY <1>2, <3>1, <3>2 DEF SenderInv, AtEvent, TrueRow
  <2> QED
    BY <2>1, <2>2
<1> QED
  BY <1>1, <1>2, <1>3, MovesKeep

(***************************************************************************)
(* What was answered "delivered" has been received.                        *)
(***************************************************************************)
LEMMA AnsweredKeeps ==
    ASSUME DeliveryInv, TypeOK', NEW s \in Sender, Answered(s)
    PROVE  DeliveryInv'
<1> USE DEF DeliveryInv, TypeOK, Answered, table
<1>1. OnlyMoves(s)
  BY DEF OnlyMoves
<1>2. answer'[s] = "delivered" => row[s].id \in received'
  OBVIOUS
<1>3. /\ phase[s] = "sending" /\ phase'[s] = "recording"
      /\ UNCHANGED <<attempts, published, rows, row, lock, session>>
      /\ SenderInv(s)
  OBVIOUS
<1>4. SenderInv(s)'
  BY ONLY <1>2, <1>3 DEF SenderInv, AtEvent, TrueRow, StillDue
<1> QED
  BY <1>1, <1>3, <1>4, MovesKeep

(***************************************************************************)
(* An attempt is recorded at the event its sender has locked, which no     *)
(* other sender with a session has in hand.                                *)
(***************************************************************************)
LEMMA RecordKeeps ==
    ASSUME DeliveryInv, TypeOK', NEW s \in Sender, Record(s)
    PROVE  DeliveryInv'
<1> DEFINE e == row[s].id
<1>1. row[s] \in Candidate /\ e \in Event /\ answer[s] \in Outcome
  BY DEF DeliveryInv, TypeOK, Record, Candidate
<1>2. lock[e] = s
  BY DEF DeliveryInv, SenderInv, Record, AtEvent
<1>3. attempts' = [attempts EXCEPT ![e] = Append(@, answer[s])]
  BY DEF Record
<1> HIDE DEF e
<1>4. AttemptsGrow
  BY <1>1, <1>3 DEF AttemptsGrow, DeliveryInv, TypeOK
<1>5. ASSUME NEW t \in Sender \ {s}
      PROVE  SenderInv(t)'
  <2>1. \A d \in Event : lock[d] = t => lock'[d] = t /\ attempts'[d] = attempts[d]
    BY <1>1, <1>2, <1>3 DEF Record, Without, DeliveryInv, TypeOK
  <2>2. /\ phase'[t] = phase[t]
        /\ session'[t] = session[t]
        /\ rows'[t] = rows[t]
        /\ row'[t] = row[t]
        /\ answer'[t] = answer[t]
    BY DEF Record, DeliveryInv, TypeOK
  <2> QED
    BY <1>4, <2>1, <2>2, OthersKeep DEF Record
<1>6. SenderInv(s)'
  BY DEF SenderInv, AtEvent, Record, DeliveryInv, TypeOK
<1> QED
  BY <1>5, <1>6 DEF DeliveryInv

LEMMA FailKeeps ==
    ASSUME DeliveryInv, TypeOK', NEW s \in Sender, Fail(s)
    PROVE  DeliveryInv'
<1> USE DEF DeliveryInv, TypeOK, table
<1>1. CASE Crash(s) \/ Refused(s)
  <2>1. OnlyMoves(s)
    BY <1>1 DEF OnlyMoves, Crash, Refused, Dies
  <2>2. SenderInv(s)' /\ UNCHANGED attempts
    BY <1>1 DEF SenderInv, AtEvent, Crash, Refused, Dies
  <2> QED
    BY <2>1, <2>2, MovesKeep
<1>2. CASE LoseSession(s)
  <2>1. OnlyMoves(s)
    BY <1>2 DEF OnlyMoves, LoseSession, Without
  <2>2. SenderInv(s)' /\ UNCHANGED attempts
    BY <1>2 DEF SenderInv, AtEvent, LoseSession, TrueRow
  <2> QED
    BY <2>1, <2>2, MovesKeep
<1>3. CASE EndSession(s)
  <2>1. OnlyMoves(s)
    BY <1>3 DEF OnlyMoves, EndSession, Without
  <2>2. SenderInv(s)' /\ UNCHANGED attempts
    <3>1. phase[s] = "gone" /\ UNCHANGED <<published, attempts, phase, rows, row>>
      BY <1>3 DEF EndSession
    <3>2. \A r \in rows[s] : TrueRow(r)
      BY DEF SenderInv
    <3>3. QED
      BY ONLY <3>1, <3>2 DEF SenderInv, AtEvent, TrueRow
  <2> QED
    BY <2>1, <2>2, MovesKeep
<1>4. CASE Restart(s)
  <2>1. OnlyMoves(s)
    BY <1>4 DEF OnlyMoves, Restart
  <2>2. SenderInv(s)' /\ UNCHANGED attempts
    BY <1>4 DEF SenderInv, AtEvent, Restart, TrueRow
  <2> QED
    BY <2>1, <2>2, MovesKeep
<1> QED
  BY <1>1, <1>2, <1>3, <1>4 DEF Fail

(***************************************************************************)
(* New events and passing time.                                            *)
(***************************************************************************)
LEMMA SurroundingsKeep ==
    ASSUME DeliveryInv, TypeOK', published \subseteq published',
           UNCHANGED <<attempts, received, sender, lock>>
    PROVE  DeliveryInv'
<1>1. AttemptsGrow
  BY DEF AttemptsGrow
<1>2. ASSUME NEW t \in Sender PROVE SenderInv(t)'
  BY <1>1, OthersKeep DEF sender
<1> QED
  BY <1>2 DEF DeliveryInv

LEMMA InitDelivery == Init => DeliveryInv
<1> SUFFICES ASSUME Init PROVE DeliveryInv
  OBVIOUS
<1>1. TypeOK
  BY BoundsAssumption DEF Init, TypeOK
<1>2. \A s \in Sender : SenderInv(s)
  BY DEF Init, SenderInv, AtEvent
<1> QED
  BY <1>1, <1>2 DEF DeliveryInv

LEMMA StepDelivery == DeliveryInv /\ [Next]_vars => DeliveryInv'
<1> SUFFICES ASSUME DeliveryInv, [Next]_vars PROVE DeliveryInv'
  OBVIOUS
<1>1. TypeOK'
  BY StepTypes DEF DeliveryInv
<1>2. CASE \E S \in SUBSET Event : Publish(S)
  BY <1>1, <1>2, SurroundingsKeep DEF Publish
<1>3. CASE \E e \in Event : GapPasses(e) \/ Expire(e)
  BY <1>1, <1>3, SurroundingsKeep DEF GapPasses, Expire
<1>4. ASSUME NEW s \in Sender, Deliver(s) PROVE DeliveryInv'
  BY <1>1, <1>4, LookKeeps, NothingDueKeeps, TryLockKeeps, SkipLockedKeeps, PostKeeps,
     AnsweredKeeps, RecordKeeps DEF Deliver
<1>5. ASSUME NEW s \in Sender, Fail(s) PROVE DeliveryInv'
  BY <1>1, <1>5, FailKeeps
<1>6. CASE UNCHANGED vars
  BY <1>1, <1>6, SurroundingsKeep DEF vars, table
<1> QED
  BY <1>2, <1>3, <1>4, <1>5, <1>6 DEF Next

(***************************************************************************)
(* The inductive invariant of the senders.                                 *)
(***************************************************************************)
THEOREM DeliveryInvCorrect == Spec => []DeliveryInv
BY InitDelivery, StepDelivery, PTL DEF Spec

(***************************************************************************)
(* The events, senders and locks keep their types (TypeOK).                *)
(***************************************************************************)
THEOREM DeliveryTypes == Spec => []TypeOK
<1>1. DeliveryInv => TypeOK
  BY DEF DeliveryInv
<1> QED
  BY <1>1, DeliveryInvCorrect, PTL

(***************************************************************************)
(* A row that is true and still due is of an undelivered event.            *)
(***************************************************************************)
LEMMA StillDueUndelivered ==
    ASSUME TypeOK, NEW r \in Candidate, TrueRow(r), StillDue(r)
    PROVE  \A i \in DOMAIN attempts[r.id] : attempts[r.id][i] = "failed"
<1>1. r.id \in Event /\ attempts[r.id] \in Seq(Outcome)
  BY DEF Candidate, TypeOK
<1> QED
  BY <1>1 DEF TrueRow, StillDue

(***************************************************************************)
(* No event is sent by two live sessions at once, or after its delivery    *)
(* was recorded (SentAlone).                                               *)
(***************************************************************************)
THEOREM SentAloneCorrect == Spec => []SentAlone
<1>1. DeliveryInv => SentAlone
  <2> SUFFICES ASSUME DeliveryInv, NEW s \in Sender, NEW e \in Event, Sending(s, e)
               PROVE  /\ Undelivered(e)
                      /\ \A t \in Sender \ {s} : ~Sending(t, e)
    BY DEF SentAlone
  <2>1. /\ row[s] \in Candidate
        /\ row[s].id = e
        /\ TrueRow(row[s])
        /\ StillDue(row[s])
        /\ lock[e] = s
    BY DEF Sending, DeliveryInv, SenderInv, AtEvent, TypeOK
  <2>2. Undelivered(e)
    BY <2>1, StillDueUndelivered DEF DeliveryInv, Undelivered
  <2>3. \A t \in Sender \ {s} : ~Sending(t, e)
    BY <2>1 DEF Sending, DeliveryInv, SenderInv, AtEvent
  <2> QED
    BY <2>2, <2>3
<1> QED
  BY <1>1, DeliveryInvCorrect, PTL

(***************************************************************************)
(* What a step of the senders does to the log.                             *)
(***************************************************************************)
LEMMA ReceiveInLog ==
    ASSUME NEW e \in published, UNCHANGED <<published, attempts>>,
           received' \in {received, received \cup {e}}
    PROVE  Log!Receive(e) \/ UNCHANGED Log!logVars
BY DEF Log!Receive, Log!logVars

LEMMA RecordInLog ==
    ASSUME DeliveryInv, NEW s \in Sender, Record(s)
    PROVE  Log!Attempted(row[s].id, answer[s]) /\ row[s].id \in Event /\ answer[s] \in Outcome
<1>1. /\ row[s] \in Candidate /\ row[s].id \in Event
      /\ answer[s] \in Outcome
  BY DEF DeliveryInv, TypeOK, Record, Candidate
<1>2. /\ TrueRow(row[s])
      /\ StillDue(row[s])
      /\ answer[s] = "delivered" => row[s].id \in received
  BY DEF DeliveryInv, SenderInv, AtEvent, Record
<1>3. \A i \in DOMAIN attempts[row[s].id] : attempts[row[s].id][i] = "failed"
  BY <1>1, <1>2, StillDueUndelivered DEF DeliveryInv
<1> QED
  BY <1>1, <1>2, <1>3 DEF Log!Attempted, Record, TrueRow

LEMMA InitLog == Init => Log!Init
BY DEF Init, Log!Init

LEMMA StepLog == DeliveryInv /\ [Next]_vars => [Log!Next]_(Log!logVars)
<1> SUFFICES ASSUME DeliveryInv, [Next]_vars PROVE [Log!Next]_(Log!logVars)
  OBVIOUS
<1> USE DEF table, sender
<1>1. CASE \E S \in SUBSET Event : Publish(S)
  BY <1>1 DEF Publish, Log!Publish, Log!Next
<1>2. CASE \E e \in Event : GapPasses(e) \/ Expire(e)
  BY <1>2 DEF GapPasses, Expire, Log!logVars
<1>3. ASSUME NEW s \in Sender, Answered(s) \/ Crash(s)
      PROVE  [Log!Next]_(Log!logVars)
  <2>1. CASE phase[s] = "sending"
    <3>1. row[s].id \in published /\ row[s].id \in Event
      BY <2>1 DEF DeliveryInv, SenderInv, AtEvent, TrueRow, TypeOK, Candidate
    <3>2. UNCHANGED <<published, attempts>> /\ received' \in {received, received \cup {row[s].id}}
      BY <1>3 DEF Answered, Crash, Dies
    <3> QED
      BY <3>1, <3>2, ReceiveInLog DEF Log!Next
  <2>2. CASE phase[s] # "sending"
    BY <1>3, <2>2 DEF Answered, Crash, Dies, Log!logVars
  <2> QED
    BY <2>1, <2>2
<1>4. ASSUME NEW s \in Sender, Record(s)
      PROVE  [Log!Next]_(Log!logVars)
  BY <1>4, RecordInLog DEF Log!Next, Outcome
<1>5. ASSUME NEW s \in Sender,
             \/ Look(s) \/ NothingDue(s) \/ TryLock(s) \/ SkipLocked(s) \/ Post(s)
             \/ NoLongerDue(s) \/ LoseSession(s) \/ Refused(s) \/ EndSession(s) \/ Restart(s)
      PROVE  UNCHANGED Log!logVars
  BY <1>5 DEF Look, NothingDue, TryLock, SkipLocked, Post, NoLongerDue, LoseSession, Refused,
     Dies, EndSession, Restart, Log!logVars
<1>6. CASE UNCHANGED vars
  BY <1>6 DEF vars, Log!logVars
<1> QED
  BY <1>1, <1>2, <1>3, <1>4, <1>5, <1>6 DEF Next, Deliver, Fail

(***************************************************************************)
(* Senders, locks and lost sessions implement the event log: every event   *)
(* recorded as delivered was received, and its delivery is the last        *)
(* attempt (ImplementsLog).                                                *)
(***************************************************************************)
THEOREM DeliveryImplementsLog == Spec => ImplementsLog
BY InitLog, StepLog, DeliveryInvCorrect, PTL DEF Spec, ImplementsLog, Log!Spec
=============================================================================
