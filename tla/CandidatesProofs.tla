-------------------------- MODULE CandidatesProofs --------------------------
(***************************************************************************)
(* Theorems about Joins, Checks and Retention: how deep joins go and which *)
(* matches they answer, when the last check closes its item, and that data *)
(* goes with its erasure; about Visibility: what may not be seen reads as  *)
(* missing, and the review queue leads somewhere; and about Duplicates: the*)
(* groups are the reachable.                                               *)
(***************************************************************************)
EXTENDS Joins, Checks, Retention, Visibility, Duplicates, FiniteSetTheorems, TLAPS

-----------------------------------------------------------------------------
(* Joins.                                                                   *)

PastCheck == {"checked", "inserted", "answering", "closing"}
PastInsert == {"inserted", "answering", "closing"}

\* A join under way is of two records, on a match that was recorded.
UnderWay ==
    \A t \in Joiner :
        /\ joiner[t].stage # "idle" =>
              /\ joiner[t].primary \in Record /\ joiner[t].other \in Record
              /\ joiner[t].primary # joiner[t].other
        /\ joiner[t].match # None => joiner[t].match \in matches

\* The index: a record is joined once, by those who have inserted as well.
JoinedOnce ==
    /\ \A j, k \in joins : j.other = k.other => j = k
    /\ \A t \in Joiner : joiner[t].stage \in PastInsert =>
          /\ \A j \in joins : j.other # joiner[t].other
          /\ \A u \in Joiner : joiner[u].stage \in PastInsert /\ joiner[u].other = joiner[t].other
                               => u = t

\* What a join would make deeper was committed after its trigger looked.
DeeperIsUnseen ==
    \A t \in Joiner : joiner[t].stage \in PastCheck =>
        \A j \in joins :
            j.other = joiner[t].primary \/ j.primary = joiner[t].other =>
                <<j.primary, j.other>> \in joiner[t].unseen

OneLevelApart ==
    \A j, k \in joins : j.other = k.primary => Overlapped(j, k)

JoinsInv ==
    /\ JoinsTypeOK /\ UnderWay /\ JoinedOnce /\ DeeperIsUnseen /\ OneLevelApart
    /\ JoinAnswersItsMatch

LEMMA JoinsInvInit == JoinsInit => JoinsInv
BY NoMatchAssumption
   DEF JoinsInit, JoinsInv, JoinsTypeOK, UnderWay, JoinedOnce, DeeperIsUnseen, OneLevelApart,
       JoinAnswersItsMatch, Idle, JoinStage, PastCheck, PastInsert

LEMMA JoinsTypedStep ==
    ASSUME JoinsTypeOK, UnderWay, JoinsNext
    PROVE  JoinsTypeOK'
<1> USE NoMatchAssumption DEF JoinsTypeOK, JoinStage
<1>1. ASSUME NEW pair \in Matching, RecordMatch(pair) \/ Dismiss(pair) PROVE JoinsTypeOK'
  BY <1>1 DEF RecordMatch, Dismiss
<1>2. ASSUME NEW t \in Joiner, NEW primary \in Record, NEW other \in Record,
             AskMatch(t, primary, other)
      PROVE JoinsTypeOK'
  BY <1>2 DEF AskMatch
<1>3. ASSUME NEW t \in Joiner, CheckJoin(t) \/ InsertJoin(t) \/ FindItem(t) \/ AnswerItem(t)
      PROVE JoinsTypeOK'
  BY <1>3 DEF CheckJoin, InsertJoin, FindItem, AnswerItem, JoinGoes, JoinEnds, Idle
<1>4. ASSUME NEW t \in Joiner, CommitJoin(t) PROVE JoinsTypeOK'
  <2>1. joiner[t].primary \in Record /\ joiner[t].other \in Record
    BY <1>4 DEF CommitJoin, UnderWay
  <2>2. joins' \subseteq Joined
    BY <1>4, <2>1 DEF CommitJoin, Joined
  <2>3. outcome' \in [Matching -> {None, "checked", "dismissed"}]
    BY <1>4 DEF CommitJoin
  <2>4. joiner' \in [Joiner -> [stage : JoinStage, primary : Record \cup {None},
                             other : Record \cup {None}, match : Matching \cup {None},
                             unseen : SUBSET (Record \X Record)]]
    BY <1>4, <2>1 DEF CommitJoin, Idle
  <2> QED BY <1>4, <2>2, <2>3, <2>4 DEF CommitJoin
<1>5. ASSUME NEW j \in joins, UndoJoin(j) PROVE JoinsTypeOK'
  <2> DEFINE Without(unseen) == unseen \ {<<j.primary, j.other>>}
  <2>1. joins' = {[k EXCEPT !.unseen = Without(@)] : k \in joins \ {j}}
        /\ joiner' = [t \in Joiner |-> [joiner[t] EXCEPT !.unseen = Without(@)]]
        /\ matches' = matches /\ outcome' = outcome
    BY <1>5 DEF UndoJoin
  <2>2. ASSUME NEW unseen \in SUBSET (Record \X Record)
        PROVE  Without(unseen) \in SUBSET (Record \X Record)
    OBVIOUS
  <2> HIDE DEF Without
  <2>3. \A k \in joins : [k EXCEPT !.unseen = Without(@)] \in Joined
    BY <2>2 DEF Joined
  <2>4. joins' \subseteq Joined
    BY <2>1, <2>3
  <2>5. ASSUME NEW row \in [stage : JoinStage, primary : Record \cup {None},
                             other : Record \cup {None}, match : Matching \cup {None},
                             unseen : SUBSET (Record \X Record)]
        PROVE  [row EXCEPT !.unseen = Without(@)] \in
                  [stage : JoinStage, primary : Record \cup {None},
                   other : Record \cup {None}, match : Matching \cup {None},
                   unseen : SUBSET (Record \X Record)]
    BY <2>2
  <2>6. joiner' \in [Joiner -> [stage : JoinStage, primary : Record \cup {None},
                             other : Record \cup {None}, match : Matching \cup {None},
                             unseen : SUBSET (Record \X Record)]]
    BY <2>1, <2>5
  <2> QED BY <2>1, <2>4, <2>6
<1> QED BY <1>1, <1>2, <1>3, <1>4, <1>5 DEF JoinsNext

(***************************************************************************)
(* A join that goes a step further, or ends, on what is committed already. *)
(***************************************************************************)
LEMMA MovesOn ==
    ASSUME JoinsInv, NEW t \in Joiner, NEW stage \in JoinStage, joiner[t].stage # "idle",
           \/ JoinGoes(t, stage)
           \/ JoinEnds(t),
           UNCHANGED <<matches, outcome, joins>>
    PROVE  /\ UnderWay' /\ OneLevelApart' /\ JoinAnswersItsMatch'
           /\ \A u \in Joiner \ {t} : joiner'[u] = joiner[u]
           /\ joiner'[t].stage # "idle" =>
                 joiner'[t] = [joiner[t] EXCEPT !.stage = stage]
<1> USE NoMatchAssumption DEF JoinsInv, JoinsTypeOK
<1>1. /\ \A u \in Joiner \ {t} : joiner'[u] = joiner[u]
      /\ joiner'[t] = Idle \/ joiner'[t] = [joiner[t] EXCEPT !.stage = stage]
  BY DEF JoinGoes, JoinEnds
<1>2. Idle.stage = "idle" /\ Idle.match = None
  BY DEF Idle
<1>3. UnderWay'
  BY <1>1, <1>2 DEF UnderWay
<1>4. OneLevelApart' /\ JoinAnswersItsMatch'
  BY DEF OneLevelApart, Overlapped, JoinAnswersItsMatch
<1> QED BY <1>1, <1>2, <1>3, <1>4

LEMMA JoinsStep ==
    ASSUME JoinsInv, JoinsNext, JoinsTypeOK'
    PROVE  JoinsInv'
<1> USE NoMatchAssumption DEF JoinsInv
<1>1. ASSUME NEW pair \in Matching, RecordMatch(pair) \/ Dismiss(pair) PROVE JoinsInv'
  <2>1. UNCHANGED <<joins, joiner>> /\ matches \subseteq matches'
    BY <1>1 DEF RecordMatch, Dismiss
  <2>2. UnderWay' /\ JoinedOnce' /\ DeeperIsUnseen' /\ OneLevelApart'
    BY <2>1 DEF UnderWay, JoinedOnce, DeeperIsUnseen, OneLevelApart, Overlapped
  <2>3. \A p \in Matching : outcome[p] # None => outcome'[p] # None
    BY <1>1 DEF RecordMatch, Dismiss, JoinsTypeOK
  <2>4. \A j \in joins : j.match # None => j.match \in Matching
    BY DEF JoinsTypeOK, Joined
  <2>5. JoinAnswersItsMatch'
    BY <2>1, <2>3, <2>4 DEF JoinAnswersItsMatch
  <2> QED BY <2>2, <2>5
<1>2. ASSUME NEW t \in Joiner, NEW primary \in Record, NEW other \in Record,
             AskMatch(t, primary, other)
      PROVE JoinsInv'
  <2>1. /\ UNCHANGED <<matches, outcome, joins>>
        /\ \A u \in Joiner \ {t} : joiner'[u] = joiner[u]
        /\ joiner'[t].stage = "asked" /\ joiner'[t].primary = primary
        /\ joiner'[t].other = other /\ primary # other
        /\ joiner'[t].match # None => joiner'[t].match \in matches
    BY <1>2 DEF AskMatch, JoinsTypeOK
  <2>2. UnderWay'
    BY <2>1 DEF UnderWay
  <2>3. JoinedOnce' /\ DeeperIsUnseen'
    BY <2>1 DEF JoinedOnce, DeeperIsUnseen, PastCheck, PastInsert
  <2>4. OneLevelApart' /\ JoinAnswersItsMatch'
    BY <2>1 DEF OneLevelApart, Overlapped, JoinAnswersItsMatch
  <2> QED BY <2>2, <2>3, <2>4
<1>3. ASSUME NEW t \in Joiner, CheckJoin(t) PROVE JoinsInv'
  <2>1. /\ UNCHANGED <<matches, outcome, joins>> /\ joiner[t].stage # "idle"
        /\ JoinGoes(t, "checked") \/ JoinEnds(t)
    BY <1>3 DEF CheckJoin, JoinAt
  <2>2. /\ UnderWay' /\ OneLevelApart' /\ JoinAnswersItsMatch'
        /\ \A u \in Joiner \ {t} : joiner'[u] = joiner[u]
        /\ joiner'[t].stage # "idle" => joiner'[t] = [joiner[t] EXCEPT !.stage = "checked"]
    BY <2>1, MovesOn DEF JoinStage
  <2>3. joiner'[t].stage \in {"idle", "checked"}
    BY <2>1 DEF JoinGoes, JoinEnds, Idle, JoinsTypeOK
  <2>4. JoinedOnce'
    BY <2>1, <2>2, <2>3 DEF JoinedOnce, PastInsert
  <2>5. joiner'[t].stage = "checked" => OneLevel(joiner[t].primary, joiner[t].other)
    BY <1>3 DEF CheckJoin, JoinEnds, Idle, JoinsTypeOK
  <2>6. DeeperIsUnseen'
    BY <2>1, <2>2, <2>3, <2>5 DEF DeeperIsUnseen, PastCheck, OneLevel, JoinsTypeOK
  <2> QED BY <2>2, <2>4, <2>6
<1>4. ASSUME NEW t \in Joiner, InsertJoin(t) PROVE JoinsInv'
  <2>1. /\ UNCHANGED <<matches, outcome, joins>> /\ joiner[t].stage = "checked"
        /\ JoinGoes(t, "inserted") \/ JoinEnds(t)
    BY <1>4 DEF InsertJoin, JoinAt
  <2>2. /\ UnderWay' /\ OneLevelApart' /\ JoinAnswersItsMatch'
        /\ \A u \in Joiner \ {t} : joiner'[u] = joiner[u]
        /\ joiner'[t].stage # "idle" => joiner'[t] = [joiner[t] EXCEPT !.stage = "inserted"]
    BY <2>1, MovesOn DEF JoinStage
  <2>3. joiner'[t].stage \in {"idle", "inserted"}
    BY <2>1 DEF JoinGoes, JoinEnds, Idle, JoinsTypeOK
  <2>4. joiner'[t].stage = "inserted" =>
           /\ ~Inserting(joiner[t].other)
           /\ \A j \in joins : j.other # joiner[t].other
    BY <1>4 DEF InsertJoin, JoinEnds, Idle, JoinsTypeOK
  <2>5. JoinedOnce'
    BY <2>1, <2>2, <2>3, <2>4 DEF JoinedOnce, PastInsert, Inserting, JoinsTypeOK
  <2>6. DeeperIsUnseen'
    BY <2>1, <2>2, <2>3 DEF DeeperIsUnseen, PastCheck, JoinsTypeOK
  <2> QED BY <2>2, <2>5, <2>6
<1>5. ASSUME NEW t \in Joiner, FindItem(t) \/ AnswerItem(t) PROVE JoinsInv'
  <2>1. PICK stage \in {"answering", "closing"} :
           /\ UNCHANGED <<matches, outcome, joins>> /\ joiner[t].stage \in {"inserted", "answering"}
           /\ JoinGoes(t, stage) \/ JoinEnds(t)
    BY <1>5 DEF FindItem, AnswerItem, JoinAt
  <2>2. /\ UnderWay' /\ OneLevelApart' /\ JoinAnswersItsMatch'
        /\ \A u \in Joiner \ {t} : joiner'[u] = joiner[u]
        /\ joiner'[t].stage # "idle" => joiner'[t] = [joiner[t] EXCEPT !.stage = stage]
    BY <2>1, MovesOn DEF JoinStage
  <2>3. JoinedOnce' /\ DeeperIsUnseen'
    BY <2>1, <2>2 DEF JoinedOnce, DeeperIsUnseen, PastCheck, PastInsert, JoinsTypeOK
  <2> QED BY <2>2, <2>3
<1>6. ASSUME NEW t \in Joiner, CommitJoin(t) PROVE JoinsInv'
  <2>1. PICK n \in Joined :
           /\ n = [primary |-> joiner[t].primary, other |-> joiner[t].other,
                   match |-> joiner[t].match, unseen |-> joiner[t].unseen]
           /\ joins' = joins \cup {n} /\ n.primary # n.other
    <3>1. joiner[t].primary \in Record /\ joiner[t].other \in Record
          /\ joiner[t].primary # joiner[t].other
      BY <1>6 DEF CommitJoin, UnderWay
    <3>2. joiner[t].match \in Matching \cup {None}
          /\ joiner[t].unseen \in SUBSET (Record \X Record)
      BY DEF JoinsTypeOK
    <3>3. [primary |-> joiner[t].primary, other |-> joiner[t].other,
           match |-> joiner[t].match, unseen |-> joiner[t].unseen] \in Joined
      BY <3>1, <3>2 DEF Joined
    <3> QED BY <1>6, <3>1, <3>3 DEF CommitJoin
  <2>2. /\ joiner[t].stage \in {"inserted", "closing"} /\ matches' = matches
        /\ joiner'[t].stage = "idle" /\ joiner'[t].match = None
    BY <1>6 DEF CommitJoin, Idle
  <2>3. ASSUME NEW u \in Joiner \ {t}
        PROVE  /\ joiner'[u].stage = joiner[u].stage
               /\ joiner'[u].primary = joiner[u].primary /\ joiner'[u].other = joiner[u].other
               /\ joiner'[u].match = joiner[u].match
               /\ joiner'[u].stage \in PastCheck =>
                     joiner'[u].unseen = joiner[u].unseen \cup {<<n.primary, n.other>>}
    BY <1>6, <2>1 DEF CommitJoin, JoinsTypeOK, PastCheck
  <2>4. UnderWay'
    BY <2>2, <2>3 DEF UnderWay
  <2>5. JoinedOnce'
    BY <2>1, <2>2, <2>3 DEF JoinedOnce, PastInsert
  <2>6. DeeperIsUnseen'
    BY <2>1, <2>2, <2>3 DEF DeeperIsUnseen, PastCheck
  <2>7. \A j \in joins : j.other = n.primary \/ j.primary = n.other =>
                            <<j.primary, j.other>> \in n.unseen
    BY <2>1, <2>2 DEF DeeperIsUnseen, PastCheck
  <2>8. OneLevelApart'
    BY <2>1, <2>7 DEF OneLevelApart, Overlapped
  <2>9. n.match # None => n.match \in matches /\ outcome'[n.match] # None
    BY <1>6, <2>1 DEF CommitJoin, Answered, UnderWay, JoinsTypeOK
  <2>10. \A p \in Matching : outcome[p] # None => outcome'[p] # None
    BY <1>6 DEF CommitJoin, JoinsTypeOK
  <2>11. JoinAnswersItsMatch'
    BY <2>1, <2>2, <2>9, <2>10 DEF JoinAnswersItsMatch, JoinsTypeOK
  <2> QED BY <2>4, <2>5, <2>6, <2>8, <2>11
<1>7. ASSUME NEW j0 \in joins, UndoJoin(j0) PROVE JoinsInv'
  <2> DEFINE Undone == <<j0.primary, j0.other>>
  <2>1. /\ joins' = {[k EXCEPT !.unseen = @ \ {Undone}] : k \in joins \ {j0}}
        /\ joiner' = [t \in Joiner |-> [joiner[t] EXCEPT !.unseen = @ \ {Undone}]]
        /\ matches' = matches /\ outcome' = outcome
    BY <1>7 DEF UndoJoin
  <2> HIDE DEF Undone
  <2>2. ASSUME NEW k \in joins'
        PROVE  \E j \in joins \ {j0} :
                  /\ k = [j EXCEPT !.unseen = @ \ {Undone}]
                  /\ k.primary = j.primary /\ k.other = j.other /\ k.match = j.match
                  /\ k.unseen = j.unseen \ {Undone}
    <3>1. PICK j \in joins \ {j0} : k = [j EXCEPT !.unseen = @ \ {Undone}]
      BY <2>1
    <3>2. j \in Joined
      BY DEF JoinsTypeOK
    <3> QED BY <3>1, <3>2 DEF Joined
  <2>3. ASSUME NEW t \in Joiner
        PROVE  /\ joiner'[t].stage = joiner[t].stage
               /\ joiner'[t].primary = joiner[t].primary /\ joiner'[t].other = joiner[t].other
               /\ joiner'[t].match = joiner[t].match
               /\ joiner'[t].unseen = joiner[t].unseen \ {Undone}
    BY <2>1 DEF JoinsTypeOK
  <2>4. \A j \in joins \ {j0} : <<j.primary, j.other>> # Undone
    BY DEF JoinedOnce, Undone
  <2>5. UnderWay'
    BY <2>1, <2>3 DEF UnderWay
  <2>6. JoinedOnce'
    <3>1. ASSUME NEW k \in joins', NEW l \in joins', k.other = l.other
          PROVE  k = l
      <4>1. PICK j \in joins : /\ k = [j EXCEPT !.unseen = @ \ {Undone}]
                               /\ k.other = j.other
        BY <2>2
      <4>2. PICK i \in joins : /\ l = [i EXCEPT !.unseen = @ \ {Undone}]
                               /\ l.other = i.other
        BY <2>2
      <4>3. j = i
        BY <3>1, <4>1, <4>2 DEF JoinedOnce
      <4> QED BY <4>1, <4>2, <4>3
    <3>2. \A k \in joins' : \E j \in joins : k.other = j.other
      BY <2>2
    <3> QED BY <2>3, <3>1, <3>2 DEF JoinedOnce
  <2>7. DeeperIsUnseen'
    BY <2>2, <2>3, <2>4 DEF DeeperIsUnseen
  <2>8. OneLevelApart'
    <3>1. SUFFICES ASSUME NEW k \in joins', NEW l \in joins', k.other = l.primary
                   PROVE  Overlapped(k, l)
      BY DEF OneLevelApart, Overlapped
    <3>2. PICK j \in joins \ {j0} : /\ k.primary = j.primary /\ k.other = j.other
                                    /\ k.unseen = j.unseen \ {Undone}
      BY <2>2
    <3>3. PICK i \in joins \ {j0} : /\ l.primary = i.primary /\ l.other = i.other
                                    /\ l.unseen = i.unseen \ {Undone}
      BY <2>2
    <3>4. Overlapped(j, i)
      BY <3>1, <3>2, <3>3 DEF OneLevelApart
    <3> QED BY <3>2, <3>3, <3>4, <2>4 DEF Overlapped
  <2>9. JoinAnswersItsMatch'
    BY <2>1, <2>2 DEF JoinAnswersItsMatch
  <2> QED BY <2>5, <2>6, <2>7, <2>8, <2>9
<1> QED BY <1>1, <1>2, <1>3, <1>4, <1>5, <1>6, <1>7 DEF JoinsNext

LEMMA JoinsInvariant == JoinsSpec => []JoinsInv
<1>1. JoinsInv /\ JoinsNext => JoinsInv'
  BY JoinsTypedStep, JoinsStep DEF JoinsInv
<1>2. JoinsInv /\ UNCHANGED joinsVars => JoinsInv'
  BY DEF joinsVars, JoinsInv, JoinsTypeOK, UnderWay, JoinedOnce, DeeperIsUnseen,
         OneLevelApart, Overlapped, JoinAnswersItsMatch
<1> QED BY JoinsInvInit, <1>1, <1>2, PTL DEF JoinsSpec

(***************************************************************************)
(* candidates/joins.py and the trigger of migration 0012: for any records  *)
(* and any number of overlapping transactions, a record is joined once and *)
(* a group is one level deep, but for joins that did not see each other.   *)
(***************************************************************************)
THEOREM GroupsStayFlat == JoinsSpec => []GroupsAreOneLevel
<1>1. JoinsInv => GroupsAreOneLevel
  BY DEF JoinsInv, JoinedOnce, OneLevelApart, GroupsAreOneLevel
<1> QED BY JoinsInvariant, <1>1, PTL

(***************************************************************************)
(* While a join stands, the match it was made on has been answered.        *)
(***************************************************************************)
THEOREM JoinsAnswer == JoinsSpec => []JoinAnswersItsMatch
<1>1. JoinsInv => JoinAnswersItsMatch
  BY DEF JoinsInv
<1> QED BY JoinsInvariant, <1>1, PTL

-----------------------------------------------------------------------------
(* Checks.                                                                  *)

ChecksTypes ==
    /\ unverified \subseteq Field
    /\ item \in {"open", "checked", "dismissed"}
    /\ check \in [Checker -> [stage : {"idle", "inserted", "closing", "leaving", "resolved"},
                              field : Field \cup {None}]]
    /\ overlapped \in BOOLEAN

\* Who leaves the item open still sees a field that is not checked, until
\* another check commits meanwhile.
LeavesForAReason ==
    ~overlapped /\ item = "open" =>
        /\ unverified # {}
        /\ \A t \in Checker : CheckAt(t, "leaving") => SeenBy(t) # {}

LEMMA ChecksInvInit == ChecksInit => ChecksTypes /\ LeavesForAReason
<1> SUFFICES ASSUME ChecksInit PROVE ChecksTypes /\ LeavesForAReason
  OBVIOUS
<1>1. check \in [Checker -> [stage : {"idle", "inserted", "closing", "leaving", "resolved"},
                             field : Field \cup {None}]]
      /\ \A t \in Checker : ~CheckAt(t, "leaving")
  BY DEF ChecksInit, NoCheck, CheckAt
<1> QED BY <1>1, FieldAssumption DEF ChecksInit, ChecksTypes, LeavesForAReason

LEMMA ChecksTypedStep ==
    ASSUME ChecksTypes, ChecksNext
    PROVE  ChecksTypes'
<1> USE DEF ChecksTypes
<1>1. ASSUME NEW t \in Checker, NEW field \in Field, InsertCheck(t, field) PROVE ChecksTypes'
  BY <1>1 DEF InsertCheck
<1>2. ASSUME NEW t \in Checker, CountUnchecked(t) \/ InsertResolution(t) PROVE ChecksTypes'
  BY <1>2 DEF CountUnchecked, InsertResolution, CheckGoes, NoCheck
<1>3. ASSUME NEW t \in Checker, CommitCheck(t) PROVE ChecksTypes'
  BY <1>3 DEF CommitCheck, SeenBy, NoCheck
<1>4. ASSUME NEW field \in Field, RenewField(field) PROVE ChecksTypes'
  BY <1>4 DEF RenewField
<1>5. ASSUME NEW how \in {"checked", "dismissed"}, ResolveByHand(how) PROVE ChecksTypes'
  BY <1>5 DEF ResolveByHand
<1> QED BY <1>1, <1>2, <1>3, <1>4, <1>5 DEF ChecksNext

LEMMA ChecksStep ==
    ASSUME ChecksTypes, LeavesForAReason, ChecksNext
    PROVE  LeavesForAReason'
<1> USE DEF ChecksTypes, LeavesForAReason
<1>1. ASSUME NEW t \in Checker, NEW field \in Field, InsertCheck(t, field)
      PROVE  LeavesForAReason'
  BY <1>1 DEF InsertCheck, CheckAt, SeenBy
<1>2. ASSUME NEW t \in Checker, CountUnchecked(t) PROVE LeavesForAReason'
  BY <1>2 DEF CountUnchecked, CheckGoes, CheckAt, SeenBy
<1>3. ASSUME NEW t \in Checker, InsertResolution(t) PROVE LeavesForAReason'
  BY <1>3 DEF InsertResolution, CheckGoes, CheckAt, SeenBy, NoCheck
<1>4. ASSUME NEW t \in Checker, CommitCheck(t) PROVE LeavesForAReason'
  <2>1. SUFFICES ASSUME ~overlapped', item' = "open"
                 PROVE  /\ unverified' # {}
                        /\ \A u \in Checker : CheckAt(u, "leaving")' => SeenBy(u)' # {}
    OBVIOUS
  <2>2. CheckAt(t, "leaving") /\ item = "open" /\ ~overlapped
        /\ \A u \in Checker \ {t} : ~CheckAt(u, "leaving")
    BY <1>4, <2>1 DEF CommitCheck, CheckAt
  <2>3. unverified' # {}
    BY <1>4, <2>2 DEF CommitCheck
  <2>4. \A u \in Checker : ~CheckAt(u, "leaving")'
    BY <1>4, <2>2 DEF CommitCheck, CheckAt, NoCheck
  <2> QED BY <2>3, <2>4
<1>5. ASSUME NEW field \in Field, RenewField(field) PROVE LeavesForAReason'
  <2>1. unverified' # {} /\ unverified \subseteq unverified' /\ item' = item
        /\ overlapped' = overlapped
    BY <1>5 DEF RenewField
  <2>2. ASSUME NEW t \in Checker, CheckAt(t, "leaving")', SeenBy(t) # {}
        PROVE  SeenBy(t)' # {}
    BY <1>5, <2>1, <2>2, NoFieldAssumption DEF RenewField, SeenBy
  <2>3. \A t \in Checker : CheckAt(t, "leaving")' => CheckAt(t, "leaving")
    BY <1>5 DEF RenewField, CheckAt
  <2> QED BY <2>1, <2>2, <2>3
<1>6. ASSUME NEW how \in {"checked", "dismissed"}, ResolveByHand(how)
      PROVE  LeavesForAReason'
  BY <1>6 DEF ResolveByHand
<1> QED BY <1>1, <1>2, <1>3, <1>4, <1>5, <1>6 DEF ChecksNext

(***************************************************************************)
(* intake/manual.py: for any number of fields and of people who check      *)
(* them, the last check closes the candidate's item, unless it overlapped  *)
(* another.                                                                *)
(***************************************************************************)
THEOREM TheLastCheckCloses == ChecksSpec => []LastCheckClosesTheItem
<1>1. ChecksTypes /\ LeavesForAReason /\ [ChecksNext]_checksVars
        => ChecksTypes' /\ LeavesForAReason'
  BY ChecksTypedStep, ChecksStep
     DEF checksVars, ChecksTypes, LeavesForAReason, CheckAt, SeenBy
<1>2. ChecksTypes /\ LeavesForAReason => LastCheckClosesTheItem
  BY DEF ChecksTypes, LeavesForAReason, LastCheckClosesTheItem
<1> QED BY ChecksInvInit, <1>1, <1>2, PTL DEF ChecksSpec

-----------------------------------------------------------------------------
(* Retention.                                                               *)

Run == [stage : {"idle", "erasing", "files", "over", "stopped", "left", "failed"},
        due : SUBSET Applicant, gone : SUBSET Applicant, kept : SUBSET Applicant]

RetentionTypes ==
    /\ eraser \in [Eraser -> Run]
    /\ known \subseteq Applicant
    /\ erased \subseteq known

\* A run is about candidates there are, its files are of the erased, and what
\* it has not seen, or a CV read since, was given to a record it had emptied.
RunsInOrder ==
    \A e \in Eraser :
        /\ eraser[e].due \subseteq known /\ eraser[e].gone \subseteq known
        /\ eraser[e].stage \in {"files", "left"} => eraser[e].due \subseteq erased
        /\ \A c \in eraser[e].kept \cup (eraser[e].gone \cap answered) : <<"values", c>> \in again

RetentionInv == RetentionTypes /\ RunsInOrder /\ DataGoesWithItsErasure

\* Some run has yet to delete the file, or was stopped before it.
Pending(c) ==
    \E e \in Eraser : eraser[e].stage \in {"files", "left"} /\ c \in eraser[e].due

(***************************************************************************)
(* A run that goes on to a stage in which it deletes no file, or with its  *)
(* own file's stage.                                                       *)
(***************************************************************************)
LEMMA RunGoes ==
    ASSUME RetentionInv, NEW e \in Eraser, NEW run \in Run, eraser' = [eraser EXCEPT ![e] = run],
           run.due \subseteq known, run.gone \subseteq known,
           run.stage \in {"files", "left"} => run.due \subseteq erased,
           \A c \in run.kept \cup (run.gone \cap answered) : <<"values", c>> \in again,
           \A c \in erased \cap files :
               eraser[e].stage \in {"files", "left"} /\ c \in eraser[e].due =>
                   run.stage \in {"files", "left"} /\ c \in run.due,
           UNCHANGED <<people, fields, files, again, erased>>
    PROVE  RetentionInv'
<1> USE DEF RetentionInv, people, readings
<1>1. RetentionTypes' /\ RunsInOrder'
  BY DEF RetentionTypes, RunsInOrder
<1>2. \A c \in erased \cap files : Pending(c) => Pending(c)'
  BY DEF Pending, RetentionTypes
<1>3. DataGoesWithItsErasure'
  BY <1>2 DEF DataGoesWithItsErasure, Pending
<1> QED BY <1>1, <1>3

LEMMA RetentionStep ==
    ASSUME RetentionInv, RetentionNext
    PROVE  RetentionInv'
<1> USE DEF RetentionInv
<1>1. ASSUME NEW c \in Applicant, ReceiveCv(c) PROVE RetentionInv'
  BY <1>1 DEF ReceiveCv, readings, RetentionTypes, RunsInOrder, DataGoesWithItsErasure
<1>2. ASSUME UNCHANGED <<known, answered, fields, files, again, erased, eraser>>
      PROVE  RetentionInv'
  BY <1>2 DEF RetentionTypes, RunsInOrder, DataGoesWithItsErasure
<1>3. ASSUME NEW c \in Applicant,
             BeginReading(c) \/ Ask(c) \/ LiftAsked(c) \/ MonthPasses \/ ActivatePolicy
             \/ (\E opening \in Opening : BeginApply(c, opening))
             \/ (\E a \in Applicant \X Opening, how \in {"rejected", "hired"} :
                    MoveToOutcome(a, how))
      PROVE  RetentionInv'
  BY <1>2, <1>3
     DEF BeginReading, Ask, LiftAsked, MonthPasses, ActivatePolicy, BeginApply, MoveToOutcome,
         readings
<1>4. ASSUME NEW c \in Applicant, GiveValues(c), answered' \in {answered, answered \cup {c}},
             UNCHANGED <<known, files, erased>>
      PROVE  RetentionInv'
  <2>1. eraser' \in [Eraser -> Run]
    BY <1>4 DEF GiveValues, RetentionTypes, Run
  <2>2. \A e \in Eraser : /\ eraser'[e].stage = eraser[e].stage /\ eraser'[e].due = eraser[e].due
                          /\ eraser'[e].gone = eraser[e].gone
                          /\ eraser'[e].kept \subseteq eraser[e].kept
                               \cup (IF c \in eraser[e].gone THEN {c} ELSE {})
    BY <1>4 DEF GiveValues, RetentionTypes, Run
  <2>3. again \subseteq again' /\ (Emptied(c) => <<"values", c>> \in again')
        /\ fields' = fields \cup {c}
    BY <1>4 DEF GiveValues
  <2>4. RunsInOrder'
    BY <1>4, <2>2, <2>3 DEF RunsInOrder, Emptied
  <2>5. DataGoesWithItsErasure'
    BY <1>4, <2>2, <2>3 DEF DataGoesWithItsErasure, Emptied
  <2> QED BY <1>4, <2>1, <2>4, <2>5 DEF RetentionTypes
<1>5. ASSUME NEW a \in Applicant \X Opening, CommitApply(a) PROVE RetentionInv'
  <2>1. CASE result[a] = "none"
    BY <1>4, <1>5, <2>1 DEF CommitApply, readings
  <2>2. CASE result[a] # "none"
    BY <1>2, <1>5, <2>2 DEF CommitApply, readings
  <2> QED BY <2>1, <2>2
<1>13. ASSUME NEW c \in Applicant, CommitReading(c) PROVE RetentionInv'
  BY <1>4, <1>13 DEF CommitReading
<1>6. ASSUME NEW e \in Eraser, NEW stage \in {"over", "stopped", "left", "failed"},
             EraserGoes(e, stage), UNCHANGED <<people, fields, files, again, erased>>,
             stage = "left" <=> eraser[e].stage = "files",
             eraser[e].stage \in {"erasing", "files"}
      PROVE  RetentionInv'
  <2> DEFINE run == [NotRun EXCEPT !.stage = stage, !.due = eraser[e].due]
  <2>1. run \in Run /\ run.stage = stage /\ run.due = eraser[e].due /\ run.gone = {} /\ run.kept = {}
    BY DEF NotRun, Run, RetentionTypes
  <2>2. eraser' = [eraser EXCEPT ![e] = run]
    BY <1>6 DEF EraserGoes
  <2> HIDE DEF run
  <2> QED BY <1>6, <2>1, <2>2, RunGoes DEF RunsInOrder
<1>7. ASSUME NEW e \in Eraser, Look(e) PROVE RetentionInv'
  <2>1. PICK due \in SUBSET known :
           eraser' = [eraser EXCEPT ![e] = [NotRun EXCEPT !.stage = "erasing", !.due = due]]
    <3>1. Due \in SUBSET known /\ \A c \in known : {c} \in SUBSET known
      BY DEF Due
    <3>2. \A due \in {{c} : c \in known} \cup (IF inForce THEN {Due} ELSE {}) : due \in SUBSET known
      BY <3>1
    <3> QED BY <1>7, <3>2 DEF Look
  <2> DEFINE run == [NotRun EXCEPT !.stage = "erasing", !.due = due]
  <2>2. run \in Run /\ run.stage = "erasing" /\ run.due = due /\ run.gone = {} /\ run.kept = {}
    BY DEF NotRun, Run, RetentionTypes
  <2>3. eraser' = [eraser EXCEPT ![e] = run]
    BY <2>1
  <2> HIDE DEF run
  <2> QED BY <1>7, <2>2, <2>3, RunGoes DEF Look, EraserAt
<1>8. ASSUME NEW e \in Eraser, NEW c \in Applicant, EraseCandidate(e, c) PROVE RetentionInv'
  <2>1. CASE EraserGoes(e, "failed")
    BY <1>6, <1>8, <2>1 DEF EraseCandidate, EraserAt
  <2>2. CASE eraser' = [eraser EXCEPT ![e].gone = @ \cup {c}]
    <3> DEFINE run == [eraser[e] EXCEPT !.gone = @ \cup {c}]
    <3>1. /\ run \in Run /\ run.stage = "erasing" /\ run.due = eraser[e].due
          /\ run.gone = eraser[e].gone \cup {c} /\ run.kept = eraser[e].kept
          /\ eraser' = [eraser EXCEPT ![e] = run]
      BY <1>8, <2>2 DEF EraseCandidate, EraserAt, Run, RetentionTypes
    <3> HIDE DEF run
    <3>2. c \in known /\ c \notin answered
      <4>1. c \in known
        BY <1>8 DEF EraseCandidate, RunsInOrder
      <4>2. CASE c \in answered
        <5>1. eraser'[e].stage = "failed"
          BY <1>8, <4>2 DEF EraseCandidate, EraserGoes, NotRun, RetentionTypes
        <5> QED BY <3>1, <5>1 DEF RetentionTypes
      <4> QED BY <4>1, <4>2
    <3>3. /\ run.due \subseteq known /\ run.gone \subseteq known
          /\ \A d \in run.kept \cup (run.gone \cap answered) : <<"values", d>> \in again
      BY <3>1, <3>2 DEF RunsInOrder
    <3>4. UNCHANGED <<people, fields, files, again, erased>> /\ eraser[e].stage = "erasing"
      BY <1>8 DEF EraseCandidate, EraserAt
    <3> QED BY <3>1, <3>3, <3>4, RunGoes
  <2> QED BY <1>8, <2>1, <2>2 DEF EraseCandidate
<1>9. ASSUME NEW e \in Eraser, CommitErasure(e) PROVE RetentionInv'
  <2>1. /\ eraser'[e].stage = "files" /\ eraser'[e].due = eraser[e].gone
        /\ eraser'[e].gone = {} /\ eraser'[e].kept = {} /\ eraser[e].stage = "erasing"
        /\ \A d \in Eraser \ {e} : eraser'[d] = eraser[d]
        /\ eraser' \in [Eraser -> Run]
    BY <1>9 DEF CommitErasure, EraserGoes, EraserAt, NotRun, Run, RetentionTypes
  <2>2. /\ erased' = erased \cup eraser[e].gone
        /\ fields' = fields \ (eraser[e].gone \ eraser[e].kept)
        /\ UNCHANGED <<known, answered, files, again>>
    BY <1>9 DEF CommitErasure, people, readings
  <2>3. RetentionTypes' /\ RunsInOrder'
    BY <2>1, <2>2 DEF RetentionTypes, RunsInOrder
  <2>4. \A c \in erased' \cap (fields' \cup answered') : <<"values", c>> \in again'
    BY <2>2 DEF RunsInOrder, DataGoesWithItsErasure
  <2>5. ASSUME NEW c \in erased' \cap files'
        PROVE  <<"file", c>> \in again' \/ Pending(c)'
    <3>1. CASE c \in eraser[e].gone
      BY <2>1, <3>1 DEF Pending
    <3>2. CASE c \in erased
      BY <2>1, <2>2, <2>5, <3>2 DEF Pending, DataGoesWithItsErasure
    <3> QED BY <2>2, <2>5, <3>1, <3>2
  <2>6. DataGoesWithItsErasure'
    BY <2>2, <2>4, <2>5 DEF DataGoesWithItsErasure, Pending
  <2> QED BY <2>3, <2>6
<1>10. ASSUME NEW e \in Eraser, NEW c \in Applicant, DeleteFile(e, c) PROVE RetentionInv'
  <2>1. /\ eraser[e].stage = "files" /\ eraser'[e].stage = "files"
        /\ eraser'[e].due = eraser[e].due \ {c} /\ c \in erased
        /\ eraser'[e].gone = eraser[e].gone /\ eraser'[e].kept = eraser[e].kept
        /\ \A d \in Eraser \ {e} : eraser'[d] = eraser[d]
        /\ eraser' \in [Eraser -> Run]
    BY <1>10 DEF DeleteFile, EraserAt, Run, RetentionTypes, RunsInOrder
  <2>2. files' = files \ {c} /\ UNCHANGED <<known, answered, fields, again, erased>>
    BY <1>10 DEF DeleteFile, people, readings
  <2>3. RetentionTypes' /\ RunsInOrder'
    BY <2>1, <2>2 DEF RetentionTypes, RunsInOrder
  <2>4. \A d \in erased' \cap files' : Pending(d) => Pending(d)'
    BY <2>1, <2>2 DEF Pending
  <2>5. DataGoesWithItsErasure'
    BY <2>1, <2>2, <2>4 DEF DataGoesWithItsErasure, Pending
  <2> QED BY <2>3, <2>5
<1>11. ASSUME NEW e \in Eraser, RunOver(e) PROVE RetentionInv'
  <2> DEFINE run == [NotRun EXCEPT !.stage = "over", !.due = eraser[e].due]
  <2>1. run \in Run /\ run.stage = "over" /\ run.due = eraser[e].due /\ run.gone = {} /\ run.kept = {}
    BY DEF NotRun, Run, RetentionTypes
  <2>2. eraser' = [eraser EXCEPT ![e] = run] /\ eraser[e].due = {}
    BY <1>11 DEF RunOver, EraserGoes
  <2> HIDE DEF run
  <2> QED BY <1>11, <2>1, <2>2, RunGoes DEF RunOver
<1>12. ASSUME NEW e \in Eraser, StopEraser(e) PROVE RetentionInv'
  BY <1>6, <1>12 DEF StopEraser, EraserAt
<1> QED
  BY <1>1, <1>2, <1>3, <1>5, <1>7, <1>8, <1>9, <1>10, <1>11, <1>12, <1>13
     DEF RetentionNext, MonthPasses, ActivatePolicy, readings

(***************************************************************************)
(* ops/retention.py and migration 0014: for any candidates, openings and   *)
(* runs of the eraser, wherever these stop, a file goes only after its     *)
(* candidate's erasure and with it, and values or a reader's answer stand  *)
(* on an erased record only if they were given to it since it was emptied. *)
(* It is about the erasures that succeed: none does once the CV was read.  *)
(***************************************************************************)
THEOREM ErasureTakesTheData == RetentionSpec => []DataGoesWithItsErasure
<1>1. RetentionInit => RetentionInv
  <2> SUFFICES ASSUME RetentionInit PROVE RetentionInv
    OBVIOUS
  <2>1. NotRun \in Run /\ NotRun.due = {} /\ NotRun.gone = {} /\ NotRun.kept = {}
    BY DEF NotRun, Run
  <2>2. eraser \in [Eraser -> Run] /\ \A e \in Eraser : eraser[e] = NotRun
    BY <2>1 DEF RetentionInit
  <2> QED
    BY <2>1, <2>2
       DEF RetentionInit, RetentionInv, RetentionTypes, RunsInOrder, DataGoesWithItsErasure
<1>2. RetentionInv /\ UNCHANGED retentionVars => RetentionInv'
  BY DEF retentionVars, readings, RetentionInv, RetentionTypes, RunsInOrder, DataGoesWithItsErasure
<1>3. RetentionInv /\ RetentionNext => RetentionInv'
  BY RetentionStep
<1>4. RetentionInv => DataGoesWithItsErasure
  BY DEF RetentionInv
<1> QED BY <1>1, <1>2, <1>3, <1>4, PTL DEF RetentionSpec

-----------------------------------------------------------------------------
(* Visibility.                                                              *)

(***************************************************************************)
(* Chains of early returns.                                                *)
(***************************************************************************)
LEMMA FirstOfOne ==
    ASSUME NEW p, NEW x, NEW otherwise
    PROVE  FirstOf(<< <<p, x>> >>, otherwise) = IF p THEN x ELSE otherwise
BY DEF FirstOf

LEMMA FirstOfTwo ==
    ASSUME NEW p, NEW q, NEW x, NEW y, NEW otherwise
    PROVE  FirstOf(<< <<p, x>>, <<q, y>> >>, otherwise)
             = IF p THEN x ELSE IF q THEN y ELSE otherwise
BY DEF FirstOf

LEMMA FirstOfThree ==
    ASSUME NEW p, NEW q, NEW r, NEW x, NEW y, NEW z, NEW otherwise
    PROVE  FirstOf(<< <<p, x>>, <<q, y>>, <<r, z>> >>, otherwise)
             = IF p THEN x ELSE IF q THEN y ELSE IF r THEN z ELSE otherwise
BY DEF FirstOf

LEMMA FirstOfFour ==
    ASSUME NEW p, NEW q, NEW r, NEW t, NEW x, NEW y, NEW z, NEW w, NEW otherwise
    PROVE  FirstOf(<< <<p, x>>, <<q, y>>, <<r, z>>, <<t, w>> >>, otherwise)
             = IF p THEN x ELSE IF q THEN y ELSE IF r THEN z ELSE IF t THEN w ELSE otherwise
BY DEF FirstOf

LEMMA FirstOfFive ==
    ASSUME NEW p, NEW q, NEW r, NEW t, NEW u, NEW x, NEW y, NEW z, NEW w, NEW v, NEW otherwise
    PROVE  FirstOf(<< <<p, x>>, <<q, y>>, <<r, z>>, <<t, w>>, <<u, v>> >>, otherwise)
             = IF p THEN x ELSE IF q THEN y ELSE IF r THEN z ELSE IF t THEN w
               ELSE IF u THEN v ELSE otherwise
BY DEF FirstOf

(***************************************************************************)
(* Who is asking: whoever sees what is hidden sees all there is, and who   *)
(* works in the pipeline reads with the same eyes.                         *)
(***************************************************************************)
LEMMA ActorIs ==
    ASSUME NEW p
    PROVE  /\ ActorOf(p) # None => ActorOf(p).subject = p /\ ReaderOf(p) = ActorOf(p)
           /\ ActorOf(p) # None /\ ActorOf(p).isAdmin => ActorOf(p).seesAll
<1> DEFINE leads == RolesOf[p] \cap {"ta_lead", "admin"} # {}
           recruits == "recruiter" \in RolesOf[p]
           lead == [subject |-> p, seesAll |-> TRUE, isAdmin |-> "admin" \in RolesOf[p]]
           recruiter == [subject |-> p, seesAll |-> FALSE, isAdmin |-> FALSE]
<1>1. ActorOf(p) = FirstOf(<< <<leads, lead>>, <<recruits, recruiter>> >>, None)
  BY Zenon DEF ActorOf
<1>2. /\ lead.subject = p /\ lead.seesAll
      /\ recruiter.subject = p /\ ~recruiter.isAdmin
  OBVIOUS
<1> HIDE DEF leads, recruits, lead, recruiter
<1>3. ActorOf(p) \in {lead, recruiter, None}
  BY <1>1, FirstOfTwo
<1> QED
  BY <1>2, <1>3 DEF ReaderOf

(***************************************************************************)
(* Every answer about a candidate is decided by who asks and what they see.*)
(***************************************************************************)
LEMMA AnswersAboutCandidate ==
    ASSUME NEW p, NEW c
    PROVE  /\ FetchCandidate(p, c) =
                (IF ActorOf(p) = None THEN "forbidden"
                 ELSE IF ~Visible(ActorOf(p), c) THEN "no_candidate" ELSE "ok")
           /\ ListDocuments(p, c) = FetchCandidate(p, c)
           /\ VerifyField(p, c) = FetchCandidate(p, c)
           /\ DownloadDocument(p, c) =
                (IF ActorOf(p) = None THEN "forbidden"
                 ELSE IF ~Visible(ActorOf(p), c) THEN "no_document" ELSE "ok")
           /\ ListEvaluations(p, c) =
                (IF ReaderOf(p) = None THEN "forbidden"
                 ELSE IF ~Visible(ReaderOf(p), c) THEN "no_candidate" ELSE "ok")
           /\ CandidateGroup(p, c) = ListEvaluations(p, c)
           /\ FetchEvaluation(p, c) =
                (IF ReaderOf(p) = None THEN "forbidden"
                 ELSE IF ~Visible(ReaderOf(p), c) THEN "no_evaluation" ELSE "ok")
           /\ ExplainEvaluation(p, c) = FetchEvaluation(p, c)
<1> DEFINE unseen == ~Visible(ActorOf(p), c)
           unread == ~Visible(ReaderOf(p), c)
<1>1. \A v : /\ FirstOf(<< <<unseen, v>> >>, "ok") = IF unseen THEN v ELSE "ok"
             /\ FirstOf(<< <<unread, v>> >>, "ok") = IF unread THEN v ELSE "ok"
  <2> HIDE DEF unseen, unread
  <2> QED
    BY FirstOfOne
<1>2. FirstOf(<< <<unread, "no_evaluation">>, <<unread, "no_candidate">> >>, "ok")
         = IF unread THEN "no_evaluation" ELSE "ok"
  <2> HIDE DEF unread
  <2> QED
    BY FirstOfTwo
<1>3. /\ ListDocuments(p, c) = FetchCandidate(p, c) /\ VerifyField(p, c) = FetchCandidate(p, c)
      /\ CandidateGroup(p, c) = ListEvaluations(p, c)
  BY Zenon DEF FetchCandidate, ListDocuments, VerifyField, CandidateGroup, ListEvaluations
<1>4. /\ FetchCandidate(p, c) = IF ActorOf(p) = None THEN "forbidden"
                                ELSE FirstOf(<< <<unseen, "no_candidate">> >>, "ok")
      /\ DownloadDocument(p, c) = IF ActorOf(p) = None THEN "forbidden"
                                ELSE FirstOf(<< <<unseen, "no_document">> >>, "ok")
      /\ ListEvaluations(p, c) = IF ReaderOf(p) = None THEN "forbidden"
                                ELSE FirstOf(<< <<unread, "no_candidate">> >>, "ok")
      /\ FetchEvaluation(p, c) = IF ReaderOf(p) = None THEN "forbidden"
                                ELSE FirstOf(<< <<unread, "no_evaluation">> >>, "ok")
      /\ ExplainEvaluation(p, c) =
            IF ReaderOf(p) = None THEN "forbidden"
            ELSE FirstOf(<< <<unread, "no_evaluation">>, <<unread, "no_candidate">> >>, "ok")
  BY Zenon DEF FetchCandidate, DownloadDocument, ListEvaluations, FetchEvaluation,
       ExplainEvaluation, Answer
<1> HIDE DEF unseen, unread
<1> QED
  BY <1>1, <1>2, <1>3, <1>4 DEF unseen, unread

LEMMA AnswersAboutWithdrawal ==
    ASSUME NEW p, NEW c, ActorOf(p) # None
    PROVE  /\ ~Visible(ActorOf(p), c) => RecordWithdrawal(p, c) = "no_candidate"
           /\ RecordWithdrawal(p, c) = "ok" => Visible(ActorOf(p), c) /\ c \notin hidden
           /\ ~ActorOf(p).isAdmin /\ ~Visible(ActorOf(p), c)
                => CandidateWithdrawals(p, c) = "no_candidate"
           /\ ~ActorOf(p).isAdmin => LiftWithdrawal(p, c) = "forbidden"
<1> DEFINE unseen == ~Visible(ActorOf(p), c)
           out == c \in hidden
           refused == ~ActorOf(p).isAdmin /\ ~Visible(ActorOf(p), c)
           plain == ~ActorOf(p).isAdmin
           none == c \notin withdrawn
           lifted == c \notin hidden
<1>1. /\ RecordWithdrawal(p, c) =
            FirstOf(<< <<unseen, "no_candidate">>, <<out, "already_exists">> >>, "ok")
      /\ CandidateWithdrawals(p, c) = FirstOf(<< <<refused, "no_candidate">> >>, "ok")
      /\ LiftWithdrawal(p, c) =
            FirstOf(<< <<plain, "forbidden">>, <<none, "no_withdrawal">>,
                       <<lifted, "already_lifted">> >>, "ok")
  BY Zenon DEF RecordWithdrawal, CandidateWithdrawals, LiftWithdrawal, Answer
<1> HIDE DEF unseen, out, refused, plain, none, lifted
<1>2. /\ RecordWithdrawal(p, c) =
            IF unseen THEN "no_candidate" ELSE IF out THEN "already_exists" ELSE "ok"
      /\ CandidateWithdrawals(p, c) = IF refused THEN "no_candidate" ELSE "ok"
      /\ plain => LiftWithdrawal(p, c) = "forbidden"
  BY <1>1, FirstOfOne, FirstOfTwo, FirstOfThree
<1> QED
  BY <1>2 DEF unseen, out, refused, plain

LEMMA AnswersAboutItem ==
    ASSUME NEW p, NEW i, NEW decision
    PROVE  /\ FetchReviewItem(p, i) =
                (IF ReaderOf(p) = None THEN "forbidden"
                 ELSE IF ~VisibleReview(ReaderOf(p), i) THEN "no_item" ELSE "ok")
           /\ FetchCandidateReviewItem(p, i) =
                (IF ReaderOf(p) = None THEN "forbidden"
                 ELSE IF ~VisibleCandidateReview(ReaderOf(p), i) THEN "no_item" ELSE "ok")
           /\ ActorOf(p) = None =>
                /\ ResolveReviewItem(p, i) = "forbidden"
                /\ ResolveCandidateReviewItem(p, i, decision) = "forbidden"
           /\ ActorOf(p) # None =>
                /\ ResolveReviewItem(p, i) =
                     (IF ~VisibleReview(ActorOf(p), i) THEN "no_item"
                      ELSE IF i \in done THEN "already_resolved"
                      ELSE IF ~VisibleApplication(ActorOf(p), <<i[2], i[3]>>) THEN "no_application"
                      ELSE "ok")
                /\ ResolveCandidateReviewItem(p, i, decision) =
                     (IF decision = "no_reason" THEN "invalid_request"
                      ELSE IF ~VisibleCandidateReview(ActorOf(p), i) THEN "no_item"
                      ELSE IF i \in done THEN "already_resolved"
                      ELSE IF decision = "checked" /\ i[1] = "unverified_candidate"
                              /\ i[2] \in unchecked THEN "not_checked"
                      ELSE "ok")
<1> DEFINE unread == ~VisibleReview(ReaderOf(p), i)
           unlisted == ~VisibleCandidateReview(ReaderOf(p), i)
           unseen == ~VisibleReview(ActorOf(p), i)
           over == i \in done
           outside == ~VisibleApplication(ActorOf(p), <<i[2], i[3]>>)
           bare == decision = "no_reason"
           unknown == ~VisibleCandidateReview(ActorOf(p), i)
           unready == decision = "checked" /\ i[1] = "unverified_candidate" /\ i[2] \in unchecked
<1>1. /\ FetchReviewItem(p, i) = IF ReaderOf(p) = None THEN "forbidden"
                                 ELSE FirstOf(<< <<unread, "no_item">> >>, "ok")
      /\ FetchCandidateReviewItem(p, i) = IF ReaderOf(p) = None THEN "forbidden"
                                 ELSE FirstOf(<< <<unlisted, "no_item">> >>, "ok")
      /\ ResolveReviewItem(p, i) =
            IF ActorOf(p) = None THEN "forbidden"
            ELSE FirstOf(<< <<unseen, "no_item">>, <<over, "already_resolved">>,
                            <<outside, "no_application">> >>, "ok")
      /\ ResolveCandidateReviewItem(p, i, decision) =
            IF ActorOf(p) = None THEN "forbidden"
            ELSE FirstOf(<< <<bare, "invalid_request">>, <<unknown, "no_item">>,
                            <<over, "already_resolved">>, <<unready, "not_checked">> >>, "ok")
  BY Zenon DEF FetchReviewItem, FetchCandidateReviewItem, ResolveReviewItem,
       ResolveCandidateReviewItem, Answer
<1> HIDE DEF unread, unlisted, unseen, over, outside, bare, unknown, unready
<1>2. /\ FirstOf(<< <<unread, "no_item">> >>, "ok") = IF unread THEN "no_item" ELSE "ok"
      /\ FirstOf(<< <<unlisted, "no_item">> >>, "ok") = IF unlisted THEN "no_item" ELSE "ok"
      /\ FirstOf(<< <<unseen, "no_item">>, <<over, "already_resolved">>,
                    <<outside, "no_application">> >>, "ok")
           = IF unseen THEN "no_item" ELSE IF over THEN "already_resolved"
             ELSE IF outside THEN "no_application" ELSE "ok"
      /\ FirstOf(<< <<bare, "invalid_request">>, <<unknown, "no_item">>,
                    <<over, "already_resolved">>, <<unready, "not_checked">> >>, "ok")
           = IF bare THEN "invalid_request" ELSE IF unknown THEN "no_item"
             ELSE IF over THEN "already_resolved" ELSE IF unready THEN "not_checked" ELSE "ok"
  BY FirstOfOne, FirstOfThree, FirstOfFour
<1> QED
  BY <1>1, <1>2, Zenon DEF unread, unlisted, unseen, over, outside, bare, unknown, unready

LEMMA AnswersAboutApplication ==
    ASSUME NEW p, NEW a
    PROVE  /\ FetchApplication(p, a) =
                (IF ActorOf(p) = None THEN "forbidden"
                 ELSE IF ~VisibleApplication(ActorOf(p), a) THEN "no_application" ELSE "ok")
<1> DEFINE unseen == ~VisibleApplication(ActorOf(p), a)
<1>1. FetchApplication(p, a) = IF ActorOf(p) = None THEN "forbidden"
                               ELSE FirstOf(<< <<unseen, "no_application">> >>, "ok")
  BY Zenon DEF FetchApplication, Answer
<1> HIDE DEF unseen
<1>2. FirstOf(<< <<unseen, "no_application">> >>, "ok") = IF unseen THEN "no_application" ELSE "ok"
  BY FirstOfOne
<1> QED
  BY <1>1, <1>2 DEF unseen

(***************************************************************************)
(* What is applied for, waits or is done belongs to a candidate there is.  *)
(***************************************************************************)
RecordsBelong ==
    /\ created \subseteq Candidate
    /\ applied \subseteq created \X Owner
    /\ \A i \in waiting \cup done :
          /\ i \in Item /\ i[2] \in created
          /\ i[1] = "proposed_rejection" => <<i[2], i[3]>> \in applied
    /\ waiting \cap done = {}
    /\ IsFiniteSet(waiting)

LEMMA RecordsBelongStep ==
    ASSUME RecordsBelong, VisibilityNext
    PROVE  RecordsBelong'
<1> USE DEF RecordsBelong
<1>1. ASSUME NEW c \in Candidate, NEW p, EnterCandidate(p, c) PROVE RecordsBelong'
  <2> DEFINE opened == <<"unverified_candidate", c, None>>
  <2>1. opened \in Item /\ opened[2] = c /\ opened[1] # "proposed_rejection"
    BY DEF Item, ItemKind
  <2>2. c \notin created /\ created' = created \cup {c} /\ waiting' = waiting \cup {opened}
        /\ applied' = applied /\ done' = done
    BY <1>1 DEF EnterCandidate
  <2> HIDE DEF opened
  <2>3. IsFiniteSet(waiting')
    BY <2>2, FS_AddElement
  <2>4. opened \notin done
    BY <2>1, <2>2
  <2>5. \A i \in waiting' \cup done' :
          i \in Item /\ i[2] \in created' /\ (i[1] = "proposed_rejection" => <<i[2], i[3]>> \in applied')
    BY <2>1, <2>2
  <2> QED
    BY <2>2, <2>3, <2>4, <2>5
<1>2. ASSUME NEW c \in Candidate, CandidateArrives(c) PROVE RecordsBelong'
  BY <1>2 DEF CandidateArrives
<1>3. ASSUME NEW p, NEW c \in Candidate, NEW owner \in Owner, Apply(p, c, owner)
      PROVE  RecordsBelong'
  <2>1. c \in created
    <3> DEFINE closed == FetchRequisition(p, owner) # "ok"
               missing == c \notin created
               already == <<c, owner>> \in applied
    <3>1. CreateApplication(p, c, owner) = "ok"
      BY <1>3 DEF Apply
    <3>2. CreateApplication(p, c, owner) =
            IF ActorOf(p) = None THEN "forbidden"
            ELSE FirstOf(<< <<closed, "no_requisition">>, <<missing, "no_such_record">>,
                            <<already, "already_exists">> >>, "ok")
      BY Zenon DEF CreateApplication, Answer
    <3> HIDE DEF closed, missing, already
    <3>3. ~missing
      BY <3>1, <3>2, FirstOfThree
    <3> QED
      BY <3>3 DEF missing
  <2> QED
    BY <1>3, <2>1 DEF Apply
<1>4. ASSUME NEW i \in Item, OpenItem(i) PROVE RecordsBelong'
  <2>1. i \notin waiting \cup done /\ waiting' = waiting \cup {i}
        /\ created' = created /\ applied' = applied /\ done' = done
        /\ \/ i[1] = "proposed_rejection" /\ <<i[2], i[3]>> \in applied
           \/ i[1] = "flagged_document" /\ i[2] \in created
    BY <1>4 DEF OpenItem
  <2>2. i[2] \in created /\ (i[1] = "proposed_rejection" => <<i[2], i[3]>> \in applied)
    BY <2>1
  <2>3. IsFiniteSet(waiting')
    BY <2>1, FS_AddElement
  <2> QED
    BY <2>1, <2>2, <2>3
<1>5. ASSUME NEW p, NEW i \in waiting, Resolve(p, i) PROVE RecordsBelong'
  <2>1. IsFiniteSet(waiting')
    BY <1>5, FS_RemoveElement DEF Resolve
  <2> QED
    BY <1>5, <2>1 DEF Resolve
<1>6. ASSUME NEW p, NEW c \in Candidate, CheckLastField(p, c) PROVE RecordsBelong'
  <2> DEFINE opened == <<"unverified_candidate", c, None>>
  <2>1. waiting' = waiting \ {opened} /\ done' = done \cup (waiting \cap {opened})
        /\ created' = created /\ applied' = applied
    BY <1>6 DEF CheckLastField
  <2> HIDE DEF opened
  <2>2. IsFiniteSet(waiting')
    BY <2>1, FS_RemoveElement
  <2> QED
    BY <2>1, <2>2
<1>7. ASSUME NEW p, NEW c, NEW other, NEW j,
             \/ Withdrawal(p, c) \/ LiftOf(p, c) \/ ArchiveCandidate(c)
             \/ JoinOf(p, c, other) \/ UndoOf(p, j)
      PROVE  RecordsBelong'
  BY <1>7 DEF Withdrawal, LiftOf, ArchiveCandidate, JoinOf, UndoOf
<1> QED
  BY <1>1, <1>2, <1>3, <1>4, <1>5, <1>6, <1>7 DEF VisibilityNext, RequestOf

LEMMA RecordsStayTogether == VisibilitySpec => []RecordsBelong
<1>1. VisibilityInit => RecordsBelong
  BY FS_EmptySet DEF VisibilityInit, RecordsBelong
<1>2. RecordsBelong /\ [VisibilityNext]_visibilityVars => RecordsBelong'
  BY RecordsBelongStep DEF visibilityVars, RecordsBelong
<1> QED
  BY <1>1, <1>2, PTL DEF VisibilitySpec

\* Nothing is said about nobody, nor about whom the reader may not see.
LEMMA UnseenIsNowhere ==
    ASSUME RecordsBelong, NEW actor, NEW c, ~Visible(actor, c)
    PROVE  /\ \A q : ~VisibleApplication(actor, <<c, q>>)
           /\ \A a \in applied : VisibleApplication(actor, a) => a[1] # c
           /\ \A i : i[2] = c => ~VisibleReview(actor, i) /\ ~VisibleCandidateReview(actor, i)
           /\ \A i \in QueueLines(actor) : i[2] # c
<1>1. ASSUME NEW a, VisibleApplication(actor, a) PROVE a[1] # c
  <2>1. a \in applied /\ a = <<a[1], a[2]>> /\ a[1] \in created
    BY <1>1 DEF RecordsBelong, VisibleApplication
  <2>2. NotLocked(actor, a[1]) /\ (actor.seesAll \/ a[2] = actor.subject)
    BY <1>1 DEF VisibleApplication
  <2>3. Visible(actor, a[1])
    BY <2>1, <2>2 DEF Visible
  <2> QED
    BY <2>3
<1>2. ASSUME NEW i \in waiting \cup done, NotLocked(actor, i[2]),
             i[3] # None, actor.seesAll \/ i[3] = actor.subject
      PROVE  i[2] # c
  <2>1. i \in Item /\ i[2] \in created
    BY DEF RecordsBelong
  <2>2. i[1] = "proposed_rejection"
    BY <1>2, <2>1 DEF Item
  <2>3. <<i[2], i[3]>> \in applied
    BY <2>2 DEF RecordsBelong
  <2>4. Visible(actor, i[2])
    BY <1>2, <2>1, <2>3 DEF Visible
  <2> QED
    BY <2>4
<1>3. ASSUME NEW i, VisibleReview(actor, i) PROVE i[2] # c
  <2>1. /\ i \in waiting \cup done /\ i[1] = "proposed_rejection"
        /\ NotLocked(actor, i[2]) /\ (actor.seesAll \/ i[3] = actor.subject)
    BY <1>3 DEF VisibleReview
  <2>2. i[3] # None
    BY <2>1 DEF RecordsBelong, Item
  <2> QED
    BY <1>2, <2>1, <2>2
<1>4. ASSUME NEW i \in QueueLines(actor) PROVE i[2] # c
  <2>1. /\ i \in waiting /\ NotLocked(actor, i[2])
        /\ IF i[3] # None THEN actor.seesAll \/ i[3] = actor.subject ELSE Visible(actor, i[2])
    BY DEF QueueLines
  <2> QED
    BY <1>2, <2>1
<1>5. ASSUME NEW i, VisibleCandidateReview(actor, i) PROVE i[2] # c
  BY <1>5 DEF VisibleCandidateReview
<1>6. ASSUME NEW q PROVE ~VisibleApplication(actor, <<c, q>>)
  <2>1. <<c, q>>[1] = c
    OBVIOUS
  <2> QED
    BY <1>1, <2>1
<1> QED
  BY <1>1, <1>3, <1>4, <1>5, <1>6

(***************************************************************************)
(* What the routes answer about a candidate its reader may not see, or     *)
(* about nobody.                                                           *)
(***************************************************************************)
ToActor(p, answer) == IF ActorOf(p) = None THEN "forbidden" ELSE answer
ToReader(p, answer) == IF ReaderOf(p) = None THEN "forbidden" ELSE answer

Unmentioned(p) ==
    [candidate |-> ToActor(p, "no_candidate"), evaluations |-> ToReader(p, "no_candidate"),
     evaluation |-> ToReader(p, "no_evaluation"), explained |-> ToReader(p, "no_evaluation"),
     documents |-> ToActor(p, "no_candidate"), document |-> ToActor(p, "no_document"),
     check |-> ToActor(p, "no_candidate"), withdraw |-> ToActor(p, "no_candidate"),
     withdrawals |-> ToActor(p, "no_candidate"), group |-> ToReader(p, "no_candidate"),
     application |-> ToActor(p, "no_application"), move |-> ToActor(p, "no_application"),
     history |-> ToActor(p, "no_application"), reversal |-> ToActor(p, "no_application"),
     items |-> {<<ToReader(p, "no_item"), ToActor(p, "no_item"),
                  ToReader(p, "no_item"), ToActor(p, "no_item")>>}]

\* To join two candidates one has to see both.
LEMMA AnswersAboutJoin ==
    ASSUME NEW p, NEW c, NEW d, c # d,
           ActorOf(p) # None => ~Visible(ActorOf(p), c) \/ ~Visible(ActorOf(p), d)
    PROVE  JoinCandidates(p, c, d) = ToActor(p, "no_candidate")
<1> DEFINE same == c = d
           first == ~Visible(ActorOf(p), c)
           second == ~Visible(ActorOf(p), d)
           deep == \E j \in joined : j[2] = c \/ j[1] = d
           taken == \E j \in joined : j[2] = d
<1>1. CASE ActorOf(p) = None
  BY <1>1, Zenon DEF JoinCandidates, Answer, ToActor
<1>2. CASE ActorOf(p) # None
  <2>1. JoinCandidates(p, c, d) =
          FirstOf(<< <<same, "invalid_request">>, <<first, "no_candidate">>,
                     <<second, "no_candidate">>, <<deep, "refused">>,
                     <<taken, "already_exists">> >>, "ok")
    BY <1>2, Zenon DEF JoinCandidates, Answer
  <2>2. ~same /\ (first \/ second)
    BY <1>2
  <2> HIDE DEF same, first, second, deep, taken
  <2>3. JoinCandidates(p, c, d) = "no_candidate"
    BY <2>1, <2>2, FirstOfFive
  <2> QED
    BY <1>2, <2>3 DEF ToActor
<1> QED
  BY <1>1, <1>2

LEMMA SaidOfUnseen ==
    ASSUME RecordsBelong, NEW p, NEW c, NEW q,
           ReaderOf(p) # None => ~Visible(ReaderOf(p), c),
           ActorOf(p) # None => ~ActorOf(p).isAdmin
    PROVE  SaidOf(p, c, q) = Unmentioned(p)
<1> USE DEF ToActor, ToReader
<1> DEFINE rejection == <<"proposed_rejection", c, q>>
           typedIn == <<"unverified_candidate", c, None>>
           flagged == <<"flagged_document", c, None>>
           of(i) == <<FetchReviewItem(p, i), ResolveReviewItem(p, i),
                      FetchCandidateReviewItem(p, i), ResolveCandidateReviewItem(p, i, "checked")>>
           items == {of(i) : i \in {rejection, typedIn, flagged}}
<1>1. ActorOf(p) # None => ReaderOf(p) = ActorOf(p) /\ ReaderOf(p) # None
  BY DEF ReaderOf
<1>2. ActorOf(p) # None => ~Visible(ActorOf(p), c)
  BY <1>1
<1>3. /\ FetchCandidate(p, c) = ToActor(p, "no_candidate")
      /\ ListDocuments(p, c) = ToActor(p, "no_candidate")
      /\ VerifyField(p, c) = ToActor(p, "no_candidate")
      /\ DownloadDocument(p, c) = ToActor(p, "no_document")
      /\ ListEvaluations(p, c) = ToReader(p, "no_candidate")
      /\ CandidateGroup(p, c) = ToReader(p, "no_candidate")
      /\ FetchEvaluation(p, c) = ToReader(p, "no_evaluation")
      /\ ExplainEvaluation(p, c) = ToReader(p, "no_evaluation")
  BY <1>2, AnswersAboutCandidate
<1>4. /\ RecordWithdrawal(p, c) = ToActor(p, "no_candidate")
      /\ CandidateWithdrawals(p, c) = ToActor(p, "no_candidate")
  <2>1. CASE ActorOf(p) = None
    BY <2>1, Zenon DEF RecordWithdrawal, CandidateWithdrawals, Answer
  <2>2. CASE ActorOf(p) # None
    BY <1>2, <2>2, AnswersAboutWithdrawal
  <2> QED
    BY <2>1, <2>2
<1>5. /\ FetchApplication(p, <<c, q>>) = ToActor(p, "no_application")
      /\ CreateTransition(p, <<c, q>>) = ToActor(p, "no_application")
      /\ TransitionHistory(p, <<c, q>>) = ToActor(p, "no_application")
      /\ ReverseRejection(p, <<c, q>>) = ToActor(p, "no_application")
  <2>1. ActorOf(p) # None => ~VisibleApplication(ActorOf(p), <<c, q>>)
    BY <1>2, UnseenIsNowhere
  <2>2. FetchApplication(p, <<c, q>>) = ToActor(p, "no_application")
    BY <2>1, AnswersAboutApplication
  <2> QED
    BY <2>2 DEF CreateTransition, TransitionHistory, ReverseRejection
<1>6. ASSUME NEW i, i[2] = c
      PROVE  of(i) = <<ToReader(p, "no_item"), ToActor(p, "no_item"),
                       ToReader(p, "no_item"), ToActor(p, "no_item")>>
  <2>1. /\ ReaderOf(p) # None =>
             ~VisibleReview(ReaderOf(p), i) /\ ~VisibleCandidateReview(ReaderOf(p), i)
        /\ ActorOf(p) # None =>
             ~VisibleReview(ActorOf(p), i) /\ ~VisibleCandidateReview(ActorOf(p), i)
    BY <1>2, <1>6, UnseenIsNowhere
  <2>2. /\ FetchReviewItem(p, i) = ToReader(p, "no_item")
        /\ FetchCandidateReviewItem(p, i) = ToReader(p, "no_item")
    BY <2>1, AnswersAboutItem
  <2>3. /\ ResolveReviewItem(p, i) = ToActor(p, "no_item")
        /\ ResolveCandidateReviewItem(p, i, "checked") = ToActor(p, "no_item")
    BY <2>1, AnswersAboutItem
  <2> QED
    BY <2>2, <2>3
<1>7. items = Unmentioned(p).items
  <2>1. rejection[2] = c /\ typedIn[2] = c /\ flagged[2] = c
    OBVIOUS
  <2> HIDE DEF rejection, typedIn, flagged, of
  <2>2. of(rejection) = of(typedIn) /\ of(flagged) = of(typedIn)
    BY <1>6, <2>1
  <2>3. items = {of(typedIn)}
    BY <2>2
  <2>4. Unmentioned(p).items = {of(typedIn)}
    BY <1>6, <2>1 DEF Unmentioned
  <2> QED
    BY <2>3, <2>4
<1> HIDE DEF items, ToActor, ToReader
<1>8. SaidOf(p, c, q) =
        [candidate |-> FetchCandidate(p, c), evaluations |-> ListEvaluations(p, c),
         evaluation |-> FetchEvaluation(p, c), explained |-> ExplainEvaluation(p, c),
         documents |-> ListDocuments(p, c), document |-> DownloadDocument(p, c),
         check |-> VerifyField(p, c), withdraw |-> RecordWithdrawal(p, c),
         withdrawals |-> CandidateWithdrawals(p, c), group |-> CandidateGroup(p, c),
         application |-> FetchApplication(p, <<c, q>>), move |-> CreateTransition(p, <<c, q>>),
         history |-> TransitionHistory(p, <<c, q>>), reversal |-> ReverseRejection(p, <<c, q>>),
         items |-> items]
  BY Zenon DEF SaidOf, items
<1> QED
  BY <1>3, <1>4, <1>5, <1>7, <1>8, Zenon DEF Unmentioned

(***************************************************************************)
(* A person who may not see a candidate gets from the routes of SaidOf,    *)
(* and when joining it with another, the answer of a candidate there never *)
(* was, and finds nothing of theirs in a list, nor in the feed of events   *)
(* unless the candidate has asked to be left alone; whoever there is and   *)
(* whatever happened to the records.                                       *)
(***************************************************************************)
THEOREM OutOfSight == VisibilitySpec => []OutOfSightReadsAsMissing
<1>1. RecordsBelong => OutOfSightReadsAsMissing
  <2> SUFFICES ASSUME RecordsBelong, NEW p \in Person, NEW c \in created, ~InSight(p, c)
               PROVE  /\ \A q \in Owner : SaidOf(p, c, q) = SaidOf(p, Unknown, q)
                      /\ \A other \in Candidate \ {c} :
                            /\ JoinCandidates(p, c, other) = JoinCandidates(p, Unknown, other)
                            /\ JoinCandidates(p, other, c) = JoinCandidates(p, other, Unknown)
                      /\ c \in ListEvents(p) => c \in hidden
                      /\ c \notin ListCandidates(p) \cup ListWithdrawals(p)
                      /\ LiftWithdrawal(p, c) \in {"forbidden", LiftWithdrawal(p, Unknown)}
                      /\ \A a \in ListApplications(p) : a[1] # c
                      /\ \A i \in ListReviewItems(p) \cup ListCandidateReviewItems(p)
                                    \cup ReviewQueue(p) : i[2] # c
    BY DEF OutOfSightReadsAsMissing
  <2>1. ActorOf(p) # None => ReaderOf(p) = ActorOf(p) /\ ReaderOf(p) # None
    BY DEF ReaderOf
  <2>2. ReaderOf(p) # None => ~Visible(ReaderOf(p), c)
    BY DEF InSight
  <2>3. ActorOf(p) # None => ~ActorOf(p).isAdmin
    <3>1. ASSUME ActorOf(p) # None, ActorOf(p).isAdmin PROVE FALSE
      <4>1. ActorOf(p).seesAll
        BY <3>1, ActorIs
      <4> QED
        BY <2>1, <2>2, <3>1, <4>1 DEF Visible, NotLocked
    <3> QED
      BY <3>1
  <2>4. \A actor : ~Visible(actor, Unknown)
    BY UnknownAssumption DEF RecordsBelong, Visible
  <2>5. \A q \in Owner : SaidOf(p, c, q) = SaidOf(p, Unknown, q)
    BY <2>2, <2>3, <2>4, SaidOfUnseen
  <2>6. c \notin ListCandidates(p) \cup ListWithdrawals(p)
    BY <2>1, <2>2, <2>3 DEF ListCandidates, ListWithdrawals
  <2>7. LiftWithdrawal(p, c) = "forbidden"
    <3>1. CASE ActorOf(p) = None
      BY <3>1, Zenon DEF LiftWithdrawal, Answer
    <3>2. CASE ActorOf(p) # None
      BY <2>3, <3>2, AnswersAboutWithdrawal
    <3> QED
      BY <3>1, <3>2
  <2>8. \A a \in ListApplications(p) : a[1] # c
    BY <2>1, <2>2, UnseenIsNowhere DEF ListApplications
  <2>9. \A i \in ListReviewItems(p) \cup ListCandidateReviewItems(p) \cup ReviewQueue(p) : i[2] # c
    BY <2>2, UnseenIsNowhere DEF ListReviewItems, ListCandidateReviewItems, ReviewQueue
  <2>10. ASSUME NEW other \in Candidate \ {c}
         PROVE  /\ JoinCandidates(p, c, other) = JoinCandidates(p, Unknown, other)
                /\ JoinCandidates(p, other, c) = JoinCandidates(p, other, Unknown)
    <3>1. other # c /\ other # Unknown
      BY UnknownAssumption
    <3>2. ActorOf(p) # None => ~Visible(ActorOf(p), c) /\ ~Visible(ActorOf(p), Unknown)
      BY <2>1, <2>2, <2>4
    <3> QED
      BY <3>1, <3>2, AnswersAboutJoin
  <2>11. ASSUME c \in ListEvents(p), c \notin hidden PROVE FALSE
    <3>1. ActorOf(p) # None /\ ActorOf(p).subject = p /\ ~Visible(ActorOf(p), c)
      BY <2>1, <2>2, <2>11, ActorIs DEF ListEvents
    <3>2. ~ActorOf(p).seesAll /\ <<c, p>> \notin applied
      BY <2>11, <3>1 DEF Visible, NotLocked
    <3>3. PICK a \in applied : a[1] = c /\ a[2] = p
      BY <2>11, <3>1, <3>2 DEF ListEvents
    <3>4. a = <<c, p>>
      BY <3>3 DEF RecordsBelong
    <3> QED
      BY <3>2, <3>3, <3>4
  <2> QED
    BY <2>5, <2>6, <2>7, <2>8, <2>9, <2>10, <2>11
<1> QED
  BY <1>1, RecordsStayTogether, PTL

\* A line of the queue and the candidate it is about, as its reader may see them.
LEMMA LineIsVisible ==
    ASSUME RecordsBelong, NEW actor, NEW i \in QueueLines(actor)
    PROVE  /\ i \in waiting /\ i \in Item /\ i \notin done /\ i[2] \notin archived
           /\ Visible(actor, i[2])
           /\ i[1] = "proposed_rejection" =>
                VisibleReview(actor, i) /\ VisibleApplication(actor, <<i[2], i[3]>>)
           /\ i[1] # "proposed_rejection" => VisibleCandidateReview(actor, i)
<1>1. /\ i \in waiting /\ i[2] \notin archived /\ NotLocked(actor, i[2])
      /\ IF i[3] # None THEN actor.seesAll \/ i[3] = actor.subject ELSE Visible(actor, i[2])
  BY DEF QueueLines
<1>2. i \in Item /\ i[2] \in created /\ i \notin done
  BY <1>1 DEF RecordsBelong
<1>3. (i[1] = "proposed_rejection") = (i[3] # None)
  BY <1>2 DEF Item
<1>4. CASE i[1] = "proposed_rejection"
  <2>1. <<i[2], i[3]>> \in applied
    BY <1>1, <1>4 DEF RecordsBelong
  <2>2. i[3] # None /\ (actor.seesAll \/ i[3] = actor.subject)
    BY <1>1, <1>3, <1>4
  <2> QED
    BY <1>1, <1>2, <1>4, <2>1, <2>2 DEF Visible, VisibleReview, VisibleApplication
<1>5. CASE i[1] # "proposed_rejection"
  <2>1. Visible(actor, i[2])
    BY <1>1, <1>3, <1>5
  <2> QED
    BY <1>1, <1>2, <1>5, <2>1 DEF VisibleCandidateReview
<1> QED
  BY <1>4, <1>5

\* The lines of the three kinds are all the lines, and each has one kind.
LEMMA LinesByKind ==
    ASSUME RecordsBelong, NEW actor
    PROVE  LET of(kind) == {i \in QueueLines(actor) : i[1] = kind}
           IN  Cardinality(of("proposed_rejection")) + Cardinality(of("unverified_candidate"))
                 + Cardinality(of("flagged_document")) = Cardinality(QueueLines(actor))
<1> DEFINE of(kind) == {i \in QueueLines(actor) : i[1] = kind}
           rejections == of("proposed_rejection")
           typedIn == of("unverified_candidate")
           flagged == of("flagged_document")
           lines == QueueLines(actor)
<1>1. IsFiniteSet(waiting) /\ lines \subseteq waiting
  BY DEF RecordsBelong, QueueLines
<1>2. \A i \in lines : i[1] \in ItemKind
  BY LineIsVisible DEF Item
<1>3. lines = (rejections \cup typedIn) \cup flagged
  BY <1>2 DEF ItemKind
<1>4. rejections \cap typedIn = {} /\ (rejections \cup typedIn) \cap flagged = {}
  OBVIOUS
<1>5. rejections \subseteq lines /\ typedIn \subseteq lines /\ flagged \subseteq lines
  OBVIOUS
<1> HIDE DEF rejections, typedIn, flagged, lines
<1>6. IsFiniteSet(lines)
  BY <1>1, FS_Subset
<1>7. IsFiniteSet(rejections) /\ IsFiniteSet(typedIn) /\ IsFiniteSet(flagged)
  BY <1>5, <1>6, FS_Subset
<1>8. /\ IsFiniteSet(rejections \cup typedIn)
      /\ Cardinality(rejections \cup typedIn) = Cardinality(rejections) + Cardinality(typedIn)
  <2>1. /\ IsFiniteSet(rejections \cup typedIn)
        /\ Cardinality(rejections \cup typedIn) =
             Cardinality(rejections) + Cardinality(typedIn) - Cardinality(rejections \cap typedIn)
    BY <1>7, FS_Union
  <2>2. Cardinality(rejections \cap typedIn) = 0
    BY <1>4, FS_EmptySet
  <2> QED
    BY <1>7, <2>1, <2>2, FS_CardinalityType
<1>9. Cardinality(lines) = Cardinality(rejections \cup typedIn) + Cardinality(flagged)
  <2>1. Cardinality((rejections \cup typedIn) \cup flagged) =
             Cardinality(rejections \cup typedIn) + Cardinality(flagged)
               - Cardinality((rejections \cup typedIn) \cap flagged)
    BY <1>7, <1>8, FS_Union
  <2>2. Cardinality((rejections \cup typedIn) \cap flagged) = 0
    BY <1>4, FS_EmptySet
  <2> QED
    BY <1>3, <1>7, <1>8, <2>1, <2>2, FS_CardinalityType
<1>10. Cardinality(rejections) + Cardinality(typedIn) + Cardinality(flagged) = Cardinality(lines)
  BY <1>8, <1>9
<1> QED
  BY <1>10 DEF rejections, typedIn, flagged, lines

(***************************************************************************)
(* Whoever reads a line of the review queue can open its candidate and     *)
(* resolve it where it says; an open item of either list is a line unless  *)
(* its candidate is archived; and the summary counts the lines.            *)
(***************************************************************************)
THEOREM QueueLeads == VisibilitySpec => []QueueLeadsSomewhere
<1>1. RecordsBelong => QueueLeadsSomewhere
  <2> SUFFICES ASSUME RecordsBelong, NEW p \in Person
               PROVE  /\ ActorOf(p) # None =>
                            \A i \in ReviewQueue(p) :
                               FetchCandidate(p, i[2]) = "ok" /\ ResolveAt(p, i) = "ok"
                      /\ \A i \in (ListReviewItems(p) \cup ListCandidateReviewItems(p)) \cap waiting :
                            i \in ReviewQueue(p) \/ i[2] \in archived
                      /\ QueueSummary(p) # None =>
                            QueueSummary(p)["proposed_rejection"]
                              + QueueSummary(p)["unverified_candidate"]
                              + QueueSummary(p)["flagged_document"] = Cardinality(ReviewQueue(p))
    BY DEF QueueLeadsSomewhere
  <2>1. ActorOf(p) # None => ReaderOf(p) = ActorOf(p)
    BY DEF ReaderOf
  <2>2. ASSUME ActorOf(p) # None, NEW i \in ReviewQueue(p)
        PROVE  FetchCandidate(p, i[2]) = "ok" /\ ResolveAt(p, i) = "ok"
    <3>1. i \in QueueLines(ActorOf(p))
      BY <2>1, <2>2 DEF ReviewQueue
    <3>2. FetchCandidate(p, i[2]) = "ok"
      BY <2>2, <3>1, LineIsVisible, AnswersAboutCandidate
    <3>3. CASE i[1] = "proposed_rejection"
      <4>1. ResolveReviewItem(p, i) = "ok"
        BY <2>2, <3>1, <3>3, LineIsVisible, AnswersAboutItem
      <4> QED
        BY <3>2, <3>3, <4>1 DEF ResolveAt
    <3>4. CASE i[1] # "proposed_rejection"
      <4>1. ResolveCandidateReviewItem(p, i, "dismissed") = "ok"
        BY <2>2, <3>1, <3>4, LineIsVisible, AnswersAboutItem
      <4> QED
        BY <3>2, <3>4, <4>1 DEF ResolveAt
    <3> QED
      BY <3>3, <3>4
  <2>3. ASSUME NEW i \in (ListReviewItems(p) \cup ListCandidateReviewItems(p)) \cap waiting,
               i[2] \notin archived
        PROVE  i \in ReviewQueue(p)
    <3>1. ReaderOf(p) # None /\ i \in waiting
          /\ (VisibleReview(ReaderOf(p), i) \/ VisibleCandidateReview(ReaderOf(p), i))
      BY DEF ListReviewItems, ListCandidateReviewItems
    <3>2. (i[1] = "proposed_rejection") = (i[3] # None)
      BY <3>1 DEF RecordsBelong, Item
    <3>3. i \in QueueLines(ReaderOf(p))
      BY <2>3, <3>1, <3>2 DEF VisibleReview, VisibleCandidateReview, Visible, QueueLines
    <3> QED
      BY <3>1, <3>3 DEF ReviewQueue
  <2>4. ASSUME QueueSummary(p) # None
        PROVE  QueueSummary(p)["proposed_rejection"] + QueueSummary(p)["unverified_candidate"]
                 + QueueSummary(p)["flagged_document"] = Cardinality(ReviewQueue(p))
    <3> DEFINE of(kind) == {i \in QueueLines(ActorOf(p)) : i[1] = kind}
    <3>1. /\ ActorOf(p) # None
          /\ QueueSummary(p) = [kind \in ItemKind |-> Cardinality(of(kind))]
      BY <2>4 DEF QueueSummary
    <3>2. ReviewQueue(p) = QueueLines(ActorOf(p))
      BY <2>1, <3>1 DEF ReviewQueue
    <3>3. Cardinality(of("proposed_rejection")) + Cardinality(of("unverified_candidate"))
            + Cardinality(of("flagged_document")) = Cardinality(QueueLines(ActorOf(p)))
      BY LinesByKind
    <3> HIDE DEF of
    <3>4. /\ QueueSummary(p)["proposed_rejection"] = Cardinality(of("proposed_rejection"))
          /\ QueueSummary(p)["unverified_candidate"] = Cardinality(of("unverified_candidate"))
          /\ QueueSummary(p)["flagged_document"] = Cardinality(of("flagged_document"))
      BY <3>1 DEF ItemKind
    <3> QED
      BY <3>2, <3>3, <3>4
  <2> QED
    BY <2>2, <2>3, <2>4
<1> QED
  BY <1>1, RecordsStayTogether, PTL

-----------------------------------------------------------------------------
(* Groups of duplicates.                                                    *)

(***************************************************************************)
(* The root a record leads to, over any pointers P: the one function that  *)
(* is a record's own where it points at itself and else that of the record *)
(* it points at, if there is one and no other.                             *)
(***************************************************************************)
LeadsTo(P, f) == f = [d \in Scanned |-> IF P[d] = d THEN d ELSE f[P[d]]]

RootsOf(P, f) ==
    /\ P \in [Scanned -> Scanned] /\ f \in [Scanned -> Scanned]
    /\ LeadsTo(P, f) /\ \A g : LeadsTo(P, g) => g = f
    /\ \A d \in Scanned : P[f[d]] = f[d]

RootOver(P, c) ==
    LET root[d \in Scanned] == IF P[d] = d THEN d ELSE root[P[d]]
    IN  root[c]

LEMMA RootIs ==
    ASSUME NEW P, NEW f, RootsOf(P, f), NEW c \in Scanned
    PROVE  RootOver(P, c) = f[c]
<1>1. RootOver(P, c) = (CHOOSE g : LeadsTo(P, g))[c]
  BY DEF RootOver, LeadsTo
<1>2. (CHOOSE g : LeadsTo(P, g)) = f
  BY DEF RootsOf
<1> QED
  BY <1>1, <1>2

LEMMA RootIsOver ==
    /\ \A c : Root(c) = RootOver(parent, c)
    /\ \A c : Root(c)' = RootOver(parent', c)
BY DEF Root, RootOver

\* With one root pointed at another, its records lead to that other.
LEMMA RootsAfterUnion ==
    ASSUME NEW P, NEW f, RootsOf(P, f), NEW a \in Scanned, NEW b \in Scanned,
           P[a] = a, P[b] = b, a # b
    PROVE  RootsOf([P EXCEPT ![a] = b], [d \in Scanned |-> IF f[d] = a THEN b ELSE f[d]])
<1> DEFINE Q == [P EXCEPT ![a] = b]
           h == [d \in Scanned |-> IF f[d] = a THEN b ELSE f[d]]
<1>1. /\ P \in [Scanned -> Scanned] /\ f \in [Scanned -> Scanned]
      /\ \A d \in Scanned : f[d] = IF P[d] = d THEN d ELSE f[P[d]]
      /\ \A d \in Scanned : P[f[d]] = f[d]
  <2>1. P \in [Scanned -> Scanned] /\ f \in [Scanned -> Scanned]
        /\ f = [d \in Scanned |-> IF P[d] = d THEN d ELSE f[P[d]]]
        /\ \A d \in Scanned : P[f[d]] = f[d]
    BY DEF RootsOf, LeadsTo
  <2> QED
    BY <2>1
<1>2. f[a] = a /\ f[b] = b
  BY <1>1
<1>3. /\ Q \in [Scanned -> Scanned] /\ Q[a] = b
      /\ \A d \in Scanned : d # a => Q[d] = P[d]
  BY <1>1
<1>4. h \in [Scanned -> Scanned] /\ \A d \in Scanned : h[d] = IF f[d] = a THEN b ELSE f[d]
  BY <1>1
<1> HIDE DEF Q, h
<1>5. ASSUME NEW d \in Scanned PROVE h[d] = IF Q[d] = d THEN d ELSE h[Q[d]]
  <2>1. CASE d = a
    BY <1>2, <1>3, <1>4, <2>1
  <2>2. CASE d # a /\ P[d] = d
    BY <1>1, <1>3, <1>4, <2>2
  <2>3. CASE d # a /\ P[d] # d
    <3>1. Q[d] = P[d] /\ P[d] \in Scanned /\ f[d] = f[P[d]]
      BY <1>1, <1>3, <2>3
    <3> QED
      BY <1>4, <2>3, <3>1
  <2> QED
    BY <2>1, <2>2, <2>3
<1>6. LeadsTo(Q, h)
  BY <1>4, <1>5 DEF LeadsTo
<1>7. ASSUME NEW d \in Scanned PROVE Q[h[d]] = h[d]
  <2>1. Q[b] = b /\ P[f[d]] = f[d] /\ f[d] \in Scanned
    BY <1>1, <1>3
  <2> QED
    BY <1>3, <1>4, <2>1
<1>8. ASSUME NEW g, LeadsTo(Q, g) PROVE g = h
  <2>1. g = [d \in Scanned |-> IF Q[d] = d THEN d ELSE g[Q[d]]]
    BY <1>8 DEF LeadsTo
  <2>2. \A d \in Scanned : g[d] = IF Q[d] = d THEN d ELSE g[Q[d]]
    BY <2>1
  <2>3. g[a] = b /\ g[b] = b
    BY <1>3, <2>2
  \* g over P, once with a's records at a, once with the others where f has them.
  <2> DEFINE old == [d \in Scanned |-> IF f[d] = a THEN a ELSE g[d]]
             apart == [d \in Scanned |-> IF f[d] # a THEN f[d] ELSE IF g[d] = b THEN a
                                         ELSE IF g[d] = a THEN b ELSE g[d]]
  <2>4. ASSUME NEW d \in Scanned PROVE old[d] = IF P[d] = d THEN d ELSE old[P[d]]
    <3>1. CASE P[d] = d
      <4>1. f[d] = d
        BY <1>1, <3>1
      <4> QED
        BY <1>3, <2>2, <3>1, <4>1
    <3>2. CASE P[d] # d
      <4>1. P[d] \in Scanned /\ f[d] = f[P[d]] /\ d # a
        BY <1>1, <3>2
      <4>2. g[d] = g[P[d]]
        BY <1>3, <2>2, <3>2, <4>1
      <4> QED
        BY <3>2, <4>1, <4>2
    <3> QED
      BY <3>1, <3>2
  <2>5. ASSUME NEW d \in Scanned PROVE apart[d] = IF P[d] = d THEN d ELSE apart[P[d]]
    <3>1. CASE P[d] = d
      <4>1. f[d] = d
        BY <1>1, <3>1
      <4> QED
        BY <2>3, <3>1, <4>1
    <3>2. CASE P[d] # d
      <4>1. P[d] \in Scanned /\ f[d] = f[P[d]] /\ d # a
        BY <1>1, <3>2
      <4>2. g[d] = g[P[d]]
        BY <1>3, <2>2, <3>2, <4>1
      <4> QED
        BY <3>2, <4>1, <4>2
    <3> QED
      BY <3>1, <3>2
  <2>6. LeadsTo(P, old) /\ LeadsTo(P, apart)
    BY <2>4, <2>5 DEF LeadsTo
  <2>7. old = f /\ apart = f
    BY <2>6 DEF RootsOf
  <2>8. ASSUME NEW d \in Scanned PROVE g[d] = h[d]
    <3>1. CASE f[d] # a
      <4>1. old[d] = g[d]
        BY <3>1
      <4> QED
        BY <1>4, <2>7, <3>1, <4>1
    <3>2. CASE f[d] = a
      <4>1. apart[d] = IF g[d] = b THEN a ELSE IF g[d] = a THEN b ELSE g[d]
        BY <3>2
      <4>2. apart[d] = a
        BY <2>7, <3>2
      <4>3. g[d] = b
        BY <4>1, <4>2
      <4> QED
        BY <1>4, <3>2, <4>3
    <3> QED
      BY <3>1, <3>2
  <2>9. g = [d \in Scanned |-> g[d]]
    BY <2>1
  <2> QED
    BY <1>4, <2>8, <2>9
<1>9. RootsOf(Q, h)
  BY <1>3, <1>4, <1>6, <1>7, <1>8 DEF RootsOf
<1> QED
  BY <1>9 DEF Q, h

(***************************************************************************)
(* Duplicates: the pairs taken are in one group, and no group is larger    *)
(* than the links between records make it.                                 *)
(***************************************************************************)
Linked(c, d) ==
    \E key \in KeysOf(c) \cap KeysOf(d) :
        key[1] \in ContactKind /\ Cardinality({e \in Scanned : key \in KeysOf(e)}) <= MostPerKey

WholeBy(S) == \A c, d \in Scanned : Linked(c, d) => (c \in S <=> d \in S)

GroupsInv ==
    /\ scan \in {"not_begun", "begun"}
    /\ \E f : RootsOf(parent, f)
    /\ scan = "not_begun" => left = {} /\ \A c \in Scanned : Root(c) = c
    /\ scan = "begun" =>
          left \subseteq FindPairs /\ \A pair \in FindPairs \ left : Root(pair[1]) = Root(pair[2])
    /\ \A S \in SUBSET Scanned :
          WholeBy(S) => \A c, d \in Scanned : Root(c) = Root(d) => (c \in S <=> d \in S)

\* The pairs found are the links, once each.
LEMMA PairsAreLinks ==
    FindPairs = {pair \in Scanned \X Scanned : pair[1] < pair[2] /\ Linked(pair[1], pair[2])}
<1>1. ASSUME NEW c \in Scanned, NEW d \in Scanned
      PROVE  (\E key \in SharedKeys(c, d) : key[1] \in ContactKind) <=> Linked(c, d)
  <2>1. ASSUME NEW key
        PROVE  key \in SharedKeys(c, d) <=>
                 /\ key \in KeysOf(c) \cap KeysOf(d)
                 /\ Cardinality({e \in Scanned : key \in KeysOf(e)}) <= MostPerKey
    BY DEF SharedKeys, UsableKeys, HoldersOf
  <2> QED
    BY <2>1 DEF Linked
<1>2. \A pair \in Scanned \X Scanned : pair[1] \in Scanned /\ pair[2] \in Scanned
  OBVIOUS
<1>3. \A pair \in Scanned \X Scanned :
        (\E key \in SharedKeys(pair[1], pair[2]) : key[1] \in ContactKind) <=> Linked(pair[1], pair[2])
  BY <1>1, <1>2
<1> QED
  BY <1>3 DEF FindPairs

\* The records as they are, so are the pairs.
LEMMA LinksStay ==
    ASSUME UNCHANGED <<cells, unmatched>>
    PROVE  FindPairs' = FindPairs /\ \A c, d : Linked(c, d)' = Linked(c, d)
<1>1. \A c : KeysOf(c)' = KeysOf(c)
  BY DEF KeysOf
<1>2. \A key : HoldersOf(key)' = HoldersOf(key)
  BY <1>1 DEF HoldersOf
<1>3. UsableKeys' = UsableKeys
  BY <1>1, <1>2 DEF UsableKeys
<1>4. \A c, d : SharedKeys(c, d)' = SharedKeys(c, d)
  BY <1>2, <1>3 DEF SharedKeys
<1>5. FindPairs' = FindPairs
  BY <1>4 DEF FindPairs
<1>6. \A c, d : Linked(c, d)' = Linked(c, d)
  BY <1>1 DEF Linked
<1> QED
  BY <1>5, <1>6

LEMMA GroupsInvInit == DuplicatesInit => GroupsInv
<1> SUFFICES ASSUME DuplicatesInit PROVE GroupsInv
  OBVIOUS
<1> DEFINE f == [c \in Scanned |-> c]
<1>1. parent = f /\ scan = "not_begun" /\ left = {}
  BY DEF DuplicatesInit
<1>2. RootsOf(f, f)
  <2>1. f \in [Scanned -> Scanned] /\ \A d \in Scanned : f[f[d]] = f[d]
    OBVIOUS
  <2>2. \A g : LeadsTo(f, g) <=> g = f
    BY DEF LeadsTo
  <2> QED
    BY <2>1, <2>2 DEF RootsOf
<1>3. \A c \in Scanned : Root(c) = c
  BY <1>1, <1>2, RootIs, RootIsOver
<1> QED
  BY <1>1, <1>2, <1>3 DEF GroupsInv

LEMMA TakePairStep ==
    ASSUME GroupsInv, NEW pair \in left, TakePair(pair)
    PROVE  GroupsInv'
<1> DEFINE x == pair[1]
           y == pair[2]
<1>1. scan = "begun" /\ scan' = "begun" /\ left' = left \ {pair} /\ left \subseteq FindPairs
  BY DEF TakePair, GroupsInv
<1>2. x \in Scanned /\ y \in Scanned /\ Linked(x, y)
  BY <1>1, PairsAreLinks
<1>3. /\ \A c, d \in Scanned : Linked(c, d)' = Linked(c, d)
      /\ FindPairs' = FindPairs
  BY LinksStay DEF TakePair
<1>4. PICK f : RootsOf(parent, f)
  BY DEF GroupsInv
<1>5. \A c \in Scanned : Root(c) = f[c]
  BY <1>4, RootIs, RootIsOver
<1>6. /\ \E g : RootsOf(parent', g)
      /\ \A c \in Scanned : Root(c)' = IF Root(c) = Root(x) THEN Root(y) ELSE Root(c)
  <2>1. CASE Root(x) = Root(y)
    <3>1. parent' = parent
      BY <2>1 DEF TakePair, Union
    <3>2. \A c \in Scanned : Root(c)' = f[c]
      BY <1>4, <3>1, RootIs, RootIsOver
    <3> QED
      BY <1>4, <1>5, <2>1, <3>1, <3>2
  <2>2. CASE Root(x) # Root(y)
    <3> DEFINE a == f[x]
               b == f[y]
               g == [d \in Scanned |-> IF f[d] = a THEN b ELSE f[d]]
    <3>1. a = Root(x) /\ b = Root(y) /\ a # b
      BY <1>2, <1>5, <2>2
    <3>2. a \in Scanned /\ b \in Scanned /\ parent[a] = a /\ parent[b] = b
      BY <1>2, <1>4 DEF RootsOf
    <3>3. parent' = [parent EXCEPT ![a] = b]
      BY <2>2, <3>1 DEF TakePair, Union
    <3> HIDE DEF a, b
    <3>4. RootsOf(parent', g)
      <4>1. RootsOf([parent EXCEPT ![a] = b], g)
        BY <1>4, <3>1, <3>2, RootsAfterUnion
      <4> QED
        BY <3>3, <4>1
    <3>5. \A c \in Scanned : Root(c)' = g[c]
      <4> HIDE DEF g
      <4> QED
        BY <3>4, RootIs, RootIsOver
    <3>6. \A c \in Scanned : Root(c)' = IF Root(c) = a THEN b ELSE Root(c)
      BY <1>5, <3>5
    <3> QED
      BY <3>1, <3>4, <3>6
  <2> QED
    BY <2>1, <2>2
<1>7. Root(x)' = Root(y)'
  BY <1>2, <1>6
<1>8. \A p \in FindPairs' \ left' : Root(p[1])' = Root(p[2])'
  <2> SUFFICES ASSUME NEW p \in FindPairs \ left' PROVE Root(p[1])' = Root(p[2])'
    BY <1>3
  <2>1. CASE p = pair
    BY <1>7, <2>1
  <2>2. CASE p # pair
    <3>1. Root(p[1]) = Root(p[2])
      BY <1>1, <2>2 DEF GroupsInv
    <3>2. p[1] \in Scanned /\ p[2] \in Scanned
      BY PairsAreLinks
    <3> QED
      BY <1>6, <3>1, <3>2
  <2> QED
    BY <2>1, <2>2
<1>9. ASSUME NEW S \in SUBSET Scanned, WholeBy(S)', NEW c \in Scanned, NEW d \in Scanned,
             Root(c)' = Root(d)'
      PROVE  c \in S <=> d \in S
  <2>1. WholeBy(S)
    BY <1>3, <1>9 DEF WholeBy
  <2>2. \A r, s \in Scanned : Root(r) = Root(s) => (r \in S <=> s \in S)
    BY <2>1 DEF GroupsInv
  <2>3. x \in S <=> y \in S
    BY <1>2, <2>1 DEF WholeBy
  <2> QED
    BY <1>2, <1>6, <1>9, <2>2, <2>3
<1> QED
  BY <1>1, <1>3, <1>6, <1>8, <1>9 DEF GroupsInv

LEMMA GroupsStep ==
    ASSUME GroupsInv, [DuplicatesNext]_duplicatesVars
    PROVE  GroupsInv'
<1>1. \A c : parent' = parent => Root(c)' = Root(c)
  BY RootIsOver
<1>2. ASSUME scan = "not_begun", parent' = parent, left = {}, left' = {}, scan' = scan
      PROVE  GroupsInv'
  <2>1. \A c \in Scanned : Root(c)' = c
    BY <1>1, <1>2 DEF GroupsInv
  <2> QED
    BY <1>2, <2>1 DEF GroupsInv
<1>3. ASSUME NEW c \in Scanned, AskToStop(c) \/ \E piece \in Piece : FillCell(c, piece)
      PROVE  GroupsInv'
  <2>1. scan = "not_begun" /\ parent' = parent /\ left' = left /\ scan' = scan
    BY <1>3 DEF AskToStop, FillCell
  <2> QED
    BY <1>2, <2>1 DEF GroupsInv
<1>4. CASE Scan
  <2>1. /\ scan = "not_begun" /\ scan' = "begun" /\ left' = FindPairs
        /\ cells' = cells /\ unmatched' = unmatched /\ parent' = parent
    BY <1>4 DEF Scan
  <2>3. FindPairs' = FindPairs
    BY <2>1, LinksStay
  <2>4. \A c \in Scanned : Root(c)' = c
    BY <1>1, <2>1 DEF GroupsInv
  <2> QED
    BY <2>1, <2>3, <2>4 DEF GroupsInv
<1>5. ASSUME NEW pair \in left, TakePair(pair) PROVE GroupsInv'
  BY <1>5, TakePairStep
<1>6. CASE UNCHANGED duplicatesVars
  <2>1. UNCHANGED <<cells, unmatched, scan, left, parent>>
    BY <1>6 DEF duplicatesVars
  <2>2. \A c : Root(c)' = Root(c)
    BY <1>1, <2>1
  <2>3. FindPairs' = FindPairs /\ \A c, d : Linked(c, d)' = Linked(c, d)
    BY <2>1, LinksStay
  <2> QED
    BY <2>1, <2>2, <2>3 DEF GroupsInv, WholeBy
<1> QED
  BY <1>3, <1>4, <1>5, <1>6 DEF DuplicatesNext

(***************************************************************************)
(* In whatever order the pairs are taken, a group is everybody who can be  *)
(* reached from one of them over the keys few enough share, and nobody     *)
(* else; for any records and any limit.                                    *)
(***************************************************************************)
THEOREM GroupsAreReachable == DuplicatesSpec => []GroupsAreTheReachable
<1>1. GroupsInv => GroupsAreTheReachable
  <2> SUFFICES ASSUME GroupsInv, scan = "begun", left = {}, NEW c \in Scanned
               PROVE  /\ Closed(GroupOf(c))
                      /\ \A part \in SUBSET GroupOf(c) :
                            c \in part /\ Closed(part) => part = GroupOf(c)
                      /\ c \in unmatched => GroupOf(c) = {c}
    BY DEF GroupsAreTheReachable
  <2>1. \A S \in SUBSET Scanned :
          Closed(S) <=> \A r \in S, d \in Scanned : Linked(r, d) => d \in S
    BY DEF Closed, Linked
  <2>2. \A r, d : Linked(r, d) <=> Linked(d, r)
    BY DEF Linked
  <2>3. GroupOf(c) \in SUBSET Scanned /\ c \in GroupOf(c)
    BY DEF GroupOf
  <2>4. ASSUME NEW r \in Scanned, NEW d \in Scanned, Linked(r, d) PROVE Root(r) = Root(d)
    <3>1. \A p \in FindPairs : Root(p[1]) = Root(p[2])
      BY DEF GroupsInv
    <3>2. ASSUME NEW v \in Scanned, NEW w \in Scanned, v < w, Linked(v, w) PROVE Root(v) = Root(w)
      <4>1. <<v, w>> \in FindPairs
        BY <3>2, PairsAreLinks
      <4> QED
        BY <3>1, <4>1
    <3>3. r < d \/ r = d \/ d < r
      BY ScannedAssumption
    <3> QED
      BY <2>2, <2>4, <3>2, <3>3
  <2>5. Closed(GroupOf(c))
    BY <2>1, <2>3, <2>4 DEF GroupOf
  <2>6. ASSUME NEW part \in SUBSET GroupOf(c), c \in part, Closed(part) PROVE part = GroupOf(c)
    <3>1. part \in SUBSET Scanned
      BY <2>3
    <3>2. WholeBy(part)
      BY <2>1, <2>2, <2>6, <3>1 DEF WholeBy
    <3>3. \A d \in Scanned : Root(d) = Root(c) => d \in part
      BY <2>6, <3>1, <3>2 DEF GroupsInv
    <3> QED
      BY <3>3 DEF GroupOf
  <2>7. ASSUME c \in unmatched PROVE GroupOf(c) = {c}
    <3>1. \A d : ~Linked(c, d) /\ ~Linked(d, c)
      BY <2>7 DEF Linked, KeysOf
    <3>2. WholeBy({c})
      BY <3>1 DEF WholeBy
    <3>3. \A d \in Scanned : Root(d) = Root(c) => d = c
      BY <3>2 DEF GroupsInv
    <3> QED
      BY <2>3, <3>3 DEF GroupOf
  <2> QED
    BY <2>5, <2>6, <2>7
<1> QED
  BY <1>1, GroupsInvInit, GroupsStep, PTL DEF DuplicatesSpec
=============================================================================
