--------------------------- MODULE EventFeedProofs ---------------------------
(***************************************************************************)
(* Proofs about EventFeed: the feed tells of an application's moves in     *)
(* order, for any transactions, applications and readers.                  *)
(***************************************************************************)
EXTENDS EventFeed, TLAPS

(***************************************************************************)
(* Ids are in the order they were given out in; a move that is being made  *)
(* has its application locked; an application's history is in the order of *)
(* the ids, below that of a move being made; so is what has been read.     *)
(***************************************************************************)
InOrder(s) == \A i, j \in DOMAIN s : i < j => s[i] < s[j]

IdsInOrder == \A d, e \in Event : state[d] # "absent" /\ state[e] = "absent" => d < e

MovesLocked ==
    \A e \in Event :
        /\ state[e] = "absent" => moved[e] = None
        /\ state[e] = "open" /\ moved[e] # None => appLock[moved[e]] = e

HistoryInOrder ==
    \A a \in Application :
        /\ InOrder(history[a])
        /\ \A i \in DOMAIN history[a] :
              /\ state[history[a][i]] = "committed"
              /\ appLock[a] # None => history[a][i] < appLock[a]

ReadInOrder ==
    /\ InOrder(read)
    /\ \A i \in DOMAIN read : read[i] <= after

FeedInv ==
    /\ TypeOK
    /\ IdsInOrder
    /\ MovesLocked
    /\ HistoryInOrder
    /\ ReadInOrder

(***************************************************************************)
(* A sequence in order stays in order when something larger is added, and  *)
(* so do two that follow one another.                                      *)
(***************************************************************************)
LEMMA AppendInOrder ==
    ASSUME NEW s \in Seq(Event), InOrder(s), NEW e \in Event,
           \A i \in DOMAIN s : s[i] < e
    PROVE  InOrder(Append(s, e))
BY EventAssumption DEF InOrder

LEMMA ConcatInOrder ==
    ASSUME NEW s \in Seq(Event), InOrder(s), NEW t \in Seq(Event), InOrder(t),
           NEW n \in Event \cup {0},
           \A i \in DOMAIN s : s[i] <= n,
           \A i \in DOMAIN t : n < t[i]
    PROVE  InOrder(s \o t)
<1> SUFFICES ASSUME NEW i \in DOMAIN (s \o t), NEW j \in DOMAIN (s \o t), i < j
             PROVE  (s \o t)[i] < (s \o t)[j]
  BY DEF InOrder
<1>1. CASE j <= Len(s)
  BY <1>1, EventAssumption DEF InOrder
<1>2. CASE j > Len(s) /\ i <= Len(s)
  <2>1. /\ i \in DOMAIN s
        /\ j - Len(s) \in DOMAIN t
        /\ (s \o t)[i] = s[i]
        /\ (s \o t)[j] = t[j - Len(s)]
    BY <1>2
  <2>2. s[i] \in Event /\ t[j - Len(s)] \in Event
    BY <2>1
  <2>3. s[i] <= n /\ n < t[j - Len(s)]
    BY <2>1
  <2> QED
    <3>1. s[i] \in Nat /\ t[j - Len(s)] \in Nat
      BY ONLY <2>2, EventAssumption
    <3>2. n \in Nat
      BY EventAssumption
    <3>3. s[i] < t[j - Len(s)]
      BY ONLY <3>1, <3>2, <2>3
    <3> QED
      BY ONLY <3>3, <2>1
<1>3. CASE i > Len(s)
  <2>1. /\ i - Len(s) \in DOMAIN t
        /\ j - Len(s) \in DOMAIN t
        /\ (s \o t)[i] = t[i - Len(s)]
        /\ (s \o t)[j] = t[j - Len(s)]
    BY <1>3, EventAssumption
  <2> QED
    BY <2>1, <1>3, EventAssumption DEF InOrder
<1> QED
  BY <1>1, <1>2, <1>3

(***************************************************************************)
(* A read is in the order of the ids, and ends at the new "after".         *)
(***************************************************************************)
LEMMA PageFacts ==
    ASSUME NEW e \in Event, NEW page \in Seq(Event), Page(e, page)
    PROVE  /\ InOrder(page)
           /\ \A i \in DOMAIN page : after < page[i] /\ page[i] <= e
BY DEF Page, InOrder

(***************************************************************************)
(* FeedInv is inductive: it holds at the start and every step keeps it.    *)
(***************************************************************************)
LEMMA InitFeed == Init => FeedInv
BY NoneAssumption, EventAssumption
   DEF Init, FeedInv, TypeOK, IdsInOrder, MovesLocked, HistoryInOrder, ReadInOrder, InOrder

LEMMA MoveKeeps ==
    ASSUME FeedInv, NEW e \in Event, NEW a \in Application, Move(e, a)
    PROVE  FeedInv'
<1> USE DEF FeedInv, Move, NextId
<1>1. TypeOK'
  BY NoneAssumption DEF TypeOK
<1>2. IdsInOrder'
  BY EventAssumption DEF TypeOK, IdsInOrder
<1>3. MovesLocked'
  BY NoneAssumption DEF TypeOK, MovesLocked
<1>4. HistoryInOrder'
  <2>1. ASSUME NEW b \in Application, NEW i \in DOMAIN history[b]
        PROVE  /\ history[b][i] \in Event
               /\ state'[history[b][i]] = "committed"
               /\ history[b][i] < e
    <3>1. history[b][i] \in Event
      BY DEF TypeOK
    <3>2. state[history[b][i]] = "committed"
      BY DEF HistoryInOrder
    <3> QED
      BY <3>1, <3>2 DEF TypeOK, IdsInOrder
  <2> QED
    BY <2>1 DEF TypeOK, HistoryInOrder
<1>5. ReadInOrder'
  BY DEF ReadInOrder
<1> QED
  BY <1>1, <1>2, <1>3, <1>4, <1>5

LEMMA OtherKeeps ==
    ASSUME FeedInv, NEW e \in Event, Other(e)
    PROVE  FeedInv'
<1> USE DEF FeedInv, Other, NextId
<1>1. TypeOK'
  BY NoneAssumption DEF TypeOK
<1>2. IdsInOrder'
  BY EventAssumption DEF TypeOK, IdsInOrder
<1>3. MovesLocked'
  BY NoneAssumption DEF TypeOK, MovesLocked
<1>4. HistoryInOrder'
  <2>1. ASSUME NEW b \in Application, NEW i \in DOMAIN history[b]
        PROVE  state'[history[b][i]] = "committed"
    <3>1. history[b][i] \in Event /\ state[history[b][i]] = "committed"
      BY DEF TypeOK, HistoryInOrder
    <3> QED
      BY <3>1 DEF TypeOK
  <2> QED
    BY <2>1 DEF TypeOK, HistoryInOrder
<1>5. ReadInOrder'
  BY DEF ReadInOrder
<1> QED
  BY <1>1, <1>2, <1>3, <1>4, <1>5

(***************************************************************************)
(* The end of a transaction: only the application it moved is unlocked.    *)
(***************************************************************************)
LEMMA EndsKeeps ==
    ASSUME FeedInv, NEW e \in Event, NEW outcome \in {"committed", "undone"},
           Ends(e, outcome)
    PROVE  /\ state' \in [Event -> {"absent", "open", "committed", "undone"}]
           /\ \A d \in Event : d # e => state'[d] = state[d]
           /\ appLock' \in [Application -> Event \cup {None}]
           /\ \A a \in Application : appLock'[a] # None =>
                 /\ appLock'[a] = appLock[a]
                 /\ appLock[a] # e
                 /\ state'[appLock[a]] = "open"
                 /\ moved[appLock[a]] = a
           /\ IdsInOrder'
           /\ MovesLocked'
<1> USE DEF FeedInv, TypeOK, Ends
<1>1. /\ state' \in [Event -> {"absent", "open", "committed", "undone"}]
      /\ \A d \in Event : d # e => state'[d] = state[d]
      /\ state'[e] = outcome
  OBVIOUS
<1>2. appLock' \in [Application -> Event \cup {None}]
  OBVIOUS
<1>3. \A a \in Application : appLock'[a] # None =>
         appLock'[a] = appLock[a] /\ appLock[a] # e
  BY NoneAssumption
<1>4. \A a \in Application : appLock'[a] # None =>
         state'[appLock[a]] = "open" /\ moved[appLock[a]] = a
  BY <1>1, <1>3
<1>5. IdsInOrder'
  BY <1>1, EventAssumption DEF IdsInOrder
<1>6. MovesLocked'
  <2> SUFFICES ASSUME NEW d \in Event
               PROVE  /\ state'[d] = "absent" => moved[d] = None
                      /\ state'[d] = "open" /\ moved[d] # None => appLock'[moved[d]] = d
    BY DEF MovesLocked
  <2>1. CASE d = e
    BY <1>1, <2>1
  <2>2. CASE d # e
    <3>1. state'[d] = state[d]
      BY <1>1, <2>2
    <3>2. ASSUME state[d] = "open", moved[d] # None
          PROVE  appLock'[moved[d]] = d
      <4>1. moved[d] \in Application /\ appLock[moved[d]] = d
        BY <3>2 DEF MovesLocked
      <4> QED
        BY <4>1, <2>2
    <3> QED
      BY <3>1, <3>2 DEF MovesLocked
  <2> QED
    BY <2>1, <2>2
<1> QED
  BY <1>1, <1>2, <1>3, <1>4, <1>5, <1>6

LEMMA CommitKeeps ==
    ASSUME FeedInv, NEW e \in Event, Commit(e)
    PROVE  FeedInv'
<1>1. Ends(e, "committed") /\ state[e] = "open" /\ state'[e] = "committed"
  BY DEF FeedInv, TypeOK, Commit, Ends
<1>2. UNCHANGED <<moved, after, read>>
  BY <1>1 DEF Ends
<1>3. \A a \in Application :
         history'[a] = IF moved[e] = a THEN Append(history[a], e) ELSE history[a]
  BY DEF Commit
<1>4. history' \in [Application -> Seq(Event)]
  BY DEF Commit, FeedInv, TypeOK
<1>5. TypeOK'
  BY <1>1, <1>2, <1>4, EndsKeeps DEF FeedInv, TypeOK
<1>6. HistoryInOrder'
  <2> SUFFICES ASSUME NEW a \in Application
               PROVE  /\ InOrder(history'[a])
                      /\ \A i \in DOMAIN history'[a] :
                            /\ state'[history'[a][i]] = "committed"
                            /\ appLock'[a] # None => history'[a][i] < appLock'[a]
    BY DEF HistoryInOrder, InOrder
  <2> DEFINE h == history[a]
  <2>1. /\ h \in Seq(Event)
        /\ InOrder(h)
        /\ \A i \in DOMAIN h : /\ state'[h[i]] = "committed"
                               /\ appLock[a] # None => h[i] < appLock[a]
    <3>1. h \in Seq(Event)
      BY DEF FeedInv, TypeOK
    <3>2. \A i \in DOMAIN h : h[i] \in Event /\ state[h[i]] = "committed"
      BY <3>1 DEF FeedInv, HistoryInOrder
    <3> QED
      BY <1>1, <3>1, <3>2, EndsKeeps DEF FeedInv, HistoryInOrder
  <2> HIDE DEF h
  <2>2. CASE moved[e] # a
    <3>1. history'[a] = h
      BY <1>3, <2>2 DEF h
    <3> QED
      BY <1>1, <2>1, <3>1, EndsKeeps
  <2>3. CASE moved[e] = a
    <3>1. history'[a] = Append(h, e)
      BY <1>3, <2>3 DEF h
    <3>2. appLock[a] = e /\ a # None
      BY <1>1, <2>3, NoneAssumption DEF FeedInv, MovesLocked
    <3>3. e # None
      BY NoneAssumption
    <3>4. appLock'[a] = None
      BY <1>1, <3>2, EndsKeeps
    <3>5. InOrder(Append(h, e))
      BY <2>1, <3>2, <3>3, AppendInOrder
    <3>6. \A i \in DOMAIN Append(h, e) : Append(h, e)[i] = e \/
             \E j \in DOMAIN h : Append(h, e)[i] = h[j]
      BY <2>1
    <3> QED
      BY <1>1, <2>1, <3>1, <3>4, <3>5, <3>6
  <2> QED
    BY <2>2, <2>3
<1>7. ReadInOrder'
  BY <1>2 DEF FeedInv, ReadInOrder
<1> QED
  BY <1>1, <1>5, <1>6, <1>7, EndsKeeps DEF FeedInv

LEMMA UndoKeeps ==
    ASSUME FeedInv, NEW e \in Event, Undo(e)
    PROVE  FeedInv'
<1>1. Ends(e, "undone") /\ state[e] = "open"
  BY DEF Undo, Ends
<1>2. UNCHANGED <<moved, after, read, history>>
  BY <1>1 DEF Undo, Ends
<1>3. TypeOK'
  BY <1>1, <1>2, EndsKeeps DEF FeedInv, TypeOK
<1>4. HistoryInOrder'
  <2>1. ASSUME NEW a \in Application, NEW i \in DOMAIN history[a]
        PROVE  /\ state'[history[a][i]] = "committed"
               /\ appLock'[a] # None => history[a][i] < appLock'[a]
    <3>1. history[a][i] \in Event /\ state[history[a][i]] = "committed"
      BY DEF FeedInv, TypeOK, HistoryInOrder
    <3>2. state'[history[a][i]] = "committed"
      BY <1>1, <3>1, EndsKeeps
    <3>3. appLock'[a] # None => appLock'[a] = appLock[a]
      BY <1>1, EndsKeeps
    <3> QED
      BY <3>2, <3>3 DEF FeedInv, HistoryInOrder
  <2> QED
    BY <1>2, <2>1 DEF FeedInv, HistoryInOrder, InOrder
<1>5. ReadInOrder'
  BY <1>2 DEF FeedInv, ReadInOrder
<1> QED
  BY <1>1, <1>3, <1>4, <1>5, EndsKeeps DEF FeedInv

LEMMA ReadKeeps ==
    ASSUME FeedInv, NEW e \in Event, NEW page \in Pages, Read(e, page)
    PROVE  FeedInv'
<1>1. page \in Seq(Event)
  BY DEF Pages
<1>2. UNCHANGED <<state, moved, history, appLock>>
  BY DEF Read
<1>3. /\ InOrder(page)
      /\ \A i \in DOMAIN page : after < page[i] /\ page[i] <= e
  BY <1>1, PageFacts DEF Read
<1>4. TypeOK'
  BY <1>1 DEF FeedInv, TypeOK, Read
<1>5. ReadInOrder'
  <2>1. InOrder(read \o page)
    BY <1>1, <1>3, ConcatInOrder DEF FeedInv, TypeOK, ReadInOrder
  <2>2. ASSUME NEW i \in DOMAIN (read \o page)
        PROVE  (read \o page)[i] <= e
    <3>1. read \in Seq(Event) /\ after \in Nat /\ e \in Nat
      BY EventAssumption DEF FeedInv, TypeOK
    <3>2. CASE i <= Len(read)
      <4>1. i \in DOMAIN read /\ (read \o page)[i] = read[i]
        BY <1>1, <3>1, <3>2
      <4>2. read[i] \in Nat
        <5>1. read[i] \in Event
          BY <3>1, <4>1
        <5> QED
          BY <5>1, EventAssumption
      <4>3. read[i] <= after /\ after < e
        BY <4>1 DEF FeedInv, ReadInOrder, Read
      <4> QED
        BY <3>1, <4>1, <4>2, <4>3
    <3>3. CASE i > Len(read)
      <4>1. i - Len(read) \in DOMAIN page /\ (read \o page)[i] = page[i - Len(read)]
        BY <1>1, <3>1, <3>3
      <4> QED
        BY <1>3, <4>1
    <3> QED
      BY <1>1, <3>1, <3>2, <3>3
  <2> QED
    BY <2>1, <2>2 DEF Read, ReadInOrder
<1> QED
  BY <1>2, <1>4, <1>5 DEF FeedInv, IdsInOrder, MovesLocked, HistoryInOrder

LEMMA StepFeed == FeedInv /\ [Next]_vars => FeedInv'
<1> SUFFICES ASSUME FeedInv, [Next]_vars PROVE FeedInv'
  OBVIOUS
<1>1. CASE Next
  BY <1>1, MoveKeeps, OtherKeeps, CommitKeeps, UndoKeeps, ReadKeeps DEF Next
<1>2. CASE UNCHANGED vars
  BY <1>2 DEF vars, FeedInv, TypeOK, IdsInOrder, MovesLocked, HistoryInOrder, ReadInOrder
<1> QED
  BY <1>1, <1>2

(***************************************************************************)
(* The inductive invariant of the feed.                                    *)
(***************************************************************************)
THEOREM FeedInvCorrect == Spec => []FeedInv
BY InitFeed, StepFeed, PTL DEF Spec

(***************************************************************************)
(* The events, locks and reader keep their types (TypeOK of EventFeed).    *)
(***************************************************************************)
THEOREM FeedTypes == Spec => []TypeOK
<1>1. FeedInv => TypeOK
  BY DEF FeedInv
<1> QED
  BY <1>1, FeedInvCorrect, PTL

(***************************************************************************)
(* Moves of one application are read in the order they were made.          *)
(***************************************************************************)
THEOREM MovesInOrderCorrect == Spec => []MovesReadInOrder
<1>1. FeedInv => MovesReadInOrder
  <2> SUFFICES ASSUME FeedInv, NEW a \in Application, NEW d \in Event, NEW e \in Event,
                      Before(history[a], d, e), Before(read, e, d)
               PROVE  FALSE
    BY DEF MovesReadInOrder
  <2>1. d < e
    BY DEF Before, FeedInv, HistoryInOrder, InOrder
  <2>2. e < d
    BY DEF Before, FeedInv, ReadInOrder, InOrder
  <2> QED
    BY <2>1, <2>2, EventAssumption
<1> QED
  BY <1>1, FeedInvCorrect, PTL
=============================================================================
