-------------------------- MODULE OperationsProofs --------------------------
(***************************************************************************)
(* Theorems about what is done again: requests sent again under a key      *)
(* (Retries) and without one (OpeningLoads), backups taken while others are*)
(* (Backups), the pages of a list asked one by one (Paging), and a workbook*)
(* imported again (Imports).                                               *)
(***************************************************************************)
EXTENDS Retries, OpeningLoads, Backups, Paging, Imports, FiniteSetTheorems, TLAPS

-----------------------------------------------------------------------------
(* Idempotency keys.                                                        *)

\* Who works under a key holds its lock, and found nothing kept.
Holds ==
    \A a \in Attempt :
        /\ stage[a] \in {"waiting", "locked"} => KeyOf[a] # None
        /\ stage[a] \in {"locked", "making", "worked"} /\ KeyOf[a] # None
             => holder[KeyOf[a]] = a

NothingKept ==
    \A a \in Attempt :
        stage[a] \in {"making", "worked"} /\ KeyOf[a] # None => KeptFor(a) = {}

KeptIsMade == \A b \in kept : b \in made /\ KeyOf[b] # None

UntoldUntilOver ==
    \A a \in Attempt : stage[a] # "over" => told[a] = <<>> /\ a \notin made

RetriesInv ==
    /\ RetriesTypeOK /\ Holds /\ NothingKept /\ KeptIsMade /\ UntoldUntilOver
    /\ OncePerKey /\ AnswersAreOfTheRequest

(***************************************************************************)
(* The answers are different from one another.                             *)
(***************************************************************************)
LEMMA AnswersDiffer ==
    ASSUME NEW a, NEW b
    PROVE  /\ <<"made", a>> # <<>> /\ <<"made", a>> # <<"refused">>
           /\ <<"made", a>> # <<"reused">>
           /\ <<"made", a>> = <<"made", b>> => a = b
OBVIOUS

LEMMA RetriesInvInit == RetriesInit => RetriesInv
BY KeyOfAssumption, NoKeyAssumption
   DEF RetriesInit, RetriesInv, RetriesTypeOK, AttemptStage, Holds, NothingKept, KeptIsMade,
       UntoldUntilOver, OncePerKey, AnswersAreOfTheRequest, Fresh, KeptFor

LEMMA RetriesTypedStep ==
    ASSUME RetriesTypeOK, RetriesNext
    PROVE  RetriesTypeOK'
<1> USE KeyOfAssumption, NoKeyAssumption DEF RetriesTypeOK, AttemptStage
<1>1. ASSUME NEW a \in Attempt, Send(a) PROVE RetriesTypeOK'
  BY <1>1 DEF Send
<1>2. ASSUME NEW a \in Attempt, TakeLock(a) \/ LookUp(a) \/ Work(a) PROVE RetriesTypeOK'
  BY <1>2 DEF TakeLock, LookUp, Work
<1>3. ASSUME NEW a \in Attempt, Replay(a) PROVE RetriesTypeOK'
  BY <1>3 DEF Replay, Over, KeptFor, Fresh
<1>4. ASSUME NEW a \in Attempt, Refuse(a) \/ Broken(a) PROVE RetriesTypeOK'
  BY <1>4 DEF Refuse, Broken, Over
<1>5. ASSUME NEW a \in Attempt, CommitWork(a) PROVE RetriesTypeOK'
  BY <1>5 DEF CommitWork, Over
<1>6. ASSUME NEW b \in Attempt, HoursPass(b) PROVE RetriesTypeOK'
  BY <1>6 DEF HoursPass, Fresh
<1> QED BY RetriesNext, <1>1, <1>2, <1>3, <1>4, <1>5, <1>6 DEF RetriesNext, Serve

(***************************************************************************)
(* Who is past a key's lock is alone there.                                *)
(***************************************************************************)
LEMMA LockExcludes ==
    ASSUME Holds, NEW a \in Attempt, NEW b \in Attempt, KeyOf[a] # None, KeyOf[a] = KeyOf[b],
           stage[a] \in {"locked", "making", "worked"}, stage[b] \in {"locked", "making", "worked"}
    PROVE  a = b
BY DEF Holds

LEMMA RetriesStep ==
    ASSUME RetriesInv, RetriesNext, RetriesTypeOK'
    PROVE  RetriesInv'
<1> USE KeyOfAssumption, NoKeyAssumption DEF RetriesInv, RetriesTypeOK
<1>1. ASSUME NEW a \in Attempt, Send(a) PROVE RetriesInv'
  BY <1>1 DEF Send, Holds, NothingKept, KeptIsMade, UntoldUntilOver, OncePerKey,
              AnswersAreOfTheRequest, Fresh, KeptFor
<1>2. ASSUME NEW a \in Attempt, TakeLock(a) PROVE RetriesInv'
  <2>1. Holds'
    BY <1>2 DEF TakeLock, Holds
  <2> QED BY <1>2, <2>1 DEF TakeLock, NothingKept, KeptIsMade, UntoldUntilOver, OncePerKey,
              AnswersAreOfTheRequest, Fresh, KeptFor
<1>3. ASSUME NEW a \in Attempt, LookUp(a) \/ Work(a) PROVE RetriesInv'
  <2>1. Holds' /\ NothingKept'
    BY <1>3 DEF LookUp, Work, Holds, NothingKept, Fresh, KeptFor
  <2> QED BY <1>3, <2>1 DEF LookUp, Work, KeptIsMade, UntoldUntilOver, OncePerKey,
              AnswersAreOfTheRequest, Fresh, KeptFor
<1>4. ASSUME NEW a \in Attempt, Over(a), UNCHANGED <<kept, expired>>
      PROVE  Holds' /\ NothingKept'
  BY <1>4, LockExcludes DEF Over, Holds, NothingKept, Fresh, KeptFor
<1>5. ASSUME NEW a \in Attempt, Replay(a) PROVE RetriesInv'
  <2>1. Holds' /\ NothingKept' /\ KeptIsMade' /\ OncePerKey'
    BY <1>5, <1>4 DEF Replay, KeptIsMade, OncePerKey, Fresh
  <2>2. UntoldUntilOver'
    BY <1>5 DEF Replay, Over, UntoldUntilOver
  <2>3. PICK b \in KeptFor(a) :
            told' = [told EXCEPT ![a] = IF BodyOf[b] = BodyOf[a] THEN <<"made", b>>
                                        ELSE <<"reused">>]
    BY <1>5 DEF Replay
  <2>4. b \in made /\ KeyOf[b] # None /\ KeyOf[b] = KeyOf[a] /\ a \notin made
    BY <1>5, <2>3 DEF KeptFor, Fresh, KeptIsMade, Replay, UntoldUntilOver
  <2>5. AnswersAreOfTheRequest'
    BY <1>5, <2>3, <2>4, AnswersDiffer DEF Replay, AnswersAreOfTheRequest
  <2> QED BY <2>1, <2>2, <2>5
<1>6. ASSUME NEW a \in Attempt, Refuse(a) \/ Broken(a) PROVE RetriesInv'
  <2>1. Holds' /\ NothingKept' /\ KeptIsMade' /\ OncePerKey'
    BY <1>6, <1>4 DEF Refuse, Broken, KeptIsMade, OncePerKey, Fresh
  <2>2. UntoldUntilOver'
    BY <1>6 DEF Refuse, Broken, Over, UntoldUntilOver
  <2>3. a \notin made
    BY <1>6 DEF Refuse, Broken, UntoldUntilOver
  <2>4. AnswersAreOfTheRequest'
    BY <1>6, <2>3, AnswersDiffer DEF Refuse, Broken, AnswersAreOfTheRequest
  <2> QED BY <2>1, <2>2, <2>4
<1>7. ASSUME NEW a \in Attempt, CommitWork(a) PROVE RetriesInv'
  <2>1. Holds'
    BY <1>7, LockExcludes DEF CommitWork, Over, Holds
  <2>2. ASSUME KeyOf[a] # None
        PROVE  \A b \in Fresh : KeyOf[b] # KeyOf[a]
    BY <1>7, <2>2 DEF CommitWork, NothingKept, KeptFor
  <2>3. NothingKept'
    BY <1>7, LockExcludes DEF CommitWork, Over, NothingKept, Fresh, KeptFor
  <2>4. KeptIsMade' /\ UntoldUntilOver'
    BY <1>7 DEF CommitWork, Over, KeptIsMade, UntoldUntilOver
  <2>5. OncePerKey'
    BY <1>7, <2>2 DEF CommitWork, OncePerKey, Fresh
  <2>6. AnswersAreOfTheRequest'
    BY <1>7, AnswersDiffer DEF CommitWork, AnswersAreOfTheRequest
  <2> QED BY <2>1, <2>3, <2>4, <2>5, <2>6
<1>8. ASSUME NEW b \in Attempt, HoursPass(b) PROVE RetriesInv'
  BY <1>8 DEF HoursPass, Holds, NothingKept, KeptIsMade, UntoldUntilOver, OncePerKey,
              AnswersAreOfTheRequest, Fresh, KeptFor
<1> QED BY <1>1, <1>2, <1>3, <1>5, <1>6, <1>7, <1>8 DEF RetriesNext, Serve

LEMMA RetriesStutter ==
    ASSUME RetriesInv, UNCHANGED retriesVars
    PROVE  RetriesInv'
BY DEF retriesVars, RetriesInv, RetriesTypeOK, Holds, NothingKept, KeptIsMade, UntoldUntilOver,
       OncePerKey, AnswersAreOfTheRequest, Fresh, KeptFor

(***************************************************************************)
(* The types of Retries.                                                   *)
(***************************************************************************)
LEMMA RetriesTypes == RetriesSpec => []RetriesTypeOK
<1>1. RetriesInit => RetriesTypeOK
  BY RetriesInvInit DEF RetriesInv
<1>2. RetriesTypeOK /\ [RetriesNext]_retriesVars => RetriesTypeOK'
  BY RetriesTypedStep DEF retriesVars, RetriesTypeOK
<1> QED BY <1>1, <1>2, PTL DEF RetriesSpec

LEMMA RetriesInvariant == RetriesSpec => []RetriesInv
<1>1. RetriesInv /\ [RetriesNext]_retriesVars => RetriesInv'
  BY RetriesStep, RetriesStutter, RetriesTypedStep DEF RetriesInv
<1> QED BY RetriesInvInit, <1>1, PTL DEF RetriesSpec

(***************************************************************************)
(* api/idempotency.py: one response is kept under a key at a time, and     *)
(* what was created under a key is kept, for any number of attempts, keys  *)
(* and bodies.                                                             *)
(***************************************************************************)
THEOREM KeysMakeOnce == RetriesSpec => []OncePerKey
<1>1. RetriesInv => OncePerKey
  BY DEF RetriesInv
<1> QED BY RetriesInvariant, <1>1, PTL

(***************************************************************************)
(* Whoever is told of something created is told of what the same request   *)
(* under the same key created, and nothing is created untold.              *)
(***************************************************************************)
THEOREM AnswersAreRight == RetriesSpec => []AnswersAreOfTheRequest
<1>1. RetriesInv => AnswersAreOfTheRequest
  BY DEF RetriesInv
<1> QED BY RetriesInvariant, <1>1, PTL

-----------------------------------------------------------------------------
(* Loading a file of jobs.                                                  *)

OpeningLoadsTypes ==
    /\ open \in [FileLine -> Nat]
    /\ loader \in [Loader -> [existing : (SUBSET FileLine) \cup {None}, next : Int]]
    /\ request \in [Loader -> {"none", "sent", "done"}]
    /\ adrift \subseteq FileLine
    /\ raced \in BOOLEAN

\* A load under way is at a line of the file, and only it has a post.
AtALine ==
    \A l \in Loader :
        /\ Loading(l) => loader[l].next \in FileLine
        /\ request[l] # "none" => Loading(l) /\ loader[l].next \notin loader[l].existing

\* Until two loads meet there is one at a time, and nothing is adrift meanwhile.
OneAtATime ==
    /\ \A l, u \in Loader : Loading(l) /\ Loading(u) => l = u
    /\ \A l \in Loader : Loading(l) => adrift = {}

\* What is open at or past the line a load is at, the load knows of.
KnowsWhatIsOpen ==
    /\ \A l \in Loader : Loading(l) =>
          \A k \in FileLine : open[k] > 0 /\ k >= loader[l].next =>
              k \in loader[l].existing \/ (k = loader[l].next /\ request[l] = "done")
    /\ \A k \in adrift : open[k] = 0

OpenedOnce == \A k \in FileLine : open[k] <= 1

OpeningLoadsInv ==
    /\ OpeningLoadsTypes /\ AtALine
    /\ ~raced => OneAtATime /\ KnowsWhatIsOpen /\ OpenedOnce

LEMMA IdleIsNotLoading ==
    ASSUME NEW l \in Loader, loader[l] = NotLoading
    PROVE  ~Loading(l) /\ loader[l] \in [existing : (SUBSET FileLine) \cup {None}, next : Int]
BY DEF Loading, NotLoading

LEMMA OpeningLoadsInvInit == OpeningLoadsInit => OpeningLoadsInv
<1> SUFFICES ASSUME OpeningLoadsInit PROVE OpeningLoadsInv
  OBVIOUS
<1>1. \A l \in Loader : loader[l] = NotLoading
  BY DEF OpeningLoadsInit
<1>2. loader \in [Loader -> [existing : (SUBSET FileLine) \cup {None}, next : Int]]
  BY <1>1, IdleIsNotLoading DEF OpeningLoadsInit
<1>3. OpeningLoadsTypes
  BY <1>2 DEF OpeningLoadsInit, OpeningLoadsTypes
<1> QED
  BY <1>1, <1>3, IdleIsNotLoading
     DEF OpeningLoadsInit, OpeningLoadsInv, AtALine, OneAtATime, KnowsWhatIsOpen, OpenedOnce

(***************************************************************************)
(* What moving on does to a load.                                          *)
(***************************************************************************)
LEMMA AdvanceMoves ==
    ASSUME OpeningLoadsTypes, AtALine, NEW l \in Loader, Loading(l),
           NEW existing \in SUBSET FileLine, Advance(l, existing)
    PROVE  /\ loader' \in [Loader -> [existing : (SUBSET FileLine) \cup {None}, next : Int]]
           /\ \A u \in Loader \ {l} : loader'[u] = loader[u]
           /\ Loading(l)' => /\ loader'[l].next \in FileLine
                             /\ loader'[l].next = loader[l].next + 1
                             /\ loader'[l].existing = existing
<1> USE LinesAssumption, NoListAssumption DEF OpeningLoadsTypes, FileLine
<1>1. loader[l].next \in 1 .. LastLine
  BY DEF AtALine
<1>2. CASE loader[l].next = LastLine
  <2>1. loader' = [loader EXCEPT ![l] = NotLoading]
    BY <1>2 DEF Advance
  <2>2. NotLoading \in [existing : (SUBSET FileLine) \cup {None}, next : Int]
    BY DEF NotLoading
  <2>3. loader'[l].existing = None
    BY <2>1 DEF NotLoading
  <2> QED BY <2>1, <2>2, <2>3 DEF Loading
<1>3. CASE loader[l].next # LastLine
  BY <1>1, <1>3 DEF Advance, Loading
<1> QED BY <1>2, <1>3

LEMMA OpeningLoadsTypedStep ==
    ASSUME OpeningLoadsTypes, AtALine, OpeningLoadsNext
    PROVE  OpeningLoadsTypes' /\ AtALine'
<1> USE NoListAssumption, LinesAssumption
<1>1. ASSUME NEW l \in Loader, ListOpenings(l) PROVE OpeningLoadsTypes' /\ AtALine'
  <2>1. ExistingOpen \in SUBSET FileLine /\ 1 \in FileLine
    BY DEF ExistingOpen, FileLine
  <2>2. OpeningLoadsTypes'
    BY <1>1, <2>1 DEF ListOpenings, OpeningLoadsTypes
  <2> QED BY <1>1, <2>1, <2>2 DEF ListOpenings, OpeningLoadsTypes, AtALine, Loading
<1>2. ASSUME NEW l \in Loader, AlreadyThere(l) \/ RefuseOpening(l) \/ TakeCreated(l)
      PROVE  OpeningLoadsTypes' /\ AtALine'
  <2>1. Loading(l) /\ loader[l].next \in FileLine
    BY <1>2 DEF AlreadyThere, RefuseOpening, TakeCreated, AtALine
  <2>2. loader[l].existing \in SUBSET FileLine
    BY <2>1 DEF OpeningLoadsTypes, Loading
  <2>3. PICK existing \in SUBSET FileLine : Advance(l, existing)
    BY <1>2, <2>1, <2>2 DEF AlreadyThere, RefuseOpening, TakeCreated
  <2>4. request'[l] = "none" /\ \A u \in Loader \ {l} : request'[u] = request[u]
    BY <1>2 DEF AlreadyThere, RefuseOpening, TakeCreated, OpeningLoadsTypes, AtALine
  <2>5. OpeningLoadsTypes'
    BY <1>2, <2>1, <2>3, AdvanceMoves
       DEF AlreadyThere, RefuseOpening, TakeCreated, OpeningLoadsTypes
  <2> QED BY <2>1, <2>3, <2>4, <2>5, AdvanceMoves DEF AtALine, Loading
<1>3. ASSUME NEW l \in Loader, Post(l) \/ CreateOpening(l) PROVE OpeningLoadsTypes' /\ AtALine'
  <2>1. loader[l].next \in FileLine
    BY <1>3 DEF Post, CreateOpening, AtALine, OpeningLoadsTypes
  <2> QED BY <1>3, <2>1 DEF Post, CreateOpening, OpeningLoadsTypes, AtALine, Loading
<1>4. ASSUME NEW l \in Loader, StopLoading(l) PROVE OpeningLoadsTypes' /\ AtALine'
  <2>1. NotLoading.existing = None
        /\ NotLoading \in [existing : (SUBSET FileLine) \cup {None}, next : Int]
    BY DEF NotLoading
  <2>2. loader[l].next \in FileLine
    BY <1>4 DEF StopLoading, AtALine
  <2>3. OpeningLoadsTypes'
    BY <1>4, <2>1, <2>2 DEF StopLoading, OpeningLoadsTypes
  <2> QED BY <1>4, <2>1, <2>3 DEF StopLoading, OpeningLoadsTypes, AtALine, Loading
<1>5. ASSUME NEW k \in FileLine, CloseOpening(k) \/ \E commits \in BOOLEAN : CreateLate(k, commits)
      PROVE OpeningLoadsTypes' /\ AtALine'
  BY <1>5 DEF CloseOpening, CreateLate, OpeningLoadsTypes, AtALine, Loading
<1> QED BY <1>1, <1>2, <1>3, <1>4, <1>5 DEF OpeningLoadsNext

(***************************************************************************)
(* A line whose post is on its way is not open yet.                        *)
(***************************************************************************)
LEMMA SentIsNotOpen ==
    ASSUME OpeningLoadsTypes, KnowsWhatIsOpen, NEW l \in Loader, Loading(l),
           loader[l].next \in FileLine, loader[l].next \notin loader[l].existing,
           request[l] = "sent"
    PROVE  open[loader[l].next] = 0
<1>1. PICK k \in FileLine : k = loader[l].next
  OBVIOUS
<1>2. k \in Nat /\ k >= k /\ open[k] \in Nat
  BY DEF FileLine, OpeningLoadsTypes
<1>3. ~(open[k] > 0)
  BY <1>1, <1>2 DEF KnowsWhatIsOpen
<1> QED BY <1>1, <1>2, <1>3

(***************************************************************************)
(* While no two loads have met, a step of one leaves each line with one    *)
(* opening at most.                                                        *)
(***************************************************************************)
LEMMA LoadsApart ==
    ASSUME OpeningLoadsInv, OpeningLoadsNext, OpeningLoadsTypes', AtALine', ~raced'
    PROVE  OneAtATime' /\ KnowsWhatIsOpen' /\ OpenedOnce'
<1> USE LinesAssumption, NoListAssumption DEF OpeningLoadsInv
<1> DEFINE Apart == OneAtATime /\ KnowsWhatIsOpen /\ OpenedOnce
<1>1. ASSUME NEW l \in Loader, ListOpenings(l) PROVE Apart'
  <2>1. ~raced /\ adrift = {} /\ \A u \in Loader : ~Loading(u)
    BY <1>1 DEF ListOpenings, OpeningLoadsTypes
  <2>2. /\ \A u \in Loader : Loading(u)' => u = l
        /\ loader'[l].existing = ExistingOpen /\ open' = open /\ adrift' = {}
    BY <1>1, <2>1 DEF ListOpenings, OpeningLoadsTypes, Loading
  <2> QED BY <2>1, <2>2 DEF OneAtATime, KnowsWhatIsOpen, OpenedOnce, ExistingOpen
<1>2. ASSUME NEW l \in Loader, ~raced, Loading(l), NEW existing \in SUBSET FileLine,
             Advance(l, existing), request'[l] = "none", UNCHANGED <<open, adrift>>,
             loader[l].existing \subseteq existing,
             request[l] = "done" => loader[l].next \in existing
      PROVE  Apart'
  <2>1. loader[l].next \in Nat /\ FileLine \subseteq Nat
    BY <1>2 DEF AtALine, FileLine
  <2>2. \A u \in Loader : Loading(u)' => u = l /\ loader'[l].next = loader[l].next + 1
                                         /\ loader'[l].existing = existing
    BY <1>2, AdvanceMoves DEF OneAtATime, Loading
  <2>3. OneAtATime' /\ OpenedOnce'
    BY <1>2, <2>2 DEF OneAtATime, OpenedOnce
  <2>4. ASSUME NEW u \in Loader, Loading(u)', NEW k \in FileLine, open[k] > 0,
               k >= loader'[u].next
        PROVE  k \in existing
    <3>1. k > loader[l].next /\ k >= loader[l].next
      BY <2>1, <2>2, <2>4
    <3>2. k \in loader[l].existing
      BY <1>2, <2>1, <2>4, <3>1 DEF KnowsWhatIsOpen
    <3> QED BY <1>2, <3>2
  <2>5. KnowsWhatIsOpen'
    BY <1>2, <2>2, <2>4 DEF KnowsWhatIsOpen
  <2> QED BY <2>3, <2>5
<1>3. ASSUME NEW l \in Loader, AlreadyThere(l) \/ RefuseOpening(l) \/ TakeCreated(l) PROVE Apart'
  <2>1. Loading(l) /\ ~raced /\ loader[l].existing \in SUBSET FileLine
    BY <1>3 DEF AlreadyThere, RefuseOpening, TakeCreated, AtALine, OpeningLoadsTypes, Loading
  <2>2. loader[l].next \in FileLine
    BY <2>1 DEF AtALine
  <2>3. CASE AlreadyThere(l)
    <3>1. request[l] = "none"
      BY <2>3 DEF AlreadyThere, AtALine, OpeningLoadsTypes
    <3> QED BY <1>2, <2>1, <2>3, <3>1 DEF AlreadyThere
  <2>4. CASE RefuseOpening(l)
    BY <1>2, <2>1, <2>4 DEF RefuseOpening, OpeningLoadsTypes
  <2>5. CASE TakeCreated(l)
    BY <1>2, <2>1, <2>2, <2>5 DEF TakeCreated, OpeningLoadsTypes
  <2> QED BY <1>3, <2>3, <2>4, <2>5
<1>4. ASSUME NEW l \in Loader, Post(l) PROVE Apart'
  BY <1>4 DEF Post, OneAtATime, KnowsWhatIsOpen, OpenedOnce, OpeningLoadsTypes, Loading
<1>5. ASSUME NEW l \in Loader, CreateOpening(l) PROVE Apart'
  <2>1. Loading(l) /\ ~raced /\ loader[l].next \in FileLine /\ loader[l].next \notin loader[l].existing
    BY <1>5 DEF CreateOpening, AtALine
  <2>2. open[loader[l].next] = 0 /\ FileLine \subseteq Nat
    BY <1>5, <2>1, SentIsNotOpen DEF CreateOpening, FileLine
  <2>3. OneAtATime' /\ adrift' = {}
    BY <1>5, <2>1 DEF CreateOpening, OneAtATime, Loading
  <2>4. OpenedOnce'
    BY <1>5, <2>1, <2>2 DEF CreateOpening, OpenedOnce, OpeningLoadsTypes
  <2>5. \A u \in Loader : Loading(u)' => u = l
    BY <1>5, <2>1 DEF CreateOpening, OneAtATime, Loading
  <2>6. KnowsWhatIsOpen'
    BY <1>5, <2>1, <2>2, <2>3, <2>5 DEF CreateOpening, KnowsWhatIsOpen, OpeningLoadsTypes, Loading
  <2> QED BY <2>3, <2>4, <2>6
<1>6. ASSUME NEW l \in Loader, StopLoading(l) PROVE Apart'
  <2>1. Loading(l) /\ ~raced /\ loader[l].next \in FileLine
    BY <1>6 DEF StopLoading, AtALine
  <2>2. \A u \in Loader : ~Loading(u)'
    BY <1>6, <2>1 DEF StopLoading, OneAtATime, Loading, NotLoading, OpeningLoadsTypes
  <2>3. request[l] = "sent" => open[loader[l].next] = 0
    BY <2>1, SentIsNotOpen DEF AtALine
  <2> QED BY <1>6, <2>1, <2>2, <2>3 DEF StopLoading, OneAtATime, KnowsWhatIsOpen, OpenedOnce
<1>7. ASSUME NEW k \in FileLine, NEW commits \in BOOLEAN, CreateLate(k, commits) PROVE Apart'
  <2>1. ~raced /\ open[k] = 0 /\ \A u \in Loader : ~Loading(u)
    BY <1>7 DEF CreateLate, OneAtATime, KnowsWhatIsOpen
  <2>2. \A j \in FileLine : open'[j] <= 1 /\ (j # k => open'[j] = open[j])
    BY <1>7, <2>1 DEF CreateLate, OpenedOnce, OpeningLoadsTypes
  <2> QED BY <1>7, <2>1, <2>2 DEF CreateLate, OneAtATime, KnowsWhatIsOpen, OpenedOnce, Loading
<1>8. ASSUME NEW k \in FileLine, CloseOpening(k) PROVE Apart'
  <2>1. \A j \in FileLine : open'[j] <= open[j] /\ open'[j] \in Nat
    BY <1>8 DEF CloseOpening, OpeningLoadsTypes
  <2>2. ~raced /\ OneAtATime' /\ OpenedOnce'
    BY <1>8, <2>1 DEF CloseOpening, OneAtATime, OpenedOnce, OpeningLoadsTypes, Loading
  <2>3. \A j \in FileLine : open'[j] > 0 => open[j] > 0
    BY <2>1 DEF OpeningLoadsTypes
  <2>4. KnowsWhatIsOpen'
    BY <1>8, <2>1, <2>2, <2>3 DEF CloseOpening, KnowsWhatIsOpen, OpeningLoadsTypes, Loading
  <2> QED BY <2>2, <2>4
<1> QED BY <1>1, <1>3, <1>4, <1>5, <1>6, <1>7, <1>8 DEF OpeningLoadsNext

LEMMA OpeningLoadsInvariant == OpeningLoadsSpec => []OpeningLoadsInv
<1>1. OpeningLoadsInv /\ OpeningLoadsNext => OpeningLoadsInv'
  BY OpeningLoadsTypedStep, LoadsApart DEF OpeningLoadsInv
<1>2. OpeningLoadsInv /\ UNCHANGED openingLoadsVars => OpeningLoadsInv'
  BY DEF openingLoadsVars, OpeningLoadsInv, OpeningLoadsTypes, AtALine, OneAtATime,
         KnowsWhatIsOpen, OpenedOnce, Loading
<1> QED BY OpeningLoadsInvInit, <1>1, <1>2, PTL DEF OpeningLoadsSpec

(***************************************************************************)
(* pipeline/load_openings.py: a load that is run again creates nothing     *)
(* new, for a file of any length and any number of loads, unless two meet  *)
(* or a post is still adrift.                                              *)
(***************************************************************************)
THEOREM LoadingAgainCreatesNothing == OpeningLoadsSpec => []NoJobLoadedTwice
<1>1. OpeningLoadsInv => NoJobLoadedTwice
  BY DEF OpeningLoadsInv, OpenedOnce, NoJobLoadedTwice, OpeningLoadsTypes
<1> QED BY OpeningLoadsInvariant, <1>1, PTL

-----------------------------------------------------------------------------
(* Backups.                                                                 *)

TakeStage == {"idle", "dumped", "written", "counted", "checked", "recorded"}
Take == [stage : TakeStage, verify : BOOLEAN, dump : Nat \cup {None},
         body : Counts \cup {None}, counts : Counts \cup {None}, since : Nat]
Entry == {"no manifest", "not restored", "restored"}

BackupsTypes ==
    /\ rows \in Counts
    /\ begun \in Nat
    /\ taking \in [Taking -> Take]
    /\ DOMAIN dumps \subseteq 1 .. begun
    /\ \A d \in DOMAIN dumps : dumps[d] \in Entry

\* A take has a number of its own, and has counted the takes begun since.
Numbered ==
    \A t \in Taking : taking[t].stage # "idle" =>
        /\ taking[t].dump \in 1 .. begun /\ taking[t].since = begun - taking[t].dump
        /\ \A u \in Taking : taking[u].stage # "idle" /\ taking[u].dump = taking[t].dump => u = t

\* Its dump was removed only if as many were begun since as are kept.
InPlace ==
    \A t \in Taking :
        /\ taking[t].stage = "dumped" => ~InDirectory(t)
        /\ taking[t].stage \notin {"idle", "dumped"} =>
              InDirectory(t) \/ begun - taking[t].dump >= Keep

\* A dump that is left has a manifest once its take recorded it, which says
\* whether it was restored.
Recorded ==
    \A t \in Taking : taking[t].stage # "idle" /\ InDirectory(t) =>
        /\ taking[t].stage = "recorded" /\ taking[t].verify = TRUE => dumps[taking[t].dump] = "restored"
        /\ taking[t].stage # "recorded" => dumps[taking[t].dump] = "no manifest"

BackupsInv == BackupsTypes /\ Numbered /\ InPlace /\ Recorded /\ AProvedBackupStays

(***************************************************************************)
(* No more dumps are newer than one than were begun after it.              *)
(***************************************************************************)
LEMMA NewerAreFew ==
    ASSUME BackupsTypes, NEW d \in 1 .. begun
    PROVE  /\ Cardinality({e \in DOMAIN dumps : e > d}) \in Nat
           /\ Cardinality({e \in DOMAIN dumps : e > d}) <= begun - d
<1> USE DEF BackupsTypes
<1>1. {e \in DOMAIN dumps : e > d} \subseteq (d + 1) .. begun
  OBVIOUS
<1>2. IsFiniteSet((d + 1) .. begun) /\ Cardinality((d + 1) .. begun) = begun - d
  <2>1. d + 1 \in Int /\ begun \in Int /\ (d + 1 > begun => begun - d = 0)
        /\ begun - (d + 1) + 1 = begun - d
    OBVIOUS
  <2> QED BY <2>1, FS_Interval
<1>3. IsFiniteSet({e \in DOMAIN dumps : e > d})
      /\ Cardinality({e \in DOMAIN dumps : e > d}) <= Cardinality((d + 1) .. begun)
  BY <1>1, <1>2, FS_Subset
<1> QED BY <1>2, <1>3, FS_CardinalityType

LEMMA NotTakingType == NotTaking \in Take /\ NotTaking.stage = "idle"
BY DEF NotTaking, Take, TakeStage

LEMMA BackupsInvInit == BackupsInit => BackupsInv
<1> SUFFICES ASSUME BackupsInit PROVE BackupsInv
  OBVIOUS
<1>1. \A t \in Taking : taking[t] = NotTaking
  BY DEF BackupsInit
<1>2. DOMAIN dumps = {} /\ begun = 0
  BY DEF BackupsInit
<1>3. rows \in Counts /\ taking \in [Taking -> Take]
  BY BackupsBounds, NotTakingType DEF BackupsInit, Counts
<1>4. BackupsTypes
  BY <1>2, <1>3 DEF BackupsTypes
<1> QED BY <1>1, <1>2, <1>4, NotTakingType
  DEF BackupsInit, BackupsInv, Numbered, InPlace, Recorded, AProvedBackupStays, Restored

(***************************************************************************)
(* A take that goes on, or ends, and leaves the directory alone.           *)
(***************************************************************************)
LEMMA TakeGoesOn ==
    ASSUME BackupsInv, NEW t \in Taking, NEW take \in Take, taking' = [taking EXCEPT ![t] = take],
           UNCHANGED <<rows, begun, dumps, proved, outrun, skipped>>,
           \/ take.stage = "idle"
           \/ /\ taking[t].stage \in {"written", "counted"} /\ take.stage \in {"counted", "checked"}
              /\ take.dump = taking[t].dump /\ take.since = taking[t].since
    PROVE  BackupsInv'
<1> USE DEF BackupsInv, BackupsTypes
<1>1. BackupsTypes' /\ \A u \in Taking : taking'[u] = IF u = t THEN take ELSE taking[u]
  OBVIOUS
<1>2. \A u \in Taking : /\ taking'[u].stage # "idle" =>
                              taking[u].stage # "idle" /\ taking'[u].dump = taking[u].dump
                              /\ taking'[u].since = taking[u].since
  BY <1>1
<1>3. Numbered'
  BY <1>2 DEF Numbered
<1>4. InPlace' /\ Recorded'
  <2>1. InPlace'
    BY <1>1, <1>2 DEF InPlace, InDirectory
  <2>2. Recorded'
    BY <1>1, <1>2 DEF Recorded, InDirectory
  <2> QED BY <2>1, <2>2
<1>5. AProvedBackupStays'
  BY DEF AProvedBackupStays, Restored
<1> QED BY <1>1, <1>3, <1>4, <1>5

(***************************************************************************)
(* A step of one take that leaves the entries of the others as they are.   *)
(***************************************************************************)
LEMMA OthersAreRecorded ==
    ASSUME BackupsInv, NEW t \in Taking,
           \A u \in Taking \ {t} :
               /\ taking'[u] = taking[u]
               /\ taking[u].stage # "idle" /\ InDirectory(u)' =>
                     InDirectory(u) /\ dumps'[taking[u].dump] = dumps[taking[u].dump],
           InDirectory(t)' =>
               \/ taking'[t].stage = "idle"
               \/ taking'[t].stage # "recorded" /\ dumps'[taking'[t].dump] = "no manifest"
               \/ taking'[t].stage = "recorded" /\
                  (taking'[t].verify = TRUE => dumps'[taking'[t].dump] = "restored")
    PROVE  Recorded'
<1>1. ASSUME NEW u \in Taking, taking'[u].stage # "idle", InDirectory(u)'
      PROVE  /\ taking'[u].stage = "recorded" /\ taking'[u].verify = TRUE =>
                   dumps'[taking'[u].dump] = "restored"
             /\ taking'[u].stage # "recorded" => dumps'[taking'[u].dump] = "no manifest"
  <2>1. CASE u = t
    BY <1>1, <2>1
  <2>2. CASE u # t
    BY <1>1, <2>2 DEF BackupsInv, Recorded
  <2> QED BY <2>1, <2>2
<1> QED BY <1>1 DEF Recorded

LEMMA BackupsStep ==
    ASSUME BackupsInv, BackupsNext
    PROVE  BackupsInv'
<1> USE DEF BackupsInv, BackupsTypes
<1>1. ASSUME NEW table \in Table, NEW change \in {1, -1}, ChangeRows(table, change)
      PROVE  BackupsInv'
  <2>1. rows' \in Counts /\ UNCHANGED <<begun, taking, dumps, proved, outrun, skipped>>
    BY <1>1 DEF ChangeRows, Counts
  <2>2. InPlace' /\ Recorded'
    BY <2>1 DEF InPlace, Recorded, InDirectory
  <2> QED BY <2>1, <2>2 DEF Numbered, AProvedBackupStays, Restored
<1>2. ASSUME NEW t \in Taking, NEW verify \in BOOLEAN, Dump(t, verify) PROVE BackupsInv'
  <2>1. /\ begun' = begun + 1 /\ UNCHANGED <<rows, dumps, proved, outrun, skipped>>
        /\ taking[t].stage = "idle"
    BY <1>2 DEF Dump, TakeAt
  <2>2. /\ taking'[t] \in Take /\ taking'[t].stage = "dumped" /\ taking'[t].dump = begun + 1
        /\ taking'[t].since = 0
    <3>1. taking'[t] = [NotTaking EXCEPT !.stage = "dumped", !.verify = verify,
                                         !.dump = begun + 1, !.body = rows]
      BY <1>2 DEF Dump
    <3>2. taking'[t] = [stage |-> "dumped", verify |-> verify, dump |-> begun + 1, body |-> rows,
                        counts |-> None, since |-> 0]
      BY <3>1 DEF NotTaking
    <3>3. begun + 1 \in Nat /\ rows \in Counts
      OBVIOUS
    <3> QED BY <3>2, <3>3 DEF Take, TakeStage
  <2>3. ASSUME NEW u \in Taking \ {t}
        PROVE  /\ taking'[u] \in Take
               /\ taking'[u].stage = taking[u].stage
               /\ taking[u].stage # "idle" =>
                     /\ taking'[u].dump = taking[u].dump /\ taking'[u].since = taking[u].since + 1
                     /\ taking'[u].verify = taking[u].verify
    <3>1. CASE taking[u].stage = "idle"
      BY <1>2, <3>1, NotTakingType DEF Dump, TakeAt
    <3>2. CASE taking[u].stage # "idle"
      BY <1>2, <3>2 DEF Dump, TakeAt, Take
    <3> QED BY <3>1, <3>2
  <2>4. taking' \in [Taking -> Take]
    BY <1>2, <2>2, <2>3 DEF Dump
  <2>5. BackupsTypes'
    BY <2>1, <2>4
  <2>6. Numbered'
    BY <2>1, <2>2, <2>3 DEF Numbered
  <2>7. InPlace' /\ Recorded'
    <3>1. ~InDirectory(t)'
      BY <2>1, <2>2 DEF InDirectory
    <3>2. ASSUME NEW u \in Taking \ {t}, taking[u].stage # "idle"
          PROVE  /\ InDirectory(u)' = InDirectory(u) /\ taking'[u].dump = taking[u].dump
                 /\ taking[u].dump \in Int
                 /\ begun - taking[u].dump >= Keep => begun' - taking'[u].dump >= Keep
      BY <2>1, <2>3, <3>2, KeepAssumption DEF InDirectory, Numbered
    <3>3. InPlace'
      BY <2>2, <2>3, <3>1, <3>2 DEF InPlace
    <3>4. Recorded'
      <4>1. ASSUME NEW u \in Taking, taking'[u].stage # "idle", InDirectory(u)'
            PROVE  /\ taking'[u].stage = "recorded" /\ taking'[u].verify = TRUE =>
                         dumps'[taking'[u].dump] = "restored"
                   /\ taking'[u].stage # "recorded" => dumps'[taking'[u].dump] = "no manifest"
        <5>1. u # t
          BY <3>1, <4>1
        <5>2. taking[u].stage = taking'[u].stage /\ taking[u].verify = taking'[u].verify
              /\ InDirectory(u)
          BY <2>3, <3>2, <4>1, <5>1
        <5>3. dumps'[taking'[u].dump] = dumps[taking[u].dump]
          BY <2>1, <3>2, <4>1, <5>1, <5>2
        <5> QED BY <4>1, <5>2, <5>3 DEF Recorded
      <4> QED BY <4>1 DEF Recorded
    <3> QED BY <3>3, <3>4
  <2>8. AProvedBackupStays'
    BY <2>1 DEF AProvedBackupStays, Restored
  <2> QED BY <2>5, <2>6, <2>7, <2>8
<1>3. ASSUME NEW t \in Taking, NEW next \in TakeStage \ {"idle"}, TakeGoes(t, next),
             taking[t].stage # "idle", UNCHANGED begun
      PROVE  /\ taking' \in [Taking -> Take] /\ Numbered'
             /\ \A u \in Taking \ {t} : taking'[u] = taking[u]
             /\ taking'[t].stage = next /\ taking'[t].dump = taking[t].dump
             /\ taking'[t].verify = taking[t].verify
  <2>1. [taking[t] EXCEPT !.stage = next] \in Take
    BY DEF Take
  <2>2. /\ taking' \in [Taking -> Take]
        /\ \A u \in Taking \ {t} : taking'[u] = taking[u]
        /\ taking'[t] = [taking[t] EXCEPT !.stage = next]
    BY <1>3, <2>1 DEF TakeGoes
  <2>3. /\ taking'[t].stage = next /\ taking'[t].verify = taking[t].verify
        /\ taking'[t].dump = taking[t].dump /\ taking'[t].since = taking[t].since
    BY <2>2 DEF Take
  <2>4. \A u \in Taking : /\ taking'[u].stage # "idle" => taking[u].stage # "idle"
                           /\ taking'[u].dump = taking[u].dump /\ taking'[u].since = taking[u].since
    BY <1>3, <2>2, <2>3
  <2>5. Numbered'
    BY <1>3, <2>4 DEF Numbered
  <2> QED BY <2>2, <2>3, <2>5
<1>4. ASSUME NEW t \in Taking, WriteDump(t) PROVE BackupsInv'
  <2> DEFINE mine == taking[t].dump
  <2>1. /\ taking[t].stage = "dumped" /\ TakeGoes(t, "written")
        /\ UNCHANGED <<rows, begun, proved, outrun, skipped>>
        /\ mine \in 1 .. begun /\ mine \notin DOMAIN dumps
        /\ \A u \in Taking \ {t} : taking[u].stage # "idle" => taking[u].dump # mine
    BY <1>4 DEF WriteDump, TakeAt, Numbered, InPlace, InDirectory
  <2>2. /\ taking' \in [Taking -> Take] /\ Numbered'
        /\ \A u \in Taking \ {t} : taking'[u] = taking[u]
        /\ taking'[t].stage = "written" /\ taking'[t].dump = mine
    BY <1>3, <2>1 DEF TakeStage
  <2>3. /\ DOMAIN dumps' = DOMAIN dumps \cup {mine}
        /\ dumps'[mine] = "no manifest"
        /\ \A d \in DOMAIN dumps : dumps'[d] = dumps[d]
    BY <1>4, <2>1 DEF WriteDump
  <2>4. BackupsTypes'
    BY <2>1, <2>2, <2>3 DEF Entry
  <2>5. InPlace' /\ Recorded'
    <3>1. InPlace'
      BY <2>1, <2>2, <2>3 DEF InPlace, InDirectory
    <3>2. \A u \in Taking \ {t} : taking[u].stage # "idle" /\ InDirectory(u)' =>
             InDirectory(u) /\ dumps'[taking[u].dump] = dumps[taking[u].dump]
      BY <2>1, <2>2, <2>3 DEF InDirectory
    <3>3. Recorded'
      BY <2>2, <2>3, <3>2, OthersAreRecorded
    <3> QED BY <3>1, <3>3
  <2>6. AProvedBackupStays'
    BY <2>1, <2>3 DEF AProvedBackupStays, Restored
  <2> QED BY <2>2, <2>4, <2>5, <2>6
<1>5. ASSUME NEW t \in Taking, CountRows(t) PROVE BackupsInv'
  <2> DEFINE arrives == IF taking[t].verify THEN "counted" ELSE "checked"
             take == [taking[t] EXCEPT !.stage = arrives, !.counts = rows]
  <2>1. arrives \in {"counted", "checked"}
    OBVIOUS
  <2> HIDE DEF arrives
  <2>2. /\ take \in Take /\ take.stage = arrives
        /\ take.dump = taking[t].dump /\ take.since = taking[t].since
    BY <2>1 DEF Take, TakeStage
  <2>3. taking' = [taking EXCEPT ![t] = take]
    BY <1>5 DEF CountRows, arrives
  <2> HIDE DEF take
  <2> QED BY <1>5, <2>1, <2>2, <2>3, TakeGoesOn DEF CountRows, TakeAt
<1>6. ASSUME NEW t \in Taking, CheckDump(t) PROVE BackupsInv'
  <2>1. CASE TakeGoes(t, "checked")
    <3> DEFINE take == [taking[t] EXCEPT !.stage = "checked"]
    <3>1. /\ take \in Take /\ take.stage = "checked"
          /\ take.dump = taking[t].dump /\ take.since = taking[t].since
          /\ taking' = [taking EXCEPT ![t] = take]
      BY <2>1 DEF TakeGoes, Take, TakeStage
    <3> HIDE DEF take
    <3> QED BY <1>6, <3>1, TakeGoesOn DEF CheckDump, TakeAt
  <2>2. CASE taking' = [taking EXCEPT ![t] = NotTaking]
    BY <1>6, <2>2, NotTakingType, TakeGoesOn DEF CheckDump
  <2> QED BY <1>6, <2>1, <2>2 DEF CheckDump
<1>7. ASSUME NEW t \in Taking, WriteManifest(t) PROVE BackupsInv'
  <2> DEFINE mine == taking[t].dump
             entry == IF taking[t].verify THEN "restored" ELSE "not restored"
  <2>1. /\ taking[t].stage = "checked" /\ TakeGoes(t, "recorded")
        /\ UNCHANGED <<rows, begun, outrun, skipped>>
        /\ mine \in 1 .. begun
        /\ \A u \in Taking \ {t} : taking[u].stage # "idle" => taking[u].dump # mine
    BY <1>7 DEF WriteManifest, TakeAt, Numbered
  <2>2. /\ taking' \in [Taking -> Take] /\ Numbered'
        /\ \A u \in Taking \ {t} : taking'[u] = taking[u]
        /\ taking'[t].stage = "recorded" /\ taking'[t].dump = mine
        /\ taking'[t].verify = taking[t].verify
    BY <1>3, <2>1 DEF TakeStage
  <2>3. CASE mine \notin DOMAIN dumps
    <3>1. UNCHANGED <<dumps, proved>>
      BY <1>7, <2>3 DEF WriteManifest, InDirectory
    <3>2. InPlace' /\ Recorded'
      <4>1. InPlace'
        BY <2>1, <2>2, <2>3, <3>1 DEF InPlace, InDirectory
      <4>2. Recorded'
        BY <2>1, <2>2, <2>3, <3>1 DEF Recorded, InDirectory
      <4> QED BY <4>1, <4>2
    <3>3. AProvedBackupStays'
      BY <2>1, <3>1 DEF AProvedBackupStays, Restored
    <3> QED BY <2>1, <2>2, <3>1, <3>2, <3>3
  <2>4. CASE mine \in DOMAIN dumps
    <3>1. /\ dumps' = [dumps EXCEPT ![mine] = entry]
          /\ proved' = (proved \/ taking[t].verify)
      BY <1>7, <2>4 DEF WriteManifest, InDirectory
    <3>2. /\ DOMAIN dumps' = DOMAIN dumps
          /\ \A d \in DOMAIN dumps \ {mine} : dumps'[d] = dumps[d]
          /\ dumps'[mine] = entry /\ entry \in Entry
          /\ taking[t].verify => entry = "restored"
      BY <2>4, <3>1 DEF Entry
    <3> HIDE DEF entry
    <3>3. InPlace' /\ Recorded'
      <4>1. InPlace'
        BY <2>1, <2>2, <2>4, <3>2 DEF InPlace, InDirectory
      <4>2. \A u \in Taking \ {t} : taking[u].stage # "idle" /\ InDirectory(u)' =>
               InDirectory(u) /\ dumps'[taking[u].dump] = dumps[taking[u].dump]
        BY <2>1, <2>2, <3>2 DEF InDirectory
      <4>3. Recorded'
        BY <2>2, <3>2, <4>2, OthersAreRecorded
      <4> QED BY <4>1, <4>3
    <3>4. AProvedBackupStays'
      <4>1. CASE taking[t].verify
        BY <2>4, <3>2, <4>1 DEF AProvedBackupStays, Restored
      <4>2. CASE ~taking[t].verify
        <5>1. dumps[mine] = "no manifest"
          BY <2>1, <2>4 DEF Recorded, InDirectory
        <5> QED BY <2>1, <3>1, <3>2, <4>2, <5>1 DEF AProvedBackupStays, Restored
      <4> QED BY <4>1, <4>2
    <3> QED BY <2>1, <2>2, <3>2, <3>3, <3>4
  <2> QED BY <2>3, <2>4
<1>8. ASSUME NEW t \in Taking, Prune(t) PROVE BackupsInv'
  <2> DEFINE mine == taking[t].dump
  <2>1. /\ taking[t].stage = "recorded" /\ UNCHANGED <<rows, begun, proved>>
        /\ taking' \in [Taking -> Take] /\ taking'[t].stage = "idle"
        /\ \A u \in Taking \ {t} : taking'[u] = taking[u]
    BY <1>8, NotTakingType DEF Prune, TakeAt
  <2>2. /\ DOMAIN dumps' = Newest(Keep) /\ Newest(Keep) \subseteq DOMAIN dumps
        /\ \A d \in Newest(Keep) : dumps'[d] = dumps[d]
    BY <1>8 DEF Prune, Newest
  <2>3. BackupsTypes' /\ Numbered'
    BY <2>1, <2>2 DEF Numbered
  <2>4. ASSUME NEW d \in DOMAIN dumps, begun - d < Keep
        PROVE  d \in Newest(Keep)
    <3>1. d \in 1 .. begun /\ Keep \in Nat
      BY KeepAssumption
    <3>2. PICK n \in Nat : n = Cardinality({e \in DOMAIN dumps : e > d}) /\ n <= begun - d
      BY <3>1, NewerAreFew
    <3>3. n < Keep
      BY <2>4, <3>1, <3>2
    <3> QED BY <3>2, <3>3 DEF Newest
  <2>5. ASSUME NEW u \in Taking \ {t}, taking[u].stage \notin {"idle", "dumped"},
               taking[u].dump \notin Newest(Keep)
        PROVE  begun - taking[u].dump >= Keep
    <3>1. taking[u].dump \in Int /\ begun \in Int /\ Keep \in Int
      BY <2>5, KeepAssumption DEF Numbered
    <3>2. CASE taking[u].dump \in DOMAIN dumps
      BY <2>4, <2>5, <3>1, <3>2
    <3>3. CASE taking[u].dump \notin DOMAIN dumps
      BY <2>5, <3>3 DEF InPlace, InDirectory
    <3> QED BY <3>2, <3>3
  <2>6. InPlace' /\ Recorded'
    <3>1. \A u \in Taking \ {t} : InDirectory(u)' <=> taking[u].dump \in Newest(Keep)
      BY <2>1, <2>2 DEF InDirectory
    <3>2. InPlace'
      <4>1. \A u \in Taking \ {t} : taking[u].stage = "dumped" => ~InDirectory(u)'
        BY <2>2, <3>1 DEF InPlace, InDirectory
      <4> QED BY <2>1, <2>5, <3>1, <4>1 DEF InPlace
    <3>3. Recorded'
      <4>1. \A u \in Taking \ {t} : InDirectory(u)' =>
               InDirectory(u) /\ dumps'[taking[u].dump] = dumps[taking[u].dump]
        BY <2>2, <3>1 DEF InDirectory
      <4> QED BY <2>1, <4>1, OthersAreRecorded
    <3> QED BY <3>2, <3>3
  <2>7. ASSUME ~outrun', ~skipped' PROVE mine \in Restored'
    <3>1. begun - mine < Keep /\ mine \in Int /\ begun \in Int /\ Keep \in Int
      <4>1. ~(taking[t].since >= Keep)
        BY <1>8, <2>7 DEF Prune
      <4>2. taking[t].since = begun - mine /\ mine \in 1 .. begun
        BY <2>1 DEF Numbered
      <4> QED BY <4>1, <4>2, KeepAssumption
    <3>2. mine \in DOMAIN dumps
      BY <2>1, <3>1 DEF InPlace, InDirectory
    <3>3. mine \in Newest(Keep)
      BY <2>4, <3>1, <3>2
    <3>4. taking[t].verify
      BY <1>8, <2>7 DEF Prune
    <3> QED BY <2>1, <2>2, <3>2, <3>3, <3>4 DEF Recorded, InDirectory, Restored
  <2>8. AProvedBackupStays'
    BY <2>7 DEF AProvedBackupStays
  <2> QED BY <2>3, <2>6, <2>8
<1>9. ASSUME NEW t \in Taking, StopTaking(t) PROVE BackupsInv'
  BY <1>9, NotTakingType, TakeGoesOn DEF StopTaking
<1> QED BY <1>1, <1>2, <1>4, <1>5, <1>6, <1>7, <1>8, <1>9 DEF BackupsNext

(***************************************************************************)
(* ops/backup.py: for any tables, takers and number of dumps that are      *)
(* kept, wherever takes overlap and stop, once a backup was restored as a  *)
(* check there is one that was, unless a take that was outrun, or one with *)
(* --no-verify, has pruned.                                                *)
(***************************************************************************)
THEOREM BackupsStay == BackupsSpec => []AProvedBackupStays
<1>1. BackupsInv /\ UNCHANGED backupsVars => BackupsInv'
  <2> SUFFICES ASSUME BackupsInv, UNCHANGED backupsVars PROVE BackupsInv'
    OBVIOUS
  <2> USE DEF BackupsInv, backupsVars
  <2>1. BackupsTypes' /\ Numbered'
    BY DEF BackupsTypes, Numbered
  <2>2. InPlace' /\ Recorded'
    BY DEF InPlace, Recorded, InDirectory
  <2>3. AProvedBackupStays'
    BY DEF AProvedBackupStays, Restored
  <2> QED BY <2>1, <2>2, <2>3
<1>2. BackupsInv /\ BackupsNext => BackupsInv'
  BY BackupsStep
<1>3. BackupsInv => AProvedBackupStays
  BY DEF BackupsInv
<1> QED BY BackupsInvInit, <1>1, <1>2, <1>3, PTL DEF BackupsSpec

-----------------------------------------------------------------------------
(* Pages of a list.                                                         *)

\* How many of the list come before a row.
Rank(list, r) == Cardinality({s \in list : Ahead(s, r)})

LEMMA AheadOrders ==
    ASSUME NEW r \in Nat, NEW s \in Nat, NEW t \in Nat
    PROVE  /\ ~Ahead(r, r)
           /\ Ahead(r, s) /\ Ahead(s, t) => Ahead(r, t)
           /\ r = s \/ Ahead(r, s) \/ Ahead(s, r)
           /\ ~(Ahead(r, s) /\ Ahead(s, r))
BY DEF Ahead

LEMMA RankBelow ==
    ASSUME NEW list \in SUBSET Nat, IsFiniteSet(list), NEW r \in list
    PROVE  Rank(list, r) \in 0 .. Cardinality(list) - 1
<1> DEFINE before == {s \in list : Ahead(s, r)}
<1>1. before \in SUBSET list /\ r \notin before
  BY AheadOrders
<1>2. IsFiniteSet(before) /\ Cardinality(before) <= Cardinality(list) /\ before # list
  BY <1>1, FS_Subset
<1>3. Cardinality(before) # Cardinality(list)
  BY <1>1, <1>2, FS_Subset
<1>4. Cardinality(before) \in Nat /\ Cardinality(list) \in Nat
  BY <1>2, FS_CardinalityType
<1> QED
  BY <1>2, <1>3, <1>4 DEF Rank

LEMMA RankOrders ==
    ASSUME NEW list \in SUBSET Nat, IsFiniteSet(list), NEW r \in list, NEW s \in list, Ahead(r, s)
    PROVE  Rank(list, r) < Rank(list, s)
<1> DEFINE less == {x \in list : Ahead(x, r)}
           more == {x \in list : Ahead(x, s)}
<1>1. less \cup {r} \in SUBSET more /\ r \notin less
  BY AheadOrders
<1>2. IsFiniteSet(less) /\ IsFiniteSet(more)
  <2>1. less \in SUBSET list /\ more \in SUBSET list
    OBVIOUS
  <2> QED
    BY <2>1, FS_Subset
<1>3. Cardinality(less) \in Nat /\ Cardinality(more) \in Nat
  BY <1>2, FS_CardinalityType
<1>4. Cardinality(less \cup {r}) = Cardinality(less) + 1
  BY <1>1, <1>2, FS_AddElement
<1>5. Cardinality(less \cup {r}) <= Cardinality(more)
  BY <1>1, <1>2, FS_Subset
<1> QED
  BY <1>3, <1>4, <1>5 DEF Rank

LEMMA RankReaches ==
    ASSUME NEW list \in SUBSET Nat, IsFiniteSet(list)
    PROVE  [r \in list |-> Rank(list, r)] \in Bijection(list, 0 .. Cardinality(list) - 1)
<1> DEFINE place == [r \in list |-> Rank(list, r)]
           places == 0 .. Cardinality(list) - 1
<1>1. Cardinality(list) \in Nat
  BY FS_CardinalityType
<1>2. \A r \in list : Rank(list, r) \in places
  BY RankBelow
<1>3. ASSUME NEW r \in list, NEW s \in list, Rank(list, r) = Rank(list, s) PROVE r = s
  <2>1. ~Ahead(r, s) /\ ~Ahead(s, r)
    BY <1>1, <1>2, <1>3, RankOrders
  <2> QED
    BY <2>1, AheadOrders
<1>4. place \in Injection(list, places)
  BY <1>2, <1>3 DEF Injection, IsInjective
<1>5. IsFiniteSet(places) /\ Cardinality(places) = Cardinality(list)
  <2> DEFINE last == Cardinality(list) - 1
  <2>1. 0 \in Int /\ last \in Int /\ ~(0 > last + 1)
    BY <1>1
  <2>2. IsFiniteSet(0 .. last) /\ Cardinality(0 .. last) = IF 0 > last THEN 0 ELSE last - 0 + 1
    BY <2>1, FS_Interval
  <2> QED
    BY <1>1, <2>2
<1>6. place \in Surjection(list, places)
  <2> HIDE DEF place, places
  <2> QED
    BY <1>4, <1>5, FS_Injection
<1> QED
  BY <1>4, <1>6 DEF Bijection

LEMMA ForemostIsFinite ==
    ASSUME NEW list \in SUBSET Nat, IsFiniteSet(list), NEW n \in Nat
    PROVE  /\ Foremost(n, list) \in SUBSET list
           /\ IsFiniteSet(Foremost(n, list))
           /\ \A r \in list : r \in Foremost(n, list) <=> Rank(list, r) < n
<1>1. Foremost(n, list) \in SUBSET list
  BY DEF Foremost
<1> QED
  BY <1>1, FS_Subset DEF Foremost, Rank

LEMMA ForemostCount ==
    ASSUME NEW list \in SUBSET Nat, IsFiniteSet(list), NEW n \in Nat
    PROVE  /\ n <= Cardinality(list) => Cardinality(Foremost(n, list)) = n
           /\ n >= Cardinality(list) => Foremost(n, list) = list
<1> DEFINE first == Foremost(n, list)
           place == [r \in first |-> Rank(list, r)]
           places == 0 .. n - 1
<1>1. Cardinality(list) \in Nat
  BY FS_CardinalityType
<1>0. /\ first \in SUBSET list /\ IsFiniteSet(first)
      /\ \A r \in list : (r \in first <=> Rank(list, r) < n) /\ Rank(list, r) \in 0 .. Cardinality(list) - 1
  BY ForemostIsFinite, RankBelow
<1> HIDE DEF first
<1>2. ASSUME n <= Cardinality(list) PROVE Cardinality(first) = n
  <2>1. \A r \in first : Rank(list, r) \in places
    BY <1>0, <1>1
  <2>2. \A r, s \in first : Rank(list, r) = Rank(list, s) => r = s
    BY <1>0, RankReaches DEF Bijection, Injection, IsInjective
  <2>3. \A k \in places : \E r \in first : Rank(list, r) = k
    <3>1. \A k \in 0 .. Cardinality(list) - 1 : \E r \in list : Rank(list, r) = k
      BY RankReaches DEF Bijection, Surjection
    <3> QED
      BY <1>0, <1>1, <1>2, <3>1
  <2>4. place \in Bijection(first, places)
    <3> HIDE DEF places
    <3> QED
      BY <2>1, <2>2, <2>3 DEF Bijection, Injection, Surjection, IsInjective
  <2>5. IsFiniteSet(first) /\ ExistsBijection(first, places)
    BY <1>0, <2>4 DEF ExistsBijection
  <2>6. Cardinality(places) = n
    BY FS_Interval
  <2> QED
    BY <2>5, <2>6, FS_Bijection
<1>3. ASSUME n >= Cardinality(list) PROVE first = list
  <2>1. ASSUME NEW r \in list PROVE r \in first
    <3>1. Rank(list, r) \in 0 .. Cardinality(list) - 1
      BY <1>0
    <3>2. Rank(list, r) < n
      BY <1>1, <1>3, <3>1
    <3> QED
      BY <1>0, <3>2
  <2> QED
    BY <1>0, <2>1
<1> QED
  BY <1>2, <1>3 DEF first

\* What comes before a row of the first page is on it.
LEMMA ForemostIsAhead ==
    ASSUME NEW list \in SUBSET Nat, IsFiniteSet(list), NEW n \in Nat,
           NEW r \in Foremost(n, list), NEW s \in list, Ahead(s, r)
    PROVE  s \in Foremost(n, list)
<1>1. r \in list /\ Rank(list, r) < n
  BY ForemostIsFinite
<1>2. Rank(list, s) < Rank(list, r)
  BY <1>1, RankOrders
<1>3. Rank(list, s) \in Int /\ Rank(list, r) \in Int
  BY <1>1, RankBelow, FS_CardinalityType
<1> QED
  BY <1>1, <1>2, <1>3, ForemostIsFinite

\* One row more is fetched than is shown: the page is the same.
LEMMA ForemostOfForemost ==
    ASSUME NEW list \in SUBSET Nat, IsFiniteSet(list), NEW n \in Nat, NEW m \in Nat, m <= n
    PROVE  Foremost(m, Foremost(n, list)) = Foremost(m, list)
<1> DEFINE first == Foremost(n, list)
<1>1. first \in SUBSET Nat /\ IsFiniteSet(first) /\ first \in SUBSET list
  BY ForemostIsFinite
<1>2. ASSUME NEW r \in first PROVE Rank(first, r) = Rank(list, r)
  <2>1. {s \in first : Ahead(s, r)} = {s \in list : Ahead(s, r)}
    BY <1>1, ForemostIsAhead
  <2> QED
    BY <2>1 DEF Rank
<1>3. ASSUME NEW r \in Foremost(m, list) PROVE r \in first
  <2>1. r \in list /\ Rank(list, r) < m
    BY ForemostIsFinite
  <2>2. Rank(list, r) \in Int
    BY <2>1, RankBelow, FS_CardinalityType
  <2> QED
    BY <2>1, <2>2, ForemostIsFinite
<1>4. \A r \in Foremost(m, first) : r \in first /\ Rank(first, r) < m
  BY <1>1, ForemostIsFinite
<1>5. \A r \in first : Rank(first, r) < m => r \in Foremost(m, first)
  BY <1>1, ForemostIsFinite
<1> HIDE DEF first
<1>6. \A r \in Foremost(m, list) : Rank(list, r) < m
  BY ForemostIsFinite
<1>7. \A r \in list : Rank(list, r) < m => r \in Foremost(m, list)
  BY ForemostIsFinite
<1> QED
  BY <1>1, <1>2, <1>3, <1>4, <1>5, <1>6, <1>7 DEF first

LEMMA HindmostIsLast ==
    ASSUME NEW list \in SUBSET Nat, IsFiniteSet(list), list # {}
    PROVE  /\ Hindmost(list) \in list
           /\ \A s \in list : s = Hindmost(list) \/ Ahead(s, Hindmost(list))
<1>1. Cardinality(list) \in Nat \ {0}
  BY FS_CardinalityType, FS_EmptySet
<1>2. PICK r \in list : Rank(list, r) = Cardinality(list) - 1
  <2>1. Cardinality(list) - 1 \in 0 .. Cardinality(list) - 1
    BY <1>1
  <2> QED
    BY <2>1, RankReaches DEF Bijection, Surjection
<1>3. ASSUME NEW s \in list PROVE ~Ahead(r, s)
  <2>1. Rank(list, s) <= Cardinality(list) - 1
    BY RankBelow
  <2>2. Rank(list, s) \in Int
    BY <1>1, RankBelow
  <2> QED
    BY <1>1, <1>2, <2>1, <2>2, RankOrders
<1>4. Hindmost(list) \in list /\ \A s \in list : ~Ahead(Hindmost(list), s)
  BY <1>3 DEF Hindmost
<1> QED
  BY <1>4, AheadOrders

\* Where a walk has come to.
Reached(r) == cursor # None /\ (r = cursor \/ Ahead(r, cursor))

Shown == {r \in RowId : shown[r] = 1}

PagingTypeOK ==
    /\ direction \in {"before", "after"} /\ inScope \subseteq RowId
    /\ cursor \in RowId \cup {None} /\ walking \in BOOLEAN
    /\ shown \in [RowId -> {0, 1}] /\ throughout \subseteq inScope /\ pages \in Nat

PagingInv ==
    /\ PagingTypeOK
    /\ walking => \A r \in Shown : Reached(r)
    /\ \A r \in throughout : ~walking \/ Reached(r) => r \in Shown
    /\ (IF walking THEN pages ELSE pages - 1) * Limit <= Cardinality(Shown)

\* What is left of the list, and its next page.
Rest == {r \in inScope : cursor = None \/ Ahead(cursor, r)}
Page == Foremost(Limit, Rest)

LEMMA PageIs ==
    ASSUME PagingTypeOK
    PROVE  /\ Rest \in SUBSET Nat /\ IsFiniteSet(Rest) /\ Rest \in SUBSET RowId
           /\ Page \in SUBSET Rest /\ IsFiniteSet(Page) /\ Page = Foremost(Limit, Fetched)
           /\ \/ NextCursor(Fetched) = None /\ Page = Rest
              \/ /\ NextCursor(Fetched) \in Page /\ Cardinality(Page) = Limit
                 /\ \A r \in Page : r = NextCursor(Fetched) \/ Ahead(r, NextCursor(Fetched))
                 /\ \A r \in Rest \ Page : Ahead(NextCursor(Fetched), r)
<1>1. Rest \in SUBSET RowId /\ Rest \in SUBSET Nat /\ IsFiniteSet(Rest)
  BY RowIdAssumption, FS_Subset DEF Rest, PagingTypeOK
<1>2. Limit \in Nat \ {0} /\ Limit + 1 \in Nat /\ Limit <= Limit + 1
  BY LimitAssumption
<1>3. Fetched = Foremost(Limit + 1, Rest)
  BY DEF Fetched, Rest
<1>4. Page \in SUBSET Rest /\ IsFiniteSet(Page)
  BY <1>1, <1>2, ForemostIsFinite DEF Page
<1>5. Page = Foremost(Limit, Fetched)
  BY <1>1, <1>2, <1>3, ForemostOfForemost DEF Page
<1>6. Cardinality(Rest) \in Nat
  BY <1>1, FS_CardinalityType
<1>7. CASE Cardinality(Rest) <= Limit
  <2>1. Fetched = Rest /\ Page = Rest
    BY <1>1, <1>2, <1>3, <1>6, <1>7, ForemostCount DEF Page
  <2> QED
    BY <1>1, <1>4, <1>5, <1>7, <2>1 DEF NextCursor
<1>8. CASE Cardinality(Rest) > Limit
  <2>1. Cardinality(Fetched) = Limit + 1 /\ Cardinality(Page) = Limit
    BY <1>1, <1>2, <1>3, <1>6, <1>8, ForemostCount DEF Page
  <2>2. NextCursor(Fetched) = Hindmost(Page)
    BY <1>2, <1>5, <2>1 DEF NextCursor
  <2>3. Page # {} /\ Page \in SUBSET Nat
    BY <1>1, <1>2, <1>4, <2>1, FS_EmptySet
  <2>4. /\ Hindmost(Page) \in Page
        /\ \A r \in Page : r = Hindmost(Page) \/ Ahead(r, Hindmost(Page))
    BY <1>4, <2>3, HindmostIsLast
  <2>5. ASSUME NEW r \in Rest \ Page PROVE Ahead(Hindmost(Page), r)
    <3>1. ~Ahead(r, Hindmost(Page))
      BY <1>1, <1>2, <2>4, ForemostIsAhead DEF Page
    <3> QED
      BY <1>1, <2>3, <2>4, <3>1, AheadOrders
  <2> QED
    BY <1>1, <1>4, <1>5, <2>1, <2>2, <2>4, <2>5
<1> QED
  BY <1>2, <1>6, <1>7, <1>8

LEMMA PagingInvInit == PagingInit => PagingInv
<1> SUFFICES ASSUME PagingInit PROVE PagingInv
  OBVIOUS
<1>1. Shown = {} /\ Cardinality(Shown) = 0
  BY FS_EmptySet DEF PagingInit, Shown
<1>2. PagingTypeOK
  BY DEF PagingInit, PagingTypeOK
<1> QED
  BY <1>1, <1>2, LimitAssumption DEF PagingInit, PagingInv, Reached

LEMMA AskPageStep ==
    ASSUME PagingInv, AskPage
    PROVE  PagingInv'
<1>1. PagingTypeOK /\ Limit \in Nat \ {0} /\ walking /\ None \notin RowId
  BY LimitAssumption, RowIdAssumption DEF PagingInv, AskPage
<1> DEFINE next == NextCursor(Fetched)
<1>2. /\ Rest \in SUBSET RowId /\ Rest \in SUBSET Nat /\ Page \in SUBSET Rest /\ IsFiniteSet(Page)
      /\ \/ next = None /\ Page = Rest
         \/ /\ next \in Page /\ Cardinality(Page) = Limit
            /\ \A r \in Page : r = next \/ Ahead(r, next)
            /\ \A r \in Rest \ Page : Ahead(next, r)
  BY <1>1, PageIs
<1>3. /\ cursor' = next /\ walking' = (next # None) /\ pages' = pages + 1
      /\ shown' = [r \in RowId |-> shown[r] + IF r \in Page THEN 1 ELSE 0]
      /\ direction' = direction /\ inScope' = inScope /\ throughout' = throughout
  BY <1>1, PageIs DEF AskPage
<1> HIDE DEF next
<1>4. Shown \cap Page = {} /\ Shown \in SUBSET RowId /\ IsFiniteSet(Shown)
  <2>1. ASSUME NEW r \in Shown \cap Page PROVE FALSE
    <3>1. Reached(r) /\ (cursor = None \/ Ahead(cursor, r)) /\ r \in Nat
      BY <1>1, <1>2 DEF PagingInv, Rest
    <3>2. cursor \in Nat
      BY <1>1, <3>1, RowIdAssumption DEF PagingTypeOK, Reached
    <3> QED
      BY <3>1, <3>2, AheadOrders DEF Reached
  <2> QED
    BY <2>1, RowIdAssumption, FS_Subset DEF Shown
<1>5. \A r \in RowId : shown'[r] = IF r \in Page THEN 1 ELSE shown[r]
  <2>1. ASSUME NEW r \in RowId PROVE shown'[r] = IF r \in Page THEN 1 ELSE shown[r]
    <3>1. shown[r] \in {0, 1} /\ (r \in Page => shown[r] # 1)
      BY <1>1, <1>4 DEF PagingTypeOK, Shown
    <3> QED
      BY <1>3, <3>1
  <2> QED
    BY <2>1
<1>6. PagingTypeOK'
  <2>1. shown' \in [RowId -> {0, 1}]
    BY <1>1, <1>3, <1>5 DEF PagingTypeOK
  <2>2. cursor' \in RowId \cup {None}
    BY <1>2, <1>3
  <2>3. walking' \in BOOLEAN
    BY <1>3
  <2> QED
    BY <1>1, <1>3, <2>1, <2>2, <2>3 DEF PagingTypeOK
<1>7. Shown' = Shown \cup Page
  <2>1. \A r \in RowId : shown'[r] = 1 <=> r \in Shown \/ r \in Page
    BY <1>5 DEF Shown
  <2>2. Shown' = {r \in RowId : shown'[r] = 1}
    BY DEF Shown
  <2> QED
    BY <1>2, <1>4, <2>1, <2>2
<1>8. walking' => next # None /\ cursor' = next
  BY <1>3
<1>9. \A r : Reached(r)' <=> next # None /\ (r = next \/ Ahead(r, next))
  BY <1>3 DEF Reached, Ahead
<1>10. ASSUME walking', NEW r \in Shown' PROVE Reached(r)'
  <2>1. next \in Page /\ \A s \in Page : s = next \/ Ahead(s, next)
    BY <1>2, <1>8, <1>10
  <2>2. CASE r \in Page
    BY <1>8, <1>9, <1>10, <2>1, <2>2
  <2>3. CASE r \in Shown
    <3>1. cursor # None /\ (r = cursor \/ Ahead(r, cursor)) /\ Ahead(cursor, next)
      BY <1>1, <1>2, <2>1, <2>3 DEF PagingInv, Reached, Rest
    <3>2. cursor \in Nat /\ next \in Nat /\ r \in Nat
      BY <1>1, <1>2, <1>4, <2>1, <2>3, <3>1, RowIdAssumption DEF PagingTypeOK
    <3>3. Ahead(r, next)
      BY <3>1, <3>2, AheadOrders
    <3> QED
      BY <1>8, <1>9, <1>10, <3>3
  <2> QED
    BY <1>7, <1>10, <2>2, <2>3
<1>11. ASSUME NEW r \in throughout', ~walking' \/ Reached(r)' PROVE r \in Shown'
  <2>1. r \in throughout /\ r \in inScope /\ r \in Nat
    BY <1>1, <1>3, RowIdAssumption DEF PagingTypeOK
  <2>2. CASE r \in Rest
    <3>1. CASE next = None
      BY <1>1, <1>2, <1>7, <2>2, <3>1
    <3>2. CASE next # None
      <4>1. r = next \/ Ahead(r, next)
        BY <1>3, <1>9, <1>11, <3>2
      <4>2. ~Ahead(next, r)
        BY <1>2, <2>1, <3>2, <4>1, AheadOrders
      <4> QED
        BY <1>2, <1>7, <2>2, <3>2, <4>2
    <3> QED
      BY <3>1, <3>2
  <2>3. CASE r \notin Rest
    <3>1. cursor # None /\ ~Ahead(cursor, r)
      BY <2>1, <2>3 DEF Rest
    <3>2. Reached(r)
      BY <1>1, <2>1, <3>1, AheadOrders, RowIdAssumption DEF Reached, PagingTypeOK
    <3> QED
      BY <1>1, <1>7, <2>1, <3>2 DEF PagingInv
  <2> QED
    BY <2>2, <2>3
<1>12. (IF walking' THEN pages' ELSE pages' - 1) * Limit <= Cardinality(Shown')
  <2>1. /\ Cardinality(Shown \cup Page) = Cardinality(Shown) + Cardinality(Page)
        /\ Cardinality(Shown) \in Nat /\ Cardinality(Page) \in Nat
    <3>1. Cardinality(Shown \cup Page)
            = Cardinality(Shown) + Cardinality(Page) - Cardinality(Shown \cap Page)
      BY <1>2, <1>4, FS_Union
    <3>2. Cardinality(Shown \cap Page) = 0
      BY <1>4, FS_EmptySet
    <3>3. Cardinality(Shown) \in Nat /\ Cardinality(Page) \in Nat
      BY <1>2, <1>4, FS_CardinalityType
    <3> QED
      BY <3>1, <3>2, <3>3
  <2>2. pages * Limit <= Cardinality(Shown) /\ pages \in Nat /\ pages' = pages + 1
    BY <1>1, <1>3 DEF PagingInv, PagingTypeOK
  <2>3. pages * Limit \in Nat /\ (pages + 1) * Limit = pages * Limit + Limit
    BY <1>1, <2>2
  <2>4. walking' => Cardinality(Page) = Limit
    BY <1>2, <1>8
  <2>5. CASE walking'
    BY <1>1, <1>7, <2>1, <2>2, <2>3, <2>4, <2>5
  <2>6. CASE ~walking'
    BY <1>7, <2>1, <2>2, <2>3, <2>6
  <2> QED
    BY <2>5, <2>6
<1> QED
  BY <1>6, <1>10, <1>11, <1>12 DEF PagingInv

LEMMA PagingStep == PagingInv /\ [PagingNext]_pagingVars => PagingInv'
<1> SUFFICES ASSUME PagingInv, [PagingNext]_pagingVars PROVE PagingInv'
  OBVIOUS
<1>1. CASE AskPage
  BY <1>1, AskPageStep
<1>2. ASSUME walking, NEW r \in RowId, Appear(r) \/ Vanish(r) PROVE PagingInv'
  <2>1. /\ direction' = direction /\ cursor' = cursor /\ walking' = walking
        /\ shown' = shown /\ pages' = pages /\ throughout' \subseteq throughout
        /\ throughout' \subseteq inScope' /\ inScope' \subseteq RowId
    BY <1>2 DEF Appear, Vanish, PagingInv, PagingTypeOK
  <2>2. Shown' = Shown /\ \A s : Reached(s)' <=> Reached(s)
    BY <2>1 DEF Shown, Reached, Ahead
  <2> QED
    BY <2>1, <2>2 DEF PagingInv, PagingTypeOK
<1>3. CASE UNCHANGED pagingVars
  BY <1>3 DEF pagingVars, PagingInv, PagingTypeOK, Shown, Reached, Ahead
<1> QED
  BY <1>1, <1>2, <1>3 DEF PagingNext

THEOREM WalksMeetEveryRow == PagingSpec => []WalkMeetsEveryRowOnce
<1>1. PagingInv => WalkMeetsEveryRowOnce
  <2> SUFFICES ASSUME PagingInv PROVE WalkMeetsEveryRowOnce
    OBVIOUS
  <2>1. \A r \in RowId : shown[r] <= 1
    BY DEF PagingInv, PagingTypeOK
  <2>2. ~walking => \A r \in throughout : shown[r] = 1
    BY DEF PagingInv, Shown
  <2>3. Cardinality(Shown) <= Cardinality(RowId)
        /\ Cardinality(Shown) \in Nat /\ Cardinality(RowId) \in Nat
    BY RowIdAssumption, FS_Subset, FS_CardinalityType DEF Shown
  <2>4. /\ pages \in Nat /\ Limit \in Nat
        /\ (IF walking THEN pages ELSE pages - 1) * Limit <= Cardinality(Shown)
    BY LimitAssumption DEF PagingInv, PagingTypeOK
  <2>5. pages * Limit \in Nat /\ (pages - 1) * Limit = pages * Limit - Limit
    BY <2>4
  <2>6. (pages - 1) * Limit <= Cardinality(RowId)
    BY <2>3, <2>4, <2>5
  <2> QED
    BY <2>1, <2>2, <2>6 DEF WalkMeetsEveryRowOnce
<1> QED
  BY <1>1, PagingInvInit, PagingStep, PTL DEF PagingSpec

-----------------------------------------------------------------------------
(* Imports and their count.                                                 *)

(***************************************************************************)
(* Imports: what is stored for a row is what its captured cells make, but  *)
(* for what a person checked and what was erased.                          *)
(***************************************************************************)
ImportedValue ==
    {None, "corrected"} \cup {row.age : row \in Cells} \cup {row.title : row \in Cells}
ImportedRow == [value : ImportedValue, status : {"not_recorded", "unverified", "verified"}]
Workbook == [SheetRow -> Cells \cup {None}]

ImportsTypeOK ==
    /\ sheet \in Workbook /\ workbooks \subseteq Workbook /\ capture \in Workbook
    /\ reading \in [stage : {"idle", "rows", "hash"}, rows : Workbook \cup {None},
                    hash : Workbook \cup {None}]
    /\ reading.stage # "idle" => reading.rows \in Workbook
    /\ reading.stage = "hash" => reading.hash \in Workbook
    /\ fieldRows \in [SheetRow -> [FieldColumn -> Seq(ImportedRow)]]
    /\ DOMAIN evaluation = SheetRow
    /\ gone \subseteq SheetRow /\ file \subseteq SheetRow
    /\ checked \subseteq SheetRow \X FieldColumn

\* The rows of one field: as imported, with what a person checked after it.
FieldIsAsImported(r, column) ==
    IF capture[r] = None
    THEN fieldRows[r][column] = <<>> /\ <<r, column>> \notin checked
    ELSE /\ fieldRows[r][column] # <<>>
         /\ fieldRows[r][column][1] = FieldValue(column, capture[r][column])
         /\ IF <<r, column>> \in checked
            THEN Last(fieldRows[r][column]).status = "verified"
            ELSE fieldRows[r][column] = <<FieldValue(column, capture[r][column])>>

EvaluationIsAsImported(r) ==
    evaluation[r] = IF capture[r] = None THEN None ELSE StoredEvaluation(capture[r])

ImportsInv ==
    /\ ImportsTypeOK
    /\ \A r \in SheetRow :
          /\ r \in file <=> capture[r] # None /\ r \notin gone
          /\ r \in gone => capture[r] # None
          /\ r \notin gone =>
                EvaluationIsAsImported(r) /\ \A column \in FieldColumn : FieldIsAsImported(r, column)

\* What an import makes of a cell is a row no person has checked yet.
LEMMA FieldValueIs ==
    ASSUME NEW cells \in Cells, NEW column \in FieldColumn
    PROVE  /\ FieldValue(column, cells[column]) \in ImportedRow
           /\ FieldValue(column, cells[column]).status # "verified"
           /\ FieldValue(column, cells[column]) = ExpectedField(column, cells[column])
<1>1. CASE column = "age"
  BY <1>1 DEF ImportedValue, FieldValue, ExpectedField, ImportedRow
<1>2. CASE column = "title"
  BY <1>2 DEF ImportedValue, FieldValue, ExpectedField, ImportedRow
<1> QED
  BY <1>1, <1>2 DEF FieldColumn

\* A row a person checked comes last, whatever stood there.
LEMMA CheckedComesLast ==
    ASSUME NEW stored \in Seq(ImportedRow), NEW row \in ImportedRow
    PROVE  /\ Append(stored, row) \in Seq(ImportedRow) /\ Append(stored, row) # <<>>
           /\ Last(Append(stored, row)) = row
           /\ stored # <<>> => Append(stored, row)[1] = stored[1] /\ Last(stored) \in ImportedRow
BY DEF Last

\* A row that was imported is not imported again, a row that was not is.
LEMMA ImportedOnce ==
    ASSUME NEW stored \in Seq(ImportedRow), NEW new \in ImportedRow
    PROVE  /\ WithImported(stored, new) \in Seq(ImportedRow)
           /\ stored = <<>> => WithImported(stored, new) = <<new>>
           /\ stored # <<>> /\ stored[1].status # "verified" => WithImported(stored, new) = stored
<1>1. stored # <<>> => 1 \in DOMAIN stored
  OBVIOUS
<1>2. stored = <<>> => DOMAIN stored = {} /\ Append(stored, new) = <<new>>
  OBVIOUS
<1> QED
  BY <1>1, <1>2 DEF WithImported

LEMMA ImportsInvInit == ImportsInit => ImportsInv
<1> SUFFICES ASSUME ImportsInit PROVE ImportsInv
  OBVIOUS
<1>1. /\ reading.stage = "idle" /\ reading.rows = None /\ reading.hash = None
      /\ reading = [stage |-> "idle", rows |-> None, hash |-> None]
  BY DEF ImportsInit, NotReading
<1>2. reading \in [stage : {"idle", "rows", "hash"}, rows : Workbook \cup {None},
                   hash : Workbook \cup {None}]
  BY <1>1
<1>3. ImportsTypeOK
  BY <1>1, <1>2 DEF ImportsInit, ImportsTypeOK, Workbook
<1> QED
  BY <1>3 DEF ImportsInit, ImportsInv, FieldIsAsImported, EvaluationIsAsImported

\* Saving the workbook leaves a workbook.
LEMMA SavedIsAWorkbook ==
    ASSUME ImportsTypeOK, NEW r \in SheetRow, NEW cells \in Cells,
           EditSheet(r, cells) \/ InsertRow(r, cells)
    PROVE  sheet' \in Workbook
<1>1. CASE EditSheet(r, cells)
  BY <1>1 DEF EditSheet, ImportsTypeOK, Workbook
<1>2. CASE InsertRow(r, cells)
  <2>1. ASSUME NEW row \in SheetRow, r < row PROVE row - 1 \in SheetRow
    <3>1. r \in Int /\ row \in Int /\ r .. row \subseteq SheetRow
      BY SheetRowAssumption
    <3> QED
      BY <2>1, <3>1
  <2>2. \A row \in SheetRow : row \in Int
    BY SheetRowAssumption
  <2>3. ASSUME NEW row \in SheetRow
        PROVE  (IF row < r THEN sheet[row] ELSE IF row = r THEN cells ELSE sheet[row - 1])
                  \in Cells \cup {None}
    BY <2>1, <2>2 DEF ImportsTypeOK, Workbook
  <2> QED
    BY <1>2, <2>3 DEF InsertRow, Workbook
<1> QED
  BY <1>1, <1>2

LEMMA ImportStep ==
    ASSUME ImportsInv, ImportWorkbook
    PROVE  ImportsInv'
<1> DEFINE taken == {r \in Filled(reading.rows) : Takes(r)}
<1>1. CASE reading.hash # sheet
  <2>1. reading' = [stage |-> "idle", rows |-> None, hash |-> None]
    BY DEF ImportWorkbook, NotReading
  <2>2. /\ UNCHANGED <<sheet, workbooks, capture, file, fieldRows, evaluation, gone, checked>>
    BY <1>1 DEF ImportWorkbook
  <2>3. /\ reading' \in [stage : {"idle", "rows", "hash"}, rows : Workbook \cup {None},
                         hash : Workbook \cup {None}]
        /\ reading'.stage = "idle"
    BY <2>1
  <2>4. ImportsTypeOK'
    BY <2>2, <2>3 DEF ImportsInv, ImportsTypeOK, Workbook
  <2> QED
    BY <2>2, <2>4 DEF ImportsInv, FieldIsAsImported, EvaluationIsAsImported
<1>2. CASE reading.hash = sheet
  <2>1. /\ reading' = [stage |-> "idle", rows |-> None, hash |-> None]
        /\ workbooks' = workbooks \cup {reading.hash}
        /\ file' = file \cup {r \in taken : capture[r] = None}
        /\ capture' = [r \in SheetRow |-> IF r \in taken THEN reading.rows[r] ELSE capture[r]]
        /\ fieldRows' = [r \in SheetRow |->
                            IF r \in taken
                            THEN [column \in FieldColumn |-> InsertField(r, column)]
                            ELSE fieldRows[r]]
        /\ evaluation' = [r \in SheetRow |->
                             IF r \in taken /\ evaluation[r] = None
                             THEN StoredEvaluation(reading.rows[r]) ELSE evaluation[r]]
        /\ sheet' = sheet /\ gone' = gone /\ checked' = checked
        /\ reading.stage = "hash"
    BY <1>2 DEF ImportWorkbook, NotReading
  <2>2. reading.rows \in Workbook /\ reading.hash \in Workbook
    BY <2>1 DEF ImportsInv, ImportsTypeOK
  <2>3. \A r \in taken :
          /\ r \in SheetRow /\ reading.rows[r] \in Cells /\ reading.rows[r] # None
          /\ capture[r] # None => capture[r] = reading.rows[r]
    BY <2>2, CellsAssumption DEF Filled, Takes, Workbook
  <2> HIDE DEF taken
  <2>4. ASSUME NEW r \in SheetRow, NEW column \in FieldColumn
        PROVE  /\ fieldRows[r][column] \in Seq(ImportedRow)
               /\ r \in taken => /\ fieldRows'[r][column] = InsertField(r, column)
                                 /\ InsertField(r, column) \in Seq(ImportedRow)
               /\ r \notin taken => fieldRows'[r][column] = fieldRows[r][column]
    <3>1. fieldRows[r][column] \in Seq(ImportedRow)
      BY DEF ImportsInv, ImportsTypeOK
    <3>2. r \in taken => FieldValue(column, reading.rows[r][column]) \in ImportedRow
      BY <2>3, FieldValueIs
    <3> QED
      BY <2>1, <3>1, <3>2, ImportedOnce DEF InsertField
  <2>5. ImportsTypeOK'
    <3>1. /\ reading' \in [stage : {"idle", "rows", "hash"}, rows : Workbook \cup {None},
                           hash : Workbook \cup {None}]
          /\ reading'.stage = "idle"
      BY <2>1
    <3>2. capture' \in Workbook
      BY <2>1, <2>3 DEF ImportsInv, ImportsTypeOK, Workbook
    <3>3. \A r \in SheetRow : fieldRows'[r] \in [FieldColumn -> Seq(ImportedRow)]
      <4> SUFFICES ASSUME NEW r \in SheetRow
                   PROVE  fieldRows'[r] \in [FieldColumn -> Seq(ImportedRow)]
        OBVIOUS
      <4>1. CASE r \in taken
        <5>1. fieldRows'[r] = [column \in FieldColumn |-> InsertField(r, column)]
          BY <2>1, <4>1
        <5> QED
          BY <2>4, <4>1, <5>1
      <4>2. CASE r \notin taken
        BY <2>1, <4>2 DEF ImportsInv, ImportsTypeOK
      <4> QED
        BY <4>1, <4>2
    <3>4. fieldRows' \in [SheetRow -> [FieldColumn -> Seq(ImportedRow)]]
      BY <2>1, <3>3
    <3>5. DOMAIN evaluation' = SheetRow
      BY <2>1
    <3>6. sheet' \in Workbook /\ workbooks' \subseteq Workbook
      BY <2>1, <2>2 DEF ImportsInv, ImportsTypeOK
    <3>7. gone' \subseteq SheetRow /\ file' \subseteq SheetRow /\ checked' \subseteq SheetRow \X FieldColumn
      BY <2>1, <2>3 DEF ImportsInv, ImportsTypeOK
    <3> QED
      BY <3>1, <3>2, <3>4, <3>5, <3>6, <3>7 DEF ImportsTypeOK, Workbook
  <2>6. ASSUME NEW r \in SheetRow
        PROVE  /\ r \in file' <=> capture'[r] # None /\ r \notin gone'
               /\ r \in gone' => capture'[r] # None
    <3>1. CASE r \in taken
      BY <2>1, <2>3, <3>1 DEF ImportsInv
    <3>2. CASE r \notin taken
      BY <2>1, <3>2 DEF ImportsInv
    <3> QED
      BY <3>1, <3>2
  <2>7. ASSUME NEW r \in SheetRow, r \notin gone'
        PROVE  EvaluationIsAsImported(r)'
    <3>1. evaluation[r] = IF capture[r] = None THEN None ELSE StoredEvaluation(capture[r])
      BY <2>1, <2>7 DEF ImportsInv, EvaluationIsAsImported
    <3>2. CASE r \in taken
      <4>1. capture'[r] = reading.rows[r] /\ capture'[r] # None
        BY <2>1, <2>3, <3>2
      <4>2. evaluation'[r] = StoredEvaluation(reading.rows[r])
        BY <2>1, <2>3, <3>1, <3>2
      <4> QED
        BY <4>1, <4>2 DEF EvaluationIsAsImported
    <3>3. CASE r \notin taken
      BY <2>1, <3>1, <3>3 DEF EvaluationIsAsImported
    <3> QED
      BY <3>2, <3>3
  <2>8. ASSUME NEW r \in SheetRow, r \notin gone', NEW column \in FieldColumn
        PROVE  FieldIsAsImported(r, column)'
    <3>1. FieldIsAsImported(r, column)
      BY <2>1, <2>8 DEF ImportsInv
    <3>2. CASE r \in taken
      <4> DEFINE new == FieldValue(column, reading.rows[r][column])
      <4>1. capture'[r] = reading.rows[r] /\ capture'[r] # None
        BY <2>1, <2>3, <3>2
      <4>2. new \in ImportedRow /\ new.status # "verified"
        BY <2>3, <3>2, FieldValueIs
      <4>3. fieldRows[r][column] \in Seq(ImportedRow)
            /\ fieldRows'[r][column] = WithImported(fieldRows[r][column], new)
        BY <2>4, <3>2 DEF InsertField
      <4>4. CASE capture[r] = None
        <5>1. fieldRows[r][column] = <<>> /\ <<r, column>> \notin checked
          BY <3>1, <4>4 DEF FieldIsAsImported
        <5> HIDE DEF new
        <5>2. fieldRows'[r][column] = <<new>>
          BY <4>2, <4>3, <5>1, ImportedOnce
        <5>3. <<new>> # <<>> /\ <<new>>[1] = new
          OBVIOUS
        <5> QED
          BY <2>1, <4>1, <5>1, <5>2, <5>3 DEF FieldIsAsImported, new
      <4>5. CASE capture[r] # None
        <5>1. capture[r] = reading.rows[r]
          BY <2>3, <3>2, <4>5
        <5>2. fieldRows[r][column] # <<>> /\ fieldRows[r][column][1] = new
          BY <3>1, <4>5, <5>1 DEF FieldIsAsImported
        <5> HIDE DEF new
        <5>3. fieldRows'[r][column] = fieldRows[r][column]
          BY <4>2, <4>3, <5>2, ImportedOnce
        <5> QED
          BY <2>1, <3>1, <4>1, <4>5, <5>1, <5>3 DEF FieldIsAsImported
      <4> QED
        BY <4>4, <4>5
    <3>3. CASE r \notin taken
      BY <2>1, <2>4, <3>1, <3>3 DEF FieldIsAsImported
    <3> QED
      BY <3>2, <3>3
  <2> QED
    BY <2>5, <2>6, <2>7, <2>8 DEF ImportsInv
<1> QED
  BY <1>1, <1>2

\* A check leaves the field with a row by a person, and the field marked.
LEMMA CheckStep ==
    ASSUME ImportsInv, NEW r \in SheetRow, NEW column \in FieldColumn, NEW value \in ImportedValue,
           fieldRows[r][column] # <<>>, AddCheck(r, column, value)
    PROVE  ImportsInv'
<1> DEFINE row == [value |-> value, status |-> "verified"]
           all == fieldRows[r][column]
<1>1. row \in ImportedRow /\ row.status = "verified"
  BY DEF ImportedRow
<1>2. all \in Seq(ImportedRow)
  BY DEF ImportsInv, ImportsTypeOK
<1>3. /\ checked' = checked \cup {<<r, column>>}
      /\ fieldRows' = [fieldRows EXCEPT ![r][column] = Append(@, row)]
      /\ UNCHANGED <<sheet, reading, workbooks, capture, file, evaluation, gone>>
  BY DEF AddCheck
<1> HIDE DEF row
<1>4. /\ fieldRows'[r][column] = Append(all, row)
      /\ \A s \in SheetRow, k \in FieldColumn :
            <<s, k>> # <<r, column>> => fieldRows'[s][k] = fieldRows[s][k]
      /\ fieldRows' \in [SheetRow -> [FieldColumn -> Seq(ImportedRow)]]
  <2>1. Append(all, row) \in Seq(ImportedRow)
    BY <1>1, <1>2, CheckedComesLast
  <2> QED
    BY <1>3, <2>1 DEF ImportsInv, ImportsTypeOK
<1>5. ImportsTypeOK'
  BY <1>3, <1>4 DEF ImportsInv, ImportsTypeOK, Workbook
<1>6. ASSUME NEW s \in SheetRow, s \notin gone', NEW k \in FieldColumn
      PROVE  FieldIsAsImported(s, k)'
  <2>1. FieldIsAsImported(s, k)
    BY <1>3, <1>6 DEF ImportsInv
  <2>2. CASE <<s, k>> # <<r, column>>
    BY <1>3, <1>4, <2>1, <2>2 DEF FieldIsAsImported
  <2>3. CASE s = r /\ k = column
    <3>1. capture[r] # None /\ all[1] = FieldValue(column, capture[r][column])
      BY <2>1, <2>3 DEF FieldIsAsImported
    <3>2. /\ fieldRows'[r][column] # <<>> /\ fieldRows'[r][column][1] = all[1]
          /\ Last(fieldRows'[r][column]).status = "verified"
      BY <1>1, <1>2, <1>4, CheckedComesLast
    <3>3. <<r, column>> \in checked' /\ capture' = capture
      BY <1>3
    <3> QED
      BY <2>3, <3>1, <3>2, <3>3 DEF FieldIsAsImported
  <2> QED
    BY <2>2, <2>3
<1>7. \A s \in SheetRow : EvaluationIsAsImported(s)' = EvaluationIsAsImported(s)
  BY <1>3 DEF EvaluationIsAsImported
<1> QED
  BY <1>3, <1>5, <1>6, <1>7 DEF ImportsInv

LEMMA EraseStep ==
    ASSUME ImportsInv, NEW r \in SheetRow, EraseImported(r)
    PROVE  ImportsInv'
<1>1. /\ capture[r] # None /\ r \notin gone /\ gone' = gone \cup {r} /\ file' = file \ {r}
      /\ fieldRows' = [fieldRows EXCEPT ![r] = [column \in FieldColumn |-> <<>>]]
      /\ \A s \in SheetRow : s # r => evaluation'[s] = evaluation[s]
      /\ DOMAIN evaluation' = SheetRow
      /\ UNCHANGED <<sheet, reading, workbooks, capture, checked>>
  BY DEF EraseImported, ImportsInv, ImportsTypeOK
<1>2. [column \in FieldColumn |-> <<>>] \in [FieldColumn -> Seq(ImportedRow)]
  OBVIOUS
<1>3. fieldRows' \in [SheetRow -> [FieldColumn -> Seq(ImportedRow)]]
  BY <1>1, <1>2 DEF ImportsInv, ImportsTypeOK
<1>4. ImportsTypeOK'
  BY <1>1, <1>3 DEF ImportsInv, ImportsTypeOK, Workbook
<1>5. ASSUME NEW s \in SheetRow, s # r
      PROVE  /\ EvaluationIsAsImported(s)' = EvaluationIsAsImported(s)
             /\ \A column \in FieldColumn :
                   FieldIsAsImported(s, column)' = FieldIsAsImported(s, column)
  <2>1. fieldRows'[s] = fieldRows[s]
    BY <1>1, <1>5 DEF ImportsInv, ImportsTypeOK
  <2> QED
    BY <1>1, <1>5, <2>1 DEF EvaluationIsAsImported, FieldIsAsImported
<1> QED
  BY <1>1, <1>4, <1>5 DEF ImportsInv

LEMMA ImportsStep ==
    ASSUME ImportsInv, [ImportsNext]_importsVars
    PROVE  ImportsInv'
<1>1. ASSUME NEW r \in SheetRow, NEW cells \in Cells, EditSheet(r, cells) \/ InsertRow(r, cells)
      PROVE  ImportsInv'
  <2>1. sheet' \in Workbook
    BY <1>1, SavedIsAWorkbook DEF ImportsInv
  <2>2. UNCHANGED <<reading, workbooks, capture, file, fieldRows, evaluation, gone, checked>>
    BY <1>1 DEF EditSheet, InsertRow
  <2> QED
    BY <2>1, <2>2 DEF ImportsInv, ImportsTypeOK, Workbook, FieldIsAsImported, EvaluationIsAsImported
<1>2. CASE ReadRows
  <2>1. /\ reading' = [stage |-> "rows", rows |-> sheet, hash |-> None]
        /\ UNCHANGED <<sheet, workbooks, capture, file, fieldRows, evaluation, gone, checked>>
    BY <1>2 DEF ReadRows
  <2> QED
    BY <2>1 DEF ImportsInv, ImportsTypeOK, Workbook, FieldIsAsImported, EvaluationIsAsImported
<1>3. CASE HashFile
  <2>1. /\ reading.stage = "rows" /\ reading' = [reading EXCEPT !.stage = "hash", !.hash = sheet]
        /\ UNCHANGED <<sheet, workbooks, capture, file, fieldRows, evaluation, gone, checked>>
    BY <1>3 DEF HashFile
  <2>2. ImportsTypeOK'
    BY <2>1 DEF ImportsInv, ImportsTypeOK, Workbook
  <2> QED
    BY <2>1, <2>2 DEF ImportsInv, FieldIsAsImported, EvaluationIsAsImported
<1>4. CASE ImportWorkbook
  BY <1>4, ImportStep
<1>5. ASSUME NEW r \in SheetRow, NEW column \in FieldColumn,
             CheckAsItIs(r, column) \/ CorrectField(r, column)
      PROVE  ImportsInv'
  <2>1. fieldRows[r][column] \in Seq(ImportedRow) /\ fieldRows[r][column] # <<>>
    BY <1>5 DEF ImportsInv, ImportsTypeOK, CheckAsItIs, CorrectField
  <2>2. Last(fieldRows[r][column]).value \in ImportedValue /\ "corrected" \in ImportedValue
    <3> DEFINE all == fieldRows[r][column]
    <3> HIDE DEF all
    <3>1. all \in Seq(ImportedRow) /\ all # <<>>
      BY <2>1 DEF all
    <3>2. Last(all) \in ImportedRow
      BY <3>1 DEF Last
    <3>3. Last(all).value \in ImportedValue
      BY <3>2 DEF ImportedRow
    <3> QED
      BY <3>3 DEF all, ImportedValue
  <2> QED
    BY <1>5, <2>1, <2>2, CheckStep DEF CheckAsItIs, CorrectField
<1>6. ASSUME NEW r \in SheetRow, EraseImported(r) PROVE ImportsInv'
  BY <1>6, EraseStep
<1>7. CASE UNCHANGED importsVars
  BY <1>7 DEF importsVars, ImportsInv, ImportsTypeOK, Workbook, FieldIsAsImported,
       EvaluationIsAsImported
<1> QED
  BY <1>1, <1>2, <1>3, <1>4, <1>5, <1>6, <1>7 DEF ImportsNext

\* The count reads a score as the import did, but for one with a comma.
LEMMA ScoreReadAgain ==
    ASSUME NEW cells \in Cells
    PROVE  /\ StoredEvaluation(cells) # None <=> StoredScore(cells.score) # None
           /\ StoredScore(cells.score) # None =>
                /\ cells.score # None
                /\ StoredEvaluation(cells) = [score |-> StoredScore(cells.score), text |-> cells.signals]
                /\ StoredEvaluation(cells).score * 10 = cells.score.tenths
           /\ cells.score # None /\ ~cells.score.comma =>
                WholeScore(cells.score) = StoredScore(cells.score)
           /\ WholeScore(cells.score) # None =>
                cells.score # None /\ ~cells.score.comma /\ StoredScore(cells.score) # None
<1>1. ASSUME StoredScore(cells.score) # None
      PROVE  /\ cells.score # None /\ StoredScore(cells.score) \in 0 .. 100
             /\ StoredScore(cells.score) * 10 = cells.score.tenths
  <2> DEFINE tenths == cells.score.tenths
  <2>1. /\ cells.score # None /\ tenths % 10 = 0 /\ tenths \in 0 .. 1000
        /\ StoredScore(cells.score) = tenths \div 10
    BY <1>1 DEF StoredScore
  <2> HIDE DEF tenths
  <2>2. tenths \div 10 \in 0 .. 100 /\ (tenths \div 10) * 10 = tenths
    BY <2>1
  <2> QED
    BY <2>1, <2>2 DEF tenths
<1>2. StoredScore(cells.score) # None => StoredEvaluation(cells) # None
  BY <1>1, CellsAssumption DEF StoredEvaluation
<1> QED
  BY <1>1, <1>2 DEF StoredEvaluation, WholeScore

(***************************************************************************)
(* After an import the count matches exactly when every row is as imported *)
(* and nothing of it was checked, erased or read in two ways; for any      *)
(* workbooks, saved and imported again in any order.                       *)
(***************************************************************************)
THEOREM CountExplains == ImportsSpec => []CountExplainsEveryDifference
<1>1. ImportsInv => CountExplainsEveryDifference
  <2> SUFFICES ASSUME ImportsInv, sheet \in workbooks
               PROVE  CountsMatch <=>
                        \A r \in SheetRow :
                          /\ capture[r] = sheet[r]
                          /\ r \notin gone /\ \A column \in FieldColumn : <<r, column>> \notin checked
                          /\ sheet[r] # None /\ sheet[r].score # None =>
                                StoredScore(sheet[r].score) # None /\ ~sheet[r].score.comma
    BY DEF CountExplainsEveryDifference
  <2>1. \A r \in SheetRow : sheet[r] # None => sheet[r] \in Cells
    BY DEF ImportsInv, ImportsTypeOK, Workbook
  <2>2. ASSUME CountsMatch, NEW r \in SheetRow
        PROVE  /\ capture[r] = sheet[r]
               /\ r \notin gone /\ \A column \in FieldColumn : <<r, column>> \notin checked
               /\ sheet[r] # None /\ sheet[r].score # None =>
                     StoredScore(sheet[r].score) # None /\ ~sheet[r].score.comma
    <3>1. CapturesMatch /\ FieldsMatch /\ EvaluationsMatch /\ ReplayReadsTheSame
      BY <2>2 DEF CountsMatch
    <3>2. capture[r] # None <=> sheet[r] # None
      BY <3>1 DEF CapturesMatch, Filled
    <3>3. capture[r] = sheet[r] /\ (sheet[r] # None => r \in file)
      BY <3>1, <3>2 DEF CapturesMatch, Filled
    <3>4. r \notin gone
      BY <3>2, <3>3 DEF ImportsInv
    <3>5. ASSUME NEW column \in FieldColumn PROVE <<r, column>> \notin checked
      <4>1. FieldIsAsImported(r, column)
        BY <3>4 DEF ImportsInv
      <4>2. CASE sheet[r] = None
        BY <3>2, <4>1, <4>2 DEF FieldIsAsImported
      <4>3. CASE sheet[r] # None
        <5>1. Last(fieldRows[r][column]) = ExpectedField(column, sheet[r][column])
          BY <3>1, <4>3 DEF FieldsMatch, Filled
        <5>2. Last(fieldRows[r][column]).status # "verified"
          BY <2>1, <4>3, <5>1, FieldValueIs
        <5> QED
          BY <3>2, <4>1, <4>3, <5>2 DEF FieldIsAsImported
      <4> QED
        BY <4>2, <4>3
    <3>6. ASSUME sheet[r] # None, sheet[r].score # None
          PROVE  StoredScore(sheet[r].score) # None /\ ~sheet[r].score.comma
      <4>1. evaluation[r] # None
        BY <3>1, <3>6 DEF ReplayReadsTheSame
      <4>2. WholeScore(sheet[r].score) # None
        BY <3>1, <4>1 DEF EvaluationsMatch, Filled
      <4> QED
        BY <2>1, <3>6, <4>2, ScoreReadAgain
    <3> QED
      BY <3>3, <3>4, <3>5, <3>6
  <2>3. ASSUME \A r \in SheetRow :
                 /\ capture[r] = sheet[r]
                 /\ r \notin gone /\ \A column \in FieldColumn : <<r, column>> \notin checked
                 /\ sheet[r] # None /\ sheet[r].score # None =>
                       StoredScore(sheet[r].score) # None /\ ~sheet[r].score.comma
        PROVE  CountsMatch
    <3>1. CapturesMatch
      BY <2>3 DEF ImportsInv, CapturesMatch, Filled
    <3>2. ASSUME NEW r \in SheetRow, sheet[r] # None, NEW column \in FieldColumn
          PROVE  /\ fieldRows[r][column] # <<>>
                 /\ Last(fieldRows[r][column]) = ExpectedField(column, sheet[r][column])
      <4> DEFINE value == FieldValue(column, sheet[r][column])
      <4>1. FieldIsAsImported(r, column) /\ capture[r] = sheet[r] /\ <<r, column>> \notin checked
        BY <2>3 DEF ImportsInv
      <4>2. fieldRows[r][column] = <<value>>
        BY <3>2, <4>1 DEF FieldIsAsImported
      <4>3. value = ExpectedField(column, sheet[r][column])
        BY <2>1, <3>2, FieldValueIs
      <4> HIDE DEF value
      <4>4. <<value>> # <<>> /\ Last(<<value>>) = value
        BY DEF Last
      <4> QED
        BY <4>2, <4>3, <4>4
    <3>3. FieldsMatch
      BY <3>2 DEF FieldsMatch, Filled
    <3>4. ASSUME NEW r \in SheetRow
          PROVE  evaluation[r] = IF sheet[r] = None THEN None ELSE StoredEvaluation(sheet[r])
      BY <2>3 DEF ImportsInv, EvaluationIsAsImported
    <3>5. ASSUME NEW r \in SheetRow, sheet[r] # None
          PROVE  /\ StoredScore(sheet[r].score) # None <=> WholeScore(sheet[r].score) # None
                 /\ WholeScore(sheet[r].score) # None =>
                      evaluation[r] = [score |-> WholeScore(sheet[r].score), text |-> sheet[r].signals]
                 /\ evaluation[r] # None <=> WholeScore(sheet[r].score) # None
                 /\ sheet[r].score = None => evaluation[r] = None
                 /\ sheet[r].score # None =>
                      evaluation[r] # None /\ evaluation[r].score * 10 = sheet[r].score.tenths
      <4>1. /\ sheet[r] \in Cells /\ evaluation[r] = StoredEvaluation(sheet[r])
            /\ sheet[r].score # None =>
                  StoredScore(sheet[r].score) # None /\ ~sheet[r].score.comma
        BY <2>1, <2>3, <3>4, <3>5
      <4> QED
        BY <4>1, ScoreReadAgain
    <3>6. EvaluationsMatch
      <4>1. ASSUME NEW r \in SheetRow
            PROVE  evaluation[r] # None <=> sheet[r] # None /\ WholeScore(sheet[r].score) # None
        BY <3>4, <3>5
      <4> QED
        BY <3>5, <4>1 DEF EvaluationsMatch, Filled
    <3>7. ReplayReadsTheSame
      BY <3>4, <3>5 DEF ReplayReadsTheSame
    <3> QED
      BY <3>1, <3>3, <3>6, <3>7 DEF CountsMatch
  <2> QED
    BY <2>2, <2>3
<1> QED
  BY <1>1, ImportsInvInit, ImportsStep, PTL DEF ImportsSpec
=============================================================================
