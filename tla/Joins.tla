------------------------------- MODULE Joins --------------------------------
(***************************************************************************)
(* Matches, the people who decide on them, and joins (candidates/joins.py,  *)
(* duplicates.record, migration 0012), at READ COMMITTED: a join asks for   *)
(* its match, inserts under the trigger and the index, looks for the open   *)
(* item and commits, and other transactions commit between those steps.     *)
(* Who may see which record is the subject of Visibility.                   *)
(***************************************************************************)
EXTENDS Absent, Integers, FiniteSets

CONSTANTS
    Record,      \* candidates, by id
    Matching,    \* the pairs a scan finds, the lower id first
    Joiner       \* transactions that join

ASSUME RecordAssumption == Record \subseteq Int
ASSUME MatchingAssumption == Matching \subseteq {p \in Record \X Record : p[1] < p[2]}
ASSUME NoMatchAssumption == None \notin Matching /\ None \notin {"checked", "dismissed"}

VARIABLES
    matches,     \* core.candidate_match, each with its review item
    outcome,     \* of the item of a match; None while it is open
    joins,       \* core.candidate_join not undone: [primary, other, match, unseen]
    joiner       \* the joins under way, and how far each has come

joinsVars == <<matches, outcome, joins, joiner>>

JoinStage == {"idle", "asked", "checked", "inserted", "answering", "closing"}

Idle == [stage |-> "idle", primary |-> None, other |-> None, match |-> None, unseen |-> {}]

JoinsInit ==
    /\ matches = {} /\ joins = {}
    /\ outcome = [pair \in Matching |-> None]
    /\ joiner = [t \in Joiner |-> Idle]

PairOf(primary, other) == IF primary < other THEN <<primary, other>> ELSE <<other, primary>>

JoinAt(t, stage) == joiner[t].stage = stage
JoinGoes(t, stage) == joiner' = [joiner EXCEPT ![t].stage = stage]
JoinEnds(t) == joiner' = [joiner EXCEPT ![t] = Idle]

\* The transactions that have inserted a join of this record, or a resolution.
Inserting(other) ==
    \E t \in Joiner : joiner[t].stage \in {"inserted", "answering", "closing"}
                      /\ joiner[t].other = other
Closing(pair) == \E t \in Joiner : JoinAt(t, "closing") /\ joiner[t].match = pair

-----------------------------------------------------------------------------
(* The matcher, and a person who dismisses a match.                         *)

\* A known match is left as it is, and so is its item.
RecordMatch(pair) ==
    /\ pair \notin matches
    /\ matches' = matches \cup {pair}
    /\ UNCHANGED <<outcome, joins, joiner>>

\* Waits for a resolution that is being inserted.
Dismiss(pair) ==
    /\ pair \in matches
    /\ outcome[pair] = None
    /\ ~Closing(pair)
    /\ outcome' = [outcome EXCEPT ![pair] = "dismissed"]
    /\ UNCHANGED <<matches, joins, joiner>>

-----------------------------------------------------------------------------
(* A join, and undoing one.                                                 *)

AskMatch(t, primary, other) ==
    /\ JoinAt(t, "idle")
    /\ primary # other
    /\ joiner' = [joiner EXCEPT ![t] =
          [stage |-> "asked", primary |-> primary, other |-> other,
           match |-> IF PairOf(primary, other) \in matches THEN PairOf(primary, other) ELSE None,
           unseen |-> {}]]
    /\ UNCHANGED <<matches, outcome, joins>>

\* Mutant of OneLevel: only the record joined into is looked at.
OneLevelAbove(primary, other) == \A j \in joins : j.other # primary

\* The trigger: nothing joins into a record that is joined, and a record that
\* others are joined into is not joined.  It sees what has been committed.
OneLevel(primary, other) ==
    \A j \in joins : j.other # primary /\ j.primary # other

CheckJoin(t) ==
    /\ JoinAt(t, "asked")
    /\ IF OneLevel(joiner[t].primary, joiner[t].other) THEN JoinGoes(t, "checked") ELSE JoinEnds(t)
    /\ UNCHANGED <<matches, outcome, joins>>

\* The index: joined once.  Waits for another join of the same record to end.
InsertJoin(t) ==
    /\ JoinAt(t, "checked")
    /\ ~Inserting(joiner[t].other)
    /\ IF \E j \in joins : j.other = joiner[t].other THEN JoinEnds(t) ELSE JoinGoes(t, "inserted")
    /\ UNCHANGED <<matches, outcome, joins>>

\* The item of the match is still open.
FindItem(t) ==
    /\ JoinAt(t, "inserted")
    /\ joiner[t].match # None
    /\ outcome[joiner[t].match] = None
    /\ JoinGoes(t, "answering")
    /\ UNCHANGED <<matches, outcome, joins>>

\* It is resolved along with the join, unless another resolution was first:
\* then the join is refused.
AnswerItem(t) ==
    /\ JoinAt(t, "answering")
    /\ ~Closing(joiner[t].match)
    /\ IF outcome[joiner[t].match] = None THEN JoinGoes(t, "closing") ELSE JoinEnds(t)
    /\ UNCHANGED <<matches, outcome, joins>>

\* Mutant of Answered: the item is left to somebody else.
LeftOpen(match) == TRUE

\* Nothing to answer: there was no match, or its item is no longer open.
Answered(match) == IF match = None THEN TRUE ELSE outcome[match] # None

CommitJoin(t) ==
    LET mine == joiner[t]
        pair == <<mine.primary, mine.other>>
    IN  /\ mine.stage \in {"inserted", "closing"}
        /\ mine.stage = "inserted" => Answered(mine.match)
        /\ joins' = joins \cup {[primary |-> mine.primary, other |-> mine.other,
                                 match |-> mine.match, unseen |-> mine.unseen]}
        /\ outcome' = IF mine.stage = "closing" THEN [outcome EXCEPT ![mine.match] = "checked"]
                      ELSE outcome
        /\ joiner' = [u \in Joiner |->
              IF u = t THEN Idle
              ELSE IF joiner[u].stage \in {"idle", "asked"} THEN joiner[u]
              ELSE [joiner[u] EXCEPT !.unseen = @ \cup {pair}]]
        /\ UNCHANGED matches

UndoJoin(j) ==
    LET Without(unseen) == unseen \ {<<j.primary, j.other>>}
    IN  /\ joins' = {[k EXCEPT !.unseen = Without(@)] : k \in joins \ {j}}
        /\ joiner' = [t \in Joiner |-> [joiner[t] EXCEPT !.unseen = Without(@)]]
        /\ UNCHANGED <<matches, outcome>>

JoinsNext ==
    \/ \E pair \in Matching : RecordMatch(pair) \/ Dismiss(pair)
    \/ \E t \in Joiner :
        \/ \E primary, other \in Record : AskMatch(t, primary, other)
        \/ CheckJoin(t) \/ InsertJoin(t) \/ FindItem(t) \/ AnswerItem(t) \/ CommitJoin(t)
    \/ \E j \in joins : UndoJoin(j)

JoinsSpec == JoinsInit /\ [][JoinsNext]_joinsVars

-----------------------------------------------------------------------------
(* Properties.                                                              *)

(***************************************************************************)
(* The types of the variables.                                             *)
(***************************************************************************)
Joined == [primary : Record, other : Record, match : Matching \cup {None},
           unseen : SUBSET (Record \X Record)]

JoinsTypeOK ==
    /\ matches \subseteq Matching
    /\ outcome \in [Matching -> {None, "checked", "dismissed"}]
    /\ joins \subseteq Joined
    /\ joiner \in [Joiner -> [stage : JoinStage, primary : Record \cup {None},
                             other : Record \cup {None}, match : Matching \cup {None},
                             unseen : SUBSET (Record \X Record)]]

\* One of two joins did not see the other when the trigger looked.
Overlapped(j, k) ==
    \/ <<j.primary, j.other>> \in k.unseen
    \/ <<k.primary, k.other>> \in j.unseen

(***************************************************************************)
(* "A joined record cannot itself be a primary, so a group is one level    *)
(* deep", and a record is read under one other.  The second holds always;  *)
(* the first but for two joins that overlapped, which the trigger does not *)
(* keep apart.                                                             *)
(***************************************************************************)
GroupsAreOneLevel ==
    \A j, k \in joins :
        /\ j.other = k.other => j = k
        /\ j.other = k.primary => Overlapped(j, k)

(***************************************************************************)
(* "Joining resolves the review item of the match it came from": while a   *)
(* join stands nobody is asked about the match it was made on, however     *)
(* resolutions, joins and undone joins interleave.                         *)
(***************************************************************************)
JoinAnswersItsMatch ==
    \A j \in joins : j.match # None => j.match \in matches /\ outcome[j.match] # None
=============================================================================
