----------------------------- MODULE Duplicates -----------------------------
(***************************************************************************)
(* Finding the same person twice (candidates/duplicates.py): what two      *)
(* records are matched on, which pairs that makes, and the groups they     *)
(* form.  What becomes of the matches is the subject of Joins.             *)
(*                                                                         *)
(* A record is the set of pieces its cells hold, each <<column, kind, key>>*)
(* : what it is, whatever column it stands in, and its key once tidied.    *)
(* The code takes the pairs in order; here they are taken in any.          *)
(***************************************************************************)
EXTENDS Integers, FiniteSets

CONSTANTS
    Scanned,      \* candidates, by id
    Piece,        \* what a cell can hold
    MostPerKey    \* records that may share a key before it says nothing

ASSUME ScannedAssumption == Scanned \subseteq Int
ASSUME MostPerKeyAssumption == MostPerKey \in Nat \ {0}

VARIABLES
    cells,     \* the pieces each record holds
    unmatched, \* candidates who asked that their data is not kept
    scan,      \* "not_begun" or "begun"
    left,      \* the pairs found that are not in a group yet
    parent     \* groups: each record points at one of its group, a root at itself

duplicatesVars == <<cells, unmatched, scan, left, parent>>

ContactKind == {"phone", "email", "profile_url"}

DuplicatesInit ==
    /\ cells = [c \in Scanned |-> {}]
    /\ unmatched = {} /\ scan = "not_begun" /\ left = {}
    /\ parent = [c \in Scanned |-> c]

-----------------------------------------------------------------------------
(* find_pairs.                                                              *)

\* A number in the email column is neither an address nor a mobile.
KeysOf(c) ==
    IF c \in unmatched THEN {}
    ELSE {<<piece[2], piece[3]>> :
            piece \in {p \in cells[c] : ~(p[1] = "email" /\ p[2] = "phone")}}

HoldersOf(key) == {c \in Scanned : key \in KeysOf(c)}

UsableKeys ==
    {key \in UNION {KeysOf(c) : c \in Scanned} : Cardinality(HoldersOf(key)) <= MostPerKey}

SharedKeys(c, d) == {key \in UsableKeys : {c, d} \subseteq HoldersOf(key)}

\* Sharing a name is left alone, unless something else is shared as well.
FindPairs ==
    {pair \in Scanned \X Scanned :
        /\ pair[1] < pair[2]
        /\ \E key \in SharedKeys(pair[1], pair[2]) : key[1] \in ContactKind}

-----------------------------------------------------------------------------
(* groups.                                                                  *)

Root(c) ==
    LET root[d \in Scanned] == IF parent[d] = d THEN d ELSE root[parent[d]]
    IN  root[c]

\* Mutant of Union: the record, and not its root, is pointed at the other's.
UnionOfRecords(pair) == parent' = [parent EXCEPT ![pair[1]] = Root(pair[2])]

Union(pair) ==
    IF Root(pair[1]) = Root(pair[2]) THEN UNCHANGED parent
    ELSE parent' = [parent EXCEPT ![Root(pair[1])] = Root(pair[2])]

GroupOf(c) == {d \in Scanned : Root(d) = Root(c)}

-----------------------------------------------------------------------------

FillCell(c, piece) ==
    /\ scan = "not_begun"
    /\ piece \notin cells[c]
    /\ cells' = [cells EXCEPT ![c] = @ \cup {piece}]
    /\ UNCHANGED <<unmatched, scan, left, parent>>

AskToStop(c) ==
    /\ scan = "not_begun"
    /\ c \notin unmatched
    /\ unmatched' = unmatched \cup {c}
    /\ UNCHANGED <<cells, scan, left, parent>>

Scan ==
    /\ scan = "not_begun"
    /\ scan' = "begun"
    /\ left' = FindPairs
    /\ UNCHANGED <<cells, unmatched, parent>>

TakePair(pair) ==
    /\ pair \in left
    /\ left' = left \ {pair}
    /\ Union(pair)
    /\ UNCHANGED <<cells, unmatched, scan>>

DuplicatesNext ==
    \/ \E c \in Scanned : AskToStop(c) \/ \E piece \in Piece : FillCell(c, piece)
    \/ Scan
    \/ \E pair \in left : TakePair(pair)

DuplicatesSpec == DuplicatesInit /\ [][DuplicatesNext]_duplicatesVars

-----------------------------------------------------------------------------
(* Properties.                                                              *)

\* Closed: who shares a contact key that is not too common with a member is one.
Closed(group) ==
    \A c \in group, d \in Scanned :
        (\E key \in KeysOf(c) \cap KeysOf(d) :
            key[1] \in ContactKind
            /\ Cardinality({e \in Scanned : key \in KeysOf(e)}) <= MostPerKey) => d \in group

(***************************************************************************)
(* "Candidates joined by matches, as groups: what a person would see       *)
(* before deciding": in whatever order the pairs are taken, a group is     *)
(* everybody who can be reached from one of them over keys that few enough *)
(* share, and nobody else: nobody over a name alone, and nobody who asked  *)
(* us to stop.                                                             *)
(***************************************************************************)
GroupsAreTheReachable ==
    scan = "begun" /\ left = {} =>
        \A c \in Scanned :
            /\ Closed(GroupOf(c))
            /\ \A part \in SUBSET GroupOf(c) : c \in part /\ Closed(part) => part = GroupOf(c)
            /\ c \in unmatched => GroupOf(c) = {c}
=============================================================================
