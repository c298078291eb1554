--------------------------- MODULE PipelineRecord ---------------------------
(***************************************************************************)
(* What the pipeline promises of its record, with no requests, locks or    *)
(* transactions in sight: every entry is made in one step and is legal at  *)
(* the moment it is made. An application's moves follow one another, each  *)
(* allowed by a loaded list, and end at a final step; a rejection has a    *)
(* listed reason; a decision is made once, and a confirmation together     *)
(* with the rejection it stands for; a rejected application stays rejected *)
(* and is reopened by at most one other.                                   *)
(***************************************************************************)
EXTENDS Naturals, Sequences

CONSTANTS
    Actor, Opening, Candidate, Application, Item, List, Step, Reason,
    FirstStep, Hired, Rejected, AllowedMove, ListedReason, SeededList, None

VARIABLES
    loaded,        \* the lists loaded so far
    application,   \* [Application -> None or its candidate, opening and what it reopens]
    moves,         \* [Application -> Seq of moves]
    item,          \* [Item -> None or the proposed rejection]
    resolution     \* [Item -> None or the decision]

recordVars == <<loaded, application, moves, item, resolution>>

Init ==
    /\ loaded = {SeededList}
    /\ application = [a \in Application |-> None]
    /\ moves = [a \in Application |-> <<>>]
    /\ item = [i \in Item |-> None]
    /\ resolution = [i \in Item |-> None]

Load(l) ==
    /\ loaded' = loaded \cup {l}
    /\ UNCHANGED <<application, moves, item, resolution>>

Last(a) == moves[a][Len(moves[a])]

(***************************************************************************)
(* An application starts at the first step of a loaded list. It is the     *)
(* candidate's first to that opening, or reopens a rejected one of theirs  *)
(* that nothing else reopens.                                              *)
(***************************************************************************)
Start(a, c, o, old, l, p) ==
    /\ application[a] = None
    /\ l \in loaded
    /\ \A b \in Application : application[b] # None =>
          ~ /\ application[b].candidate = c
            /\ application[b].opening = o
            /\ application[b].reopens = old
    /\ old # None =>
          /\ application[old] # None
          /\ application[old].candidate = c
          /\ application[old].opening = o
          /\ Last(old).to = Rejected[Last(old).list]
    /\ application' = [application EXCEPT ![a] =
                          [candidate |-> c, opening |-> o, reopens |-> old]]
    /\ moves' = [moves EXCEPT ![a] =
                    <<[list |-> l, from |-> None, to |-> FirstStep[l], reason |-> None,
                       by |-> p]>>]
    /\ UNCHANGED <<loaded, item, resolution>>

(***************************************************************************)
(* The next move of a: from where it is, not a final step, to where a      *)
(* loaded list allows, with a reason of that list exactly if it rejects.   *)
(***************************************************************************)
Advance(a, m) ==
    /\ application[a] # None
    /\ m.list \in loaded
    /\ m.from = Last(a).to
    /\ Last(a).to \notin {Hired[Last(a).list], Rejected[Last(a).list]}
    /\ <<m.from, m.to>> \in AllowedMove[m.list]
    /\ IF m.to = Rejected[m.list] THEN m.reason \in ListedReason[m.list] ELSE m.reason = None
    /\ moves' = [moves EXCEPT ![a] = Append(@, m)]
    /\ UNCHANGED <<loaded, application, item>>

Propose(i, a, reason) ==
    /\ item[i] = None
    /\ application[a] # None
    /\ \E l \in loaded : reason \in ListedReason[l]
    /\ item' = [item EXCEPT ![i] = [app |-> a, reason |-> reason]]
    /\ UNCHANGED <<loaded, application, moves, resolution>>

(***************************************************************************)
(* A person decides: the rejection becomes their move, or nothing moves.   *)
(***************************************************************************)
Decide(i, outcome, p) ==
    /\ item[i] # None
    /\ resolution[i] = None
    /\ resolution' = [resolution EXCEPT ![i] = [outcome |-> outcome, by |-> p]]

Confirm(i, m) ==
    /\ Decide(i, "confirmed", m.by)
    /\ m.to = Rejected[m.list]
    /\ m.reason = item[i].reason
    /\ Advance(item[i].app, m)

Dismiss(i, p) ==
    /\ Decide(i, "dismissed", p)
    /\ UNCHANGED <<loaded, application, moves, item>>

AMove == [list : List, from : Step, to : Step, reason : Reason \cup {None}, by : Actor]

Next ==
    \/ \E l \in List : Load(l)
    \/ \E a \in Application, c \in Candidate, o \in Opening,
          old \in Application \cup {None}, l \in List, p \in Actor :
          Start(a, c, o, old, l, p)
    \/ \E a \in Application, m \in AMove : Advance(a, m) /\ UNCHANGED resolution
    \/ \E i \in Item, a \in Application, reason \in Reason : Propose(i, a, reason)
    \/ \E i \in Item, m \in AMove : Confirm(i, m)
    \/ \E i \in Item, p \in Actor : Dismiss(i, p)

Spec == Init /\ [][Next]_recordVars
=============================================================================
