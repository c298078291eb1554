------------------------------ MODULE EventFeed ------------------------------
(***************************************************************************)
(* The events of migration 0007_crm_events.py as they are written, and the *)
(* feed the CRM catches up from: src/src/integrations/events.py and        *)
(* src/src/api/event_routes.py.                                            *)
(*                                                                         *)
(* A trigger inserts an event in the transaction of the change it is       *)
(* about. It gets its id then and is seen at the COMMIT, and transactions  *)
(* do not commit in the order they began. Those that move one application  *)
(* do: check_move keeps the application's lock to the end.                 *)
(***************************************************************************)
EXTENDS Absent, Naturals, Sequences, FiniteSets

CONSTANTS
    Event,         \* integration.event ids
    Application    \* pipeline.application ids

ASSUME EventAssumption == Event \subseteq Nat \ {0}
ASSUME NoneAssumption == None \notin Application \cup Event

VARIABLES
    state,     \* "absent", "open" (inserted, not committed), "committed", "undone"
    moved,     \* application.stage_changed: the application moved; None for other events
    history,   \* pipeline.move: the events of each application's moves, in order
    appLock,   \* the event whose transaction holds the application's lock
    after,     \* the last event the reader processed, or 0
    read       \* the events it has processed, in that order

vars == <<state, moved, history, appLock, after, read>>

Init ==
    /\ state = [e \in Event |-> "absent"]
    /\ moved = [e \in Event |-> None]
    /\ history = [a \in Application |-> <<>>]
    /\ appLock = [a \in Application |-> None]
    /\ after = 0
    /\ read = <<>>

(***************************************************************************)
(* The identity column: ids are given out in order, and not taken back.    *)
(***************************************************************************)
NextId(e) ==
    /\ state[e] = "absent"
    /\ \A d \in Event : d < e => state[d] # "absent"

(***************************************************************************)
(* Mutant of Move: the event is written before the lock is asked for.      *)
(***************************************************************************)
MoveUnlocked(e, a) ==
    /\ NextId(e)
    /\ state' = [state EXCEPT ![e] = "open"]
    /\ moved' = [moved EXCEPT ![e] = a]
    /\ UNCHANGED <<history, appLock, after, read>>

(***************************************************************************)
(* A move: check_move takes the application's lock before the INSERT,      *)
(* on_move writes the event after it.                                      *)
(***************************************************************************)
Move(e, a) ==
    /\ NextId(e)
    /\ appLock[a] = None
    /\ appLock' = [appLock EXCEPT ![a] = e]
    /\ state' = [state EXCEPT ![e] = "open"]
    /\ moved' = [moved EXCEPT ![e] = a]
    /\ UNCHANGED <<history, after, read>>

(***************************************************************************)
(* A review item or a computed evaluation: on_review_item, on_evaluation.  *)
(***************************************************************************)
Other(e) ==
    /\ NextId(e)
    /\ state' = [state EXCEPT ![e] = "open"]
    /\ UNCHANGED <<moved, history, appLock, after, read>>

(***************************************************************************)
(* The transaction ends, and its lock with it.                             *)
(***************************************************************************)
Ends(e, outcome) ==
    /\ state[e] = "open"
    /\ state' = [state EXCEPT ![e] = outcome]
    /\ appLock' = [a \in Application |-> IF appLock[a] = e THEN None ELSE appLock[a]]
    /\ UNCHANGED <<moved, after, read>>

Commit(e) ==
    /\ Ends(e, "committed")
    /\ history' = [a \in Application |->
                      IF moved[e] = a THEN Append(history[a], e) ELSE history[a]]

Undo(e) ==
    /\ Ends(e, "undone")
    /\ UNCHANGED history

(***************************************************************************)
(* list_events: committed events above "after", by id, up to the page's    *)
(* last, e.                                                                *)
(***************************************************************************)
Page(e, page) ==
    /\ \A d \in Event :
          (\E i \in DOMAIN page : page[i] = d) <=> state[d] = "committed" /\ after < d /\ d <= e
    /\ \A i, j \in DOMAIN page : i < j => page[i] < page[j]

Read(e, page) ==
    /\ state[e] = "committed"
    /\ after < e
    /\ Page(e, page)
    /\ read' = read \o page
    /\ after' = e
    /\ UNCHANGED <<state, moved, history, appLock>>

Pages == UNION {[1 .. n -> Event] : n \in 1 .. Cardinality(Event)}

Next ==
    \/ \E e \in Event, a \in Application : Move(e, a)
    \/ \E e \in Event : Other(e) \/ Commit(e) \/ Undo(e)
    \/ \E e \in Event, page \in Pages : Read(e, page)

Spec == Init /\ [][Next]_vars

-----------------------------------------------------------------------------
(***************************************************************************)
(* Every variable has its type; a locked application is being moved by the *)
(* open event that has it locked.                                          *)
(***************************************************************************)
TypeOK ==
    /\ state \in [Event -> {"absent", "open", "committed", "undone"}]
    /\ moved \in [Event -> Application \cup {None}]
    /\ history \in [Application -> Seq(Event)]
    /\ appLock \in [Application -> Event \cup {None}]
    /\ after \in Event \cup {0}
    /\ read \in Seq(Event)
    /\ \A a \in Application : appLock[a] # None =>
          state[appLock[a]] = "open" /\ moved[appLock[a]] = a

(***************************************************************************)
(* However transactions overlap, the feed tells of an application's moves  *)
(* in the order they were made: who has read a later one does not read an  *)
(* earlier one after it ("oldest first").                                  *)
(***************************************************************************)
Before(s, d, e) == \E i, j \in DOMAIN s : i < j /\ s[i] = d /\ s[j] = e

MovesReadInOrder ==
    \A a \in Application : \A d, e \in Event :
        Before(history[a], d, e) => ~Before(read, e, d)

(***************************************************************************)
(* "Oldest first, ids above `after`, so a caller resumes from the last     *)
(* event it processed" (events.py): resuming there misses nothing.         *)
(***************************************************************************)
ResumeMissesNothing ==
    \A e \in Event : state[e] = "committed" /\ e <= after => \E i \in DOMAIN read : read[i] = e
=============================================================================
