------------------------------- MODULE Paging -------------------------------
(***************************************************************************)
(* Walking a list page by page (api/pages.py and the list queries): newest *)
(* first with a "before" cursor, oldest first with an "after" cursor, while *)
(* rows come into the caller's scope and leave it.                          *)
(***************************************************************************)
EXTENDS Absent, Integers, FiniteSets

CONSTANTS
    RowId,
    Limit      \* rows on a page

ASSUME RowIdAssumption == RowId \subseteq Nat /\ IsFiniteSet(RowId) /\ None \notin RowId
ASSUME LimitAssumption == Limit \in Nat \ {0}

VARIABLES
    direction,   \* of the list: "before" or "after"
    inScope,     \* the rows the query finds
    cursor,      \* next_cursor of the last page; None before the first
    walking,     \* whether another page may be asked for
    shown,       \* how often each row has been on a page
    throughout,  \* rows in scope since the walk began
    pages        \* pages walked

pagingVars == <<direction, inScope, cursor, walking, shown, throughout, pages>>

PagingInit ==
    /\ direction \in {"before", "after"}
    /\ inScope \in SUBSET RowId
    /\ cursor = None /\ walking = TRUE
    /\ shown = [r \in RowId |-> 0]
    /\ throughout = inScope
    /\ pages = 0

\* r comes first on a page that has both.
Ahead(r, s) == IF direction = "before" THEN r > s ELSE r < s

\* The first n of some rows, as ORDER BY and LIMIT give them.
Foremost(n, rows) == {r \in rows : Cardinality({s \in rows : Ahead(s, r)}) < n}

Hindmost(rows) == CHOOSE r \in rows : \A s \in rows : ~Ahead(r, s)

\* The query of the next page: one row more than it shows.
Fetched == Foremost(Limit + 1, {r \in inScope : cursor = None \/ Ahead(cursor, r)})

\* Mutant of NextCursor: the last row fetched, which was not shown.
NextCursorFetched(rows) == IF Cardinality(rows) <= Limit THEN None ELSE Hindmost(rows)

NextCursor(rows) ==
    IF Cardinality(rows) <= Limit THEN None ELSE Hindmost(Foremost(Limit, rows))

AskPage ==
    /\ walking
    /\ cursor' = NextCursor(Fetched)
    /\ walking' = (cursor' # None)
    /\ shown' = [r \in RowId |-> shown[r] + IF r \in Foremost(Limit, Fetched) THEN 1 ELSE 0]
    /\ pages' = pages + 1
    /\ UNCHANGED <<direction, inScope, throughout>>

\* A row is added, or one that was out of the caller's scope comes into it.
Appear(r) ==
    /\ r \notin inScope
    /\ inScope' = inScope \cup {r}
    /\ UNCHANGED <<direction, cursor, walking, shown, throughout, pages>>

Vanish(r) ==
    /\ r \in inScope
    /\ inScope' = inScope \ {r}
    /\ throughout' = throughout \ {r}
    /\ UNCHANGED <<direction, cursor, walking, shown, pages>>

PagingNext ==
    \/ AskPage
    \/ walking /\ \E r \in RowId : Appear(r) \/ Vanish(r)

PagingSpec == PagingInit /\ [][PagingNext]_pagingVars

-----------------------------------------------------------------------------

(***************************************************************************)
(* api/pages.py: "a cursor page, not an offset that shifts under inserts". *)
(* No row is on two pages of a walk; when the walk has ended every row     *)
(* that was there throughout has been on one; and the walk does end, after *)
(* no more pages than the ids there are can fill.                          *)
(***************************************************************************)
WalkMeetsEveryRowOnce ==
    /\ \A r \in RowId : shown[r] <= 1
    /\ ~walking => \A r \in throughout : shown[r] = 1
    /\ (pages - 1) * Limit <= Cardinality(RowId)
=============================================================================
