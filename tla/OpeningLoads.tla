---------------------------- MODULE OpeningLoads ----------------------------
(***************************************************************************)
(* Loading a file of jobs through the API (pipeline/load_openings.py):     *)
(* the loader reads which are open, then posts the others one by one, with *)
(* no idempotency key.  Reading a list page by page is the subject of      *)
(* Paging; what the route does with a key is the subject of Retries.       *)
(***************************************************************************)
EXTENDS Absent, Integers

CONSTANTS
    LastLine,    \* the lines of the file, 1 to so many, each another job
    Loader

ASSUME LinesAssumption == LastLine \in Nat \ {0}

VARIABLES
    open,      \* per line, the openings like it that are open
    loader,    \* each load: the lines it takes as there, and the next line
    request,   \* each load's post: "none", "sent", or "done" at the server
    adrift,    \* lines whose post nobody waits for and the server may still do
    raced      \* a load read the list during another, or with a post adrift

openingLoadsVars == <<open, loader, request, adrift, raced>>

FileLine == 1 .. LastLine

ASSUME NoListAssumption == \A existing \in SUBSET FileLine : existing # None

NotLoading == [existing |-> None, next |-> 1]

OpeningLoadsInit ==
    /\ open = [k \in FileLine |-> 0]
    /\ loader = [l \in Loader |-> NotLoading]
    /\ request = [l \in Loader |-> "none"]
    /\ adrift = {} /\ raced = FALSE

Loading(l) == loader[l].existing # None

\* Mutant of ExistingOpen: the first page only.
ExistingOnFirstPage == {k \in FileLine : open[k] > 0 /\ \A j \in FileLine : open[j] > 0 => j <= k}

ExistingOpen == {k \in FileLine : open[k] > 0}

ListOpenings(l) ==
    /\ ~Loading(l)
    /\ loader' = [loader EXCEPT ![l] = [existing |-> ExistingOpen, next |-> 1]]
    /\ raced' = (raced \/ adrift # {} \/ \E u \in Loader : Loading(u))
    /\ UNCHANGED <<open, request, adrift>>

\* On to the next line, or done.
Advance(l, existing) ==
    loader' = [loader EXCEPT ![l] =
                  IF loader[l].next = LastLine THEN NotLoading
                  ELSE [existing |-> existing, next |-> loader[l].next + 1]]

AlreadyThere(l) ==
    /\ Loading(l) /\ loader[l].next \in loader[l].existing
    /\ Advance(l, loader[l].existing)
    /\ UNCHANGED <<open, request, adrift, raced>>

Post(l) ==
    /\ Loading(l) /\ request[l] = "none" /\ loader[l].next \notin loader[l].existing
    /\ request' = [request EXCEPT ![l] = "sent"]
    /\ UNCHANGED <<open, loader, adrift, raced>>

CreateOpening(l) ==
    /\ request[l] = "sent"
    /\ request' = [request EXCEPT ![l] = "done"]
    /\ open' = [open EXCEPT ![loader[l].next] = @ + 1]
    /\ UNCHANGED <<loader, adrift, raced>>

RefuseOpening(l) ==
    /\ request[l] = "sent"
    /\ request' = [request EXCEPT ![l] = "none"]
    /\ Advance(l, loader[l].existing)
    /\ UNCHANGED <<open, adrift, raced>>

TakeCreated(l) ==
    /\ request[l] = "done"
    /\ request' = [request EXCEPT ![l] = "none"]
    /\ Advance(l, loader[l].existing \cup {loader[l].next})
    /\ UNCHANGED <<open, adrift, raced>>

\* Thirty seconds without an answer, a broken connection, a key pressed.
StopLoading(l) ==
    /\ Loading(l)
    /\ adrift' = IF request[l] = "sent" THEN adrift \cup {loader[l].next} ELSE adrift
    /\ loader' = [loader EXCEPT ![l] = NotLoading]
    /\ request' = [request EXCEPT ![l] = "none"]
    /\ UNCHANGED <<open, raced>>

\* What was adrift is done after all, or rolled back.
CreateLate(k, commits) ==
    /\ k \in adrift
    /\ adrift' = adrift \ {k}
    /\ open' = IF commits THEN [open EXCEPT ![k] = @ + 1] ELSE open
    /\ UNCHANGED <<loader, request, raced>>

CloseOpening(k) ==
    /\ open[k] > 0
    /\ open' = [open EXCEPT ![k] = @ - 1]
    /\ UNCHANGED <<loader, request, adrift, raced>>

OpeningLoadsNext ==
    \/ \E l \in Loader :
        \/ ListOpenings(l) \/ AlreadyThere(l) \/ Post(l) \/ CreateOpening(l) \/ RefuseOpening(l)
        \/ TakeCreated(l) \/ StopLoading(l)
    \/ \E k \in FileLine : CloseOpening(k) \/ \E commits \in BOOLEAN : CreateLate(k, commits)

OpeningLoadsSpec == OpeningLoadsInit /\ [][OpeningLoadsNext]_openingLoadsVars

-----------------------------------------------------------------------------

(***************************************************************************)
(* "Running the load again creates nothing new": wherever a load stopped,  *)
(* whatever answer was lost or opening closed, no job of the file gets a   *)
(* second open opening; only a load that begins during another one, or     *)
(* before the server is through with a post nobody waits for, can do that. *)
(***************************************************************************)
NoJobLoadedTwice ==
    \A k \in FileLine : open[k] > 1 => raced
=============================================================================
