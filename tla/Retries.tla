------------------------------ MODULE Retries ------------------------------
(***************************************************************************)
(* Idempotency-Key (api/idempotency.py): a person's attempts at requests    *)
(* that create something, some of them with a key.  Each is a transaction   *)
(* of its own that takes the key's advisory lock, looks for a kept          *)
(* response, else does the work and keeps its response with it.             *)
(*                                                                         *)
(* Keys are per person, so a key here is the pair.  What an attempt made is *)
(* named by the attempt.  Hours pass one kept response at a time.           *)
(***************************************************************************)
EXTENDS Absent, FiniteSets

CONSTANTS
    Attempt,
    Key,
    Body,      \* method, path and body of a request, as their digest tells them apart
    KeyOf,     \* the key an attempt is sent with, or None
    BodyOf

ASSUME KeyOfAssumption == KeyOf \in [Attempt -> Key \cup {None}]
ASSUME BodyOfAssumption == BodyOf \in [Attempt -> Body]
ASSUME NoKeyAssumption == None \notin Key /\ None \notin Attempt

VARIABLES
    stage,     \* how far each attempt has come
    holder,    \* the attempt that holds a key's advisory lock
    kept,      \* api.idempotency_key: the attempts whose response is kept
    expired,   \* those kept for 24 hours
    made,      \* what has been created and committed
    told       \* the answer of each attempt: "refused", "reused" or what was created

retriesVars == <<stage, holder, kept, expired, made, told>>

AttemptStage == {"unsent", "waiting", "locked", "making", "worked", "over"}

RetriesInit ==
    /\ stage = [a \in Attempt |-> "unsent"]
    /\ holder = [k \in Key |-> None]
    /\ kept = {} /\ expired = {} /\ made = {}
    /\ told = [a \in Attempt |-> <<>>]

\* An attempt without a key looks nothing up.
Send(a) ==
    /\ stage[a] = "unsent"
    /\ stage' = [stage EXCEPT ![a] = IF KeyOf[a] = None THEN "making" ELSE "waiting"]
    /\ UNCHANGED <<holder, kept, expired, made, told>>

\* Mutant of TakeLock: two attempts under a key at once.
TakeLockAnyway(a) ==
    /\ stage[a] = "waiting"
    /\ holder' = [holder EXCEPT ![KeyOf[a]] = a]
    /\ stage' = [stage EXCEPT ![a] = "locked"]
    /\ UNCHANGED <<kept, expired, made, told>>

TakeLock(a) ==
    /\ stage[a] = "waiting"
    /\ holder[KeyOf[a]] = None
    /\ holder' = [holder EXCEPT ![KeyOf[a]] = a]
    /\ stage' = [stage EXCEPT ![a] = "locked"]
    /\ UNCHANGED <<kept, expired, made, told>>

\* The transaction ends, committed or not, and its lock with it.
Over(a) ==
    /\ stage' = [stage EXCEPT ![a] = "over"]
    /\ holder' = [k \in Key |-> IF holder[k] = a THEN None ELSE holder[k]]

Fresh == kept \ expired
KeptFor(a) == {b \in Fresh : KeyOf[b] = KeyOf[a]}

LookUp(a) ==
    /\ stage[a] = "locked" /\ KeptFor(a) = {}
    /\ stage' = [stage EXCEPT ![a] = "making"]
    /\ UNCHANGED <<holder, kept, expired, made, told>>

\* Mutant of Replay: the request is not compared.
ReplayAny(a) ==
    /\ stage[a] = "locked"
    /\ \E b \in KeptFor(a) : told' = [told EXCEPT ![a] = <<"made", b>>]
    /\ Over(a)
    /\ UNCHANGED <<kept, expired, made>>

Replay(a) ==
    /\ stage[a] = "locked"
    /\ \E b \in KeptFor(a) :
          told' = [told EXCEPT ![a] = IF BodyOf[b] = BodyOf[a] THEN <<"made", b>>
                                      ELSE <<"reused">>]
    /\ Over(a)
    /\ UNCHANGED <<kept, expired, made>>

\* The work is refused and rolled back; nothing is kept.
Refuse(a) ==
    /\ stage[a] = "making"
    /\ told' = [told EXCEPT ![a] = <<"refused">>]
    /\ Over(a)
    /\ UNCHANGED <<kept, expired, made>>

Work(a) ==
    /\ stage[a] = "making"
    /\ stage' = [stage EXCEPT ![a] = "worked"]
    /\ UNCHANGED <<holder, kept, expired, made, told>>

\* One COMMIT for the work and the kept response.
CommitWork(a) ==
    /\ stage[a] = "worked"
    /\ made' = made \cup {a}
    /\ kept' = IF KeyOf[a] = None THEN kept ELSE kept \cup {a}
    /\ told' = [told EXCEPT ![a] = <<"made", a>>]
    /\ Over(a)
    /\ UNCHANGED expired

\* The server stops, or the connection breaks, before the COMMIT.
Broken(a) ==
    /\ stage[a] \in {"waiting", "locked", "making", "worked"}
    /\ Over(a)
    /\ UNCHANGED <<kept, expired, made, told>>

HoursPass(b) ==
    /\ b \in Fresh
    /\ expired' = expired \cup {b}
    /\ UNCHANGED <<stage, holder, kept, made, told>>

Serve(a) == TakeLock(a) \/ LookUp(a) \/ Replay(a) \/ Refuse(a) \/ Work(a) \/ CommitWork(a)

RetriesNext ==
    \E a \in Attempt : Send(a) \/ Serve(a) \/ Broken(a) \/ HoursPass(a)

RetriesSpec == RetriesInit /\ [][RetriesNext]_retriesVars

-----------------------------------------------------------------------------
(* Properties.                                                              *)

(***************************************************************************)
(* The types of the variables.                                             *)
(***************************************************************************)
RetriesTypeOK ==
    /\ stage \in [Attempt -> AttemptStage]
    /\ holder \in [Key -> Attempt \cup {None}]
    /\ kept \subseteq Attempt /\ expired \subseteq Attempt /\ made \subseteq Attempt
    /\ told \in [Attempt -> {<<>>, <<"refused">>, <<"reused">>}
                            \cup {<<"made", b>> : b \in Attempt}]

(***************************************************************************)
(* "Runs make once per key": however attempts overlap, break and are       *)
(* retried, at most one response is kept under a key in any 24 hours, and  *)
(* what was created under a key is kept.                                   *)
(***************************************************************************)
OncePerKey ==
    /\ \A a, b \in Fresh : KeyOf[a] = KeyOf[b] => a = b
    /\ \A a \in made : KeyOf[a] # None => a \in kept

(***************************************************************************)
(* "A repeat of the same request gets the first response back": an answer  *)
(* that names something created names what was created and committed, by   *)
(* an attempt with the same key and the same request; an attempt that was  *)
(* not told so has created nothing.                                        *)
(***************************************************************************)
AnswersAreOfTheRequest ==
    \A a \in Attempt :
        /\ \A b \in Attempt : told[a] = <<"made", b>> =>
              /\ b \in made
              /\ b = a \/ (KeyOf[b] # None /\ KeyOf[b] = KeyOf[a] /\ BodyOf[b] = BodyOf[a])
        /\ a \in made => told[a] = <<"made", a>>
=============================================================================
