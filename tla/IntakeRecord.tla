---------------------------- MODULE IntakeRecord ----------------------------
(***************************************************************************)
(* What the platform promises about uploaded CVs, with no workers, slots,  *)
(* retries or transactions in sight: a reading answers a request to read   *)
(* the file; each reader's reading of a file is recorded once, for good;   *)
(* what a person must look at is flagged with it; and a CV is given up     *)
(* only if nobody has read it and no request for it is left.               *)
(***************************************************************************)
EXTENDS Naturals

CONSTANTS File, Reader, GaveUp, Request, Answer, Failure

VARIABLES
    uploaded,   \* files with a committed upload
    asked,      \* [File -> SUBSET Request]: the requests to read it still open
    answers,    \* readings: [file, reader, outcome]
    flagged     \* files sent to a person, each with the reason

intakeVars == <<uploaded, asked, answers, flagged>>

Abandoned == "ocr_failed"
Flag(outcome) == IF outcome = "hidden" THEN {"hidden_content"}
                 ELSE IF outcome = "read" THEN {} ELSE {outcome}

Answered(f) == \E a \in answers : a.file = f

Init ==
    /\ uploaded = {}
    /\ asked = [f \in File |-> {}]
    /\ answers = {}
    /\ flagged = {}

(***************************************************************************)
(* A new file, or one that has been answered, is to be read.               *)
(***************************************************************************)
Ask(f, q) ==
    /\ f \notin uploaded \/ Answered(f)
    /\ \A g \in File : q \notin asked[g]
    /\ uploaded' = uploaded \cup {f}
    /\ asked' = [asked EXCEPT ![f] = @ \cup {q}]
    /\ UNCHANGED <<answers, flagged>>

Reply(f, q, r, outcome) ==
    /\ q \in asked[f]
    /\ \A a \in answers : ~(a.file = f /\ a.reader = r)
    /\ asked' = [asked EXCEPT ![f] = @ \ {q}]
    /\ answers' = answers \cup {[file |-> f, reader |-> r, outcome |-> outcome]}
    /\ flagged' = flagged \cup ({f} \X Flag(outcome))
    /\ UNCHANGED uploaded

(***************************************************************************)
(* Nothing to add: the reader has answered before, or the job failed.      *)
(***************************************************************************)
Drop(f, q) ==
    /\ q \in asked[f]
    /\ asked' = [asked EXCEPT ![f] = @ \ {q}]
    /\ UNCHANGED <<uploaded, answers, flagged>>

GiveUp(S) ==
    /\ \A f \in S : f \in uploaded /\ asked[f] = {} /\ ~Answered(f)
    /\ answers' = answers \cup {[file |-> f, reader |-> GaveUp, outcome |-> Abandoned] : f \in S}
    /\ flagged' = flagged \cup (S \X {Abandoned})
    /\ UNCHANGED <<uploaded, asked>>

Next ==
    \/ \E S \in SUBSET File : GiveUp(S)
    \/ \E f \in File, q \in Request :
          \/ Ask(f, q)
          \/ Drop(f, q)
          \/ \E r \in Reader, outcome \in Answer \cup Failure : Reply(f, q, r, outcome)

Spec == Init /\ [][Next]_intakeVars
=============================================================================
