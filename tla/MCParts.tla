------------------------------ MODULE MCParts -------------------------------
(***************************************************************************)
(* The parts that share no state, side by side: a behaviour is one of one  *)
(* part, with the others where they began.                                 *)
(***************************************************************************)
EXTENDS EventFeed, Evaluations, Visibility, Retries, Paging, Joins, Checks,
        Duplicates, Retention, Verdicts, Imports, Backups, OpeningLoads

CONSTANTS a1, a2

VARIABLE part

(***************************************************************************)
(* Values of the constants.                                                *)
(***************************************************************************)

\* Two assessments of one candidate, and one sales application of another.
MCSubmitterOf == [a \in Submission |-> IF a \in Sales THEN "c2" ELSE "c1"]

MCRolesOf ==
    [r1 |-> {"recruiter"}, r2 |-> {"recruiter"}, lead |-> {"ta_lead"}, admin |-> {"admin"},
     owner |-> {"criteria_owner"}]

\* Two attempts alike under a key, one with another body, one without a key.
MCKeyOf == [a \in Attempt |-> IF a = 4 THEN None ELSE "k1"]
MCBodyOf == [a \in Attempt |-> IF a = 3 THEN "b2" ELSE "b1"]

MCMatching == {<<1, 2>>}

MCPiece ==
    {<<"phone", "phone", "p">>, <<"email", "email", "e">>, <<"email", "phone", "p">>,
     <<"profile_url", "profile_url", "u">>, <<"full_name", "name_latin", "n">>}

MCMonths == [no_application |-> 1, in_process |-> None, rejected |-> 1, hired |-> 1, withdrawn |-> 1]

MCFact ==
    {[place |-> {"near", "cairo"}], [place |-> {"cairo"}], [place |-> {"outside"}],
     [title |-> {}, salesWords |-> 4], [title |-> {"sales_manager", "manager"}, salesWords |-> 1],
     [title |-> {"senior_team_leader", "team_leader"}],
     [title |-> {"associate_supervisor", "supervisor"}],
     [own |-> TRUE], [brokerage |-> TRUE, employer |-> "premium"],
     [brokerage |-> TRUE, former |-> TRUE], [employer |-> "standard"],
     [education |-> {"bachelor"}], [education |-> {"diploma", "high_school"}],
     [contact |-> {"egyptian_phone", "email"}], [contact |-> {"profile_url"}],
     [months |-> 12], [months |-> 132], [age |-> 24], [age |-> 30], [age |-> 33],
     [tiktok |-> TRUE], [remoteOnly |-> TRUE]}

MCCell(age, title, score, signals) ==
    [age |-> age, title |-> title, score |-> score, signals |-> signals]
MCScore(tenths, comma) == [tenths |-> tenths, comma |-> comma]
MCFirst == MCCell("27", "?", MCScore(820, FALSE), "near")
MCCells ==
    {MCFirst, MCCell("0", None, None, None),
     MCCell(None, "agent", MCScore(825, FALSE), None), MCCell("?", "?", MCScore(1200, FALSE), None),
     MCCell("27", "agent", MCScore(1000, TRUE), "near")}

-----------------------------------------------------------------------------
Parts ==
    {"feed", "assessments", "scorings", "visibility", "retries", "paging", "joins", "checks",
     "duplicates", "retention", "verdicts", "imports", "backups", "openings"}

PartsInit ==
    /\ part \in Parts
    /\ Init /\ EvaluationsInit /\ VisibilityInit /\ RetriesInit /\ PagingInit
    /\ JoinsInit /\ ChecksInit /\ DuplicatesInit /\ RetentionInit /\ VerdictsInit
    /\ ImportsInit /\ BackupsInit /\ OpeningLoadsInit
    /\ IF part = "imports" THEN sheet[3] \in {None, MCFirst} ELSE sheet = [r \in SheetRow |-> None]
    /\ part # "backups" => \A table \in Table : rows[table] = 0
    /\ part # "paging" => direction = "before" /\ inScope = {}
    /\ part \notin {"assessments", "scorings"} => uploaded = {}
    /\ part = "scorings" => uploaded = Submitter

\* The applications at work, and their candidate.  An assessment asks neither
\* for a withdrawal nor for an outcome.
Scope == IF part = "scorings" THEN Sales ELSE Submission \ Sales
ScopeOnly ==
    /\ \A a \in Submission \ Scope : work'[a].status = "none"
    /\ \E a \in Scope : locked' \subseteq {Whose(a)} /\ uploaded' \ uploaded \subseteq {Whose(a)}
    /\ part = "assessments" => locked' = {} /\ ended' = {}

\* Of the second candidate, only what joining it needs.
SecondIsPlain ==
    /\ \A i \in waiting' : i[2] = "c1" /\ i[3] \in {None, "r1"}
    /\ \A a \in applied' : a[1] = "c1"
    /\ typedBy'["c1"] \in {None, "r1"} /\ typedBy'["c2"] \in {None, "r1"}
    /\ typedBy'["c2"] # None => typedBy'["c1"] = "r1"
    /\ "c2" \notin archived'
    /\ "c2" \in created' => "c2" \in unchecked'
    /\ Cardinality(waiting' \cup done') <= 2

\* Of the second applicant, only a file; the second run begins during the
\* first, is not stopped and is about the first applicant; a policy is there
\* from the start or never, withdrawals come and go and readings begin before
\* the first run, and a month passes before the second.
SecondOnlySends ==
    /\ eraser["e"].stage \notin {"erasing", "files"} => (eraser'["f"].stage = "idle" \/ eraser["f"].stage # "idle")
    /\ inForce' # inForce => known = {}
    /\ asking' # asking \/ ~(beingRead' \subseteq beingRead) => eraser["e"].stage = "idle"
    /\ (\E c \in Applicant : clock'[c] > clock[c]) => eraser["f"].stage = "idle"
    /\ 2 \notin asking' /\ \A a \in applying' : a[1] = 1
    /\ eraser'["f"].stage \notin {"stopped", "left"} /\ eraser'["f"].due \subseteq {1}
    /\ \A a \in DOMAIN result' : result'[a] # "hired"

\* Three ways to be linked, one record with a number in its email column, two
\* with a name, one candidate who asks that their data is not kept.
OneAsksToStop ==
    /\ unmatched' \subseteq {3}
    /\ <<"email", "phone", "p">> \notin cells'[1]
    /\ \A p \in cells'[2] : p[2] \in {"phone", "email", "name_latin"} /\ p # <<"email", "phone", "p">>
    /\ \A p \in cells'[3] : p[2] # "name_latin"

\* Whoever joins alone is the first of the two; the third record is joined, not joined into.
FirstIsFirst ==
    /\ joiner["t"].stage = "idle" /\ joiner["u"].stage = "idle" => joiner'["u"].stage = "idle"
    /\ \A t \in Joiner : joiner'[t].primary # 3

\* The deployment's take begins during the nightly one; the table only fills, before that.
FewWrites ==
    /\ \A table \in Table : rows'[table] >= rows[table]
    /\ taking["deploy"].stage # "idle" => rows' = rows
    /\ (\A t \in Taking : taking[t].stage = "idle") => taking'["deploy"].stage = "idle"

\* The third row is edited or moved into; a person checks or erases the second.
ThirdIsEdited ==
    /\ sheet'[2] # sheet[2] => sheet'[3] = sheet[2]
    /\ gone' \subseteq {2} /\ checked' \subseteq {2} \X FieldColumn

\* Two openings of a line are one too many already.
FewOpen == \A k \in FileLine : open'[k] <= 2

PartsNext ==
    \/ /\ part = "feed" /\ Next
       /\ UNCHANGED <<part, evaluationsVars, visibilityVars, retriesVars, pagingVars, joinsVars,
                      checksVars, duplicatesVars, retentionVars, verdictsVars,
                      importsVars, backupsVars, openingLoadsVars>>
    \/ /\ part \in {"assessments", "scorings"} /\ EvaluationsNext /\ ScopeOnly
       /\ UNCHANGED <<part, vars, visibilityVars, retriesVars, pagingVars, joinsVars,
                      checksVars, duplicatesVars, retentionVars, verdictsVars,
                      importsVars, backupsVars, openingLoadsVars>>
    \/ /\ part = "visibility" /\ VisibilityNext /\ SecondIsPlain
       /\ UNCHANGED <<part, vars, evaluationsVars, retriesVars, pagingVars, joinsVars,
                      checksVars, duplicatesVars, retentionVars, verdictsVars,
                      importsVars, backupsVars, openingLoadsVars>>
    \/ /\ part = "retries" /\ RetriesNext
       /\ UNCHANGED <<part, vars, evaluationsVars, visibilityVars, pagingVars, joinsVars,
                      checksVars, duplicatesVars, retentionVars, verdictsVars,
                      importsVars, backupsVars, openingLoadsVars>>
    \/ /\ part = "paging" /\ PagingNext
       /\ UNCHANGED <<part, vars, evaluationsVars, visibilityVars, retriesVars, joinsVars,
                      checksVars, duplicatesVars, retentionVars, verdictsVars,
                      importsVars, backupsVars, openingLoadsVars>>
    \/ /\ part = "joins" /\ JoinsNext /\ FirstIsFirst
       /\ UNCHANGED <<part, vars, evaluationsVars, visibilityVars, retriesVars, pagingVars,
                      checksVars, duplicatesVars, retentionVars, verdictsVars,
                      importsVars, backupsVars, openingLoadsVars>>
    \/ /\ part = "checks" /\ ChecksNext
       /\ UNCHANGED <<part, vars, evaluationsVars, visibilityVars, retriesVars, pagingVars,
                      joinsVars, duplicatesVars, retentionVars, verdictsVars,
                      importsVars, backupsVars, openingLoadsVars>>
    \/ /\ part = "duplicates" /\ DuplicatesNext /\ OneAsksToStop
       /\ UNCHANGED <<part, vars, evaluationsVars, visibilityVars, retriesVars, pagingVars,
                      joinsVars, checksVars, retentionVars, verdictsVars,
                      importsVars, backupsVars, openingLoadsVars>>
    \/ /\ part = "retention" /\ RetentionNext /\ SecondOnlySends
       /\ UNCHANGED <<part, vars, evaluationsVars, visibilityVars, retriesVars, pagingVars,
                      joinsVars, checksVars, duplicatesVars, verdictsVars,
                      importsVars, backupsVars, openingLoadsVars>>
    \/ /\ part = "verdicts" /\ VerdictsNext
       /\ UNCHANGED <<part, vars, evaluationsVars, visibilityVars, retriesVars, pagingVars,
                      joinsVars, checksVars, duplicatesVars, retentionVars,
                      importsVars, backupsVars, openingLoadsVars>>
    \/ /\ part = "imports" /\ ImportsNext /\ ThirdIsEdited
       /\ UNCHANGED <<part, vars, evaluationsVars, visibilityVars, retriesVars, pagingVars,
                      joinsVars, checksVars, duplicatesVars, retentionVars, verdictsVars,
                      backupsVars, openingLoadsVars>>
    \/ /\ part = "backups" /\ BackupsNext /\ FewWrites
       /\ UNCHANGED <<part, vars, evaluationsVars, visibilityVars, retriesVars, pagingVars,
                      joinsVars, checksVars, duplicatesVars, retentionVars, verdictsVars,
                      importsVars, openingLoadsVars>>
    \/ /\ part = "openings" /\ OpeningLoadsNext /\ FewOpen
       /\ UNCHANGED <<part, vars, evaluationsVars, visibilityVars, retriesVars, pagingVars,
                      joinsVars, checksVars, duplicatesVars, retentionVars, verdictsVars,
                      importsVars, backupsVars>>

partsVars ==
    <<part, vars, evaluationsVars, visibilityVars, retriesVars, pagingVars, joinsVars, checksVars,
      duplicatesVars, retentionVars, verdictsVars, importsVars, backupsVars, openingLoadsVars>>

PartsSpec ==
    /\ PartsInit /\ [][PartsNext]_partsVars
    /\ \A a \in Submission : WF_evaluationsVars(RunOf(a))
=============================================================================
