------------------------------ MODULE Imports -------------------------------
(***************************************************************************)
(* The import of the master workbook (importer/tai_master.py, rows.py) and *)
(* the count that is made of it afterwards (importer/reconcile.py).        *)
(*                                                                         *)
(* A row of the sheet is a record of cells; two columns stand for the      *)
(* thirteen that become fields, with and without markers for "no value".   *)
(* A score is the tenths a cell reads as, and whether it has a comma.      *)
(***************************************************************************)
EXTENDS Absent, Integers, FiniteSets, Sequences, SequencesExt

CONSTANTS
    SheetRow,    \* numbers of rows that follow each other
    Cells,       \* what a row can hold
    MaxEdits,    \* bound of how often the workbook is saved
    MaxChecks    \* bound of how often a person checks a field

ASSUME SheetRowAssumption ==
    SheetRow \subseteq Int /\ \A first, last \in SheetRow : first .. last \subseteq SheetRow
ASSUME CellsAssumption ==
    /\ None \notin Cells /\ None \notin 0 .. 100
    /\ \A cells \in Cells :
          /\ cells.score # None => cells.score.tenths \in Int
          /\ \A whole \in 0 .. 100, text \in {cells.signals, None} :
                [score |-> whole, text |-> text] # None

VARIABLES
    sheet,       \* the workbook: each row's cells, or None
    reading,     \* the import under way: its stage, the rows and the hash it read
    workbooks,   \* workbooks captured
    capture,     \* per row, the cells its candidate was made from, or None
    file,        \* rows whose capture is in the object store
    fieldRows,   \* per row and column, the candidate's rows of that field, oldest first
    evaluation,  \* per row, the stored evaluation: its score and its text, or None
    gone,        \* rows whose candidate was erased
    checked,     \* the fields a person ever checked
    edits

importsVars ==
    <<sheet, reading, workbooks, capture, file, fieldRows, evaluation, gone, checked, edits>>

FieldColumn == {"age", "title"}
Marker == [age |-> {"?", "0"}, title |-> {}]

NotReading == [stage |-> "idle", rows |-> None, hash |-> None]

\* The rows of a sheet that are not blank.
Filled(rows) == {r \in SheetRow : rows[r] # None}

ImportsInit ==
    /\ sheet \in [SheetRow -> Cells \cup {None}]
    /\ reading = NotReading /\ workbooks = {} /\ file = {}
    /\ gone = {} /\ checked = {} /\ edits = 0
    /\ capture = [r \in SheetRow |-> None] /\ evaluation = [r \in SheetRow |-> None]
    /\ fieldRows = [r \in SheetRow |-> [column \in FieldColumn |-> <<>>]]

-----------------------------------------------------------------------------
(* prepare_row.                                                             *)

FieldValue(column, cell) ==
    IF cell = None \/ cell \in Marker[column]
    THEN [value |-> None, status |-> "not_recorded"]
    ELSE [value |-> cell, status |-> "unverified"]

\* number, then a whole number from 0 to 100.
StoredScore(cell) ==
    IF cell = None \/ cell.tenths % 10 # 0 \/ cell.tenths \notin 0 .. 1000 THEN None
    ELSE cell.tenths \div 10

StoredEvaluation(cells) ==
    IF StoredScore(cells.score) = None THEN None
    ELSE [score |-> StoredScore(cells.score), text |-> cells.signals]

-----------------------------------------------------------------------------
(* The import: the rows, the hash and the bytes of the file are read one    *)
(* after the other, and all that is written is one transaction.             *)

EditSheet(r, cells) ==
    /\ edits < MaxEdits /\ cells # sheet[r]
    /\ edits' = edits + 1
    /\ sheet' = [sheet EXCEPT ![r] = cells]
    /\ UNCHANGED <<reading, workbooks, capture, file, fieldRows, evaluation, gone, checked>>

\* A row put in moves those from it on down by one.
InsertRow(r, cells) ==
    /\ edits < MaxEdits
    /\ \A last \in SheetRow : last + 1 \notin SheetRow => sheet[last] = None
    /\ edits' = edits + 1
    /\ sheet' = [row \in SheetRow |->
                    IF row < r THEN sheet[row] ELSE IF row = r THEN cells ELSE sheet[row - 1]]
    /\ UNCHANGED <<reading, workbooks, capture, file, fieldRows, evaluation, gone, checked>>

ReadRows ==
    /\ reading.stage = "idle"
    /\ reading' = [stage |-> "rows", rows |-> sheet, hash |-> None]
    /\ UNCHANGED <<sheet, workbooks, capture, file, fieldRows, evaluation, gone, checked, edits>>

HashFile ==
    /\ reading.stage = "rows"
    /\ reading' = [reading EXCEPT !.stage = "hash", !.hash = sheet]
    /\ UNCHANGED <<sheet, workbooks, capture, file, fieldRows, evaluation, gone, checked, edits>>

\* A row whose capture differs waits for a person: nothing is written for it.
Takes(r) == capture[r] \in {None, reading.rows[r]}

\* candidate_field_imported_once: at most one import row that is not verified.
WithImported(rows, new) ==
    IF \E i \in DOMAIN rows : rows[i].status # "verified" THEN rows ELSE Append(rows, new)

\* Mutant of InsertField: the newest row is the arbiter, so a checked field is imported again.
InsertFieldOverCheck(r, column) ==
    LET new == FieldValue(column, reading.rows[r][column])
        rows == fieldRows[r][column]
    IN  IF rows # <<>> /\ Last(rows).status # "verified" THEN rows ELSE Append(rows, new)

InsertField(r, column) ==
    WithImported(fieldRows[r][column], FieldValue(column, reading.rows[r][column]))

\* The file is absent when its capture is new, and is not put back for one that exists.
ImportWorkbook ==
    LET taken == {r \in Filled(reading.rows) : Takes(r)}
    IN  /\ reading.stage = "hash"
        /\ reading' = NotReading
        /\ IF reading.hash # sheet
           THEN UNCHANGED <<workbooks, capture, file, fieldRows, evaluation>>
           ELSE /\ workbooks' = workbooks \cup {reading.hash}
                /\ file' = file \cup {r \in taken : capture[r] = None}
                /\ capture' = [r \in SheetRow |->
                                  IF r \in taken THEN reading.rows[r] ELSE capture[r]]
                /\ fieldRows' = [r \in SheetRow |->
                                  IF r \in taken
                                  THEN [column \in FieldColumn |-> InsertField(r, column)]
                                  ELSE fieldRows[r]]
                /\ evaluation' = [r \in SheetRow |->
                                     IF r \in taken /\ evaluation[r] = None
                                     THEN StoredEvaluation(reading.rows[r]) ELSE evaluation[r]]
        /\ UNCHANGED <<sheet, gone, checked, edits>>

\* verify_field: a verified row beside the others.
AddCheck(r, column, value) ==
    /\ Cardinality(checked) < MaxChecks
    /\ checked' = checked \cup {<<r, column>>}
    /\ fieldRows' = [fieldRows EXCEPT ![r][column] =
                     Append(@, [value |-> value, status |-> "verified"])]
    /\ UNCHANGED <<sheet, reading, workbooks, capture, file, evaluation, gone, edits>>

\* "Right as it is", unless there is nothing there.
CheckAsItIs(r, column) ==
    /\ fieldRows[r][column] # <<>>
    /\ Last(fieldRows[r][column]).status # "not_recorded"
    /\ AddCheck(r, column, Last(fieldRows[r][column]).value)

CorrectField(r, column) ==
    /\ fieldRows[r][column] # <<>>
    /\ AddCheck(r, column, "corrected")

\* erase_candidate: the fields, the file and the words of the verdict.  What
\* was captured stays known by its hash, and the workbook itself is kept.
EraseImported(r) ==
    /\ capture[r] # None /\ r \notin gone
    /\ gone' = gone \cup {r}
    /\ fieldRows' = [fieldRows EXCEPT ![r] = [column \in FieldColumn |-> <<>>]]
    /\ file' = file \ {r}
    /\ evaluation' = [evaluation EXCEPT ![r] = IF @ = None THEN None ELSE [@ EXCEPT !.text = None]]
    /\ UNCHANGED <<sheet, reading, workbooks, capture, checked, edits>>

ImportsNext ==
    \/ \E r \in SheetRow :
        \/ \E cells \in Cells : EditSheet(r, cells) \/ InsertRow(r, cells)
        \/ \E column \in FieldColumn : CheckAsItIs(r, column) \/ CorrectField(r, column)
        \/ EraseImported(r)
    \/ ReadRows \/ HashFile \/ ImportWorkbook

ImportsSpec == ImportsInit /\ [][ImportsNext]_importsVars

-----------------------------------------------------------------------------
(* reconcile: what the database should hold, written a second time.         *)

ExpectedField(column, cell) ==
    LET nothing == cell = None \/ cell \in Marker[column]
    IN  [value |-> IF nothing THEN None ELSE cell,
         status |-> IF nothing THEN "not_recorded" ELSE "unverified"]

\* Decimal does not read a number with a comma in it.
WholeScore(cell) == IF cell = None \/ cell.comma THEN None ELSE StoredScore(cell)

CapturesMatch ==
    /\ sheet \in workbooks
    /\ Filled(capture) = Filled(sheet)
    /\ \A r \in Filled(sheet) : r \in file /\ capture[r] = sheet[r]

FieldsMatch ==
    \A r \in Filled(sheet), column \in FieldColumn :
        /\ fieldRows[r][column] # <<>>
        /\ Last(fieldRows[r][column]) = ExpectedField(column, sheet[r][column])

EvaluationsMatch ==
    LET scored == {r \in Filled(sheet) : WholeScore(sheet[r].score) # None}
    IN  /\ Filled(evaluation) = scored
        /\ \A r \in scored :
              evaluation[r] = [score |-> WholeScore(sheet[r].score), text |-> sheet[r].signals]

\* The replay reads every number that is stored, whole or not.
ReplayReadsTheSame ==
    \A r \in SheetRow :
        IF sheet[r] = None \/ sheet[r].score = None THEN evaluation[r] = None
        ELSE evaluation[r] # None /\ evaluation[r].score * 10 = sheet[r].score.tenths

CountsMatch == CapturesMatch /\ FieldsMatch /\ EvaluationsMatch /\ ReplayReadsTheSame

-----------------------------------------------------------------------------
(* Properties.                                                              *)

(***************************************************************************)
(* A workbook that was imported counts as matching exactly when nothing is *)
(* to be explained: every row is still the one its candidate was made      *)
(* from, no row left the sheet, nobody checked a field or was erased, and  *)
(* each score is a whole number up to 100 that is written without a comma. *)
(* So however often the workbook is saved and imported again, nothing that *)
(* a person checked is written over without the count saying so, and a row *)
(* that differs from an earlier import is not taken for the same.          *)
(***************************************************************************)
CountExplainsEveryDifference ==
    sheet \in workbooks =>
        (CountsMatch <=>
            \A r \in SheetRow :
                /\ capture[r] = sheet[r]
                /\ r \notin gone /\ \A column \in FieldColumn : <<r, column>> \notin checked
                /\ sheet[r] # None /\ sheet[r].score # None =>
                      StoredScore(sheet[r].score) # None /\ ~sheet[r].score.comma)
=============================================================================
