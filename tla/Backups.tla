------------------------------ MODULE Backups -------------------------------
(***************************************************************************)
(* Backups of the database (ops/backup.py): taking one, restoring it as a  *)
(* check unless it is told not to, and removing the old ones.  The nightly *)
(* job and a deployment take them on their own, into one directory.        *)
(*                                                                         *)
(* Dumps are numbered in the order of their names, which say when each was *)
(* begun.  What a table holds is how many rows it has.                     *)
(***************************************************************************)
EXTENDS Absent, Integers, FiniteSets

CONSTANTS
    Table,
    MostRows,    \* bound of the rows of a table
    Taking,      \* who takes backups
    Keep,        \* --keep: dumps that are kept
    MaxDumps     \* bound of the dumps that are begun

ASSUME KeepAssumption == Keep \in Nat \ {0}
ASSUME BackupsBounds == MostRows \in Nat \ {0} /\ MaxDumps \in Nat

\* What a dump holds, or was counted, per table.
Counts == [Table -> 0 .. MostRows]

ASSUME NothingAssumption == \A something \in Counts : something # None

VARIABLES
    rows,      \* the rows of each table
    begun,     \* dumps begun
    taking,    \* each take: whether its dump will be restored as a check, its stage, its
               \*   dump, what that holds and what was counted, and the takes begun since
    dumps,     \* the directory: of each dump, what its manifest says of the check
    proved,    \* a dump was restored and has its manifest
    outrun,    \* as many takes as are kept were begun during one that then pruned
    skipped    \* a take with --no-verify has pruned

backupsVars == <<rows, begun, taking, dumps, proved, outrun, skipped>>

NotTaking ==
    [stage |-> "idle", verify |-> TRUE, dump |-> None, body |-> None, counts |-> None, since |-> 0]

BackupsInit ==
    /\ rows \in [Table -> {0, 1}]
    /\ begun = 0 /\ dumps = <<>> /\ proved = FALSE /\ outrun = FALSE /\ skipped = FALSE
    /\ taking = [t \in Taking |-> NotTaking]

TakeAt(t, stage) == taking[t].stage = stage
TakeGoes(t, stage) == taking' = [taking EXCEPT ![t].stage = stage]

\* The platform goes on writing, and a retention run erasing.
ChangeRows(table, change) ==
    /\ rows[table] + change \in 0 .. MostRows
    /\ rows' = [rows EXCEPT ![table] = @ + change]
    /\ UNCHANGED <<begun, taking, dumps, proved, outrun, skipped>>

-----------------------------------------------------------------------------
(* take.                                                                    *)

\* The name, and pg_dump's snapshot; verify is not --no-verify.
Dump(t, verify) ==
    /\ begun < MaxDumps /\ TakeAt(t, "idle")
    /\ begun' = begun + 1
    /\ taking' = [u \in Taking |->
                     IF u = t
                     THEN [NotTaking EXCEPT !.stage = "dumped", !.verify = verify,
                                            !.dump = begun + 1, !.body = rows]
                     ELSE IF TakeAt(u, "idle") THEN NotTaking
                     ELSE [taking[u] EXCEPT !.since = @ + 1]]
    /\ UNCHANGED <<rows, dumps, proved, outrun, skipped>>

\* The file is there before all of it is.
WriteDump(t) ==
    /\ TakeAt(t, "dumped") /\ TakeGoes(t, "written")
    /\ dumps' = [d \in DOMAIN dumps \cup {taking[t].dump} |->
                    IF d = taking[t].dump THEN "no manifest" ELSE dumps[d]]
    /\ UNCHANGED <<rows, begun, proved, outrun, skipped>>

\* By then another take may have removed it.
InDirectory(t) == taking[t].dump \in DOMAIN dumps

\* row_counts, for the manifest: of the database as it is by then.
CountRows(t) ==
    /\ TakeAt(t, "written")
    /\ taking' = [taking EXCEPT ![t].stage = IF taking[t].verify THEN "counted" ELSE "checked",
                                ![t].counts = rows]
    /\ UNCHANGED <<rows, begun, dumps, proved, outrun, skipped>>

\* The tables that came back with nothing in them and have rows by now.
Empty(body, counts) == {table \in Table : body[table] = 0 /\ counts[table] > 0}

\* Reads the file again.  A table filled after the dump is one that came back empty.
CheckDump(t) ==
    /\ TakeAt(t, "counted")
    /\ IF InDirectory(t) /\ Empty(taking[t].body, taking[t].counts) = {}
       THEN TakeGoes(t, "checked")
       ELSE taking' = [taking EXCEPT ![t] = NotTaking]
    /\ UNCHANGED <<rows, begun, dumps, proved, outrun, skipped>>

\* Without its dump, a manifest is a file that nothing reads.
WriteManifest(t) ==
    /\ TakeAt(t, "checked") /\ TakeGoes(t, "recorded")
    /\ IF InDirectory(t)
       THEN /\ dumps' = [dumps EXCEPT ![taking[t].dump] =
                            IF taking[t].verify THEN "restored" ELSE "not restored"]
            /\ proved' = (proved \/ taking[t].verify)
       ELSE UNCHANGED <<dumps, proved>>
    /\ UNCHANGED <<rows, begun, outrun, skipped>>

\* Mutant of Newest: one dump fewer is kept.
NewestButOne(n) == {d \in DOMAIN dumps : Cardinality({e \in DOMAIN dumps : e > d}) < n - 1}

Newest(n) == {d \in DOMAIN dumps : Cardinality({e \in DOMAIN dumps : e > d}) < n}

Prune(t) ==
    /\ TakeAt(t, "recorded")
    /\ taking' = [taking EXCEPT ![t] = NotTaking]
    /\ dumps' = [d \in Newest(Keep) |-> dumps[d]]
    /\ outrun' = (outrun \/ taking[t].since >= Keep)
    /\ skipped' = (skipped \/ ~taking[t].verify)
    /\ UNCHANGED <<rows, begun, proved>>

\* A command fails, the disk is full, the machine stops: what is there stays.
StopTaking(t) ==
    /\ ~TakeAt(t, "idle")
    /\ taking' = [taking EXCEPT ![t] = NotTaking]
    /\ UNCHANGED <<rows, begun, dumps, proved, outrun, skipped>>

BackupsNext ==
    \/ \E table \in Table, change \in {1, -1} : ChangeRows(table, change)
    \/ \E t \in Taking :
        \/ \E verify \in BOOLEAN : Dump(t, verify)
        \/ WriteDump(t) \/ CountRows(t) \/ CheckDump(t) \/ WriteManifest(t) \/ Prune(t)
        \/ StopTaking(t)

BackupsSpec == BackupsInit /\ [][BackupsNext]_backupsVars

-----------------------------------------------------------------------------
(* What is made of the directory later on.                                  *)

\* list and backup_freshness: manifest["restored"]["ok"].
Restored == {d \in DOMAIN dumps : dumps[d] = "restored"}

(***************************************************************************)
(* "Keeps the newest `keep` backups. Never removes the only one we have":  *)
(* once a backup was restored as a check, there is always one that was,    *)
(* whatever takes overlap, are begun with --no-verify, fail their check or *)
(* stop half way and leave a file that is not a backup and counts as one.  *)
(* It takes one of two things to lose the last of them: a take that is     *)
(* outrun by as many others as are kept and prunes its own, or a take with *)
(* --no-verify that prunes, since what it leaves was never restored.       *)
(***************************************************************************)
AProvedBackupStays == proved /\ ~outrun /\ ~skipped => Restored # {}
=============================================================================
