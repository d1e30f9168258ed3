---------------------------- MODULE Housekeeping ----------------------------
(***************************************************************************)
(* The daily clean-up of one table (app/services/cleanup.py) and the daily *)
(* backup of the database file (app/services/backup.py).                   *)
(*                                                                         *)
(* A row is known by its number, in the order of arrival, and has an age   *)
(* in days; other tables may have rows that refer to it.  Each worker runs *)
(* one cycle a day; a cycle may raise, and the process may die, between    *)
(* any two of its steps.                                                   *)
(***************************************************************************)
EXTENDS Naturals, Sequences, FiniteSets

CONSTANTS
    Retention,     \* *_retention_days
    BatchSize,     \* BATCH_SIZE
    Inflow,        \* bound: rows that arrive in a day
    Keep,          \* backup_retention_count
    MaxRows, MaxSlips, MaxBackups   \* bounds: rows, cycles that do not end, backup files made

VARIABLES
    age,           \* age[i]: the age of row i, for the rows in the table
    arrived,       \* number of rows that ever arrived
    today,         \* rows that arrived today
    attached,      \* rows to which rows of other tables refer (impacts, corrections, ...)
    kind,          \* "record": one of the four tables that are archived; "cache": the LLM cache
    archived,      \* rows written to an archive file
    deleted,       \* history: rows deleted by the clean-up
    cascaded,      \* history: those whose dependants were deleted with them
    cleaning,      \* step of the clean-up: "due", "selected", "archived", "done"
    chosen,        \* rows of its batch
    backups,       \* the backup files, oldest first: TRUE for a complete one
    made,          \* files ever made
    backingUp,     \* step of the backup: "due", "copying", "copied", "done"
    slips,         \* history: cycles of the clean-up that did not end
    safe           \* history: a backup was completed, and the database was there since

vars == <<age, arrived, today, attached, kind, archived, deleted, cascaded, cleaning, chosen,
          backups, made, backingUp, slips, safe>>
tableVars == <<age, arrived, today, attached, kind>>
historyVars == <<archived, deleted, cascaded>>
cleanVars == <<historyVars, cleaning, chosen, slips>>
backupVars == <<backups, made, backingUp, safe>>

Kinds == {"record", "cache"}
Table == DOMAIN age
Without(f, S) == [i \in DOMAIN f \ S |-> f[i]]

-----------------------------------------------------------------------------
(* The clean-up: DataCleanupWorker.do_cycle *)

Expired == {i \in Table : age[i] > Retention}

\* Mutation of Oldest: the batch is taken from the other end.
Newest(S) == {i \in S : Cardinality({j \in S : j > i}) < BatchSize}

\* order_by(fetched_at.asc(), id.asc()).limit(BATCH_SIZE)
Oldest(S) == {i \in S : Cardinality({j \in S : j < i}) < BatchSize}

\* the LLM cache can be computed again: there is nothing to archive of it
Select ==
    /\ cleaning = "due"
    /\ chosen' = Oldest(Expired)
    /\ cleaning' = IF Expired = {} THEN "done" ELSE IF kind = "record" THEN "selected" ELSE "archived"
    /\ UNCHANGED <<tableVars, historyVars, slips, backupVars>>

ArchiveRows == archived' = archived \cup chosen /\ UNCHANGED <<age, attached, deleted, cascaded>>

\* ondelete="CASCADE": what refers to a row goes with it, and is in no file
DeleteRows ==
    /\ age' = Without(age, chosen) /\ deleted' = deleted \cup chosen
    /\ attached' = attached \ chosen /\ cascaded' = cascaded \cup (attached \cap chosen)
    /\ UNCHANGED archived

\* _archive_rows appends to the file of the day
Archive ==
    /\ cleaning = "selected"
    /\ ArchiveRows
    /\ cleaning' = "archived"
    /\ UNCHANGED <<arrived, today, kind, chosen, slips, backupVars>>

\* DELETE ... WHERE id IN (...) and commit
Delete ==
    /\ cleaning = "archived"
    /\ DeleteRows
    /\ chosen' = {} /\ cleaning' = "done"
    /\ UNCHANGED <<arrived, today, kind, slips, backupVars>>

\* The cycle raises, or the process dies: part of the rows may be in the file
\* already, and the next cycle is a day away.
CleanupFails ==
    /\ cleaning \in {"selected", "archived"} /\ slips < MaxSlips
    /\ \E written \in SUBSET chosen :
         archived' = IF cleaning = "selected" THEN archived \cup written ELSE archived
    /\ chosen' = {} /\ cleaning' = "done" /\ slips' = slips + 1
    /\ UNCHANGED <<tableVars, deleted, cascaded, backupVars>>

-----------------------------------------------------------------------------
(* The backup: BackupWorker.do_cycle *)

\* _make_backup creates the file, then copies the pages
BeginCopy ==
    /\ backingUp = "due" /\ made < MaxBackups
    /\ backups' = Append(backups, FALSE) /\ made' = made + 1
    /\ backingUp' = "copying"
    /\ UNCHANGED <<safe, tableVars, cleanVars>>

EndCopy ==
    /\ backingUp = "copying"
    /\ backups' = [backups EXCEPT ![Len(backups)] = TRUE]
    /\ safe' = TRUE
    /\ backingUp' = "copied"
    /\ UNCHANGED <<made, tableVars, cleanVars>>

\* an exception skips _prune_old_backups and leaves the incomplete file
AfterFailedCopy == "done"

CopyFails ==
    /\ backingUp = "copying"
    /\ backingUp' = AfterFailedCopy
    /\ UNCHANGED <<backups, made, safe, tableVars, cleanVars>>

\* there is no database file: nothing is copied, but the old files are pruned
NoDatabase ==
    /\ backingUp = "due"
    /\ safe' = FALSE /\ backingUp' = "copied"
    /\ UNCHANGED <<backups, made, tableVars, cleanVars>>

\* _prune_old_backups: the Keep newest files stay, complete or not
Prune ==
    /\ backingUp = "copied"
    /\ backups' = IF Len(backups) > Keep THEN SubSeq(backups, Len(backups) - Keep + 1, Len(backups))
                  ELSE backups
    /\ backingUp' = "done"
    /\ UNCHANGED <<made, safe, tableVars, cleanVars>>

-----------------------------------------------------------------------------
Arrive ==
    /\ today < Inflow /\ arrived < MaxRows
    /\ arrived' = arrived + 1 /\ today' = today + 1
    /\ age' = [i \in Table \cup {arrived'} |-> IF i = arrived' THEN 0 ELSE age[i]]
    /\ UNCHANGED <<attached, kind, cleanVars, backupVars>>

\* news is judged, corrected by the user, analysed, linked: also between the steps of a
\* clean-up.  The other tables have no such rows.
Attach(i) ==
    /\ kind = "record" /\ i \in Table \ attached
    /\ attached' = attached \cup {i}
    /\ UNCHANGED <<age, arrived, today, kind, cleanVars, backupVars>>

\* midnight: both workers have had their cycle, unless it was cut off
NextDay ==
    /\ cleaning = "done" /\ (backingUp = "done" \/ made = MaxBackups)
    /\ age' = [i \in Table |-> age[i] + 1]
    /\ today' = 0 /\ cleaning' = "due" /\ backingUp' = "due"
    /\ UNCHANGED <<arrived, attached, kind, historyVars, chosen, slips, backups, made, safe>>

Init ==
    /\ age = [i \in {} |-> 0] /\ arrived = 0 /\ today = 0
    /\ attached = {} /\ kind \in Kinds
    /\ archived = {} /\ deleted = {} /\ cascaded = {} /\ cleaning = "due" /\ chosen = {} /\ slips = 0
    /\ backups = <<>> /\ made = 0 /\ backingUp = "due" /\ safe = FALSE

Next ==
    \/ Arrive \/ (\E i \in 1..MaxRows : Attach(i)) \/ NextDay
    \/ Select \/ Archive \/ Delete \/ CleanupFails
    \/ BeginCopy \/ EndCopy \/ CopyFails \/ NoDatabase \/ Prune

Spec == Init /\ [][Next]_vars

-----------------------------------------------------------------------------
TypeOK ==
    /\ Table \subseteq 1..arrived /\ \A i \in Table : age[i] \in Nat
    /\ archived \cup deleted \cup cascaded \subseteq 1..arrived /\ kind \in Kinds
    /\ backups \in Seq(BOOLEAN) /\ Len(backups) <= made

\* Whenever a cycle raises or the process dies: no row of an archived table is deleted that
\* is not in a file.  What refers to a row, the user's corrections among it, is never in a
\* file; it goes only with a row that is, and refers to no row that has gone.
DeletedIsArchived ==
    /\ kind = "record" => deleted \subseteq archived
    /\ cascaded \subseteq archived
    /\ attached \subseteq Table

\* As long as no more rows arrive in a day than a cycle deletes, no row outlives
\* its retention by more than a day, and a day for each cycle that failed: a
\* backlog is worked off from its old end.
RetentionHolds ==
    Inflow <= BatchSize => \A i \in Table : age[i] <= Retention + 1 + slips

\* A complete backup is kept once there was one, however many later copies
\* fail, as long as the database file itself is there.
CompleteBackupKept == safe => \E i \in DOMAIN backups : backups[i]

\* What goes is archived, or depends on a row that is, or can be computed again; what should
\* go does; and there is a backup.
HouseIsInOrder == DeletedIsArchived /\ RetentionHolds /\ CompleteBackupKept
=============================================================================
