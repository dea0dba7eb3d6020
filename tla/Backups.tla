------------------------------ MODULE Backups ------------------------------
(***************************************************************************)
(* Backup, rotation and restore of the DuckDB file: backup_database() as a *)
(* step of the nightly maintenance or as a command while other threads     *)
(* write, and restore_database() while the service is stopped              *)
(* (lakewind/db/access.py, lakewind/interfaces/cli.py, pipeline_loop.py).  *)
(*                                                                         *)
(* What the file holds is the number of writes committed to it; writes to  *)
(* two restored files that share a number count as the same.  DuckDB is    *)
(* modelled as the code relies on it: commits go to a write-ahead log next *)
(* to the main file, a checkpoint empties the log into the file, opening   *)
(* replays it, and the last connection that is closed checkpoints.         *)
(***************************************************************************)
EXTENDS Naturals, FiniteSets

CONSTANTS
  Keep,        \* backups kept by the rotation (14)
  MaxWrites,   \* bound: committed writes
  MaxBackups,  \* bound: backups started
  MaxRestores, \* bound: restores that got to their safety copy
  MaxFaults,   \* bound: crashes and failing copies
  None

BackupsAssumption ==
  /\ Keep \in Nat \ {0}
  /\ {MaxWrites, MaxBackups, MaxRestores, MaxFaults} \subseteq Nat

VARIABLES
  open,     \* a process (service or command) has the file open
  db,       \* the committed writes
  main,     \* the main file: the writes of its last checkpoint, and its state
  wal,      \* the write-ahead log: "none", "pending" or "stale"
  backups,  \* lakewind_backup_<stamp>.duckdb
  safety,   \* pre_restore_<stamp>.duckdb
  op,       \* the backup or restore that is running
  night,    \* outcome of the last maintenance, and the backup it names
  stamp,    \* backups started
  before,   \* history: what the last restore found, and whether in a log
  faults    \* how many of the MaxFaults faults have happened

fileVars == <<open, db, main, wal>>
vars == <<fileVars, backups, safety, op, night, stamp, before, faults>>

States == {"whole", "partial", "torn"}
File(s, n, state, asked) ==
  [stamp |-> s, writes |-> n, state |-> state, checked |-> FALSE,
   overlapped |-> FALSE, asked |-> asked]

NoOp == [kind |-> "none"]
Fault == faults < MaxFaults /\ faults' = faults + 1

Backup(place) == op.kind = "backup" /\ op.at = place
Restore(place) == op.kind = "restore" /\ op.at = place

-----------------------------------------------------------------------------

Init ==
  /\ open = FALSE
  /\ db = 0
  /\ main = [writes |-> 0, state |-> "whole"]
  /\ wal = "none"
  /\ backups = {}
  /\ safety = {}
  /\ op = NoOp
  /\ night = [status |-> "none", file |-> 0]
  /\ stamp = 0
  /\ before = None
  /\ faults = 0

\* What DuckDB makes of a log that belongs to another main file is open.
Open ==
  /\ ~open
  /\ op = NoOp
  /\ main.state # "partial"
  /\ open' = TRUE
  /\ IF wal = "stale"
     THEN \E s \in {"whole", "torn"} : main' = [main EXCEPT !.state = s] /\ wal' = "none"
     ELSE UNCHANGED <<main, wal>>
  /\ UNCHANGED <<db, backups, safety, op, night, stamp, before, faults>>

\* DuckDB checkpoints on its own when the log has grown.
Checkpointed ==
  /\ main' = [main EXCEPT !.writes = db]
  /\ wal' = "none"

\* SIGKILL, the OOM killer or the power: a copy that was being made stays as
\* it is, and the log stays on the disk.
Kill ==
  /\ open \/ op # NoOp
  /\ Fault
  /\ open' = FALSE
  /\ op' = NoOp
  /\ UNCHANGED <<db, main, wal, backups, safety, night, stamp, before>>

\* close_global_conn(): a command that returns, or the signal handler, which
\* does not wait for the maintenance.
Close ==
  /\ open
  /\ open' = FALSE
  /\ op' = NoOp
  /\ Checkpointed
  /\ UNCHANGED <<db, backups, safety, night, stamp, before, faults>>

\* One of the threads commits a statement.
Write ==
  /\ open
  /\ db < MaxWrites
  /\ db' = db + 1
  /\ wal' = "pending"
  /\ UNCHANGED <<open, main, backups, safety, op, night, stamp, before, faults>>

AutoCheckpoint ==
  /\ open
  /\ wal = "pending"
  /\ Checkpointed
  /\ op' = IF Backup("copying") THEN [op EXCEPT !.hit = TRUE] ELSE op
  /\ UNCHANGED <<open, db, backups, safety, night, stamp, before, faults>>

-----------------------------------------------------------------------------
(***************************************************************************)
(* backup_database(): of the maintenance, which records how it ended, or   *)
(* as a command.                                                           *)
(***************************************************************************)
BeginBackup ==
  /\ open
  /\ op = NoOp
  /\ stamp < MaxBackups
  /\ stamp' = stamp + 1
  /\ \E nightly \in BOOLEAN :
       op' = [kind |-> "backup", at |-> "checkpoint", file |-> stamp + 1,
              asked |-> db, hit |-> FALSE, nightly |-> nightly]
  /\ UNCHANGED <<fileVars, backups, safety, night, before, faults>>

CopyStarts ==
  /\ op' = [op EXCEPT !.at = "copying"]
  /\ backups' = backups \cup {File(op.file, db, "partial", op.asked)}

\* CHECKPOINT; the copy appears under its final name and grows.
Checkpoint ==
  /\ Backup("checkpoint")
  /\ Checkpointed
  /\ CopyStarts
  /\ UNCHANGED <<open, db, safety, night, stamp, before, faults>>

Target == CHOOSE f \in backups : f.stamp = op.file
Replace(f) == backups' = (backups \ {Target}) \cup {f}

\* A copy that a checkpoint overlapped may be torn, and verify_backup(), which
\* opens it and counts rows, may not notice.
Copied ==
  /\ Backup("copying")
  /\ \E s \in IF op.hit THEN {"whole", "torn"} ELSE {main.state} :
       Replace([Target EXCEPT !.writes = main.writes, !.state = s,
                              !.overlapped = op.hit \/ main.state # "whole"])
  /\ op' = [op EXCEPT !.at = "verify"]
  /\ UNCHANGED <<fileVars, safety, night, stamp, before, faults>>

Ends(status) ==
  /\ op' = NoOp
  /\ night' = IF op.nightly THEN [status |-> status, file |-> op.file] ELSE night

\* CHECKPOINT raises, or copy2() does: nothing removes the partial file.
CopyFails ==
  /\ Backup("checkpoint") \/ Backup("copying")
  /\ Fault
  /\ Ends("error")
  /\ UNCHANGED <<fileVars, backups, safety, stamp, before>>

Verified ==
  /\ Backup("verify")
  /\ Replace([Target EXCEPT !.checked = TRUE])
  /\ op' = [op EXCEPT !.at = "offsite"]
  /\ UNCHANGED <<fileVars, safety, night, stamp, before, faults>>

VerifyFails ==
  /\ Backup("verify")
  /\ Target.state # "whole"
  /\ backups' = backups \ {Target}
  /\ Ends("error")
  /\ UNCHANGED <<fileVars, safety, stamp, before, faults>>

\* The copy to the offsite directory raises: the rotation does not run.
OffsiteFails ==
  /\ Backup("offsite")
  /\ Fault
  /\ Ends("error")
  /\ UNCHANGED <<fileVars, backups, safety, stamp, before>>

\* Mutant of Newest: the list is cut at its other end.
NewestReversed(n) ==
  {f \in backups : Cardinality({g \in backups : g.stamp < f.stamp}) < n}

\* sorted(glob(...))[-14:]
Newest(n) ==
  {f \in backups : Cardinality({g \in backups : g.stamp > f.stamp}) < n}

Rotate ==
  /\ Backup("offsite")
  /\ backups' = Newest(Keep)
  /\ Ends("ok")
  /\ UNCHANGED <<fileVars, safety, stamp, before, faults>>

-----------------------------------------------------------------------------
(***************************************************************************)
(* restore_database(): a command of its own, after the operator stopped    *)
(* the service, as its docstring asks.                                     *)
(***************************************************************************)
Files == backups \cup safety

\* verify_backup() refuses half a file.
BeginRestore ==
  /\ ~open
  /\ op = NoOp
  /\ Cardinality(safety) < MaxRestores
  /\ \E f \in Files :
       /\ f.state # "partial"
       /\ op' = [kind |-> "restore", at |-> "copying", from |-> f]
  /\ safety' = safety \cup {File(Cardinality(safety) + 1, main.writes, "partial", 0)}
  /\ UNCHANGED <<fileVars, backups, night, stamp, before, faults>>

OverwriteStarts ==
  /\ Restore("copying")
  /\ main' = [main EXCEPT !.state = "partial"]
  /\ op' = [op EXCEPT !.at = "overwrite"]
  /\ before' = IF main.state = "whole" THEN [writes |-> db, log |-> wal # "none"] ELSE before

\* The safety copy is complete and the live file starts to be overwritten;
\* the log next to it is not touched.
SafetyCopy ==
  /\ OverwriteStarts
  /\ safety' = {IF f.stamp = Cardinality(safety) THEN [f EXCEPT !.state = main.state] ELSE f :
                  f \in safety}
  /\ UNCHANGED <<open, db, wal, backups, night, stamp, faults>>

\* copy2() raises in the middle of the live file.
OverwriteFails ==
  /\ Restore("overwrite")
  /\ Fault
  /\ op' = NoOp
  /\ UNCHANGED <<fileVars, backups, safety, night, stamp, before>>

Overwritten ==
  /\ Restore("overwrite")
  /\ main' = [writes |-> op.from.writes, state |-> op.from.state]
  /\ db' = op.from.writes
  /\ wal' = IF wal = "none" THEN "none" ELSE "stale"
  /\ op' = NoOp
  /\ UNCHANGED <<open, backups, safety, night, stamp, before, faults>>

-----------------------------------------------------------------------------

BackupStep ==
  \/ Checkpoint \/ Copied \/ CopyFails \/ Verified \/ VerifyFails
  \/ OffsiteFails \/ Rotate

Next ==
  \/ Open \/ Kill \/ Close \/ Write \/ AutoCheckpoint
  \/ BeginBackup \/ BackupStep
  \/ BeginRestore \/ SafetyCopy \/ OverwriteFails \/ Overwritten

Spec == Init /\ [][Next]_vars

-----------------------------------------------------------------------------

TypeOK ==
  /\ open \in BOOLEAN /\ db \in 0..MaxWrites
  /\ main.state \in States /\ main.writes \in 0..MaxWrites
  /\ wal \in {"none", "pending", "stale"}
  /\ wal = "none" /\ main.state # "partial" => main.writes = db
  /\ \A f \in Files : f.state \in States /\ f.writes \in 0..MaxWrites
  /\ \A f, g \in backups : f.stamp = g.stamp => f = g

\* A verified backup that no checkpoint overlapped is readable and holds
\* every write committed when it was asked for, with other threads writing.
BackupHolds ==
  \A f \in backups : f.checked /\ ~f.overlapped => f.state = "whole" /\ f.writes >= f.asked

\* The rotation removes a verified backup only when a newer verified one
\* stays, whatever half-written files of failed nights it counts.
NewestBackupStays ==
  [][\A f \in backups \ backups' :
       f.checked => \E g \in backups' : g.checked /\ g.stamp > f.stamp]_vars

\* "Did last night's backup run" is a row: a maintenance recorded as ok left
\* its verified backup, or newer ones pushed it out.
OkMeansBackup ==
  night.status = "ok" =>
    \E f \in backups : f.checked /\ f.stamp >= night.file

\* What a restore found is in a whole file at every moment after, wherever
\* it dies and however often it is repeated, unless part of it was in a log.
Found == {f.writes : f \in {x \in safety : x.state = "whole"}} \cup
         (IF main.state = "whole" THEN {main.writes} ELSE {})
RestoreIsRecoverable ==
  before # None /\ ~before.log => before.writes \in Found

\* restore_database() promises this of every restore ("a bad restore is
\* itself recoverable"), also after a service that was killed.
SafetyCopyComplete ==
  before # None => before.writes \in Found
=============================================================================
