------------------------------ MODULE MCDatabase ------------------------------
(* Model checking of the database file: the connections and the schema        *)
(* (Connections), or the copies of the file (Backups).  The two share no      *)
(* state, so a behaviour is one of the one or of the other, as `part` says,   *)
(* and the variables of the other stay put.                                   *)
(*                                                                            *)
(* Two threads of the service and a command, two migrations; a rotation that  *)
(* keeps two backups of three, two restores.                                  *)
EXTENDS Connections

CONSTANTS Keep, MaxWrites, MaxBackups, MaxRestores

VARIABLES
    part, open, files, main, wal, backups, safety, op, night, stamp, before

Copies == INSTANCE Backups WITH db <- files

ASSUME DatabaseAssumption == ConnectionsAssumption /\ Copies!BackupsAssumption

access == <<running, owner, ensured, ddl, thr, slipped, db>>
copies == <<open, files, main, wal, backups, safety, op, night, stamp, before>>

MCInit ==
    /\ Init /\ Copies!Init
    /\ \/ part = "access"
       \/ part = "copies" /\ db = Schema({}, {})

MCNext ==
    /\ UNCHANGED part
    /\ \/ part = "access" /\ Next /\ UNCHANGED copies
       \/ part = "copies" /\ Copies!Next /\ UNCHANGED access

\* In the part of the copies no thread is on its way, so its fairness is void.
MCSpec == MCInit /\ [][MCNext]_<<part, faults, access, copies>> /\ Fairness

-----------------------------------------------------------------------------

\* What is called a backup is one, and the newest is never rotated out: it
\* holds what it was asked for, a night recorded as ok left one, and a restore
\* that dies leaves what it found.
BackupsKept ==
    /\ [](Copies!TypeOK /\ Copies!BackupHolds)
    /\ [](Copies!OkMeansBackup /\ Copies!RestoreIsRecoverable)
    /\ Copies!NewestBackupStays
=============================================================================
