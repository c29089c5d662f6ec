------------------------------- MODULE Backup -------------------------------
(***************************************************************************)
(* internal/backup/worker.go: periodic backups of the database and their   *)
(* retention.                                                              *)
(*                                                                         *)
(* A file is its name (when it was started: the name is a time stamp), the *)
(* time of its last change and whether it holds a whole backup.            *)
(***************************************************************************)
EXTENDS Integers, FiniteSets

CONSTANTS Retention,   \* retentionDays
          MaxClock     \* bound on the clock

ASSUME BackupAssumption == Retention \in Nat /\ MaxClock \in Nat

VARIABLES
    clock,
    bakFiles,    \* the .bak files
    worker,      \* what the worker does
    old,         \* files that cleanupOldBackups has still to remove
    begun,       \* when the worker, or its last backup, was started
    succeeded    \* history: when the last backup succeeded, or Never

backupVars == <<clock, bakFiles, worker, old, begun, succeeded>>

Never == -1
BakFile == [name : Nat, modTime : Nat, whole : BOOLEAN]

BackupInit ==
    /\ clock = 0
    /\ bakFiles = {}
    /\ worker = "off"
    /\ old = {}
    /\ begun = 0
    /\ succeeded = Never

TimePasses ==
    /\ clock < MaxClock
    /\ clock' = clock + 1
    /\ UNCHANGED <<bakFiles, worker, old, begun, succeeded>>

(* Run: both the initial timer and the ticker leave time before a backup.  *)
RunWorker ==
    /\ worker = "off"
    /\ worker' = "waits"
    /\ begun' = clock
    /\ UNCHANGED <<clock, bakFiles, old, succeeded>>

(* The process stops at any moment.                                        *)
WorkerStops ==
    /\ worker # "off"
    /\ worker' = "off"
    /\ old' = {}
    /\ UNCHANGED <<clock, bakFiles, begun, succeeded>>

(* doBackup creates the file, or truncates one of that name; or cannot.    *)
DoBackup ==
    /\ worker = "waits"
    /\ clock > begun
    /\ begun' = clock
    /\ \/ /\ bakFiles' = {f \in bakFiles : f.name # clock}
                            \cup {[name |-> clock, modTime |-> clock, whole |-> FALSE]}
          /\ worker' = "writes"
       \/ UNCHANGED <<bakFiles, worker>>
    /\ UNCHANGED <<clock, old, succeeded>>

(* Faulty: old backups go though the new one failed.                       *)
CleanAnyway ==
    /\ worker = "writes"
    /\ worker' = "cleans"
    /\ old' = {f \in bakFiles : f.modTime < clock - Retention}
    /\ UNCHANGED <<clock, bakFiles, begun, succeeded>>

(* BackupBadger fails; what it wrote stays.                                *)
BackupFails ==
    /\ worker = "writes"
    /\ worker' = "waits"
    /\ UNCHANGED <<clock, bakFiles, old, begun, succeeded>>

(* It succeeds, and cleanupOldBackups looks for what is too old.           *)
BackupSucceeds ==
    LET new == [name |-> begun, modTime |-> clock, whole |-> TRUE]
    IN /\ worker = "writes"
       /\ bakFiles' = {f \in bakFiles : f.name # begun} \cup {new}
       /\ succeeded' = clock
       /\ old' = IF Retention = 0 THEN {} ELSE {f \in bakFiles' : f.modTime < clock - Retention}
       /\ worker' = "cleans"
       /\ UNCHANGED <<clock, begun>>

RemoveOld(f) ==
    /\ worker = "cleans"
    /\ f \in old
    /\ old' = old \ {f}
    /\ \/ bakFiles' = bakFiles \ {f}
       \/ UNCHANGED bakFiles
    /\ UNCHANGED <<clock, worker, begun, succeeded>>

CleanupEnds ==
    /\ worker = "cleans"
    /\ old = {}
    /\ worker' = "waits"
    /\ UNCHANGED <<clock, bakFiles, old, begun, succeeded>>

BackupNext ==
    \/ TimePasses
    \/ RunWorker \/ WorkerStops
    \/ DoBackup \/ BackupFails \/ BackupSucceeds
    \/ \E f \in old : RemoveOld(f)
    \/ CleanupEnds

BackupSpec == BackupInit /\ [][BackupNext]_backupVars

----------------------------------------------------------------------------
(* Properties.                                                             *)

BackupTypeOK ==
    /\ clock \in Nat
    /\ bakFiles \subseteq BakFile
    /\ worker \in {"off", "waits", "writes", "cleans"}
    /\ old \subseteq BakFile
    /\ begun \in Nat
    /\ succeeded \in Nat \cup {Never}

(* The last backup that succeeded is on disk and whole, whatever fails or  *)
(* crashes afterwards and however long no backup succeeds: retention runs  *)
(* only behind a success, and never reaches it.                            *)
BackupKept ==
    succeeded # Never => \E f \in bakFiles : f.whole /\ f.modTime = succeeded
=============================================================================
