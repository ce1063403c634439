------------------------------ MODULE MCRecovery ------------------------------
(* What must survive: recorded focus time, backups, the instance a restore  *)
(* replaces, exports and their delivery.  Each behaviour runs one of them;  *)
(* the focus timer's module is extended, so that its properties, which are  *)
(* proved too, keep their names.  Runs of a script are interchangeable.     *)
EXTENDS FocusTimer, TLC

CONSTANTS
    Processes, Nightly, Files, Keep, Seconds, Places, Database, MaxAttempts, Grace,
    Clock, Exports, MaxLog, MaxRuns

(* The component that runs in a behaviour, and its state.                   *)
VARIABLES scene,
          v1, v2, v3, v4, v5, v6, v7, v8, v9, v10, v11, v12, v13

state == <<v1, v2, v3, v4, v5, v6, v7, v8, v9, v10, v11, v12, v13>>
all   == <<scene, vars, state>>

\* Backups by these runs of the script, within so many seconds.
Back(runs, seconds) == INSTANCE Backup WITH
    Runs <- runs, Seconds <- seconds, disk <- v1, staged <- v2, archived <- v3,
    listed <- v4, at <- v5, stamp <- v6, todo <- v7, doomed <- v8,
    live <- v9, clock <- v10, published <- v11

Put == INSTANCE Restore WITH
    Names <- Places,
    members <- v1, carried <- v2, target <- v3, aside <- v4, staging <- v5,
    scrap <- v6, phase <- v7, try <- v8, displaced <- v9, moved <- v10,
    installed <- v11, found <- v12, original <- v13

Send == INSTANCE Export WITH
    Requests <- Processes, files <- v1, temp <- v2, at <- v3, name <- v4,
    written <- v5, doomed <- v6, clock <- v7, stepped <- v8

Deliver == INSTANCE Delivery WITH
    log <- v1, file <- v2, target <- v3, staged <- v4, phase <- v5,
    scrap <- v6, runs <- v7

\* Three backups within a second, and two over several.
ASSUME RecoveryAssumption ==
    /\ Back(Processes, 1)!BackupAssumption /\ Back(Nightly, Seconds)!BackupAssumption
    /\ Send!ExportAssumption /\ Put!RestoreAssumption /\ Deliver!DeliveryAssumption

SceneInit ==
    /\ Init
    /\ \/ scene = "timer" /\ v1 = 0 /\ v2 = 0 /\ v3 = 0 /\ v4 = 0 /\ v5 = 0 /\ v6 = 0 /\ v7 = 0 /\ v8 = 0
          /\ v9 = 0 /\ v10 = 0 /\ v11 = 0 /\ v12 = 0 /\ v13 = 0
       \/ scene = "backup" /\ Back(Processes, 1)!Init /\ v12 = 0 /\ v13 = 0
       \/ scene = "nightly" /\ Back(Nightly, Seconds)!Init /\ v12 = 0 /\ v13 = 0
       \/ scene = "restore" /\ Put!Init
       \/ scene = "export" /\ Send!Init
          /\ v9 = 0 /\ v10 = 0 /\ v11 = 0 /\ v12 = 0 /\ v13 = 0
       \/ scene = "delivery" /\ Deliver!Init
          /\ v8 = 0 /\ v9 = 0 /\ v10 = 0 /\ v11 = 0 /\ v12 = 0 /\ v13 = 0

SceneNext ==
    \/ scene = "timer" /\ Next /\ UNCHANGED <<scene, state>>
    \/ scene = "backup" /\ Back(Processes, 1)!Next /\ UNCHANGED <<scene, vars, v12, v13>>
    \/ scene = "nightly" /\ Back(Nightly, Seconds)!Next /\ UNCHANGED <<scene, vars, v12, v13>>
    \/ scene = "restore" /\ Put!Next /\ UNCHANGED <<scene, vars>>
    \/ scene = "export" /\ Send!Next
       /\ UNCHANGED <<scene, vars, v9, v10, v11, v12, v13>>
    \/ scene = "delivery" /\ Deliver!Next
       /\ UNCHANGED <<scene, vars, v8, v9, v10, v11, v12, v13>>

SceneSpec == SceneInit /\ [][SceneNext]_all

Symmetry == Permutations(Processes)

-----------------------------------------------------------------------------
(* Properties: one per component, stated in its module.                     *)

(* Every set that has a manifest verifies, and retention takes neither what *)
(* a run is still at work on nor too many sets (scripts/backup_db.py).      *)
BackupsHold ==
    /\ scene = "backup" => Back(Processes, 1)!BackupsHold
    /\ scene = "nightly" => Back(Nightly, Seconds)!BackupsHold

(* A restore is all or nothing, never mixes two instances and destroys      *)
(* nothing, whatever attempts were killed (backup_db.restore).              *)
RestoresAreWhole ==
    scene = "restore" => Put!RestoresAreWhole

(* Retention takes an export that is yet to be sent only on an outdated     *)
(* decision about an earlier file of its name (services/export.py).         *)
ExportsArrive == [][scene = "export" => Send!StepSent]_all

(* A delivery only ever takes its target forward along the source's stream  *)
(* (scripts/restore_from_export.py).                                        *)
DeliveriesAdvance ==
    [][scene = "delivery" =>
          Deliver!StepForward /\ (Deliver!HoldsAPrefix /\ Deliver!LedgerNotAhead)']_all
===============================================================================
