------------------------------ MODULE MCLessons -------------------------------
(* A lesson and its bundle: the ledgered lifecycle, the build and the check *)
(* of its page, its artifacts, its workspace, the migration of manifests,   *)
(* its run log and its attempts.  Each behaviour runs one of them.          *)
EXTENDS TLC

CONSTANTS
    Requests, MaxLessons, Builds, MaxWrites, MaxEvents, MaxUrls, Others, Noise, Waiting, Runs,
    Migrators, Bundles, MaxEdits, Prepares, MaxMeddling, Saves, Processes, Contents,
    Foreign, Torn, RacingEdits, Bytes, MaxBytes, MaxCrashes, MaxOpens,
    Visitor, Submits, KeyOf, TargetOf, Procs, ProcOf, Budget, MaxRestores,
    NoHolder

(* The component that runs in a behaviour, and its state.                   *)
VARIABLES scene,
          v1, v2, v3, v4, v5, v6, v7, v8, v9, v10, v11, v12, v13

state == <<v1, v2, v3, v4, v5, v6, v7, v8, v9, v10, v11, v12, v13>>
all   == <<scene, state>>

Lesson == INSTANCE Lessons WITH
    at <- v1, job <- v2, seen <- v3, rows <- v4, ledger <- v5,
    manifest <- v6, edits <- v7

Build == INSTANCE LessonBuild WITH
    MaxEdits <- MaxWrites, at <- v1, lock <- v2, group <- v3, slot <- v4,
    aside <- v5, placed <- v6, clean <- v7, reads <- v8, found <- v9,
    edits <- v10, edited <- v11

Check == INSTANCE RenderCheck WITH
    phase <- v1, socket <- v2, loaded <- v3, events <- v4, dropped <- v5,
    executed <- v6, page <- v7, errors <- v8, chatter <- v9,
    opaque <- v10, judged <- v11, verdict <- v12

Artifact == INSTANCE Artifacts WITH
    Requests <- Saves, MaxEdits <- MaxWrites, at <- v1, process <- v2,
    lock <- v3, file <- v4, ids <- v5, edits <- v6, asked <- v7,
    opened <- v8, late <- v9, ledger <- v10, stored <- v11

Workspace == INSTANCE LessonBundle WITH
    Opens <- Prepares,
    repo <- v1, link <- v2, kept <- v3, at <- v4, saw <- v5, disturbed <- v6,
    meddling <- v7, waived <- v8

Migration == INSTANCE BundleMigration WITH
    Runs <- Migrators, Slugs <- Bundles,
    disk <- v1, row <- v2, at <- v3, todo <- v4, plan <- v5,
    now <- v6, copies <- v7, ledger <- v8, undoing <- v9, edits <- v10

Log == INSTANCE RunLog WITH
    nodes <- v1, seal <- v2, ledger <- v3, phase <- v4, sealed <- v5,
    op <- v6, opened <- v7, spent <- v8

\* A run log whose server crashes, and one edited behind the server's back.
Bounded ==
    /\ scene = "runlog" => v8.edits = 0
    /\ scene = "raced" => v8.crashes = 0

Record == INSTANCE Attempts WITH
    Nobody <- NoHolder, Opener <- Visitor, Requests <- Submits,
    MaxEdits <- MaxWrites,
    rows <- v1, stamp <- v2,
    file <- v3, sidecar <- v4, window <- v5, at <- v6, told <- v7,
    lock <- v8, op <- v9, spent <- v10

ASSUME LogsAssumption ==
    Log!LogAssumption /\ Record!AttemptsAssumption /\ Lesson!LessonsAssumption
\* Lines rewritten in place between an append and its check would pass for the table.
ASSUME RacingAssumption == "rewrite" \notin RacingEdits
ASSUME BundleAssumption ==
    Build!BuildAssumption /\ Check!CheckAssumption /\ Artifact!ArtifactsAssumption

Init ==
    \/ scene = "lessons" /\ Lesson!Init
       /\ v8 = 0 /\ v9 = 0 /\ v10 = 0 /\ v11 = 0 /\ v12 = 0 /\ v13 = 0
    \/ scene = "build" /\ Build!Init /\ v12 = 0 /\ v13 = 0
    \/ scene = "check" /\ Check!Init /\ v13 = 0
    \/ scene = "artifacts" /\ Artifact!Init /\ v12 = 0 /\ v13 = 0
    \/ scene = "workspace" /\ Workspace!Init
       /\ v9 = 0 /\ v10 = 0 /\ v11 = 0 /\ v12 = 0 /\ v13 = 0
    \/ scene = "migration" /\ Migration!Init /\ v11 = 0 /\ v12 = 0 /\ v13 = 0
    \/ scene \in {"runlog", "raced"} /\ Log!Init
       /\ v9 = 0 /\ v10 = 0 /\ v11 = 0 /\ v12 = 0 /\ v13 = 0
    \/ scene = "attempts" /\ Record!Init /\ v11 = 0 /\ v12 = 0 /\ v13 = 0

Next ==
    \/ scene = "lessons" /\ Lesson!Next
       /\ UNCHANGED <<scene, v8, v9, v10, v11, v12, v13>>
    \/ scene = "build" /\ Build!Next /\ UNCHANGED <<scene, v12, v13>>
    \/ scene = "check" /\ Check!Next /\ UNCHANGED <<scene, v13>>
    \/ scene = "artifacts" /\ Artifact!Next /\ UNCHANGED <<scene, v12, v13>>
    \/ scene = "workspace" /\ Workspace!Next
       /\ UNCHANGED <<scene, v9, v10, v11, v12, v13>>
    \/ scene = "migration" /\ Migration!Next /\ UNCHANGED <<scene, v11, v12, v13>>
    \/ scene \in {"runlog", "raced"} /\ Log!Next
       /\ UNCHANGED <<scene, v9, v10, v11, v12, v13>> /\ Bounded'
    \/ scene = "attempts" /\ Record!Next /\ UNCHANGED <<scene, v11, v12, v13>>
    \/ scene \in {"lessons", "build", "check", "artifacts", "workspace", "migration"}
       /\ UNCHANGED all   \* these may stop

Spec == Init /\ [][Next]_all

(* Instances.                                                               *)
CONSTANTS r1, r2, r3, r4

\* Under a bound of four bytes the first three runs never fit together, and what a
\* compaction keeps depends on their order: one record, none, or another one.
\* The fourth alone exceeds the bound.
MCTight == r1 :> 2 @@ r2 :> 1 @@ r3 :> 2 @@ r4 :> 6

\* Two submissions that have nothing in common, in two processes.
MCOwnKeys    == [r \in Submits |-> r]
MCOneTarget  == [r \in Submits |-> "question"]
MCTwoProcs   == [a \in Submits \cup {Visitor} |-> IF a = r1 THEN "p1" ELSE "p2"]

-----------------------------------------------------------------------------
(* Properties: one per component, stated in its module.                     *)

(* The ledger tells every lesson's status and archival, the stamps fit the  *)
(* status, and no slug is given out twice (services/lessons.py).            *)
LessonsAreTold ==
    scene = "lessons" =>
        Lesson!TypeOK /\ Lesson!LedgerTellsLessons /\ Lesson!RowsAreSound

(* One build works in the bundle, and replaces none of its sources          *)
(* (lesson_build._build_locked).                                             *)
OneBuildAtATime ==
    scene = "build" => Build!OneBuildAtATime

(* A build that failed its check undoes itself exactly, without touching    *)
(* what the agent did meanwhile; one called built is still there, and clean *)
(* (lesson_build._build_locked).                                             *)
BuildEndsTrue ==
    [][scene = "build" => Build!StepUndone /\ Build!StepBuilt]_all

(* A page is clean, or refused, for what it did and nothing else            *)
(* (services/render_check.console_errors).                                   *)
VerdictsAreEarned ==
    scene = "check" => Check!CleanIsEarned /\ Check!RefusalIsEarned

(* A save replaces what its author had in front of them, a run executes the *)
(* revision it names, and events tell of stored bytes (services/artifacts.py).*)
ArtifactsKeepTheirWord ==
    [][scene = "artifacts" => Artifact!StepKeepsWord]_all

(* An answered open stands on a usable repository and on the link, and what *)
(* was installed at the link's name is kept (services/lesson_bundle.py).    *)
WorkspaceHolds ==
    [][scene = "workspace" =>
          Workspace!StepContent /\ (Workspace!RepositoryUsable /\ Workspace!LinkBeforeShell)']_all

(* Whatever dies, every migrated manifest can be rolled back, and neither   *)
(* direction replaces what an agent wrote (scripts/migrate_bundles.py).     *)
MigrationIsReversible ==
    [][scene = "migration" => Migration!StepReversible]_all

(* A run log the seal vouches for tells the newest part of the sealed       *)
(* history within its bound, every record has its event, and a session      *)
(* finds only the app's lines (services/runs.py, services/projection.py).   *)
RunLogTells ==
    scene \in {"runlog", "raced"} =>
                        /\ Log!SealedTellsHistory /\ Log!WithinBound
                        /\ Log!LedgerFirst /\ Log!SessionReadsOurs

(* An attempts file that is vouched for is the table up to its cursor, and  *)
(* an actor told that it is current was told the truth (attempts.py).       *)
VouchedIsAuthority ==
    [][scene = "attempts" => Record!StepCurrent /\ Record!VouchedIsAuthority']_all
===============================================================================
