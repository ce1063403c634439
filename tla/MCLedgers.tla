------------------------------ MODULE MCLedgers -------------------------------
(* What tutors and learners record, as a table and as its history: the       *)
(* assessments and the habits.  Each behaviour runs one of them.             *)
EXTENDS TLC

CONSTANTS
    Writers, Processes, SubmitKeys, MaxMeddling, Clients, Days, Cards,
    Statuses, Notes, None, MaxItems, MaxRows

(* The component that runs in a behaviour, and its state.                   *)
VARIABLES scene,
          v1, v2, v3, v4, v5, v6, v7, v8, v9, v10, v11, v12

state == <<v1, v2, v3, v4, v5, v6, v7, v8, v9, v10, v11, v12>>
all   == <<scene, state>>

Verdicts  == [kind : {"evidence"}, on : {1}]
Summaries == [kind : {"summary", "retraction"}, on : {0}]

Assess == INSTANCE Assessments WITH
    Keys <- SubmitKeys, Submissions <- Summaries \cup Verdicts,
    rows <- v1, archived <- v2, live <- v3, file <- v4, contrary <- v5,
    swept <- v6, published <- v7, sealed <- v8, lesson <- v9, flock <- v10,
    call <- v11, meddling <- v12

\* Summaries and retractions among disturbances; with verdicts on the first row, in peace.
Bounded ==
    /\ scene = "assessments" => \A w \in Writers : v11[w].kind # "evidence"
    /\ scene = "quiet" => v12 = 0

Habit == INSTANCE HabitLedger WITH
    item <- v1, checkin <- v2, daily <- v3, issued <- v4, request <- v5,
    restored <- v6

ASSUME LedgersAssumption == Habit!HabitAssumption /\ Assess!AssessmentsAssumption

Init ==
    \/ scene \in {"assessments", "quiet"} /\ Assess!Init
    \/ scene = "habits" /\ Habit!Init
       /\ v7 = 0 /\ v8 = 0 /\ v9 = 0 /\ v10 = 0 /\ v11 = 0 /\ v12 = 0

Next ==
    \/ scene \in {"assessments", "quiet"} /\ Assess!Next /\ UNCHANGED scene /\ Bounded'
    \/ scene = "habits" /\ Habit!Next
       /\ UNCHANGED <<scene, v7, v8, v9, v10, v11, v12>>

Spec == Init /\ [][Next]_all

\* The sets of clients, statuses and notes are those of writers, processes and keys.
Symmetry == Permutations(Writers) \cup Permutations(Processes) \cup Permutations(SubmitKeys)

-----------------------------------------------------------------------------
(* Properties, stated in the components' modules.                           *)

(* A key names one row, a sitting has one summary, and nothing is recorded  *)
(* for an archived lesson (services/assessments.py).                        *)
AssessmentsHold ==
    [][(scene \in {"assessments", "quiet"}) =>
          Assess!StepArchived /\ (Assess!OneRowPerKey /\ Assess!OneSummaryStands)']_all

(* The assessments file is the fold of one version of the history, and an   *)
(* answer "projected" is true (services/assessments.py).                    *)
ProjectionIsAFold ==
    scene \in {"assessments", "quiet"} => Assess!FileIsAFold /\ Assess!ProjectedIsTrue

(* Only an outdated read parts the ledger from the habit tables, and no     *)
(* replay loses a daily note (services/checkins.py, services/items.py).     *)
HabitsReplay ==
    [][scene = "habits" => Habit!StepReplays]_all
===============================================================================
