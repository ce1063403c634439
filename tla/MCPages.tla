------------------------------- MODULE MCPages --------------------------------
(* What the pages show: the board, the preview of a lesson page and the     *)
(* record panel.  Each behaviour runs one of them.                          *)
EXTENDS Integers, TLC

CONSTANTS
    Tasks, Tabs, DoneLimit, Panes, NoTask, MaxActs, MaxLossyActs,
    MaxLost, Bytes, MaxWrites, MaxLoads, Readers, Questions, MaxAttempts, MaxRows

(* The component that runs in a behaviour, and its state.                   *)
VARIABLES scene,
          v1, v2, v3, v4, v5, v6, v7, v8, v9, v10

state == <<v1, v2, v3, v4, v5, v6, v7, v8, v9, v10>>
all   == <<scene, state>>

Board == INSTANCE TaskBoard WITH
    None <- NoTask,
    status <- v1, finished <- v2, told <- v3, tab <- v4, wire <- v5,
    orphans <- v6, gesture <- v7, acts <- v8, lost <- v9

\* Answers are lost where users do less: v8 counts their acts, v9 the losses.
Bounded == v9 = 0 \/ v8 <= MaxLossyActs

Frame == INSTANCE Preview WITH
    page <- v1, writes <- v2, cache <- v3, slot <- v4, expected <- v5,
    pending <- v6, armed <- v7, frame <- v8, loads <- v9, held <- v10

Panel == INSTANCE RecordPanel WITH
    attempts <- v1, rows <- v2, at <- v3, snap <- v4, half <- v5,
    drawn <- v6, answers <- v7

ASSUME PagesAssumption ==
    Board!BoardAssumption /\ Frame!PreviewAssumption /\ Panel!PanelAssumption

Init ==
    \/ scene = "board" /\ Board!Init /\ v10 = 0
    \/ scene = "preview" /\ Frame!Init
    \/ scene = "panel" /\ Panel!Init /\ v8 = 0 /\ v9 = 0 /\ v10 = 0

Next ==
    \/ scene = "board" /\ Board!Next /\ Bounded' /\ UNCHANGED <<scene, v10>>
    \/ scene = "preview" /\ Frame!Next /\ UNCHANGED scene
    \/ scene = "panel" /\ Panel!Next /\ UNCHANGED <<scene, v8, v9, v10>>

Spec == Init /\ [][Next]_all

-----------------------------------------------------------------------------
(* Properties, stated in the components' modules.                           *)

(* The events tell what the tasks table holds, a card at rest shows what    *)
(* the server last acknowledged, and the pane the transition its toggle     *)
(* would perform (services/tasks.py, board.ts).                             *)
BoardHonest ==
    scene = "board" =>
        /\ Board!BoardTypeOK /\ Board!LedgerTells
        /\ Board!CardsHonest /\ Board!PaneHonest

(* The last gesture on a card is the one that ends up stored (board.ts).    *)
LastGestureStored == scene = "board" => Board!LastGestureStored

(* Answers are filed under the revision on display, and those called fresh  *)
(* answer what the page held (lessons.py, learn-bridge.ts).           *)
AnswersMatchThePage ==
    scene = "preview" =>
        Frame!TypeOK /\ Frame!BoundIsDisplayed /\ Frame!FreshMeansCurrent

(* One cursor, one panel; and what counts as unread was not on the panel    *)
(* that was acknowledged (routers/learn.py, services/assessments.py).       *)
CursorTellsThePanel ==
    scene = "panel" => Panel!TypeOK /\ Panel!SameCursorSamePanel /\ Panel!UnreadIsUnseen
===============================================================================
