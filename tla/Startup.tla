------------------------------ MODULE Startup -------------------------------
(***************************************************************************)
(* Starting the application on whatever database it finds: init_db's       *)
(* ordered migrations (app/db.py), one committed statement at a time, then *)
(* the demo seeding and the Inbox of main._lifespan.  The process may be   *)
(* killed between any two statements and started again.  A process of a    *)
(* version before events had identities may still be writing.              *)
(***************************************************************************)
EXTENDS Integers, Sequences, FiniteSets, FiniteSetsExt, Functions

CONSTANTS MaxKills,  \* bound on the kills
          Arrivals   \* the kinds of database it may find (see Init)

VARIABLES version,   \* PRAGMA user_version
          shape,     \* tables, columns and indexes that exist
          ids,       \* ids[k]: identity of the k-th event row, 0 if none
          minted,    \* identities handed out
          counter,   \* sqlite_sequence of focus_sessions
          task,      \* one task of the owner's: [done, status]
          own,       \* tables that hold rows of the owner's
          demo,      \* tables that hold demo rows
          inboxes,   \* how many Inbox lists there are
          seededAt,  \* whether app_meta has the marker
          at, line,  \* where the start is: a label, the statement of a script
          kills, oldAlive,
          initialised \* history: this installation was once up, or used

vars == <<version, shape, ids, minted, counter, task, own, demo, inboxes,
          seededAt, at, line, kills, oldAlive, initialised>>

store == <<version, shape, ids, minted, counter, task, own, demo, inboxes, seededAt>>

-----------------------------------------------------------------------------
(* The statements of each migration, in their order.                       *)
Tables(names)      == [k \in DOMAIN names |-> <<"table", names[k]>>]
Columns(names)     == [k \in DOMAIN names |-> <<"column", names[k]>>]
Script1  == Tables(<<"routine_items", "checkins", "daily_notes", "events">>)
Script2  == Tables(<<"lists", "tasks", "tags", "task_tags">>)
Script3  == Columns(<<"routine_items.emoji", "routine_items.start_date",
                      "routine_items.reminder">>)
Script4  == Tables(<<"focus_sessions">>)
Script5  == Tables(<<"calendar_events">>)
Script6  == Tables(<<"lessons">>)
Script7  == Columns(<<"lessons.current_entry", "lessons.last_opened_at">>)
Script8  == Columns(<<"focus_sessions.lesson_id">>)
Script9  == Columns(<<"events.uuid">>) \o <<<<"stamp", "events">>>>
Script10 == Tables(<<"retro_entries">>)
Script11 == Script10 \o Columns(<<"lessons.uid">>)
Script12 == Tables(<<"lesson_attempts">>)
Script13 == Tables(<<"idx_attempts_lesson_cursor">>)
Script14 == Tables(<<"lesson_assessments">>)
Script15 == Tables(<<"idx_assessments_lesson_seq">>)
Script16 == Tables(<<"app_meta">>) \o <<<<"mark", "seeded_at">>>>
Script17 == Columns(<<"lesson_attempts.kind">>)
Script18 == Columns(<<"tasks.status">>) \o <<<<"repair", "tasks">>>>
Script19 == <<<<"rebuild", "focus_sessions.target_seconds">>>> \o Tables(<<"focus_runs">>)
Script20 == Tables(<<"diary_entries">>)

Migrations == <<Script1, Script2, Script3, Script4, Script5, Script6, Script7,
                Script8, Script9, Script10, Script11, Script12, Script13, Script14,
                Script15, Script16, Script17, Script18, Script19, Script20>>
Latest == Len(Migrations)       \* SCHEMA_VERSION of the code that starts

Objects(script) == {stmt[2] : stmt \in {s \in Range(script) :
                                          s[1] \in {"table", "column", "rebuild"}}}
ShapeOf(v)   == UNION {Objects(Migrations[k]) : k \in 1..v}

Seedable == {"routine_items", "lists", "tasks"}
Evidence == Seedable \cup {"events"}         \* _SEEDED_EVIDENCE
Agrees(t) == t.done <=> t.status = "done"

-----------------------------------------------------------------------------
(* The copied rows leave the new table's counter at the newest row.        *)
NewestRow == 2

(* What a start may find.  The focus id counter is past every row when the *)
(* database came from restore_from_export, whose rows it alone remembers.  *)
OldTask   == [done |-> TRUE, status |-> "backlog"]  \* as ADD COLUMN leaves it
HistoryAt(v, rows) ==
  /\ version = v /\ shape = ShapeOf(v)
  /\ own = rows
  /\ LET n == IF "events" \in rows THEN 2 ELSE 0
     IN /\ ids = [k \in 1..n |-> IF v >= 9 THEN k ELSE 0]
        /\ minted = IF v >= 9 THEN n ELSE 0
  /\ task = IF v >= 18 THEN [OldTask EXCEPT !.status = "done"] ELSE OldTask
  /\ demo = {} /\ inboxes = (IF "lists" \in rows THEN 1 ELSE 0)
  /\ seededAt = (v >= 16 /\ rows # {})
  /\ initialised = (rows # {})

Init ==
  /\ counter \in {NewestRow, NewestRow + 3}
  /\ at = "down" /\ line = 1 /\ kills = 0
  /\ \/ "fresh" \in Arrivals /\ HistoryAt(0, {}) /\ oldAlive = FALSE
     \/ "upgrade" \in Arrivals /\ oldAlive = FALSE /\ \E v \in 1..Latest :
          \/ HistoryAt(v, IF v = 1 THEN {"routine_items", "events"} ELSE Evidence)
          \/ HistoryAt(v, {"events"})      \* everything deleted; or a delivery
     \/ (* the uid step ran while it was numbered 10: no retro_entries *)
        /\ "renumbered" \in Arrivals /\ oldAlive = FALSE
        /\ version = 10 /\ shape = ShapeOf(9) \cup {"lessons.uid"}
        /\ own = Evidence /\ ids = <<1, 2>> /\ minted = 2 /\ task = OldTask
        /\ demo = {} /\ inboxes = 1 /\ seededAt = FALSE /\ initialised = TRUE
     \/ "overlap" \in Arrivals /\ HistoryAt(8, Evidence) /\ oldAlive = TRUE

-----------------------------------------------------------------------------
Boot ==
  /\ at = "down"
  /\ at' = "migrating" /\ line' = 1
  /\ UNCHANGED <<store, kills, oldAlive, initialised>>

(* backfill_event_uuids: rows without an identity get one, others keep it. *)
Unnamed == {k \in DOMAIN ids : ids[k] = 0}
Stamped == [k \in DOMAIN ids |->
              IF ids[k] # 0 THEN ids[k]
              ELSE minted + Cardinality({j \in Unnamed : j <= k})]

(* One statement of the next migration; _add_columns skips a column that   *)
(* is there, CREATE ... IF NOT EXISTS a table, and the rebuild of          *)
(* focus_sessions copies its rows and id counter in one transaction.       *)
Apply(stmt) ==
  LET kind == stmt[1]
      name == stmt[2]
  IN
  CASE kind \in {"table", "column"} ->
         /\ shape' = shape \cup {name}
         /\ UNCHANGED <<ids, minted, counter, task, seededAt>>
    [] kind = "rebuild" ->
         /\ shape' = shape \cup {name}
         /\ counter' = IF name \in shape THEN counter ELSE Max({counter, NewestRow})
         /\ UNCHANGED <<ids, minted, task, seededAt>>
    [] kind = "stamp" ->
         /\ ids' = Stamped
         /\ minted' = minted + Cardinality(Unnamed)
         /\ UNCHANGED <<shape, counter, task, seededAt>>
    [] kind = "mark" ->
         /\ seededAt' = (seededAt \/ own # {} \/ demo # {} \/ inboxes > 0)
         /\ UNCHANGED <<shape, ids, minted, counter, task>>
    [] kind = "repair" ->
         /\ task' = IF Agrees(task) THEN task
                    ELSE [task EXCEPT !.status = IF task.done THEN "done" ELSE "backlog"]
         /\ UNCHANGED <<shape, ids, minted, counter, seededAt>>

(* Mutant: the version is written before the step's statements have run. *)
BumpEarly ==
  /\ at = "migrating" /\ version < Latest
  /\ version' = version + 1 /\ line' = 1
  /\ UNCHANGED <<shape, ids, minted, counter, task, own, demo, inboxes, seededAt,
                 at, kills, oldAlive, initialised>>

(* Mutant: ALTER TABLE without asking whether the column is there.         *)
AltersUnasked ==
  /\ at = "migrating" /\ version < Latest
  /\ line <= Len(Migrations[version + 1])
  /\ Migrations[version + 1][line] \notin {<<"column", name>> : name \in shape}
  /\ Apply(Migrations[version + 1][line])
  /\ line' = line + 1
  /\ UNCHANGED <<version, own, demo, inboxes, at, kills, oldAlive, initialised>>

Statement ==
  /\ at = "migrating" /\ version < Latest
  /\ line <= Len(Migrations[version + 1])
  /\ Apply(Migrations[version + 1][line])
  /\ line' = line + 1
  /\ UNCHANGED <<version, own, demo, inboxes, at, kills, oldAlive, initialised>>

(* The version is written only after the whole step is committed. *)
Bump ==
  /\ at = "migrating" /\ version < Latest
  /\ line > Len(Migrations[version + 1])
  /\ version' = version + 1 /\ line' = 1
  /\ UNCHANGED <<shape, ids, minted, counter, task, own, demo, inboxes, seededAt,
                 at, kills, oldAlive, initialised>>

(* The lifespan after init_db: seeders only when the marker is absent. *)
Migrated ==
  /\ at = "migrating" /\ version = Latest
  /\ at' = IF seededAt THEN "inbox" ELSE "habits"
  /\ UNCHANGED <<store, line, kills, oldAlive, initialised>>

Empty(table) == table \notin own \cup demo

AppendIds(n) == /\ ids' = ids \o [k \in 1..n |-> minted + k]
                /\ minted' = minted + n

SeedHabits ==
  /\ at = "habits"
  /\ IF Empty("routine_items")
       THEN demo' = demo \cup {"routine_items"} /\ AppendIds(1)
       ELSE UNCHANGED <<demo, ids, minted>>
  /\ at' = "lists"
  /\ UNCHANGED <<version, shape, counter, task, own, inboxes, seededAt, line,
                 kills, oldAlive, initialised>>

(* lists.seed_if_empty counts every list, the Inbox included, and commits  *)
(* the Inbox before the sample lists.                                      *)
SeedInbox ==
  /\ at = "lists"
  /\ IF Empty("lists") /\ inboxes = 0
       THEN inboxes' = 1 /\ at' = "samples"
       ELSE UNCHANGED inboxes /\ at' = "tasks"
  /\ UNCHANGED <<version, shape, ids, minted, counter, task, own, demo, seededAt,
                 line, kills, oldAlive, initialised>>

SeedLists ==
  /\ at = "samples"
  /\ demo' = demo \cup {"lists"}
  /\ at' = "tasks"
  /\ UNCHANGED <<version, shape, ids, minted, counter, task, own, inboxes,
                 seededAt, line, kills, oldAlive, initialised>>

SeedTasks ==
  /\ at = "tasks"
  /\ IF Empty("tasks")
       THEN demo' = demo \cup {"tasks"} /\ AppendIds(1)
       ELSE UNCHANGED <<demo, ids, minted>>
  /\ at' = "marking"
  /\ UNCHANGED <<version, shape, counter, task, own, inboxes, seededAt, line,
                 kills, oldAlive, initialised>>

Mark ==
  /\ at = "marking"
  /\ seededAt' = TRUE
  /\ at' = "inbox"
  /\ UNCHANGED <<version, shape, ids, minted, counter, task, own, demo, inboxes,
                 line, kills, oldAlive, initialised>>

EnsureInbox ==
  /\ at = "inbox"
  /\ inboxes' = IF inboxes = 0 THEN 1 ELSE inboxes
  /\ at' = "up" /\ initialised' = TRUE
  /\ UNCHANGED <<version, shape, ids, minted, counter, task, own, demo, seededAt,
                 line, kills, oldAlive>>

Kill ==
  /\ at # "down" /\ kills < MaxKills
  /\ at' = "down" /\ line' = 1 /\ kills' = kills + 1
  /\ UNCHANGED <<store, oldAlive, initialised>>

(* The owner deletes every habit; lists and tasks are never deleted.       *)
ClearHabits ==
  /\ at = "up" /\ ~Empty("routine_items")
  /\ own' = own \ {"routine_items"} /\ demo' = demo \ {"routine_items"}
  /\ UNCHANGED <<version, shape, ids, minted, counter, task, inboxes, seededAt,
                 at, line, kills, oldAlive, initialised>>

(* A process of before v9 still running appends an event: no identity. *)
OldAppend ==
  /\ oldAlive /\ Len(ids) < 4
  /\ ids' = Append(ids, 0)
  /\ UNCHANGED <<version, shape, minted, counter, task, own, demo, inboxes,
                 seededAt, at, line, kills, oldAlive, initialised>>

OldExit ==
  /\ oldAlive
  /\ oldAlive' = FALSE
  /\ UNCHANGED <<store, at, line, kills, initialised>>

Start == Boot \/ Statement \/ Bump \/ Migrated \/ SeedHabits \/ SeedInbox
         \/ SeedLists \/ SeedTasks \/ Mark \/ EnsureInbox

Next == Start \/ Kill \/ ClearHabits \/ OldAppend \/ OldExit

Fairness == WF_vars(Start)
Spec == Init /\ [][Next]_vars /\ Fairness

-----------------------------------------------------------------------------
(* An application that answers has the whole schema, one Inbox and a board *)
(* whose columns agree with completion, whatever database it found and     *)
(* wherever earlier starts were killed.                                    *)
ServesWhole ==
  at = "up" =>
    /\ version = Latest /\ shape = ShapeOf(Latest)
    /\ inboxes = 1 /\ seededAt
    /\ "tasks" \in own => Agrees(task)

(* Demo rows and their events enter only an installation that was never    *)
(* used and never finished a start; a table the owner emptied stays empty. *)
StepDemo == demo' \subseteq demo \/ (~initialised /\ own = {})
DemoOnlyFresh == [][StepDemo]_vars

(* An event keeps the identity it was exported under, no two events share  *)
(* one, and the counter that alone remembers the ids of sessions no longer *)
(* in the table never goes back.                                           *)
StepIdentities ==
  /\ \A k \in DOMAIN ids : ids[k] # 0 => ids'[k] = ids[k]
  /\ \A j, k \in DOMAIN ids' : ids'[j] = ids'[k] /\ ids'[j] # 0 => j = k
  /\ counter' >= counter
IdentitiesLast == [][StepIdentities]_vars

(* A start that is not killed again ends serving, from any database.       *)
Serves == at = "up"
EveryStartServes == <>[]Serves

(* "... a row a pre-v9 process appended after the migration and before     *)
(* init_db() healed it": after a start no event lacks an identity.         *)
EveryEventIdentified ==
  at = "up" /\ ~oldAlive => Unnamed = {}
=============================================================================
