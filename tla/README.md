# A formal model of Ephemeris

Ephemeris is a single-user tracker: habits, tasks, a focus timer, a diary,
retrospectives, a calendar, and "Learn", a library of lessons that can run code
and hold a terminal with an agent. One uvicorn worker serves it with FastAPI.
This directory holds TLA+ modules that model its components, TLC configurations
that check them on small instances, and TLAPS proofs for every instance.

* A line reference `file:n` is relative to `src/app/` unless it says otherwise.
* `PROJECT.json` lists the components, the runs, for each property a mutant of
  the model that breaks it, the source lines of every definition, the hazards of
  the code and the theorems.

To repeat a run: `tlc -config MCRunner.cfg MCRunner.tla`. To repeat a proof:
`tlapm RunnerProofs.tla`.

## 1. The system

### 1.1 How it runs

* **Two kinds of concurrency.** `async` code (the runner, its SSE streams, the
  terminal sockets) runs on one event loop: a stretch between two `await`s is
  atomic. Ordinary handlers and the finish hook of a run are synchronous and run
  in a thread pool, so their steps interleave freely.
* **The database.** SQLite in WAL mode, one connection per request, a busy
  timeout of 5 s. `with conn:` opens a *deferred* transaction at the first
  INSERT, UPDATE or DELETE; a SELECT before it runs outside the writer lock.
  `db.immediate()` takes the lock first. That difference decides which handlers
  can act on an outdated read.
* **The ledger.** Every service writes its rows and one event of `events` in one
  transaction (`db.append_event`). `services/export.py` serialises the ledger and
  `scripts/restore_from_export.py` replays a part of it.
* **Files.** Lesson bundles keep state beside the database: sealed JSONL files
  with a cursor, a manifest, revisions.

### 1.2 Inventory

| Component | State | Operations | Interacts with | What is hard |
|---|---|---|---|---|
| Runner service (`runner.py`) | job objects, retained jobs, idempotency table, two admission counters, per-job condition, shutdown flag | admit, get, cancel, attach/detach a reader, append output, finish, prune, shutdown | SSE routes of `routers/learn.py`; the finish hook in a worker thread; a process group, two pipes | five ways to end a job race; retries; leases against eviction; shutdown against everything |
| Run log (`services/runs.py`, `runner_registry.py`) | `runs.jsonl` per lesson, its seal, finish events | start request, finish hook, compaction, restart | runner, projection, lesson lock | outside edits between any two calls, a crash between the append and the seal |
| Record skeleton, attempts (`services/projection.py`, `attempts.py`) | attempt events, sealed files, cursor sidecars | replay under the lesson lock, validate outside it, write, project | ledger, files | idempotent replay, state read before the second lock |
| Assessments (`services/assessments.py`, `learner_memory.py`) | append-only rows with `seq`, supersede and retraction links, `assessments.jsonl` with a seal | record, correct, retract, sweep, reconcile; the record panel and its cursor | attempts, terminal capability, manifest | corrections race with corrections and with archiving; the file is written after the commit, by two processes |
| Focus timer (`services/focus.py`, `routers/focus.py`, `static/src/focus-timer.ts`) | one `focus_runs` row, `focus_sessions`, ledger; in every tab a view, a busy flag and two counters | start, pause, resume, finish, discard; poll, absorb, resync | items, tasks, lessons as targets | retried starts, several tabs, lost answers, price of a capped run |
| Habits (`services/items.py`, `checkins.py`, `routers/habits.py`) | `routine_items`, `checkins`, `daily_notes` | create, update, archive, revive, delete; tap a status, save a note, clear | ledger, restore script, focus targets | reads outside the lock; replayability |
| Tasks and lists (`services/tasks.py`, `lists.py`, `quickadd.py`) | `tasks` with fractional order, `lists` | create, toggle, set status, update, reorder, respace, archive a list | ledger, focus targets | status and `completed_at` must agree; respacing |
| Diary, retro (`services/diary.py`, `retro.py`) | entries with a private latch, snapshots in the ledger | create, update, archive | ledger | latch under concurrent edits; the event must be what was stored |
| Calendar (`services/calendar_events.py`) | event series, excluded dates | create, edit, exclude, archive; expand on read | lists, export snapshots | recurrence at month and leap boundaries |
| Lessons, bundles (`services/lessons.py`, `bundle_schema.py`, `src/scripts/migrate_bundles.py`) | lesson rows, manifests, the bundle's `.git` and `node_modules`, a digest cache | create, set status, archive, restore, ensure manifest, prepare workspace, serve a page, migrate, roll back | files, ledger, the agent's shell, the learn bridge | rows are read before the transaction; the shell writes the same files; crashes between files |
| Lesson build, render check (`lesson_build.py`, `render_check.py`) | process groups, the artifact and what it set aside; the events of a browser | install, bundle, place, judge, keep or undo | package manager, browser, the agent's shell | cancellation at any await; the agent edits the output; events of other documents |
| Artifacts (`services/artifacts.py`) | one file per block, its revision is its digest | read, save against a revision, snapshot for a run | lesson lock, runner, the agent's shell | lost update, a run filed under code it did not execute |
| Terminal (`terminal.py`, `static/src/terminal.ts`) | sessions, sockets, capability tokens | create, attach, boot the old socket, reap, close | pty, agent | one socket per session, reaping against attaching |
| Database, start-up (`db.py`, `main.py`) | schema version, 20 migrations, `seeded_at` | migrate, seed, ensure the Inbox | every service | a kill between any two statements; an older process still writing |
| Export, backup, restore (`export.py`, `src/scripts/*`) | export files, backup sets with claims, a restored instance | export, prune, back up, restore, deliver, redeliver | ledger | overlapping retention, a kill at every step, files delivered in any order |
| Perimeter (`security.py`, `limits.py`, `request_body.py`, `settings.py`) | none | per-request checks | every route | none of the kind modelled here |
| Statistics, pages (`stats.py`, `routers/site.py`) | none | derivations | every table | streak rules |
| Browser (`board.ts`, `dnd.ts`, `palette.ts`, `app.ts`, `learn-bridge.ts`) | page state | DOM wiring; the frame handshake | routes, lesson frames | request correlation |

What makes each component correct, in one line:

* **Runner**: one logical start runs once; limits hold; every job ends, once, with
  its output before its exit; nothing is left behind by a shutdown.
* **Run records, skeleton**: a record appears exactly once in the ledger and in
  the file, in the same order, after any crash.
* **Focus**: recorded time is time that passed, once; nobody is told something
  that is not so.
* **Habits, tasks, diary, retro**: the row and its event agree; a concurrent
  request is neither lost nor half applied; what the export claims to be
  replayable is.
* **Export, restore, start-up**: a crash at any point leaves a state the next run
  completes.
* **Assessments, lessons, artifacts**: the ledger tells the rows, no correction is applied
  twice, and what the agent writes is neither lost nor taken for what the app wrote.
* **Build, render check**: a page called built is there and clean; a build that is not
  leaves the bundle as it was.
* **Terminal**: one socket and one process per session; reaping never takes an
  attached one.

## 2. The modules and how they correspond to the code

| Module | Models | One action is |
|---|---|---|
| `Runner`, `RunnerProofs` | `runner.py` `RunnerService`, the SSE route of `routers/learn.py` | a stretch of event-loop code between two awaits, or one job of a worker thread |
| `Stopwatch` | nothing in the code: the abstract promise of the focus timer | a second, or a command |
| `FocusTimer`, `FocusProofs` | `services/focus.py`, the target guards of `items.py` | one transaction |
| `FocusDrawer`, `FocusProofs` | `focus-timer.ts` in several tabs over `FocusTimer` | one event handler of the page, or one transaction of the server |
| `HabitLedger`, `LedgersProofs` | `items.py`, `checkins.py`, their routes, the replay of `restore_from_export.py` | the read of a handler, or its transaction |
| `Tasks`, `TaskBoard`, `PagesProofs` | `tasks.py`, its routes; `board.ts` in several tabs | one transaction; one event handler of the page |
| `RunLog` | the finish hook and `runs.jsonl` of `services/runs.py`, the publisher of `projection.py` | one system call of the lock's holder |
| `Terminal`, `ServerProofs` | `terminal.py` | a stretch between two awaits |
| `Attempts`, `AttemptsProofs` | `attempts.py`, the record skeleton of `projection.py` | one statement or transaction, one system call on the projection |
| `Assessments` | `assessments.py` on the same skeleton | one statement or transaction, one stage of the projection |
| `RecordPanel`, `PagesProofs` | `lessons.record_panel_db_state`, `assessments.panel_state`, the counts route | one SELECT of a reader, one commit of a writer |
| `Lessons` | the writes of `lessons.py`, `_ensure_bundle_manifest` | the read of a handler, its transaction, the read or the write of a manifest |
| `LessonBundle`, `LessonsProofs` | `_ensure_bundle_repo`, `_ensure_build_workspace` | one look at a name, one change of it |
| `BundleMigration`, `LessonsProofs` | `src/scripts/migrate_bundles.py` | one file read or written |
| `Preview`, `PagesProofs` | the page snapshot and its cache in `lessons.py`, the preview frame of `learn-bridge.ts`, `attempts._derive_stale` | one system call of the server, one event handler of the page |
| `Artifacts`, `LessonsProofs` | `artifacts.py`, the snapshot `services/runs.py` takes | one system call on the file |
| `LessonBuild`, `LessonsProofs` | `lesson_build.py` | a stretch between two awaits |
| `RenderCheck`, `LessonsProofs` | `render_check.py` | one message from the browser, or one stage of the check |
| `Startup`, `ServerProofs` | `db.init_db`, the migrations, `main._lifespan`, the seeders | one committed statement |
| `Backup`, `RecoveryProofs` | `src/scripts/backup_db.py`: a pass with `--keep` | one file system call of a pass |
| `Restore`, `RecoveryProofs` | `backup_db.py --restore` | one rename or copy |
| `Export`, `RecoveryProofs` | `services/export.py`, its route | one file system call |
| `Delivery`, `RecoveryProofs` | `export.iter_jsonl`, `restore_from_export.py` | one SELECT, or one transaction on the target |

The `MC*` modules hold no model. Each takes several components that do not share state
(`MCRunner` and `MCAttempts` take one; the scenes of `MCAttempts` say who takes part) and lets each behaviour be of one of them: the
variable `scene` says which, and the state variables `v1`, `v2`, ... are its variables, by
`INSTANCE ... WITH`. A property reads `scene = "backup" => ...`. The state space of such a
run is the disjoint union of the components' state spaces, so that one run checks several
components without multiplying them. The components that do interact are composed in their
modules: `FocusDrawer` extends `FocusTimer`, `TaskBoard` extends `Tasks`, `Preview` holds server,
page and agent, `Delivery` source and target.

`LessonsProofs`, `LedgersProofs`, `PagesProofs`, `ServerProofs` and `RecoveryProofs` extend the MC module of that run and prove its
properties for every value of the constants. A component's invariant `XInv` holds of the behaviours of
its scene (`scene = "x" => XInv`), and a lemma `XScene` says that such a behaviour takes only the steps
of that component. The modules begin each part with the names the component has for `v1`, `v2`, ...

### 2.1 Runner

`job[j]` is a `RunnerJob`: state, cause, whether its slot is released, the reaped flag,
the end-of-file flags, output counters, events, waiting streams and leases. `drive[j]` and
`stream[j][s]` are the positions of `_drive_job` and `_read_stream`. `retained`, `replay`,
`activeTotal` and `activeByLesson` are the tables of the service. `proc[j]` is the
operating system's side: the group leader, a child that may hold the pipes, the open
ends, the working directory. `sse[r]` is a stream handler with its lease and cursor. Time
(`now`) is read by retention only. Worker threads appear where the code uses them, for
the finish hook.

`RunnerService.start` is one action because nothing in it awaits between the look-up and
the insertion; `prepare_start`, which does, only serialises the reading of the snapshot.

### 2.2 Focus timer and drawer

Every write of `focus.py` runs under `immediate()`, so a transaction is one action.
`Stopwatch` says what the timestamps mean: a timer counts the seconds it is not
paused and a finished session is as long as the count. `FocusTimer` keeps the start, the
pause in flight and the paused seconds as the table does, and `CountsLikeAStopwatch` is
the refinement. `FocusDrawer` composes the timer with tabs: each has its view, a busy flag
and the two counters with which the script discards answers that a newer request has
overtaken. Requests and answers are messages in flight; the network loses either, and a
tab may navigate away.

### 2.3 Habits

A handler reads outside the writer lock and commits later, so it is two actions, and
two clients interleave between them. The ledger is kept as what its replay yields:
`restored` is the tables that `restore_from_export.py` would build from it. Two reads that
see the same version are merged into one. The group,
title, order and emoji of a habit are one value, the `card`.

### 2.4 Tasks and board

The handlers of `tasks.py` decide under `immediate()`. `told` is the fold of the task's
events, compared with the row. In `TaskBoard` a tab keeps the optimistic column of every
card, the gesture in flight and the one queued behind it; answers are refused or lost.

### 2.5 Run log and attempts

The bundle directory is shared with people and programs that take no lock, so the unit
of atomicity is the system call: between any two of them a file can be saved over the
name, appended to, rewritten or removed. A seal (`file_seal`) is an inode with its
number of changes. `RunLog` keeps every inode that ever held the name, since the code
moves files aside. `Attempts` has no such place and keeps only what the name holds.

In `Attempts` a request walks through the three replays of `projection.record`. There
are two processes, as in a rolling restart: the lesson lock and the rate window exist
once per process, the unique index and the file lock once. A row is named by the
request that wrote it, and its place in the order of `(created_at, attempt_id)` is any
free one, which covers a clock set back.

### 2.6 Terminal

`sess` holds the sessions by the order of their ids; a live one is in `_SESSIONS`.
Connections and sessions have program counters at the awaits of
`_serve_ws`, `_attach`, `_create_session` and `close`. The creation lock, the attach lock
and the send lock are explicit, with their waiters. What a socket received is a range
of the output (`got`), so that a gap and a repetition are visible.

### 2.7 Assessments and the record panel

`Assessments` follows one POST through the router's read, the capability, the sweep, the
three replays, the insert under `BEGIN IMMEDIATE` and the projection. `rows` is insert-only, so a
row is its index, its key and what it supersedes. `file` is what `assessments.jsonl` holds; `sealed`
are the processes whose stat stamp still matches it. Archiving, the end of a session, edits of the
file and of the manifest come from outside at any point. `RecordPanel` has only the reads:
`snap[r]` is what the read transaction of `r` shows, `answers` the pairs of panel and cursor
that clients were given.

### 2.8 Lessons and bundles

`Lessons` has one row and one manifest per lesson; `seen[r]` is what a request read before its
transaction. `LessonBundle` names the parts of a repository (`head`, `dirs`, `config`, `identity`,
`rules`) and what stands at the name `node_modules`; `waived` remembers that a config was passed over
or edited after it was looked at. `BundleMigration` keeps, per pass, its plan, its rollback
copies and its ledger file, beside the manifests on disk. In `Preview` a file is bytes, mtime
and identity; a token is the digest and the mtime; `expected`, `pending` and `armed` are the variables
of the bridge, and `slot[q]` the request of each kind that is out.

### 2.9 Build, render check, artifacts

`LessonBuild` keeps the group of processes of the running step, what holds the output name, what the
build put there and what it set aside. `RenderCheck` has the browser's messages as a queue and the
fields of `_Browser` with their two caps; the page does what it likes, and runs scripts besides its artifact. `Artifacts` compares descriptors and names: every write
gives the file a new identity.

### 2.10 Start-up, backup, export

`Startup` lists the statements of all 20 migrations (a table, a column, a rebuild, a repair, a mark), so
that a kill can fall between any two; `HistoryAt(v, rows)` is what a database of version `v` looks
like. `Backup` has the three members of a set by name, the claim, the staging files and the retention of
several passes; `Restore` the entries of a directory, where each was moved, and the attempts made so far;
`Export` the finished files, what each pass decided to remove, the clock and the zone; `Delivery` the audit stream of the source as a sequence, what each
export holds of it and the target with its id counters.

## 3. What the runs check

Every run is exhaustive for its constants and is done within five minutes on two
workers. Three rules fixed the bounds: each hazard of the list needs at most two actors
and two resources that race, plus a third to take the slot either of them gives up; each
queue, window or limit is small enough to be reached; each kind of fault happens at least
once in some run that checks the property it threatens.

| Run | Components and properties | Bounds, and why they are enough |
|---|---|---|
| `runner_job` | one cause, one exit record and it is the last event, never more output than the cap, nothing left behind; the job, a shutdown and the stream come to an end | one job on one stream with one reader, a cap of one unit, a child that holds the pipe; output, timeout, cancel, shutdown and crash in any order: every end a job can come to races every other; then (`faults`) reads, pipes and the spawn that fail, over two units of time |
| `runner_service` | tables: exact counters, one start per key, the size of the table. Streams: no lost wake-up, nothing undelivered, leases | three jobs under two keys, limits of one, one finished job kept, a retention of two in three units of time; one job whose two streams one reader reads, and one whose single stream two readers read, the second being the one a consumed notification leaves asleep |
| `drawer` | what a tab is told holds, a tab keeps its own writes, awake tabs converge | two tabs, one of which may be frozen, two requests in flight, one token, one lost answer |
| `pages` | board: cards and pane honest, the last gesture stored. Preview: an answer is filed under the page on display, and "fresh" is true. Panel: one cursor, one panel | two tabs, two tasks, a Done column of one card, four gestures, or three and a lost answer (`MCPages!Bounded`); two rewrites of the page and two navigations, so that a request can straddle both; two readers, two questions, three verdicts, so that a retraction resurfaces an older one |
| `ledgers` | assessments: one row per key, one summary per sitting, archived is binding, the file is a fold of one version and "projected" is true. Habits: only outdated reads part ledger and tables, daily notes replay | two writers in two processes under two keys: summaries and retractions with one restart, archival, ended session or outside edit, and all three kinds of submission without (`quiet`, `MCLedgers!Bounded`); two clients, one habit, one day |
| `lessons` | eight components, one property or two each: rows and events; build; render check; artifacts; workspace; migration; run log; attempts file | three requests over two lessons; two builds and two edits; a buffer of one event under two of noise, room for two of three script URLs; two saves in two processes under two edits; three opens with two disturbances (a config edited, a link that cannot be made, a crash among them); two passes over two bundles and one edit; four runs, one larger than the bound, with one crash or (`raced`, `MCLessons!Bounded`) one outside edit; two submissions and a session that opens, with an edit, a crash and a restore |
| `recovery` | focus timer: session and event agree, a timer can be recorded, its target stays, the refinement of `Stopwatch`. Backup, restore, export, delivery | two tokens, two targets, six seconds; three passes within one second keeping one set, and two (`nightly`) over three seconds; three attempts at three entries, failing or killed at any call; three exports keeping one, over an earlier one, in two seconds, with the clock or the zone set back; two exports of a stream of three events, three deliveries |
| `attempts_answers` | what the submitters of one key are told agrees, retries are free, a refusal means a new record, everyone is answered | a submission, its retry through a second process, and the same key for another question; a window of one, one crash; then (`apart`) two keys, so that the second submission appends, and one outside edit |
| `server` | start-up: a server that answers has everything, demo rows enter only fresh installations, identities last, every start serves. Terminal: output, capacity, tokens, parked writers; everyone is answered | any version of 20 with and without rows, an unnumbered step, an older process alongside, two kills; two connections for one slot, two chunks through a ring of one |

`habits_replay`, `backup_names` and `manifest_race` end in violations: section 7.

The runs `ledgers`, `recovery` and `runner_service` use symmetry; they check no liveness.
A component that theorems are about keeps its own variables and the names of its properties:
`MCRecovery` extends the focus timer, `MCServer` the terminal, `MCRunner` and `MCService` the
runner. The scenes of `MCService` are the same runner with other readers, streams and limits.

`PROJECT.json` has, for each property of each passing run, a mutant of the model that
the run catches. Mutants stand in the modules under a comment `Mutant:`; the
specification does not use them.

## 4. Fairness

* **Runner.** Weak fairness of each continuation on the event loop and of each thread
  job: the loop runs every ready callback and the pool every submitted job. Nothing is
  assumed of the process; the SIGKILL of the driver is what ends it. Disconnects,
  heartbeats and faults are not fair.
* **Drawer.** A tab that is awake polls (`setInterval`) and the server answers what it
  received. A tab outside `Awake` may be frozen by its browser for ever and is promised
  nothing; `TabsConverge` speaks of the others. Losses and navigation are not fair, and
  `MaxLost` bounds them.
* **Terminal.** Each coroutine is resumed when what it awaits has happened. `asyncio.Lock`
  wakes its waiters in order; the model lets any waiter take a free lock, which only
  weakens what is assumed. `MCServer` takes `Terminal`'s own `Fairness`; in the behaviours of
  the start nothing has begun in the terminal, so it asks nothing there.
* **Attempts.** Each worker thread is scheduled. A lock is held for a bounded number of
  calls and each actor takes it a bounded number of times, so weak fairness is enough.
* **Start-up.** A start that is not killed goes on, and something starts it again: the
  service manager (`Restart=on-failure` in `deploy/`). Kills are bounded and not fair.

The other modules state no fairness and no liveness.

## 5. Assumptions and simplifications

* Runner: children stay in the process group; a process id is not reused while it is
  used; a refused health probe changes nothing; `CancelledError` does not reach `_drive_job`. The
  shutdown also closes the pipe transports (`runner.py:402-409`), the kill of a group and the removal of its
  working directory are two thread jobs (`runner.py:506-508`) and one step here, and a reader asks for no
  event beyond the log (`learn.py:945-957` takes any cursor and then waits).
* Focus: the clock is not set back during a run. The detached retry of `finish_run` is
  unreachable (`TargetsExist`, proved, is the reason) and left out, and so are sessions recorded
  before tokens existed. In the drawer a start names no target, and is not refused for a missing one
  (`focus.py:101-116`).
* Board: `completed_at` values differ; a drag of a card that is evicted meanwhile is left
  out; a reloaded page appears in one step.
* Run log and attempts: an outside edit inside an append changes the length of the file. A
  rewrite of the same length in that window is sealed by the code (section 7); the runs
  leave it out of `RacingEdits`. Links, directories and special files on the name are
  left out.
* Attempts: validation fails or succeeds at will (the manifest is anybody's); the time of
  the rate window is abstract, any number of the oldest stamps may have expired.
* Terminal: cancellation of a serving coroutine, the window size and the shutdown sweep are
  left out; a sleep of the reaper may end at any time. The workspace and the token of a new session are
  two awaits (`terminal.py:641-659`) and one step here.
* Preview: every write moves the ctime; the load event of a superseded navigation does not
  fire; the profile (part of the token) is constant; the moment in which a foreign document has
  replaced the page and its load event has not yet fired is excluded; the second look of `postAttempt`
  at the metadata is left out, which allows more. The bridge that gives a frame up after `MAX_REASSERTS`
  (`learn-bridge.ts:487-495`), and a change of identity in the manifest alone (1633-1639), are left out.
* Lessons: all lessons have one title, so that every creation competes for one slug; a stamp is set
  or not.
* Artifacts: the agent does not write between the last look at the name and `os.replace`. That
  window is in the code; `late[r]` marks it and the property exempts it.
* Lesson build: adjacent system calls without an await are one step; the code names that window
  (`lesson_build.py:990-1003`) and does not close it.
* Render check: `fetched` chooses the words of a refusal only, and is left out.
* Bundle migration: no edit falls between the guard of one bundle and its write
  (`src/scripts/migrate_bundles.py:448-473`); section 7.
* Start-up: the columns of one table, and the sample rows of one seeder, are one object; the seeder of
  the tasks commits row by row, and a kill inside it counts as after it. The unique index of migration 9 and `backfill_lesson_uids`
  (`db.py:568`, 635-636) are left out: no property speaks of what they add.
* Restore: the undo of a rename does not fail (`backup_db.py:1037-1042`), and no interrupt falls between a
  rename and the note of it (1024-1025).
* Backup: nothing looks at a claimed name between its creation and its lock; no pass is so slow that a
  stamp it is dropping or tidying is claimed within that same second (section 7).
* Export: `EXPORT_GRACE` is longer than sending a file takes; the clock or the zone steps back at most
  once.
* Assessments: a process keeps its stat stamp exact, i.e. no edit leaves size, inode and times as
  they were. A publish that fails leaves the old file; in the code it may fail after the replace
  (`projection.py:289-302`) and leave the new one, which is a fold of the same version.

## 6. What is proved

For every value of the constants, from the named assumptions of the modules:

* `RunnerProofs`: `Invariance` and from it `TypeCorrect` and `CapacityHolds`: the
  admission counters equal the number of active jobs. The type invariant is not inductive:
  a step that releases a slot must know that its job still holds one, which depends on
  where the driver of that job stands. `IInv` conjoins `JobPart` (each job record is well
  formed for its state, and `CapacityAccounting`), `TaskPart` (what the position of a driver
  says of its process), `TablePart` (retained jobs and replay entries name created jobs) and
  `RestPart` (shutdown, streams and their jobs, the clock).
  On how jobs end: `EndsAreClean` (`JobsEndClean`: one exit event, last; a driver
  that is done leaves no process and no directory; a shutdown that returned has finished and told of
  every job),
  `FirstCauseStands` (`CauseSettled`) and `StreamsAreServed` (`StreamsDeliver`). `EndInv` is
  inductive given `IInv`: `RecordEnds` places the exit event and the hook in a record,
  `DriverEnds` and `ReadersEnd` say how far the tasks have come when `reaped` and the streams'
  ends are set, `ProcessEnds` what is left of the process at each position of the driver,
  `StopEnds` what each phase of `shutdown()` has waited for. That no reader appends after the
  exit follows only from all of the first three: a job is finishable when it is reaped and every
  stream is at its end, and a stream at its end has no task left to write. `JobsMove` says what
  one step may make of the records, and gives both the action property and the steps of
  `StreamInv` that no handler takes. `StreamInv` adds to the property that the leases of a job are
  finitely many (nothing bounds `Readers`, so that is part of the induction), that its count is
  theirs, and that a complete stream stands at the end of a finished job.
  On the tables: `TablesAreSound` (`TablesSound`). `Books` relates the three tables: an
  entry tells of a job of its own lesson and key and carries the deadline of a finished one, a
  retained job owns its entry, and a job that has lost its entry finished at least the
  retention time ago. The last conjunct is what a new admission needs: it finds its entry
  free, so whoever had it is old enough. A prune keeps `Books` whatever it drops (`PruneBooks`);
  its bound (`KeptBound`) is shown by ranking: the kept jobs are among those that are not older than
  the oldest of them, and it is kept for having few of those.
* `ServerProofs`, on the terminal: `TerminalTypes` and `TerminalHolds` (`SessionsHold`: unbroken output, capacity
  across the lock gaps, tokens, one parked writer). `IInv` conjoins `Typed`, `Locks` (who holds the
  creation lock, and the attach lock of each session), `Places` (what the position of a socket says
  of its session), `Entries` (what the phase of a session says of its sockets), `Room`, `Tokens` and
  `Unbroken`. It takes the session table as a parameter, since accepting a socket and
  entering the creation lock first reap: those steps are shown as a step from the table a reap
  leaves, for which the invariant is shown separately (`DoomKeeps`).
* `ServerProofs`, on the start: `StartsSoundly` (`StartIsSound`). `Built` says which tables a version and the
  position in the next script promise, with the one exception the renumbered step 10 left; `Marked` that from
  the second statement of steps 16 and 18 on, whichever start ran it, the marker stands for the owner's rows
  and the board agrees; `Phase` that the seeders run only without the marker. Demo rows are then kept out by
  `Past(16)`, not by the seeders' own look at the tables. A kill takes nothing back, since every
  conjunct that speaks of the position also holds at its start. `StampsAreNew` shows that the identities
  the ninth step mints differ from each other and from those already there.
* `FocusProofs`, on the timer: `NeverStuck` (a run can always be finished or discarded),
  `TablesAgree` (ledger and sessions), `TimeIsReal` (recorded spans are disjoint and
  passed), `Attribution` (a session keeps its target), `Refinement` (the timer implements
  `Stopwatch`). `IInv` conjoins the type invariant with `NoStuckRun`, `RunShape`,
  `TargetsExist`, `LedgerMatches` and `SpansDisjoint`. `RunShape` says that the
  pauses of a timer fit between its start and the moment work stopped, so that the arithmetic of
  `_elapsed_seconds` never meets its clamps: without it neither the credit nor the dates of a
  finish follow.

* `FocusProofs`, on the drawer: `DrawerImplements` (the drawer does to the timer only what `FocusTimer`
  allows, so that its theorems hold of the composition) and `TabsAreHonest` (`TabsHonest`, for any
  number of tabs, requests in flight, lost answers and reloads). The property says what is true after
  an answer; the induction needs what is true while it travels. `Opened` is the set of tokens whose start
  has been served; `OncePart` puts every other start in one place, the wire of one tab or the
  orphans; `KnownPart` says that nobody else knows a token before it is opened, so that an
  ended timer never comes back; `AnswerPart` and `SightPart` say what the answers under way will show.
  `Frame` is shown once for all steps; a step then only accounts for the page it changes.

`TypeOK` of `Runner` bounds the output of a job by `OutputLimit`: that the two reader tasks,
each capping its own chunk, keep the combined cap is part of `TypeCorrect`.

* `RecoveryProofs`: `RetentionSparesTheServed` (`ExportsArrive`). `ExportInv` conjoins the types with
  `Fresh` (a request not yet sent wrote its file within the grace), `Owned` (a file that stands under a
  name is its author's, of that age), `Linked` and `OldNews` (what a pass once decided to remove had been
  sent). The last is what lets the removal come any time after the decision; without `Owned` the age of
  a file says nothing of its request.
  `RestoresHold` (`RestoresAreWhole`). `EntryOK` says where the attempt under way stands with an entry:
  still to move, moved, installed, or untouched. `Kept` says that an entry of the first instance is in its
  place or under exactly one name, and `Stacked` that the names an entry was set aside under are the
  first ones: an undo empties the last of them, so the first free name is always one that no earlier
  attempt's entry stands under, and none is overwritten.
  `BackupsStand` (`BackupsHold`, for both instances of `Backup` the run checks and any number of passes).
  `Claimed` says that a run owns its stamp from the claim until its manifest is out: what stands under the
  stamp is what the run has published, nobody else works under it and no pass is about to remove it.
  `Whole` is then kept by the order of the renames. `Retained` carries a pass's decision to its removal:
  each set it will drop keeps `Keep` newer ones, and since the order of names is transitive, whatever
  another pass drops meanwhile leaves as many. The attempt to prove it found the claim of a run at work
  without protection from a pass that had listed the name earlier (section 7); with three passes, as the
  run has, no behaviour gets that far.
  `TargetsAdvance` (`DeliveriesAdvance`): `Mirrors` says that an unused target holds the events 1 to m of the
  source, a calendar that is not behind them, and ids past them. A file that shares its history has n >= m
  events, and `InOrderIs` shows that what `_apply_records` does not skip of it are m + 1 to n.
* `LessonsProofs`: the eight components of the run `lessons`.
  `MigrationHolds` (`MigrationIsReversible`): `RunOK` says what a pass holds of the manifest it works on at
  each position (its plan is of the first version, the copy is the plan's bytes, the ledger names it
  before the write), `UndoOK` that a rollback only ever stands before a manifest no agent wrote.
  `BuildsAlone` and `BuildsEndTrue` (`OneBuildAtATime`, `BuildEndsTrue`): a build stands between its first
  step and its verdict exactly while it holds the lesson, has processes only in the first two steps, and
  while it is rendered its page is at the name unless an edit is on record.
  `ArtifactsHold` (`ArtifactsKeepTheirWord`): the identity of a file stands for its bytes, so a save that
  compared identities compared contents.
  `WorkspacesHold` (`WorkspaceHolds`): the marker is what an open adds last, so that a repository
  that looks ready has its directories and an identity, or the code passed the config over, or the
  session edited it since (`waived`, in `RepoOK` and `OpenOK`; section 7); and the link an answered open stands on is taken away
  only by an open that is about to place it again (`LinkHeld`).
  `VerdictsHold` (`VerdictsAreEarned`): the socket delivers in order, so what the page has done and the check
  does not know is in it, and lies before the answer the check waits for if it was done before that
  (`Asking`, `Answered`). Navigation forgets what came before the commit, which is why `Committed` splits
  the socket there. A script that ran is remembered, told in the socket, or the URLs were full
  (`Tells`), which is when as many other scripts ran (`CheckAssumption`: they are finitely many).
  `LessonsTold` (`LessonsAreTold`, for any number of requests and lessons): `Ready` says what a request
  holds at each of its awaits; what it read of its lesson may be outdated, but its UPDATE and its event
  are one transaction, so that the last event of a kind is the value of the column. A slug is free when
  it is picked (`FreeSlugExists`, by counting) and may be taken when it is written: the unique index
  refuses the second creation, and `RowsAreSound` is why it can.
  `RunLogHolds` (`RunLogTells`, for any runs, lengths, bound, crashes, edits and opens): `Describes` says that
  a seal tells of a file whose change number has not passed it, and that while the numbers are equal the file
  is an end of the history within the bound. `Knows` says what the holder of the lock knows at each call:
  that its file still tells that end, *or* has left the trace which a later call compares, the length
  after an append (`AtWrite`, `AtCheck`) and the change number after a swap (`AtVerify`). It is kept by
  whatever the outside does between two calls (`StillKnown`), provided lines only grow: this is where the
  assumption on rewrites of section 5 is used, and nowhere else. The first two properties hold because
  `Seals` turns `AtSeal` into `Describes`; that there is an unused inode for whoever publishes
  (`FilesLeft`) is a count of the runs and edits that have used up theirs. The length of a file is a sum
  over its lines; what the proof needs of it (`SizeGrows`, `SizeOfSome`) is shown from the least prefix on
  which two such sums differ (`LeastExists`), an induction that uses only the library's theorem
  that proper inclusion of finite sets is well-founded.
* `LedgersProofs`: `HabitsHold` (`HabitsReplay`). `RowsStand` (a check-in belongs to an item, no two share an
  id), `Asked` (what a handler can have been asked and have read) and the shape of the replay are the
  invariant; the steps compare what an event does to the replay with what the transaction did to the
  tables. The proof found the replay of the model to be a CASE whose guards overlap, of which TLA+ does
  not say which arm is taken (TLC takes the first); it is now guarded by the state of the replay, and two
  other operators like it (`Backup!NextMember`, `Restore!Begin`) were rewritten.
  `AssessmentsAreSound` (`AssessmentsHold`) and `ProjectionHolds` (`ProjectionIsAFold`), for any writers,
  processes, keys, restarts and edits, from `AssessInv`: `TableStands` says that ids grow and no two rows
  share a key, `FileStands` that the sidecar names a fold of the table as it was at some version, and
  `Sound`, `Holding` and `Told` what a call has established before its insert, what the holder of the
  projection's lock has read and written so far, and what its caller is told.

* `PagesProofs`: four theorems on the pages.
  `PreviewHonest` (`AnswersMatchThePage`): `TokensTrue` says that what was read under a token is what the
  token names, whether the descriptor or the cache told the digest, and `CacheTrue` why the cache may:
  the digest in it is the page's as long as its key is. `FrameTrue` carries that to the frame once no
  navigation is pending, `HeldTrue` to the answers under way: since one was sent, the page has held what it
  holds now and what is open.
  `PanelHonest` (`CursorTellsThePanel`): both tables only grow, so a reading is the panel of a prefix
  of each, and the cursor tells the two lengths. `Answered` says this of an answer, `Reader` of a reading
  whose first SELECT is done.
  `BoardIsHonest` (`BoardHonest`) and `GesturesAreStored` (`LastGestureStored`), from `BoardInv`: `Ledger`
  (events and tasks), `Column` (the Done column shows each task once, and only completed ones), `Card` (a
  card without a loop shows what was acknowledged), `Wires` (each loop has exactly one request under way) and
  `Gestures` (the last gesture is what the loop asks for last, and what the server holds once it has stored
  it). The proof showed that the property needs no exception for cards with a request that outlived its page or
  its answer (`orphans`), which it used to make: until such a request is served the gesture stands, and then
  it counts as another writer.
* `AttemptsProofs`, for any submissions, keys, processes, crashes, edits and restores: `AnswersAreOne`
  (`AnswersHold`), `RefusalsAreOfNew` (`RefusedMeansNew`), `VouchedHolds` (`VouchedIsAuthority` of `Attempts`) and
  `SuccessTold` (`SuccessIsCurrent`). The last two assume that nobody rewrites lines in place between an append
  and its check (section 5); the first two need no such thing, which is why `IInv` carries the assumption
  inside, as `Trusted`. `Table` says that no two rows share a key or a stamp and that each row's writer is past the write;
  `Answered` which row every answer names; `Windows` who holds a slot; `Sealed` what the sidecar and the file say
  of each other, where the cursor may have been overtaken by a database put back; `Work` how far the holder of
  the file lock has come, with `Content`, what the file holds if its next call succeeds. `Ordered` is a
  ranking by stamps: `OrderedGrows` shows that a row which sorts last leaves the lines of the others alone,
  and `OrderedLast` that the row of the last line carries the tail. `LessonsProofs` takes the module as an
  instance and concludes `AttemptsHold` (`VouchedIsAuthority` of the scene).

With these, every safety property that a passing run checks is proved for every value of the
constants. Checked on small instances only: the liveness properties (`JobsAndStreamsEnd`, `TabsConverge`,
`EveryoneAnswered`, `EveryStartServes`, `Answered`), which need fairness and ENABLED and are out of the
provers' reach.

The models were changed for the proofs where they could not be reasoned about, never in what they
allow. The scenes of a run that differ in their bounds are one instance with a guard (`Bounded` in
`MCPages`, `MCAttempts`, `MCLedgers` and `MCLessons`), so that one theorem speaks of both, and for
the same reason the raced run log now has as many inodes as its runs and edits can use. `RunLog!Size` is a
recursive function over the prefixes of a file. What was tacit about the constants is named
(`LogAssumption`, `LessonsAssumption`, `AssessmentsAssumption`, `RacingAssumption`).

## 7. Where the code and its description part

Three runs end in a violation, each on one property that the repository states.

* `habits_replay`: two overlapping clears, or deletes, append two events, and the restore, which
  is documented to bring back what the ledger tells, refuses the second and rolls everything
  back (`checkins.py:206`, `items.py:172`).
* `backup_names`: `list_sets` takes the text order of the names for their age
  (`src/scripts/backup_db.py:780`). The second set of one second is named with `-2` and sorts before the
  first, and a clock that steps back does the same; `prune` then deletes the newer set.
  `services/export.py` compares the number for this reason (`_order`); the backup script does not.
* `manifest_race`: `_ensure_bundle_manifest` finds no manifest and writes the skeleton over one
  that the session has created meanwhile (`lessons.py:572-574`); its docstring says "Creation, never repair".

The models have the following behaviours as well. They are read from the code and limit what
the properties claim. Where a name is given, the property stands in the module and TLC
refutes it there; no listed run is about it.

* A shutdown can return while the working directory of a finished job is still there
  (`runner.py:393`); `StopsClean` speaks of the jobs it waits for.
* A tap that read before a note was saved writes the old note back (`checkins.py:184`).
* A reload drops a gesture queued on another card (`board.ts:212`); `LastGestureStored` says so.
* A restart of the run log overwrites a file saved between its two calls (`runs.py:274`), and two
  runs of one lesson can be logged in the other order (`runs.py:450`).
* An evicted session's shell outlives its place in the table (`terminal.py:569`), a session can be
  evicted while a connection is about to attach to it (`terminal.py:560`), and a session created
  while the reaper goes to sleep is watched by nobody until the next one (`terminal.py:584`).
* A rewrite of the same length inside the append of attempts is sealed (`attempts.py:574`).
* A lesson can be given a status although it was archived after the request read its row
  (`lessons.py:1803`): status and archival are separate columns, the events agree with both, and only
  the refusal "lesson is archived" is late.
* A build whose server dies leaves its artifact unjudged and the old page under its aside name
  (`LessonBuild!AlwaysPutBack`, `lesson_build.py:991` "Every path out of here").
* An event appended by an older process after the migration keeps no identity on later starts: the
  step that stamps them runs once (`Startup!EveryEventIdentified`, `services/export.py:64-66`
  "before init_db() healed it").
* The calendar of an export is read after its events (`services/export.py:85`), so delivering the newer of
  two overlapping exports can set the calendar back by what changed between the two SELECTs
  (`Delivery!CalendarNeverReverts`, `src/scripts/restore_from_export.py:454` "only ever moves forward").
* Two export passes can decide to remove the same old file; when one has, a third request can claim its
  name (a second repeated by the end of daylight saving) and the other then unlinks the new file before
  it is sent (`services/export.py:261` "covers every export still being delivered"). `Export!StepSent`
  exempts exactly this.
* Two passes can list the same abandoned claim. When one has unlinked it, a new run that starts within the
  second of that name claims the stamp, and the other pass unlinks a live claim: it probed the lock before
  (`src/scripts/backup_db.py:873-877`; line 201 "The flock is what keeps retention from sweeping a claim that
  is still being used"). TLC finds it with four passes once `Backup!BeingDropped` speaks of `"dropping"` alone.
* The URLs of executed scripts have a cap (`render_check.py:269`, `MAX_URLS` is 2000), and the gate asks
  whether the artifact is one of them: a page that runs that many other scripts first is refused although it
  is correct (`RenderCheck!NothingDisplaced`, `render_check.py:143-146` "nothing the gate depends on can be
  displaced by a flood of the channel that has a cap"). `RefusalIsEarned` says from which number on.
* A repository whose config is missing, a link or too large when an open repairs it gets the marker
  without an identity (`lessons.py:497`) and is never looked at again; the docstring excludes such a
  config ("not the app's to solve") but fears the same end ("the marker written just after would make
  that permanent", 478-480). `RepositoryUsable` says so with `waived`. An edit of the config between the
  read and the rename is overwritten (`lessons.py:520`).
* An edit of a manifest between the guard and the write of the migration, or of its rollback, is lost
  (`src/scripts/migrate_bundles.py:448`).

## 8. What is not modelled

`PROJECT.json` lists every component with its status. Left out for good: read-only views and pages,
text grammars (quick add, retro periods, the fields of a manifest, `learner_memory.py`), the
perimeter checks, which keep no state, generated or composed page text, `drop_lesson_libs.py` and
the hygiene scan.

Not modelled because one statement does all there is: the diary, retrospectives, calendar series (but see
`Delivery`), editing tasks and lists. A model of them would restate the UPDATE.

## 9. Plan

Written: every component whose state is reached by two actors or survives a crash, except the tab
store of the terminal drawer (`static/src/terminal.ts`).

Next:

1. The terminal drawer over `Terminal`, as `FocusDrawer` is over `FocusTimer`.
2. The diary's private latch under concurrent edits.
3. Calendar recurrence and the streak fold as operators against reference definitions.
