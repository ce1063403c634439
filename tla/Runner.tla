-------------------------------- MODULE Runner --------------------------------
(***************************************************************************)
(* The bounded job service of app/runner.py: admission, the coroutine that *)
(* drives one job's process, the two tasks that read its output, the first *)
(* termination cause, retention with idempotent replay, the SSE readers of *)
(* routers/learn.py, the finish hook, and shutdown.                        *)
(*                                                                         *)
(* One action is one stretch of a coroutine between two awaits, or one job *)
(* handed to a worker thread.  `self._lock` and `self._output_lock` are    *)
(* only ever held over stretches without an await, so on the single event  *)
(* loop a locked section is one atomic step.                               *)
(***************************************************************************)
EXTENDS Integers, Sequences, FiniteSets

CONSTANTS
    Lessons,          \* lesson_uid values
    Keys,             \* idempotency_key values
    Revs,             \* (block_id, file_rev) pairs a start may name
    Streams,          \* the output pipes, {"stdout", "stderr"} in the code
    Readers,          \* SSE attachments
    GlobalLimit,      \* GLOBAL_ACTIVE_LIMIT
    PerLessonLimit,   \* PER_LESSON_ACTIVE_LIMIT
    MaxTerminal,      \* MAX_TERMINAL_JOBS
    Retention,        \* TERMINAL_RETENTION_SECONDS, in clock ticks
    OutputLimit,      \* OUTPUT_LIMIT_BYTES, in units of the smallest chunk
    MaxChunk,         \* OUTPUT_READ_BYTES, in the same unit
    Kids,             \* background children a snapshot may leave behind
    Incidents,        \* what may go wrong or is done at all, of those below
    MaxJobs,          \* bound: jobs ever admitted
    Horizon,          \* bound: the clock
    None              \* Python's None

Causes == {"exit", "signal", "timeout", "cancelled", "output-limit",
           "spawn-failed", "shutdown"}             \* TERMINAL_CAUSES

ASSUME RunnerAssumption ==
    /\ GlobalLimit \in Nat /\ PerLessonLimit \in Nat
    /\ MaxTerminal \in Nat /\ Retention \in Nat
    /\ OutputLimit \in Nat /\ MaxChunk \in Nat
    /\ MaxJobs \in Nat /\ Horizon \in Nat
    /\ Kids \subseteq {"holds", "quiet"}
    /\ Incidents \subseteq {"spawn", "crash", "timeout", "read", "hook", "output",
                           "close", "cancel", "shutdown"}
    /\ None \notin Lessons \cup Keys \cup Revs \cup Causes

VARIABLES
    job,              \* RunnerJob objects by number, the order of creation
    issued,           \* how many jobs were created
    proc,             \* the operating system's side of each job
    drive,            \* where _drive_job stands, per job
    stream,           \* where _read_stream stands, per job and stream
    cancelKill,       \* jobs whose winning cancel still has to kill
    retained,         \* keys of self._jobs
    replay,           \* self._idempotency
    activeTotal,      \* self._active_total
    activeByLesson,   \* self._active_by_lesson, 0 for a missing key
    accepting,        \* self._accepting
    stop,             \* where shutdown() stands
    sse,              \* the stream handlers, with their leases and cursors
    now               \* time.monotonic()

service  == <<retained, replay, activeTotal, activeByLesson>>
tasks    == <<proc, drive, stream, cancelKill>>
rest     == <<issued, accepting, stop, sse, now>>
loop     == <<issued, tasks, activeTotal, activeByLesson, accepting, stop, now>>
vars     == <<job, tasks, service, rest>>

JobIds   == 1..MaxJobs
Never    == -1                       \* a replay entry without a deadline

NoJob == [state |-> "NONE", cause |-> None, lesson |-> None, key |-> None,
          rev |-> None, created |-> 0, finished |-> 0, released |-> FALSE,
          reaped |-> FALSE, eof |-> {}, bytes |-> 0, truncated |-> FALSE,
          partial |-> {}, events |-> <<>>, waiters |-> {}, readers |-> 0,
          hook |-> "none"]
NoProc  == [leader |-> "none", known |-> FALSE, adopted |-> FALSE,
            kid |-> "none", open |-> {}, pipe |-> {}, workdir |-> FALSE]
NoEntry == [job |-> 0, expires |-> Never]
Idle    == [pc |-> "idle", job |-> 0, cursor |-> 0, lease |-> FALSE,
            releases |-> 0]

Created  == 1..issued
Active(j)   == job[j].state \in {"STARTING", "RUNNING"}
Finished(j) == job[j].state = "FINISHED"

Init ==
    /\ job = [j \in JobIds |-> NoJob]
    /\ issued = 0
    /\ proc = [j \in JobIds |-> NoProc]
    /\ drive = [j \in JobIds |-> "none"]
    /\ stream = [j \in JobIds |-> [s \in Streams |-> "off"]]
    /\ cancelKill = {}
    /\ retained = {}
    /\ replay = [lk \in Lessons \X Keys |-> NoEntry]
    /\ activeTotal = 0
    /\ activeByLesson = [l \in Lessons |-> 0]
    /\ accepting = TRUE
    /\ stop = [pc |-> "serving", kill |-> {}, join |-> {}, hooks |-> {}]
    /\ sse = [r \in Readers |-> Idle]
    /\ now = 0

-----------------------------------------------------------------------------
(* Retention: _prune_locked over the job objects jf and the kept ids.       *)

Older(jf, i, k) ==
    \/ jf[i].finished < jf[k].finished
    \/ jf[i].finished = jf[k].finished /\ i < k

(* Mutant: the leased jobs do not count against the slots.                  *)
RetainBesideLeased(jf, kept) ==
    LET terminal  == {i \in kept : jf[i].state = "FINISHED"}
        protected == {i \in terminal : jf[i].readers > 0}
        fresh     == {i \in terminal \ protected :
                         now - jf[i].finished < Retention}
        newest    == {i \in fresh :
                         Cardinality({k \in fresh : ~Older(jf, k, i)}) <= MaxTerminal}
    IN  (kept \ terminal) \cup protected \cup newest

Retain(jf, kept) ==
    LET terminal  == {i \in kept : jf[i].state = "FINISHED"}
        protected == {i \in terminal : jf[i].readers > 0}
        fresh     == {i \in terminal \ protected :
                         now - jf[i].finished < Retention}
        slots     == IF MaxTerminal > Cardinality(protected)
                     THEN MaxTerminal - Cardinality(protected) ELSE 0
        newest    == {i \in fresh :
                         Cardinality({k \in fresh : ~Older(jf, k, i)}) <= slots}
    IN  (kept \ terminal) \cup protected \cup newest

Expire(entries, kept) ==
    [lk \in DOMAIN entries |->
        IF /\ entries[lk].expires # Never
           /\ now >= entries[lk].expires
           /\ entries[lk].job \notin kept
        THEN NoEntry ELSE entries[lk]]

Prune(jf, entries) ==
    /\ retained' = Retain(jf, retained)
    /\ replay' = Expire(entries, retained')

(* The job-state helpers, on one job record.                                *)

BeginAgain(r, cause) ==                  \* Mutant: the last cause wins
    [r EXCEPT !.cause = cause, !.state = "TERMINATING", !.released = TRUE]

Begin(r, cause) ==                       \* _begin_termination_locked
    IF r.cause # None THEN r
    ELSE [r EXCEPT !.cause = cause, !.state = "TERMINATING", !.released = TRUE]

Emit(r, kind) ==                         \* append an event, wake every waiter
    [r EXCEPT !.events = Append(@, kind), !.waiters = {}]

FinishableAtReap(r) ==                   \* Mutant: output is not awaited
    r.state = "TERMINATING" /\ r.reaped

Finishable(r) ==
    r.state = "TERMINATING" /\ r.reaped /\ r.eof = Streams

FinishRecord(r) ==                       \* _finish_locked on the record
    IF Finishable(r)
    THEN [Emit(r, "exit") EXCEPT
             !.state = "FINISHED", !.finished = now, !.hook = "pending"]
    ELSE r

(* Mutant: the end of the job gives its slot back as well.                  *)
ReleaseAtEnd(j, r) ==
    IF r.released /\ (~job[j].released \/ r.state = "FINISHED")
    THEN /\ activeTotal' = activeTotal - 1
         /\ activeByLesson' = [activeByLesson EXCEPT ![r.lesson] = @ - 1]
    ELSE UNCHANGED <<activeTotal, activeByLesson>>

(* The capacity counters give back what r releases and job[j] still held.   *)
Release(j, r) ==
    IF r.released /\ ~job[j].released
    THEN /\ activeTotal' = activeTotal - 1
         /\ activeByLesson' = [activeByLesson EXCEPT ![r.lesson] = @ - 1]
    ELSE UNCHANGED <<activeTotal, activeByLesson>>

(* Write r, then do what _finish_locked does with it: stamp the replay      *)
(* entry with its deadline and prune once the job has become FINISHED.      *)
Settle(j, r) ==
    LET f  == FinishRecord(r)
        lk == <<r.lesson, r.key>>
    IN  /\ job' = [job EXCEPT ![j] = f]
        /\ Release(j, f)
        /\ IF Finishable(r)
           THEN Prune(job', IF replay[lk].job = j
                            THEN [replay EXCEPT ![lk].expires = now + Retention]
                            ELSE replay)
           ELSE UNCHANGED <<retained, replay>>

(* Write r where the code calls no _finish_locked.                          *)
Update(j, r) ==
    /\ job' = [job EXCEPT ![j] = r]
    /\ Release(j, r)
    /\ UNCHANGED <<retained, replay>>

Killed(p) ==                             \* _kill_tree: SIGKILL the group
    [p EXCEPT !.leader = IF @ = "alive" THEN "signal" ELSE @,
              !.kid = "none", !.open = {}]

Kills(j) ==
    /\ proc' = [proc EXCEPT ![j] = Killed(@)]
    /\ UNCHANGED <<job, service>>

-----------------------------------------------------------------------------
(* Requests.                                                                *)

(* admit() past the health probe, when it reserves a new job.  A replay, a  *)
(* conflict, a missing job and every refusal only prune: see Sweep.         *)
Admit(l, k, v) ==
    LET j == issued + 1
        kept == Retain(job, retained)
        entries == Expire(replay, kept)
    IN  /\ issued < MaxJobs
        /\ entries[<<l, k>>] = NoEntry
        /\ accepting
        /\ activeByLesson[l] < PerLessonLimit
        /\ activeTotal < GlobalLimit
        /\ job' = [job EXCEPT ![j] =
                      [NoJob EXCEPT !.state = "STARTING", !.lesson = l,
                                    !.key = k, !.rev = v, !.created = now]]
        /\ issued' = j
        /\ retained' = kept \cup {j}
        /\ replay' = [entries EXCEPT ![<<l, k>>] = [job |-> j, expires |-> Never]]
        /\ activeTotal' = activeTotal + 1
        /\ activeByLesson' = [activeByLesson EXCEPT ![l] = @ + 1]
        /\ drive' = [drive EXCEPT ![j] = "new"]
        /\ UNCHANGED <<proc, stream, cancelKill, accepting, stop, sse, now>>

(* What every lookup does to the state: get(), and an admit() that answers  *)
(* with a replay or a refusal.                                              *)
Sweep ==
    /\ Prune(job, replay)
    /\ UNCHANGED <<job, tasks, activeTotal, activeByLesson, rest>>

(* The answer admit() gives for a key it already knows.                     *)
Replays(l, k, v, j) ==
    LET kept  == Retain(job, retained)
        entry == Expire(replay, kept)[<<l, k>>]
    IN  /\ entry # NoEntry
        /\ entry.job = j
        /\ job[j].rev = v
        /\ j \in kept

(* cancel() when it wins; a losing cancel changes nothing.                  *)
Cancel(j) ==
    /\ "cancel" \in Incidents
    /\ j \in retained
    /\ ~Finished(j)
    /\ ~job[j].reaped
    /\ ~(proc[j].adopted /\ proc[j].known)
    /\ job[j].cause = None
    /\ Update(j, Begin(job[j], "cancelled"))
    /\ cancelKill' = IF proc[j].adopted THEN cancelKill \cup {j} ELSE cancelKill
    /\ UNCHANGED <<proc, drive, stream, rest>>

CancelKill(j) ==
    /\ j \in cancelKill
    /\ cancelKill' = cancelKill \ {j}
    /\ Kills(j)
    /\ UNCHANGED <<drive, stream, rest>>

-----------------------------------------------------------------------------
(* The process: what the operating system and the snapshot's code may do.   *)

Process(j, p) ==
    /\ proc' = [proc EXCEPT ![j] = p]
    /\ UNCHANGED <<job, drive, stream, cancelKill, service, rest>>

LeaderExits(j, how) ==
    /\ proc[j].leader = "alive"
    /\ how = "signal" => "crash" \in Incidents
    /\ Process(j, [proc[j] EXCEPT !.leader = how, !.open = {}])

LeaderCloses(j, s) ==
    /\ "close" \in Incidents /\ s \in proc[j].open
    /\ Process(j, [proc[j] EXCEPT !.open = @ \ {s}])

Forks(j, kid) ==
    /\ proc[j].leader = "alive" /\ proc[j].kid = "none"
    /\ Process(j, [proc[j] EXCEPT !.kid = kid])

KidExits(j) ==
    /\ proc[j].kid # "none"
    /\ Process(j, [proc[j] EXCEPT !.kid = "none"])

HeldOpen(p, s) == s \in p.open \/ p.kid = "holds"

Writes(j, s) ==
    /\ "output" \in Incidents
    /\ HeldOpen(proc[j], s) /\ s \notin proc[j].pipe
    /\ Process(j, [proc[j] EXCEPT !.pipe = @ \cup {s}])

(* The child watcher stores the return code on the event loop.              *)
NoticeExit(j) ==
    /\ proc[j].leader \in {"exit", "signal"} /\ ~proc[j].known
    /\ Process(j, [proc[j] EXCEPT !.known = TRUE])

-----------------------------------------------------------------------------
(* _drive_job.                                                              *)

Step(j, from, to) ==
    /\ drive[j] = from
    /\ drive' = [drive EXCEPT ![j] = to]

Unspawned(r) == [r EXCEPT !.reaped = TRUE, !.eof = Streams]

DriveStarts(j) ==
    /\ IF job[j].state # "STARTING"
       THEN Step(j, "new", "done") /\ Settle(j, Unspawned(job[j]))
       ELSE Step(j, "new", "spawning") /\ UNCHANGED <<job, service>>
    /\ UNCHANGED <<proc, stream, cancelKill, rest>>

Spawns(j) ==
    /\ Step(j, "spawning", "adopting")
    /\ proc' = [proc EXCEPT ![j].leader = "alive", ![j].open = Streams,
                            ![j].workdir = TRUE]
    /\ UNCHANGED <<job, stream, cancelKill, service, rest>>

SpawnFails(j) ==
    /\ "spawn" \in Incidents
    /\ Step(j, "spawning", "done")
    /\ Settle(j, Unspawned(Begin(job[j], "spawn-failed")))
    /\ UNCHANGED <<proc, stream, cancelKill, rest>>

StartReaders(j) ==
    stream' = [stream EXCEPT ![j] = [s \in Streams |-> "reading"]]

(* job.process is set; a job terminated while it was being spawned is       *)
(* killed before its readers start.                                         *)
Adopts(j) ==
    /\ IF job[j].state = "STARTING"
       THEN /\ Step(j, "adopting", "waiting")
            /\ job' = [job EXCEPT ![j].state = "RUNNING"]
            /\ StartReaders(j)
       ELSE Step(j, "adopting", "killing") /\ UNCHANGED <<job, stream>>
    /\ proc' = [proc EXCEPT ![j].adopted = TRUE]
    /\ UNCHANGED <<cancelKill, service, rest>>

KillsNow(j) ==
    /\ Step(j, "killing", "waiting")
    /\ StartReaders(j)
    /\ Kills(j)
    /\ UNCHANGED <<cancelKill, rest>>

WallTimeout(j) ==
    /\ "timeout" \in Incidents
    /\ Step(j, "waiting", IF job[j].cause = None THEN "expiring" ELSE "awaiting")
    /\ Update(j, Begin(job[j], "timeout"))
    /\ UNCHANGED <<proc, stream, cancelKill, rest>>

TimeoutKills(j) ==
    /\ Step(j, "expiring", "awaiting")
    /\ Kills(j)
    /\ UNCHANGED <<stream, cancelKill, rest>>

(* process.wait() returned: process_reaped, and nothing else yet.           *)
Reaps(j) ==
    /\ proc[j].known
    /\ Step(j, "waiting", "sweeping") \/ Step(j, "awaiting", "sweeping")
    /\ Update(j, [job[j] EXCEPT !.reaped = TRUE])
    /\ UNCHANGED <<proc, stream, cancelKill, rest>>

(* Mutant: a background child is left to itself.                            *)
SweepsDirectory(j) ==
    /\ Step(j, "sweeping", "settling")
    /\ proc' = [proc EXCEPT ![j].workdir = FALSE]
    /\ UNCHANGED <<job, stream, cancelKill, service, rest>>

(* The rest of the group goes with the leader, then the working directory.  *)
SweepsGroup(j) ==
    /\ Step(j, "sweeping", "settling")
    /\ proc' = [proc EXCEPT ![j] = [Killed(@) EXCEPT !.workdir = FALSE]]
    /\ UNCHANGED <<job, stream, cancelKill, service, rest>>

Settles(j) ==
    /\ Step(j, "settling", "joining")
    /\ Settle(j, Begin(job[j], proc[j].leader))
    /\ UNCHANGED <<proc, stream, cancelKill, rest>>

JoinsReaders(j) ==
    /\ \A s \in Streams : stream[j][s] = "done"
    /\ Step(j, "joining", "done")
    /\ Settle(j, job[j])
    /\ UNCHANGED <<proc, stream, cancelKill, rest>>

Drive(j) ==
    \/ DriveStarts(j) \/ Spawns(j) \/ SpawnFails(j) \/ Adopts(j) \/ KillsNow(j)
    \/ WallTimeout(j) \/ TimeoutKills(j) \/ Reaps(j) \/ SweepsGroup(j)
    \/ Settles(j) \/ JoinsReaders(j)

-----------------------------------------------------------------------------
(* _read_stream, one task per stream.                                       *)

Reader(j, s, from, to) ==
    /\ stream[j][s] = from
    /\ stream' = [stream EXCEPT ![j][s] = to]

Uncapped(r)  == OutputLimit              \* Mutant: a cap per chunk
Remaining(r) == OutputLimit - r.bytes

(* One chunk of n units under the output lock: the combined cap admits what *)
(* is left of it.  The accepted bytes decode to text, to the start of a     *)
(* character (partial), or to both.                                         *)
ReadsChunk(j, s, n, text, partial) ==
    LET left     == Remaining(job[j])
        accepted == IF n < left THEN n ELSE left
        r == [job[j] EXCEPT !.bytes = @ + accepted,
                            !.truncated = @ \/ n > accepted,
                            !.partial = IF accepted = 0 THEN @
                                        ELSE IF partial THEN @ \cup {s}
                                        ELSE @ \ {s}]
    IN  /\ s \in proc[j].pipe
        /\ text \/ partial
        /\ Reader(j, s, "reading", IF n > accepted THEN "overflow" ELSE "reading")
        /\ Update(j, IF accepted > 0 /\ text THEN Emit(r, "output") ELSE r)
        /\ proc' = [proc EXCEPT ![j].pipe = @ \ {s}]
        /\ UNCHANGED <<drive, cancelKill, rest>>

Overflows(j, s) ==
    /\ Reader(j, s, "overflow",
              IF job[j].cause = None THEN "overflow kill" ELSE "reading")
    /\ Update(j, Begin(job[j], "output-limit"))
    /\ UNCHANGED <<proc, drive, cancelKill, rest>>

ReadFails(j, s) ==
    /\ "read" \in Incidents
    /\ Reader(j, s, "reading",
              IF job[j].cause = None THEN "error kill" ELSE "closing")
    /\ Update(j, Begin(job[j], "spawn-failed"))
    /\ UNCHANGED <<proc, drive, cancelKill, rest>>

ReaderKills(j, s) ==
    /\ \/ Reader(j, s, "overflow kill", "reading")
       \/ Reader(j, s, "error kill", "closing")
    /\ Kills(j)
    /\ UNCHANGED <<drive, cancelKill, rest>>

(* End of file: nobody holds the pipe open and it is drained.  The decoder  *)
(* flushes the start of a character it was left with.                       *)
ReadsEof(j, s) ==
    /\ ~HeldOpen(proc[j], s) /\ s \notin proc[j].pipe
    /\ Reader(j, s, "reading", "closing")
    /\ Update(j, IF s \in job[j].partial THEN Emit(job[j], "output") ELSE job[j])
    /\ UNCHANGED <<proc, drive, cancelKill, rest>>

Closes(j, s) ==
    /\ Reader(j, s, "closing", "done")
    /\ Settle(j, [job[j] EXCEPT !.eof = @ \cup {s}])
    /\ UNCHANGED <<proc, drive, cancelKill, rest>>

ReadStream(j, s) ==
    \/ \E n \in 1..MaxChunk, text, partial \in BOOLEAN :
          ReadsChunk(j, s, n, text, partial)
    \/ Overflows(j, s) \/ ReadFails(j, s) \/ ReaderKills(j, s)
    \/ ReadsEof(j, s) \/ Closes(j, s)

(* _notify_finish: the hook recorded the lesson_run event, or it failed.    *)
Notify(j, outcome) ==
    /\ job[j].hook = "pending"
    /\ outcome = "failed" => "hook" \in Incidents
    /\ Update(j, [job[j] EXCEPT !.hook = outcome, !.waiters = {}])
    /\ UNCHANGED <<tasks, rest>>

-----------------------------------------------------------------------------
(* The stream handler of routers/learn.py over attach_reader, events_after, *)
(* wait_for_update and detach_reader.                                       *)

Attach(r, j, after) ==
    /\ sse[r].pc = "idle"
    /\ Prune(job, replay)
    /\ j \in retained'
    /\ after \in 0..Len(job[j].events)
    /\ job' = [job EXCEPT ![j].readers = @ + 1]
    /\ sse' = [sse EXCEPT ![r] = [pc |-> "opened", job |-> j, cursor |-> after,
                                  lease |-> TRUE, releases |-> 1]]
    /\ UNCHANGED loop

(* One batch and the state read with it; both releases are due from here.   *)
Polls(r) ==
    LET j == sse[r].job
    IN  /\ sse[r].pc \in {"opened", "polling"}
        /\ Prune(job, replay)
        /\ sse' = [sse EXCEPT ![r].cursor = Len(job[j].events),
                              ![r].pc = IF Finished(j) THEN "complete" ELSE "asking",
                              ![r].releases = 2]
        /\ UNCHANGED <<job, loop>>

(* Mutant: sleeps on what the last batch saw.                               *)
AsksBlindly(r) ==
    /\ sse[r].pc = "asking"
    /\ Prune(job, replay)
    /\ sse' = [sse EXCEPT ![r].pc = "blocked"]
    /\ job' = [job EXCEPT ![sse[r].job].waiters = @ \cup {r}]
    /\ UNCHANGED loop

(* wait_for_update: look again and register in one locked section.          *)
Asks(r) ==
    LET j == sse[r].job
    IN  /\ sse[r].pc = "asking"
        /\ Prune(job, replay)
        /\ IF Finished(j) \/ Len(job[j].events) > sse[r].cursor
           THEN /\ sse' = [sse EXCEPT ![r].pc = "polling"]
                /\ UNCHANGED job
           ELSE /\ sse' = [sse EXCEPT ![r].pc = "blocked"]
                /\ job' = [job EXCEPT ![j].waiters = @ \cup {r}]
        /\ UNCHANGED loop

Wakes(r) ==
    /\ sse[r].pc = "blocked"
    /\ r \notin job[sse[r].job].waiters
    /\ sse' = [sse EXCEPT ![r].pc = "polling"]
    /\ UNCHANGED <<job, issued, tasks, service, accepting, stop, now>>

(* The 15 second heartbeat and a disconnect both abandon the wait.          *)
LeaveWait(r) ==
    /\ job' = [job EXCEPT ![sse[r].job].waiters = @ \ {r}]
    /\ UNCHANGED <<issued, tasks, service, accepting, stop, now>>

KeepsAlive(r) ==
    /\ sse[r].pc = "blocked"
    /\ sse' = [sse EXCEPT ![r].pc = "polling"]
    /\ LeaveWait(r)

Disconnects(r) ==
    /\ sse[r].pc \in {"opened", "polling", "asking", "blocked"}
    /\ sse' = [sse EXCEPT ![r].pc = "closing"]
    /\ LeaveWait(r)

(* detach_reader, called by the generator's finally and by the response's.  *)
Detaches(r) ==
    LET j == sse[r].job
    IN  /\ sse[r].pc \in {"complete", "closing"}
        /\ sse' = [sse EXCEPT ![r] =
                      IF @.releases = 1 THEN Idle
                      ELSE [@ EXCEPT !.lease = FALSE, !.releases = 1]]
        /\ IF sse[r].lease
           THEN /\ job' = [job EXCEPT ![j].readers = IF @ > 0 THEN @ - 1 ELSE @]
                /\ Prune(job', replay)
           ELSE UNCHANGED <<job, retained, replay>>
        /\ UNCHANGED loop

Stream(r) ==
    Polls(r) \/ Asks(r) \/ Wakes(r) \/ Detaches(r)

-----------------------------------------------------------------------------
(* shutdown().                                                              *)

ShutdownBegins ==
    LET live  == {j \in retained : ~Finished(j)}
        freed == {j \in live : job[j].cause = None}
    IN  /\ "shutdown" \in Incidents
        /\ stop.pc = "serving"
        /\ accepting' = FALSE
        /\ job' = [j \in JobIds |->
                     IF j \in live THEN Begin(job[j], "shutdown") ELSE job[j]]
        /\ activeTotal' = activeTotal - Cardinality(freed)
        /\ activeByLesson' = [l \in Lessons |-> activeByLesson[l] -
                               Cardinality({j \in freed : job[j].lesson = l})]
        /\ stop' = [pc |-> "joining", kill |-> {j \in live : proc[j].adopted},
                    join |-> live, hooks |-> {}]
        /\ UNCHANGED <<issued, tasks, retained, replay, sse, now>>

ShutdownKills(j) ==
    /\ j \in stop.kill
    /\ stop' = [stop EXCEPT !.kill = @ \ {j}]
    /\ Kills(j)
    /\ UNCHANGED <<issued, drive, stream, cancelKill, accepting, sse, now>>

(* Every driver was awaited; the hooks running now are awaited next.        *)
ShutdownJoins ==
    /\ stop.pc = "joining" /\ stop.kill = {}
    /\ \A j \in stop.join : drive[j] = "done"
    /\ stop' = [stop EXCEPT !.pc = "hooks",
                            !.hooks = {j \in Created : job[j].hook = "pending"}]
    /\ UNCHANGED <<job, issued, tasks, service, accepting, sse, now>>

ShutdownEnds ==
    /\ stop.pc = "hooks"
    /\ \A j \in stop.hooks : job[j].hook # "pending"
    /\ stop' = [stop EXCEPT !.pc = "stopped"]
    /\ UNCHANGED <<job, issued, tasks, service, accepting, sse, now>>

Shutdown ==
    (\E j \in JobIds : ShutdownKills(j)) \/ ShutdownJoins \/ ShutdownEnds

Tick ==
    /\ now < Horizon
    /\ now' = now + 1
    /\ UNCHANGED <<job, issued, tasks, service, accepting, stop, sse>>

Environment(j) ==
    \/ \E how \in {"exit", "signal"} : LeaderExits(j, how)
    \/ \E s \in Streams : LeaderCloses(j, s) \/ Writes(j, s)
    \/ \E kid \in Kids : Forks(j, kid)
    \/ KidExits(j)

Next ==
    \/ \E l \in Lessons, k \in Keys, v \in Revs : Admit(l, k, v)
    \/ Sweep
    \/ \E j \in JobIds :
          \/ Cancel(j) \/ CancelKill(j)
          \/ Environment(j) \/ NoticeExit(j)
          \/ Drive(j)
          \/ \E s \in Streams : ReadStream(j, s)
          \/ \E outcome \in {"recorded", "failed"} : Notify(j, outcome)
    \/ \E r \in Readers :
          \/ \E j \in JobIds, after \in 0..(OutputLimit + 3) : Attach(r, j, after)
          \/ Stream(r) \/ KeepsAlive(r) \/ Disconnects(r)
    \/ ShutdownBegins \/ Shutdown
    \/ Tick

Spec == Init /\ [][Next]_vars

(* Every task on the event loop and every worker thread keeps running, the  *)
(* child watcher and the wall-clock timer fire.  Nothing obliges a snapshot *)
(* to exit, a client to cancel or disconnect, a heartbeat, or a shutdown.   *)
Fairness ==
    /\ \A j \in JobIds :
          /\ WF_vars(Drive(j)) /\ WF_vars(CancelKill(j)) /\ WF_vars(NoticeExit(j))
          /\ \A s \in Streams : WF_vars(ReadStream(j, s))
          /\ WF_vars(\E outcome \in {"recorded", "failed"} : Notify(j, outcome))
    /\ \A r \in Readers : WF_vars(Stream(r))
    /\ WF_vars(Shutdown)

FairSpec == Spec /\ Fairness
-----------------------------------------------------------------------------
(* Properties.                                                              *)

Entries == [job : 0..MaxJobs, expires : Nat \cup {Never}]

JobRecords ==
    [state : {"NONE", "STARTING", "RUNNING", "TERMINATING", "FINISHED"},
     cause : Causes \cup {None}, lesson : Lessons \cup {None},
     key : Keys \cup {None}, rev : Revs \cup {None}, created : Nat,
     finished : Nat, released : BOOLEAN, reaped : BOOLEAN,
     eof : SUBSET Streams, bytes : 0..OutputLimit, truncated : BOOLEAN,
     partial : SUBSET Streams, events : Seq({"output", "exit"}),
     waiters : SUBSET Readers, readers : Nat,
     hook : {"none", "pending", "recorded", "failed"}]

ProcRecords ==
    [leader : {"none", "alive", "exit", "signal"}, known : BOOLEAN,
     adopted : BOOLEAN, kid : {"none"} \cup Kids, open : SUBSET Streams,
     pipe : SUBSET Streams, workdir : BOOLEAN]

DrivePCs  == {"none", "new", "spawning", "adopting", "killing", "waiting",
              "expiring", "awaiting", "sweeping", "settling", "joining", "done"}
StreamPCs == {"off", "reading", "overflow", "overflow kill", "error kill",
              "closing", "done"}

(* Every variable of the service, its jobs and its readers has its type; in *)
(* particular the two reader tasks of a job, each capping its own chunk,    *)
(* never accept more than the combined output limit.                        *)
TypeOK ==
    /\ job \in [JobIds -> JobRecords]
    /\ issued \in 0..MaxJobs
    /\ proc \in [JobIds -> ProcRecords]
    /\ drive \in [JobIds -> DrivePCs]
    /\ stream \in [JobIds -> [Streams -> StreamPCs]]
    /\ cancelKill \in SUBSET JobIds
    /\ retained \in SUBSET Created
    /\ replay \in [Lessons \X Keys -> Entries]
    /\ activeTotal \in Nat
    /\ activeByLesson \in [Lessons -> Nat]
    /\ accepting \in BOOLEAN
    /\ stop \in [pc : {"serving", "joining", "hooks", "stopped"},
                 kill : SUBSET JobIds, join : SUBSET JobIds, hooks : SUBSET JobIds]
    /\ sse \in [Readers -> [pc : {"idle", "opened", "polling", "asking", "blocked",
                                 "complete", "closing"},
                           job : 0..MaxJobs, cursor : Nat, lease : BOOLEAN,
                           releases : 0..2]]
    /\ now \in Nat

(* The counters admission compares with the limits count exactly the jobs   *)
(* that are STARTING or RUNNING, in total and per lesson, whichever of the  *)
(* many paths out of those states a job took; so neither limit is exceeded. *)
CapacityAccounting ==
    /\ activeTotal = Cardinality({j \in JobIds : Active(j)})
    /\ \A l \in Lessons : activeByLesson[l] =
          Cardinality({j \in JobIds : Active(j) /\ job[j].lesson = l})
    /\ activeTotal <= GlobalLimit
    /\ \A l \in Lessons : activeByLesson[l] <= PerLessonLimit

(* One logical start runs code once.  A second job for the same lesson and  *)
(* key exists only if the first finished at least the retention time before *)
(* the second was created, count eviction or not; and an identical start is *)
(* answered with its own job as long as that job is unfinished or would     *)
(* survive the prune that precedes the lookup.                              *)
OneRunPerKey ==
    /\ \A i, k \in Created :
          (i < k /\ job[i].lesson = job[k].lesson /\ job[i].key = job[k].key)
          => Finished(i) /\ job[k].created >= job[i].finished + Retention
    /\ \A j \in Retain(job, retained) :
          Replays(job[j].lesson, job[j].key, job[j].rev, j)

(* The exit record is written once, when the job becomes FINISHED, and is   *)
(* the last event: no reader task appends output after it.                  *)
ExitIsLast ==
    \A j \in Created : \A n \in 1..Len(job[j].events) :
        job[j].events[n] = "exit" <=> Finished(j) /\ n = Len(job[j].events)

(* The first cause stands, and once the event loop knows the return code of *)
(* the process, a cancel cannot replace its natural cause.                  *)
CauseSettled ==
    [][\A j \in JobIds :
         /\ job[j].cause # None => job'[j].cause = job[j].cause
         /\ proc[j].adopted /\ proc[j].known /\ job[j].cause = None
            => job'[j].cause # "cancelled"]_vars

(* A stream handler sleeps only while there is nothing for it to send: an   *)
(* event appended, or a finish, between its look and its sleep is never     *)
(* missed, and one reader's wakeup is not consumed by another.              *)
NoLostWakeup ==
    \A r \in Readers : \A j \in Created :
        r \in job[j].waiters
        => /\ sse[r].pc = "blocked" /\ sse[r].job = j
           /\ ~Finished(j) /\ Len(job[j].events) <= sse[r].cursor

(* A stream that ends by itself has delivered everything, the exit included.*)
StreamComplete ==
    \A r \in Readers : sse[r].pc = "complete" =>
        LET events == job[sse[r].job].events
        IN  /\ events # <<>> /\ sse[r].cursor = Len(events)
            /\ events[Len(events)] = "exit"

(* reader_count is the number of live leases although each is released      *)
(* twice, and a leased job is never pruned.                                 *)
LeasesProtect ==
    /\ \A j \in Created :
          job[j].readers = Cardinality({r \in Readers : sse[r].lease /\ sse[r].job = j})
    /\ \A r \in Readers : sse[r].lease => sse[r].job \in retained

(* At most MaxTerminal finished jobs are kept, or the leased ones if there  *)
(* are more of those; and every unfinished job is kept.                     *)
RetentionBound ==
    LET terminal == {j \in retained : Finished(j)}
        leased   == {j \in terminal : job[j].readers > 0}
    IN  /\ \/ Cardinality(terminal) <= MaxTerminal
           \/ terminal = leased
        /\ \A j \in Created : ~Finished(j) => j \in retained

(* When a driver is done its whole process group is dead and its working    *)
(* directory is gone; when shutdown() returns, every job ever admitted is   *)
(* FINISHED with its leader dead, and has attempted its ledger event.       *)
StopsClean ==
    \A j \in Created :
        /\ drive[j] = "done" =>
              proc[j].leader # "alive" /\ proc[j].kid = "none" /\ ~proc[j].workdir
        /\ stop.pc = "stopped" =>
              /\ Finished(j) /\ proc[j].leader # "alive"
              /\ job[j].hook \in {"recorded", "failed"}

(* The exit record is the last event, and an ended driver, or shutdown,     *)
(* leaves neither a process nor an unrecorded end (runner.py).              *)
JobsEndClean == ExitIsLast /\ StopsClean

(* The counters count, one start runs once, and retention keeps its bound   *)
(* (runner.py).                                                             *)
TablesSound == CapacityAccounting /\ OneRunPerKey /\ RetentionBound

(* A stream sleeps only while it has nothing to send, one that ends by      *)
(* itself has delivered everything, and its lease keeps its job meanwhile   *)
(* (runner.py).                                                             *)
StreamsDeliver == NoLostWakeup /\ StreamComplete /\ LeasesProtect

(* Every admitted job finishes and attempts its ledger event, whatever the  *)
(* snapshot does with its time, its output and its children; and a shutdown *)
(* that waits for them converges.                                           *)
JobsFinish ==
    /\ \A j \in JobIds :
          drive[j] = "new" ~> Finished(j) /\ job[j].hook \in {"recorded", "failed"}
    /\ stop.pc = "joining" ~> stop.pc = "stopped"

(* Every stream ends, without the help of heartbeats or disconnects.        *)
StreamsEnd ==
    \A r \in Readers : sse[r].lease ~> ~sse[r].lease
===============================================================================
