------------------------------ MODULE Attempts ------------------------------
(***************************************************************************)
(* Recording a lesson attempt (app/services/attempts.py over the record    *)
(* skeleton of projection.py): replay of a known idempotency key, the rate *)
(* window, the write, and the projection of the table into attempts.jsonl  *)
(* behind a private cursor and seal.                                       *)
(*                                                                         *)
(* One lesson. A request runs in a worker thread of one server process;    *)
(* during a rolling restart there are two processes, each with its own     *)
(* lesson lock and rate window, over one database and one bundle. A        *)
(* statement of SQLite, or a transaction begun with BEGIN IMMEDIATE, is    *)
(* one step. So is a system call on the projection, since outside edits    *)
(* take no lock.                                                           *)
(***************************************************************************)
EXTENDS Integers, FiniteSets, Sequences, SequencesExt

CONSTANTS Requests,     \* submissions, retries included
          Opener,       \* a terminal open, which reconciles the projection
          KeyOf,        \* idempotency key of a request
          TargetOf,     \* its question and page
          Procs,        \* server processes
          ProcOf,       \* the process that serves an actor
          Budget,       \* RATE_MAX_PER_WINDOW
          Foreign,      \* a line the app did not write
          Torn,         \* a line whose append broke off
          RacingEdits,  \* the outside edits that can fall inside the file lock
          MaxEdits, MaxCrashes, MaxRestores,   \* bounds
          Nobody

Actors == Requests \cup {Opener}
EditKinds == {"save", "append", "rewrite", "remove"}

ASSUME AttemptsAssumption ==
    /\ IsFiniteSet(Requests) /\ Opener \notin Requests
    /\ Nobody \notin Actors /\ {Foreign, Torn} \cap Requests = {} /\ Foreign # Torn
    /\ ProcOf \in [Actors -> Procs]
    /\ DOMAIN KeyOf = Requests /\ DOMAIN TargetOf = Requests
    /\ Budget \in Nat \ {0} /\ RacingEdits \subseteq EditKinds
    /\ MaxEdits \in Nat /\ MaxCrashes \in Nat /\ MaxRestores \in Nat

VARIABLES
    rows,     \* lesson_attempts by id: the request that wrote each row
    stamp,    \* the order (created_at, attempt_id) of what each request wrote, 0: nothing
    file,     \* what the name attempts.jsonl holds
    sidecar,  \* attempt-projections/<uid>.json: cursor, tail and file seal
    window,   \* per process: the requests charged in the rate window, oldest first
    at,       \* where each actor stands
    told,     \* what each actor was answered, and the row an answer names
    lock,     \* per process: who holds the lesson's lock
    op,       \* the holder of the file lock and its next call
    spent     \* edits, crashes and restores so far

vars == <<rows, stamp, file, sidecar, window, at, told, lock, op, spent>>

Lines == Requests \cup {Foreign, Torn}
Results == {"none", "projected", "pending", "duplicate", "conflict", "refused", "failed", "lost"}
Stations == {"new", "validate", "again", "wait", "write", "project", "projecting", "done"}

\* A file on the name: its inode and the number of its changes (mtime, ctime).
NoState == [id |-> 0, change |-> 0, cursor |-> 0, last |-> Nobody, tail |-> 0]
Idle == [by |-> Nobody, at |-> "idle", way |-> "rebuild", id |-> 0, change |-> 0,
         size |-> 0, upto |-> 0, since |-> 0, edits |-> 0]
Unanswered == [result |-> "none", row |-> Nobody]

TypeOK ==
    /\ rows \in Seq(Requests)
    /\ stamp \in [Requests -> 0..Cardinality(Requests)]
    /\ file \in [id: Nat, change: Nat, there: BOOLEAN, lines: Seq(Lines)]
    /\ sidecar \in [id: Nat, change: Nat, cursor: Nat, last: Requests \cup {Nobody}, tail: Nat]
    /\ window \in [Procs -> Seq(Requests)]
    /\ \A p \in Procs : Len(window[p]) <= Budget /\ IsInjective(window[p])
    /\ at \in [Actors -> Stations]
    /\ told \in [Actors -> [result: Results, row: Requests \cup {Nobody}]]
    /\ lock \in [Procs -> Actors \cup {Nobody}]
    /\ \A a \in Actors : lock[ProcOf[a]] = a <=> at[a] \in {"write", "project", "projecting"}
    /\ op.by # Nobody => at[op.by] = "projecting"
    /\ spent \in [edits: 0..MaxEdits, crashes: 0..MaxCrashes, restores: 0..MaxRestores]

Init ==
    /\ rows = <<>>
    /\ stamp = [r \in Requests |-> 0]
    /\ file = [id |-> 0, change |-> 0, there |-> FALSE, lines |-> <<>>]
    /\ sidecar = NoState
    /\ window = [p \in Procs |-> <<>>]
    /\ at = [a \in Actors |-> "new"]
    /\ told = [a \in Actors |-> Unanswered]
    /\ lock = [p \in Procs |-> Nobody]
    /\ op = Idle
    /\ spent = [edits |-> 0, crashes |-> 0, restores |-> 0]

-----------------------------------------------------------------------------
(* The record skeleton *)

Free(a) == lock[ProcOf[a]] = Nobody
Goes(a, station) == at' = [at EXCEPT ![a] = station]
Unlocks(a) == lock' = [lock EXCEPT ![ProcOf[a]] = IF @ = a THEN Nobody ELSE @]

\* _refund_rate: the request's own stamp leaves the window, unless it has expired.
Refund(r) == window' = [window EXCEPT ![ProcOf[r]] = RemoveFirst(@, r)]

Answers(a, result, row) ==
    /\ Goes(a, "done")
    /\ told' = [told EXCEPT ![a] = [result |-> result, row |-> row]]
    /\ Unlocks(a)

Prior(r) == {q \in Range(rows) : KeyOf[q] = KeyOf[r]}

\* Mutant: a known key is a replay whatever it was used for.
AnswersKnownLoosely(r) ==
    \E q \in Prior(r) : Answers(r, "duplicate", q) /\ Refund(r)

\* _replay_or_conflict on a known key, and the refund of record_attempt.
AnswersKnown(r) ==
    \E q \in Prior(r) :
        /\ Refund(r)
        /\ IF TargetOf[q] = TargetOf[r]
           THEN Answers(r, "duplicate", q)
           ELSE Answers(r, "conflict", q)

\* The replay that precedes everything else, under the lesson's lock.
Replays(r) ==
    /\ at[r] = "new" /\ Free(r)
    /\ \/ AnswersKnown(r)
       \/ Prior(r) = {} /\ Goes(r, "validate") /\ UNCHANGED <<window, told, lock>>
    /\ UNCHANGED <<rows, stamp, file, sidecar, op, spent>>

\* validate, outside the lock: what has left the window expires, one slot is charged,
\* then the manifest decides. A full window refuses before the manifest is read.
Validates(r) ==
    /\ at[r] = "validate"
    /\ \E expired \in 0..Len(window[ProcOf[r]]) :
         LET live == SubSeq(window[ProcOf[r]], expired + 1, Len(window[ProcOf[r]])) IN
           IF Len(live) >= Budget
           THEN Goes(r, "again") /\ window' = [window EXCEPT ![ProcOf[r]] = live]
           ELSE /\ window' = [window EXCEPT ![ProcOf[r]] = Append(live, r)]
                /\ Goes(r, "wait") \/ Goes(r, "again")
    /\ UNCHANGED <<rows, stamp, file, sidecar, told, lock, op, spent>>

\* Mutant: a refusal is final, without a second replay.
RefusesAtOnce(r) ==
    /\ at[r] = "again" /\ Free(r)
    /\ Answers(r, "refused", Nobody) /\ UNCHANGED window
    /\ UNCHANGED <<rows, stamp, file, sidecar, op, spent>>

\* A refusal is raised only if the key is still unknown. It stays charged.
Refuses(r) ==
    /\ at[r] = "again" /\ Free(r)
    /\ \/ AnswersKnown(r)
       \/ Prior(r) = {} /\ Answers(r, "refused", Nobody) /\ UNCHANGED window
    /\ UNCHANGED <<rows, stamp, file, sidecar, op, spent>>

\* The lock for the write, with a third replay first.
Enters(r) ==
    /\ at[r] = "wait" /\ Free(r)
    /\ \/ AnswersKnown(r)
       \/ /\ Prior(r) = {} /\ Goes(r, "write")
          /\ lock' = [lock EXCEPT ![ProcOf[r]] = r]
          /\ UNCHANGED <<window, told>>
    /\ UNCHANGED <<rows, stamp, file, sidecar, op, spent>>

\* Mutant: the key another process wrote meanwhile is an internal error whose lock
\* is never given back.
WritesAndHangs(r) ==
    /\ at[r] = "write"
    /\ \/ Prior(r) # {} /\ UNCHANGED <<rows, stamp, told, lock, window, at>>
       \/ \E s \in 1..Cardinality(Requests) \ Range(stamp) :
            /\ Prior(r) = {} /\ rows' = Append(rows, r)
            /\ stamp' = [stamp EXCEPT ![r] = s]
            /\ Goes(r, "project") /\ UNCHANGED <<window, told, lock>>
    /\ UNCHANGED <<file, sidecar, op, spent>>

\* One BEGIN IMMEDIATE transaction with the row and its event. Another process may
\* have written the key since the replay: the unique index refuses and the replay
\* answers. Or the transaction fails, which nobody refunds. The clock may have been
\* set back, so the new row can sort anywhere.
Writes(r) ==
    /\ at[r] = "write"
    /\ \/ AnswersKnown(r) /\ UNCHANGED <<rows, stamp>>
       \/ Answers(r, "failed", Nobody) /\ UNCHANGED <<rows, stamp, window>>
       \/ \E s \in 1..Cardinality(Requests) \ Range(stamp) :
            /\ Prior(r) = {} /\ rows' = Append(rows, r)
            /\ stamp' = [stamp EXCEPT ![r] = s]
            /\ Goes(r, "project") /\ UNCHANGED <<window, told, lock>>
    /\ UNCHANGED <<file, sidecar, op, spent>>

-----------------------------------------------------------------------------
(* The projection *)

\* The rows with an id up to n, in the order of the projection.
Ordered(n) ==
    LET those == {rows[i] : i \in 1..n}
        Earlier(r) == {q \in those : stamp[q] < stamp[r]}
    IN [k \in 1..n |-> CHOOSE r \in those : Cardinality(Earlier(r)) = k - 1]

SealMatches(state) == file.there /\ file.id = state.id /\ file.change = state.change

\* _cursor_matches_authority: the cursor's row and the row that sorts last exist, or
\* the table is as empty as the cursor says.
Anchored(state) ==
    IF state.cursor = 0 THEN rows = <<>>
    ELSE /\ state.cursor \in DOMAIN rows /\ rows[state.cursor] = state.last
         /\ \E i \in DOMAIN rows : stamp[rows[i]] = state.tail

Unseen(state) == Len(rows) - state.cursor

\* Mutant: a single new row always goes to the end.
AppendsAnyway(state) == Unseen(state) = 1

\* Exactly one new row, and it sorts after all the others.
BelongsAtEnd(state) ==
    Unseen(state) = 1 /\ stamp[rows[state.cursor + 1]] > state.tail

\* What a projection that ends does for its actor: a write is answered, the terminal
\* goes on to its brief, both locks are free.
Ends(result) ==
    /\ op' = Idle
    /\ Answers(op.by, result, IF op.by = Opener THEN Nobody ELSE op.by)

\* The file lock does not block: a busy or unusable one leaves the projection pending.
Projects(a) ==
    /\ at[a] = "project"
    /\ \/ /\ Answers(a, "pending", IF a = Opener THEN Nobody ELSE a)
          /\ UNCHANGED op
       \/ /\ op = Idle
          /\ op' = [Idle EXCEPT !.by = a, !.at = "look", !.since = Len(rows),
                                !.edits = spent.edits]
          /\ Goes(a, "projecting") /\ UNCHANGED <<told, lock>>
    /\ UNCHANGED <<rows, stamp, file, sidecar, window, spent>>

\* reconcile_projection_if_stale at a terminal open: the lesson's lock, then the same.
TerminalOpens ==
    /\ at[Opener] = "new" /\ Free(Opener)
    /\ lock' = [lock EXCEPT ![ProcOf[Opener]] = Opener]
    /\ Goes(Opener, "project")
    /\ UNCHANGED <<rows, stamp, file, sidecar, window, told, op, spent>>

\* Is the file current, one row behind, or to be rebuilt? The sidecar may be
\* unreadable. The terminal never appends.
Looks ==
    /\ op.at = "look"
    /\ \E state \in {sidecar, NoState} :
         IF state = NoState \/ ~SealMatches(state) \/ ~Anchored(state)
         THEN op' = [op EXCEPT !.at = "render"] /\ UNCHANGED <<told, lock, at>>
         ELSE IF Unseen(state) = 0
         THEN Ends("projected")
         ELSE /\ op' = IF op.by \in Requests /\ BelongsAtEnd(state)
                       THEN [op EXCEPT !.at = "open", !.way = "append", !.id = state.id,
                                       !.change = state.change, !.upto = state.cursor + 1]
                       ELSE [op EXCEPT !.at = "render"]
              /\ UNCHANGED <<told, lock, at>>
    /\ UNCHANGED <<rows, stamp, file, sidecar, window, spent>>

OnName == file.there /\ file.id = op.id
Onward(pc) == op' = [op EXCEPT !.at = pc]
ToRebuild == op' = [op EXCEPT !.at = "render", !.way = "rebuild"]
Held == UNCHANGED <<rows, stamp, sidecar, window, at, told, lock, spent>>

OpensFile ==
    /\ op.at = "open"
    /\ IF OnName /\ file.change = op.change
       THEN op' = [op EXCEPT !.at = "append", !.size = Len(file.lines)]
       ELSE ToRebuild
    /\ Held /\ UNCHANGED file

\* The append lands in the open file, which the name may not hold any more. It may
\* break off.
Appends ==
    /\ op.at = "append"
    /\ \E line \in {rows[op.upto], Torn} :
         /\ file' = IF OnName
                    THEN [file EXCEPT !.lines = Append(@, line), !.change = @ + 1]
                    ELSE file
         /\ IF line = Torn THEN ToRebuild ELSE Onward("grown")
    /\ Held

\* The file is still linked and longer by one line; the seal will describe it as this
\* call found it.
Measures ==
    /\ op.at = "grown"
    /\ IF OnName /\ Len(file.lines) = op.size + 1
       THEN op' = [op EXCEPT !.at = "confirm", !.change = file.change]
       ELSE ToRebuild
    /\ Held /\ UNCHANGED file

\* The line is read back and the name holds the file as it was measured.
Confirms ==
    /\ op.at = "confirm"
    /\ IF OnName /\ file.change = op.change /\ file.lines[op.size + 1] = rows[op.upto]
       THEN Onward("seal") ELSE ToRebuild
    /\ Held /\ UNCHANGED file

\* _rebuild_projection: the table is read once into a staged file.
Renders ==
    /\ op.at = "render"
    /\ op' = [op EXCEPT !.at = "swap", !.way = "rebuild", !.upto = Len(rows)]
    /\ Held /\ UNCHANGED file

Swaps ==
    /\ op.at = "swap"
    /\ file' = [id |-> file.id + 1, change |-> 1, there |-> TRUE, lines |-> Ordered(op.upto)]
    /\ op' = [op EXCEPT !.at = "verify", !.id = file.id + 1, !.change = 1]
    /\ Held

\* The published bytes are what was rendered and the name still holds them.
Verifies ==
    /\ op.at = "verify"
    /\ IF OnName /\ file.change = op.change
       THEN Onward("seal") /\ UNCHANGED <<at, told, lock>>
       ELSE Ends("pending")
    /\ UNCHANGED <<rows, stamp, file, sidecar, window, spent>>

\* _write_state: one rename in the app's own directory.
Seals ==
    /\ op.at = "seal"
    /\ sidecar' = [id |-> op.id, change |-> op.change, cursor |-> op.upto,
                   last |-> IF op.upto = 0 THEN Nobody ELSE rows[op.upto],
                   tail |-> IF op.upto = 0 THEN 0 ELSE stamp[Last(Ordered(op.upto))]]
    /\ Ends("projected")
    /\ UNCHANGED <<rows, stamp, file, window, spent>>

\* A call fails: an append falls back to the rebuild, a rebuild leaves it pending.
CallFails ==
    /\ op # Idle
    /\ IF op.way = "append"
       THEN ToRebuild /\ UNCHANGED <<at, told, lock>>
       ELSE Ends("pending")
    /\ UNCHANGED <<rows, stamp, file, sidecar, window, spent>>

-----------------------------------------------------------------------------
(* What happens around it *)

Running(a) == at[a] \notin {"new", "done"}

\* A process dies and is started again: its requests, locks and window are gone.
Crashes(p) ==
    /\ spent.crashes < MaxCrashes
    /\ spent' = [spent EXCEPT !.crashes = @ + 1]
    /\ LET gone == {a \in Actors : ProcOf[a] = p /\ Running(a)} IN
         /\ at' = [a \in Actors |-> IF a \in gone THEN "done" ELSE at[a]]
         /\ told' = [a \in Actors |->
                        IF a \in gone THEN [Unanswered EXCEPT !.result = "lost"] ELSE told[a]]
         /\ op' = IF op.by \in gone THEN Idle ELSE op
    /\ lock' = [lock EXCEPT ![p] = Nobody]
    /\ window' = [window EXCEPT ![p] = <<>>]
    /\ UNCHANGED <<rows, stamp, file, sidecar>>

\* The server is stopped and an older backup of the database is put in its place. The
\* bundle and the sidecar stay.
RestoresDatabase ==
    /\ spent.restores < MaxRestores
    /\ \A a \in Actors : ~Running(a)
    /\ \E n \in 0..Len(rows) - 1 : rows' = SubSeq(rows, 1, n)
    /\ window' = [p \in Procs |-> <<>>]
    /\ spent' = [spent EXCEPT !.restores = @ + 1]
    /\ UNCHANGED <<stamp, file, sidecar, at, told, lock, op>>

\* An editor or a restore of the bundle: another file saved over the name, or the
\* file on it appended to, rewritten in place, or removed.
Edits(kind) ==
    /\ spent.edits < MaxEdits
    /\ op = Idle \/ kind \in RacingEdits
    /\ kind # "save" => file.there
    /\ file' = CASE kind = "save" -> [id |-> file.id + 1, change |-> 1, there |-> TRUE,
                                      lines |-> <<Foreign>>]
                 [] kind = "append" -> [file EXCEPT !.lines = Append(@, Foreign),
                                                    !.change = @ + 1]
                 [] kind = "rewrite" -> [file EXCEPT !.change = @ + 1,
                                             !.lines = [i \in DOMAIN @ |-> Foreign]]
                 [] kind = "remove" -> [file EXCEPT !.there = FALSE, !.lines = <<>>]
    /\ spent' = [spent EXCEPT !.edits = @ + 1]
    /\ UNCHANGED <<rows, stamp, sidecar, window, at, told, lock, op>>

-----------------------------------------------------------------------------
Request(r) == Replays(r) \/ Validates(r) \/ Refuses(r) \/ Enters(r) \/ Writes(r) \/ Projects(r)
Terminal == TerminalOpens \/ Projects(Opener)
Appending == OpensFile \/ Appends \/ Measures \/ Confirms
Rebuilding == Renders \/ Swaps \/ Verifies
Projection == Looks \/ Appending \/ Rebuilding \/ Seals
Outside ==
    \/ \E p \in Procs : Crashes(p)
    \/ RestoresDatabase
    \/ \E kind \in EditKinds : Edits(kind)
AllAnswered == (\A a \in Actors : at[a] = "done") /\ UNCHANGED vars

Next ==
    \/ \E r \in Requests : Request(r)
    \/ Terminal \/ Projection \/ CallFails \/ Outside \/ AllAnswered

Spec == Init /\ [][Next]_vars

\* Every thread is scheduled. A lock is held for a bounded number of calls and each
\* actor takes it a bounded number of times, so the waiting needs no stronger fairness.
FairSpec ==
    /\ Spec
    /\ \A r \in Requests : WF_vars(Request(r))
    /\ WF_vars(Terminal)
    /\ WF_vars(Projection)

-----------------------------------------------------------------------------
(* Properties *)

Settled(r) == told[r].result \in {"projected", "pending", "duplicate"}

\* However requests with one key race, retry, cross processes or die: whoever was
\* told of an attempt was told of the same one, it is in the table and answers the
\* same question on the same page; and a conflict names a row that really differs.
AnswersAgree ==
    \A r \in Requests :
        /\ Settled(r) => /\ told[r].row \in Range(rows)
                         /\ TargetOf[told[r].row] = TargetOf[r]
        /\ told[r].result = "conflict" => \E q \in Prior(r) : TargetOf[q] # TargetOf[r]
        /\ Settled(r) \/ told[r].result = "conflict" => Prior(r) = {told[r].row}

\* A retry of something recorded is never turned away, not by a manifest rejected
\* since nor by a full window: a refusal is only told about an unknown key.
StepRefused ==
    \A r \in Requests :
        told[r].result = "none" /\ told'[r].result = "refused" => Prior(r) = {}
RefusedMeansNew == [][StepRefused]_vars

\* Retries never eat the budget of new attempts: who was told of a duplicate or a
\* conflict holds no slot in any window.
RetriesRefunded ==
    \A p \in Procs : \A r \in Range(window[p]) :
        told[r].result \notin {"duplicate", "conflict"}

\* Both, for as long as no database was put back to an older state: that loses rows
\* somebody was told of.
AnswersHold == spent.restores = 0 => AnswersAgree /\ RetriesRefunded

\* A file that the seal vouches for, with a cursor whose row is the table's, is the
\* table up to that row: in order, none missing, none twice, no other line. Holds
\* through clocks set back, broken appends, crashes between append and cursor, edits
\* between any two calls, two processes, and databases put back to an older state.
VouchedIsAuthority ==
    /\ SealMatches(sidecar)
    /\ sidecar.cursor \in DOMAIN rows /\ rows[sidecar.cursor] = sidecar.last
    => file.lines = Ordered(sidecar.cursor)

\* Whenever an actor is told that the projection reflects the table, it does: the file
\* is vouched for and holds every row committed before the actor took the file lock.
\* (Unless somebody edited the file behind the lock meanwhile.)
StepCurrent ==
    \A a \in Actors :
        told[a].result = "none" /\ told'[a].result = "projected" /\ spent.edits = op.edits =>
            /\ SealMatches(sidecar)'
            /\ \E n \in op.since..Len(rows) : file'.lines = Ordered(n)

SuccessIsCurrent == [][StepCurrent]_vars

\* Every submission and every terminal open is answered.
EveryoneAnswered == \A a \in Actors : at[a] # "new" ~> at[a] = "done"
=============================================================================
