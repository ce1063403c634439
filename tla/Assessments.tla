---------------------------- MODULE Assessments ----------------------------
(***************************************************************************)
(* Recording what a tutor concluded about one lesson                       *)
(* (app/services/assessments.py on the skeleton of projection.record) and  *)
(* assessments.jsonl, the file later sessions read it from. Requests of    *)
(* two server processes interleave at every unlocked point.                *)
(***************************************************************************)
EXTENDS Integers, Sequences, FiniteSets, FiniteSetsExt

CONSTANTS Writers,       \* POST .../assessments, one call each
          Processes,     \* the server and, in a rolling restart, its sibling
          Keys,          \* idempotency keys
          Submissions,   \* [kind, on] a caller may submit
          MaxMeddling    \* bound: restarts and outside edits of the bundle

AssessmentsAssumption == "nobody" \notin Writers

Sittings == {"sitting"}
Owner    == "owner"       \* no capability token
NoOne    == "nobody"

VARIABLES rows,       \* lesson_assessments, by rowid; rows are insert-only
          archived,   \* lessons.archived_at is set
          live,       \* live[p]: sittings whose capability p still holds
          file,       \* assessments.jsonl
          contrary,   \* the manifest names another lesson
          swept,      \* swept[p]: _swept holds the lesson
          published,  \* published[p]: the watermark p last published, or -1
          sealed,     \* processes whose stat stamp the file still matches
          lesson,     \* lesson[p]: holder of the in-process lesson lock
          flock,      \* holder of the cross-process lock
          call,       \* call[w]
          meddling

vars == <<rows, archived, live, file, contrary, swept, published, sealed,
          lesson, flock, call, meddling>>

Ids(rs)   == 1..Len(rs)
Absent    == [here |-> FALSE, asOf |-> 0, lines |-> {}]
(* An earlier summary of the sitting, its file not written: the instance   *)
(* was restored, or its first projection was left pending.                 *)
Earlier   == [key |-> "earlier", kind |-> "summary", on |-> 0,
              from |-> "sitting", supersedes |-> 0]
NewCall   == [at |-> "new", by |-> NoOne, key |-> NoOne, from |-> Owner,
              kind |-> NoOne, on |-> 0, supersedes |-> 0, stale |-> FALSE,
              id |-> 0, then |-> NoOne, already |-> -1, asOf |-> 0,
              lines |-> {}, edited |-> FALSE]

Init ==
  /\ rows \in {<<>>, <<Earlier>>} /\ archived = FALSE /\ contrary = FALSE
  /\ \E p \in Processes :
       live = [q \in Processes |-> IF q = p THEN Sittings ELSE {}]
  /\ file = Absent
  /\ swept = [p \in Processes |-> FALSE]
  /\ published = [p \in Processes |-> -1] /\ sealed = {}
  /\ lesson = [p \in Processes |-> NoOne] /\ flock = NoOne
  /\ call = [w \in Writers |-> NewCall]
  /\ meddling = 0

-----------------------------------------------------------------------------
(* The fold. A row is active while no row of the history supersedes it; of *)
(* the active rows the newest speaks for its concept, attempt or sitting.  *)
Active(rs) == {i \in Ids(rs) : \A j \in Ids(rs) : rs[j].supersedes # i}

Rival(rs, i, j) == rs[i].kind = rs[j].kind
                   /\ (rs[i].kind = "summary" \/ rs[i].on = rs[j].on)

Fold(rs) == {i \in Active(rs) : /\ rs[i].kind # "retraction"
                                /\ \A j \in Active(rs) : Rival(rs, i, j) => j <= i}

(* history_watermark: MAX(id) of the whole history. *)
Watermark(rs) == Len(rs)

(* _clean_submission and _require_supersedes. *)
WellFormed(s, target) ==
  /\ s.kind \in {"review", "evidence", "summary", "retraction"}
  /\ s.kind = "retraction" => target # 0

(* _fingerprint: the submission without its key. *)
Same(row, c) == /\ row.kind = c.kind /\ row.on = c.on
                /\ row.supersedes = c.supersedes

Known(key)  == {i \in Ids(rows) : rows[i].key = key}
RowOf(c) == [key |-> c.key, kind |-> c.kind, on |-> c.on, from |-> c.from,
             supersedes |-> c.supersedes]

(* _require_summary_slot: the sitting's newest active summary, if any. *)
Standing(sitting) == {i \in Active(rows) : rows[i].kind = "summary"
                                           /\ rows[i].from = sitting}
SlotFree(c) == \/ c.kind # "summary" \/ c.from = Owner
               \/ Standing(c.from) = {}
               \/ c.supersedes = Max(Standing(c.from))

(* The archive re-check of the write transaction, and the UNIQUE index.    *)
(* Mutant: archived as the caller saw it before the transaction.           *)
CallersView(c) == c.stale
Closed(c)      == archived
Taken(c)       == Known(c.key) # {}

(* _projection_unchanged: the file still carries the stamp p left on it.   *)
Untouched(p)  == p \in sealed

(* _render: the watermark and the lines of one snapshot. *)
(* Mutant: the fold is read after the watermark's transaction.             *)
LateFold(w) == [here |-> TRUE, asOf |-> call[w].asOf, lines |-> Fold(rows)]
Rendered(w) == [here |-> TRUE, asOf |-> call[w].asOf, lines |-> call[w].lines]

-----------------------------------------------------------------------------
Goto(w, label) == call' = [call EXCEPT ![w].at = label]
Refuse(w)      == Goto(w, "refused")
DB     == <<rows, archived>>
Bundle == <<file, contrary, published, sealed>>
Locks  == <<lesson, flock>>

(* The router reads the lesson's row; record_assessment validates. *)
Submit(w) ==
  /\ call[w].at = "new"
  /\ \E p \in Processes, k \in Keys, s \in Submissions,
        from \in Sittings \cup {Owner}, target \in {0} \cup Ids(rows) :
       /\ WellFormed(s, target)
       /\ call' = [call EXCEPT ![w] =
                     [NewCall EXCEPT !.at = "token", !.by = p, !.key = k,
                        !.kind = s.kind, !.on = s.on, !.from = from,
                        !.supersedes = target, !.stale = archived]]
  /\ UNCHANGED <<DB, live, Bundle, swept, Locks, meddling>>

(* resolve_capability: a token no session of this process answers for is   *)
(* refused, even on a replay. Then _sweep_once marks the lesson first.     *)
Resolve(w) ==
  LET p == call[w].by IN
  /\ call[w].at = "token"
  /\ IF call[w].from # Owner /\ call[w].from \notin live[p]
     THEN Refuse(w) /\ UNCHANGED swept
     ELSE IF swept[p] THEN Goto(w, "lookup") /\ UNCHANGED swept
     ELSE /\ swept' = [swept EXCEPT ![p] = TRUE]
          /\ call' = [call EXCEPT ![w].at = "enter", ![w].then = "lookup"]
  /\ UNCHANGED <<DB, live, Bundle, Locks, meddling>>

Enter(w) ==
  /\ call[w].at = "enter" /\ lesson[call[w].by] = NoOne
  /\ lesson' = [lesson EXCEPT ![call[w].by] = w]
  /\ Goto(w, "project")
  /\ UNCHANGED <<DB, live, Bundle, swept, flock, meddling>>

(* _replay_or_conflict. *)
Replay(w) ==
  \E i \in Known(call[w].key) :
    IF Same(rows[i], call[w])
    THEN call' = [call EXCEPT ![w].at = "project", ![w].id = i,
                              ![w].then = "answered"]
    ELSE Refuse(w)
HoldOnReplay(w) ==
  lesson' = [lesson EXCEPT ![call[w].by] =
               IF call'[w].at = "project" THEN w ELSE NoOne]

(* The first lookup: the lesson lock is let go when the key is fresh.      *)
Lookup(w) ==
  /\ call[w].at = "lookup" /\ lesson[call[w].by] = NoOne
  /\ IF Known(call[w].key) # {} THEN Replay(w) /\ HoldOnReplay(w)
     ELSE Goto(w, "validate") /\ UNCHANGED lesson
  /\ UNCHANGED <<DB, live, Bundle, swept, flock, meddling>>

(* validate: on the caller's view of the lesson. *)
Validate(w) ==
  /\ call[w].at = "validate"
  /\ Goto(w, IF call[w].stale THEN "recheck" ELSE "relookup")
  /\ UNCHANGED <<DB, live, Bundle, swept, Locks, meddling>>

Recheck(w) ==
  /\ call[w].at = "recheck" /\ lesson[call[w].by] = NoOne
  /\ IF Known(call[w].key) # {} THEN Replay(w) /\ HoldOnReplay(w)
     ELSE Refuse(w) /\ UNCHANGED lesson
  /\ UNCHANGED <<DB, live, Bundle, swept, flock, meddling>>

Relookup(w) ==
  /\ call[w].at = "relookup" /\ lesson[call[w].by] = NoOne
  /\ IF Known(call[w].key) # {} THEN Replay(w) /\ HoldOnReplay(w)
     ELSE /\ Goto(w, "insert")
          /\ lesson' = [lesson EXCEPT ![call[w].by] = w]
  /\ UNCHANGED <<DB, live, Bundle, swept, flock, meddling>>

(* _record_locked in BEGIN IMMEDIATE: the binding refusals, then the row   *)
(* and its event; UNIQUE (lesson_id, idempotency_key) answers a sibling's  *)
(* row of the same key with the replay.                                    *)
Insert(w) ==
  LET c == call[w] IN
  /\ c.at = "insert"
  /\ IF Closed(c) \/ ~SlotFree(c)
     THEN Refuse(w) /\ lesson' = [lesson EXCEPT ![c.by] = NoOne] /\ UNCHANGED rows
     ELSE IF Taken(c)
     THEN Replay(w) /\ HoldOnReplay(w) /\ UNCHANGED rows
     ELSE /\ rows' = Append(rows, RowOf(c))
          /\ call' = [call EXCEPT ![w].at = "project", ![w].id = Len(rows) + 1,
                                  ![w].then = "answered"]
          /\ UNCHANGED lesson
  /\ UNCHANGED <<archived, live, Bundle, swept, flock, meddling>>

-----------------------------------------------------------------------------
(* reconcile_projection, under the lesson lock. *)
After(w, ok) == IF call[w].then = "lookup" THEN "lookup"
                ELSE IF ok THEN "projected" ELSE "pending"

Leave(w, ok) ==
  /\ Goto(w, After(w, ok))
  /\ lesson' = [lesson EXCEPT ![call[w].by] = NoOne]
  /\ flock' = IF flock = w THEN NoOne ELSE flock

(* The flock is not waited for. The skip is taken only against the stamp   *)
(* of a file this process left and nobody touched.                         *)
Seal(w) ==
  LET p == call[w].by IN
  /\ call[w].at = "project"
  /\ IF flock # NoOne \/ (Untouched(p) /\ contrary)
     THEN Leave(w, FALSE)
     ELSE /\ flock' = w
          /\ call' = [call EXCEPT ![w].at = "fold", ![w].edited = FALSE,
                        ![w].already = IF Untouched(p) THEN published[p] ELSE -1]
          /\ UNCHANGED lesson
  /\ UNCHANGED <<DB, live, Bundle, swept, meddling>>

(* _fold_records reads watermark and fold in one snapshot. *)
Snapshot(w) ==
  /\ call[w].at = "fold"
  /\ IF \/ Watermark(rows) = call[w].already
        \/ rows = <<>> /\ ~file.here
     THEN Leave(w, TRUE)
     ELSE IF contrary THEN Leave(w, FALSE)
     ELSE /\ call' = [call EXCEPT ![w].at = "publish", ![w].lines = Fold(rows),
                                  ![w].asOf = Watermark(rows)]
          /\ UNCHANGED Locks
  /\ UNCHANGED <<DB, live, Bundle, swept, meddling>>

(* projection.publish: staged, fsynced and renamed over the name. *)
Publish(w) ==
  LET p == call[w].by IN
  /\ call[w].at = "publish"
  /\ file' = Rendered(w)
  /\ published' = [published EXCEPT ![p] = call[w].asOf]
  /\ sealed' = {p}
  /\ Leave(w, TRUE)
  /\ UNCHANGED <<DB, live, contrary, swept, meddling>>

PublishFails(w) ==
  /\ call[w].at = "publish"
  /\ Leave(w, FALSE)
  /\ UNCHANGED <<DB, live, Bundle, swept, meddling>>

-----------------------------------------------------------------------------
(* Around the requests: the lesson is archived or restored, a session      *)
(* ends, an agent in the bundle edits the file or the manifest, a process  *)
(* is restarted.                                                           *)
ToggleArchive ==
  /\ meddling < MaxMeddling /\ meddling' = meddling + 1
  /\ archived' = ~archived
  /\ UNCHANGED <<rows, live, Bundle, swept, Locks, call>>

SessionEnds ==
  /\ meddling < MaxMeddling /\ meddling' = meddling + 1
  /\ \E p \in Processes : live[p] # {} /\ live' = [live EXCEPT ![p] = {}]
  /\ UNCHANGED <<DB, Bundle, swept, Locks, call>>

EditFile ==
  /\ meddling < MaxMeddling /\ meddling' = meddling + 1
  /\ file' \in {Absent, [here |-> TRUE, asOf |-> 0, lines |-> {0}]}
  /\ sealed' = {}
  /\ call' = [w \in Writers |-> [call[w] EXCEPT !.edited = TRUE]]
  /\ UNCHANGED <<DB, live, contrary, published, swept, Locks>>

EditManifest ==
  /\ meddling < MaxMeddling /\ meddling' = meddling + 1
  /\ contrary' = ~contrary
  /\ UNCHANGED <<DB, live, file, published, sealed, swept, Locks, call>>

Restart(p) ==
  /\ meddling < MaxMeddling /\ meddling' = meddling + 1
  /\ call' = [w \in Writers |->
                IF call[w].by = p /\ call[w].at \notin {"projected", "pending", "refused"}
                THEN [NewCall EXCEPT !.at = "lost"] ELSE call[w]]
  /\ lesson' = [lesson EXCEPT ![p] = NoOne]
  /\ flock' = IF flock # NoOne /\ call[flock].by = p THEN NoOne ELSE flock
  /\ live' = [live EXCEPT ![p] = {}]
  /\ swept' = [swept EXCEPT ![p] = FALSE]
  /\ published' = [published EXCEPT ![p] = -1]
  /\ sealed' = sealed \ {p}
  /\ UNCHANGED <<DB, file, contrary>>

Over(w) == call[w].at \in {"projected", "pending", "refused", "lost"}

Record(w) == \/ Submit(w) \/ Resolve(w) \/ Enter(w) \/ Lookup(w) \/ Validate(w)
             \/ Recheck(w) \/ Relookup(w) \/ Insert(w)
             \/ Seal(w) \/ Snapshot(w) \/ Publish(w) \/ PublishFails(w)

Next == \/ \E w \in Writers : Record(w)
        \/ ToggleArchive \/ SessionEnds \/ EditFile \/ EditManifest
        \/ \E p \in Processes : Restart(p)

Spec == Init /\ [][Next]_vars

-----------------------------------------------------------------------------
Answered(w) == call[w].at \in {"projected", "pending"} /\ call[w].id # 0

(* A key names one row for good: a retry, a lost response retried through  *)
(* the sibling process and a race of two first tries are all answered with *)
(* the row of that submission, and nobody else's.                          *)
OneRowPerKey ==
  /\ \A i, j \in Ids(rows) : rows[i].key = rows[j].key => i = j
  /\ \A w \in Writers : Answered(w) =>
       /\ rows[call[w].id].key = call[w].key
       /\ Same(rows[call[w].id], call[w])

(* However tutors correct, retract and retry, a sitting has at most one    *)
(* summary standing.                                                       *)
OneSummaryStands == \A s \in Sittings : Cardinality(Standing(s)) <= 1

(* Nothing is recorded while the lesson is archived, whatever the caller's *)
(* page showed when it was read.                                           *)
StepArchived == archived => rows' = rows
ArchivedIsBinding == [][StepArchived]_vars

(* What an untouched file says it covers is what it holds: the fold of one *)
(* committed version of the history.                                       *)
FileIsAFold ==
  file.here /\ 0 \notin file.lines => file.lines = Fold(SubSeq(rows, 1, file.asOf))

(* A write answered "projected" is covered by the file, unless an outsider *)
(* changed the file after the answer was prepared.                         *)
ProjectedIsTrue ==
  \A w \in Writers :
    (call[w].at = "projected" /\ ~call[w].edited) =>
      file.here /\ file.asOf >= call[w].id /\ 0 \notin file.lines
=============================================================================
