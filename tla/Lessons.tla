------------------------------ MODULE Lessons ------------------------------
(***************************************************************************)
(* The life of a lesson (app/services/lessons.py): creation, status,      *)
(* archive, restore and entry, each a read outside any transaction, then  *)
(* one transaction with the UPDATE and its ledger event; and the manifest,*)
(* which every reader of a bundle creates when it is missing, while the   *)
(* agent's shell writes and removes it.                                   *)
(*                                                                        *)
(* All lessons here have one title. Stamps are set or not; mark_opened,   *)
(* which keeps UI state without an event, touches nothing modelled.       *)
(***************************************************************************)
EXTENDS Integers, Sequences, FiniteSets

CONSTANTS Requests,    \* requests, each served in a thread of its own
          MaxLessons,  \* bound: lessons ever created
          MaxEdits     \* bound: edits of manifests by the agent

LessonsAssumption == IsFiniteSet(Requests) /\ MaxLessons \in Nat \ {0}

VARIABLES at,        \* at[r]
          job,       \* job[r]: [op, on, to], the operation, its lesson, its argument
          seen,      \* seen[r]: the row, or the slug, read before the transaction
          rows,      \* the lessons table; ids are indices
          ledger,    \* the lesson events: [op, on, from, to]
          manifest,  \* manifest[n]: lesson.json under the n-th slug
          edits

vars == <<at, job, seen, rows, ledger, manifest, edits>>

Statuses == {"backlog", "studying", "paused", "studied"}
Slugs    == 1 .. MaxLessons + 1
NoJob    == [op |-> "none", on |-> 0, to |-> "none"]
Row      == [slug : 0 .. MaxLessons + 1, status : Statuses, archived : BOOLEAN,
             started : BOOLEAN, completed : BOOLEAN]
NewRow(slug) == [slug |-> slug, status |-> "backlog", archived |-> FALSE,
                 started |-> FALSE, completed |-> FALSE]

Init ==
  /\ at = [r \in Requests |-> "new"] /\ job = [r \in Requests |-> NoJob]
  /\ seen = [r \in Requests |-> NewRow(0)]
  /\ rows = <<NewRow(1)>>
  /\ ledger = <<[op |-> "create", on |-> 1, from |-> "none", to |-> "backlog"]>>
  /\ manifest \in [Slugs -> {"missing"}]
  /\ edits = 0

Goto(r, label) == at' = [at EXCEPT ![r] = label]
Table          == <<rows, ledger>>
Logs(r, from, to) ==
  ledger' = Append(ledger, [op |-> job[r].op, on |-> job[r].on, from |-> from, to |-> to])

-----------------------------------------------------------------------------
(* The first slug of the title that no row has.                           *)
FreeSlug == CHOOSE n \in Slugs : /\ \A i \in DOMAIN rows : rows[i].slug # n
                                 /\ \A m \in 1 .. n - 1 : \E i \in DOMAIN rows : rows[i].slug = m

(* _require_lesson and the early returns: an unknown or archived lesson   *)
(* keeps its status, a lesson is archived or restored once.               *)
Accepts(op, row) == CASE op = "status" -> ~row.archived [] op = "archive" -> ~row.archived
                      [] op = "restore" -> row.archived [] OTHER -> TRUE

Reads(r) ==
  /\ at[r] = "new"
  /\ \/ /\ Len(rows) < MaxLessons
        /\ job' = [job EXCEPT ![r] = [op |-> "create", on |-> 0, to |-> "backlog"]]
        /\ seen' = [seen EXCEPT ![r] = NewRow(FreeSlug)] /\ Goto(r, "read")
     \/ \E i \in DOMAIN rows : \E op \in {"archive", "restore", "entry"} :
        /\ job' = [job EXCEPT ![r] = [op |-> op, on |-> i, to |-> op]]
        /\ seen' = [seen EXCEPT ![r] = rows[i]]
        /\ Goto(r, IF ~Accepts(op, rows[i]) THEN "done"
                   ELSE IF op = "entry" THEN "bundle" ELSE "read")
     \/ \E i \in DOMAIN rows : \E s \in Statuses :
        /\ job' = [job EXCEPT ![r] = [op |-> "status", on |-> i, to |-> s]]
        /\ seen' = [seen EXCEPT ![r] = rows[i]]
        /\ Goto(r, IF Accepts("status", rows[i]) THEN "read" ELSE "refused")
  /\ UNCHANGED <<Table, manifest, edits>>

(* set_status: the stamps follow the status, from the row as it was read. *)
Completed(row, s)     == s = "studied"
Started(s)            == s # "backlog"

(* The UNIQUE index on the slug.                                           *)
Taken(slug)   == \E i \in DOMAIN rows : rows[i].slug = slug

Creates(r) ==
  /\ at[r] = "read" /\ job[r].op = "create"
  /\ IF Taken(seen[r].slug)
     THEN Goto(r, "refused") /\ UNCHANGED <<job, Table>>
     ELSE /\ rows' = Append(rows, seen[r])
          /\ job' = [job EXCEPT ![r].on = Len(rows) + 1]
          /\ ledger' = Append(ledger, [op |-> "create", on |-> Len(rows) + 1,
                                       from |-> "none", to |-> "backlog"])
          /\ Goto(r, "bundle")
  /\ UNCHANGED <<seen, manifest, edits>>

(* The UPDATE and the event in one transaction; the event's "from" is of  *)
(* the row that was read.                                                 *)
Changed(r, row) ==
  CASE job[r].op = "status" ->
         [row EXCEPT !.status = job[r].to, !.started = Started(job[r].to),
                     !.completed = Completed(seen[r], job[r].to)]
    [] job[r].op = "archive" -> [row EXCEPT !.archived = TRUE]
    [] job[r].op = "restore" -> [row EXCEPT !.archived = FALSE]
    [] OTHER -> row

(* Mutant: every column is written back as it was read.                   *)
WholeRow(r, row) == Changed(r, seen[r])
Written(r, row)  == Changed(r, row)

Updates(r) ==
  /\ at[r] = "read" /\ job[r].op # "create"
  /\ rows' = [rows EXCEPT ![job[r].on] = Written(r, @)]
  /\ Logs(r, seen[r].status, job[r].to)
  /\ Goto(r, "done")
  /\ UNCHANGED <<job, seen, manifest, edits>>

-----------------------------------------------------------------------------
(* _ensure_bundle_manifest: a manifest that is there is read as it is, a  *)
(* missing one is created, and what then holds the name is read again.    *)
SlugOf(r) == rows[job[r].on].slug

Ensures(r) ==
  /\ at[r] \in {"bundle", "again"}
  /\ CASE manifest[SlugOf(r)] = "missing" ->
            Goto(r, IF at[r] = "bundle" THEN "missing"
                    ELSE IF job[r].op = "entry" THEN "refused" ELSE "done")
       [] manifest[SlugOf(r)] = "rejected" ->
            Goto(r, IF job[r].op = "entry" THEN "refused" ELSE "done")
       [] OTHER ->
            IF job[r].op = "entry" THEN \E label \in {"read", "refused"} : Goto(r, label)
                                   ELSE Goto(r, "done")
  /\ UNCHANGED <<job, seen, Table, manifest, edits>>

WritesSkeleton(r) ==
  /\ at[r] = "missing" /\ Goto(r, "again")
  /\ manifest' = [manifest EXCEPT ![SlugOf(r)] = "skeleton"]
  /\ UNCHANGED <<job, seen, Table, edits>>

(* A filesystem hiccup must not undo the committed lesson.                *)
BundleFails(r) ==
  /\ at[r] \in {"bundle", "missing", "again"}
  /\ Goto(r, IF job[r].op = "entry" THEN "refused" ELSE "done")
  /\ UNCHANGED <<job, seen, Table, manifest, edits>>

AgentWrites ==
  /\ edits < MaxEdits /\ edits' = edits + 1
  /\ \E i \in DOMAIN rows : \E m \in {"authored", "rejected", "missing"} :
        manifest' = [manifest EXCEPT ![rows[i].slug] = m]
  /\ UNCHANGED <<at, job, seen, Table>>

Next ==
  \/ \E r \in Requests : Reads(r) \/ Creates(r) \/ Updates(r) \/ Ensures(r)
                          \/ WritesSkeleton(r) \/ BundleFails(r)
  \/ AgentWrites

Spec == Init /\ [][Next]_vars

-----------------------------------------------------------------------------
TypeOK ==
  /\ rows \in Seq(Row) /\ Len(rows) <= MaxLessons + Cardinality(Requests)
  /\ \A i \in DOMAIN ledger : ledger[i].on \in DOMAIN rows
  /\ manifest \in [Slugs -> {"missing", "skeleton", "authored", "rejected"}]

(* The n-th event is the last that tells of a lesson by one of the ops.    *)
TellsOf(n, i, ops) == ledger[n].on = i /\ ledger[n].op \in ops
LastOf(n, i, ops)  == TellsOf(n, i, ops)
                      /\ \A m \in DOMAIN ledger : TellsOf(m, i, ops) => m <= n

(* The ledger alone tells a lesson's status and whether it is archived,   *)
(* however the requests that changed it overlapped (set_status,           *)
(* archive_lesson, restore_lesson).                                       *)
LedgerTellsLessons ==
  \A i \in DOMAIN rows :
    /\ \E n \in DOMAIN ledger : /\ LastOf(n, i, {"create", "status"})
                                /\ rows[i].status = ledger[n].to
    /\ rows[i].archived <=> \E n \in DOMAIN ledger : /\ LastOf(n, i, {"archive", "restore"})
                                                     /\ ledger[n].op = "archive"

(* The stamps fit the status, and two lessons of one title never share a  *)
(* slug, so neither a bundle (set_status, create_lesson).                 *)
RowsAreSound ==
  /\ \A i \in DOMAIN rows :
       /\ rows[i].started = (rows[i].status # "backlog")
       /\ rows[i].completed = (rows[i].status = "studied")
  /\ \A i, j \in DOMAIN rows : rows[i].slug = rows[j].slug => i = j

(* A reader creates a missing manifest and never touches one that exists  *)
(* (_ensure_bundle_manifest, "Creation, never repair").                   *)
NeverRepairs ==
  [][\A n \in Slugs : manifest'[n] = "skeleton" => manifest[n] \in {"missing", "skeleton"}]_vars
=============================================================================
