--------------------------- MODULE BundleMigration ---------------------------
(***************************************************************************)
(* The v1 to v2 migration of lesson manifests and its rollback             *)
(* (scripts/migrate_bundles.py): runs beside a live app and its agents,    *)
(* which edit manifests and lesson rows, and may be killed between any two *)
(* writes.                                                                 *)
(***************************************************************************)
EXTENDS Integers, FiniteSets

CONSTANTS Runs,     \* runs of the script, each with a rollback directory
          Slugs,    \* lessons with a bundle
          MaxEdits  \* bound: edits of manifests and of rows

VARIABLES disk,     \* disk[s]: the bytes of lesson.json
          row,      \* row[s]: version of the fields of lessons a plan consumes
          at,       \* at[r]
          todo,     \* todo[r]: lessons r has planned and not yet dealt with
          plan,     \* plan[r][s]: the bytes and the row r planned from
          now,      \* now[r]: the lesson r is applying
          copies,   \* copies[r][s]: the rollback copy, or NoBytes
          ledger,   \* ledger[r]: lessons named in r's rollback.json
          undoing,  \* a rollback: [run, slug, seen], or NoUndo
          edits

vars == <<disk, row, at, todo, plan, now, copies, ledger, undoing, edits>>

NoBytes   == [v |-> 0, n |-> 0, row |-> 0]
V1(n)     == [v |-> 1, n |-> n, row |-> 0]
Edited(n) == [v |-> 3, n |-> n, row |-> 0]
(* _build_v2 and deterministic_page_id: a function of the bytes and the row. *)
Migrated(p) == [v |-> 2, n |-> p.bytes.n, row |-> p.row]
NoPlan    == [bytes |-> NoBytes, row |-> 0]
NoUndo    == [run |-> "none", slug |-> "none", seen |-> NoBytes]
NoSlug    == "none"

Init ==
  /\ disk = [s \in Slugs |-> V1(0)] /\ row = [s \in Slugs |-> 0]
  /\ at = [r \in Runs |-> "new"] /\ todo = [r \in Runs |-> {}]
  /\ plan = [r \in Runs |-> [s \in Slugs |-> NoPlan]]
  /\ now = [r \in Runs |-> NoSlug]
  /\ copies = [r \in Runs |-> [s \in Slugs |-> NoBytes]]
  /\ ledger = [r \in Runs |-> {}]
  /\ undoing = NoUndo /\ edits = 0

Goto(r, label) == at' = [at EXCEPT ![r] = label]
Kept == <<copies, ledger>>

-----------------------------------------------------------------------------
(* _load_lessons and plan_bundle for every lesson, before the first write. *)
(* A v2 manifest is a no-op; what an agent wrote stops the bundle.         *)
Plans(r) ==
  /\ at[r] = "new"
  /\ LET migratable == {s \in Slugs : disk[s].v = 1} IN
       /\ plan' = [plan EXCEPT ![r] = [s \in Slugs |->
                     IF s \in migratable THEN [bytes |-> disk[s], row |-> row[s]]
                     ELSE NoPlan]]
       /\ todo' = [todo EXCEPT ![r] = migratable]
  /\ Goto(r, "next")
  /\ UNCHANGED <<disk, row, now, Kept, undoing, edits>>

(* The row re-read and the stale-plan guard of apply_plan: a lesson that   *)
(* changed since it was planned is refused.                                *)
Stale(r, s) == disk[s] # plan[r][s].bytes \/ row[s] # plan[r][s].row

Looks(r) ==
  /\ at[r] = "next"
  /\ \E s \in todo[r] :
       /\ todo' = [todo EXCEPT ![r] = @ \ {s}]
       /\ IF Stale(r, s) THEN UNCHANGED <<at, now>>
          ELSE Goto(r, "copy") /\ now' = [now EXCEPT ![r] = s]
  /\ UNCHANGED <<disk, row, plan, Kept, undoing, edits>>

(* The original bytes, then the ledger, then the manifest, each written    *)
(* durably and atomically before the next.                                 *)
(* Mutant: the manifest is replaced before the ledger names it.            *)
LedgerLast  == [copy |-> "write", write |-> "record", record |-> "next"]
LedgerFirst == [copy |-> "record", record |-> "write", write |-> "next"]

Copies(r) ==
  /\ at[r] = "copy"
  /\ copies' = [copies EXCEPT ![r][now[r]] = plan[r][now[r]].bytes]
  /\ Goto(r, LedgerFirst["copy"])
  /\ UNCHANGED <<disk, row, todo, plan, now, ledger, undoing, edits>>

Records(r) ==
  /\ at[r] = "record"
  /\ ledger' = [ledger EXCEPT ![r] = @ \cup {now[r]}]
  /\ Goto(r, LedgerFirst["record"])
  /\ UNCHANGED <<disk, row, todo, plan, now, copies, undoing, edits>>

Writes(r) ==
  /\ at[r] = "write"
  /\ disk' = [disk EXCEPT ![now[r]] = Migrated(plan[r][now[r]])]
  /\ Goto(r, LedgerFirst["write"])
  /\ UNCHANGED <<row, todo, plan, now, Kept, undoing, edits>>

Dies(r) ==
  /\ at[r] \notin {"new", "dead"} /\ Goto(r, "dead")
  /\ UNCHANGED <<disk, row, todo, plan, now, Kept, undoing, edits>>

-----------------------------------------------------------------------------
(* rollback: a manifest is restored only while it holds the migrated       *)
(* bytes; read and replaced in two steps.                                  *)
RestoresOwn(r, s, seen) == seen = Migrated(plan[r][s])

UndoLooks(r) ==
  /\ undoing = NoUndo /\ at[r] \in {"next", "dead"}
  /\ \E s \in ledger[r] :
       /\ disk[s] # copies[r][s] /\ RestoresOwn(r, s, disk[s])
       /\ undoing' = [run |-> r, slug |-> s, seen |-> disk[s]]
  /\ UNCHANGED <<disk, row, at, todo, plan, now, Kept, edits>>

UndoWrites ==
  /\ undoing # NoUndo
  /\ disk' = [disk EXCEPT ![undoing.slug] = copies[undoing.run][undoing.slug]]
  /\ undoing' = NoUndo
  /\ UNCHANGED <<row, at, todo, plan, now, Kept, edits>>

-----------------------------------------------------------------------------
(* The app and its agents. A manifest is not edited between a guard and    *)
(* the write it guards: that window is open in the code.                   *)
Guarded(s) == undoing.slug = s
              \/ \E r \in Runs : at[r] \in {"copy", "record", "write"} /\ now[r] = s

EditManifest ==
  /\ edits < MaxEdits /\ edits' = edits + 1
  /\ \E s \in Slugs : ~Guarded(s) /\ disk' = [disk EXCEPT ![s] = Edited(edits + 1)]
  /\ UNCHANGED <<row, at, todo, plan, now, Kept, undoing>>

EditRow ==
  /\ edits < MaxEdits /\ edits' = edits + 1
  /\ \E s \in Slugs : row' = [row EXCEPT ![s] = @ + 1]
  /\ UNCHANGED <<disk, at, todo, plan, now, Kept, undoing>>

Next == \/ \E r \in Runs : \/ Plans(r) \/ Looks(r) \/ Copies(r) \/ Records(r)
                           \/ Writes(r) \/ Dies(r) \/ UndoLooks(r)
        \/ UndoWrites \/ EditManifest \/ EditRow

Spec == Init /\ [][Next]_vars

-----------------------------------------------------------------------------
(* Whenever a run dies, every migrated manifest can be rolled back: some   *)
(* run's ledger names it beside the bytes it was made from.                *)
AlwaysRestorable ==
  \A s \in Slugs : disk[s].v = 2 =>
    \E r \in Runs : /\ s \in ledger[r]
                    /\ copies[r][s] = plan[r][s].bytes
                    /\ disk[s] = Migrated(plan[r][s])

(* Neither a run nor a rollback replaces what an agent wrote.              *)
StepEdits == \A s \in Slugs : disk[s].v = 3 => disk'[s].v = 3
AgentEditsStay == [][StepEdits]_vars

(* Both, of every step.                                                    *)
StepReversible == StepEdits /\ AlwaysRestorable'
=============================================================================
