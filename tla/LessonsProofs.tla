----------------------------- MODULE LessonsProofs -----------------------------
(***************************************************************************)
(* Proofs about a lesson and its bundle, for every value of the constants: *)
(* the migration of manifests, the build of a page and its check,          *)
(* artifacts, the workspace, the run log, the lesson's own life and the    *)
(* attempts.                                                               *)
(* MCLessons lets a behaviour be of one of them; each has an inductive     *)
(* invariant of its own, and the theorems are about its scene.             *)
(***************************************************************************)
EXTENDS MCLessons, Integers, Sequences, FiniteSets, FiniteSetTheorems, TLAPS

-----------------------------------------------------------------------------
(* The migration's variables, as the scenes hold them.                      *)
disk     == v1
row      == v2
passAt   == v3
todo     == v4
plan     == v5
now      == v6
copies   == v7
passLedger == v8
undoing  == v9
passEdits == v10
USE DEF disk, row, passAt, todo, plan, now, copies, passLedger, undoing, passEdits

-----------------------------------------------------------------------------
(* The migration of manifests.  A manifest is overwritten only by a run     *)
(* that has named it in its ledger beside the bytes it planned from, which  *)
(* are a v1 manifest; and while a run or a rollback works on a lesson, no   *)
(* agent's manifest stands there.                                           *)

Manifests == [v : 0..3, n : Nat, row : Nat]
Plans     == [bytes : Manifests, row : Nat]

MigrationTypes ==
    /\ disk \in [Bundles -> Manifests] /\ row \in [Bundles -> Nat]
    /\ passAt \in [Migrators -> {"new", "next", "copy", "record", "write", "dead"}]
    /\ todo \in [Migrators -> SUBSET Bundles]
    /\ plan \in [Migrators -> [Bundles -> Plans]]
    /\ now \in [Migrators -> Bundles \cup {"none"}]
    /\ copies \in [Migrators -> [Bundles -> Manifests]]
    /\ passLedger \in [Migrators -> SUBSET Bundles]
    /\ passEdits \in Nat

Working(r) == passAt[r] \in {"copy", "record", "write"}

RunOK(r) ==
    /\ passAt[r] = "new" => passLedger[r] = {}
    /\ \A s \in todo[r] : plan[r][s].bytes.v = 1
    /\ Working(r) => /\ now[r] \in Bundles /\ plan[r][now[r]].bytes.v = 1
                     /\ disk[now[r]].v # 3
    /\ passAt[r] \in {"record", "write"} => copies[r][now[r]] = plan[r][now[r]].bytes
    /\ passAt[r] = "write" => now[r] \in passLedger[r]
    /\ \A s \in passLedger[r] : copies[r][s] = plan[r][s].bytes /\ copies[r][s].v = 1

UndoOK ==
    undoing # Migration!NoUndo =>
        /\ undoing.run \in Migrators /\ undoing.slug \in passLedger[undoing.run]
        /\ disk[undoing.slug].v # 3

MigrationInv ==
    MigrationTypes /\ (\A r \in Migrators : RunOK(r)) /\ UndoOK /\ Migration!AlwaysRestorable

(* What a run keeps on disk to undo itself.                                 *)
LEMMA MigratedRestorable ==
    ASSUME MigrationTypes, NEW r \in Migrators, RunOK(r), passAt[r] = "write"
    PROVE  /\ now[r] \in Bundles /\ now[r] \in passLedger[r]
           /\ copies[r][now[r]] = plan[r][now[r]].bytes
           /\ disk[now[r]].v # 3
           /\ Migration!Migrated(plan[r][now[r]]) \in Manifests
           /\ Migration!Migrated(plan[r][now[r]]).v = 2
  <1>1. plan[r][now[r]] \in Plans
    BY DEF MigrationTypes, RunOK, Working
  <1> QED
    BY <1>1 DEF RunOK, Working, Migration!Migrated, Manifests, Plans

(* Every manifest is the first version's, and no run has begun.             *)
LEMMA MigrationInitially == Migration!Init => MigrationInv
  BY DEF Migration!Init, MigrationInv, MigrationTypes, Manifests, Plans, RunOK, Working, UndoOK,
         Migration!AlwaysRestorable, Migration!V1, Migration!NoPlan, Migration!NoBytes,
         Migration!NoSlug

(* Every step keeps the invariant, and replaces nothing an agent wrote.     *)
LEMMA MigrationStep ==
    ASSUME MigrationInv, [Migration!Next]_Migration!vars
    PROVE  MigrationInv' /\ Migration!StepEdits
  <1> DEFINE Goal == MigrationInv' /\ Migration!StepEdits
  <1> USE DEF MigrationInv
  <1>1. ASSUME NEW r \in Migrators, Migration!Plans(r) PROVE Goal
    <2>1. MigrationTypes'
      BY <1>1 DEF Migration!Plans, Migration!Goto, Migration!Kept, MigrationTypes,
                  Plans, Manifests,
             Migration!NoPlan, Migration!NoBytes
    <2>2. UNCHANGED <<disk, now, copies, passLedger, undoing>> /\ passAt[r] = "new"
      BY <1>1 DEF Migration!Plans, Migration!Kept
    <2>3. \A q \in Migrators : q # r => plan'[q] = plan[q] /\ todo'[q] = todo[q] /\ passAt'[q] = passAt[q]
      BY <1>1 DEF Migration!Plans, Migration!Goto, MigrationTypes
    <2>4. passAt'[r] = "next" /\ passLedger[r] = {} /\ \A s \in todo'[r] : plan'[r][s].bytes.v = 1
      BY <1>1 DEF Migration!Plans, Migration!Goto, MigrationTypes, RunOK
    <2>5. ASSUME NEW q \in Migrators PROVE RunOK(q)'
      BY <2>2, <2>3, <2>4 DEF RunOK, Working
    <2>6. Migration!AlwaysRestorable'
      <3> SUFFICES ASSUME NEW s \in Bundles, disk[s].v = 2
                   PROVE  \E q \in Migrators : /\ s \in passLedger'[q]
                                         /\ copies'[q][s] = plan'[q][s].bytes
                                         /\ disk'[s] = Migration!Migrated(plan'[q][s])
        BY <2>2 DEF Migration!AlwaysRestorable, Migration!Migrated
      <3>1. PICK q \in Migrators : /\ s \in passLedger[q] /\ copies[q][s] = plan[q][s].bytes
                                   /\ disk[s] = Migration!Migrated(plan[q][s])
        BY DEF Migration!AlwaysRestorable
      <3>2. plan'[q] = plan[q]
        BY <2>3, <2>4, <3>1
      <3> QED
        BY <2>2, <3>1, <3>2
    <2> QED
      BY <2>1, <2>2, <2>5, <2>6 DEF UndoOK, Migration!StepEdits
  <1>2. ASSUME NEW r \in Migrators, Migration!Looks(r) PROVE Goal
    <2>1. MigrationTypes'
      <3>1. PICK s \in todo[r] :
               /\ todo' = [todo EXCEPT ![r] = @ \ {s}]
               /\ \/ UNCHANGED <<passAt, now>>
                  \/ /\ passAt' = [passAt EXCEPT ![r] = "copy"]
                     /\ now' = [now EXCEPT ![r] = s]
        BY Zenon, <1>2 DEF Migration!Looks, Migration!Goto
      <3>2. s \in Bundles /\ UNCHANGED <<disk, row, plan, copies, passLedger, passEdits>>
        BY <1>2 DEF Migration!Looks, Migration!Kept, MigrationTypes
      <3>3. passAt' \in [Migrators -> {"new", "next", "copy", "record", "write", "dead"}]
        BY Zenon, <3>1 DEF MigrationTypes
      <3>4. now' \in [Migrators -> Bundles \cup {"none"}] /\ todo' \in [Migrators -> SUBSET Bundles]
        BY <3>1, <3>2 DEF MigrationTypes
      <3> QED
        BY <3>2, <3>3, <3>4 DEF MigrationTypes
    <2>2. UNCHANGED <<disk, plan, copies, passLedger, undoing>> /\ passAt[r] = "next"
      BY <1>2 DEF Migration!Looks, Migration!Kept
    <2>3. \A q \in Migrators : q # r => now'[q] = now[q] /\ todo'[q] = todo[q] /\ passAt'[q] = passAt[q]
      BY <1>2 DEF Migration!Looks, Migration!Goto, MigrationTypes
    <2>4. /\ todo'[r] \subseteq todo[r]
          /\ \/ passAt'[r] = passAt[r]
             \/ /\ passAt'[r] = "copy" /\ now'[r] \in todo[r]
                /\ disk[now'[r]] = plan[r][now'[r]].bytes
      BY <1>2 DEF Migration!Looks, Migration!Goto, Migration!Stale, MigrationTypes
    <2>5. RunOK(r)'
      BY <2>2, <2>4 DEF RunOK, Working, MigrationTypes
    <2>6. ASSUME NEW q \in Migrators PROVE RunOK(q)'
      BY <2>2, <2>3, <2>5 DEF RunOK, Working
    <2> QED
      BY <2>1, <2>2, <2>6 DEF UndoOK, Migration!StepEdits, Migration!AlwaysRestorable
  <1>3. ASSUME NEW r \in Migrators, Migration!Copies(r) PROVE Goal
    <2>1. MigrationTypes'
      BY <1>3 DEF Migration!Copies, Migration!Goto, Migration!LedgerFirst, MigrationTypes,
             RunOK, Working, Plans
    <2>2. UNCHANGED <<disk, plan, now, todo, passLedger, undoing>> /\ passAt[r] = "copy" /\ now[r] \in Bundles
      BY <1>3 DEF Migration!Copies, RunOK, Working
    <2>3. \A q \in Migrators : q # r => copies'[q] = copies[q] /\ passAt'[q] = passAt[q]
      BY <1>3 DEF Migration!Copies, Migration!Goto, MigrationTypes
    <2>4. /\ passAt'[r] = "record" /\ copies'[r][now[r]] = plan[r][now[r]].bytes
          /\ \A s \in Bundles : s # now[r] => copies'[r][s] = copies[r][s]
      BY <1>3, <2>2 DEF Migration!Copies, Migration!Goto, Migration!LedgerFirst, MigrationTypes
    <2>5. RunOK(r)'
      BY <2>2, <2>4 DEF RunOK, Working, MigrationTypes
    <2>6. ASSUME NEW q \in Migrators PROVE RunOK(q)'
      BY <2>2, <2>3, <2>5 DEF RunOK, Working
    <2>7. Migration!AlwaysRestorable'
      BY <2>2, <2>3, <2>4 DEF Migration!AlwaysRestorable, Migration!Migrated
    <2> QED
      BY <2>1, <2>2, <2>6, <2>7 DEF UndoOK, Migration!StepEdits
  <1>4. ASSUME NEW r \in Migrators, Migration!Records(r) PROVE Goal
    <2>1. MigrationTypes'
      BY <1>4 DEF Migration!Records, Migration!Goto, Migration!LedgerFirst, MigrationTypes,
             RunOK, Working
    <2>2. UNCHANGED <<disk, plan, now, todo, copies, undoing>> /\ passAt[r] = "record"
      BY <1>4 DEF Migration!Records
    <2>3. \A q \in Migrators : q # r => passLedger'[q] = passLedger[q] /\ passAt'[q] = passAt[q]
      BY <1>4 DEF Migration!Records, Migration!Goto, MigrationTypes
    <2>4. passAt'[r] = "write" /\ passLedger'[r] = passLedger[r] \cup {now[r]}
      BY <1>4 DEF Migration!Records, Migration!Goto, Migration!LedgerFirst, MigrationTypes
    <2>5. RunOK(r)'
      BY <2>2, <2>4 DEF RunOK, Working
    <2>6. ASSUME NEW q \in Migrators PROVE RunOK(q)'
      BY <2>2, <2>3, <2>5 DEF RunOK, Working
    <2>7. Migration!AlwaysRestorable'
      BY <2>2, <2>3, <2>4 DEF Migration!AlwaysRestorable, Migration!Migrated
    <2> QED
      BY <2>1, <2>2, <2>3, <2>4, <2>6, <2>7 DEF UndoOK, Migration!StepEdits
  <1>5. ASSUME NEW r \in Migrators, Migration!Writes(r) PROVE Goal
    <2>1. passAt[r] = "write" /\ UNCHANGED <<plan, now, todo, copies, passLedger, undoing, row, passEdits>>
      BY <1>5 DEF Migration!Writes, Migration!Kept
    <2>2. \A q \in Migrators : q # r => passAt'[q] = passAt[q]
      BY <1>5 DEF Migration!Writes, Migration!Goto, MigrationTypes
    <2>3. /\ passAt'[r] = "next" /\ passAt' \in [Migrators -> {"new", "next", "copy", "record", "write", "dead"}]
          /\ disk' = [disk EXCEPT ![now[r]] = Migration!Migrated(plan[r][now[r]])]
      BY <1>5 DEF Migration!Writes, Migration!Goto, Migration!LedgerFirst, MigrationTypes
    <2>4. /\ now[r] \in Bundles /\ now[r] \in passLedger[r]
          /\ copies[r][now[r]] = plan[r][now[r]].bytes /\ disk[now[r]].v # 3
          /\ Migration!Migrated(plan[r][now[r]]) \in Manifests
          /\ Migration!Migrated(plan[r][now[r]]).v = 2
      BY <2>1, MigratedRestorable
    <2>5. MigrationTypes'
      BY <2>1, <2>3, <2>4 DEF MigrationTypes
    <2>6. /\ disk'[now[r]] = Migration!Migrated(plan[r][now[r]])
          /\ \A s \in Bundles : s # now[r] => disk'[s] = disk[s]
      BY <2>3, <2>4 DEF MigrationTypes
    <2>7. ASSUME NEW q \in Migrators PROVE RunOK(q)'
      <3>1. ASSUME NEW s \in Bundles, disk[s].v # 3 PROVE disk'[s].v # 3
        BY <2>4, <2>6, <3>1
      <3> QED
        BY <2>1, <2>2, <2>3, <3>1 DEF RunOK, Working
    <2>8. Migration!AlwaysRestorable'
      BY <2>1, <2>4, <2>6 DEF Migration!AlwaysRestorable, Migration!Migrated
    <2>9. UndoOK'
      BY <2>1, <2>4, <2>6 DEF UndoOK, MigrationTypes
    <2>10. Migration!StepEdits
      BY <2>4, <2>6 DEF Migration!StepEdits
    <2> QED
      BY <2>5, <2>7, <2>8, <2>9, <2>10
  <1>6. ASSUME NEW r \in Migrators, Migration!Dies(r) PROVE Goal
    <2>1. MigrationTypes'
      BY <1>6 DEF Migration!Dies, Migration!Goto, Migration!Kept, MigrationTypes
    <2>2. UNCHANGED <<disk, plan, now, todo, copies, passLedger, undoing>>
      BY <1>6 DEF Migration!Dies, Migration!Kept
    <2>3. ASSUME NEW q \in Migrators PROVE RunOK(q)' 
      <3>1. passAt'[q] = "dead" \/ passAt'[q] = passAt[q]
        BY <1>6 DEF Migration!Dies, Migration!Goto, MigrationTypes
      <3> QED
        BY <2>2, <3>1 DEF RunOK, Working
    <2> QED
      BY <2>1, <2>2, <2>3 DEF UndoOK, Migration!StepEdits, Migration!AlwaysRestorable
  <1>7. ASSUME NEW r \in Migrators, Migration!UndoLooks(r) PROVE Goal
    <2>1. /\ UNCHANGED <<disk, row, passAt, todo, plan, now, copies, passLedger, passEdits>>
          /\ \E s \in passLedger[r] : /\ disk[s] = Migration!Migrated(plan[r][s])
                                      /\ undoing' = [run |-> r, slug |-> s, seen |-> disk[s]]
      BY <1>7 DEF Migration!UndoLooks, Migration!RestoresOwn, Migration!Kept
    <2>2. UndoOK'
      BY <2>1 DEF UndoOK, Migration!Migrated
    <2> QED
      BY <2>1, <2>2 DEF MigrationTypes, RunOK, Working, Migration!StepEdits,
                        Migration!AlwaysRestorable
  <1>8. CASE Migration!UndoWrites
    <2>1. /\ UNCHANGED <<row, passAt, todo, plan, now, copies, passLedger, passEdits>>
          /\ undoing # Migration!NoUndo /\ undoing' = Migration!NoUndo
          /\ disk' = [disk EXCEPT ![undoing.slug] = copies[undoing.run][undoing.slug]]
      BY <1>8 DEF Migration!UndoWrites, Migration!Kept
    <2>2. PICK r \in Migrators : r = undoing.run
      BY <2>1 DEF UndoOK
    <2>3. PICK s \in Bundles : s = undoing.slug
      BY <2>1, <2>2 DEF UndoOK, MigrationTypes
    <2>4. copies[r][s].v = 1 /\ copies[r][s] \in Manifests /\ disk[s].v # 3
      BY <2>1, <2>2, <2>3 DEF UndoOK, RunOK, MigrationTypes
    <2>5. /\ disk' \in [Bundles -> Manifests] /\ disk'[s].v = 1
          /\ \A t \in Bundles : t # s => disk'[t] = disk[t]
      BY <2>1, <2>2, <2>3, <2>4 DEF MigrationTypes
    <2>6. ASSUME NEW q \in Migrators PROVE RunOK(q)'
      BY <2>1, <2>5 DEF RunOK, Working
    <2>7. Migration!AlwaysRestorable'
      <3>1. ASSUME NEW t \in Bundles, disk'[t].v = 2 PROVE disk'[t] = disk[t]
        BY <2>5, <3>1
      <3> QED
        BY <2>1, <3>1 DEF Migration!AlwaysRestorable, Migration!Migrated
    <2>8. Migration!StepEdits
      BY <2>4, <2>5 DEF Migration!StepEdits
    <2>9. MigrationTypes' /\ UndoOK'
      BY <2>1, <2>5 DEF MigrationTypes, UndoOK, Migration!NoUndo
    <2> QED
      BY <2>6, <2>7, <2>8, <2>9
  <1>9. CASE Migration!EditManifest
    <2>1. PICK s \in Bundles : /\ ~Migration!Guarded(s)
                               /\ disk' = [disk EXCEPT ![s] = Migration!Edited(passEdits + 1)]
      BY Zenon, <1>9 DEF Migration!EditManifest
    <2>2. UNCHANGED <<row, passAt, todo, plan, now, copies, passLedger, undoing>> /\ passEdits' = passEdits + 1
      BY <1>9 DEF Migration!EditManifest, Migration!Kept
    <2>3. /\ disk' \in [Bundles -> Manifests] /\ disk'[s].v = 3 /\ passEdits' \in Nat
          /\ \A t \in Bundles : t # s => disk'[t] = disk[t]
      BY <2>1, <2>2 DEF MigrationTypes, Migration!Edited, Manifests
    <2>4. ASSUME NEW q \in Migrators PROVE RunOK(q)'
      BY <2>1, <2>2, <2>3 DEF RunOK, Working, Migration!Guarded
    <2>5. UndoOK'
      BY <2>1, <2>2, <2>3 DEF UndoOK, Migration!Guarded, MigrationTypes
    <2>6. Migration!AlwaysRestorable'
      <3>1. ASSUME NEW t \in Bundles, disk'[t].v = 2 PROVE disk'[t] = disk[t]
        BY <2>3, <3>1
      <3> QED
        BY <2>2, <3>1 DEF Migration!AlwaysRestorable, Migration!Migrated
    <2>7. Migration!StepEdits
      BY <2>3 DEF Migration!StepEdits
    <2> QED
      BY <2>2, <2>3, <2>4, <2>5, <2>6, <2>7 DEF MigrationTypes
  <1>10. CASE Migration!EditRow
    BY <1>10 DEF Migration!EditRow, Migration!Kept, MigrationTypes, RunOK, Working, UndoOK,
                 Migration!StepEdits, Migration!AlwaysRestorable
  <1>11. CASE UNCHANGED Migration!vars
    BY <1>11 DEF Migration!vars, MigrationTypes, RunOK, Working, UndoOK, Migration!StepEdits,
                 Migration!AlwaysRestorable
  <1> QED
    BY <1>1, <1>2, <1>3, <1>4, <1>5, <1>6, <1>7, <1>8, <1>9, <1>10, <1>11 DEF Migration!Next
LEMMA MigrationScene ==
    ASSUME [Next]_all, scene' = "migration"
    PROVE  scene = "migration" /\ [Migration!Next]_Migration!vars
  BY DEF Next, all, state, Migration!vars

(* Whatever dies, every migrated manifest can be rolled back, and neither   *)
(* direction replaces what an agent wrote, for any number of lessons, runs  *)
(* and edits (scripts/migrate_bundles.py).                                  *)
THEOREM MigrationHolds == Spec => MigrationIsReversible
  <1> DEFINE Inv == scene = "migration" => MigrationInv
  <1>1. Init => Inv
    BY MigrationInitially DEF Init
  <1>2. Inv /\ [Next]_all => Inv'
    BY MigrationScene, MigrationStep
  <1>3. Inv /\ [Next]_all => [scene = "migration" => Migration!StepReversible]_all
    <2>1. SUFFICES ASSUME Inv, [Next]_all, scene = "migration", scene' = "migration"
                   PROVE  Migration!StepReversible
      BY DEF Next, all
    <2> QED
      BY <2>1, MigrationScene, MigrationStep DEF MigrationInv, Migration!StepReversible
  <1> QED
    BY <1>1, <1>2, <1>3, PTL DEF Spec, MigrationIsReversible

-----------------------------------------------------------------------------
(* The build's variables, as the scenes hold them.                          *)
buildAt    == v1
buildLock  == v2
group      == v3
slot       == v4
aside      == v5
placed     == v6
clean      == v7
reads      == v8
found      == v9
buildEdits == v10
edited     == v11
USE DEF buildAt, buildLock, group, slot, aside, placed, clean, reads, found, buildEdits,
        edited

-----------------------------------------------------------------------------
(* The build of a page.  Exactly the build that works holds the lesson, its *)
(* processes live in its two steps only, and from the placing to the verdict *)
(* the output name holds its artifact unless the agent has changed it.      *)

Slots == [of : {"nothing", "directory", "agent", "build"}, n : Nat \cup Builds]

BuildTypes ==
    /\ buildAt \in [Builds -> {"new", "install", "bundle", "place", "render", "refused",
                               "built", "died"}]
    /\ buildLock \in Builds \cup {Build!NoBuild}
    /\ group \in [Builds -> SUBSET {"leader", "child"}]
    /\ slot \in Slots
    /\ aside \in [Builds -> Slots] /\ placed \in [Builds -> Slots]
    /\ found \in [Builds -> Slots]
    /\ clean \in [Builds -> BOOLEAN] /\ reads \in [Builds -> BOOLEAN]
    /\ edited \in [Builds -> BOOLEAN] /\ buildEdits \in Nat

BuildOK(b) ==
    /\ buildLock = b <=> buildAt[b] \in {"install", "bundle", "place", "render"}
    /\ group[b] # {} => buildAt[b] \in {"install", "bundle"}
    /\ buildAt[b] \in {"new", "install", "bundle", "place"} => placed[b] = Build!Nothing
    /\ reads[b] => placed[b] = Build!Nothing
    /\ buildAt[b] = "render" => /\ placed[b] = Build!Artifact(b) /\ aside[b] = found[b]
                                /\ edited[b] <=> slot # placed[b]

BuildInv == BuildTypes /\ \A b \in Builds : BuildOK(b)

(* What the steps leave and what the output name may hold.                  *)
LEMMA BuildSlots ==
    /\ Build!Nothing \in Slots /\ Build!Directory \in Slots
    /\ \A n \in Nat : Build!Authored(n) \in Slots
    /\ \A b \in Builds : /\ Build!Artifact(b) \in Slots
                         /\ Build!Artifact(b) \notin {Build!Nothing, Build!Directory}
                         /\ \A n : Build!Artifact(b) # Build!Authored(n)
  BY DEF Slots, Build!Nothing, Build!Directory, Build!Authored, Build!Artifact

(* No build has begun.                                                      *)
LEMMA BuildInitially ==
    ASSUME Build!BuildAssumption, Build!Init
    PROVE  BuildInv
  <1>1. slot \in Slots
    BY BuildSlots DEF Build!Init
  <1>2. BuildTypes
    BY <1>1, BuildSlots DEF Build!Init, BuildTypes
  <1>3. ASSUME NEW b \in Builds PROVE BuildOK(b)
    BY DEF Build!Init, BuildOK, Build!BuildAssumption
  <1> QED
    BY <1>2, <1>3 DEF BuildInv

(* A build that leaves gives the lesson up and leaves no process behind.    *)
BuildMoves(b) ==
    /\ \A c \in Builds : c # b =>
          /\ buildAt'[c] = buildAt[c] /\ group'[c] = group[c] /\ placed'[c] = placed[c]
          /\ aside'[c] = aside[c] /\ found'[c] = found[c] /\ reads'[c] = reads[c]
          /\ edited'[c] = edited[c]
    /\ buildLock \in {b, Build!NoBuild} /\ buildLock' \in {b, Build!NoBuild}
    /\ BuildTypes'

(* Other builds do not notice: none of them holds the lesson.               *)
LEMMA OthersWait ==
    ASSUME Build!BuildAssumption, BuildInv, NEW b \in Builds, BuildMoves(b), BuildOK(b)'
    PROVE  BuildInv'
  <1>1. ASSUME NEW c \in Builds, c # b PROVE BuildOK(c)'
    <2>1. buildLock # c /\ buildLock' # c
      BY <1>1 DEF BuildMoves, Build!BuildAssumption
    <2> QED
      BY <1>1, <2>1 DEF BuildInv, BuildOK, BuildMoves
  <1> QED
    BY <1>1 DEF BuildInv, BuildMoves

(* Every step keeps the invariant, ends a build as it should, and says      *)
(* "built" of a clean page that is there.                                   *)
LEMMA BuildStep ==
    ASSUME Build!BuildAssumption, BuildInv, [Build!Next]_Build!vars
    PROVE  BuildInv' /\ Build!StepUndone /\ Build!StepBuilt
  <1> DEFINE Goal == BuildInv' /\ Build!StepUndone /\ Build!StepBuilt
             Quiet(b) == buildAt[b] # "render" /\ buildAt'[b] # "built"
  <1>q. ASSUME NEW b \in Builds, BuildMoves(b), Quiet(b)
        PROVE  Build!StepUndone /\ Build!StepBuilt
    BY <1>q DEF Build!StepUndone, Build!StepBuilt, BuildMoves
  <1>r. ASSUME UNCHANGED buildAt PROVE Build!StepUndone /\ Build!StepBuilt
    BY <1>r DEF Build!StepUndone, Build!StepBuilt
  <1>t. BuildTypes /\ \A c \in Builds : BuildOK(c)
    BY DEF BuildInv
  <1> USE DEF Build!Goto, Build!Leave, Build!File, Build!Seen
  <1>1. ASSUME NEW b \in Builds, Build!Enter(b) PROVE Goal
    <2>1. BuildMoves(b)
      BY <1>1, <1>t DEF Build!Enter, BuildMoves, BuildTypes
    <2>2. BuildOK(b)'
      BY <1>1, <1>t DEF Build!Enter, BuildOK, BuildTypes, Build!BuildAssumption
    <2>3. Quiet(b)
      BY <1>1, <1>t DEF Build!Enter, BuildTypes
    <2> QED
      BY <1>q, <2>1, <2>2, <2>3, OthersWait
  <1>2. ASSUME NEW b \in Builds, Build!Starts(b) \/ Build!Forks(b) PROVE Goal
    <2>1. buildAt[b] \in {"install", "bundle"} /\ buildLock = b
      BY <1>2, <1>t DEF Build!Starts, Build!Forks, BuildOK
    <2>2. /\ UNCHANGED <<buildAt, buildLock, slot, aside, placed, buildEdits, edited, clean, reads, found>>
          /\ group' \in [Builds -> SUBSET {"leader", "child"}]
          /\ \A c \in Builds : c # b => group'[c] = group[c]
      BY <1>2, <1>t DEF Build!Starts, Build!Forks, BuildTypes
    <2>3. BuildMoves(b)
      BY <1>t, <2>1, <2>2 DEF BuildMoves, BuildTypes
    <2>4. BuildOK(b)'
      BY <1>t, <2>1, <2>2 DEF BuildOK
    <2> QED
      BY <1>r, <2>2, <2>3, <2>4, OthersWait
  <1>3. ASSUME NEW b \in Builds, Build!StepEnds(b) PROVE Goal
    <2>1. /\ buildAt[b] \in {"install", "bundle"} /\ buildLock = b /\ placed[b] = Build!Nothing
          /\ group' = [group EXCEPT ![b] = {}]
          /\ UNCHANGED <<slot, aside, placed, buildEdits, edited, clean, found>>
      BY <1>3, <1>t DEF Build!StepEnds, Build!Exits, BuildOK
    <2>2. \/ /\ buildAt' = [buildAt EXCEPT ![b] = "bundle"] /\ UNCHANGED <<buildLock, reads>>
          \/ /\ buildAt' = [buildAt EXCEPT ![b] = "place"] /\ UNCHANGED buildLock
             /\ \E r \in BOOLEAN : reads' = [reads EXCEPT ![b] = r]
          \/ /\ buildAt' = [buildAt EXCEPT ![b] = "refused"] /\ buildLock' = Build!NoBuild
             /\ UNCHANGED reads
      BY <1>3 DEF Build!StepEnds
    <2>3. BuildMoves(b)
      BY <1>t, <2>1, <2>2 DEF BuildMoves, BuildTypes
    <2>4. BuildOK(b)'
      BY <1>t, <2>1, <2>2 DEF BuildOK, BuildTypes, Build!BuildAssumption
    <2>5. Quiet(b)
      BY <1>t, <2>1, <2>2 DEF BuildTypes
    <2> QED
      BY <1>q, <2>3, <2>4, <2>5, OthersWait
  <1>4. ASSUME NEW b \in Builds, Build!Stopped(b) PROVE Goal
    <2>1. /\ buildAt[b] \in {"install", "bundle"} /\ buildLock = b
          /\ group' = [group EXCEPT ![b] = {}] /\ buildAt' = [buildAt EXCEPT ![b] = "refused"]
          /\ buildLock' = Build!NoBuild
          /\ UNCHANGED <<slot, aside, placed, buildEdits, edited, clean, reads, found>>
      BY <1>4, <1>t DEF Build!Stopped, BuildOK
    <2>2. BuildMoves(b)
      BY <1>t, <2>1 DEF BuildMoves, BuildTypes
    <2>3. BuildOK(b)'
      BY <1>t, <2>1 DEF BuildOK, BuildTypes, Build!BuildAssumption
    <2>4. Quiet(b)
      BY <1>t, <2>1 DEF BuildTypes
    <2> QED
      BY <1>q, <2>2, <2>3, <2>4, OthersWait
  <1>5. ASSUME NEW b \in Builds,
               Build!PlaceRefused(b) \/ Build!PlaceFails(b) \/ Build!PlaceFailsLate(b)
        PROVE  Goal
    <2>1. /\ buildAt[b] = "place" /\ buildLock = b /\ group[b] = {}
          /\ buildAt' = [buildAt EXCEPT ![b] = "refused"] /\ buildLock' = Build!NoBuild
          /\ UNCHANGED <<group, aside, placed, buildEdits, edited, clean, reads, found>>
      BY <1>5, <1>t DEF Build!PlaceRefused, Build!PlaceFails, Build!PlaceFailsLate, BuildOK
    <2>2. slot' \in Slots
      BY <1>5, <1>t, BuildSlots DEF Build!PlaceRefused, Build!PlaceFails,
                                    Build!PlaceFailsLate, BuildTypes
    <2>3. BuildMoves(b)
      BY <1>t, <2>1, <2>2 DEF BuildMoves, BuildTypes
    <2>4. BuildOK(b)'
      BY <1>t, <2>1 DEF BuildOK, BuildTypes, Build!BuildAssumption
    <2>5. Quiet(b)
      BY <1>t, <2>1 DEF BuildTypes
    <2> QED
      BY <1>q, <2>3, <2>4, <2>5, OthersWait
  <1>6. ASSUME NEW b \in Builds, Build!Place(b) PROVE Goal
    <2>1. /\ buildAt[b] = "place" /\ buildLock = b /\ group[b] = {} /\ ~reads[b]
          /\ UNCHANGED <<buildLock, group, buildEdits, reads>>
      BY <1>6, <1>t DEF Build!Place, Build!MayTake, BuildOK
    <2>2. /\ aside' = [aside EXCEPT ![b] = slot] /\ found' = [found EXCEPT ![b] = slot]
          /\ slot' = Build!Artifact(b) /\ slot' \in Slots
          /\ placed' = [placed EXCEPT ![b] = Build!Artifact(b)]
          /\ edited' = [edited EXCEPT ![b] = FALSE]
          /\ clean' \in [Builds -> BOOLEAN]
          /\ buildAt' = [buildAt EXCEPT ![b] = "render"]
      BY <1>6, <1>t, BuildSlots DEF Build!Place, BuildTypes
    <2>3. BuildMoves(b)
      BY <1>t, <2>1, <2>2 DEF BuildMoves, BuildTypes
    <2>4. BuildOK(b)'
      BY <1>t, <2>1, <2>2 DEF BuildOK, BuildTypes
    <2>5. Quiet(b)
      BY <1>t, <2>1, <2>2 DEF BuildTypes
    <2> QED
      BY <1>q, <2>3, <2>4, <2>5, OthersWait
  <1>7. ASSUME NEW b \in Builds, Build!Passes(b) PROVE Goal
    <2>1. /\ buildAt[b] = "render" /\ buildLock = b /\ group[b] = {} /\ clean[b]
          /\ slot = Build!Artifact(b)
          /\ aside' = [aside EXCEPT ![b] = Build!Nothing]
          /\ buildAt' = [buildAt EXCEPT ![b] = "built"] /\ buildLock' = Build!NoBuild
          /\ UNCHANGED <<group, slot, placed, buildEdits, edited, clean, reads, found>>
      BY <1>7, <1>t DEF Build!Passes, Build!StillVouched, BuildOK
    <2>2. BuildMoves(b)
      BY <1>t, <2>1, BuildSlots DEF BuildMoves, BuildTypes
    <2>3. BuildOK(b)'
      BY <1>t, <2>1 DEF BuildOK, BuildTypes, Build!BuildAssumption
    <2>4. Build!StepUndone /\ Build!StepBuilt
      BY <1>t, <2>1 DEF Build!StepUndone, Build!StepBuilt, BuildTypes
    <2> QED
      BY <2>2, <2>3, <2>4, OthersWait
  <1>8. ASSUME NEW b \in Builds, Build!Fails(b) PROVE Goal
    <2>1. /\ buildAt[b] = "render" /\ buildLock = b /\ group[b] = {}
          /\ slot' = IF slot = placed[b] THEN aside[b] ELSE slot
          /\ aside' = [aside EXCEPT ![b] = Build!Nothing]
          /\ buildAt' = [buildAt EXCEPT ![b] = "refused"] /\ buildLock' = Build!NoBuild
          /\ UNCHANGED <<group, placed, buildEdits, edited, clean, reads, found>>
      BY <1>8, <1>t DEF Build!Fails, Build!Undo, Build!StillOurs, BuildOK
    <2>2. BuildMoves(b)
      BY <1>t, <2>1, BuildSlots DEF BuildMoves, BuildTypes
    <2>3. BuildOK(b)'
      BY <1>t, <2>1 DEF BuildOK, BuildTypes, Build!BuildAssumption
    <2>4. slot' = IF edited[b] THEN slot ELSE found[b]
      BY <1>t, <2>1 DEF BuildOK, BuildTypes
    <2>5. \A c \in Builds : c # b => buildAt'[c] = buildAt[c]
      BY <1>t, <2>1 DEF BuildTypes
    <2>6. Build!StepUndone /\ Build!StepBuilt
      BY <1>t, <2>1, <2>4, <2>5 DEF Build!StepUndone, Build!StepBuilt, BuildTypes
    <2> QED
      BY <2>2, <2>3, <2>6, OthersWait
  <1>9. CASE Build!Edit
    <2>1. /\ UNCHANGED <<buildAt, buildLock, group, aside, placed, clean, reads, found>>
          /\ buildEdits' = buildEdits + 1 /\ edited' = [b \in Builds |-> TRUE]
          /\ slot' \in {Build!Authored(buildEdits + 1), Build!Nothing, Build!Directory}
      BY <1>9 DEF Build!Edit
    <2>2. /\ slot' \in Slots /\ buildEdits' \in Nat
          /\ \A b \in Builds : slot' # Build!Artifact(b)
      BY <1>t, <2>1, BuildSlots DEF BuildTypes
    <2>3. BuildTypes'
      BY <1>t, <2>1, <2>2 DEF BuildTypes
    <2>4. ASSUME NEW b \in Builds PROVE BuildOK(b)'
      BY <1>t, <2>1, <2>2 DEF BuildOK
    <2>5. Build!StepUndone /\ Build!StepBuilt
      BY <1>r, <2>1
    <2> QED
      BY <2>3, <2>4, <2>5 DEF BuildInv
  <1>10. CASE Build!Crash
    <2>1. /\ buildLock # Build!NoBuild /\ buildLock' = Build!NoBuild
          /\ buildAt' = [b \in Builds |-> IF buildAt[b] = "new" THEN "new"
                                          ELSE IF b = buildLock THEN "died" ELSE buildAt[b]]
          /\ group' = [b \in Builds |-> {}]
          /\ UNCHANGED <<slot, aside, placed, buildEdits, edited, clean, reads, found>>
      BY <1>10 DEF Build!Crash
    <2>2. BuildTypes'
      BY <1>t, <2>1 DEF BuildTypes
    <2>3. ASSUME NEW b \in Builds PROVE BuildOK(b)'
      BY <1>t, <2>1 DEF BuildOK, BuildTypes, Build!BuildAssumption
    <2>4. Build!StepUndone /\ Build!StepBuilt
      BY <1>t, <2>1 DEF Build!StepUndone, Build!StepBuilt
    <2> QED
      BY <2>2, <2>3, <2>4 DEF BuildInv
  <1>11. CASE UNCHANGED Build!vars
    <2>1. BuildInv'
      BY <1>11, <1>t DEF Build!vars, BuildInv, BuildTypes, BuildOK
    <2> QED
      BY <2>1, <1>11, <1>r DEF Build!vars
  <1> QED
    BY <1>1, <1>2, <1>3, <1>4, <1>5, <1>6, <1>7, <1>8, <1>9, <1>10, <1>11
       DEF Build!Next, Build!Step
LEMMA BuildScene ==
    ASSUME [Next]_all, scene' = "build"
    PROVE  scene = "build" /\ [Build!Next]_Build!vars
  BY DEF Next, all, state, Build!vars

LEMMA BuildInvariance == Spec => [](scene = "build" => BuildInv)
  <1> DEFINE Inv == scene = "build" => BuildInv
  <1>1. Init => Inv
    BY BuildInitially, BundleAssumption DEF Init
  <1>2. Inv /\ [Next]_all => Inv'
    BY BuildScene, BuildStep, BundleAssumption
  <1> QED
    BY <1>1, <1>2, PTL DEF Spec

(* Whatever timed out, was cancelled or left a child behind, one build at a *)
(* time works in the bundle, and it replaces none of its sources            *)
(* (lesson_build._build_locked).                                            *)
THEOREM BuildsAlone == Spec => []OneBuildAtATime
  <1>1. (scene = "build" => BuildInv) => OneBuildAtATime
    BY DEF BuildInv, BuildOK, OneBuildAtATime, Build!OneBuildAtATime, Build!OneBuildWorks,
           Build!SourceStays
  <1> QED
    BY <1>1, BuildInvariance, PTL

(* A build that failed its check undoes itself exactly, whatever the agent  *)
(* did meanwhile, and "built" is said of a clean page that is there         *)
(* (lesson_build._build_locked).                                            *)
THEOREM BuildsEndTrue == Spec => BuildEndsTrue
  <1>1. (scene = "build" => BuildInv) /\ [Next]_all
          => [scene = "build" => Build!StepUndone /\ Build!StepBuilt]_all
    <2>1. SUFFICES ASSUME scene = "build" => BuildInv, [Next]_all,
                          scene = "build", scene' = "build"
                   PROVE  Build!StepUndone /\ Build!StepBuilt
      BY DEF Next, all
    <2> QED
      BY <2>1, BuildScene, BuildStep, BundleAssumption
  <1> QED
    BY <1>1, BuildInvariance, PTL DEF Spec, BuildEndsTrue

-----------------------------------------------------------------------------
(* The editor's variables, as the scenes hold them.                         *)
saveAt     == v1
process    == v2
saveLock   == v3
file       == v4
ids        == v5
saveEdits  == v6
asked      == v7
opened     == v8
late       == v9
saveLedger == v10
stored     == v11
USE DEF saveAt, process, saveLock, file, ids, saveEdits, asked, opened, late, saveLedger,
        stored

-----------------------------------------------------------------------------
(* The editor of a lesson block.  Between its last look at the name and the *)
(* swap a save knows whether anyone wrote meanwhile; what it was asked is   *)
(* compared with what it has open, and only a save stages.                  *)

Askable == [kind : {"none", "save", "run"}, base : Contents \cup {Artifact!Absent},
            data : Contents \cup {Artifact!Absent}]
Held    == [data : Contents \cup {Artifact!Absent}, id : Nat]

ArtifactTypes ==
    /\ saveAt \in [Saves -> {"new", "reading", "read", "staged", "checked", "published",
                             "saved", "saved silently", "unchanged", "conflict", "refused",
                             "missing", "runs", "ran"}]
    /\ process \in [Saves -> Processes]
    /\ saveLock \in [Processes -> Saves \cup {Artifact!Nobody}]
    /\ file \in Held /\ ids \in Nat /\ file.id <= ids
    /\ asked \in [Saves -> Askable] /\ opened \in [Saves -> Held]
    /\ late \in [Saves -> BOOLEAN]
    /\ saveLedger \subseteq Contents /\ saveLedger \subseteq stored
    /\ saveEdits \in 0 .. MaxWrites

RequestOK(r) ==
    /\ saveAt[r] = "checked" /\ ~late[r] => file = opened[r]
    /\ saveAt[r] \in {"staged", "checked"} => asked[r].base = opened[r].data
    /\ saveAt[r] \in {"staged", "checked", "published"} => asked[r].kind = "save"
    /\ asked[r].kind = "save" => asked[r].data \in Contents
    /\ saveAt[r] = "runs" => asked[r].kind = "run" /\ asked[r].base = opened[r].data
    /\ saveAt[r] = "ran" => asked[r].data = asked[r].base
    /\ saveAt[r] = "published" => asked[r].data \in stored
    /\ saveLock[process[r]] = r => saveAt[r] # "new"

ArtifactInv == ArtifactTypes /\ \A r \in Saves : RequestOK(r)

(* Nobody has asked, and nothing holds the name.                            *)
LEMMA ArtifactsInitially ==
    ASSUME Artifact!ArtifactsAssumption, Artifact!Init
    PROVE  ArtifactInv
  <1>1. Artifact!NoFile \in Held /\ Artifact!NoFile.id = 0 /\ Artifact!Unasked \in Askable
    BY DEF Held, Askable, Artifact!NoFile, Artifact!Unasked
  <1>2. ArtifactTypes
    BY <1>1 DEF Artifact!Init, ArtifactTypes, Artifact!ArtifactsAssumption
  <1>3. ASSUME NEW r \in Saves PROVE RequestOK(r)
    BY <1>3, <1>2 DEF Artifact!Init, RequestOK, Artifact!ArtifactsAssumption,
                      Artifact!Unasked, ArtifactTypes
  <1> QED
    BY <1>2, <1>3 DEF ArtifactInv

(* What a step on behalf of one request leaves to the others: their place,  *)
(* what they asked and opened, and whether they have looked too early.      *)
RequestMoves(r) ==
    /\ \A q \in Saves : q # r =>
          /\ saveAt'[q] = saveAt[q] /\ asked'[q] = asked[q] /\ opened'[q] = opened[q]
          /\ saveAt[q] = "checked" => \/ late'[q]
                                      \/ late'[q] = late[q] /\ file' = file
    /\ stored \subseteq stored' /\ process' = process
    /\ \A p \in Processes : saveLock'[p] \in {r, saveLock[p], Artifact!Nobody}

(* A step that keeps its own request's part of the invariant keeps it all.  *)
LEMMA OtherRequests ==
    ASSUME Artifact!ArtifactsAssumption, ArtifactInv, NEW r \in Saves,
           RequestMoves(r), ArtifactTypes', RequestOK(r)'
    PROVE  ArtifactInv'
  <1>1. ASSUME NEW q \in Saves, q # r PROVE RequestOK(q)'
    <2>1. RequestOK(q) /\ process[q] \in Processes
      BY Zenon DEF ArtifactInv, ArtifactTypes
    <2>2. saveLock'[process'[q]] = q => saveLock[process[q]] = q
      BY <1>1, <2>1 DEF RequestMoves, Artifact!ArtifactsAssumption
    <2> QED
      BY <1>1, <2>1, <2>2 DEF RequestOK, RequestMoves
  <1> QED
    BY <1>1 DEF ArtifactInv

(* Every step keeps the invariant, and a save replaces its base.            *)
LEMMA ArtifactStep ==
    ASSUME Artifact!ArtifactsAssumption, ArtifactInv, [Artifact!Next]_Artifact!vars
    PROVE  ArtifactInv' /\ Artifact!ReplacesItsBase
  <1> DEFINE Goal == ArtifactInv' /\ Artifact!ReplacesItsBase
  <1>t. ArtifactTypes /\ \A r \in Saves : RequestOK(r)
    BY DEF ArtifactInv
  <1>q. ASSUME NEW r \in Saves, RequestMoves(r),
               saveAt[r] = "checked" /\ saveAt'[r] = "published" /\ ~late[r]
                      => file.data = asked[r].base
        PROVE  Artifact!ReplacesItsBase
    BY <1>q DEF Artifact!ReplacesItsBase, RequestMoves
  <1> USE DEF Artifact!Goto, Artifact!Stay, Artifact!Leave
  <1>1. ASSUME NEW r \in Saves, Artifact!Opens(r) PROVE Goal
    <2>1. /\ saveAt[r] = "new" /\ saveLock[process[r]] = Artifact!Nobody
          /\ \/ /\ saveLock' = [saveLock EXCEPT ![process[r]] = r]
                /\ \E a \in Artifact!Request : asked' = [asked EXCEPT ![r] = a]
                /\ opened' = [opened EXCEPT ![r] = file]
                /\ saveAt' = [saveAt EXCEPT ![r] = "reading"]
             \/ saveAt' = [saveAt EXCEPT ![r] = "refused"] /\ UNCHANGED <<saveLock, asked, opened>>
          /\ UNCHANGED <<file, ids, saveEdits, late, stored, process, saveLedger>>
      BY <1>1 DEF Artifact!Opens
    <2>2. Artifact!Request \subseteq Askable
          /\ \A a \in Artifact!Request : a.kind = "save" => a.data \in Contents
      BY DEF Artifact!Request, Askable
    <2>3. ArtifactTypes'
      <3>1. process[r] \in Processes
        BY Zenon, <1>t DEF ArtifactTypes
      <3>2. saveLock' \in [Processes -> Saves \cup {Artifact!Nobody}]
        BY ZenonT(60), <1>t, <2>1, <3>1 DEF ArtifactTypes
      <3>3. asked' \in [Saves -> Askable]
        BY ZenonT(60), <1>t, <2>1, <2>2 DEF ArtifactTypes
      <3>4. opened' \in [Saves -> Held]
        BY Zenon, <1>t, <2>1 DEF ArtifactTypes
      <3> QED
        BY Zenon, <1>t, <2>1, <3>2, <3>3, <3>4 DEF ArtifactTypes
    <2>4. RequestMoves(r)
      BY Zenon, <1>t, <2>1 DEF ArtifactTypes, RequestMoves
    <2>5. RequestOK(r)'
      BY ZenonT(60), <1>t, <2>1, <2>2 DEF ArtifactTypes, RequestOK, Artifact!ArtifactsAssumption
    <2> QED
      BY <1>q, <2>1, <2>3, <2>4, <2>5, OtherRequests
  <1>2. ASSUME NEW r \in Saves,
               Artifact!Reads(r) \/ Artifact!Compares(r) \/ Artifact!StageFails(r)
                  \/ Artifact!Snapshots(r)
        PROVE  Goal
    <2>1. PICK label \in {"read", "refused", "unchanged", "conflict", "staged", "missing",
                          "runs"} :
             /\ saveAt' = [saveAt EXCEPT ![r] = label]
             /\ label = "staged" => /\ asked[r].kind = "save"
                                    /\ asked[r].base = opened[r].data
             /\ label = "runs" => /\ asked[r].kind = "run"
                                  /\ asked[r].base = opened[r].data
      BY <1>2 DEF Artifact!Reads, Artifact!Compares, Artifact!StageFails,
                  Artifact!Snapshots, Artifact!BaseHolds
    <2>2. /\ saveLock' = saveLock \/ saveLock' = [saveLock EXCEPT ![process[r]] = Artifact!Nobody]
          /\ UNCHANGED <<file, ids, saveEdits, late, stored, process, asked, opened, saveLedger>>
          /\ saveAt[r] # "new"
      BY <1>2 DEF Artifact!Reads, Artifact!Compares, Artifact!StageFails,
                  Artifact!Snapshots
    <2>3. ArtifactTypes'
      BY Zenon, <1>t, <2>1, <2>2 DEF ArtifactTypes
    <2>4. RequestMoves(r)
      BY Zenon, <1>t, <2>1, <2>2 DEF ArtifactTypes, RequestMoves
    <2>5. RequestOK(r)'
      BY Zenon, <1>t, <2>1, <2>2 DEF ArtifactTypes, RequestOK
    <2>6. saveAt'[r] # "published"
      BY Zenon, <1>t, <2>1 DEF ArtifactTypes
    <2> QED
      BY <1>q, <2>3, <2>4, <2>5, <2>6, OtherRequests
  <1>3. ASSUME NEW r \in Saves, Artifact!LooksAgain(r) PROVE Goal
    <2>1. /\ saveAt[r] = "staged" /\ late' = [late EXCEPT ![r] = FALSE]
          /\ \/ /\ file = opened[r] /\ saveAt' = [saveAt EXCEPT ![r] = "checked"]
                /\ UNCHANGED saveLock
             \/ /\ saveAt' = [saveAt EXCEPT ![r] = "conflict"]
                /\ saveLock' = [saveLock EXCEPT ![process[r]] = Artifact!Nobody]
          /\ UNCHANGED <<process, file, ids, saveEdits, asked, opened, saveLedger, stored>>
      BY <1>3 DEF Artifact!LooksAgain, Artifact!NameMatches
    <2>3. ArtifactTypes'
      BY Zenon, <1>t, <2>1 DEF ArtifactTypes
    <2>4. RequestMoves(r)
      BY Zenon, <1>t, <2>1 DEF ArtifactTypes, RequestMoves
    <2>5. RequestOK(r)'
      BY Zenon, <1>t, <2>1 DEF ArtifactTypes, RequestOK
    <2> QED
      BY <1>q, <2>1, <2>3, <2>4, <2>5, OtherRequests
  <1>4. ASSUME NEW r \in Saves, Artifact!Publishes(r) PROVE Goal
    <2>1. /\ saveAt[r] = "checked" /\ asked[r].data \in Contents
          /\ saveAt' = [saveAt EXCEPT ![r] = "published"] /\ ids' = ids + 1
          /\ stored' = stored \cup {asked[r].data}
          /\ late' \in [Saves -> BOOLEAN]
          /\ \A q \in Saves : late'[q] <=> saveAt[q] = "checked"
          /\ file' = Artifact!NoFile \/ file' = [data |-> asked[r].data, id |-> ids + 1]
          /\ UNCHANGED <<process, saveLock, saveEdits, asked, opened, saveLedger>>
      BY Zenon, <1>4, <1>t DEF Artifact!Publishes, Artifact!Wrote, RequestOK
    <2>2. file' \in Held /\ ids' \in Nat /\ file'.id <= ids'
      <3>1. ids \in Nat /\ ids' = ids + 1
        BY Zenon, <1>t, <2>1 DEF ArtifactTypes
      <3>2. CASE file' = Artifact!NoFile
        BY <3>1, <3>2 DEF Held, Artifact!NoFile
      <3>3. ASSUME NEW data \in Contents \cup {Artifact!Absent},
                   file' = [data |-> data, id |-> ids + 1]
            PROVE  file' \in Held /\ file'.id <= ids'
        BY <3>1, <3>3 DEF Held
      <3> QED
        BY <2>1, <3>1, <3>2, <3>3
    <2>3. ArtifactTypes'
      BY Zenon, <1>t, <2>1, <2>2 DEF ArtifactTypes
    <2>4. RequestMoves(r)
      <3>1. \A q \in Saves : q # r => saveAt'[q] = saveAt[q]
        BY Zenon, <1>t, <2>1 DEF ArtifactTypes
      <3>2. /\ asked' = asked /\ opened' = opened /\ process' = process /\ saveLock' = saveLock
            /\ stored \subseteq stored'
        BY <2>1
      <3>3. \A p \in Processes : saveLock'[p] \in {r, saveLock[p], Artifact!Nobody}
        BY <3>2
      <3>4. \A q \in Saves : saveAt[q] = "checked" => late'[q]
        BY <2>1, Zenon
      <3> QED
        BY <3>1, <3>2, <3>3, <3>4, Zenon DEF RequestMoves
    <2>5. RequestOK(r)'
      BY Zenon, <1>t, <2>1 DEF ArtifactTypes, RequestOK
    <2>6. ~late[r] => file.data = asked[r].base
      BY <1>t, <2>1 DEF RequestOK
    <2> QED
      BY <1>q, <2>3, <2>4, <2>5, <2>6, OtherRequests
  <1>5. ASSUME NEW r \in Saves, Artifact!Answers(r) PROVE Goal
    <2>1. /\ saveAt[r] = "published" /\ asked[r].data \in Contents \cap stored
          /\ \E label \in {"saved", "saved silently", "refused"} :
                saveAt' = [saveAt EXCEPT ![r] = label]
          /\ saveLock' = [saveLock EXCEPT ![process[r]] = Artifact!Nobody]
          /\ saveLedger' = saveLedger \/ saveLedger' = saveLedger \cup {asked[r].data}
          /\ UNCHANGED <<file, ids, saveEdits, late, stored, process, asked, opened>>
      BY Zenon, <1>5, <1>t DEF Artifact!Answers, RequestOK
    <2>3. ArtifactTypes'
      BY Zenon, <1>t, <2>1 DEF ArtifactTypes
    <2>4. RequestMoves(r)
      BY Zenon, <1>t, <2>1 DEF ArtifactTypes, RequestMoves
    <2>5. RequestOK(r)'
      BY Zenon, <1>t, <2>1 DEF ArtifactTypes, RequestOK
    <2> QED
      BY Zenon, <1>q, <2>1, <2>3, <2>4, <2>5, OtherRequests
  <1>6. ASSUME NEW r \in Saves, Artifact!Starts(r) PROVE Goal
    <2>1. /\ saveAt[r] = "runs" /\ asked[r].base = opened[r].data
          /\ saveAt' = [saveAt EXCEPT ![r] = "ran"]
          /\ asked' = [asked EXCEPT ![r] = [asked[r] EXCEPT !.data = opened[r].data]]
          /\ UNCHANGED <<file, ids, saveEdits, late, stored, process, saveLock, opened, saveLedger>>
      BY <1>6, <1>t DEF Artifact!Starts, Artifact!Executed, RequestOK
    <2>2. /\ asked[r] \in Askable /\ opened[r] \in Held
          /\ opened[r].data = asked[r].base
      BY Zenon, <1>t, <2>1 DEF ArtifactTypes
    <2>3. /\ [asked[r] EXCEPT !.data = opened[r].data] \in Askable
          /\ [asked[r] EXCEPT !.data = opened[r].data].data = asked[r].base
          /\ [asked[r] EXCEPT !.data = opened[r].data].base = asked[r].base
          /\ [asked[r] EXCEPT !.data = opened[r].data].kind = asked[r].kind
      BY <2>2 DEF Askable, Held
    <2>4. ArtifactTypes'
      BY Zenon, <1>t, <2>1, <2>3 DEF ArtifactTypes
    <2>5. RequestMoves(r)
      BY Zenon, <1>t, <2>1 DEF ArtifactTypes, RequestMoves
    <2>6. RequestOK(r)'
      <3>1. saveAt'[r] = "ran" /\ asked'[r] = [asked[r] EXCEPT !.data = opened[r].data]
        BY Zenon, <1>t, <2>1 DEF ArtifactTypes
      <3>2. asked[r].kind = "save" => FALSE
        BY <1>t, <2>1 DEF RequestOK
      <3> QED
        BY Zenon, <1>t, <2>1, <2>3, <3>1, <3>2 DEF RequestOK
    <2> QED
      BY <1>q, <2>1, <2>4, <2>5, <2>6, OtherRequests
  <1>7. CASE Artifact!AgentWrites
    <2>1. /\ UNCHANGED <<saveAt, process, saveLock, asked, opened, saveLedger, stored>>
          /\ saveEdits < MaxWrites /\ saveEdits' = saveEdits + 1 /\ ids' = ids + 1
          /\ late' \in [Saves -> BOOLEAN]
          /\ \A q \in Saves : late'[q] <=> saveAt[q] = "checked"
          /\ \/ file' = Artifact!NoFile
             \/ \E data \in Contents \cup {Artifact!Absent} :
                   file' = [data |-> data, id |-> ids + 1]
      BY Zenon, <1>7 DEF Artifact!AgentWrites, Artifact!Wrote
    <2>2. file' \in Held /\ ids' \in Nat /\ file'.id <= ids'
      <3>1. ids \in Nat /\ ids' = ids + 1
        BY Zenon, <1>t, <2>1 DEF ArtifactTypes
      <3>2. CASE file' = Artifact!NoFile
        BY <3>1, <3>2 DEF Held, Artifact!NoFile
      <3>3. ASSUME NEW data \in Contents \cup {Artifact!Absent},
                   file' = [data |-> data, id |-> ids + 1]
            PROVE  file' \in Held /\ file'.id <= ids'
        BY <3>1, <3>3 DEF Held
      <3> QED
        BY <2>1, <3>1, <3>2, <3>3
    <2>3. ArtifactTypes'
      <3>1. saveEdits < MaxWrites /\ saveEdits' = saveEdits + 1
        BY <2>1
      <3>2. MaxWrites \in Nat
        BY DEF Artifact!ArtifactsAssumption
      <3>3. saveEdits \in 0 .. MaxWrites
        BY Zenon, <1>t DEF ArtifactTypes
      <3>4. saveEdits' \in 0 .. MaxWrites
        BY <3>1, <3>2, <3>3
      <3> QED
        BY Zenon, <1>t, <2>1, <2>2, <3>4 DEF ArtifactTypes
    <2>4. ASSUME NEW r \in Saves PROVE RequestOK(r)'
      BY Zenon, <1>t, <2>1 DEF ArtifactTypes, RequestOK
    <2>5. Artifact!ReplacesItsBase
      BY <2>1 DEF Artifact!ReplacesItsBase
    <2> QED
      BY <2>3, <2>4, <2>5 DEF ArtifactInv
  <1>8. CASE UNCHANGED Artifact!vars
    <2>1. ArtifactInv'
      BY Zenon, <1>8, <1>t DEF Artifact!vars, ArtifactInv, ArtifactTypes, RequestOK
    <2> QED
      BY <2>1, <1>8 DEF Artifact!vars, Artifact!ReplacesItsBase
  <1> QED
    BY <1>1, <1>2, <1>3, <1>4, <1>5, <1>6, <1>7, <1>8 DEF Artifact!Next
LEMMA ArtifactScene ==
    ASSUME [Next]_all, scene' = "artifacts"
    PROVE  scene = "artifacts" /\ [Artifact!Next]_Artifact!vars
  BY DEF Next, all, state, Artifact!vars

(* A save replaces what its author had in front of them, a run executes the *)
(* revision it names, and events tell of stored bytes (services/artifacts.py).*)
THEOREM ArtifactsHold == Spec => ArtifactsKeepTheirWord
  <1> DEFINE Inv == scene = "artifacts" => ArtifactInv
  <1>1. Init => Inv
    BY ArtifactsInitially, BundleAssumption DEF Init
  <1>2. Inv /\ [Next]_all => Inv'
    BY ArtifactScene, ArtifactStep, BundleAssumption
  <1>3. ArtifactInv => Artifact!TypeOK /\ Artifact!RunsAndEventsAreTrue
    <2>1. SUFFICES ASSUME ArtifactTypes, \A r \in Saves : RequestOK(r)
                   PROVE  Artifact!TypeOK /\ Artifact!RunsAndEventsAreTrue
      BY DEF ArtifactInv
    <2>2. file.data \in Contents \cup {Artifact!Absent} /\ file.id \in 0 .. ids
      <3>1. file \in Held /\ ids \in Nat /\ file.id <= ids
        BY Zenon, <2>1 DEF ArtifactTypes
      <3>2. file.data \in Contents \cup {Artifact!Absent} /\ file.id \in Nat
        BY <3>1 DEF Held
      <3> QED
        BY <3>1, <3>2
    <2>3. Artifact!TypeOK
      BY Zenon, <2>1, <2>2 DEF ArtifactTypes, RequestOK, Artifact!TypeOK, Askable
    <2> QED
      BY Zenon, <2>1, <2>3 DEF ArtifactTypes, RequestOK, Artifact!RunsAndEventsAreTrue
  <1>4. Inv /\ [Next]_all => [scene = "artifacts" => Artifact!StepKeepsWord]_all
    <2>1. SUFFICES ASSUME Inv, [Next]_all, scene = "artifacts", scene' = "artifacts"
                   PROVE  Artifact!StepKeepsWord
      BY DEF Next, all
    <2>2. ArtifactInv' /\ Artifact!ReplacesItsBase
      BY <2>1, ArtifactScene, ArtifactStep, BundleAssumption
    <2>3. (Artifact!TypeOK /\ Artifact!RunsAndEventsAreTrue)'
      BY <2>2, <1>3, PTL
    <2> QED
      BY <2>2, <2>3 DEF Artifact!StepKeepsWord
  <1> QED
    BY <1>1, <1>2, <1>4, PTL DEF Spec, ArtifactsKeepTheirWord

-----------------------------------------------------------------------------
(* The workspace of a bundle, and its variables as the scenes hold them.    *)
(* A repository under way keeps its marker for last, so one that looks      *)
(* ready is; and a link that an answered open stands on is taken away only  *)
(* by an open that is about to place it again.                              *)
repo      == v1
link      == v2
kept      == v3
openAt    == v4
saw       == v5
disturbed == v6
meddling  == v7
waived    == v8
USE DEF repo, link, kept, openAt, saw, disturbed, meddling, waived

Stages == {"new", "stage", "repair", "identity", "fill", "rules", "link", "clear", "symlink",
           "opened", "refused"}

RepoOK ==
    /\ repo \notin {Workspace!NoRepo, Workspace!Authored} => Workspace!IsRepo /\ "head" \in repo
    /\ "rules" \in repo => "identity" \in repo \/ waived

OpenOK(o) ==
    /\ openAt[o] \in {"repair", "identity", "fill", "rules"} => Workspace!IsRepo
    /\ openAt[o] = "rules" => "identity" \in repo \/ waived
    /\ disturbed[o] \/
         /\ openAt[o] = "stage" => repo = Workspace!NoRepo \/ Workspace!Ready
         /\ openAt[o] \in {"identity", "fill", "rules"} => "dirs" \in repo
         /\ openAt[o] \in {"link", "clear", "symlink", "opened"} =>
               repo = Workspace!Authored \/ Workspace!Ready

LinkHeld ==
    (\E o \in Prepares : openAt[o] = "opened" /\ ~disturbed[o]) =>
        \/ link = Workspace!Ours
        \/ link = Workspace!Free /\ \E o \in Prepares : openAt[o] = "symlink"

WorkspaceInv ==
    /\ openAt \in [Prepares -> Stages] /\ disturbed \in [Prepares -> BOOLEAN]
    /\ waived \in BOOLEAN
    /\ RepoOK /\ LinkHeld /\ \A o \in Prepares : OpenOK(o)

(* Nothing has been opened yet.                                             *)
LEMMA WorkspaceInitially == Workspace!Init => WorkspaceInv
  <1>1. SUFFICES ASSUME Workspace!Init PROVE WorkspaceInv
    OBVIOUS
  <1>2. RepoOK
    <2>1. CASE repo \in {Workspace!NoRepo, Workspace!Authored}
      BY Zenon, <2>1 DEF RepoOK, Workspace!NoRepo, Workspace!Authored
    <2>2. CASE repo \in {Workspace!Parts, Workspace!Parts \ {"dirs"}}
      BY <2>2 DEF RepoOK, Workspace!IsRepo, Workspace!Parts
    <2>3. CASE repo = {"head", "dirs", "config"}
      BY <2>3 DEF RepoOK, Workspace!IsRepo, Workspace!Parts
    <2> QED
      BY <1>1, <2>1, <2>2, <2>3 DEF Workspace!Init, Workspace!Finished
  <1>3. \A o \in Prepares : openAt[o] = "new" /\ ~disturbed[o]
    BY <1>1 DEF Workspace!Init
  <1>4. LinkHeld /\ \A o \in Prepares : OpenOK(o)
    BY <1>3 DEF LinkHeld, OpenOK
  <1> QED
    BY <1>1, <1>2, <1>4 DEF Workspace!Init, WorkspaceInv, Stages

(* More parts leave a repository a repository, and a ready one ready.       *)
LEMMA AlsoUsable ==
    ASSUME Workspace!IsRepo, NEW parts \in SUBSET Workspace!Parts, repo' = repo \cup parts
    PROVE  /\ Workspace!IsRepo' /\ repo # Workspace!NoRepo /\ repo # Workspace!Authored
           /\ Workspace!Ready => Workspace!Ready'
           /\ \A part : part \in repo => part \in repo'
  BY Zenon DEF Workspace!IsRepo, Workspace!Ready, Workspace!Parts, Workspace!NoRepo, Workspace!Authored

(* Every step keeps the invariant, and keeps what was installed.            *)
LEMMA WorkspaceStep ==
    ASSUME WorkspaceInv, [Workspace!Next]_Workspace!vars
    PROVE  WorkspaceInv' /\ Workspace!StepContent
  <1> DEFINE Goal == WorkspaceInv' /\ Workspace!StepContent
  <1>t. /\ openAt \in [Prepares -> Stages] /\ disturbed \in [Prepares -> BOOLEAN]
        /\ waived \in BOOLEAN
        /\ RepoOK /\ LinkHeld /\ \A o \in Prepares : OpenOK(o)
    BY DEF WorkspaceInv
  <1>1. ASSUME NEW o \in Prepares, Workspace!Begins(o) PROVE Goal
    <2>1. /\ openAt[o] = "new" /\ UNCHANGED <<repo, link, kept, waived>>
          /\ disturbed' = [disturbed EXCEPT ![o] = FALSE]
          /\ openAt' = [openAt EXCEPT ![o] =
                IF repo = Workspace!NoRepo THEN "stage"
                ELSE IF Workspace!IsRepo /\ ~Workspace!Ready THEN "repair" ELSE "link"]
      BY Zenon, <1>1 DEF Workspace!Begins, Workspace!Goto, Workspace!IsRepo, Workspace!NoRepo,
                  Workspace!Parts
    <2>2. OpenOK(o)'
      BY <1>t, <2>1 DEF OpenOK, RepoOK, Workspace!IsRepo, Workspace!Ready
    <2>3. ASSUME NEW p \in Prepares, p # o PROVE OpenOK(p)'
      BY <1>t, <2>1, <2>3 DEF OpenOK, Workspace!IsRepo, Workspace!Ready
    <2>4. LinkHeld'
      BY <1>t, <2>1 DEF LinkHeld
    <2> QED
      BY <1>t, <2>1, <2>2, <2>3, <2>4
      DEF WorkspaceInv, Stages, RepoOK, Workspace!IsRepo, Workspace!StepContent
  <1>2. ASSUME NEW o \in Prepares, Workspace!Installs(o) PROVE Goal
    <2>1. /\ openAt[o] = "stage" /\ UNCHANGED <<link, kept, disturbed, waived>>
          /\ openAt' = [openAt EXCEPT ![o] = "link"]
          /\ IF repo = Workspace!NoRepo THEN repo' = Workspace!Finished ELSE repo' = repo
      BY <1>2 DEF Workspace!Installs, Workspace!Goto, Workspace!Arrives
    <2>2. RepoOK'
      BY <1>t, <2>1 DEF RepoOK, Workspace!IsRepo, Workspace!Finished, Workspace!Parts
    <2>3. ASSUME NEW p \in Prepares PROVE OpenOK(p)'
      BY <1>t, <2>1 DEF OpenOK, Workspace!IsRepo, Workspace!Ready, Workspace!Finished,
                        Workspace!Parts, Workspace!NoRepo
    <2>4. LinkHeld'
      BY <1>t, <2>1 DEF LinkHeld
    <2> QED
      BY <1>t, <2>1, <2>2, <2>3, <2>4 DEF WorkspaceInv, Stages, Workspace!StepContent
  <1>3. ASSUME NEW o \in Prepares, Workspace!InstallFails(o) \/ Workspace!RepairFails(o)
        PROVE  Goal
    <2>1. /\ openAt[o] \in {"stage", "repair", "identity", "fill", "rules"}
          /\ UNCHANGED <<repo, link, kept, waived>>
          /\ openAt' = [openAt EXCEPT ![o] = "link"]
          /\ disturbed' = [disturbed EXCEPT ![o] = TRUE]
      BY <1>3 DEF Workspace!InstallFails, Workspace!RepairFails, Workspace!Goto
    <2>2. ASSUME NEW p \in Prepares PROVE OpenOK(p)'
      BY <1>t, <2>1 DEF OpenOK, Workspace!IsRepo, Workspace!Ready
    <2>3. LinkHeld'
      BY <1>t, <2>1 DEF LinkHeld
    <2> QED
      BY <1>t, <2>1, <2>2, <2>3
      DEF WorkspaceInv, Stages, RepoOK, Workspace!IsRepo, Workspace!StepContent
  <1>h. ASSUME NEW o \in Prepares, openAt[o] \in {"repair", "identity", "fill", "rules"}
        PROVE  Workspace!HasHead
    BY Zenon, <1>t, <1>h DEF OpenOK, RepoOK, Workspace!HasHead, Workspace!IsRepo, Workspace!NoRepo,
                      Workspace!Authored, Workspace!Parts
  <1>4. ASSUME NEW o \in Prepares, Workspace!MakesDirs(o) PROVE Goal
    <2>1. Workspace!IsRepo /\ "head" \in repo /\ openAt[o] = "repair"
      BY <1>4, <1>h DEF Workspace!MakesDirs, Workspace!Repairing, Workspace!HasHead
    <2>2. /\ repo' = repo \cup {"dirs"} /\ openAt' = [openAt EXCEPT ![o] = "identity"]
          /\ UNCHANGED <<link, kept, disturbed, waived>>
      BY <1>4, <2>1 DEF Workspace!MakesDirs, Workspace!Repairing, Workspace!HasHead, Workspace!Goto
    <2>3. RepoOK'
      BY <1>t, <2>1, <2>2 DEF RepoOK, Workspace!IsRepo, Workspace!Parts
    <2>u. /\ Workspace!IsRepo' /\ repo # Workspace!NoRepo /\ repo # Workspace!Authored
          /\ Workspace!Ready => Workspace!Ready'
          /\ \A part : part \in repo => part \in repo'
      <3>1. {"dirs"} \in SUBSET Workspace!Parts
        BY DEF Workspace!Parts
      <3> QED
        BY <2>1, <2>2, <3>1, AlsoUsable
    <2>4. ASSUME NEW p \in Prepares PROVE OpenOK(p)'
      BY <1>t, <2>1, <2>2, <2>u DEF OpenOK
    <2>5. LinkHeld'
      BY <1>t, <2>1, <2>2 DEF LinkHeld
    <2> QED
      BY <1>t, <2>2, <2>3, <2>4, <2>5 DEF WorkspaceInv, Stages, Workspace!StepContent
  <1>look. ASSUME NEW o \in Prepares, Workspace!LooksAtConfig(o) PROVE Goal
    <2>1. /\ openAt[o] = "identity" /\ UNCHANGED <<repo, link, kept, disturbed>>
          /\ waived' = (waived \/ "config" \notin repo)
          /\ \/ openAt' = [openAt EXCEPT ![o] = "fill"]
             \/ /\ openAt' = [openAt EXCEPT ![o] = "rules"]
                /\ "config" \notin repo \/ "identity" \in repo
      BY <1>look DEF Workspace!LooksAtConfig, Workspace!Repairing, Workspace!Goto
    <2>2. RepoOK' /\ waived' \in BOOLEAN
      BY <1>t, <2>1 DEF RepoOK, Workspace!IsRepo
    <2>3. ASSUME NEW p \in Prepares PROVE OpenOK(p)'
      BY <1>t, <2>1 DEF OpenOK, Workspace!IsRepo, Workspace!Ready
    <2>4. LinkHeld'
      BY <1>t, <2>1 DEF LinkHeld
    <2> QED
      BY <1>t, <2>1, <2>2, <2>3, <2>4 DEF WorkspaceInv, Stages, Workspace!StepContent
  <1>fill. ASSUME NEW o \in Prepares, Workspace!FillsIdentity(o) PROVE Goal
    <2>1. Workspace!IsRepo /\ "head" \in repo /\ openAt[o] = "fill"
      BY <1>fill, <1>h DEF Workspace!FillsIdentity, Workspace!Repairing, Workspace!HasHead
    <2>2. /\ repo' = repo \cup {"config", "identity"}
          /\ openAt' = [openAt EXCEPT ![o] = "rules"]
          /\ UNCHANGED <<link, kept, disturbed, waived>>
      BY <1>fill DEF Workspace!FillsIdentity, Workspace!Repairing, Workspace!Goto
    <2>3. RepoOK'
      BY <1>t, <2>1, <2>2 DEF RepoOK, Workspace!IsRepo, Workspace!Parts
    <2>u. /\ Workspace!IsRepo' /\ repo # Workspace!NoRepo /\ repo # Workspace!Authored
          /\ Workspace!Ready => Workspace!Ready'
          /\ \A part : part \in repo => part \in repo'
      <3>1. {"config", "identity"} \in SUBSET Workspace!Parts
        BY DEF Workspace!Parts
      <3> QED
        BY <2>1, <2>2, <3>1, AlsoUsable
    <2>4. ASSUME NEW p \in Prepares PROVE OpenOK(p)'
      BY <1>t, <2>1, <2>2, <2>u DEF OpenOK
    <2>5. LinkHeld'
      BY <1>t, <2>1, <2>2 DEF LinkHeld
    <2> QED
      BY <1>t, <2>2, <2>3, <2>4, <2>5 DEF WorkspaceInv, Stages, Workspace!StepContent
  <1>rules. ASSUME NEW o \in Prepares, Workspace!WritesRules(o) PROVE Goal
    <2>1. Workspace!IsRepo /\ "head" \in repo /\ openAt[o] = "rules"
      BY <1>rules, <1>h DEF Workspace!WritesRules, Workspace!Repairing, Workspace!HasHead
    <2>2. /\ repo' = repo \cup {"rules"} /\ openAt' = [openAt EXCEPT ![o] = "link"]
          /\ UNCHANGED <<link, kept, disturbed, waived>>
      BY <1>rules DEF Workspace!WritesRules, Workspace!Repairing, Workspace!Goto
    <2>3. RepoOK'
      BY <1>t, <2>1, <2>2 DEF RepoOK, OpenOK, Workspace!IsRepo, Workspace!Parts
    <2>u. /\ Workspace!IsRepo' /\ repo # Workspace!NoRepo /\ repo # Workspace!Authored
          /\ Workspace!Ready => Workspace!Ready'
          /\ \A part : part \in repo => part \in repo'
      <3>1. {"rules"} \in SUBSET Workspace!Parts
        BY DEF Workspace!Parts
      <3> QED
        BY <2>1, <2>2, <3>1, AlsoUsable
    <2>4. disturbed[o] \/ Workspace!Ready'
      BY <1>t, <2>1, <2>2, <2>u DEF OpenOK, Workspace!Ready
    <2>5. ASSUME NEW p \in Prepares PROVE OpenOK(p)'
      BY <1>t, <2>1, <2>2, <2>u, <2>4 DEF OpenOK
    <2>6. LinkHeld'
      BY <1>t, <2>1, <2>2 DEF LinkHeld
    <2> QED
      BY <1>t, <2>2, <2>3, <2>5, <2>6 DEF WorkspaceInv, Stages, Workspace!StepContent
  <1>5. ASSUME NEW o \in Prepares, Workspace!LooksAtLink(o) \/ Workspace!ClearFails(o)
        PROVE  Goal
    <2>1. /\ openAt[o] \in {"link", "clear"} /\ UNCHANGED <<repo, link, kept, disturbed, waived>>
          /\ \E new \in {"opened", "symlink", "clear", "refused"} :
                /\ openAt' = [openAt EXCEPT ![o] = new]
                /\ new = "opened" => link = Workspace!Ours
      BY <1>5 DEF Workspace!LooksAtLink, Workspace!ClearFails, Workspace!Goto,
                  Workspace!Ours, Workspace!Free
    <2>2. ASSUME NEW p \in Prepares PROVE OpenOK(p)'
      BY <1>t, <2>1 DEF OpenOK, Workspace!IsRepo, Workspace!Ready
    <2>3. LinkHeld'
      BY <1>t, <2>1 DEF LinkHeld
    <2> QED
      BY <1>t, <2>1, <2>2, <2>3
      DEF WorkspaceInv, Stages, RepoOK, Workspace!IsRepo, Workspace!StepContent
  <1>6. ASSUME NEW o \in Prepares, Workspace!Clears(o) PROVE Goal
    <2>1. /\ openAt[o] = "clear" /\ UNCHANGED <<repo, disturbed, waived>>
          /\ openAt' = [openAt EXCEPT ![o] = "symlink"]
          /\ link' = Workspace!Free /\ Workspace!StepContent
      BY Zenon, <1>6 DEF Workspace!Clears, Workspace!Removes, Workspace!MovesAside, Workspace!Goto,
                  Workspace!StepContent, Workspace!Empty, Workspace!Learner
    <2>2. ASSUME NEW p \in Prepares PROVE OpenOK(p)'
      BY <1>t, <2>1 DEF OpenOK, Workspace!IsRepo, Workspace!Ready
    <2>3. LinkHeld'
      BY <1>t, <2>1 DEF LinkHeld
    <2> QED
      BY <1>t, <2>1, <2>2, <2>3 DEF WorkspaceInv, Stages, RepoOK, Workspace!IsRepo
  <1>7. ASSUME NEW o \in Prepares, Workspace!Links(o) PROVE Goal
    <2>1. /\ openAt[o] = "symlink" /\ UNCHANGED <<repo, kept, disturbed, waived>>
          /\ \/ /\ link' = Workspace!Ours /\ link \in {Workspace!Free, Workspace!Ours}
                /\ openAt' = [openAt EXCEPT ![o] = "opened"]
             \/ /\ link' = link /\ link \notin {Workspace!Free, Workspace!Ours}
                /\ openAt' = [openAt EXCEPT ![o] = "refused"]
      BY <1>7 DEF Workspace!Links, Workspace!WinnersOwn, Workspace!Goto
    <2>2. ASSUME NEW p \in Prepares PROVE OpenOK(p)'
      BY <1>t, <2>1 DEF OpenOK, Workspace!IsRepo, Workspace!Ready
    <2>3. LinkHeld'
      BY <1>t, <2>1 DEF LinkHeld
    <2> QED
      BY <1>t, <2>1, <2>2, <2>3
      DEF WorkspaceInv, Stages, RepoOK, Workspace!IsRepo, Workspace!StepContent,
          Workspace!Free, Workspace!Ours, Workspace!Learner
  <1>linkFails. ASSUME NEW o \in Prepares, Workspace!LinkFails(o) PROVE Goal
    <2>1. /\ openAt[o] \in {"link", "clear", "symlink"} /\ UNCHANGED <<repo, link, kept, waived>>
          /\ openAt' = [openAt EXCEPT ![o] = "refused"]
          /\ disturbed' = [p \in Prepares |-> disturbed[p] \/ openAt[o] = "symlink"]
      BY <1>linkFails DEF Workspace!LinkFails, Workspace!Goto
    <2>2. ASSUME NEW p \in Prepares PROVE OpenOK(p)'
      BY <1>t, <2>1 DEF OpenOK, Workspace!IsRepo, Workspace!Ready
    <2>3. LinkHeld'
      BY <1>t, <2>1 DEF LinkHeld
    <2> QED
      BY <1>t, <2>1, <2>2, <2>3
      DEF WorkspaceInv, Stages, RepoOK, Workspace!IsRepo, Workspace!StepContent
  <1>8. ASSUME Workspace!GitInit \/ Workspace!Restored PROVE Goal
    <2>1. /\ UNCHANGED openAt /\ disturbed' = [o \in Prepares |-> TRUE]
          /\ \/ /\ repo = Workspace!NoRepo /\ repo' = {"head", "dirs", "config"} /\ link' = link
             \/ /\ repo' = IF Workspace!IsRepo THEN repo \ {"dirs"} ELSE repo
                /\ link = Workspace!Learner => link' = link
          /\ UNCHANGED <<kept, waived>>
      BY Zenon, <1>8 DEF Workspace!GitInit, Workspace!Restored, Workspace!Disturb, Workspace!Ours,
                  Workspace!Empty, Workspace!Learner
    <2>2. RepoOK'
      <3>1. CASE repo' = {"head", "dirs", "config"}
        BY <3>1 DEF RepoOK, Workspace!IsRepo, Workspace!Parts
      <3>2. CASE ~Workspace!IsRepo /\ repo' = repo
        BY <1>t, <2>1, <3>2 DEF RepoOK, Workspace!IsRepo
      <3>3. CASE Workspace!IsRepo /\ repo' = repo \ {"dirs"}
        <4>1. "head" \in repo
          BY Zenon, <1>t, <3>3 DEF RepoOK, Workspace!IsRepo, Workspace!Parts, Workspace!NoRepo,
                            Workspace!Authored
        <4> QED
          BY <1>t, <2>1, <3>3, <4>1 DEF RepoOK, Workspace!IsRepo
      <3> QED
        BY <2>1, <3>1, <3>2, <3>3
    <2>3. ASSUME NEW p \in Prepares PROVE OpenOK(p)'
      BY <1>t, <2>1 DEF OpenOK, Workspace!IsRepo, Workspace!NoRepo, Workspace!Parts
    <2>4. LinkHeld'
      BY <2>1 DEF LinkHeld
    <2> QED
      BY <1>t, <2>1, <2>2, <2>3, <2>4 DEF WorkspaceInv, Workspace!StepContent
  <1>config. ASSUME Workspace!ConfigEdited PROVE Goal
    <2>1. /\ Workspace!IsRepo /\ UNCHANGED <<link, kept, openAt, disturbed>>
          /\ waived' = (waived \/ "rules" \in repo \/ \E o \in Prepares : openAt[o] = "rules")
          /\ \E left \in SUBSET {"config", "identity"} :
                repo' = (repo \ {"config", "identity"}) \cup left
      BY <1>config DEF Workspace!ConfigEdited
    <2>2. /\ Workspace!IsRepo' /\ waived' \in BOOLEAN
          /\ \A part \in {"head", "dirs", "rules"} : part \in repo' <=> part \in repo
      BY <1>t, <2>1 DEF Workspace!IsRepo, Workspace!Parts
    <2>3. "head" \in repo /\ repo # Workspace!NoRepo /\ repo # Workspace!Authored
      BY Zenon, <1>t, <2>1 DEF RepoOK, Workspace!IsRepo, Workspace!Parts, Workspace!NoRepo,
                        Workspace!Authored
    <2>4. RepoOK'
      BY <1>t, <2>1, <2>2, <2>3 DEF RepoOK
    <2>5. Workspace!Ready' <=> Workspace!Ready
      BY <2>1, <2>2 DEF Workspace!Ready
    <2>6. ASSUME NEW p \in Prepares PROVE OpenOK(p)'
      BY <1>t, <2>1, <2>2, <2>3, <2>5 DEF OpenOK
    <2>7. LinkHeld'
      BY <1>t, <2>1 DEF LinkHeld
    <2> QED
      BY <1>t, <2>1, <2>2, <2>4, <2>6, <2>7 DEF WorkspaceInv, Workspace!StepContent
  <1>9. ASSUME Workspace!Installed PROVE Goal
    <2>1. /\ link # Workspace!Learner /\ UNCHANGED <<repo, kept, openAt, waived>>
          /\ disturbed' = [o \in Prepares |-> disturbed[o] \/ openAt[o] = "opened"]
      BY Zenon, <1>9 DEF Workspace!Installed, Workspace!Free, Workspace!Empty, Workspace!Learner
    <2>2. ASSUME NEW p \in Prepares PROVE OpenOK(p)'
      BY <1>t, <2>1 DEF OpenOK, Workspace!IsRepo, Workspace!Ready
    <2>3. LinkHeld'
      BY Zenon, <2>1 DEF LinkHeld
    <2> QED
      BY <1>t, <2>1, <2>2, <2>3
      DEF WorkspaceInv, RepoOK, Workspace!IsRepo, Workspace!StepContent
  <1>10. ASSUME Workspace!Crash PROVE Goal
    <2>1. /\ disturbed' = [o \in Prepares |-> TRUE] /\ UNCHANGED <<repo, link, kept, waived>>
          /\ openAt' = [o \in Prepares |-> IF openAt[o] \in {"new", "opened", "refused"}
                                         THEN openAt[o] ELSE "refused"]
      BY <1>10 DEF Workspace!Crash, Workspace!Disturb
    <2>2. ASSUME NEW p \in Prepares PROVE OpenOK(p)'
      BY <1>t, <2>1 DEF OpenOK
    <2>3. LinkHeld'
      BY <2>1 DEF LinkHeld
    <2> QED
      BY <1>t, <2>1, <2>2, <2>3
      DEF WorkspaceInv, Stages, RepoOK, Workspace!IsRepo, Workspace!StepContent
  <1>11. CASE UNCHANGED Workspace!vars
    BY <1>t, <1>11 DEF WorkspaceInv, Workspace!vars, RepoOK, LinkHeld, OpenOK, Workspace!IsRepo,
                  Workspace!Ready, Workspace!StepContent
  <1> QED
    BY <1>1, <1>2, <1>3, <1>4, <1>look, <1>fill, <1>rules, <1>5, <1>6, <1>7, <1>linkFails, <1>8,
       <1>config, <1>9, <1>10, <1>11
    DEF Workspace!Next, Workspace!Repairs

LEMMA WorkspaceScene ==
    ASSUME [Next]_all, scene' = "workspace"
    PROVE  scene = "workspace" /\ [Workspace!Next]_Workspace!vars
  BY DEF Next, all, state, Workspace!vars

(* An answered open stands on a usable repository and on the link, and what *)
(* was installed at the link's name is kept, for any number of opens and    *)
(* whatever disturbs them (services/lesson_bundle.py).                      *)
THEOREM WorkspacesHold == Spec => WorkspaceHolds
  <1> DEFINE Inv == scene = "workspace" => WorkspaceInv
  <1>1. Init => Inv
    BY WorkspaceInitially DEF Init
  <1>2. Inv /\ [Next]_all => Inv'
    BY WorkspaceScene, WorkspaceStep
  <1>3. WorkspaceInv => Workspace!RepositoryUsable /\ Workspace!LinkBeforeShell
    BY Zenon DEF WorkspaceInv, RepoOK, OpenOK, LinkHeld, Workspace!RepositoryUsable,
           Workspace!LinkBeforeShell, Workspace!Ready, Workspace!IsRepo, Workspace!Finished,
           Workspace!Parts, Workspace!NoRepo, Workspace!Authored
  <1>4. Inv /\ [Next]_all
          => [scene = "workspace" =>
                /\ Workspace!StepContent
                /\ (Workspace!RepositoryUsable /\ Workspace!LinkBeforeShell)']_all
    <2>1. SUFFICES ASSUME Inv, [Next]_all, scene = "workspace", scene' = "workspace"
                   PROVE  /\ Workspace!StepContent
                          /\ (Workspace!RepositoryUsable /\ Workspace!LinkBeforeShell)'
      BY DEF Next, all
    <2>2. WorkspaceInv' /\ Workspace!StepContent
      BY <2>1, WorkspaceScene, WorkspaceStep
    <2> QED
      BY <2>2, <1>3, PTL
  <1> QED
    BY <1>1, <1>2, <1>4, PTL DEF Spec, WorkspaceHolds

-----------------------------------------------------------------------------
(* The check of a page, and its variables as the scenes hold them.  What    *)
(* the page has done and the check does not know yet is in the socket, and  *)
(* before the answer the check is waiting for if it was done before that.   *)
phase    == v1
socket   == v2
loaded   == v3
events   == v4
dropped  == v5
executed == v6
page     == v7
errors   == v8
chatter  == v9
opaque   == v10
judged   == v11
verdict  == v12
USE DEF phase, socket, loaded, events, dropped, executed, page, errors, chatter,
        opaque, judged, verdict

Messages == {"load", "error", "log", "committed", "origin"} \cup Check!Scripts
Deeds    == {"commit", "load"} \cup Check!Scripts

Has(s, m, a, b) == \E i \in a .. b : s[i] = m
Unanswering(b)  == ~Has(socket, "committed", 1, b) /\ ~Has(socket, "origin", 1, b)

\* What was done is known, or told by the first b messages, or there was no room for it.
Tells(done, complaints, b) ==
    /\ \A u \in Check!Scripts : u \in executed \/ Has(socket, u, 1, b) => u \in done
    /\ "run" \in done =>
          "run" \in executed \/ Has(socket, "run", 1, b) \/ Cardinality(executed) >= MaxUrls
    /\ complaints > 0 <=> events > 0 \/ dropped > 0 \/ Has(socket, "error", 1, b)

CheckTypes ==
    /\ phase \in {"start", "navigate", "load", "settle", "origin", "closed"}
    /\ socket \in Seq(Messages) /\ page \in SUBSET Deeds
    /\ events \in Nat /\ dropped \in Nat /\ errors \in Nat
    /\ executed \in SUBSET Check!Scripts
    /\ judged \in [page : SUBSET Deeds, errors : Nat]

Blank ==
    /\ page = {} /\ errors = 0
    /\ \A i \in 1 .. Len(socket) : socket[i] = "load"

Committed ==
    \E p \in 1 .. Len(socket) :
      LET b == Len(socket) IN
        /\ socket[p] = "committed" /\ \A i \in 1 .. (p - 1) : socket[i] = "load"
        /\ ~Has(socket, "committed", p + 1, b) /\ ~Has(socket, "origin", p + 1, b)
        /\ \A u \in Check!Scripts : u \in page <=> Has(socket, u, p + 1, b)
        /\ errors > 0 <=> Has(socket, "error", p + 1, b)
        /\ Has(socket, "load", p + 1, b) => "load" \in page

Asking ==
    /\ Unanswering(Len(socket)) /\ Tells(page, errors, Len(socket))
    /\ loaded \/ Has(socket, "load", 1, Len(socket)) => "load" \in page

Answered ==
    /\ "load" \in judged.page
    /\ \E p \in 1 .. Len(socket) : /\ socket[p] = "origin" /\ Unanswering(p - 1)
                                 /\ Tells(judged.page, judged.errors, p - 1)

Navigating ==
    phase \in {"start", "navigate"} =>
      /\ judged = Check!Unjudged /\ events = 0 /\ dropped = 0 /\ executed = {}
      /\ IF "commit" \in page THEN phase = "navigate" /\ Committed ELSE Blank

Checking ==
    phase \in {"load", "settle", "origin"} =>
      /\ "commit" \in page
      /\ phase # "load" => loaded
      /\ phase # "origin" => judged = Check!Unjudged
      /\ IF judged = Check!Unjudged THEN Asking ELSE Answered

Verdicts ==
    /\ phase # "closed" => verdict = "none"
    /\ Check!CleanIsEarned /\ Check!RefusalIsEarned

CheckInv == CheckTypes /\ Navigating /\ Checking /\ Verdicts

(* The instance counts URLs as the library does.                            *)
LEMMA SameCounts == \A S : /\ Check!IsFiniteSet(S) <=> IsFiniteSet(S)
                         /\ Check!Cardinality(S) = Cardinality(S)
  BY DEF IsFiniteSet, Check!IsFiniteSet, Cardinality, Check!Cardinality

(* The URLs of scripts: finitely many, and not the other messages.          *)
LEMMA ScriptUrls ==
    /\ Check!Scripts \cap {"load", "error", "log", "commit", "committed", "origin"} = {}
    /\ MaxUrls \in Nat /\ IsFiniteSet(Others)
    /\ \A seen \in SUBSET Check!Scripts : IsFiniteSet(seen) /\ Cardinality(seen) \in Nat
  <1>1. MaxUrls \in Nat /\ IsFiniteSet(Others)
        /\ Others \cap {"run", "load", "error", "log", "commit", "committed", "origin"} = {}
    BY BundleAssumption, SameCounts DEF Check!CheckAssumption
  <1>2. IsFiniteSet({"run"} \cup Others)
    BY <1>1, FS_Singleton, FS_Union
  <1>3. \A seen \in SUBSET Check!Scripts : IsFiniteSet(seen) /\ Cardinality(seen) \in Nat
    BY <1>2, FS_Subset, FS_CardinalityType DEF Check!Scripts
  <1> QED
    BY <1>1, <1>3 DEF Check!Scripts

(* What a message at the end adds, and what one taken from the head leaves. *)
LEMMA AtTheEnd ==
    ASSUME NEW s \in Seq(Messages), NEW x \in Messages
    PROVE  /\ Append(s, x) \in Seq(Messages) /\ Len(Append(s, x)) = Len(s) + 1
           /\ \A i \in 1 .. Len(s) : Append(s, x)[i] = s[i]
           /\ Append(s, x)[Len(s) + 1] = x
           /\ \A m : \A a \in 1 .. (Len(s) + 1) :
                Has(Append(s, x), m, a, Len(s) + 1) <=> Has(s, m, a, Len(s)) \/ x = m
           /\ \A m : \A b \in 0 .. Len(s) : Has(Append(s, x), m, 1, b) <=> Has(s, m, 1, b)
  <1>1. /\ Append(s, x) \in Seq(Messages) /\ Len(Append(s, x)) = Len(s) + 1
        /\ \A i \in 1 .. Len(s) : Append(s, x)[i] = s[i]
        /\ Append(s, x)[Len(s) + 1] = x /\ Len(s) \in Nat
    OBVIOUS
  <1>2. ASSUME NEW m, NEW a \in 1 .. (Len(s) + 1)
        PROVE  Has(Append(s, x), m, a, Len(s) + 1) <=> Has(s, m, a, Len(s)) \/ x = m
    <2>1. \A i \in a .. (Len(s) + 1) : i \in 1 .. Len(s) \/ i = Len(s) + 1
      BY <1>1
    <2>2. \A i \in a .. Len(s) : i \in 1 .. Len(s) /\ i \in a .. (Len(s) + 1)
      BY <1>1
    <2>3. Len(s) + 1 \in a .. (Len(s) + 1)
      BY <1>1
    <2>4. \A i \in 1 .. Len(s) : i \in a .. (Len(s) + 1) => i \in a .. Len(s)
      BY <1>1
    <2> QED
      BY <1>1, <2>1, <2>2, <2>3, <2>4 DEF Has
  <1>3. ASSUME NEW m, NEW b \in 0 .. Len(s)
        PROVE  Has(Append(s, x), m, 1, b) <=> Has(s, m, 1, b)
    <2>1. \A i \in 1 .. b : i \in 1 .. Len(s)
      BY <1>1
    <2> QED
      BY <1>1, <2>1 DEF Has
  <1> QED
    BY <1>1, <1>2, <1>3

LEMMA AtTheHead ==
    ASSUME NEW s \in Seq(Messages), s # <<>>
    PROVE  /\ Tail(s) \in Seq(Messages) /\ Len(Tail(s)) = Len(s) - 1 /\ Len(s) >= 1
           /\ Head(s) = s[1] /\ Head(s) \in Messages
           /\ \A i \in 1 .. (Len(s) - 1) : Tail(s)[i] = s[i + 1]
           /\ \A m : \A a, b \in 1 .. Len(s) :
                Has(s, m, a + 1, b) <=> Has(Tail(s), m, a, b - 1)
           /\ \A m : \A b \in 1 .. Len(s) :
                Has(s, m, 1, b) <=> Head(s) = m \/ Has(Tail(s), m, 1, b - 1)
  <1>1. /\ Tail(s) \in Seq(Messages) /\ Len(Tail(s)) = Len(s) - 1
        /\ Head(s) = s[1] /\ Head(s) \in Messages /\ Len(s) \in Nat /\ Len(s) >= 1
        /\ \A i \in 1 .. (Len(s) - 1) : Tail(s)[i] = s[i + 1]
    OBVIOUS
  <1>2. ASSUME NEW m, NEW a \in 1 .. Len(s), NEW b \in 1 .. Len(s)
        PROVE  Has(s, m, a + 1, b) <=> Has(Tail(s), m, a, b - 1)
    <2>1. \A i \in (a + 1) .. b : /\ i - 1 \in a .. (b - 1) /\ i - 1 \in 1 .. (Len(s) - 1)
                                /\ (i - 1) + 1 = i
      BY <1>1
    <2>2. \A i \in a .. (b - 1) : i + 1 \in (a + 1) .. b /\ i \in 1 .. (Len(s) - 1)
      BY <1>1
    <2>3. ASSUME Has(s, m, a + 1, b) PROVE Has(Tail(s), m, a, b - 1)
      <3>1. PICK i \in (a + 1) .. b : s[i] = m
        BY <2>3 DEF Has
      <3>2. Tail(s)[i - 1] = m
        BY <1>1, <2>1, <3>1
      <3> QED
        BY Zenon, <2>1, <3>1, <3>2 DEF Has
    <2>4. ASSUME Has(Tail(s), m, a, b - 1) PROVE Has(s, m, a + 1, b)
      BY <1>1, <2>2, <2>4 DEF Has
    <2> QED
      BY <2>3, <2>4
  <1>3. ASSUME NEW m, NEW b \in 1 .. Len(s)
        PROVE  Has(s, m, 1, b) <=> Head(s) = m \/ Has(Tail(s), m, 1, b - 1)
    <2>1. 1 \in 1 .. Len(s) /\ 1 \in 1 .. b
      BY <1>1
    <2>2. Has(s, m, 1 + 1, b) <=> Has(Tail(s), m, 1, b - 1)
      BY <1>2, <2>1
    <2>3. \A i : i \in 1 .. b <=> i = 1 \/ i \in (1 + 1) .. b
      BY <2>1
    <2>4. Has(s, m, 1, b) <=> s[1] = m \/ Has(s, m, 1 + 1, b)
      BY <2>1, <2>3 DEF Has
    <2> QED
      BY <1>1, <2>2, <2>4
  <1> QED
    BY <1>1, <1>2, <1>3

(* A document other than the page may have finished before; nothing else.   *)
LEMMA CheckInitially == Check!Init => CheckInv
  <1>1. SUFFICES ASSUME Check!Init PROVE CheckInv
    OBVIOUS
  <1>2. socket \in Seq(Messages) /\ \A i \in 1 .. Len(socket) : socket[i] = "load"
    <2>1. CASE socket = <<>>
      BY <2>1
    <2>2. CASE socket = <<"load">>
      <3>1. "load" \in Messages
        BY DEF Messages
      <3> QED
        BY <2>2, <3>1
    <2> QED
      BY <1>1, <2>1, <2>2 DEF Check!Init
  <1>4. judged \in [page : SUBSET Deeds, errors : Nat]
    BY <1>1 DEF Check!Init, Check!Unjudged
  <1>3. Verdicts
    BY <1>1 DEF Check!Init, Verdicts, Check!CleanIsEarned, Check!RefusalIsEarned
  <1> QED
    BY <1>1, <1>2, <1>3, <1>4 DEF Check!Init, CheckInv, CheckTypes, Navigating, Checking, Blank

(* The page does something, and says so.                                    *)
LEMMA PageActs ==
    ASSUME CheckInv,
           NEW x \in {"load", "error", "log"} \cup Check!Scripts,
           "commit" \in page, phase # "closed", socket' = Append(socket, x),
           page' = IF x \in {"load"} \cup Check!Scripts THEN page \cup {x} ELSE page,
           errors' = IF x = "error" THEN errors + 1 ELSE errors,
           UNCHANGED <<phase, loaded, events, dropped, executed, opaque, judged, verdict>>
    PROVE  CheckInv'
  <1>t. CheckTypes /\ Navigating /\ Checking /\ Verdicts
    BY DEF CheckInv
  <1>1. /\ socket \in Seq(Messages) /\ x \in Messages /\ errors \in Nat /\ Len(socket) \in Nat
        /\ x \notin {"committed", "origin"}
    BY <1>t, ScriptUrls DEF CheckTypes, Messages
  <1>2. /\ socket' \in Seq(Messages) /\ Len(socket') = Len(socket) + 1
        /\ \A i \in 1 .. Len(socket) : socket'[i] = socket[i]
        /\ \A m : \A a \in 1 .. (Len(socket) + 1) :
             Has(socket', m, a, Len(socket) + 1) <=> Has(socket, m, a, Len(socket)) \/ x = m
        /\ \A m : \A b \in 0 .. Len(socket) : Has(socket', m, 1, b) <=> Has(socket, m, 1, b)
    BY <1>1, AtTheEnd
  <1>3. CheckTypes'
    BY <1>t, <1>1, <1>2 DEF CheckTypes, Deeds
  <1>4. /\ "commit" \in page'
        /\ \A u \in Check!Scripts : u \in page' <=> u \in page \/ x = u
        /\ "load" \in page' <=> "load" \in page \/ x = "load"
        /\ errors' > 0 <=> errors > 0 \/ x = "error"
    <2>1. errors' > 0 <=> errors > 0 \/ x = "error"
      BY <1>1
    <2> QED
      BY <2>1
  <1>5. Navigating'
    <2>1. SUFFICES ASSUME phase = "navigate", Committed PROVE Committed'
      BY <1>t, <1>4 DEF Navigating
    <2>2. PICK p \in 1 .. Len(socket) :
             /\ socket[p] = "committed" /\ \A i \in 1 .. (p - 1) : socket[i] = "load"
             /\ ~Has(socket, "committed", p + 1, Len(socket))
             /\ ~Has(socket, "origin", p + 1, Len(socket))
             /\ \A u \in Check!Scripts : u \in page <=> Has(socket, u, p + 1, Len(socket))
             /\ errors > 0 <=> Has(socket, "error", p + 1, Len(socket))
             /\ Has(socket, "load", p + 1, Len(socket)) => "load" \in page
      BY <2>1 DEF Committed
    <2>3. /\ p \in 1 .. Len(socket') /\ p + 1 \in 1 .. (Len(socket) + 1)
          /\ \A i \in 1 .. (p - 1) : i \in 1 .. Len(socket)
      BY <1>1, <1>2
    <2>4. socket'[p] = "committed" /\ \A i \in 1 .. (p - 1) : socket'[i] = "load"
      BY <1>2, <2>2, <2>3
    <2>5. \A m : Has(socket', m, p + 1, Len(socket'))
                   <=> Has(socket, m, p + 1, Len(socket)) \/ x = m
      BY <1>2, <2>3
    <2>6. /\ ~Has(socket', "committed", p + 1, Len(socket'))
          /\ ~Has(socket', "origin", p + 1, Len(socket'))
          /\ \A u \in Check!Scripts : u \in page' <=> Has(socket', u, p + 1, Len(socket'))
          /\ errors' > 0 <=> Has(socket', "error", p + 1, Len(socket'))
          /\ Has(socket', "load", p + 1, Len(socket')) => "load" \in page'
      BY <1>1, <1>4, <2>2, <2>5
    <2> QED
      BY <2>3, <2>4, <2>6 DEF Committed
  <1>6. Checking'
    <2>1. SUFFICES ASSUME phase \in {"load", "settle", "origin"}
                   PROVE  IF judged = Check!Unjudged THEN Asking' ELSE Answered'
      BY <1>t, <1>4 DEF Checking
    <2>2. CASE judged = Check!Unjudged
      <3>1. Asking
        BY <1>t, <2>1, <2>2 DEF Checking
      <3>2. 1 \in 1 .. (Len(socket) + 1)
        BY <1>1
      <3>3. \A m : Has(socket', m, 1, Len(socket'))
                     <=> Has(socket, m, 1, Len(socket)) \/ x = m
        BY <1>2, <3>2
      <3>4. /\ \A u \in Check!Scripts :
                  u \in executed \/ Has(socket', u, 1, Len(socket')) => u \in page'
            /\ "run" \in page' => \/ "run" \in executed \/ Has(socket', "run", 1, Len(socket'))
                                 \/ Cardinality(executed) >= MaxUrls
            /\ errors' > 0 <=>
                  events > 0 \/ dropped > 0 \/ Has(socket', "error", 1, Len(socket'))
        BY <1>4, <3>1, <3>3 DEF Asking, Tells
      <3>5. /\ ~Has(socket', "committed", 1, Len(socket'))
            /\ ~Has(socket', "origin", 1, Len(socket'))
            /\ loaded \/ Has(socket', "load", 1, Len(socket')) => "load" \in page'
        BY <1>1, <1>4, <3>1, <3>3 DEF Asking, Unanswering
      <3> QED
        BY <2>2, <3>4, <3>5 DEF Asking, Tells, Unanswering
    <2>3. CASE judged # Check!Unjudged
      <3>1. Answered
        BY <1>t, <2>1, <2>3 DEF Checking
      <3>2. PICK p \in 1 .. Len(socket) : /\ socket[p] = "origin" /\ Unanswering(p - 1)
                                        /\ Tells(judged.page, judged.errors, p - 1)
        BY <3>1 DEF Answered
      <3>3. p - 1 \in 0 .. Len(socket) /\ p \in 1 .. Len(socket')
        BY <1>1, <1>2
      <3>4. \A m : Has(socket', m, 1, p - 1) <=> Has(socket, m, 1, p - 1)
        BY <1>2, <3>3
      <3>5. socket'[p] = "origin" /\ Unanswering(p - 1)'
        BY <1>2, <3>2, <3>4 DEF Unanswering
      <3>6. Tells(judged.page, judged.errors, p - 1)'
        BY <3>2, <3>4 DEF Tells
      <3> QED
        BY <2>3, <3>1, <3>3, <3>5, <3>6 DEF Answered
    <2> QED
      BY <2>2, <2>3
  <1>7. Verdicts'
    BY <1>t DEF Verdicts, Check!CleanIsEarned, Check!RefusalIsEarned
  <1> QED
    BY <1>3, <1>5, <1>6, <1>7 DEF CheckInv

(* One notification is read.                                                *)
LEMMA CheckReads == ASSUME CheckInv, Check!Reads PROVE CheckInv'
  <1>t. CheckTypes /\ Navigating /\ Checking /\ Verdicts
    BY DEF CheckInv
  <1> DEFINE x == Head(socket)
  <1>1. /\ phase \in {"navigate", "load", "settle", "origin"} /\ socket # <<>>
        /\ x \notin {"committed", "origin"} /\ socket' = Tail(socket)
        /\ UNCHANGED <<phase, page, errors, opaque, judged, verdict>>
        /\ loaded' = (loaded \/ x = "load")
        /\ executed' = IF x \in Check!Scripts /\ Cardinality(executed) < MaxUrls
                       THEN executed \cup {x} ELSE executed
        /\ IF x = "error" THEN \/ events' = events + 1 /\ dropped' = dropped
                               \/ dropped' = dropped + 1 /\ events' = events
           ELSE UNCHANGED <<events, dropped>>
    <2>1. /\ phase \in {"navigate", "load", "settle", "origin"} /\ socket # <<>>
          /\ x \notin {"committed", "origin"} /\ socket' = Tail(socket)
          /\ UNCHANGED <<phase, page, errors, opaque, judged, verdict>>
      BY DEF Check!Reads, Check!Page, Check!Answers
    <2>2. Check!Record(x)
      BY DEF Check!Reads
    <2>3. /\ loaded' = (loaded \/ x = "load")
          /\ executed' = IF x \in Check!Scripts /\ Cardinality(executed) < MaxUrls
                         THEN executed \cup {x} ELSE executed
      BY <2>2, SameCounts DEF Check!Record
    <2>4. IF x # "error" THEN UNCHANGED <<events, dropped>>
          ELSE IF events < MaxEvents THEN events' = events + 1 /\ UNCHANGED dropped
          ELSE dropped' = dropped + 1 /\ UNCHANGED events
      BY <2>2 DEF Check!Record, Check!IsDiagnostic
    <2> QED
      BY <2>1, <2>3, <2>4
  <1>2. /\ socket \in Seq(Messages) /\ Len(socket) \in Nat
        /\ events \in Nat /\ dropped \in Nat
    BY <1>t DEF CheckTypes
  <1>3. /\ Tail(socket) \in Seq(Messages) /\ Len(Tail(socket)) = Len(socket) - 1
        /\ Len(socket) >= 1 /\ x = socket[1]
        /\ \A i \in 1 .. (Len(socket) - 1) : Tail(socket)[i] = socket[i + 1]
        /\ \A m : \A a, b \in 1 .. Len(socket) :
             Has(socket, m, a + 1, b) <=> Has(Tail(socket), m, a, b - 1)
        /\ \A m : \A b \in 1 .. Len(socket) :
             Has(socket, m, 1, b) <=> x = m \/ Has(Tail(socket), m, 1, b - 1)
    BY <1>1, <1>2, AtTheHead
  <1>4. events' \in Nat /\ dropped' \in Nat
    BY <1>1, <1>2
  <1>5. events' > 0 \/ dropped' > 0 <=> events > 0 \/ dropped > 0 \/ x = "error"
    BY <1>1, <1>2
  <1>6. CheckTypes'
    BY <1>t, <1>1, <1>3, <1>4 DEF CheckTypes
  <1>u. /\ \A u : u \in executed' => u \in executed \/ x = u
        /\ \A u : u \in executed => u \in executed'
    BY <1>1
  <1>r. /\ x = "run" => "run" \in executed' \/ Cardinality(executed') >= MaxUrls
        /\ Cardinality(executed) >= MaxUrls => Cardinality(executed') >= MaxUrls
    <2>1. MaxUrls \in Nat /\ Cardinality(executed) \in Nat
      BY <1>t, ScriptUrls DEF CheckTypes
    <2>2. CASE x \in Check!Scripts /\ Cardinality(executed) < MaxUrls
      BY <1>1, <2>1, <2>2
    <2>3. CASE ~(x \in Check!Scripts /\ Cardinality(executed) < MaxUrls)
      BY <1>1, <2>1, <2>3 DEF Check!Scripts
    <2> QED
      BY <2>2, <2>3
  <1>7. ASSUME NEW b \in 1 .. Len(socket), NEW done, NEW complaints
        PROVE  /\ Unanswering(b) => Unanswering(b - 1)'
               /\ Tells(done, complaints, b) => Tells(done, complaints, b - 1)'
    <2>1. \A m : Has(socket, m, 1, b) <=> x = m \/ Has(socket', m, 1, b - 1)
      BY <1>1, <1>3
    <2>2. Tells(done, complaints, b) => Tells(done, complaints, b - 1)'
      BY Zenon, <1>u, <1>r, <1>5, <2>1 DEF Tells
    <2> QED
      BY <2>1, <2>2 DEF Unanswering
  <1>8. Navigating'
    <2>1. SUFFICES ASSUME phase = "navigate" PROVE Navigating'
      BY <1>1 DEF Navigating
    <2>2. CASE "commit" \notin page
      <3>1. Blank /\ x = "load"
        BY <1>t, <1>2, <1>3, <2>1, <2>2 DEF Navigating, Blank
      <3>2. \A i \in 1 .. Len(socket') : i \in 1 .. (Len(socket) - 1) /\ i + 1 \in 1 .. Len(socket)
        BY <1>1, <1>2, <1>3
      <3>3. \A i \in 1 .. Len(socket') : socket'[i] = "load"
        BY <1>1, <1>3, <3>1, <3>2 DEF Blank
      <3>4. UNCHANGED <<events, dropped, executed>>
        BY <1>1, <3>1, ScriptUrls
      <3> QED
        BY Zenon, <1>t, <1>1, <2>1, <2>2, <3>1, <3>3, <3>4 DEF Navigating, Blank
    <2>3. CASE "commit" \in page
      <3>1. PICK p \in 1 .. Len(socket) :
               /\ socket[p] = "committed" /\ \A i \in 1 .. (p - 1) : socket[i] = "load"
               /\ ~Has(socket, "committed", p + 1, Len(socket))
               /\ ~Has(socket, "origin", p + 1, Len(socket))
               /\ \A u \in Check!Scripts : u \in page <=> Has(socket, u, p + 1, Len(socket))
               /\ errors > 0 <=> Has(socket, "error", p + 1, Len(socket))
               /\ Has(socket, "load", p + 1, Len(socket)) => "load" \in page
        BY <1>t, <2>1, <2>3 DEF Navigating, Committed
      <3>2. p # 1
        BY <1>1, <1>3, <3>1
      <3>3. /\ p - 1 \in 1 .. Len(socket') /\ p - 1 \in 1 .. (Len(socket) - 1)
            /\ (p - 1) + 1 = p /\ 1 \in 1 .. (p - 1)
        BY <1>1, <1>2, <1>3, <3>2
      <3>4. x = "load"
        BY <1>3, <3>1, <3>3
      <3>5. socket'[p - 1] = "committed"
        BY <1>1, <1>3, <3>1, <3>3
      <3>6. \A i \in 1 .. ((p - 1) - 1) : i + 1 \in 1 .. (p - 1) /\ i \in 1 .. (Len(socket) - 1)
        BY <1>2
      <3>7. \A i \in 1 .. ((p - 1) - 1) : socket'[i] = "load"
        BY <1>1, <1>3, <3>1, <3>6
      <3>8. \A m : Has(socket', m, (p - 1) + 1, Len(socket'))
                     <=> Has(socket, m, p + 1, Len(socket))
        <4>1. Len(socket) \in 1 .. Len(socket)
          BY <1>2, <1>3
        <4>2. \A m : Has(Tail(socket), m, p, Len(socket) - 1)
                       <=> Has(socket, m, p + 1, Len(socket))
          BY <1>3, <4>1
        <4> QED
          BY <1>1, <1>3, <3>3, <4>2
      <3>9. /\ ~Has(socket', "committed", (p - 1) + 1, Len(socket'))
            /\ ~Has(socket', "origin", (p - 1) + 1, Len(socket'))
            /\ \A u \in Check!Scripts : u \in page' <=> Has(socket', u, (p - 1) + 1, Len(socket'))
            /\ errors' > 0 <=> Has(socket', "error", (p - 1) + 1, Len(socket'))
            /\ Has(socket', "load", (p - 1) + 1, Len(socket')) => "load" \in page'
        BY <1>1, <3>1, <3>8
      <3>10. Committed'
        BY <3>3, <3>5, <3>7, <3>9 DEF Committed
      <3>11. UNCHANGED <<events, dropped, executed>>
        BY <1>1, <3>4, ScriptUrls
      <3> QED
        BY Zenon, <1>t, <1>1, <2>1, <2>3, <3>10, <3>11 DEF Navigating
    <2> QED
      BY <2>2, <2>3
  <1>9. Checking'
    <2>1. SUFFICES ASSUME phase \in {"load", "settle", "origin"} PROVE Checking'
      BY <1>1 DEF Checking
    <2>2. Len(socket) \in 1 .. Len(socket) /\ Len(socket') = Len(socket) - 1
      BY <1>1, <1>2, <1>3
    <2>3. CASE judged = Check!Unjudged
      <3>1. Asking
        BY <1>t, <2>1, <2>3 DEF Checking
      <3>2. Has(socket, "load", 1, Len(socket)) <=> x = "load" \/ Has(socket', "load", 1, Len(socket'))
        BY <1>1, <1>3, <2>2
      <3>3. PICK n : n = Len(socket)
        BY Zenon
      <3>4. PICK done, complaints : done = page /\ complaints = errors
        OBVIOUS
      <3>5. n \in 1 .. Len(socket) /\ Len(socket') = n - 1
        BY <2>2, <3>3
      <3>6. Unanswering(n) /\ Tells(done, complaints, n)
        BY <3>1, <3>3, <3>4 DEF Asking
      <3>7. Unanswering(n - 1)' /\ Tells(done, complaints, n - 1)'
        BY <1>7, <3>5, <3>6
      <3>8. Unanswering(Len(socket))' /\ Tells(page, errors, Len(socket))'
        BY <1>1, <3>4, <3>5, <3>7 DEF Unanswering, Tells
      <3>9. Asking'
        BY Zenon, <1>1, <3>1, <3>2, <3>8 DEF Asking
      <3> QED
        BY Zenon, <1>t, <1>1, <2>1, <2>3, <3>9 DEF Checking
    <2>4. CASE judged # Check!Unjudged
      <3>1. Answered
        BY <1>t, <2>1, <2>4 DEF Checking
      <3>2. PICK p \in 1 .. Len(socket) : /\ socket[p] = "origin" /\ Unanswering(p - 1)
                                        /\ Tells(judged.page, judged.errors, p - 1)
        BY <3>1 DEF Answered
      <3>3. p # 1
        BY <1>1, <1>3, <3>2
      <3>4. /\ p - 1 \in 1 .. Len(socket) /\ p - 1 \in 1 .. (Len(socket) - 1)
            /\ p - 1 \in 1 .. Len(socket') /\ (p - 1) + 1 = p
        BY <1>2, <2>2, <3>3
      <3>5. socket'[p - 1] = "origin"
        BY <1>1, <1>3, <3>2, <3>4
      <3>6. /\ Unanswering((p - 1) - 1)'
            /\ Tells(judged.page, judged.errors, (p - 1) - 1)'
        BY <1>1, <1>7, <3>2, <3>4
      <3>7. Answered'
        BY Zenon, <1>1, <3>1, <3>4, <3>5, <3>6 DEF Answered
      <3> QED
        BY Zenon, <1>t, <1>1, <2>1, <2>4, <3>7 DEF Checking
    <2> QED
      BY <2>3, <2>4
  <1>10. Verdicts'
    BY <1>t, <1>1 DEF Verdicts, Check!CleanIsEarned, Check!RefusalIsEarned
  <1> QED
    BY <1>6, <1>8, <1>9, <1>10 DEF CheckInv

(* Every step of the check, the browser or the page keeps the invariant.    *)
LEMMA CheckStep == ASSUME CheckInv, [Check!Next]_Check!vars PROVE CheckInv'
  <1>t. CheckTypes /\ Navigating /\ Checking /\ Verdicts
    BY DEF CheckInv
  <1>s. socket \in Seq(Messages) /\ Len(socket) \in Nat
    BY <1>t DEF CheckTypes
  <1>1. CASE phase # "closed" /\ \E what \in Check!Scripts \cup {"load"} : Check!Does(what)
    <2>1. PICK x \in Check!Scripts \cup {"load"} :
             /\ "commit" \in page /\ page' = page \cup {x} /\ socket' = Append(socket, x)
             /\ UNCHANGED <<phase, loaded, events, dropped, executed, errors, opaque, judged,
                            verdict>>
      BY <1>1 DEF Check!Does, Check!Says, Check!Browser
    <2> QED
      BY <1>1, <2>1, ScriptUrls, PageActs
  <1>2. CASE phase # "closed" /\ Check!Complains
    <2>1. "error" \notin {"load"} \cup Check!Scripts
      BY ScriptUrls
    <2>2. /\ "commit" \in page /\ socket' = Append(socket, "error") /\ UNCHANGED page
          /\ errors' = errors + 1
          /\ UNCHANGED <<phase, loaded, events, dropped, executed, opaque, judged, verdict>>
      BY <1>2 DEF Check!Complains, Check!Says, Check!Browser
    <2> QED
      BY <1>2, <2>1, <2>2, PageActs
  <1>3. CASE phase # "closed" /\ Check!Chats
    <2>1. "log" \notin {"load"} \cup Check!Scripts
      BY ScriptUrls
    <2>2. /\ "commit" \in page /\ socket' = Append(socket, "log") /\ UNCHANGED page
          /\ errors' = errors
          /\ UNCHANGED <<phase, loaded, events, dropped, executed, opaque, judged, verdict>>
      BY <1>3 DEF Check!Chats, Check!Says, Check!Browser
    <2> QED
      BY <1>3, <2>1, <2>2, PageActs
  <1>4. CASE Check!Reads
    BY <1>4, CheckReads
  <1>5. CASE Check!Navigates \/ Check!Settles \/ Check!AsksOrigin
    <2>1. /\ UNCHANGED <<socket, loaded, events, dropped, executed, page, errors, opaque,
                         judged, verdict>>
          /\ \/ phase = "start" /\ phase' = "navigate"
             \/ phase = "load" /\ loaded /\ phase' = "settle"
             \/ phase = "settle" /\ phase' = "origin"
      BY <1>5 DEF Check!Navigates, Check!Settles, Check!AsksOrigin, Check!Browser, Check!Page
    <2>2. CheckTypes'
      BY <1>t, <2>1 DEF CheckTypes
    <2>3. Navigating'
      BY <1>t, <2>1 DEF Navigating, Committed, Blank
    <2>4. Checking'
      BY <1>t, <2>1 DEF Checking, Asking, Answered, Unanswering, Tells
    <2>5. Verdicts'
      BY <1>t, <2>1 DEF Verdicts, Check!CleanIsEarned, Check!RefusalIsEarned
    <2> QED
      BY <2>2, <2>3, <2>4, <2>5 DEF CheckInv
  <1>6. CASE Check!Commits
    <2>1. /\ phase = "navigate" /\ "commit" \notin page /\ page' = {"commit"}
          /\ socket' = Append(socket, "committed")
          /\ UNCHANGED <<phase, loaded, events, dropped, executed, errors, opaque, judged,
                         verdict>>
      BY <1>6 DEF Check!Commits, Check!Says, Check!Browser
    <2>2. /\ Blank /\ judged = Check!Unjudged /\ events = 0 /\ dropped = 0 /\ executed = {}
      BY <1>t, <2>1 DEF Navigating
    <2>3. "committed" \in Messages
      BY DEF Messages
    <2>4. /\ socket' \in Seq(Messages) /\ Len(socket') = Len(socket) + 1
          /\ \A i \in 1 .. Len(socket) : socket'[i] = socket[i]
          /\ socket'[Len(socket) + 1] = "committed"
      BY <1>s, <2>1, <2>3, AtTheEnd
    <2>5. PICK p \in Nat : p = Len(socket) + 1
      BY <1>s
    <2>6. /\ p \in 1 .. Len(socket') /\ socket'[p] = "committed"
          /\ \A i \in 1 .. (p - 1) : i \in 1 .. Len(socket)
      BY <1>s, <2>4, <2>5
    <2>7. \A m : ~Has(socket', m, p + 1, Len(socket'))
      <3>1. \A i \in (p + 1) .. Len(socket') : FALSE
        BY <1>s, <2>4, <2>5
      <3> QED
        BY <3>1 DEF Has
    <2>8. \A i \in 1 .. (p - 1) : socket'[i] = "load"
      BY <2>2, <2>4, <2>6 DEF Blank
    <2>9. (\A u \in Check!Scripts : u \notin page') /\ errors' = 0
      BY <2>1, <2>2, ScriptUrls DEF Blank
    <2>10. Committed'
      BY <2>6, <2>7, <2>8, <2>9 DEF Committed
    <2>11. Navigating'
      BY <2>1, <2>2, <2>10 DEF Navigating
    <2>12. CheckTypes' /\ Checking' /\ Verdicts'
      BY <1>t, <2>1, <2>4 DEF CheckTypes, Checking, Verdicts, Deeds, Check!CleanIsEarned,
                              Check!RefusalIsEarned
    <2> QED
      BY <2>11, <2>12 DEF CheckInv
  <1>7. CASE Check!Begins
    <2>1. /\ phase = "navigate" /\ socket # <<>> /\ Head(socket) = "committed"
          /\ socket' = Tail(socket) /\ phase' = "load" /\ loaded' = FALSE
          /\ UNCHANGED <<events, dropped, executed, page, errors, opaque, judged, verdict>>
      BY <1>7 DEF Check!Begins, Check!Forgets, Check!Page
    <2>2. /\ Tail(socket) \in Seq(Messages) /\ Len(Tail(socket)) = Len(socket) - 1
          /\ Len(socket) >= 1 /\ Head(socket) = socket[1]
          /\ \A m : \A a, b \in 1 .. Len(socket) :
               Has(socket, m, a + 1, b) <=> Has(Tail(socket), m, a, b - 1)
      BY <1>s, <2>1, AtTheHead
    <2>3. "commit" \in page
      <3>1. 1 \in 1 .. Len(socket)
        BY <1>s, <2>2
      <3> QED
        BY <1>t, <2>1, <2>2, <3>1 DEF Navigating, Blank
    <2>4. PICK p \in 1 .. Len(socket) :
             /\ socket[p] = "committed" /\ \A i \in 1 .. (p - 1) : socket[i] = "load"
             /\ ~Has(socket, "committed", p + 1, Len(socket))
             /\ ~Has(socket, "origin", p + 1, Len(socket))
             /\ \A u \in Check!Scripts : u \in page <=> Has(socket, u, p + 1, Len(socket))
             /\ errors > 0 <=> Has(socket, "error", p + 1, Len(socket))
             /\ Has(socket, "load", p + 1, Len(socket)) => "load" \in page
      BY <1>t, <2>1, <2>3 DEF Navigating, Committed
    <2>5. p = 1
      <3>1. p # 1 => 1 \in 1 .. (p - 1)
        BY <1>s
      <3> QED
        BY <2>1, <2>2, <2>4, <3>1
    <2>6. \A m : Has(socket', m, 1, Len(socket')) <=> Has(socket, m, p + 1, Len(socket))
      <3>1. 1 \in 1 .. Len(socket) /\ Len(socket) \in 1 .. Len(socket)
        BY <1>s, <2>2
      <3>2. \A m : Has(socket, m, 1 + 1, Len(socket))
                     <=> Has(Tail(socket), m, 1, Len(socket) - 1)
        BY <2>2, <3>1
      <3> QED
        BY <2>1, <2>2, <2>5, <3>2
    <2>7. judged = Check!Unjudged /\ events = 0 /\ dropped = 0 /\ executed = {}
      BY <1>t, <2>1 DEF Navigating
    <2>8. Asking'
      <3>1. Unanswering(Len(socket))' /\ loaded' = FALSE
        BY <2>1, <2>4, <2>6 DEF Unanswering
      <3>2. Tells(page, errors, Len(socket))'
        <4>1. \A u \in Check!Scripts :
                 /\ u \notin executed'
                 /\ u \in page' <=> u \in page
                 /\ u \in page <=> Has(socket', u, 1, Len(socket'))
          BY <2>1, <2>4, <2>6, <2>7
        <4>2. errors' > 0 <=> events' > 0 \/ dropped' > 0 \/ Has(socket', "error", 1, Len(socket'))
          BY <2>1, <2>4, <2>6, <2>7
        <4>3. "run" \in Check!Scripts
          BY DEF Check!Scripts
        <4> QED
          BY Zenon, <4>1, <4>2, <4>3 DEF Tells
      <3> QED
        BY <2>1, <2>4, <2>6, <3>1, <3>2 DEF Asking
    <2>9. Checking'
      BY <2>1, <2>3, <2>7, <2>8 DEF Checking
    <2>10. CheckTypes' /\ Navigating' /\ Verdicts'
      BY <1>t, <2>1, <2>2 DEF CheckTypes, Navigating, Verdicts, Check!CleanIsEarned,
                              Check!RefusalIsEarned
    <2> QED
      BY <2>9, <2>10 DEF CheckInv
  <1>8. CASE Check!OriginAnswered
    <2>1. /\ phase = "origin" /\ judged = Check!Unjudged /\ socket' = Append(socket, "origin")
          /\ judged' = [page |-> page, errors |-> errors]
          /\ UNCHANGED <<phase, loaded, events, dropped, executed, page, errors, opaque, verdict>>
      BY <1>8 DEF Check!OriginAnswered, Check!Says, Check!Browser, Check!Page
    <2>2. Asking /\ "commit" \in page /\ loaded
      BY <1>t, <2>1 DEF Checking
    <2>3. "origin" \in Messages
      BY DEF Messages
    <2>4. /\ socket' \in Seq(Messages) /\ Len(socket') = Len(socket) + 1
          /\ socket'[Len(socket) + 1] = "origin"
          /\ \A m : \A b \in 0 .. Len(socket) : Has(socket', m, 1, b) <=> Has(socket, m, 1, b)
      BY <1>s, <2>1, <2>3, AtTheEnd
    <2>5. judged'.page = page /\ judged'.errors = errors /\ judged' # Check!Unjudged
      BY <2>1, <2>2 DEF Check!Unjudged
    <2>6. PICK p \in Nat : p = Len(socket) + 1
      BY <1>s
    <2>7. /\ p \in 1 .. Len(socket') /\ p - 1 = Len(socket) /\ p - 1 \in 0 .. Len(socket)
          /\ socket'[p] = "origin"
      BY <1>s, <2>4, <2>6
    <2>8. \A m : Has(socket', m, 1, p - 1) <=> Has(socket, m, 1, Len(socket))
      BY <2>4, <2>7
    <2>9. /\ ~Has(socket', "committed", 1, p - 1) /\ ~Has(socket', "origin", 1, p - 1)
          /\ \A u \in Check!Scripts :
                u \in executed' \/ Has(socket', u, 1, p - 1) => u \in judged'.page
          /\ "run" \in judged'.page => \/ "run" \in executed' \/ Has(socket', "run", 1, p - 1)
                                      \/ Cardinality(executed') >= MaxUrls
          /\ judged'.errors > 0 <=>
                events' > 0 \/ dropped' > 0 \/ Has(socket', "error", 1, p - 1)
      BY <2>1, <2>2, <2>5, <2>8 DEF Asking, Unanswering, Tells
    <2>10. Answered'
      BY <2>2, <2>5, <2>7, <2>9 DEF Answered, Asking, Unanswering, Tells
    <2>11. Checking'
      BY <2>1, <2>2, <2>5, <2>10 DEF Checking
    <2>12. CheckTypes'
      BY <1>t, <2>1, <2>4 DEF CheckTypes
    <2>13. Navigating' /\ Verdicts'
      BY <1>t, <2>1 DEF Navigating, Verdicts, Check!CleanIsEarned, Check!RefusalIsEarned
    <2> QED
      BY <2>11, <2>12, <2>13 DEF CheckInv
  <1>9. CASE Check!Judges
    <2>1. /\ phase = "origin" /\ socket # <<>> /\ Head(socket) = "origin"
          /\ verdict' = IF ~opaque THEN "unavailable"
                        ELSE IF events = 0 /\ dropped = 0 /\ "run" \in executed THEN "clean" ELSE "errors"
          /\ phase' = "closed" /\ socket' = <<>>
          /\ UNCHANGED <<events, dropped, executed, page, errors, opaque, judged>>
      BY <1>9 DEF Check!Judges, Check!HasRun, Check!Browser, Check!Page
    <2>2. Len(socket) >= 1 /\ Head(socket) = socket[1]
      BY <1>s, <2>1, AtTheHead
    <2>3. Has(socket, "origin", 1, Len(socket))
      BY <1>s, <2>1, <2>2 DEF Has
    <2>4. Answered
      BY <1>t, <2>1, <2>3 DEF Checking, Asking, Unanswering
    <2>5. PICK p \in 1 .. Len(socket) : /\ socket[p] = "origin" /\ Unanswering(p - 1)
                                      /\ Tells(judged.page, judged.errors, p - 1)
      BY <2>4 DEF Answered
    <2>6. p = 1
      <3>1. p # 1 => 1 \in 1 .. (p - 1)
        BY <1>s
      <3> QED
        BY <2>1, <2>2, <2>5, <3>1 DEF Unanswering, Has
    <2>7. \A m : ~Has(socket, m, 1, p - 1)
      <3>1. \A i \in 1 .. (p - 1) : FALSE
        BY <2>6
      <3> QED
        BY <3>1 DEF Has
    <2>8. /\ \A u \in executed : u \in judged.page
          /\ "run" \in judged.page => "run" \in executed \/ Cardinality(executed) >= MaxUrls
          /\ judged.errors > 0 <=> events > 0 \/ dropped > 0
      BY <1>t, <2>5, <2>7 DEF Tells, CheckTypes
    <2>9. /\ events \in Nat /\ dropped \in Nat /\ judged.errors \in Nat
          /\ executed \in SUBSET Check!Scripts
      BY <1>t DEF CheckTypes
    <2>10. Verdicts'
      <3>1. CASE ~opaque
        BY <2>1, <3>1 DEF Verdicts, Check!CleanIsEarned, Check!RefusalIsEarned
      <3>2. CASE opaque /\ events = 0 /\ dropped = 0 /\ "run" \in executed
        <4>1. judged.errors = 0
          BY <2>8, <2>9, <3>2
        <4> QED
          BY <2>1, <2>4, <2>8, <3>2, <4>1
          DEF Verdicts, Check!CleanIsEarned, Check!RefusalIsEarned, Answered
      <3>3. CASE opaque /\ ~(events = 0 /\ dropped = 0 /\ "run" \in executed)
        <4>1. \/ judged.errors > 0 \/ "run" \notin judged.page
              \/ Cardinality(judged.page \cap Others) >= MaxUrls
          <5>1. SUFFICES ASSUME "run" \notin executed, Cardinality(executed) >= MaxUrls
                         PROVE  Cardinality(judged.page \cap Others) >= MaxUrls
            BY <2>8, <2>9, <3>3
          <5>2. executed \subseteq judged.page \cap Others
            BY <2>8, <2>9, <5>1 DEF Check!Scripts
          <5>3. IsFiniteSet(judged.page \cap Others)
            BY ScriptUrls, FS_Subset
          <5>4. /\ Cardinality(executed) <= Cardinality(judged.page \cap Others)
                /\ Cardinality(executed) \in Nat /\ Cardinality(judged.page \cap Others) \in Nat
            BY <5>2, <5>3, FS_Subset, FS_CardinalityType
          <5> QED
            BY <5>1, <5>4, ScriptUrls
        <4>2. verdict' = "errors" /\ judged' = judged /\ phase' = "closed"
          BY <2>1, <3>3
        <4>3. "load" \in judged.page
          BY <2>4 DEF Answered
        <4>4. Check!CleanIsEarned'
          BY <4>2 DEF Check!CleanIsEarned
        <4>5. Check!RefusalIsEarned'
          BY <4>1, <4>2, <4>3, SameCounts DEF Check!RefusalIsEarned
        <4> QED
          BY <4>2, <4>4, <4>5 DEF Verdicts
      <3> QED
        BY <3>1, <3>2, <3>3
    <2>11. CheckTypes' /\ Navigating' /\ Checking'
      BY <1>t, <2>1 DEF CheckTypes, Navigating, Checking
    <2> QED
      BY <2>10, <2>11 DEF CheckInv
  <1>10. CASE Check!GivesUp
    <2>1. /\ phase' = "closed" /\ verdict' = "unavailable" /\ socket' = <<>>
          /\ UNCHANGED <<events, dropped, executed, page, errors, opaque, judged>>
      BY <1>10 DEF Check!GivesUp, Check!Browser, Check!Page
    <2> QED
      BY <1>t, <2>1 DEF CheckInv, CheckTypes, Navigating, Checking, Verdicts,
                        Check!CleanIsEarned, Check!RefusalIsEarned
  <1>11. CASE UNCHANGED Check!vars
    <2>1. UNCHANGED <<phase, socket, loaded, events, dropped, executed, page, errors, opaque,
                      judged, verdict>>
      BY <1>11 DEF Check!vars
    <2>2. CheckTypes' /\ Verdicts'
      BY <1>t, <2>1 DEF CheckTypes, Verdicts, Check!CleanIsEarned, Check!RefusalIsEarned
    <2>3. Navigating'
      BY <1>t, <2>1 DEF Navigating, Committed, Blank
    <2>4. Checking'
      BY <1>t, <2>1 DEF Checking, Asking, Answered, Unanswering, Tells
    <2> QED
      BY <2>2, <2>3, <2>4 DEF CheckInv
  <1> QED
    BY <1>1, <1>2, <1>3, <1>4, <1>5, <1>6, <1>7, <1>8, <1>9, <1>10, <1>11 DEF Check!Next

LEMMA CheckScene ==
    ASSUME [Next]_all, scene' = "check"
    PROVE  scene = "check" /\ [Check!Next]_Check!vars
  BY DEF Next, all, state, Check!vars

(* A page is clean, or refused, for what it did and nothing else, however   *)
(* much it logs and however its messages and the check's calls interleave   *)
(* (services/render_check.console_errors).                                  *)
THEOREM VerdictsHold == Spec => []VerdictsAreEarned
  <1> DEFINE Inv == scene = "check" => CheckInv
  <1>1. Init => Inv
    BY CheckInitially DEF Init
  <1>2. Inv /\ [Next]_all => Inv'
    BY CheckScene, CheckStep
  <1>3. Inv => VerdictsAreEarned
    BY DEF CheckInv, Verdicts, VerdictsAreEarned
  <1> QED
    BY <1>1, <1>2, <1>3, PTL DEF Spec

-----------------------------------------------------------------------------
(* The life of a lesson.  Two creations may have picked one slug, and then  *)
(* one is refused; a status or an archival is written with the event that   *)
(* tells of it, so the last event of its kind always has the value.         *)

(* The variables of Lessons, as the scenes hold them.                       *)
askAt    == v1
job      == v2
seen     == v3
lessons  == v4
told     == v5
manifest == v6
USE DEF askAt, job, seen, lessons, told, manifest

Asks   == [op : {"none", "create", "status", "archive", "restore", "entry"},
           on : Nat, to : Lesson!Statuses \cup {"none", "archive", "restore", "entry"}]
LifeEvents == [op : {"create", "status", "archive", "restore", "entry"}, on : Nat,
           from : Lesson!Statuses \cup {"none"},
           to : Lesson!Statuses \cup {"archive", "restore", "entry"}]

\* The requests that are past the creation of their lesson, made or not.
Created == {r \in Requests : askAt[r] \notin {"new", "read"} /\ job[r].op = "create"}

LessonTypes ==
    /\ askAt \in [Requests -> {"new", "read", "bundle", "missing", "again", "done", "refused"}]
    /\ job \in [Requests -> Asks] /\ seen \in [Requests -> Lesson!Row]
    /\ lessons \in Seq(Lesson!Row) /\ told \in Seq(LifeEvents)
    /\ manifest \in [Lesson!Slugs -> {"missing", "skeleton", "authored", "rejected"}]

\* What a request under way is about, and what it is going to write.
Ready(r) ==
    /\ askAt[r] = "read" /\ job[r].op = "create" =>
          \E n \in Lesson!Slugs : seen[r] = Lesson!NewRow(n)
    /\ askAt[r] \in {"read", "bundle", "missing", "again"} =>
        /\ job[r].op # "none"
        /\ job[r].op # "create" => job[r].on \in DOMAIN lessons
        /\ job[r].op = "status" => job[r].to \in Lesson!Statuses
        /\ job[r].op \notin {"create", "status"} => job[r].to = job[r].op

LessonInv ==
    /\ LessonTypes /\ (\A r \in Requests : Ready(r))
    /\ Len(lessons) <= 1 + Cardinality(Created)
    /\ \A n \in DOMAIN told : told[n].on \in DOMAIN lessons
    /\ Lesson!LedgerTellsLessons /\ Lesson!RowsAreSound

(* Fewer rows than slugs leave one free, and then there is a first one.     *)
LEMMA FreeSlugExists ==
    ASSUME Lesson!LessonsAssumption, LessonTypes, Len(lessons) < MaxLessons
    PROVE  Lesson!FreeSlug \in Lesson!Slugs
  <1> DEFINE Used(n) == \E i \in DOMAIN lessons : lessons[i].slug = n
             Free == {n \in Lesson!Slugs : ~Used(n)}
             Below == {1 .. n : n \in Free}
  <1>1. PICK k \in Nat : k = Len(lessons) /\ DOMAIN lessons = 1 .. k
    BY DEF LessonTypes
  <1>2. MaxLessons \in Nat
    BY DEF Lesson!LessonsAssumption
  <1>3. Free # {}
    <2>1. SUFFICES ASSUME \A n \in Lesson!Slugs : Used(n) PROVE FALSE
      OBVIOUS
    <2>2. PICK f : f = [n \in Lesson!Slugs |->
                          CHOOSE i \in DOMAIN lessons : lessons[i].slug = n]
      BY Zenon
    <2>3. ASSUME NEW n \in Lesson!Slugs PROVE f[n] \in 1 .. k /\ lessons[f[n]].slug = n
      BY <1>1, <2>1, <2>2
    <2>4. f \in [Lesson!Slugs -> 1 .. k]
      BY <2>2, <2>3
    <2>5. /\ IsFiniteSet(1 .. k) /\ Cardinality(1 .. k) = k
      BY FS_Interval
    <2>6. /\ IsFiniteSet(Lesson!Slugs) /\ Cardinality(Lesson!Slugs) = MaxLessons + 1
      BY <1>2, FS_Interval DEF Lesson!Slugs
    <2>7. Cardinality(1 .. k) < Cardinality(Lesson!Slugs)
      BY <1>1, <1>2, <2>5, <2>6
    <2>8. \E x, y \in Lesson!Slugs : x # y /\ f[x] = f[y]
      BY <2>4, <2>5, <2>6, <2>7, FS_PigeonHole
    <2> QED
      BY <2>3, <2>8
  <1>4. \A n \in Free : n \in Nat /\ n >= 1
    BY <1>2 DEF Lesson!Slugs
  <1>5. PICK x \in Below : \A y \in Below : ~ (<<y, x>> \in StrictSubsetOrdering(Nat))
    <2>1. Below \subseteq FiniteSubsetsOf(Nat)
      <3>1. ASSUME NEW n \in Free PROVE 1 .. n \in FiniteSubsetsOf(Nat)
        <4>1. n \in Int /\ 1 .. n \subseteq Nat
          BY <1>4
        <4>2. IsFiniteSet(1 .. n)
          <5>1. ASSUME NEW b \in Int PROVE IsFiniteSet(1 .. b)
            BY FS_Interval
          <5> QED
            BY <4>1, <5>1
        <4> QED
          BY <4>1, <4>2 DEF FiniteSubsetsOf
      <3> QED
        BY <3>1
    <2>2. Below # {}
      BY <1>3
    <2> HIDE DEF Below
    <2> QED
      BY <2>1, <2>2, WFMin, FS_StrictSubsetOrderingWellFounded
  <1>6. PICK n \in Free : x = 1 .. n
    OBVIOUS
  <1>7. ASSUME NEW m \in 1 .. n - 1 PROVE Used(m)
    <2>1. m \in Lesson!Slugs /\ m < n
      BY <1>2, <1>4 DEF Lesson!Slugs
    <2>2. SUFFICES ASSUME m \in Free PROVE FALSE
      BY <2>1
    <2>3. 1 .. m \in Below /\ 1 .. m \subseteq 1 .. n /\ n \in 1 .. n /\ n \notin 1 .. m
      BY <1>4, <2>1, <2>2
    <2>4. <<1 .. m, 1 .. n>> \in StrictSubsetOrdering(Nat)
      BY <1>4, <2>3 DEF StrictSubsetOrdering
    <2> QED
      BY Zenon, <1>5, <1>6, <2>3, <2>4
  <1> QED
    BY <1>7 DEF Lesson!FreeSlug

(* The invariant of one request.                                            *)
LEMMA InAsk ==
    ASSUME LessonInv, NEW r \in Requests
    PROVE  /\ job[r] \in Asks /\ seen[r] \in Lesson!Row /\ Ready(r)
           /\ lessons \in Seq(Lesson!Row) /\ told \in Seq(LifeEvents)
           /\ Len(lessons) \in Nat /\ Len(told) \in Nat
  <1>1. job[r] \in Asks /\ seen[r] \in Lesson!Row
    BY DEF LessonInv, LessonTypes
  <1>2. Ready(r)
    BY DEF LessonInv
  <1>3. lessons \in Seq(Lesson!Row) /\ told \in Seq(LifeEvents)
    BY DEF LessonInv, LessonTypes
  <1> QED
    BY <1>1, <1>2, <1>3

(* Requests that are past their creation stay so.                           *)
LEMMA CreatedCount ==
    ASSUME Lesson!LessonsAssumption, NEW S \in SUBSET Requests
    PROVE  /\ IsFiniteSet(S) /\ Cardinality(S) \in Nat
           /\ Cardinality(S) <= Cardinality(Requests) /\ Cardinality(Requests) \in Nat
  <1>1. IsFiniteSet(Requests)
    BY DEF Lesson!LessonsAssumption, IsFiniteSet, Lesson!IsFiniteSet
  <1> QED
    BY <1>1, FS_Subset, FS_CardinalityType

(* Steps that leave the table and the ledger alone.                         *)
LEMMA TableRests ==
    ASSUME Lesson!LessonsAssumption, LessonInv, UNCHANGED <<lessons, told>>,
           LessonTypes', Created \subseteq Created', \A r \in Requests : Ready(r)'
    PROVE  LessonInv'
  <1>1. Len(lessons') <= 1 + Cardinality(Created)'
    <2>1. Created' \in SUBSET Requests /\ Created \in SUBSET Created'
      BY DEF Created
    <2>2. PICK S \in SUBSET Requests : S = Created'
      BY <2>1
    <2>3. IsFiniteSet(S) /\ Cardinality(S) \in Nat
      BY CreatedCount
    <2>4. Cardinality(Created) <= Cardinality(S) /\ Cardinality(Created) \in Nat
      <3>1. PICK T \in SUBSET S : T = Created
        BY <2>1, <2>2
      <3> QED
        BY <2>3, <3>1, FS_Subset, FS_CardinalityType
    <2>5. Len(lessons) \in Nat /\ Len(lessons) <= 1 + Cardinality(Created)
      BY DEF LessonInv, LessonTypes
    <2> QED
      BY <2>2, <2>3, <2>4, <2>5
  <1>2. Lesson!LedgerTellsLessons'
    <2>1. Lesson!LedgerTellsLessons
      BY DEF LessonInv
    <2> QED
      BY <2>1 DEF Lesson!LedgerTellsLessons, Lesson!LastOf, Lesson!TellsOf
  <1>3. Lesson!RowsAreSound'
    BY DEF LessonInv, Lesson!RowsAreSound
  <1> QED
    BY <1>1, <1>2, <1>3 DEF LessonInv

(* A request goes on to another stage, at most writing a manifest.          *)
LEMMA AsksGoOn ==
    ASSUME Lesson!LessonsAssumption, LessonInv, NEW r \in Requests,
           NEW l \in {"read", "missing", "again", "done", "refused"}, Lesson!Goto(r, l),
           UNCHANGED <<job, seen, lessons, told>>,
           manifest' \in [Lesson!Slugs -> {"missing", "skeleton", "authored", "rejected"}],
           askAt[r] \in {"read", "bundle", "missing", "again"},
           l = "read" => job[r].op # "create"
    PROVE  LessonInv'
  <1>1. /\ askAt'[r] = l /\ \A q \in Requests \ {r} : askAt'[q] = askAt[q]
        /\ LessonTypes'
    BY DEF LessonInv, LessonTypes, Lesson!Goto
  <1>2. ASSUME NEW q \in Requests PROVE Ready(q)'
    BY <1>1, InAsk DEF Ready
  <1>3. Created \subseteq Created'
    BY <1>1 DEF Created
  <1> QED
    BY <1>1, <1>2, <1>3, TableRests

LEMMA ReadsAsk ==
    ASSUME Lesson!LessonsAssumption, LessonInv, NEW r \in Requests, Lesson!Reads(r)
    PROVE  LessonInv'
  <1>1. UNCHANGED <<lessons, told, manifest>> /\ askAt[r] = "new"
    BY DEF Lesson!Reads, Lesson!Table
  <1>2. PICK k \in Nat : k = Len(lessons) /\ DOMAIN lessons = 1 .. k
    BY DEF LessonInv, LessonTypes
  <1>3. ASSUME NEW j \in Asks, NEW s \in Lesson!Row,
               NEW l \in {"read", "bundle", "done", "refused"},
               job' = [job EXCEPT ![r] = j], seen' = [seen EXCEPT ![r] = s],
               Lesson!Goto(r, l), j.op # "none", j.op = "create" => l = "read",
               j.op = "create" => \E n \in Lesson!Slugs : s = Lesson!NewRow(n),
               j.op # "create" => j.on \in 1 .. k,
               j.op = "status" => j.to \in Lesson!Statuses,
               j.op \notin {"create", "status"} => j.to = j.op
        PROVE  LessonInv'
    <2>1. LessonTypes'
      BY <1>1, <1>3 DEF LessonInv, LessonTypes, Lesson!Goto
    <2>2. /\ askAt'[r] = l /\ job'[r] = j /\ seen'[r] = s
          /\ \A q \in Requests \ {r} :
                askAt'[q] = askAt[q] /\ job'[q] = job[q] /\ seen'[q] = seen[q]
      BY <1>3 DEF LessonInv, LessonTypes, Lesson!Goto
    <2>3. ASSUME NEW q \in Requests PROVE Ready(q)'
      <3>1. CASE q = r
        BY <1>1, <1>2, <1>3, <2>2, <3>1 DEF Ready
      <3>2. CASE q # r
        BY <1>1, <2>2, <3>2, InAsk DEF Ready
      <3> QED
        BY <3>1, <3>2
    <2>4. Created \subseteq Created'
      BY <1>1, <2>2 DEF Created
    <2> QED
      BY <1>1, <2>1, <2>3, <2>4, TableRests
  <1>4. CASE /\ Len(lessons) < MaxLessons
             /\ job' = [job EXCEPT ![r] = [op |-> "create", on |-> 0, to |-> "backlog"]]
             /\ seen' = [seen EXCEPT ![r] = Lesson!NewRow(Lesson!FreeSlug)]
             /\ Lesson!Goto(r, "read")
    <2>1. PICK n \in Lesson!Slugs : n = Lesson!FreeSlug
      BY <1>4, FreeSlugExists DEF LessonInv
    <2>2. PICK s : s = Lesson!NewRow(n)
      OBVIOUS
    <2>3. s \in Lesson!Row
      BY <2>2 DEF Lesson!NewRow, Lesson!Row, Lesson!Statuses, Lesson!Slugs,
                  Lesson!LessonsAssumption
    <2>4. PICK j : j = [op |-> "create", on |-> 0, to |-> "backlog"]
      BY Zenon
    <2>5. j \in Asks /\ j.op = "create"
      BY <2>4 DEF Asks, Lesson!Statuses
    <2> QED
      BY Zenon, <1>3, <1>4, <2>1, <2>2, <2>3, <2>4, <2>5
  <1>5. ASSUME NEW i \in DOMAIN lessons, NEW l \in {"read", "bundle", "done", "refused"},
               NEW op \in {"archive", "restore", "entry", "status"},
               NEW to \in Lesson!Statuses \cup {"archive", "restore", "entry"},
               IF op = "status" THEN to \in Lesson!Statuses ELSE to = op,
               job' = [job EXCEPT ![r] = [op |-> op, on |-> i, to |-> to]],
               seen' = [seen EXCEPT ![r] = lessons[i]], Lesson!Goto(r, l)
        PROVE  LessonInv'
    <2>1. PICK s \in Lesson!Row : s = lessons[i]
      BY DEF LessonInv, LessonTypes
    <2>2. PICK j : j = [op |-> op, on |-> i, to |-> to]
      BY Zenon
    <2>3. j \in Asks /\ j.op = op /\ j.on \in 1 .. k /\ j.to = to
      BY <1>2, <2>2 DEF Asks
    <2> QED
      BY Zenon, <1>3, <1>5, <2>1, <2>2, <2>3
  <1>6. CASE \E i \in DOMAIN lessons : \E op \in {"archive", "restore", "entry"} :
               /\ job' = [job EXCEPT ![r] = [op |-> op, on |-> i, to |-> op]]
               /\ seen' = [seen EXCEPT ![r] = lessons[i]]
               /\ \E l \in {"read", "bundle", "done"} : Lesson!Goto(r, l)
    BY Zenon, <1>5, <1>6
  <1>7. CASE \E i \in DOMAIN lessons : \E s \in Lesson!Statuses :
               /\ job' = [job EXCEPT ![r] = [op |-> "status", on |-> i, to |-> s]]
               /\ seen' = [seen EXCEPT ![r] = lessons[i]]
               /\ \E l \in {"read", "refused"} : Lesson!Goto(r, l)
    BY Zenon, <1>5, <1>7
  <1> QED
    BY <1>4, <1>6, <1>7 DEF Lesson!Reads

(* A transaction adds one event: what the ledger said last of the others    *)
(* stays, and of its own lesson it is the last of its kind.                 *)
LEMMA LedgerGrows ==
    ASSUME LessonInv, NEW e \in LifeEvents, told' = Append(told, e)
    PROVE  /\ told' \in Seq(LifeEvents)
           /\ \E m \in Nat, k \in Nat :
                /\ k = m + 1 /\ DOMAIN told = 1 .. m /\ DOMAIN told' = 1 .. k
                /\ told'[k] = e /\ \A n \in 1 .. m : told'[n] = told[n]
                /\ \A i, ops : (e.on = i /\ e.op \in ops) =>
                      \A n \in 1 .. k : Lesson!LastOf(n, i, ops)' <=> n = k
                /\ \A i, ops : ~(e.on = i /\ e.op \in ops) =>
                      \A n \in 1 .. k : Lesson!LastOf(n, i, ops)' <=>
                                          (n \in 1 .. m /\ Lesson!LastOf(n, i, ops))
  <1>1. PICK m \in Nat : m = Len(told) /\ told \in Seq(LifeEvents)
    BY DEF LessonInv, LessonTypes
  <1>2. PICK k \in Nat : k = m + 1
    OBVIOUS
  <1>3. /\ told' \in Seq(LifeEvents) /\ DOMAIN told = 1 .. m /\ DOMAIN told' = 1 .. k
        /\ told'[k] = e /\ \A n \in 1 .. m : told'[n] = told[n]
    BY <1>1, <1>2
  <1>4. \A n \in 1 .. k : n # k => n \in 1 .. m /\ n < k /\ ~(k <= n)
    BY <1>2
  <1>5. k \in 1 .. k /\ \A n \in 1 .. k : n <= k /\ n \in Nat
    BY <1>2
  <1>6. 1 .. m \subseteq 1 .. k
    BY <1>2
  <1>7. ASSUME NEW i, NEW ops
        PROVE  /\ Lesson!TellsOf(k, i, ops)' <=> (e.on = i /\ e.op \in ops)
               /\ \A n \in 1 .. m : Lesson!TellsOf(n, i, ops)' <=> Lesson!TellsOf(n, i, ops)
    BY <1>3 DEF Lesson!TellsOf
  <1>8. ASSUME NEW i, NEW ops, e.on = i /\ e.op \in ops, NEW n \in 1 .. k
        PROVE  Lesson!LastOf(n, i, ops)' <=> n = k
    <2>1. Lesson!TellsOf(k, i, ops)'
      BY <1>7, <1>8
    <2>2. Lesson!LastOf(n, i, ops)' <=>
            (Lesson!TellsOf(n, i, ops)' /\ \A x \in 1 .. k : Lesson!TellsOf(x, i, ops)' => x <= n)
      BY <1>3 DEF Lesson!LastOf
    <2> QED
      BY <1>4, <1>5, <2>1, <2>2
  <1>9. ASSUME NEW i, NEW ops, ~(e.on = i /\ e.op \in ops), NEW n \in 1 .. k
        PROVE  Lesson!LastOf(n, i, ops)' <=> (n \in 1 .. m /\ Lesson!LastOf(n, i, ops))
    <2>1. ~Lesson!TellsOf(k, i, ops)'
      BY <1>7, <1>9
    <2>2. Lesson!LastOf(n, i, ops)' <=>
            (Lesson!TellsOf(n, i, ops)' /\ \A x \in 1 .. k : Lesson!TellsOf(x, i, ops)' => x <= n)
      BY <1>3 DEF Lesson!LastOf
    <2>3. Lesson!LastOf(n, i, ops) <=>
            (Lesson!TellsOf(n, i, ops) /\ \A x \in 1 .. m : Lesson!TellsOf(x, i, ops) => x <= n)
      BY <1>3 DEF Lesson!LastOf
    <2> QED
      BY Zenon, <1>4, <1>6, <1>7, <2>1, <2>2, <2>3
  <1> QED
    BY <1>2, <1>3, <1>8, <1>9

LEMMA CreatesLesson ==
    ASSUME Lesson!LessonsAssumption, LessonInv, NEW r \in Requests, Lesson!Creates(r)
    PROVE  LessonInv'
  <1>1. /\ askAt[r] = "read" /\ job[r].op = "create" /\ UNCHANGED <<seen, manifest>>
        /\ manifest \in [Lesson!Slugs -> {"missing", "skeleton", "authored", "rejected"}]
    BY DEF LessonInv, LessonTypes, Lesson!Creates
  <1>2. PICK slug \in Lesson!Slugs : seen[r] = Lesson!NewRow(slug)
    BY <1>1, InAsk DEF Ready
  <1>3. CASE Lesson!Goto(r, "refused") /\ UNCHANGED <<job, lessons, told>>
    BY <1>1, <1>3, AsksGoOn
  <1>4. PICK k \in Nat : k = Len(lessons) /\ DOMAIN lessons = 1 .. k
    BY DEF LessonInv, LessonTypes
  <1>5. PICK i \in Nat : i = k + 1
    OBVIOUS
  <1>6. PICK row_ : row_ = seen[r]
    OBVIOUS
  <1>7. row_ \in Lesson!Row /\ row_.slug = slug /\ row_.status = "backlog"
        /\ row_.archived = FALSE /\ row_.started = FALSE /\ row_.completed = FALSE
    <2>1. row_ \in Lesson!Row
      BY <1>6, InAsk
    <2> QED
      BY <1>2, <1>6, <2>1 DEF Lesson!NewRow
  <1>8. PICK e : e = [op |-> "create", on |-> i, from |-> "none", to |-> "backlog"]
    BY Zenon
  <1>9. e \in LifeEvents /\ e.op = "create" /\ e.on = i /\ e.to = "backlog"
    BY <1>8 DEF LifeEvents, Lesson!Statuses
  <1>10. CASE /\ ~Lesson!Taken(slug) /\ lessons' = Append(lessons, row_)
              /\ job' = [job EXCEPT ![r].on = i] /\ told' = Append(told, e)
              /\ Lesson!Goto(r, "bundle")
    <2>1. PICK m \in Nat, n_ \in Nat :
             /\ n_ = m + 1 /\ DOMAIN told = 1 .. m /\ DOMAIN told' = 1 .. n_
             /\ told'[n_] = e /\ \A n \in 1 .. m : told'[n] = told[n]
             /\ \A x, ops : (e.on = x /\ e.op \in ops) =>
                   \A n \in 1 .. n_ : Lesson!LastOf(n, x, ops)' <=> n = n_
             /\ \A x, ops : ~(e.on = x /\ e.op \in ops) =>
                   \A n \in 1 .. n_ : Lesson!LastOf(n, x, ops)' <=>
                                       (n \in 1 .. m /\ Lesson!LastOf(n, x, ops))
      BY Zenon, <1>9, <1>10, LedgerGrows
    <2>2. /\ lessons' \in Seq(Lesson!Row) /\ Len(lessons') = i /\ DOMAIN lessons' = 1 .. i
          /\ lessons'[i] = row_ /\ \A x \in 1 .. k : lessons'[x] = lessons[x]
      BY <1>4, <1>5, <1>7, <1>10, InAsk
    <2>3. PICK j : j = [job[r] EXCEPT !.on = i]
      BY Zenon
    <2>4. j \in Asks /\ j.op = "create"
      BY Zenon, <1>1, <2>3, InAsk DEF Asks
    <2>5. job' = [job EXCEPT ![r] = j]
      BY <1>10, <2>3
    <2>6. /\ askAt'[r] = "bundle" /\ job'[r] = j
          /\ \A q \in Requests \ {r} : askAt'[q] = askAt[q] /\ job'[q] = job[q]
      BY <1>10, <2>5 DEF LessonInv, LessonTypes, Lesson!Goto
    <2>7. LessonTypes'
      <3>1. told' \in Seq(LifeEvents)
        BY <1>9, <1>10, LedgerGrows
      <3>2. job' \in [Requests -> Asks]
        BY <2>4, <2>5 DEF LessonInv, LessonTypes
      <3> QED
        BY <1>1, <1>10, <2>2, <3>1, <3>2 DEF LessonInv, LessonTypes, Lesson!Goto
    <2>8. ASSUME NEW q \in Requests PROVE Ready(q)'
      <3>1. CASE q = r
        BY <1>5, <2>2, <2>4, <2>6, <3>1 DEF Ready
      <3>2. CASE q # r
        BY <1>1, <1>4, <1>5, <2>2, <2>6, <3>2, InAsk DEF Ready
      <3> QED
        BY <3>1, <3>2
    <2>9. Len(lessons') <= 1 + Cardinality(Created)'
      <3>1. PICK S \in SUBSET Requests : S = Created
        BY Zenon DEF Created
      <3>2. r \notin S
        BY <1>1, <3>1 DEF Created
      <3>3. Created' = S \cup {r}
        BY <1>1, <2>4, <2>6, <3>1 DEF Created
      <3>4. IsFiniteSet(S) /\ Cardinality(S) \in Nat
        BY CreatedCount
      <3>5. Cardinality(S \cup {r}) = Cardinality(S) + 1
        BY Zenon, <3>2, <3>4, FS_AddElement
      <3>6. k <= 1 + Cardinality(S)
        BY <1>4, <3>1 DEF LessonInv
      <3> QED
        BY <1>5, <2>2, <3>3, <3>4, <3>5, <3>6
    <2>10. \A n \in DOMAIN told' : told'[n].on \in DOMAIN lessons'
      <3>1. \A n \in 1 .. m : told[n].on \in 1 .. k
        BY <1>4, <2>1 DEF LessonInv
      <3>2. \A n \in 1 .. n_ : n \in 1 .. m \/ n = n_
        BY <2>1
      <3> QED
        BY <1>4, <1>5, <1>9, <2>1, <2>2, <3>1, <3>2
    <2>11. Lesson!LedgerTellsLessons'
      <3>1. ASSUME NEW x \in 1 .. k
            PROVE  /\ \E n \in 1 .. n_ : /\ Lesson!LastOf(n, x, {"create", "status"})'
                                         /\ lessons'[x].status = told'[n].to
                   /\ lessons'[x].archived <=>
                        \E n \in 1 .. n_ : /\ Lesson!LastOf(n, x, {"archive", "restore"})'
                                           /\ told'[n].op = "archive"
        <4>1. lessons'[x] = lessons[x] /\ e.on # x
          BY <1>5, <1>9, <2>2
        <4>2. \A n \in 1 .. m : n \in 1 .. n_
          BY <2>1
        <4>3. /\ \E n \in 1 .. m : /\ Lesson!LastOf(n, x, {"create", "status"})
                                   /\ lessons[x].status = told[n].to
              /\ lessons[x].archived <=>
                   \E n \in 1 .. m : /\ Lesson!LastOf(n, x, {"archive", "restore"})
                                     /\ told[n].op = "archive"
          BY Zenon, <1>4, <2>1 DEF LessonInv, Lesson!LedgerTellsLessons
        <4>4. ASSUME NEW n \in 1 .. n_, NEW ops
              PROVE  Lesson!LastOf(n, x, ops)' <=> (n \in 1 .. m /\ Lesson!LastOf(n, x, ops))
          BY <2>1, <4>1
        <4>5. \E n \in 1 .. n_ : /\ Lesson!LastOf(n, x, {"create", "status"})'
                                 /\ lessons'[x].status = told'[n].to
          BY <2>1, <4>1, <4>2, <4>3, <4>4
        <4>6. lessons'[x].archived <=>
                 \E n \in 1 .. n_ : /\ Lesson!LastOf(n, x, {"archive", "restore"})'
                                    /\ told'[n].op = "archive"
          BY <2>1, <4>1, <4>2, <4>3, <4>4
        <4> QED
          BY <4>5, <4>6
      <3>2. /\ \E n \in 1 .. n_ : /\ Lesson!LastOf(n, i, {"create", "status"})'
                                  /\ lessons'[i].status = told'[n].to
            /\ lessons'[i].archived <=>
                 \E n \in 1 .. n_ : /\ Lesson!LastOf(n, i, {"archive", "restore"})'
                                    /\ told'[n].op = "archive"
        <4>1. n_ \in 1 .. n_ /\ Lesson!LastOf(n_, i, {"create", "status"})'
          <5>1. PICK ops : ops = {"create", "status"}
            BY Zenon
          <5>2. e.on = i /\ e.op \in ops /\ n_ \in 1 .. n_
            BY <1>9, <2>1, <5>1
          <5>3. Lesson!LastOf(n_, i, ops)'
            BY <2>1, <5>2
          <5> QED
            BY <5>1, <5>2, <5>3
        <4>2. ASSUME NEW n \in 1 .. n_, Lesson!LastOf(n, i, {"archive", "restore"})' PROVE FALSE
          <5>1. n \in 1 .. m /\ Lesson!LastOf(n, i, {"archive", "restore"})
            BY <1>9, <2>1, <4>2
          <5>2. told[n].on = i /\ told[n].on \in 1 .. k
            BY <1>4, <2>1, <5>1 DEF LessonInv, Lesson!LastOf, Lesson!TellsOf
          <5> QED
            BY <1>5, <5>2
        <4> QED
          BY <1>7, <1>9, <2>1, <2>2, <4>1, <4>2
      <3>3. \A x \in 1 .. i : x \in 1 .. k \/ x = i
        BY <1>5
      <3> QED
        BY ZenonT(60), <2>1, <2>2, <3>1, <3>2, <3>3 DEF Lesson!LedgerTellsLessons
    <2>12. Lesson!RowsAreSound'
      <3>1. \A x \in 1 .. i : x \in 1 .. k \/ x = i
        BY <1>5
      <3>2. \A x \in 1 .. k : lessons[x].slug # slug
        BY <1>4, <1>10 DEF Lesson!Taken
      <3>3. /\ \A x \in 1 .. k :
                 /\ lessons[x].started = (lessons[x].status # "backlog")
                 /\ lessons[x].completed = (lessons[x].status = "studied")
            /\ \A x, y \in 1 .. k : lessons[x].slug = lessons[y].slug => x = y
        BY <1>4 DEF LessonInv, Lesson!RowsAreSound
      <3>4. \A x \in 1 .. i :
                 /\ lessons'[x].started = (lessons'[x].status # "backlog")
                 /\ lessons'[x].completed = (lessons'[x].status = "studied")
        BY ZenonT(60), <1>7, <2>2, <3>1, <3>3
      <3>5. \A x, y \in 1 .. i : lessons'[x].slug = lessons'[y].slug => x = y
        BY <1>7, <2>2, <3>1, <3>2, <3>3
      <3> QED
        BY <2>2, <3>4, <3>5 DEF Lesson!RowsAreSound
    <2> QED
      BY <2>7, <2>8, <2>9, <2>10, <2>11, <2>12 DEF LessonInv
  <1> QED
    <2>1. seen[r].slug = slug
      BY <1>6, <1>7
    <2>2. CASE Lesson!Taken(slug)
      BY <1>3, <2>1, <2>2 DEF Lesson!Creates, Lesson!Table
    <2>3. CASE ~Lesson!Taken(slug)
      <3>1. /\ lessons' = Append(lessons, row_) /\ Lesson!Goto(r, "bundle")
            /\ job' = [job EXCEPT ![r].on = i] /\ told' = Append(told, e)
        BY <1>4, <1>5, <1>6, <1>8, <2>1, <2>3 DEF Lesson!Creates
      <3> QED
        BY <1>10, <2>3, <3>1
    <2> QED
      BY <2>2, <2>3

LEMMA UpdatesLesson ==
    ASSUME Lesson!LessonsAssumption, LessonInv, NEW r \in Requests, Lesson!Updates(r)
    PROVE  LessonInv'
  <1>1. /\ askAt[r] = "read" /\ job[r].op # "create" /\ UNCHANGED <<job, seen, manifest>>
        /\ Lesson!Goto(r, "done")
    BY DEF Lesson!Updates
  <1>2. PICK k \in Nat : k = Len(lessons) /\ DOMAIN lessons = 1 .. k
    BY DEF LessonInv, LessonTypes
  <1>3. PICK j \in Asks : j = job[r]
    BY InAsk
  <1>4. PICK i \in 1 .. k : i = j.on
    BY <1>1, <1>2, <1>3, InAsk DEF Ready
  <1>5. PICK op \in {"status", "archive", "restore", "entry"} :
          /\ op = j.op /\ (op = "status" => j.to \in Lesson!Statuses)
          /\ op # "status" => j.to = op
    BY <1>1, <1>3, InAsk DEF Ready, Asks
  <1>6. PICK old \in Lesson!Row : old = lessons[i]
    BY <1>2 DEF LessonInv, LessonTypes
  <1>7. PICK new : new = Lesson!Written(r, old)
    OBVIOUS
  <1>8. /\ new \in Lesson!Row /\ new.slug = old.slug
        /\ op = "status" => /\ new.status = j.to /\ new.archived = old.archived
                            /\ new.started = (j.to # "backlog")
                            /\ new.completed = (j.to = "studied")
        /\ op # "status" => /\ new.status = old.status /\ new.started = old.started
                            /\ new.completed = old.completed
        /\ op = "archive" => new.archived
        /\ op = "restore" => ~new.archived
        /\ op = "entry" => new.archived = old.archived
    <2>1. CASE op = "status"
      <3>1. PICK st \in BOOLEAN : st = (j.to # "backlog")
        BY Zenon
      <3>2. PICK cp \in BOOLEAN : cp = (j.to = "studied")
        BY Zenon
      <3>3. new = [old EXCEPT !.status = j.to, !.started = st, !.completed = cp]
        BY <1>3, <1>5, <1>7, <2>1, <3>1, <3>2
           DEF Lesson!Written, Lesson!Changed, Lesson!Started, Lesson!Completed
      <3> QED
        BY Zenon, <1>5, <2>1, <3>1, <3>2, <3>3 DEF Lesson!Row
    <2>2. CASE op = "archive"
      <3>1. new = [old EXCEPT !.archived = TRUE]
        BY <1>3, <1>5, <1>7, <2>2 DEF Lesson!Written, Lesson!Changed
      <3> QED
        BY Zenon, <2>2, <3>1 DEF Lesson!Row
    <2>3. CASE op = "restore"
      <3>1. new = [old EXCEPT !.archived = FALSE]
        BY <1>3, <1>5, <1>7, <2>3 DEF Lesson!Written, Lesson!Changed
      <3> QED
        BY Zenon, <2>3, <3>1 DEF Lesson!Row
    <2>4. CASE op = "entry"
      BY <1>3, <1>5, <1>7, <2>4 DEF Lesson!Written, Lesson!Changed
    <2> QED
      BY <1>5, <2>1, <2>2, <2>3, <2>4
  <1>9. lessons' = [lessons EXCEPT ![i] = new]
    BY <1>3, <1>4, <1>6, <1>7 DEF Lesson!Updates
  <1>10. /\ lessons' \in Seq(Lesson!Row) /\ Len(lessons') = k /\ DOMAIN lessons' = 1 .. k
         /\ lessons'[i] = new /\ \A x \in (1 .. k) \ {i} : lessons'[x] = lessons[x]
    BY <1>2, <1>8, <1>9, InAsk
  <1>11. PICK from \in Lesson!Statuses : from = seen[r].status
    BY InAsk DEF Lesson!Row
  <1>12. PICK e : e = [op |-> op, on |-> i, from |-> from, to |-> j.to]
    BY Zenon
  <1>13. e \in LifeEvents /\ e.op = op /\ e.on = i /\ e.to = j.to
    BY <1>5, <1>12 DEF LifeEvents
  <1>14. told' = Append(told, e)
    BY <1>3, <1>4, <1>5, <1>11, <1>12 DEF Lesson!Updates, Lesson!Logs
  <1>15. PICK m \in Nat, n_ \in Nat :
             /\ n_ = m + 1 /\ DOMAIN told = 1 .. m /\ DOMAIN told' = 1 .. n_
             /\ told'[n_] = e /\ \A n \in 1 .. m : told'[n] = told[n]
             /\ \A x, ops : (e.on = x /\ e.op \in ops) =>
                   \A n \in 1 .. n_ : Lesson!LastOf(n, x, ops)' <=> n = n_
             /\ \A x, ops : ~(e.on = x /\ e.op \in ops) =>
                   \A n \in 1 .. n_ : Lesson!LastOf(n, x, ops)' <=>
                                       (n \in 1 .. m /\ Lesson!LastOf(n, x, ops))
    BY Zenon, <1>13, <1>14, LedgerGrows
  <1>16. LessonTypes'
    <2>1. told' \in Seq(LifeEvents)
      BY <1>13, <1>14, LedgerGrows
    <2> QED
      BY <1>1, <1>10, <2>1 DEF LessonInv, LessonTypes, Lesson!Goto
  <1>17. /\ askAt'[r] = "done" /\ \A q \in Requests \ {r} : askAt'[q] = askAt[q]
    BY <1>1 DEF LessonInv, LessonTypes, Lesson!Goto
  <1>18. ASSUME NEW q \in Requests PROVE Ready(q)'
    BY Zenon, <1>1, <1>2, <1>10, <1>17, InAsk DEF Ready
  <1>19. Len(lessons') <= 1 + Cardinality(Created)'
    <2>1. Created' = Created
      BY <1>1, <1>17 DEF Created
    <2> QED
      BY <1>2, <1>10, <2>1 DEF LessonInv
  <1>20. \A n \in DOMAIN told' : told'[n].on \in DOMAIN lessons'
    <2>1. \A n \in 1 .. m : told[n].on \in 1 .. k
      BY <1>2, <1>15 DEF LessonInv
    <2>2. \A n \in 1 .. n_ : n \in 1 .. m \/ n = n_
      BY <1>15
    <2> QED
      BY <1>10, <1>13, <1>15, <2>1, <2>2
  <1>21. Lesson!LedgerTellsLessons'
    <2>1. SUFFICES ASSUME NEW x \in 1 .. k
                   PROVE  /\ \E n \in 1 .. n_ : /\ Lesson!LastOf(n, x, {"create", "status"})'
                                                /\ lessons'[x].status = told'[n].to
                          /\ lessons'[x].archived <=>
                               \E n \in 1 .. n_ : /\ Lesson!LastOf(n, x, {"archive", "restore"})'
                                                  /\ told'[n].op = "archive"
      BY ZenonT(60), <1>10, <1>15 DEF Lesson!LedgerTellsLessons
    <2>2. /\ \E n \in 1 .. m : /\ Lesson!LastOf(n, x, {"create", "status"})
                               /\ lessons[x].status = told[n].to
          /\ lessons[x].archived <=>
               \E n \in 1 .. m : /\ Lesson!LastOf(n, x, {"archive", "restore"})
                                 /\ told[n].op = "archive"
      BY Zenon, <1>2, <1>15 DEF LessonInv, Lesson!LedgerTellsLessons
    <2>3. n_ \in 1 .. n_ /\ \A n \in 1 .. m : n \in 1 .. n_
      BY <1>15
    <2>4. \E n \in 1 .. n_ : /\ Lesson!LastOf(n, x, {"create", "status"})'
                             /\ lessons'[x].status = told'[n].to
      <3>1. PICK ops : ops = {"create", "status"}
        BY Zenon
      <3>2. CASE x = i /\ op = "status"
        <4>1. e.on = x /\ e.op \in ops
          BY <1>13, <3>1, <3>2
        <4>2. Lesson!LastOf(n_, x, ops)'
          BY <1>15, <2>3, <4>1
        <4>3. lessons'[x].status = told'[n_].to
          BY <1>8, <1>10, <1>13, <1>15, <3>2
        <4> QED
          BY <2>3, <3>1, <4>2, <4>3
      <3>3. CASE ~(x = i /\ op = "status")
        <4>1. ~(e.on = x /\ e.op \in ops)
          BY <1>5, <1>13, <3>1, <3>3
        <4>2. lessons'[x].status = lessons[x].status
          BY <1>5, <1>6, <1>8, <1>10, <3>3
        <4>3. PICK n \in 1 .. m : Lesson!LastOf(n, x, ops) /\ lessons[x].status = told[n].to
          BY <2>2, <3>1
        <4>4. Lesson!LastOf(n, x, ops)' /\ told'[n] = told[n] /\ n \in 1 .. n_
          BY <1>15, <2>3, <4>1, <4>3
        <4> QED
          BY <3>1, <4>2, <4>3, <4>4
      <3> QED
        BY <3>2, <3>3
    <2>5. lessons'[x].archived <=>
             \E n \in 1 .. n_ : /\ Lesson!LastOf(n, x, {"archive", "restore"})'
                                /\ told'[n].op = "archive"
      <3>1. PICK ops : ops = {"archive", "restore"}
        BY Zenon
      <3>2. CASE x = i /\ op \in {"archive", "restore"}
        <4>1. e.on = x /\ e.op \in ops
          BY <1>13, <3>1, <3>2
        <4>2. \A n \in 1 .. n_ : Lesson!LastOf(n, x, ops)' <=> n = n_
          BY <1>15, <4>1
        <4>3. told'[n_].op = op /\ (lessons'[x].archived <=> op = "archive")
          BY <1>8, <1>10, <1>13, <1>15, <3>2
        <4> QED
          BY <2>3, <3>1, <4>2, <4>3
      <3>3. CASE ~(x = i /\ op \in {"archive", "restore"})
        <4>1. ~(e.on = x /\ e.op \in ops)
          BY <1>5, <1>13, <3>1, <3>3
        <4>2. lessons'[x].archived = lessons[x].archived
          BY <1>5, <1>6, <1>8, <1>10, <3>3
        <4>3. \A n \in 1 .. n_ : Lesson!LastOf(n, x, ops)' <=>
                                   (n \in 1 .. m /\ Lesson!LastOf(n, x, ops))
          BY <1>15, <4>1
        <4>4. lessons[x].archived <=>
                 \E n \in 1 .. m : Lesson!LastOf(n, x, ops) /\ told[n].op = "archive"
          BY <2>2, <3>1
        <4>5. lessons[x].archived <=>
                 \E n \in 1 .. n_ : Lesson!LastOf(n, x, ops)' /\ told'[n].op = "archive"
          BY <1>15, <2>3, <4>3, <4>4
        <4> QED
          BY <3>1, <4>2, <4>5
      <3> QED
        BY <3>2, <3>3
    <2> QED
      BY <2>4, <2>5
  <1>22. Lesson!RowsAreSound'
    <2>1. /\ \A x \in 1 .. k :
                 /\ lessons[x].started = (lessons[x].status # "backlog")
                 /\ lessons[x].completed = (lessons[x].status = "studied")
          /\ \A x, y \in 1 .. k : lessons[x].slug = lessons[y].slug => x = y
      BY <1>2 DEF LessonInv, Lesson!RowsAreSound
    <2>2. /\ new.started = (new.status # "backlog")
          /\ new.completed = (new.status = "studied")
      BY <1>6, <1>8, <2>1
    <2>3. \A x \in 1 .. k : lessons'[x].slug = lessons[x].slug
      BY <1>6, <1>8, <1>10
    <2>4. \A x \in 1 .. k :
                 /\ lessons'[x].started = (lessons'[x].status # "backlog")
                 /\ lessons'[x].completed = (lessons'[x].status = "studied")
      BY <1>10, <2>1, <2>2
    <2> QED
      BY <1>10, <2>1, <2>3, <2>4 DEF Lesson!RowsAreSound
  <1> QED
    BY <1>16, <1>18, <1>19, <1>20, <1>21, <1>22 DEF LessonInv

LEMMA LessonsInitially ==
    ASSUME Lesson!LessonsAssumption, Lesson!Init PROVE LessonInv
  <1>1. /\ Lesson!NewRow(1) \in Lesson!Row /\ Lesson!NewRow(0) \in Lesson!Row
        /\ Lesson!NewRow(1).status = "backlog" /\ Lesson!NewRow(1).started = FALSE
        /\ Lesson!NewRow(1).completed = FALSE /\ Lesson!NewRow(1).archived = FALSE
    BY DEF Lesson!NewRow, Lesson!Row, Lesson!Statuses, Lesson!LessonsAssumption
  <1>2. PICK row_ : row_ = Lesson!NewRow(1)
    OBVIOUS
  <1>3. PICK e : e = [op |-> "create", on |-> 1, from |-> "none", to |-> "backlog"]
    BY Zenon
  <1>4. e \in LifeEvents /\ e.op = "create" /\ e.on = 1 /\ e.to = "backlog"
    BY <1>3 DEF LifeEvents, Lesson!Statuses
  <1>5. lessons = <<row_>> /\ told = <<e>>
    BY <1>2, <1>3 DEF Lesson!Init
  <1>6. /\ lessons \in Seq(Lesson!Row) /\ Len(lessons) = 1 /\ DOMAIN lessons = {1}
        /\ lessons[1] = row_
    BY <1>1, <1>2, <1>5
  <1>7. told \in Seq(LifeEvents) /\ DOMAIN told = {1} /\ told[1] = e
    BY <1>4, <1>5
  <1>8. LessonTypes
    <2>1. Lesson!NoJob \in Asks
      BY DEF Lesson!NoJob, Asks
    <2> QED
      BY <1>1, <1>6, <1>7, <2>1 DEF Lesson!Init, LessonTypes
  <1>9. \A r \in Requests : Ready(r)
    BY Zenon DEF Lesson!Init, Ready
  <1>10. Len(lessons) <= 1 + Cardinality(Created)
    <2>1. PICK S \in SUBSET Requests : S = Created
      BY Zenon DEF Created
    <2>2. Cardinality(S) \in Nat
      BY CreatedCount
    <2> QED
      BY <1>6, <2>1, <2>2
  <1>11. Lesson!LedgerTellsLessons
    BY <1>1, <1>2, <1>4, <1>6, <1>7
       DEF Lesson!LedgerTellsLessons, Lesson!LastOf, Lesson!TellsOf
  <1>12. Lesson!RowsAreSound
    BY Zenon, <1>1, <1>2, <1>6 DEF Lesson!RowsAreSound
  <1> QED
    BY <1>4, <1>6, <1>7, <1>8, <1>9, <1>10, <1>11, <1>12 DEF LessonInv

LEMMA LessonStep ==
    ASSUME Lesson!LessonsAssumption, LessonInv, [Lesson!Next]_Lesson!vars
    PROVE  LessonInv'
  <1>1. manifest \in [Lesson!Slugs -> {"missing", "skeleton", "authored", "rejected"}]
    BY DEF LessonInv, LessonTypes
  <1>2. ASSUME NEW r \in Requests, Lesson!Ensures(r) \/ Lesson!BundleFails(r)
        PROVE  LessonInv'
    <2>1. /\ UNCHANGED <<job, seen, lessons, told, manifest>>
          /\ askAt[r] \in {"bundle", "missing", "again"}
      BY <1>2 DEF Lesson!Ensures, Lesson!BundleFails, Lesson!Table
    <2>2. PICK l \in {"read", "missing", "again", "done", "refused"} :
             Lesson!Goto(r, l) /\ (l = "read" => job[r].op # "create")
      BY <1>2 DEF Lesson!Ensures, Lesson!BundleFails
    <2> QED
      BY <1>1, <2>1, <2>2, AsksGoOn
  <1>3. ASSUME NEW r \in Requests, Lesson!WritesSkeleton(r) PROVE LessonInv'
    <2>1. manifest' \in [Lesson!Slugs -> {"missing", "skeleton", "authored", "rejected"}]
      BY Zenon, <1>1, <1>3 DEF Lesson!WritesSkeleton
    <2> QED
      BY <1>3, <2>1, AsksGoOn DEF Lesson!WritesSkeleton, Lesson!Table
  <1>4. CASE \/ Lesson!AgentWrites
             \/ UNCHANGED Lesson!vars
    <2>1. manifest' \in [Lesson!Slugs -> {"missing", "skeleton", "authored", "rejected"}]
      BY <1>1, <1>4 DEF Lesson!AgentWrites, Lesson!vars
    <2>2. UNCHANGED <<askAt, job, seen, lessons, told>>
      BY <1>4 DEF Lesson!AgentWrites, Lesson!vars, Lesson!Table
    <2>3. LessonTypes' /\ Created' = Created
      BY <2>1, <2>2 DEF LessonInv, LessonTypes, Created
    <2>4. ASSUME NEW q \in Requests PROVE Ready(q)'
      BY <2>2, InAsk DEF Ready
    <2> QED
      BY <2>2, <2>3, <2>4, TableRests
  <1> QED
    BY <1>2, <1>3, <1>4, ReadsAsk, CreatesLesson, UpdatesLesson DEF Lesson!Next

LEMMA LessonScene ==
    ASSUME [Next]_all, scene' = "lessons"
    PROVE  scene = "lessons" /\ [Lesson!Next]_Lesson!vars
  BY DEF Next, all, state, Lesson!vars

(* The ledger tells every lesson's status and archival, the stamps fit the  *)
(* status, and no slug is given out twice, whatever requests overlap        *)
(* (services/lessons.py).                                                   *)
THEOREM LessonsTold == Spec => []LessonsAreTold
  <1> DEFINE Inv == scene = "lessons" => LessonInv
  <1>1. Init => Inv
    BY LessonsInitially, LogsAssumption DEF Init
  <1>2. Inv /\ [Next]_all => Inv'
    BY LessonScene, LessonStep, LogsAssumption
  <1>3. LessonInv => Lesson!TypeOK
    <2>1. SUFFICES ASSUME LessonInv PROVE Lesson!TypeOK
      OBVIOUS
    <2>2. PICK S \in SUBSET Requests : S = Created
      BY Zenon DEF Created
    <2>3. Cardinality(S) <= Cardinality(Requests) /\ Cardinality(S) \in Nat
          /\ Cardinality(Requests) \in Nat
      BY CreatedCount, LogsAssumption
    <2>4. Len(lessons) <= 1 + Cardinality(S) /\ Len(lessons) \in Nat
      BY <2>1, <2>2 DEF LessonInv, LessonTypes
    <2>5. MaxLessons \in Nat /\ MaxLessons >= 1
      BY LogsAssumption DEF Lesson!LessonsAssumption
    <2>6. Len(lessons) <= MaxLessons + Cardinality(Requests)
      BY <2>3, <2>4, <2>5
    <2> QED
      BY <2>1, <2>6 DEF Lesson!TypeOK, LessonInv, LessonTypes, Cardinality,
                        Lesson!Cardinality
  <1>4. Inv => LessonsAreTold
    BY <1>3 DEF LessonsAreTold, LessonInv
  <1> QED
    BY <1>1, <1>2, <1>4, PTL DEF Spec

-----------------------------------------------------------------------------
(* The run log.                                                             *)

(* A set of naturals that is not empty has a least element, and a greatest  *)
(* one when it is bounded.                                                  *)
LEMMA LeastExists ==
    ASSUME NEW T \in SUBSET Nat, T # {}
    PROVE  \E n \in T : \A m \in T : n <= m
  <1> DEFINE Below == {1 .. n : n \in T}
  <1>1. PICK x \in Below : \A y \in Below : ~ (<<y, x>> \in StrictSubsetOrdering(Nat))
    <2>1. Below \subseteq FiniteSubsetsOf(Nat)
      <3>1. ASSUME NEW n \in Int PROVE IsFiniteSet(1 .. n)
        BY FS_Interval
      <3>2. ASSUME NEW n \in T PROVE 1 .. n \in FiniteSubsetsOf(Nat)
        BY <3>1 DEF FiniteSubsetsOf
      <3> QED
        BY <3>2
    <2>2. Below # {}
      BY Zenon
    <2> HIDE DEF Below
    <2> QED
      BY <2>1, <2>2, WFMin, FS_StrictSubsetOrderingWellFounded
  <1>2. PICK n \in T : x = 1 .. n
    OBVIOUS
  <1>3. ASSUME NEW m \in T, ~(n <= m) PROVE FALSE
    <2>1. 1 .. m \in Below /\ 1 .. m \subseteq 1 .. n /\ n \in 1 .. n /\ n \notin 1 .. m
      BY <1>3
    <2>2. <<1 .. m, 1 .. n>> \in StrictSubsetOrdering(Nat)
      BY <2>1 DEF StrictSubsetOrdering
    <2> QED
      BY Zenon, <1>1, <1>2, <2>1, <2>2
  <1> QED
    BY <1>3

LEMMA GreatestExists ==
    ASSUME NEW n \in Nat, NEW T \in SUBSET (0 .. n), T # {}
    PROVE  \E k \in T : \A j \in T : j <= k
  <1> DEFINE Gaps == {n - k : k \in T}
  <1>1. Gaps \in SUBSET Nat /\ Gaps # {}
    <2>1. \A k \in T : k \in 0 .. n /\ n - k \in Nat
      OBVIOUS
    <2> QED
      BY Zenon, <2>1
  <1>2. PICK g \in Gaps : \A h \in Gaps : g <= h
    BY Zenon, <1>1, LeastExists
  <1>3. PICK k \in T : g = n - k
    OBVIOUS
  <1>4. ASSUME NEW j \in T PROVE j <= k
    <2>1. n - j \in Gaps
      OBVIOUS
    <2> QED
      BY <1>2, <1>3, <2>1
  <1> QED
    BY <1>4

(* What a line weighs.                                                      *)
LEMMA LineWeighs ==
    ASSUME Log!LogAssumption, NEW l \in Log!Lines
    PROVE  Log!LineBytes(l) \in Nat /\ Log!LineBytes(l) > 0
  BY DEF Log!LogAssumption, Log!Lines, Log!LineBytes

(* Sums of the lengths of the lines of a file, one for every prefix.        *)
IsSum(f, s, n) ==
    /\ f[0] = 0
    /\ \A i \in 1 .. n : f[i] = f[i - 1] + Log!LineBytes(s[i])

SameLines(s, t, n) == \A i \in 1 .. n : s[i] = t[i]

LEMMA SumsExist ==
    ASSUME Log!LogAssumption, NEW s \in Seq(Log!Lines)
    PROVE  \A n \in 0 .. Len(s) : \E f \in [0 .. n -> Nat] : IsSum(f, s, n)
  <1> DEFINE Bad == {n \in 0 .. Len(s) : ~ \E f \in [0 .. n -> Nat] : IsSum(f, s, n)}
  <1>1. SUFFICES ASSUME Bad # {} PROVE FALSE
    BY Zenon
  <1>2. Len(s) \in Nat /\ Bad \in SUBSET Nat
    OBVIOUS
  <1>3. PICK n \in Bad : \A m \in Bad : n <= m
    BY Zenon, <1>1, <1>2, LeastExists
  <1>4. n \in 0 .. Len(s) /\ ~ \E f \in [0 .. n -> Nat] : IsSum(f, s, n)
    OBVIOUS
  <1>5. n # 0
    <2>1. PICK f : f = [i \in 0 .. 0 |-> 0]
      BY Zenon
    <2>2. f \in [0 .. 0 -> Nat] /\ IsSum(f, s, 0)
      BY <2>1 DEF IsSum
    <2> QED
      BY Zenon, <1>4, <2>2
  <1>6. PICK m \in Nat : m = n - 1
    BY <1>4, <1>5
  <1>7. m \in 0 .. Len(s) /\ ~(n <= m) /\ n \in 1 .. Len(s) /\ n = m + 1
    BY <1>2, <1>4, <1>5, <1>6
  <1>8. PICK g \in [0 .. m -> Nat] : IsSum(g, s, m)
    BY <1>3, <1>7
  <1>9. PICK w \in Nat : w = Log!LineBytes(s[n])
    BY <1>7, LineWeighs
  <1>10. PICK f : f = [i \in 0 .. n |-> IF i = n THEN g[m] + w ELSE g[i]]
    BY Zenon
  <1>11. f \in [0 .. n -> Nat] /\ IsSum(f, s, n)
    <2>1. g[m] \in Nat /\ \A i \in 0 .. m : g[i] \in Nat
      BY <1>7, <1>8 DEF IsSum
    <2>2. \A i \in 0 .. n : f[i] = IF i = n THEN g[m] + w ELSE g[i]
      BY <1>10
    <2>3. \A i \in 0 .. n : i = n \/ i \in 0 .. m
      BY <1>7
    <2>4. f[0] = 0 /\ f \in [0 .. n -> Nat]
      BY <1>5, <1>7, <1>8, <1>9, <1>10, <2>1, <2>2, <2>3 DEF IsSum
    <2>5. ASSUME NEW i \in 1 .. n PROVE f[i] = f[i - 1] + Log!LineBytes(s[i])
      <3>1. CASE i = n
        BY <1>7, <1>9, <2>2, <3>1
      <3>2. CASE i # n
        <4>1. /\ i \in 1 .. m /\ i \in 0 .. n /\ i - 1 \in 0 .. n /\ i - 1 # n
          BY <1>7, <3>2
        <4> QED
          BY <1>8, <2>2, <3>2, <4>1 DEF IsSum
      <3> QED
        BY <3>1, <3>2
    <2> QED
      BY <2>4, <2>5 DEF IsSum
  <1> QED
    BY Zenon, <1>4, <1>11

(* Two sums over the same lines agree, as far as both go.                   *)
LEMMA SumsAgree ==
    ASSUME Log!LogAssumption, NEW m \in Nat, NEW n \in 0 .. m, NEW s, NEW t,
           SameLines(s, t, n),
           NEW f, NEW g, IsSum(f, s, n), IsSum(g, t, m)
    PROVE  \A i \in 0 .. n : f[i] = g[i]
  <1> DEFINE Bad == {i \in 0 .. n : f[i] # g[i]}
  <1>1. SUFFICES ASSUME Bad # {} PROVE FALSE
    OBVIOUS
  <1>2. PICK k \in Bad : \A i \in Bad : k <= i
    <2>1. Bad \in SUBSET Nat
      OBVIOUS
    <2> QED
      BY Zenon, <1>1, <2>1, LeastExists
  <1>3. k \in 0 .. n /\ f[k] # g[k]
    OBVIOUS
  <1>4. k # 0
    BY <1>3 DEF IsSum
  <1>5. PICK j \in Nat : j = k - 1
    BY <1>3, <1>4
  <1>6. j \in 0 .. n /\ ~(k <= j) /\ k \in 1 .. n /\ k \in 1 .. m
    BY <1>3, <1>4, <1>5
  <1>7. f[j] = g[j]
    BY <1>2, <1>6
  <1>8. f[k] = f[j] + Log!LineBytes(s[k]) /\ g[k] = g[j] + Log!LineBytes(t[k])
    BY <1>5, <1>6 DEF IsSum
  <1>9. s[k] = t[k]
    BY <1>6 DEF SameLines
  <1> QED
    BY <1>3, <1>6, <1>7, <1>8, <1>9

(* The model's recursive function is such a sum.                            *)
LEMMA OffsetsAreSums ==
    ASSUME Log!LogAssumption, NEW s \in Seq(Log!Lines), NEW n \in Nat, n = Len(s)
    PROVE  IsSum(Log!Offsets(s), s, n) /\ Log!Offsets(s) \in [0 .. n -> Nat]
  <1> DEFINE Step(g) == [i \in 0 .. n |->
                           IF i = 0 THEN 0 ELSE g[i - 1] + Log!LineBytes(s[i])]
  <1>1. PICK f \in [0 .. n -> Nat] : IsSum(f, s, n)
    BY SumsExist
  <1>2. f = Step(f)
    <2>1. \A i \in 0 .. n : f[i] = IF i = 0 THEN 0 ELSE f[i - 1] + Log!LineBytes(s[i])
      BY <1>1 DEF IsSum
    <2> QED
      BY <2>1
  <1>3. PICK h : h = Log!Offsets(s)
    OBVIOUS
  <1>4. h = CHOOSE g : g = Step(g)
    BY <1>3 DEF Log!Offsets
  <1>5. h = Step(h)
    <2> HIDE DEF Step
    <2> QED
      BY <1>2, <1>4
  <1>6. IsSum(h, s, n)
    <2>1. \A i \in 0 .. n : h[i] = IF i = 0 THEN 0 ELSE h[i - 1] + Log!LineBytes(s[i])
      BY Zenon, <1>5
    <2> QED
      BY <2>1 DEF IsSum
  <1>7. \A i \in 0 .. n : h[i] = f[i]
    BY <1>1, <1>6, SumsAgree DEF SameLines
  <1>8. h \in [0 .. n -> Nat]
    <2>1. h = [i \in 0 .. n |-> h[i]]
      BY <1>5
    <2> QED
      BY <1>7, <2>1
  <1> QED
    BY <1>3, <1>6, <1>8

(* What the length of a file is, and how it grows with a line.              *)
LEMMA SizeOfNone ==
    ASSUME Log!LogAssumption
    PROVE  Log!Size(<<>>) = 0
  <1>1. <<>> \in Seq(Log!Lines) /\ Len(<<>>) = 0
    OBVIOUS
  <1> QED
    BY Zenon, <1>1, OffsetsAreSums DEF Log!Size, IsSum

LEMMA SizeIsNat ==
    ASSUME Log!LogAssumption, NEW s \in Seq(Log!Lines)
    PROVE  Log!Size(s) \in Nat
  <1>1. PICK n \in Nat : n = Len(s)
    OBVIOUS
  <1> QED
    BY <1>1, OffsetsAreSums DEF Log!Size

LEMMA SizeGrows ==
    ASSUME Log!LogAssumption, NEW s \in Seq(Log!Lines), NEW l \in Log!Lines
    PROVE  /\ Log!Size(Append(s, l)) = Log!Size(s) + Log!LineBytes(l)
           /\ Log!LineBytes(l) \in Nat /\ Log!LineBytes(l) > 0
  <1>1. PICK n \in Nat : n = Len(s)
    OBVIOUS
  <1>2. PICK m \in Nat : m = n + 1
    OBVIOUS
  <1>3. PICK t : t = Append(s, l)
    BY Zenon
  <1>4. /\ t \in Seq(Log!Lines) /\ Len(t) = m /\ t[m] = l
        /\ \A i \in 1 .. n : s[i] = t[i]
    BY <1>1, <1>2, <1>3
  <1>5. PICK f : f = Log!Offsets(s) /\ IsSum(f, s, n) /\ f \in [0 .. n -> Nat]
    BY <1>1, OffsetsAreSums
  <1>6. PICK g : g = Log!Offsets(t) /\ IsSum(g, t, m) /\ g \in [0 .. m -> Nat]
    BY <1>4, OffsetsAreSums
  <1>7. f[n] = g[n]
    <2>1. n \in 0 .. m /\ n \in 0 .. n
      BY <1>2
    <2>3. SameLines(s, t, n)
      BY <1>4 DEF SameLines
    <2>4. IsSum(f, s, n) /\ IsSum(g, t, m)
      BY <1>5, <1>6
    <2>2. \A i \in 0 .. n : f[i] = g[i]
      BY <2>1, <2>3, <2>4, SumsAgree
    <2> QED
      BY <2>1, <2>2
  <1>8. g[m] = g[n] + Log!LineBytes(l)
    BY <1>2, <1>4, <1>6 DEF IsSum
  <1> QED
    BY <1>1, <1>3, <1>4, <1>5, <1>6, <1>7, <1>8, LineWeighs DEF Log!Size

(* Only the empty file has no bytes.                                        *)
LEMMA SizeOfSome ==
    ASSUME Log!LogAssumption, NEW s \in Seq(Log!Lines), s # <<>>
    PROVE  Log!Size(s) > 0
  <1>1. PICK n \in Nat : n = Len(s) /\ n > 0
    OBVIOUS
  <1>2. PICK m \in Nat : m = n - 1
    BY <1>1
  <1>3. PICK t : t = SubSeq(s, 1, m)
    BY Zenon
  <1>4. t \in Seq(Log!Lines) /\ s[n] \in Log!Lines /\ s = Append(t, s[n])
    BY <1>1, <1>2, <1>3
  <1>5. Log!Size(s) = Log!Size(t) + Log!LineBytes(s[n])
    BY Zenon, <1>4, SizeGrows
  <1> QED
    BY <1>4, <1>5, SizeIsNat, LineWeighs

-----------------------------------------------------------------------------
(* The run log's variables, as the scenes hold them.                        *)
files     == v1
vouched   == v2
committed == v3
hookAt    == v4
history   == v5
holder    == v6
lastOpen  == v7
counts    == v8
USE DEF files, vouched, committed, hookAt, history, holder, lastOpen, counts

(* The run log.  A file's change number only grows, so a seal describes one *)
(* state of one file and stays true or fails to match.  From the call that  *)
(* finds the sealed file to the one that seals it again, what the holder of *)
(* the lock knows of its file either still stands or has left a trace that  *)
(* the next check reads: the length after an append, the change number      *)
(* after a swap.                                                            *)

Told    == committed \cup {Foreign, Torn}
Nodes   == [lines : Seq(Told), change : Nat, at : Log!Places]
Seals   == [node : Nat, change : Nat]
Holders == [by : Runs \cup {Log!Opener, Log!Nobody},
            at : {"idle", "open", "write", "check", "tail", "confirm", "aside", "swap",
                  "verify", "seal", "look", "retire"},
            seal : Seals, fd : Log!Files \cup {0}, size : Nat, keep : Seq(committed)]

HooksOK ==
    /\ committed \subseteq Runs
    /\ hookAt \in [Runs -> {"running", "finished", "recorded", "done"}]
    /\ \A r \in Runs : hookAt[r] = "recorded" => r \in committed
    /\ holder.by \in Runs => hookAt[holder.by] = "recorded"
    /\ lastOpen \in {"not", "clean", "unknown"}
    /\ counts \in [edits : 0..MaxEdits, crashes : 0..MaxCrashes, opens : 0..MaxOpens]

LogTypes ==
    /\ HooksOK
    /\ files \in [Log!Files -> Nodes] /\ vouched \in Seals
    /\ history \in Seq(committed) /\ holder \in Holders

Taken(f, n) == n \in Log!Files /\ f[n].at # "unused"

TellsEnd(lines, past) ==
    /\ lines # <<>> /\ Log!IsEndOf(lines, past)
    /\ Log!Size(lines) <= MaxBytes \/ Len(lines) = 1

(* A seal describes a file that was published or checked.                   *)
Describes(s, f, past) ==
    /\ Taken(f, s.node) /\ s.change <= f[s.node].change
    /\ s.change = f[s.node].change => TellsEnd(f[s.node].lines, past)

(* What the holder h of the lock knows.                                     *)
AtSeal(h, f, past) == h.at = "seal" => Describes(h.seal, f, Append(past, h.by))

AtWrite(h, f, past) ==
    h.at = "write" =>
        /\ Taken(f, h.fd) /\ Log!Size(f[h.fd].lines) >= h.size
        /\ Log!Size(f[h.fd].lines) = h.size =>
              TellsEnd(f[h.fd].lines, past) /\ h.size + Bytes[h.by] <= MaxBytes

AtCheck(h, f, past) ==
    h.at = "check" =>
        /\ Taken(f, h.fd) /\ Log!Size(f[h.fd].lines) >= h.size + Bytes[h.by]
        /\ Log!Size(f[h.fd].lines) = h.size + Bytes[h.by] =>
              TellsEnd(f[h.fd].lines, Append(past, h.by))

AtSwap(h, past) ==
    h.at \in {"confirm", "swap"} =>
        Log!IsEndOf(h.keep, past) /\ Log!Size(h.keep) <= Log!RoomBeside(h.by)

AtVerify(h, f, past) ==
    h.at = "verify" =>
        /\ Taken(f, h.fd) /\ f[h.fd].change >= 1
        /\ f[h.fd].change = 1 => TellsEnd(f[h.fd].lines, Append(past, h.by))

Knows(h, f, past, s) ==
    h.by \in Runs =>
        /\ h.at \in {"open", "tail", "confirm"} => h.seal = s /\ s # Log!NoSeal
        /\ AtWrite(h, f, past) /\ AtCheck(h, f, past) /\ AtSwap(h, past)
        /\ AtVerify(h, f, past) /\ AtSeal(h, f, past)

(* The files that were ever used, and the runs that have used up their own. *)
Used(f)     == {n \in Log!Files : f[n].at # "unused"}
Spent(p, h) == {r \in Runs : p[r] = "done" \/ (h.by = r /\ h.at \in {"verify", "seal"})}
FilesLeft   == Cardinality(Used(files)) <= Cardinality(Spent(hookAt, holder)) + counts.edits

(* No outside line is in a file on the name.                                *)
OnlyOurs(f) ==
    \A n \in Log!Files : f[n].at = "name" => \A i \in DOMAIN f[n].lines : f[n].lines[i] # Foreign

LogInv ==
    /\ LogTypes /\ FilesLeft
    /\ vouched # Log!NoSeal => Describes(vouched, files, history)
    /\ Knows(holder, files, history, vouched)
    /\ lastOpen = "clean" => OnlyOurs(files)

(* How a file may change: used ones stay used, and no change goes unnoticed.*)
Later(f, g) ==
    \A n \in Log!Files :
        Taken(f, n) => Taken(g, n) /\ (g[n] = f[n] \/ g[n].change > f[n].change)

(* How a file may change while somebody holds the lock: by whole lines.     *)
Longer(f, g) ==
    \A n \in Log!Files :
        Taken(f, n) => \/ g[n].lines = f[n].lines
                       \/ \E l \in Log!Lines : g[n].lines = Append(f[n].lines, l)

LEMMA TellsApart ==
    ASSUME Log!LogAssumption, LogTypes
    PROVE  /\ Seq(Told) \subseteq Seq(Log!Lines) /\ Seq(committed) \subseteq Seq(Log!Lines)
           /\ Seq(committed) \subseteq Seq(Told) /\ Foreign \notin committed
           /\ Seq(committed) \subseteq Seq(Runs)
           /\ Log!Opener \notin Runs /\ Log!Nobody \notin Runs
  BY DEF Log!LogAssumption, LogTypes, HooksOK, Told, Log!Lines

LEMMA StaysDescribed ==
    ASSUME NEW f \in [Log!Files -> Nodes], NEW g \in [Log!Files -> Nodes], Later(f, g),
           NEW s \in Seals, NEW past, Describes(s, f, past)
    PROVE  Describes(s, g, past)
  <1>1. s.node \in Log!Files /\ s.change \in Nat /\ f[s.node].change \in Nat
        /\ g[s.node].change \in Nat
    BY DEF Describes, Taken, Seals, Nodes
  <1>2. Taken(g, s.node) /\ (g[s.node] = f[s.node] \/ g[s.node].change > f[s.node].change)
    BY <1>1 DEF Describes, Later
  <1>3. s.change <= g[s.node].change
    BY <1>1, <1>2 DEF Describes
  <1>4. s.change = g[s.node].change => g[s.node] = f[s.node]
    BY <1>1, <1>2 DEF Describes
  <1> QED
    BY <1>2, <1>3, <1>4 DEF Describes

LEMMA StillKnown ==
    ASSUME Log!LogAssumption, LogTypes,
           NEW f \in [Log!Files -> Nodes], NEW g \in [Log!Files -> Nodes],
           Later(f, g), Longer(f, g),
           NEW h \in Holders, NEW past, NEW s, Knows(h, f, past, s)
    PROVE  Knows(h, g, past, s)
  <1>1. SUFFICES ASSUME h.by \in Runs PROVE Knows(h, g, past, s)
    BY DEF Knows
  <1>2. /\ h.at \in {"open", "tail", "confirm"} => h.seal = s /\ s # Log!NoSeal
        /\ AtSwap(h, past)
    BY <1>1 DEF Knows
  <1>3. PICK b \in Nat : b = Bytes[h.by]
    BY <1>1 DEF Log!LogAssumption
  <1>4. ASSUME NEW n, Taken(f, n)
        PROVE  /\ n \in Log!Files /\ Taken(g, n)
               /\ f[n].change \in Nat /\ g[n].change \in Nat
               /\ Log!Size(f[n].lines) \in Nat
               /\ \/ g[n].lines = f[n].lines /\ Log!Size(g[n].lines) = Log!Size(f[n].lines)
                  \/ /\ Log!Size(g[n].lines) > Log!Size(f[n].lines)
                     /\ Log!Size(g[n].lines) \in Nat
               /\ g[n] = f[n] \/ g[n].change > f[n].change
    <2>1. n \in Log!Files
      BY <1>4 DEF Taken
    <2>2. f[n] \in Nodes /\ g[n] \in Nodes /\ f[n].lines \in Seq(Log!Lines)
      BY <2>1, TellsApart DEF Nodes
    <2>3. PICK z \in Nat : z = Log!Size(f[n].lines)
      BY <2>2, SizeIsNat
    <2>4. ASSUME NEW l \in Log!Lines, g[n].lines = Append(f[n].lines, l)
          PROVE  Log!Size(g[n].lines) > z /\ Log!Size(g[n].lines) \in Nat
      <3>1. PICK w \in Nat : w = Log!LineBytes(l) /\ w > 0
        BY LineWeighs
      <3>2. Log!Size(Append(f[n].lines, l)) = z + w
        BY <2>2, <2>3, <3>1, SizeGrows
      <3> QED
        BY <2>4, <3>1, <3>2
    <2> QED
      BY Zenon, <1>4, <2>1, <2>2, <2>3, <2>4 DEF Later, Longer, Nodes
  <1>5. h.size \in Nat /\ h.seal \in Seals
    BY DEF Holders
  <1>6. AtWrite(h, g, past)
    <2>1. SUFFICES ASSUME h.at = "write" PROVE AtWrite(h, g, past)
      BY DEF AtWrite
    <2>2. AtWrite(h, f, past)
      BY <1>1 DEF Knows
    <2>3. Taken(f, h.fd) /\ Log!Size(f[h.fd].lines) >= h.size
      BY <2>1, <2>2 DEF AtWrite
    <2>4. /\ Taken(g, h.fd) /\ Log!Size(g[h.fd].lines) >= h.size
          /\ Log!Size(g[h.fd].lines) = h.size =>
                g[h.fd].lines = f[h.fd].lines /\ Log!Size(f[h.fd].lines) = h.size
      BY <1>4, <1>5, <2>3
    <2> QED
      BY <2>1, <2>2, <2>4 DEF AtWrite
  <1>7. AtCheck(h, g, past)
    <2>1. SUFFICES ASSUME h.at = "check" PROVE AtCheck(h, g, past)
      BY DEF AtCheck
    <2>2. AtCheck(h, f, past)
      BY <1>1 DEF Knows
    <2>3. Taken(f, h.fd) /\ Log!Size(f[h.fd].lines) >= h.size + b
      BY <1>3, <2>1, <2>2 DEF AtCheck
    <2>4. /\ Taken(g, h.fd) /\ Log!Size(g[h.fd].lines) >= h.size + b
          /\ Log!Size(g[h.fd].lines) = h.size + b =>
                g[h.fd].lines = f[h.fd].lines /\ Log!Size(f[h.fd].lines) = h.size + b
      BY <1>3, <1>4, <1>5, <2>3
    <2> QED
      BY <1>3, <2>1, <2>2, <2>4 DEF AtCheck
  <1>8. AtVerify(h, g, past)
    <2>1. SUFFICES ASSUME h.at = "verify" PROVE AtVerify(h, g, past)
      BY DEF AtVerify
    <2>2. AtVerify(h, f, past)
      BY <1>1 DEF Knows
    <2>3. Taken(f, h.fd) /\ f[h.fd].change >= 1
      BY <2>1, <2>2 DEF AtVerify
    <2>4. /\ Taken(g, h.fd) /\ g[h.fd].change >= 1
          /\ g[h.fd].change = 1 => g[h.fd] = f[h.fd]
      BY <1>4, <2>3
    <2> QED
      BY <2>1, <2>2, <2>4 DEF AtVerify
  <1>9. AtSeal(h, g, past)
    <2>1. h.at = "seal" => Describes(h.seal, f, Append(past, h.by))
      BY <1>1 DEF Knows, AtSeal
    <2> QED
      BY <1>5, <2>1, StaysDescribed DEF AtSeal
  <1> QED
    BY <1>2, <1>6, <1>7, <1>8, <1>9 DEF Knows

(* There is a file left for whoever publishes one.                          *)
LEMMA FilesAreFinite ==
    ASSUME Log!LogAssumption
    PROVE  /\ IsFiniteSet(Log!Files) /\ IsFiniteSet(Runs) /\ Cardinality(Runs) \in Nat
           /\ Cardinality(Log!Files) = Cardinality(Runs) + MaxEdits
           /\ Log!Files \subseteq Nat /\ 0 \notin Log!Files
  <1>1. IsFiniteSet(Runs) /\ MaxEdits \in Nat
    BY DEF Log!LogAssumption, IsFiniteSet, Log!IsFiniteSet
  <1>2. PICK c \in Nat : c = Cardinality(Runs)
    BY <1>1, FS_CardinalityType
  <1>3. Log!Files = 1 .. (c + MaxEdits)
    BY <1>2 DEF Log!Files, Cardinality, Log!Cardinality
  <1>4. PICK k \in Nat : k = c + MaxEdits
    BY <1>1, <1>2
  <1>5. IsFiniteSet(1 .. k) /\ Cardinality(1 .. k) = k
    BY <1>4, FS_Interval
  <1> QED
    BY <1>1, <1>2, <1>3, <1>4, <1>5

LEMMA CountsOf ==
    ASSUME Log!LogAssumption, NEW p, NEW h, NEW f
    PROVE  /\ Used(f) \subseteq Log!Files /\ Spent(p, h) \subseteq Runs
           /\ IsFiniteSet(Used(f)) /\ IsFiniteSet(Spent(p, h))
           /\ Cardinality(Used(f)) \in Nat /\ Cardinality(Spent(p, h)) \in Nat
  <1>1. Used(f) \subseteq Log!Files /\ Spent(p, h) \subseteq Runs
    BY DEF Used, Spent
  <1> QED
    BY <1>1, FilesAreFinite, FS_Subset, FS_CardinalityType

LEMMA FreshExists ==
    ASSUME Log!LogAssumption, LogTypes, FilesLeft,
           \/ counts.edits < MaxEdits
           \/ \E r \in Runs : r \notin Spent(hookAt, holder)
    PROVE  Log!NewFile \in Log!Files /\ files[Log!NewFile].at = "unused"
  <1>1. PICK U \in SUBSET Log!Files : U = Used(files)
    BY Zenon DEF Used
  <1>2. PICK S \in SUBSET Runs : S = Spent(hookAt, holder)
    BY Zenon DEF Spent
  <1>3. PICK e \in 0 .. MaxEdits : e = counts.edits
    BY DEF LogTypes, HooksOK
  <1>4. IsFiniteSet(S) /\ Cardinality(S) \in Nat /\ Cardinality(U) \in Nat /\ IsFiniteSet(U)
    BY <1>1, <1>2, CountsOf
  <1>5. Cardinality(U) <= Cardinality(S) + e
    BY <1>1, <1>2, <1>3 DEF FilesLeft
  <1>6. Cardinality(S) <= Cardinality(Runs)
    BY <1>2, FilesAreFinite, FS_Subset
  <1>7. ASSUME NEW r \in Runs, r \notin S PROVE Cardinality(S) < Cardinality(Runs)
    BY <1>6, <1>4, <1>7, FilesAreFinite, FS_Subset
  <1>8. Cardinality(U) < Cardinality(Log!Files)
    BY <1>2, <1>3, <1>4, <1>5, <1>6, <1>7, FilesAreFinite DEF Log!LogAssumption
  <1>9. U # Log!Files
    BY <1>4, <1>8, FilesAreFinite
  <1>10. PICK F : F = {n \in Log!Files : files[n].at = "unused"}
    BY Zenon
  <1>11. F \in SUBSET Nat /\ F # {}
    BY <1>1, <1>9, <1>10, FilesAreFinite DEF Used
  <1>12. PICK n \in F : \A m \in F : n <= m
    BY <1>11, LeastExists
  <1> QED
    BY <1>10, <1>12 DEF Log!NewFile

(* The count of used files after a step.                                    *)
LEMMA CountRests ==
    ASSUME Log!LogAssumption, LogTypes, FilesLeft, LogTypes',
           Used(files)' \subseteq Used(files),
           Spent(hookAt, holder) \subseteq Spent(hookAt, holder)',
           counts'.edits >= counts.edits
    PROVE  FilesLeft'
  <1>1. PICK U : U = Used(files)
    OBVIOUS
  <1>2. PICK V : V = Used(files)'
    OBVIOUS
  <1>3. PICK S : S = Spent(hookAt, holder)
    OBVIOUS
  <1>4. PICK R : R = Spent(hookAt, holder)'
    OBVIOUS
  <1>5. PICK e \in Nat : e = counts.edits
    BY DEF LogTypes, HooksOK, Log!LogAssumption
  <1>6. PICK d \in Nat : d = counts'.edits
    BY DEF LogTypes, HooksOK, Log!LogAssumption
  <1>7. /\ IsFiniteSet(U) /\ Cardinality(U) \in Nat
        /\ IsFiniteSet(S) /\ Cardinality(S) \in Nat
    BY <1>1, <1>3, CountsOf
  <1>8. V \subseteq Log!Files /\ R \subseteq Runs
    BY <1>2, <1>4 DEF Used, Spent
  <1>9. /\ IsFiniteSet(V) /\ Cardinality(V) \in Nat
        /\ IsFiniteSet(R) /\ Cardinality(R) \in Nat
    BY <1>8, FilesAreFinite, FS_Subset, FS_CardinalityType
  <1>10. Cardinality(V) <= Cardinality(U) /\ Cardinality(S) <= Cardinality(R)
    BY <1>1, <1>2, <1>3, <1>4, <1>7, <1>9, FS_Subset
  <1>11. Cardinality(U) <= Cardinality(S) + e
    BY <1>1, <1>3, <1>5 DEF FilesLeft
  <1>12. d >= e
    BY <1>5, <1>6
  <1>13. Cardinality(V) <= Cardinality(R) + d
    BY <1>5, <1>6, <1>7, <1>9, <1>10, <1>11, <1>12
  <1> QED
    BY <1>2, <1>4, <1>6, <1>13 DEF FilesLeft

LEMMA CountGrows ==
    ASSUME Log!LogAssumption, LogTypes, FilesLeft, LogTypes', NEW n,
           Used(files)' \subseteq Used(files) \cup {n},
           Spent(hookAt, holder) \subseteq Spent(hookAt, holder)',
           \/ counts'.edits = counts.edits + 1
           \/ /\ counts'.edits = counts.edits
              /\ \E r \in Runs : /\ r \notin Spent(hookAt, holder)
                                 /\ r \in Spent(hookAt, holder)'
    PROVE  FilesLeft'
  <1>1. PICK U : U = Used(files)
    OBVIOUS
  <1>2. PICK V : V = Used(files)'
    OBVIOUS
  <1>3. PICK S : S = Spent(hookAt, holder)
    OBVIOUS
  <1>4. PICK R : R = Spent(hookAt, holder)'
    OBVIOUS
  <1>5. PICK e \in Nat : e = counts.edits
    BY DEF LogTypes, HooksOK, Log!LogAssumption
  <1>6. PICK d \in Nat : d = counts'.edits
    BY DEF LogTypes, HooksOK, Log!LogAssumption
  <1>7. /\ IsFiniteSet(U) /\ Cardinality(U) \in Nat
        /\ IsFiniteSet(S) /\ Cardinality(S) \in Nat
    BY <1>1, <1>3, CountsOf
  <1>8. V \subseteq Log!Files /\ R \subseteq Runs
    BY <1>2, <1>4 DEF Used, Spent
  <1>9. /\ IsFiniteSet(V) /\ Cardinality(V) \in Nat
        /\ IsFiniteSet(R) /\ Cardinality(R) \in Nat
    BY <1>8, FilesAreFinite, FS_Subset, FS_CardinalityType
  <1>10. Cardinality(V) <= Cardinality(U) + 1
    <2>1. PICK W : W = U \cup {n}
      BY Zenon
    <2>3. /\ IsFiniteSet(W)
          /\ Cardinality(W) = IF n \in U THEN Cardinality(U) ELSE Cardinality(U) + 1
      BY <1>7, <2>1, FS_AddElement
    <2>2. Cardinality(W) \in Nat /\ Cardinality(W) <= Cardinality(U) + 1
      BY <1>7, <2>3
    <2> QED
      BY <1>1, <1>2, <1>7, <1>9, <2>1, <2>2, <2>3, FS_Subset
  <1>11. Cardinality(U) <= Cardinality(S) + e
    BY <1>1, <1>3, <1>5 DEF FilesLeft
  <1>12. Cardinality(S) <= Cardinality(R)
    BY <1>3, <1>4, <1>9, FS_Subset
  <1>13. \/ d = e + 1
         \/ d = e /\ Cardinality(S) < Cardinality(R)
    <2>1. ASSUME NEW r \in Runs, r \notin S, r \in R PROVE Cardinality(S) < Cardinality(R)
      BY <1>3, <1>4, <1>7, <1>9, <1>12, <2>1, FS_Subset
    <2> QED
      BY <1>3, <1>4, <1>5, <1>6, <2>1
  <1>14. Cardinality(V) <= Cardinality(R) + d
    BY <1>5, <1>6, <1>7, <1>9, <1>10, <1>11, <1>12, <1>13
  <1> QED
    BY <1>2, <1>4, <1>6, <1>14 DEF FilesLeft

(* What becomes of the files.                                               *)
LEMMA MovedNode ==
    ASSUME NEW c \in Nodes, NEW place \in Log!Places
    PROVE  /\ [c EXCEPT !.at = place, !.change = @ + 1] =
                 [lines |-> c.lines, change |-> c.change + 1, at |-> place]
           /\ c.change \in Nat /\ c.lines \in Seq(Told)
  <1>1. c.change \in Nat /\ c.lines \in Seq(Told)
    BY DEF Nodes
  <1>2. PICK m \in Nat : m = c.change + 1
    BY <1>1
  <1>3. PICK d : d = [lines |-> c.lines, change |-> m, at |-> place]
    BY Zenon
  <1>4. PICK e : e = [c EXCEPT !.at = place]
    BY Zenon
  <1>5. e = [lines |-> c.lines, change |-> c.change, at |-> place]
    BY <1>4 DEF Nodes
  <1>6. d = [e EXCEPT !.change = @ + 1]
    BY <1>2, <1>3, <1>5
  <1> QED
    BY Zenon, <1>1, <1>2, <1>3, <1>4, <1>6

LEMMA WrittenNode ==
    ASSUME NEW c \in Nodes, NEW lines \in Seq(Told)
    PROVE  /\ [c EXCEPT !.lines = lines, !.change = @ + 1] =
                 [lines |-> lines, change |-> c.change + 1, at |-> c.at]
           /\ c.change \in Nat /\ c.at \in Log!Places
  <1>1. c.change \in Nat /\ c.at \in Log!Places
    BY DEF Nodes
  <1>2. PICK m \in Nat : m = c.change + 1
    BY <1>1
  <1>3. PICK d : d = [lines |-> lines, change |-> m, at |-> c.at]
    BY Zenon
  <1>4. PICK e : e = [c EXCEPT !.lines = lines]
    BY Zenon
  <1>5. e = [lines |-> lines, change |-> c.change, at |-> c.at]
    BY <1>4 DEF Nodes
  <1>6. d = [e EXCEPT !.change = @ + 1]
    BY <1>2, <1>3, <1>5
  <1> QED
    BY Zenon, <1>1, <1>2, <1>3, <1>4, <1>6

LEMMA PutAside ==
    ASSUME LogTypes, NEW place \in {"aside", "replaced", "gone"}
    PROVE  /\ Log!Put(place) \in [Log!Files -> Nodes]
           /\ Later(files, Log!Put(place)) /\ Longer(files, Log!Put(place))
           /\ Used(Log!Put(place)) = Used(files)
           /\ \A n \in Log!Files : Log!Put(place)[n].at # "name"
  <1>1. PICK f : f = files /\ f \in [Log!Files -> Nodes]
    BY DEF LogTypes
  <1>2. PICK g : g = Log!Put(place)
    OBVIOUS
  <1>3. g = [n \in Log!Files |->
               IF f[n].at = "name"
               THEN [f[n] EXCEPT !.at = place, !.change = @ + 1] ELSE f[n]]
    BY Zenon, <1>1, <1>2 DEF Log!Put, Log!Holders
  <1>4. ASSUME NEW n \in Log!Files
        PROVE  /\ g[n] \in Nodes /\ g[n].lines = f[n].lines /\ g[n].at # "name"
               /\ f[n].at = "name" => g[n].at = place /\ g[n].change = f[n].change + 1
               /\ f[n].at # "name" => g[n] = f[n]
               /\ f[n].change \in Nat
    <2>1. f[n] \in Nodes
      BY <1>1
    <2>2. PICK c : c = f[n] /\ c \in Nodes
      BY <2>1
    <2>6. place \in Log!Places
      BY DEF Log!Places
    <2>3. PICK d : d = [lines |-> c.lines, change |-> c.change + 1, at |-> place]
      BY Zenon
    <2>7. /\ d = [c EXCEPT !.at = place, !.change = @ + 1]
          /\ c.change \in Nat /\ c.lines \in Seq(Told)
      BY Zenon, <2>2, <2>3, <2>6, MovedNode
    <2>4. /\ d \in Nodes /\ d.lines = c.lines /\ d.at = place /\ d.change = c.change + 1
          /\ c.change \in Nat
      BY <2>3, <2>6, <2>7 DEF Nodes
    <2>5. g[n] = IF c.at = "name" THEN d ELSE c
      BY ZenonT(60), <1>3, <2>2, <2>7
    <2> QED
      BY <2>2, <2>4, <2>5
  <1>5. g \in [Log!Files -> Nodes]
    BY Zenon, <1>3, <1>4
  <1>6. Later(f, g) /\ Longer(f, g) /\ Used(g) = Used(f)
    <2>1. ASSUME NEW n \in Log!Files
          PROVE  /\ (g[n].at # "unused") = (f[n].at # "unused")
                 /\ g[n] = f[n] \/ g[n].change > f[n].change
      BY <1>4
    <2> QED
      BY <1>4, <2>1 DEF Later, Longer, Used, Taken
  <1> QED
    BY <1>1, <1>2, <1>4, <1>5, <1>6

LEMMA PutNew ==
    ASSUME LogTypes, NEW place \in {"replaced", "gone"}, NEW lines \in Seq(Told), NEW k,
           k = Log!NewFile, k \in Log!Files, files[k].at = "unused"
    PROVE  /\ Log!Take(place, lines) \in [Log!Files -> Nodes]
           /\ Later(files, Log!Take(place, lines)) /\ Longer(files, Log!Take(place, lines))
           /\ Used(Log!Take(place, lines)) = Used(files) \cup {k}
           /\ Log!Take(place, lines)[k] = [lines |-> lines, change |-> 1, at |-> "name"]
           /\ \A n \in Log!Files \ {k} : Log!Take(place, lines)[n].at # "name"
  <1>1. PICK p : p = Log!Put(place) /\ p \in [Log!Files -> Nodes]
    BY PutAside
  <1>2. PICK f : f = files /\ f \in [Log!Files -> Nodes]
    BY DEF LogTypes
  <1>3. /\ Later(f, p) /\ Longer(f, p) /\ Used(p) = Used(f)
        /\ \A n \in Log!Files : p[n].at # "name"
    BY <1>1, <1>2, PutAside
  <1>10. PICK c : c = [lines |-> lines, change |-> 1, at |-> "name"]
    BY Zenon
  <1>4. /\ c = [lines |-> lines, change |-> 1, at |-> "name"] /\ c \in Nodes
        /\ c.at = "name"
    BY <1>10 DEF Nodes, Log!Places
  <1>5. PICK g : g = Log!Take(place, lines) /\ g = [p EXCEPT ![k] = c]
    BY Zenon, <1>1, <1>4 DEF Log!Take
  <1>6. /\ g \in [Log!Files -> Nodes] /\ g[k] = c
        /\ \A n \in Log!Files \ {k} : g[n] = p[n]
    BY <1>1, <1>4, <1>5
  <1>7. ~ Taken(f, k) /\ c.at # "unused"
    BY <1>2, <1>4 DEF Taken
  <1>8. Later(f, g) /\ Longer(f, g)
    BY <1>3, <1>6, <1>7 DEF Later, Longer, Taken
  <1>9. Used(g) = Used(f) \cup {k}
    BY <1>3, <1>6, <1>7 DEF Used
  <1>11. \A n \in Log!Files \ {k} : g[n].at # "name"
    BY <1>3, <1>6
  <1>12. g \in [Log!Files -> Nodes] /\ g[k] = [lines |-> lines, change |-> 1, at |-> "name"]
    BY <1>4, <1>6
  <1>13. Later(files, g) /\ Longer(files, g) /\ Used(g) = Used(files) \cup {k}
    BY <1>2, <1>8, <1>9
  <1>14. g = Log!Take(place, lines)
    BY <1>5
  <1> QED
    BY <1>11, <1>12, <1>13, <1>14

LEMMA PutLines ==
    ASSUME LogTypes, NEW k \in Log!Files, files[k].at # "unused", NEW lines \in Seq(Told)
    PROVE  /\ Log!Written(k, lines) \in [Log!Files -> Nodes]
           /\ Later(files, Log!Written(k, lines))
           /\ Used(Log!Written(k, lines)) = Used(files)
           /\ Log!Written(k, lines)[k].lines = lines
           /\ Log!Written(k, lines)[k].at = files[k].at
           /\ \A n \in Log!Files \ {k} : Log!Written(k, lines)[n] = files[n]
  <1>1. PICK f : f = files /\ f \in [Log!Files -> Nodes]
    BY DEF LogTypes
  <1>2. PICK c : c = f[k] /\ c \in Nodes
    BY <1>1
  <1>3. PICK d : d = [lines |-> lines, change |-> c.change + 1, at |-> c.at]
    BY Zenon
  <1>9. /\ d = [c EXCEPT !.lines = lines, !.change = @ + 1]
        /\ c.change \in Nat /\ c.at \in Log!Places
    BY Zenon, <1>2, <1>3, WrittenNode
  <1>4. /\ d \in Nodes /\ d.lines = lines /\ d.at = c.at /\ d.change = c.change + 1
        /\ c.change \in Nat
    BY <1>3, <1>9 DEF Nodes
  <1>10. Log!Written(k, lines) =
            [f EXCEPT ![k].lines = lines, ![k].change = @ + 1]
    BY <1>1 DEF Log!Written
  <1>5. PICK g : g = Log!Written(k, lines) /\ g = [f EXCEPT ![k] = d]
    BY Zenon, <1>1, <1>2, <1>10, <1>9
  <1>6. /\ g \in [Log!Files -> Nodes] /\ g[k] = d
        /\ \A n \in Log!Files \ {k} : g[n] = f[n]
    BY <1>1, <1>4, <1>5
  <1>7. Later(f, g) /\ Used(g) = Used(f)
    <2>1. ASSUME NEW n \in Log!Files
          PROVE  /\ (g[n].at # "unused") = (f[n].at # "unused")
                 /\ g[n] = f[n] \/ g[n].change > f[n].change
      BY <1>2, <1>4, <1>6
    <2> QED
      BY <2>1 DEF Later, Used, Taken
  <1> QED
    BY <1>1, <1>2, <1>4, <1>5, <1>6, <1>7

(* Ends of the history.                                                     *)
LEMMA EndGrows ==
    ASSUME NEW S, NEW lines \in Seq(S), NEW past \in Seq(S), NEW r \in S,
           Log!IsEndOf(lines, past)
    PROVE  /\ Append(lines, r) \in Seq(S) /\ Append(lines, r) # <<>>
           /\ Log!IsEndOf(Append(lines, r), Append(past, r))
  <1>1. PICK m \in Nat : m = Len(lines) /\ DOMAIN lines = 1 .. m
    OBVIOUS
  <1>2. PICK n \in Nat : n = Len(past)
    OBVIOUS
  <1>3. PICK t : t = Append(lines, r)
    BY Zenon
  <1>4. PICK q : q = Append(past, r)
    BY Zenon
  <1>5. /\ t \in Seq(S) /\ Len(t) = m + 1 /\ t[m + 1] = r
        /\ \A i \in 1 .. m : t[i] = lines[i]
    BY <1>1, <1>3
  <1>6. /\ q \in Seq(S) /\ Len(q) = n + 1 /\ q[n + 1] = r
        /\ \A i \in 1 .. n : q[i] = past[i]
    BY <1>2, <1>4
  <1>7. m <= n /\ \A i \in 1 .. m : lines[i] = past[n - m + i]
    BY Zenon, <1>1, <1>2 DEF Log!IsEndOf
  <1>8. ASSUME NEW i \in 1 .. (m + 1) PROVE t[i] = q[(n + 1) - (m + 1) + i]
    <2>1. CASE i = m + 1
      <3>1. (n + 1) - (m + 1) + i = n + 1
        BY <2>1
      <3> QED
        BY <1>5, <1>6, <2>1, <3>1
    <2>2. CASE i # m + 1
      <3>1. PICK k : k = n - m + i
        OBVIOUS
      <3>2. i \in 1 .. m /\ (n + 1) - (m + 1) + i = k /\ k \in 1 .. n
        BY <1>7, <2>2, <3>1
      <3> QED
        BY <1>5, <1>6, <1>7, <3>1, <3>2
    <2> QED
      BY <2>1, <2>2
  <1>9. Log!IsEndOf(t, q)
    BY <1>5, <1>6, <1>7, <1>8 DEF Log!IsEndOf
  <1> QED
    BY <1>3, <1>4, <1>5, <1>9

LEMMA EndIsOurs ==
    ASSUME NEW S, NEW T, NEW lines \in Seq(T), NEW past \in Seq(S), Log!IsEndOf(lines, past)
    PROVE  lines \in Seq(S)
  <1>1. PICK m \in Nat : m = Len(lines) /\ DOMAIN lines = 1 .. m
    OBVIOUS
  <1>2. PICK n \in Nat : n = Len(past)
    OBVIOUS
  <1>3. m <= n /\ \A i \in 1 .. m : lines[i] = past[n - m + i]
    BY Zenon, <1>1, <1>2 DEF Log!IsEndOf
  <1>4. ASSUME NEW i \in 1 .. m PROVE lines[i] \in S
    <2>1. PICK k : k = n - m + i
      OBVIOUS
    <2>2. k \in 1 .. n /\ past[k] \in S
      BY <1>2, <1>3, <2>1
    <2> QED
      BY <1>3, <2>1, <2>2
  <1> QED
    BY <1>1, <1>4

LEMMA NothingIsEnd ==
    ASSUME NEW S, NEW past \in Seq(S) PROVE Log!IsEndOf(<<>>, past)
  BY DEF Log!IsEndOf

(* What a compaction keeps of an end of the history is one, and has room.   *)
LEMMA TailFits ==
    ASSUME Log!LogAssumption, NEW S \in SUBSET Runs, NEW lines \in Seq(S),
           NEW past \in Seq(S), Log!IsEndOf(lines, past), NEW b \in Nat
    PROVE  /\ Log!RetainedTail(lines, b) \in Seq(S)
           /\ Log!IsEndOf(Log!RetainedTail(lines, b), past)
           /\ Log!Size(Log!RetainedTail(lines, b)) <= b
  <1>1. PICK m \in Nat : m = Len(lines) /\ DOMAIN lines = 1 .. m
    OBVIOUS
  <1>2. PICK n \in Nat : n = Len(past)
    OBVIOUS
  <1>3. m <= n /\ \A i \in 1 .. m : lines[i] = past[n - m + i]
    BY Zenon, <1>1, <1>2 DEF Log!IsEndOf
  <1>4. PICK fits : fits = {k \in 0 .. m : Log!Size(SubSeq(lines, m - k + 1, m)) <= b}
    BY Zenon
  <1>5. 0 \in fits
    <2>1. PICK none : none = SubSeq(lines, m - 0 + 1, m)
      BY Zenon
    <2>2. none = <<>>
      BY <1>1, <2>1
    <2>3. Log!Size(none) = 0
      BY <2>2, SizeOfNone
    <2>4. Log!Size(SubSeq(lines, m - 0 + 1, m)) <= b
      BY <2>1, <2>3
    <2> QED
      BY <1>4, <2>4
  <1>6. PICK most : most = CHOOSE k \in fits : \A j \in fits : j <= k
    OBVIOUS
  <1>7. most \in fits
    <2>1. fits \in SUBSET (0 .. m)
      BY <1>4
    <2>2. \E k \in fits : \A j \in fits : j <= k
      BY Zenon, <1>5, <2>1, GreatestExists
    <2> QED
      BY <1>6, <2>2
  <1>8. most \in 0 .. m /\ Log!Size(SubSeq(lines, m - most + 1, m)) <= b
    BY <1>4, <1>7
  <1>9. PICK t : t = SubSeq(lines, m - most + 1, m)
    BY Zenon
  <1>10. t = Log!RetainedTail(lines, b)
    BY <1>1, <1>4, <1>6, <1>9 DEF Log!RetainedTail
  <1>11. /\ t \in Seq(S) /\ Len(t) = most
         /\ \A i \in 1 .. most : t[i] = lines[m - most + i]
    BY <1>1, <1>8, <1>9
  <1>12. ASSUME NEW i \in 1 .. most PROVE t[i] = past[n - most + i]
    <2>1. PICK k : k = m - most + i
      OBVIOUS
    <2>2. k \in 1 .. m /\ n - m + k = n - most + i
      BY <1>8, <2>1
    <2> QED
      BY Zenon, <1>3, <1>11, <2>1, <2>2
  <1>13. Log!IsEndOf(t, past)
    <2>1. Len(t) = most /\ DOMAIN t = 1 .. most /\ most <= n
      BY <1>3, <1>8, <1>11
    <2> QED
      BY <1>2, <1>12, <2>1 DEF Log!IsEndOf
  <1> QED
    BY Zenon, <1>8, <1>9, <1>10, <1>11, <1>13

(* What is published fits, or is one record that alone exceeds the bound.   *)
LEMMA PublishedFits ==
    ASSUME Log!LogAssumption, NEW S \in SUBSET Runs, NEW keep \in Seq(S),
           NEW past \in Seq(S), NEW r \in S,
           Log!IsEndOf(keep, past), Log!Size(keep) <= Log!RoomBeside(r)
    PROVE  TellsEnd(Append(keep, r), Append(past, r))
  <1>1. r \in Runs /\ keep \in Seq(Log!Lines) /\ r \in Log!Lines
    BY DEF Log!Lines
  <1>2. PICK w \in Nat : w = Bytes[r] /\ w > 0 /\ Log!LineBytes(r) = w
    BY <1>1 DEF Log!LogAssumption, Log!LineBytes
  <1>3. PICK z \in Nat : z = Log!Size(keep)
    BY <1>1, SizeIsNat
  <1>4. PICK c \in Nat : c = Log!CompactBudget /\ c <= MaxBytes
    BY DEF Log!CompactBudget, Log!LogAssumption
  <1>5. MaxBytes \in Nat
    BY DEF Log!LogAssumption
  <1>6. z <= IF w > c THEN 0 ELSE c - w
    BY <1>2, <1>3, <1>4 DEF Log!RoomBeside
  <1>7. Log!Size(Append(keep, r)) = z + w
    BY <1>1, <1>2, <1>3, SizeGrows
  <1>8. Log!Size(Append(keep, r)) <= MaxBytes \/ Len(Append(keep, r)) = 1
    <2>1. CASE w > c
      <3>1. z = 0
        BY <1>6, <2>1
      <3>2. ASSUME keep # <<>> PROVE FALSE
        <4>1. Log!Size(keep) > 0
          BY <1>1, <3>2, SizeOfSome
        <4> QED
          BY <1>3, <3>1, <4>1
      <3> QED
        BY <3>2
    <2>2. CASE ~(w > c)
      BY <1>4, <1>5, <1>6, <1>7, <2>2
    <2> QED
      BY <2>1, <2>2
  <1> QED
    BY <1>8, EndGrows DEF TellsEnd

(* An append within the bound to a file that tells the end of the history.  *)
LEMMA AppendTells ==
    ASSUME Log!LogAssumption, NEW S \in SUBSET Runs, NEW T, NEW lines \in Seq(T),
           NEW past \in Seq(S), NEW r \in S, TellsEnd(lines, past),
           Log!Size(lines) + Bytes[r] <= MaxBytes
    PROVE  TellsEnd(Append(lines, r), Append(past, r))
  <1>1. lines \in Seq(S)
    BY EndIsOurs DEF TellsEnd
  <1>2. lines \in Seq(Log!Lines) /\ r \in Log!Lines /\ Log!LineBytes(r) = Bytes[r]
    BY <1>1 DEF Log!Lines, Log!LineBytes
  <1>3. Log!Size(Append(lines, r)) <= MaxBytes
    BY <1>2, SizeGrows
  <1> QED
    BY <1>1, <1>3, EndGrows DEF TellsEnd

(* What a step must show that leaves the seal and the history alone.        *)
LEMMA LogRests ==
    ASSUME Log!LogAssumption, LogInv, LogTypes', FilesLeft',
           vouched' = vouched, history' = history, Later(files, files'),
           files' \in [Log!Files -> Nodes],
           Knows(holder', files', history, vouched),
           lastOpen' = "clean" => OnlyOurs(files')
    PROVE  LogInv'
  <1>1. PICK f : f = files /\ f \in [Log!Files -> Nodes]
    BY DEF LogInv, LogTypes
  <1>2. PICK g : g = files' /\ g \in [Log!Files -> Nodes]
    OBVIOUS
  <1>3. PICK s \in Seals : s = vouched /\ vouched' = s
    BY DEF LogInv, LogTypes
  <1>4. PICK past : past = history /\ history' = past
    OBVIOUS
  <1>5. s # Log!NoSeal => Describes(s, g, past)
    <2>1. s # Log!NoSeal => Describes(s, f, past)
      BY <1>1, <1>3, <1>4 DEF LogInv
    <2>2. Later(f, g)
      BY <1>1, <1>2
    <2> QED
      BY <1>1, <1>2, <2>1, <2>2, StaysDescribed
  <1>6. vouched' # Log!NoSeal => Describes(vouched', files', history')
    BY <1>2, <1>3, <1>4, <1>5
  <1>7. Knows(holder', files', history', vouched')
    OBVIOUS
  <1> QED
    BY <1>6, <1>7 DEF LogInv

LEMMA LogQuiet ==
    ASSUME Log!LogAssumption, LogInv, LogTypes',
           UNCHANGED <<files, vouched, history, lastOpen>>, counts'.edits = counts.edits,
           Spent(hookAt, holder) \subseteq Spent(hookAt, holder)',
           Knows(holder', files, history, vouched)
    PROVE  LogInv'
  <1>1. files' \in [Log!Files -> Nodes]
    BY DEF LogInv, LogTypes
  <1>2. Later(files, files')
    BY DEF Later
  <1>3. FilesLeft'
    <2>1. Used(files)' \subseteq Used(files)
      BY DEF Used
    <2>2. counts'.edits >= counts.edits
      BY DEF LogInv, LogTypes, HooksOK, Log!LogAssumption
    <2> QED
      BY <2>1, <2>2, CountRests DEF LogInv
  <1>4. lastOpen' = "clean" => OnlyOurs(files')
    BY DEF LogInv, OnlyOurs
  <1> QED
    BY <1>1, <1>2, <1>3, <1>4, LogRests

(* The sealed file, when the name still holds it.                           *)
LEMMA OursTells ==
    ASSUME LogInv, vouched # Log!NoSeal, NEW n \in Log!Ours(vouched)
    PROVE  /\ n \in Log!Files /\ files[n].at = "name" /\ Taken(files, n)
           /\ TellsEnd(files[n].lines, history)
  <1>1. n \in Log!Files /\ files[n].at = "name"
    BY DEF Log!Ours, Log!Holders
  <1>2. vouched.node = n /\ vouched.change = files[n].change
    BY DEF Log!Ours, Log!SealMatches, Log!SealOf
  <1> QED
    BY <1>1, <1>2 DEF LogInv, Describes, Taken

(* A holder that is none of the hooks knows nothing.                        *)
LEMMA OthersKnow ==
    ASSUME NEW h, h.by \notin Runs, NEW f, NEW past, NEW s
    PROVE  Knows(h, f, past, s)
  BY DEF Knows

LEMMA IdleHolds ==
    ASSUME Log!LogAssumption, LogTypes
    PROVE  /\ Log!Idle \in Holders /\ Log!Idle.by = Log!Nobody /\ Log!Idle.by \notin Runs
           /\ Log!Idle.at = "idle"
  <1>1. <<>> \in Seq(committed) /\ [node |-> 0, change |-> 0] \in Seals
    BY DEF Seals
  <1>2. Log!Idle = [by |-> Log!Nobody, at |-> "idle", seal |-> [node |-> 0, change |-> 0],
                    fd |-> 0, size |-> 0, keep |-> <<>>]
    BY DEF Log!Idle, Log!NoSeal
  <1> QED
    BY <1>1, <1>2, TellsApart DEF Holders

LEMMA LetsGo ==
    ASSUME Log!LogAssumption, LogTypes, Log!Release, UNCHANGED committed
    PROVE  /\ holder' \in Holders /\ holder'.by \notin Runs
           /\ hookAt' \in [Runs -> {"running", "finished", "recorded", "done"}]
           /\ \A r \in Runs : hookAt'[r] = "recorded" => r \in committed
           /\ Spent(hookAt, holder) \subseteq Spent(hookAt, holder)'
  <1>1. holder' = Log!Idle
    BY DEF Log!Release
  <1>2. holder' \in Holders /\ holder'.by \notin Runs
    BY <1>1, IdleHolds
  <1>3. PICK p : p = hookAt /\ p \in [Runs -> {"running", "finished", "recorded", "done"}]
    BY DEF LogTypes, HooksOK
  <1>4. PICK q : q = hookAt'
    OBVIOUS
  <1>5. PICK b : b = holder.by
    OBVIOUS
  <1>6. q = IF b \in Runs THEN [p EXCEPT ![b] = "done"] ELSE p
    BY <1>3, <1>4, <1>5 DEF Log!Release
  <1>7. /\ q \in [Runs -> {"running", "finished", "recorded", "done"}]
        /\ \A r \in Runs : q[r] = IF r = b THEN "done" ELSE p[r]
    BY <1>3, <1>6
  <1>8. \A r \in Runs : q[r] = "recorded" => r \in committed
    BY <1>3, <1>7 DEF LogTypes, HooksOK
  <1>9. ASSUME NEW r \in Runs, p[r] = "done" \/ holder.by = r PROVE q[r] = "done"
    BY <1>5, <1>7, <1>9
  <1>10. Spent(hookAt, holder) \subseteq Spent(hookAt, holder)'
    BY <1>3, <1>4, <1>9 DEF Spent
  <1> QED
    BY <1>2, <1>4, <1>7, <1>8, <1>10

(* The holder stops and the files are left alone.                           *)
LEMMA Stops ==
    ASSUME Log!LogAssumption, LogInv, Log!Release,
           UNCHANGED <<files, vouched, committed, history, lastOpen, counts>>
    PROVE  LogInv'
  <1>1. LogTypes
    BY DEF LogInv
  <1>2. LogTypes'
    BY Zenon, <1>1, LetsGo DEF LogTypes, HooksOK, Holders, Nodes, Told
  <1>3. Knows(holder', files, history, vouched)
    BY <1>1, LetsGo, OthersKnow
  <1> QED
    BY <1>1, <1>2, <1>3, LetsGo, LogQuiet

(* A hook finishes, commits its event, or never gets to the file.           *)
LEMMA HookGoes ==
    ASSUME Log!LogAssumption, LogInv, NEW r \in Runs,
           Log!Finishes(r) \/ Log!CommitsEvent(r) \/ Log!NeverProjects(r)
    PROVE  LogInv'
  <1>1. LogTypes
    BY DEF LogInv
  <1>2. UNCHANGED <<files, vouched, history, holder, lastOpen, counts>>
    BY DEF Log!Finishes, Log!CommitsEvent, Log!NeverProjects
  <1>3. PICK p : p = hookAt /\ p \in [Runs -> {"running", "finished", "recorded", "done"}]
    BY <1>1 DEF LogTypes, HooksOK
  <1>4. PICK k \in {"finished", "recorded", "done"} :
           /\ hookAt' = [p EXCEPT ![r] = k]
           /\ k = "recorded" => r \in committed'
    BY <1>3 DEF Log!Finishes, Log!CommitsEvent, Log!NeverProjects
  <1>5. p[r] # "done" /\ holder.by # r
    BY <1>1, <1>3
       DEF Log!Finishes, Log!CommitsEvent, Log!NeverProjects, LogTypes, HooksOK
  <1>6. committed \subseteq committed' /\ committed' \subseteq Runs
    BY <1>1 DEF Log!Finishes, Log!CommitsEvent, Log!NeverProjects, LogTypes, HooksOK
  <1>7. PICK q : q = hookAt' /\ q = [p EXCEPT ![r] = k]
    BY <1>4
  <1>8. /\ q \in [Runs -> {"running", "finished", "recorded", "done"}]
        /\ q[r] = k /\ \A x \in Runs \ {r} : q[x] = p[x]
    BY <1>3, <1>7
  <1>9. HooksOK'
    <2>1. \A x \in Runs : q[x] = "recorded" => x \in committed'
      BY <1>1, <1>3, <1>4, <1>6, <1>8 DEF LogTypes, HooksOK
    <2>2. holder.by \in Runs => q[holder.by] = "recorded"
      BY <1>1, <1>3, <1>5, <1>8 DEF LogTypes, HooksOK
    <2> QED
      BY <1>1, <1>2, <1>6, <1>7, <1>8, <2>1, <2>2 DEF LogTypes, HooksOK
  <1>10. LogTypes'
    <2>1. PICK A : A = committed
      OBVIOUS
    <2>2. PICK B : B = committed'
      OBVIOUS
    <2>3. /\ Seq(A) \subseteq Seq(B)
          /\ Seq(A \cup {Foreign, Torn}) \subseteq Seq(B \cup {Foreign, Torn})
      BY <1>6, <2>1, <2>2
    <2>4. history' \in Seq(B)
      BY <1>1, <1>2, <2>1, <2>3 DEF LogTypes
    <2>5. files' \in [Log!Files -> [lines : Seq(B \cup {Foreign, Torn}), change : Nat,
                                    at : Log!Places]]
      BY Zenon, <1>1, <1>2, <2>1, <2>3 DEF LogTypes, Nodes, Told
    <2>6. holder'.keep \in Seq(B) /\ holder' \in Holders'
      BY <1>1, <1>2, <2>1, <2>2, <2>3 DEF LogTypes, Holders
    <2> QED
      BY <1>1, <1>2, <1>9, <2>2, <2>4, <2>5, <2>6 DEF LogTypes, Nodes, Told
  <1>11. Spent(hookAt, holder) \subseteq Spent(hookAt, holder)'
    BY <1>2, <1>3, <1>5, <1>7, <1>8 DEF Spent
  <1> QED
    BY <1>2, <1>10, <1>11, LogQuiet DEF LogInv

(* The holder's next call, when it changes no file.                         *)
LEMMA StandsOn ==
    ASSUME Log!LogAssumption, LogInv, holder' \in Holders, holder'.by = holder.by,
           UNCHANGED <<files, vouched, committed, hookAt, history, lastOpen, counts>>,
           holder.at \in {"verify", "seal"} => holder'.at \in {"verify", "seal"},
           Knows(holder', files, history, vouched)
    PROVE  LogInv'
  <1>1. LogTypes'
    BY Zenon DEF LogInv, LogTypes, HooksOK, Holders, Nodes, Told
  <1>2. Spent(hookAt, holder) \subseteq Spent(hookAt, holder)'
    BY DEF Spent
  <1> QED
    BY <1>1, <1>2, LogQuiet

LEMMA NextCall ==
    ASSUME Log!LogAssumption, LogInv, NEW pc \in {"aside", "tail", "retire", "swap"},
           Log!Onward(pc),
           UNCHANGED <<files, vouched, committed, hookAt, history, lastOpen, counts>>,
           holder.at \notin {"verify", "seal"},
           pc = "tail" => holder.at = "open",
           pc = "swap" => holder.at = "confirm"
    PROVE  LogInv'
  <1>1. PICK h : h = holder /\ h \in Holders
    BY DEF LogInv, LogTypes
  <1>2. PICK g : g = [h EXCEPT !.at = pc]
    BY Zenon
  <1>3. /\ g \in Holders /\ g.at = pc /\ g.by = h.by /\ g.seal = h.seal /\ g.keep = h.keep
    BY <1>1, <1>2 DEF Holders
  <1>4. holder' = g
    BY <1>1, <1>2 DEF Log!Onward
  <1>5. Knows(h, files, history, vouched)
    BY <1>1 DEF LogInv
  <1>6. Knows(g, files, history, vouched)
    BY <1>1, <1>3, <1>5 DEF Knows, AtWrite, AtCheck, AtSwap, AtVerify, AtSeal
  <1> QED
    BY <1>1, <1>3, <1>4, <1>6, StandsOn

LEMMA HookLocks ==
    ASSUME Log!LogAssumption, LogInv, NEW r \in Runs, Log!Locks(r)
    PROVE  LogInv'
  <1>1. LogTypes
    BY DEF LogInv
  <1>2. PICK idle : idle = Log!Idle
    OBVIOUS
  <1>3. PICK s \in {vouched, Log!NoSeal} :
           holder' = [idle EXCEPT !.by = r, !.seal = s,
                                  !.at = IF s = Log!NoSeal THEN "aside" ELSE "open"]
    BY Zenon, <1>2 DEF Log!Locks
  <1>4. s \in Seals
    BY <1>1 DEF LogTypes, Seals, Log!NoSeal
  <1>5. PICK pc : pc = IF s = Log!NoSeal THEN "aside" ELSE "open"
    OBVIOUS
  <1>6. PICK g : g = [by |-> r, at |-> pc, seal |-> s, fd |-> 0, size |-> 0, keep |-> <<>>]
    BY Zenon
  <1>7. holder' = g
    <2>1. idle = [by |-> Log!Nobody, at |-> "idle", seal |-> Log!NoSeal, fd |-> 0,
                  size |-> 0, keep |-> <<>>]
      BY <1>2 DEF Log!Idle
    <2>2. PICK a : a = [idle EXCEPT !.by = r]
      BY Zenon
    <2>3. a = [by |-> r, at |-> "idle", seal |-> Log!NoSeal, fd |-> 0, size |-> 0,
               keep |-> <<>>]
      BY <2>1, <2>2
    <2>4. PICK b : b = [a EXCEPT !.seal = s]
      BY Zenon
    <2>5. b = [by |-> r, at |-> "idle", seal |-> s, fd |-> 0, size |-> 0, keep |-> <<>>]
      BY <2>3, <2>4
    <2>6. g = [b EXCEPT !.at = pc]
      BY <1>6, <2>5
    <2> QED
      BY <1>3, <1>5, <2>2, <2>4, <2>6
  <1>8. g \in Holders /\ g.by = r /\ g.at = pc /\ g.seal = s
    <2>1. <<>> \in Seq(committed)
      OBVIOUS
    <2> QED
      BY <1>4, <1>5, <1>6, <2>1 DEF Holders
  <1>9. Knows(g, files, history, vouched)
    BY <1>3, <1>5, <1>8 DEF Knows, AtWrite, AtCheck, AtSwap, AtVerify, AtSeal
  <1>10. holder.by = Log!Nobody /\ holder.by \notin Runs
    BY <1>1, IdleHolds DEF Log!Locks
  <1>11. UNCHANGED <<files, vouched, committed, hookAt, history, lastOpen, counts>>
    BY DEF Log!Locks
  <1>12. LogTypes'
    <2>1. hookAt[r] = "recorded"
      BY DEF Log!Locks
    <2>2. HooksOK'
      BY <1>1, <1>7, <1>8, <1>11, <2>1 DEF LogTypes, HooksOK
    <2> QED
      BY <1>1, <1>7, <1>8, <1>11, <2>2 DEF LogTypes, Holders, Nodes, Told
  <1>13. Spent(hookAt, holder) \subseteq Spent(hookAt, holder)'
    BY <1>10, <1>11 DEF Spent
  <1> QED
    BY <1>7, <1>9, <1>11, <1>12, <1>13, LogQuiet

LEMMA HookOpens ==
    ASSUME Log!LogAssumption, LogInv, Log!Opens
    PROVE  LogInv'
  <1>1. LogTypes /\ holder \in Holders
    BY DEF LogInv, LogTypes
  <1>2. /\ UNCHANGED <<files, vouched, committed, hookAt, history, lastOpen, counts>>
        /\ holder.at = "open" /\ holder.by \in Runs
    BY Zenon DEF Log!Opens, Log!At
  <1>3. holder.seal = vouched /\ vouched # Log!NoSeal
    BY <1>2 DEF LogInv, Knows
  <1>4. CASE Log!Onward("aside") \/ Log!Onward("tail")
    BY <1>2, <1>4, NextCall
  <1>5. ASSUME NEW n \in Log!Ours(vouched), Log!HasRoom(n, holder.by),
               holder' = [holder EXCEPT !.at = "write", !.fd = n,
                                        !.size = Log!Size(files[n].lines)]
        PROVE  LogInv'
    <2>1. n \in Log!Files /\ Taken(files, n) /\ TellsEnd(files[n].lines, history)
      BY <1>3, OursTells
    <2>2. files[n].lines \in Seq(Log!Lines)
      BY <1>1, <2>1, TellsApart DEF LogTypes, Nodes
    <2>3. PICK z \in Nat : z = Log!Size(files[n].lines)
      BY <2>2, SizeIsNat
    <2>4. PICK h : h = holder /\ h \in Holders
      BY <1>1
    <2>5. PICK g : g = [h EXCEPT !.at = "write", !.fd = n, !.size = z]
      OBVIOUS
    <2>6. /\ g \in Holders /\ g.by = h.by /\ g.at = "write" /\ g.fd = n /\ g.size = z
      BY Zenon, <2>1, <2>4, <2>5 DEF Holders
    <2>7. z + Bytes[h.by] <= MaxBytes
      BY <1>5, <2>3, <2>4 DEF Log!HasRoom
    <2>8. AtWrite(g, files, history)
      BY <2>1, <2>3, <2>6, <2>7 DEF AtWrite
    <2>9. Knows(g, files, history, vouched)
      BY <2>6, <2>8 DEF Knows, AtCheck, AtSwap, AtVerify, AtSeal
    <2>10. holder' = g
      BY <1>5, <2>3, <2>4, <2>5
    <2> QED
      BY <1>2, <2>4, <2>6, <2>9, <2>10, StandsOn
  <1> QED
    BY Zenon, <1>3, <1>4, <1>5 DEF Log!Opens

LEMMA HookReadsTail ==
    ASSUME Log!LogAssumption, LogInv, Log!ReadsTail
    PROVE  LogInv'
  <1>1. LogTypes /\ holder \in Holders
    BY DEF LogInv, LogTypes
  <1>2. /\ UNCHANGED <<files, vouched, committed, hookAt, history, lastOpen, counts>>
        /\ holder.at = "tail" /\ holder.by \in Runs
    BY Zenon DEF Log!ReadsTail, Log!At
  <1>3. holder.seal = vouched /\ vouched # Log!NoSeal
    BY <1>2 DEF LogInv, Knows
  <1>4. CASE Log!Onward("aside")
    BY <1>2, <1>4, NextCall
  <1>5. ASSUME NEW n \in Log!Ours(vouched),
               holder' = [holder EXCEPT !.at = "confirm",
                    !.keep = Log!RetainedTail(files[n].lines, Log!RoomBeside(holder.by))]
        PROVE  LogInv'
    <2>1. n \in Log!Files /\ TellsEnd(files[n].lines, history)
      BY <1>3, OursTells
    <2>2. PICK past : past = history /\ past \in Seq(committed)
      BY <1>1 DEF LogTypes
    <2>3. PICK lines : lines = files[n].lines /\ lines \in Seq(Told)
      BY <1>1, <2>1 DEF LogTypes, Nodes
    <2>4. Log!IsEndOf(lines, past) /\ lines \in Seq(committed)
      BY <2>1, <2>2, <2>3, EndIsOurs DEF TellsEnd
    <2>5. PICK b : b = Log!RoomBeside(holder.by) /\ b \in Nat
      BY <1>2 DEF Log!RoomBeside, Log!CompactBudget, Log!LogAssumption
    <2>6. PICK keep : keep = Log!RetainedTail(lines, b)
      OBVIOUS
    <2>7. /\ keep \in Seq(committed) /\ Log!IsEndOf(keep, past) /\ Log!Size(keep) <= b
      <3>1. committed \in SUBSET Runs
        BY <1>1 DEF LogTypes, HooksOK
      <3> QED
        BY <2>2, <2>4, <2>5, <2>6, <3>1, TailFits
    <2>8. PICK h : h = holder /\ h \in Holders
      BY <1>1
    <2>9. PICK g : g = [h EXCEPT !.at = "confirm", !.keep = keep]
      OBVIOUS
    <2>10. /\ g \in Holders /\ g.by = h.by /\ g.at = "confirm" /\ g.keep = keep
           /\ g.seal = h.seal
      BY Zenon, <2>7, <2>8, <2>9 DEF Holders
    <2>11. AtSwap(g, history)
      BY <2>2, <2>5, <2>7, <2>8, <2>10 DEF AtSwap
    <2>12. Knows(g, files, history, vouched)
      BY <1>3, <2>8, <2>10, <2>11 DEF Knows, AtWrite, AtCheck, AtVerify, AtSeal
    <2>13. holder' = g
      BY <1>5, <2>3, <2>5, <2>6, <2>8, <2>9
    <2> QED
      BY <1>2, <2>8, <2>10, <2>12, <2>13, StandsOn
  <1> QED
    BY Zenon, <1>3, <1>4, <1>5 DEF Log!ReadsTail

LEMMA HookConfirms ==
    ASSUME Log!LogAssumption, LogInv, Log!Confirms
    PROVE  LogInv'
  <1>1. /\ UNCHANGED <<files, vouched, committed, hookAt, history, lastOpen, counts>>
        /\ holder.at = "confirm" /\ (Log!Onward("swap") \/ Log!Onward("aside"))
    BY DEF Log!Confirms, Log!At
  <1> QED
    BY <1>1, NextCall

(* What is sealed next is the file as the check found it.                   *)
LEMMA SealsNext ==
    ASSUME Log!LogAssumption, LogInv, NEW n, n = holder.fd, Taken(files, n),
           holder.by \in Runs,
           TellsEnd(files[n].lines, Append(history, holder.by)),
           holder' = [holder EXCEPT !.at = "seal", !.seal = Log!SealOf(holder.fd)],
           UNCHANGED <<files, vouched, committed, hookAt, history, lastOpen, counts>>
    PROVE  LogInv'
  <1>1. PICK h : h = holder /\ h \in Holders
    BY DEF LogInv, LogTypes
  <1>2. n \in Log!Files /\ n \in Nat /\ files[n].change \in Nat
    BY FilesAreFinite DEF LogInv, LogTypes, Nodes, Taken
  <1>3. PICK s : s = [node |-> n, change |-> files[n].change]
    BY Zenon
  <1>4. s \in Seals /\ s.node = n /\ s.change = files[n].change /\ s = Log!SealOf(n)
    BY <1>2, <1>3 DEF Seals, Log!SealOf
  <1>5. PICK g : g = [h EXCEPT !.at = "seal", !.seal = s]
    OBVIOUS
  <1>6. g \in Holders /\ g.by = h.by /\ g.at = "seal" /\ g.seal = s
    BY Zenon, <1>1, <1>4, <1>5 DEF Holders
  <1>7. holder' = g
    BY <1>1, <1>4, <1>5
  <1>8. AtSeal(g, files, history)
    BY <1>1, <1>2, <1>4, <1>6 DEF AtSeal, Describes
  <1>9. Knows(g, files, history, vouched)
    BY <1>6, <1>8 DEF Knows, AtWrite, AtCheck, AtSwap, AtVerify
  <1> QED
    BY <1>1, <1>6, <1>7, <1>9, StandsOn

LEMMA HookChecks ==
    ASSUME Log!LogAssumption, LogInv, Log!Checks
    PROVE  LogInv'
  <1>1. /\ UNCHANGED <<files, vouched, committed, history, lastOpen, counts>>
        /\ holder.at = "check" /\ holder.by \in Runs
    BY DEF Log!Checks, Log!At
  <1>2. CASE Log!Release
    BY <1>1, <1>2, Stops
  <1>3. CASE Log!GrewByOne /\ hookAt' = hookAt
             /\ holder' = [holder EXCEPT !.at = "seal", !.seal = Log!SealOf(holder.fd)]
    <2>1. Taken(files, holder.fd)
          /\ TellsEnd(files[holder.fd].lines, Append(history, holder.by))
      BY <1>1, <1>3 DEF LogInv, Knows, AtCheck, Log!GrewByOne
    <2> QED
      BY <1>1, <1>3, <2>1, SealsNext
  <1> QED
    BY <1>2, <1>3 DEF Log!Checks

LEMMA HookVerifies ==
    ASSUME Log!LogAssumption, LogInv, Log!Verifies
    PROVE  LogInv'
  <1>1. /\ UNCHANGED <<files, vouched, committed, history, lastOpen, counts>>
        /\ holder.at = "verify" /\ holder.by \in Runs
    BY DEF Log!Verifies, Log!At
  <1>2. CASE Log!Release
    BY <1>1, <1>2, Stops
  <1>3. CASE files[holder.fd].change = 1 /\ hookAt' = hookAt
             /\ holder' = [holder EXCEPT !.at = "seal", !.seal = Log!SealOf(holder.fd)]
    <2>1. Taken(files, holder.fd)
          /\ TellsEnd(files[holder.fd].lines, Append(history, holder.by))
      BY <1>1, <1>3 DEF LogInv, Knows, AtVerify
    <2> QED
      BY <1>1, <1>3, <2>1, SealsNext
  <1> QED
    BY <1>2, <1>3 DEF Log!Verifies

(* A terminal opens.                                                        *)
LEMMA TerminalAsks ==
    ASSUME Log!LogAssumption, LogInv, Log!Asks
    PROVE  LogInv'
  <1>1. LogTypes /\ UNCHANGED <<files, vouched, committed, hookAt, history, lastOpen>>
    BY DEF LogInv, Log!Asks
  <1>2. PICK g : g = holder'
    OBVIOUS
  <1>3. g \in Holders /\ g.by = Log!Opener /\ g.by \notin Runs
    <2>1. g = [Log!Idle EXCEPT !.by = Log!Opener, !.at = "look"]
      BY <1>2 DEF Log!Asks
    <2>2. PICK idle : idle = Log!Idle /\ idle \in Holders
      BY <1>1, IdleHolds
    <2>3. g = [idle EXCEPT !.by = Log!Opener, !.at = "look"]
      BY <2>1, <2>2
    <2>4. g \in Holders /\ g.by = Log!Opener
      BY Zenon, <2>2, <2>3 DEF Holders
    <2> QED
      BY <1>1, <2>4, TellsApart
  <1>4. counts'.edits = counts.edits
        /\ counts' \in [edits : 0..MaxEdits, crashes : 0..MaxCrashes, opens : 0..MaxOpens]
    <2>1. PICK c : c = counts /\ c \in [edits : 0..MaxEdits, crashes : 0..MaxCrashes,
                                        opens : 0..MaxOpens]
      BY <1>1 DEF LogTypes, HooksOK
    <2>2. c.opens \in 0..MaxOpens /\ c.opens < MaxOpens /\ MaxOpens \in Nat
      BY <2>1 DEF Log!Asks, Log!LogAssumption
    <2>3. PICK k : k = c.opens + 1 /\ k \in 0..MaxOpens
      BY <2>2
    <2>4. counts' = [c EXCEPT !.opens = k]
      BY <2>1, <2>3 DEF Log!Asks
    <2> QED
      BY <2>1, <2>3, <2>4
  <1>5. LogTypes'
    <2>1. HooksOK'
      BY <1>1, <1>2, <1>3, <1>4 DEF LogTypes, HooksOK
    <2> QED
      BY <1>1, <1>2, <1>3, <2>1 DEF LogTypes, Holders, Nodes, Told
  <1>6. Spent(hookAt, holder) \subseteq Spent(hookAt, holder)'
    <2>1. holder = Log!Idle
      BY DEF Log!Asks
    <2>2. holder.by \notin Runs
      BY <1>1, <2>1, IdleHolds
    <2> QED
      BY <1>1, <2>2 DEF Spent
  <1>7. Knows(holder', files, history, vouched)
    BY <1>2, <1>3, OthersKnow
  <1> QED
    BY <1>1, <1>4, <1>5, <1>6, <1>7, LogQuiet

(* A file on the name that the seal vouches for holds no outside line.      *)
LEMMA SealedIsOurs ==
    ASSUME Log!LogAssumption, LogInv, NEW s \in {vouched, Log!NoSeal},
           Log!Holders = Log!Ours(s)
    PROVE  OnlyOurs(files)
  <1>1. SUFFICES ASSUME NEW n \in Log!Files, files[n].at = "name",
                        NEW i \in DOMAIN files[n].lines
                 PROVE  files[n].lines[i] # Foreign
    BY DEF OnlyOurs
  <1>2. n \in Log!Ours(s)
    BY <1>1 DEF Log!Holders
  <1>3. s # Log!NoSeal
    <2>1. s.node = n
      BY <1>2 DEF Log!Ours, Log!SealMatches, Log!SealOf
    <2>2. Log!NoSeal.node = 0
      BY DEF Log!NoSeal
    <2> QED
      BY <2>1, <2>2, FilesAreFinite
  <1>4. TellsEnd(files[n].lines, history)
    BY <1>2, <1>3, OursTells
  <1>5. PICK lines : lines = files[n].lines /\ lines \in Seq(Told)
    BY DEF LogInv, LogTypes, Nodes
  <1>6. PICK past : past = history /\ past \in Seq(committed)
    BY DEF LogInv, LogTypes
  <1>7. lines \in Seq(committed)
    BY <1>4, <1>5, <1>6, EndIsOurs DEF TellsEnd
  <1>8. lines[i] \in committed
    BY <1>5, <1>7
  <1> QED
    BY <1>5, <1>8, TellsApart DEF LogInv

LEMMA TerminalLooks ==
    ASSUME Log!LogAssumption, LogInv, Log!Looks
    PROVE  LogInv'
  <1>1. LogTypes
    BY DEF LogInv
  <1>2. UNCHANGED <<files, vouched, committed, history, counts>>
        /\ holder.at = "look" /\ holder.by = Log!Opener
    BY DEF Log!Looks
  <1>3. PICK s \in {vouched, Log!NoSeal} :
           \/ Log!Holders = Log!Ours(s) /\ Log!Release /\ lastOpen' = "clean"
           \/ Log!Onward("retire") /\ UNCHANGED <<hookAt, lastOpen>>
    BY DEF Log!Looks
  <1>4. CASE Log!Onward("retire") /\ UNCHANGED <<hookAt, lastOpen>>
    BY <1>2, <1>4, NextCall
  <1>5. CASE Log!Holders = Log!Ours(s) /\ Log!Release /\ lastOpen' = "clean"
    <2>1. LogTypes'
      BY Zenon, <1>1, <1>2, <1>5, LetsGo DEF LogTypes, HooksOK, Holders, Nodes, Told
    <2>2. OnlyOurs(files')
      BY <1>2, <1>5, SealedIsOurs
    <2>3. FilesLeft'
      <3>1. Used(files)' \subseteq Used(files)
        BY <1>2 DEF Used
      <3>2. counts'.edits >= counts.edits
        BY <1>1, <1>2 DEF LogTypes, HooksOK, Log!LogAssumption
      <3> QED
        BY <1>1, <1>2, <1>5, <2>1, <3>1, <3>2, CountRests, LetsGo DEF LogInv
    <2>4. Knows(holder', files', history, vouched)
      BY <1>1, <1>2, <1>5, LetsGo, OthersKnow
    <2>5. Later(files, files') /\ files' \in [Log!Files -> Nodes]
      BY <1>1, <1>2 DEF Later, LogTypes
    <2> QED
      BY <1>2, <2>1, <2>2, <2>3, <2>4, <2>5, LogRests
  <1> QED
    BY <1>3, <1>4, <1>5

(* What the files become when the holder moves on or lets go.               *)
LEMMA FilesMove ==
    ASSUME Log!LogAssumption, LogInv, NEW g \in [Log!Files -> Nodes], files' = g,
           Later(files, g), Used(g) \subseteq Used(files),
           UNCHANGED <<vouched, committed, history, counts>>,
           HooksOK', holder' \in Holders,
           Spent(hookAt, holder) \subseteq Spent(hookAt, holder)',
           Knows(holder', g, history, vouched),
           lastOpen' = "clean" => OnlyOurs(g)
    PROVE  LogInv'
  <1>1. LogTypes
    BY DEF LogInv
  <1>2. LogTypes'
    BY <1>1 DEF LogTypes, Holders, Nodes, Told
  <1>3. FilesLeft'
    <2>1. Used(files)' \subseteq Used(files)
      BY DEF Used
    <2>2. counts'.edits >= counts.edits
      BY <1>1 DEF LogTypes, HooksOK, Log!LogAssumption
    <2> QED
      BY <1>1, <1>2, <2>1, <2>2, CountRests DEF LogInv
  <1>4. Later(files, files') /\ files' \in [Log!Files -> Nodes]
    OBVIOUS
  <1>5. Knows(holder', files', history, vouched)
    OBVIOUS
  <1>6. lastOpen' = "clean" => OnlyOurs(files')
    OBVIOUS
  <1> QED
    BY <1>2, <1>3, <1>4, <1>5, <1>6, LogRests

LEMMA TerminalRetires ==
    ASSUME Log!LogAssumption, LogInv, Log!Retires
    PROVE  LogInv'
  <1>1. LogTypes
    BY DEF LogInv
  <1>2. /\ UNCHANGED <<vouched, committed, history, counts>>
        /\ Log!Release /\ files' = Log!Put("aside") /\ lastOpen' = "clean"
    BY DEF Log!Retires
  <1>3. PICK g : g = Log!Put("aside") /\ g \in [Log!Files -> Nodes]
    BY <1>1, PutAside
  <1>4. /\ Later(files, g) /\ Used(g) = Used(files)
        /\ \A n \in Log!Files : g[n].at # "name"
    BY <1>1, <1>3, PutAside
  <1>5. HooksOK'
    BY <1>1, <1>2, LetsGo DEF LogTypes, HooksOK
  <1>6. OnlyOurs(g)
    BY <1>4 DEF OnlyOurs
  <1>7. Knows(holder', g, history, vouched)
    BY <1>1, <1>2, LetsGo, OthersKnow
  <1>8. files' = g
    BY <1>2, <1>3
  <1> QED
    BY <1>1, <1>2, <1>3, <1>4, <1>5, <1>6, <1>7, <1>8, LetsGo, FilesMove

LEMMA HookMovesAside ==
    ASSUME Log!LogAssumption, LogInv, Log!MovesAside
    PROVE  LogInv'
  <1>1. LogTypes
    BY DEF LogInv
  <1>2. /\ UNCHANGED <<vouched, committed, hookAt, history, lastOpen, counts>>
        /\ files' = Log!Put("aside") /\ holder.at = "aside" /\ holder.by \in Runs
    BY DEF Log!MovesAside, Log!At
  <1>3. PICK g : g = Log!Put("aside") /\ g \in [Log!Files -> Nodes]
    BY <1>1, PutAside
  <1>4. /\ Later(files, g) /\ Used(g) = Used(files)
        /\ \A n \in Log!Files : g[n].at # "name"
    BY <1>1, <1>3, PutAside
  <1>5. PICK h : h = holder /\ h \in Holders
    BY <1>1 DEF LogTypes
  <1>6. PICK k : k = [h EXCEPT !.at = "swap", !.keep = <<>>]
    OBVIOUS
  <1>7. k \in Holders /\ k.by = h.by /\ k.at = "swap" /\ k.keep = <<>> /\ holder' = k
    <2>1. <<>> \in Seq(committed)
      OBVIOUS
    <2>2. k \in Holders /\ k.by = h.by /\ k.at = "swap" /\ k.keep = <<>>
      BY Zenon, <1>5, <1>6, <2>1 DEF Holders
    <2> QED
      BY <1>5, <1>6, <2>2 DEF Log!MovesAside
  <1>8. AtSwap(k, history)
    <2>1. Log!IsEndOf(<<>>, history)
      BY <1>1, NothingIsEnd DEF LogTypes
    <2>2. Log!Size(<<>>) <= Log!RoomBeside(k.by)
      <3>1. Log!RoomBeside(k.by) \in Nat
        BY <1>2, <1>5, <1>7 DEF Log!RoomBeside, Log!CompactBudget, Log!LogAssumption
      <3> QED
        BY <3>1, SizeOfNone
    <2> QED
      BY <1>7, <2>1, <2>2 DEF AtSwap
  <1>9. Knows(k, g, history, vouched)
    BY <1>7, <1>8 DEF Knows, AtWrite, AtCheck, AtVerify, AtSeal
  <1>10. HooksOK'
    BY <1>1, <1>2, <1>5, <1>7 DEF LogTypes, HooksOK
  <1>11. Spent(hookAt, holder) \subseteq Spent(hookAt, holder)'
    BY <1>2, <1>5, <1>7 DEF Spent
  <1>12. OnlyOurs(g) /\ files' = g
    BY <1>2, <1>3, <1>4 DEF OnlyOurs
  <1> QED
    BY <1>2, <1>3, <1>4, <1>7, <1>9, <1>10, <1>11, <1>12, FilesMove

(* A line is appended to an open file, wherever that file is by now.        *)
LEMMA LineAdded ==
    ASSUME Log!LogAssumption, LogTypes, NEW k \in Log!Files, files[k].at # "unused",
           NEW l \in Told
    PROVE  \E g \in [Log!Files -> Nodes] :
              /\ g = Log!Written(k, Append(files[k].lines, l))
              /\ Later(files, g) /\ Longer(files, g) /\ Used(g) = Used(files)
              /\ Taken(g, k) /\ g[k].lines = Append(files[k].lines, l)
              /\ l # Foreign /\ OnlyOurs(files) => OnlyOurs(g)
  <1>1. PICK f : f = files /\ f \in [Log!Files -> Nodes]
    BY DEF LogTypes
  <1>2. PICK old : old = f[k].lines /\ old \in Seq(Told)
    BY <1>1 DEF Nodes
  <1>11. PICK new : new = Append(old, l)
    BY Zenon
  <1>12. PICK T : T = Told
    OBVIOUS
  <1>13. new \in Seq(T)
    BY <1>2, <1>11, <1>12
  <1>3. new = Append(old, l) /\ new \in Seq(Told)
    BY <1>11, <1>12, <1>13
  <1>4. PICK g : g = Log!Written(k, new)
    OBVIOUS
  <1>5. /\ g \in [Log!Files -> Nodes] /\ Later(f, g) /\ Used(g) = Used(f)
        /\ g[k].lines = new /\ g[k].at = f[k].at
        /\ \A n \in Log!Files \ {k} : g[n] = f[n]
    BY ZenonT(60), <1>1, <1>3, <1>4, PutLines
  <1>6. l \in Log!Lines
    BY DEF LogTypes, HooksOK, Told, Log!Lines
  <1>7. Longer(f, g)
    BY <1>2, <1>3, <1>5, <1>6 DEF Longer
  <1>8. ASSUME l # Foreign, OnlyOurs(f), NEW n \in Log!Files, g[n].at = "name",
               NEW i \in DOMAIN g[n].lines
        PROVE  g[n].lines[i] # Foreign
    <2>1. CASE n # k
      BY <1>5, <1>8, <2>1 DEF OnlyOurs
    <2>2. CASE n = k
      <3>1. \A j \in DOMAIN old : old[j] # Foreign
        BY <1>2, <1>5, <1>8, <2>2 DEF OnlyOurs
      <3>2. i \in DOMAIN new
        BY <1>5, <1>8, <2>2
      <3>3. new[i] = l \/ (i \in DOMAIN old /\ new[i] = old[i])
        BY <1>2, <1>3, <3>2
      <3> QED
        BY <1>5, <1>8, <2>2, <3>1, <3>3
    <2> QED
      BY <2>1, <2>2
  <1>9. l # Foreign /\ OnlyOurs(f) => OnlyOurs(g)
    BY <1>8 DEF OnlyOurs
  <1>10. Taken(g, k)
    BY <1>1, <1>5 DEF Taken
  <1> QED
    BY <1>1, <1>2, <1>3, <1>4, <1>5, <1>7, <1>9, <1>10

LEMMA HookWrites ==
    ASSUME Log!LogAssumption, LogInv, Log!Writes
    PROVE  LogInv'
  <1>1. LogTypes /\ committed \subseteq Runs
    BY DEF LogInv, LogTypes, HooksOK
  <1>2. /\ UNCHANGED <<vouched, committed, history, lastOpen, counts>>
        /\ holder.at = "write" /\ holder.by \in Runs
    BY DEF Log!Writes, Log!At
  <1>3. AtWrite(holder, files, history)
    BY <1>2 DEF LogInv, Knows
  <1>4. PICK h : h = holder /\ h \in Holders
    BY <1>1 DEF LogTypes
  <1>5. PICK n \in Log!Files : n = h.fd /\ files[n].at # "unused"
    BY <1>2, <1>3, <1>4 DEF AtWrite, Taken
  <1>6. PICK r \in Runs : r = h.by
    BY <1>2, <1>4
  <1>7. r \in committed /\ r \in Told /\ r # Foreign /\ Torn \in Told /\ Torn # Foreign
    BY <1>1, <1>2, <1>4, <1>6 DEF LogTypes, HooksOK, Told, Log!LogAssumption
  <1>8. CASE /\ files' = Log!Written(holder.fd, Append(files[holder.fd].lines, Torn))
             /\ Log!Release
    <2>1. PICK g \in [Log!Files -> Nodes] :
              /\ g = Log!Written(n, Append(files[n].lines, Torn))
              /\ Later(files, g) /\ Used(g) = Used(files)
              /\ Torn # Foreign /\ OnlyOurs(files) => OnlyOurs(g)
      BY <1>1, <1>5, <1>7, LineAdded
    <2>2. files' = g
      BY <1>4, <1>5, <1>8, <2>1
    <2>3. HooksOK'
      BY <1>1, <1>2, <1>8, LetsGo DEF LogTypes, HooksOK
    <2>4. Knows(holder', g, history, vouched)
      BY <1>1, <1>2, <1>8, LetsGo, OthersKnow
    <2>5. lastOpen' = "clean" => OnlyOurs(g)
      BY <1>2, <1>7, <2>1 DEF LogInv
    <2> QED
      BY <1>1, <1>2, <1>8, <2>1, <2>2, <2>3, <2>4, <2>5, LetsGo, FilesMove
  <1>9. CASE /\ files' = Log!Written(holder.fd, Append(files[holder.fd].lines, holder.by))
             /\ Log!Onward("check") /\ UNCHANGED hookAt
    <2>1. PICK g \in [Log!Files -> Nodes] :
              /\ g = Log!Written(n, Append(files[n].lines, r))
              /\ Later(files, g) /\ Used(g) = Used(files)
              /\ Taken(g, n) /\ g[n].lines = Append(files[n].lines, r)
              /\ r # Foreign /\ OnlyOurs(files) => OnlyOurs(g)
      BY Zenon, <1>1, <1>5, <1>7, LineAdded
    <2>2. files' = g
      BY <1>4, <1>5, <1>6, <1>9, <2>1
    <2>3. PICK k : k = [h EXCEPT !.at = "check"]
      BY Zenon
    <2>4. k \in Holders /\ k.at = "check" /\ k.by = r /\ k.fd = n /\ k.size = h.size
      BY <1>4, <1>5, <1>6, <2>3 DEF Holders
    <2>5. holder' = k
      BY <1>4, <1>9, <2>3 DEF Log!Onward
    <2>6. PICK lines : lines = files[n].lines /\ lines \in Seq(Told)
      BY <1>1 DEF LogTypes, Nodes
    <2>7. lines \in Seq(Log!Lines) /\ r \in Log!Lines
      BY <1>1, <2>6, TellsApart DEF Log!Lines
    <2>8. PICK z \in Nat : z = Log!Size(lines)
      BY <2>7, SizeIsNat
    <2>9. PICK w \in Nat : w = Bytes[r] /\ Log!LineBytes(r) = w
      BY DEF Log!LogAssumption, Log!LineBytes
    <2>10. Log!Size(Append(lines, r)) = z + w
      BY <2>7, <2>8, <2>9, SizeGrows
    <2>11. h.size \in Nat /\ z >= h.size
      BY <1>2, <1>3, <1>4, <1>5, <2>6, <2>8 DEF AtWrite, Holders
    <2>12. ASSUME z = h.size
           PROVE  TellsEnd(Append(lines, r), Append(history, r))
      <3>1. TellsEnd(lines, history) /\ z + w <= MaxBytes
        BY <1>2, <1>3, <1>4, <1>5, <1>6, <2>6, <2>8, <2>9, <2>12 DEF AtWrite
      <3>2. PICK past : past = history /\ past \in Seq(committed)
        BY <1>1 DEF LogTypes
      <3>3. TellsEnd(Append(lines, r), Append(past, r))
        BY <1>1, <1>7, <2>6, <2>8, <2>9, <3>1, <3>2, AppendTells
      <3> QED
        BY <3>2, <3>3
    <2>13. AtCheck(k, g, history)
      <3>1. Log!Size(g[k.fd].lines) = z + w /\ Taken(g, k.fd) /\ Bytes[k.by] = w
        BY Zenon, <2>1, <2>4, <2>6, <2>9, <2>10
      <3>2. z + w >= k.size + w /\ (z + w = k.size + w => z = h.size)
        BY <2>4, <2>11
      <3>3. z + w = k.size + w => TellsEnd(g[k.fd].lines, Append(history, k.by))
        BY Zenon, <2>1, <2>4, <2>6, <2>12, <3>2
      <3> QED
        BY <3>1, <3>2, <3>3 DEF AtCheck
    <2>14. Knows(k, g, history, vouched)
      BY <2>4, <2>13 DEF Knows, AtWrite, AtSwap, AtVerify, AtSeal
    <2>15. HooksOK'
      BY <1>1, <1>2, <1>4, <1>6, <1>9, <2>4, <2>5 DEF LogTypes, HooksOK
    <2>16. Spent(hookAt, holder) \subseteq Spent(hookAt, holder)'
      BY <1>2, <1>9 DEF Spent
    <2>17. lastOpen' = "clean" => OnlyOurs(g)
      BY <1>2, <1>7, <2>1 DEF LogInv
    <2> QED
      BY <1>2, <2>1, <2>2, <2>4, <2>5, <2>14, <2>15, <2>16, <2>17, FilesMove
  <1> QED
    BY <1>8, <1>9 DEF Log!Writes

LEMMA HookSwaps ==
    ASSUME Log!LogAssumption, LogInv, Log!Swaps
    PROVE  LogInv'
  <1>1. LogTypes /\ committed \in SUBSET Runs
    BY DEF LogInv, LogTypes, HooksOK
  <1>2. /\ UNCHANGED <<vouched, committed, hookAt, history, lastOpen, counts>>
        /\ holder.at = "swap" /\ holder.by \in Runs
    BY DEF Log!Swaps, Log!At
  <1>3. PICK h : h = holder /\ h \in Holders
    BY <1>1 DEF LogTypes
  <1>4. PICK r \in Runs : r = h.by
    BY <1>2, <1>3
  <1>5. hookAt[r] = "recorded" /\ r \in committed
    BY <1>1, <1>3, <1>4 DEF LogTypes, HooksOK
  <1>6. r \notin Spent(hookAt, holder)
    BY <1>2, <1>5 DEF Spent
  <1>7. PICK n \in Log!Files : n = Log!NewFile /\ files[n].at = "unused"
    BY <1>1, <1>6, FreshExists DEF LogInv
  <1>8. PICK keep : keep = h.keep /\ keep \in Seq(committed)
    BY <1>3 DEF Holders
  <1>9. PICK lines : lines = Append(keep, r)
    BY Zenon
  <1>10. lines \in Seq(committed) /\ lines \in Seq(Told)
    <2>1. PICK S : S = committed
      OBVIOUS
    <2>2. lines \in Seq(S)
      BY <1>5, <1>8, <1>9, <2>1
    <2> QED
      BY <1>1, <2>1, <2>2, TellsApart
  <1>11. PICK g : g = Log!Take("replaced", lines)
    OBVIOUS
  <1>12. /\ g \in [Log!Files -> Nodes] /\ Later(files, g)
         /\ Used(g) = Used(files) \cup {n}
         /\ g[n] = [lines |-> lines, change |-> 1, at |-> "name"]
         /\ \A m \in Log!Files \ {n} : g[m].at # "name"
    BY <1>1, <1>7, <1>10, <1>11, PutNew
  <1>13. files' = g
    BY <1>3, <1>4, <1>8, <1>9, <1>11 DEF Log!Swaps, Log!Published
  <1>14. PICK k : k = [h EXCEPT !.at = "verify", !.fd = n]
    OBVIOUS
  <1>15. k \in Holders /\ k.at = "verify" /\ k.by = r /\ k.fd = n
    BY Zenon, <1>3, <1>4, <1>14 DEF Holders
  <1>16. holder' = k
    BY <1>3, <1>7, <1>14 DEF Log!Swaps
  <1>17. TellsEnd(lines, Append(history, r))
    <2>1. PICK past : past = history /\ past \in Seq(committed)
      BY <1>1 DEF LogTypes
    <2>2. AtSwap(h, history)
      BY <1>2, <1>3 DEF LogInv, Knows
    <2>3. Log!IsEndOf(keep, past) /\ Log!Size(keep) <= Log!RoomBeside(r)
      BY <1>2, <1>3, <1>4, <1>8, <2>1, <2>2 DEF AtSwap
    <2> QED
      BY <1>1, <1>5, <1>8, <1>9, <2>1, <2>3, PublishedFits
  <1>18. AtVerify(k, g, history)
    BY <1>12, <1>15, <1>17 DEF AtVerify, Taken
  <1>19. Knows(k, g, history, vouched)
    BY <1>15, <1>18 DEF Knows, AtWrite, AtCheck, AtSwap, AtSeal
  <1>20. LogTypes'
    <2>1. HooksOK'
      BY <1>1, <1>2, <1>5, <1>15, <1>16 DEF LogTypes, HooksOK
    <2> QED
      BY Zenon, <1>1, <1>2, <1>12, <1>13, <1>15, <1>16, <2>1 DEF LogTypes, Holders, Nodes, Told
  <1>21. FilesLeft'
    <2>1. Spent(hookAt, holder) \subseteq Spent(hookAt, holder)'
      BY <1>2 DEF Spent
    <2>2. r \in Spent(hookAt, holder)'
      BY <1>15, <1>16 DEF Spent
    <2>3. Used(files)' \subseteq Used(files) \cup {n}
      BY <1>12, <1>13 DEF Used
    <2>4. counts'.edits = counts.edits
      BY <1>2
    <2> QED
      BY <1>1, <1>6, <1>20, <2>1, <2>2, <2>3, <2>4, CountGrows DEF LogInv
  <1>22. ASSUME lastOpen' = "clean" PROVE OnlyOurs(g)
    <2>1. Foreign \notin committed
      BY <1>1, TellsApart
    <2>2. \A i \in DOMAIN lines : lines[i] # Foreign
      BY <1>10, <2>1
    <2> QED
      BY <1>12, <2>2 DEF OnlyOurs
  <1>23. Later(files, files') /\ Knows(holder', files', history, vouched)
         /\ files' \in [Log!Files -> Nodes] /\ (lastOpen' = "clean" => OnlyOurs(files'))
    BY <1>12, <1>13, <1>16, <1>19, <1>22
  <1> QED
    BY <1>2, <1>20, <1>21, <1>23, LogRests

LEMMA HookSeals ==
    ASSUME Log!LogAssumption, LogInv, Log!Seals
    PROVE  LogInv'
  <1>1. LogTypes
    BY DEF LogInv
  <1>2. /\ UNCHANGED <<files, committed, lastOpen, counts>>
        /\ holder.at = "seal" /\ holder.by \in Runs /\ Log!Release
        /\ vouched' = holder.seal /\ history' = Append(history, holder.by)
    BY DEF Log!Seals, Log!At
  <1>3. PICK r \in Runs : r = holder.by
    BY <1>2
  <1>4. PICK S : S = committed
    OBVIOUS
  <1>5. r \in S /\ history \in Seq(S)
    BY <1>1, <1>3, <1>4 DEF LogTypes, HooksOK
  <1>6. PICK past : past = Append(history, r)
    BY Zenon
  <1>7. past \in Seq(S) /\ history' = past
    BY <1>2, <1>3, <1>5, <1>6
  <1>8. Describes(vouched', files, past)
    BY <1>2, <1>3, <1>6 DEF LogInv, Knows, AtSeal
  <1>9. vouched' \in Seals
    BY <1>1, <1>2 DEF LogTypes, Holders
  <1>10. LogTypes'
    <2>1. HooksOK'
      BY <1>1, <1>2, LetsGo DEF LogTypes, HooksOK
    <2> QED
      BY <1>1, <1>2, <1>4, <1>7, <1>9, <2>1, LetsGo DEF LogTypes, Holders, Nodes, Told
  <1>11. FilesLeft'
    <2>1. Used(files)' \subseteq Used(files)
      BY <1>2 DEF Used
    <2>2. counts'.edits >= counts.edits
      BY <1>1, <1>2 DEF LogTypes, HooksOK, Log!LogAssumption
    <2> QED
      BY <1>1, <1>2, <1>10, <2>1, <2>2, CountRests, LetsGo DEF LogInv
  <1>12. Knows(holder', files', history', vouched')
    BY <1>1, <1>2, LetsGo, OthersKnow
  <1>13. lastOpen' = "clean" => OnlyOurs(files')
    BY <1>2 DEF LogInv
  <1>14. Describes(vouched', files', history')
    BY <1>2, <1>7, <1>8
  <1> QED
    BY <1>10, <1>11, <1>12, <1>13, <1>14 DEF LogInv

LEMMA LogCrashes ==
    ASSUME Log!LogAssumption, LogInv, Log!Crashes
    PROVE  LogInv'
  <1>1. LogTypes
    BY DEF LogInv
  <1>2. UNCHANGED <<files, vouched, committed, history, lastOpen>> /\ holder' = Log!Idle
    BY DEF Log!Crashes
  <1>3. PICK p : p = hookAt /\ p \in [Runs -> {"running", "finished", "recorded", "done"}]
    BY <1>1 DEF LogTypes, HooksOK
  <1>4. PICK q : q = hookAt' /\ q = [r \in Runs |-> IF p[r] = "running" THEN "running"
                                                                      ELSE "done"]
    BY <1>3 DEF Log!Crashes
  <1>5. /\ q \in [Runs -> {"running", "finished", "recorded", "done"}]
        /\ \A r \in Runs : q[r] # "recorded" /\ (p[r] # "running" => q[r] = "done")
    BY <1>4
  <1>6. counts'.edits = counts.edits
        /\ counts' \in [edits : 0..MaxEdits, crashes : 0..MaxCrashes, opens : 0..MaxOpens]
    <2>1. PICK c : c = counts /\ c \in [edits : 0..MaxEdits, crashes : 0..MaxCrashes,
                                        opens : 0..MaxOpens]
      BY <1>1 DEF LogTypes, HooksOK
    <2>2. c.crashes \in 0..MaxCrashes /\ c.crashes < MaxCrashes /\ MaxCrashes \in Nat
      BY <2>1 DEF Log!Crashes, Log!LogAssumption
    <2>3. PICK k : k = c.crashes + 1 /\ k \in 0..MaxCrashes
      BY <2>2
    <2>4. counts' = [c EXCEPT !.crashes = k]
      BY <2>1, <2>3 DEF Log!Crashes
    <2> QED
      BY <2>1, <2>3, <2>4
  <1>7. holder' \in Holders /\ holder'.by \notin Runs
    BY <1>1, <1>2, IdleHolds
  <1>8. LogTypes'
    <2>1. HooksOK'
      BY <1>1, <1>2, <1>4, <1>5, <1>6, <1>7 DEF LogTypes, HooksOK
    <2> QED
      BY <1>1, <1>2, <1>7, <2>1 DEF LogTypes, Holders, Nodes, Told
  <1>9. Spent(hookAt, holder) \subseteq Spent(hookAt, holder)'
    <2>1. ASSUME NEW r \in Runs, p[r] = "done" \/ holder.by = r PROVE q[r] = "done"
      <3>1. p[r] # "running"
        BY <1>1, <1>3, <2>1 DEF LogTypes, HooksOK
      <3> QED
        BY <1>5, <3>1
    <2> QED
      BY <1>3, <1>4, <2>1 DEF Spent
  <1>10. Knows(holder', files, history, vouched)
    BY <1>7, OthersKnow
  <1> QED
    BY <1>2, <1>6, <1>8, <1>9, <1>10, LogQuiet

(* What the outside does, while somebody holds the lock or not.             *)
LEMMA EditsFiles ==
    ASSUME Log!LogAssumption, LogInv, NEW kind \in Log!EditKinds, Log!Edits(kind)
    PROVE  \E g \in [Log!Files -> Nodes] : \E n :
              /\ files' = g /\ Later(files, g) /\ Used(g) \subseteq Used(files) \cup {n}
              /\ kind # "rewrite" => Longer(files, g)
  <1>1. LogTypes
    BY DEF LogInv
  <1>2. Foreign \in Told /\ <<Foreign>> \in Seq(Told)
    BY DEF Told
  <1>3. counts.edits < MaxEdits /\ Log!Edit(kind)
    BY DEF Log!Edits
  <1>4. CASE kind = "save"
    <2>1. PICK k \in Log!Files : k = Log!NewFile /\ files[k].at = "unused"
      BY <1>1, <1>3, FreshExists DEF LogInv
    <2>2. PICK lines : lines = <<Foreign>> /\ lines \in Seq(Told)
      BY Zenon, <1>2
    <2>3. PICK g : g = Log!Take("gone", lines)
      OBVIOUS
    <2>4. /\ g \in [Log!Files -> Nodes] /\ Later(files, g) /\ Longer(files, g)
          /\ Used(g) = Used(files) \cup {k}
      BY Zenon, <1>1, <2>1, <2>2, <2>3, PutNew
    <2>5. files' = g
      BY <1>3, <1>4, <2>2, <2>3 DEF Log!Edit
    <2> QED
      BY <2>4, <2>5
  <1>5. CASE kind = "append"
    <2>1. PICK k \in Log!Holders : files' = Log!Written(k, Append(files[k].lines, Foreign))
      BY <1>3, <1>5 DEF Log!Edit
    <2>2. k \in Log!Files /\ files[k].at # "unused"
      BY <2>1 DEF Log!Holders
    <2>3. PICK g \in [Log!Files -> Nodes] :
              /\ g = Log!Written(k, Append(files[k].lines, Foreign))
              /\ Later(files, g) /\ Longer(files, g) /\ Used(g) = Used(files)
      BY <1>1, <1>2, <2>2, LineAdded
    <2> QED
      BY <2>1, <2>3
  <1>6. CASE kind = "rewrite"
    <2>1. PICK k \in Log!Holders : files' = Log!Written(k, <<Foreign>>)
      BY <1>3, <1>6 DEF Log!Edit
    <2>2. k \in Log!Files /\ files[k].at # "unused"
      BY <2>1 DEF Log!Holders
    <2>3. PICK lines : lines = <<Foreign>> /\ lines \in Seq(Told)
      BY Zenon, <1>2
    <2>4. PICK g : g = Log!Written(k, lines)
      OBVIOUS
    <2>5. /\ g \in [Log!Files -> Nodes] /\ Later(files, g) /\ Used(g) = Used(files)
      BY <1>1, <2>2, <2>3, <2>4, PutLines
    <2> QED
      BY <1>6, <2>1, <2>3, <2>4, <2>5
  <1>7. CASE kind = "remove"
    <2>1. PICK g : g = Log!Put("gone")
      OBVIOUS
    <2>2. /\ g \in [Log!Files -> Nodes] /\ Later(files, g) /\ Longer(files, g)
          /\ Used(g) = Used(files)
      BY <1>1, <2>1, PutAside
    <2>3. files' = g
      BY <1>3, <1>7, <2>1 DEF Log!Edit
    <2> QED
      BY <2>2, <2>3
  <1> QED
    BY <1>4, <1>5, <1>6, <1>7 DEF Log!EditKinds

LEMMA LogEdited ==
    ASSUME Log!LogAssumption, "rewrite" \notin RacingEdits, LogInv,
           NEW kind \in Log!EditKinds, Log!Edits(kind)
    PROVE  LogInv'
  <1>1. LogTypes
    BY DEF LogInv
  <1>2. UNCHANGED <<vouched, committed, hookAt, history, holder>>
    BY DEF Log!Edits
  <1>3. PICK g \in [Log!Files -> Nodes] : \E n :
              /\ files' = g /\ Later(files, g) /\ Used(g) \subseteq Used(files) \cup {n}
              /\ kind # "rewrite" => Longer(files, g)
    BY EditsFiles
  <1>4. PICK n : Used(g) \subseteq Used(files) \cup {n}
    BY <1>3
  <1>5. lastOpen' \in {"not", "unknown"}
    BY <1>1 DEF Log!Edits, LogTypes, HooksOK
  <1>6. counts'.edits = counts.edits + 1
        /\ counts' \in [edits : 0..MaxEdits, crashes : 0..MaxCrashes, opens : 0..MaxOpens]
    <2>1. PICK c : c = counts /\ c \in [edits : 0..MaxEdits, crashes : 0..MaxCrashes,
                                        opens : 0..MaxOpens]
      BY <1>1 DEF LogTypes, HooksOK
    <2>2. c.edits \in 0..MaxEdits /\ c.edits < MaxEdits /\ MaxEdits \in Nat
      BY <2>1 DEF Log!Edits, Log!LogAssumption
    <2>3. PICK k : k = c.edits + 1 /\ k \in 0..MaxEdits
      BY <2>2
    <2>4. counts' = [c EXCEPT !.edits = k]
      BY <2>1, <2>3 DEF Log!Edits
    <2> QED
      BY <2>1, <2>3, <2>4
  <1>7. LogTypes'
    <2>1. HooksOK'
      BY <1>1, <1>2, <1>5, <1>6 DEF LogTypes, HooksOK
    <2> QED
      BY <1>1, <1>2, <1>3, <2>1 DEF LogTypes, Holders, Nodes, Told
  <1>8. FilesLeft'
    <2>1. Used(files)' \subseteq Used(files) \cup {n}
      BY <1>3, <1>4 DEF Used
    <2>2. Spent(hookAt, holder) \subseteq Spent(hookAt, holder)'
      BY <1>2 DEF Spent
    <2> QED
      BY <1>1, <1>6, <1>7, <2>1, <2>2, CountGrows DEF LogInv
  <1>9. Knows(holder, g, history, vouched)
    <2>1. CASE kind = "rewrite"
      <3>1. holder = Log!Idle
        BY <2>1 DEF Log!Edits
      <3>2. holder.by \notin Runs
        BY <1>1, <3>1, IdleHolds
      <3> QED
        BY <3>2, OthersKnow
    <2>2. CASE kind # "rewrite"
      <3>1. PICK f : f = files /\ f \in [Log!Files -> Nodes] /\ Later(f, g) /\ Longer(f, g)
        BY <1>1, <1>3, <2>2 DEF LogTypes
      <3>2. PICK h : h = holder /\ h \in Holders
        BY <1>1 DEF LogTypes
      <3>3. PICK past : past = history
        OBVIOUS
      <3>4. PICK s : s = vouched
        OBVIOUS
      <3>5. Knows(h, f, past, s)
        BY <3>1, <3>2, <3>3, <3>4 DEF LogInv
      <3>6. Knows(h, g, past, s)
        BY <1>1, <3>1, <3>2, <3>5, StillKnown
      <3> QED
        BY <3>2, <3>3, <3>4, <3>6
    <2> QED
      BY <2>1, <2>2
  <1>10. /\ Later(files, files') /\ files' \in [Log!Files -> Nodes]
         /\ Knows(holder', files', history, vouched)
         /\ lastOpen' # "clean"
    BY <1>2, <1>3, <1>5, <1>9
  <1> QED
    BY <1>2, <1>7, <1>8, <1>10, LogRests

LEMMA LogInitially ==
    ASSUME Log!LogAssumption, Log!Init PROVE LogInv
  <1>1. <<>> \in Seq(Told) /\ <<>> \in Seq(committed) /\ "unused" \in Log!Places
    BY DEF Log!Places
  <1>2. files \in [Log!Files -> Nodes] /\ \A n \in Log!Files : files[n].at = "unused"
    BY <1>1 DEF Log!Init, Nodes
  <1>3. vouched = Log!NoSeal /\ vouched \in Seals
    BY DEF Log!Init, Log!NoSeal, Seals
  <1>4. holder = Log!Idle
    BY DEF Log!Init
  <1>5. holder \in Holders /\ holder.by \notin Runs
    <2>1. [node |-> 0, change |-> 0] \in Seals
      BY DEF Seals
    <2>2. holder = [by |-> Log!Nobody, at |-> "idle", seal |-> [node |-> 0, change |-> 0],
                    fd |-> 0, size |-> 0, keep |-> <<>>]
      BY <1>4 DEF Log!Idle, Log!NoSeal
    <2> QED
      BY <1>1, <2>1, <2>2 DEF Holders, Log!LogAssumption
  <1>6. HooksOK
    BY <1>5 DEF Log!Init, HooksOK, Log!LogAssumption
  <1>7. LogTypes
    BY <1>1, <1>2, <1>3, <1>5, <1>6 DEF Log!Init, LogTypes
  <1>8. FilesLeft
    <2>1. PICK U : U = Used(files)
      OBVIOUS
    <2>2. PICK S : S = Spent(hookAt, holder)
      OBVIOUS
    <2>3. U = {}
      BY <1>2, <2>1 DEF Used
    <2>4. Cardinality(U) = 0 /\ Cardinality(S) \in Nat
      BY <2>2, <2>3, FS_EmptySet, CountsOf
    <2>5. counts.edits = 0
      BY DEF Log!Init
    <2> QED
      BY <2>1, <2>2, <2>4, <2>5 DEF FilesLeft
  <1>9. Knows(holder, files, history, vouched)
    BY <1>5, OthersKnow
  <1>10. lastOpen # "clean"
    BY DEF Log!Init
  <1> QED
    BY <1>3, <1>7, <1>8, <1>9, <1>10 DEF LogInv

LEMMA LogStep ==
    ASSUME Log!LogAssumption, "rewrite" \notin RacingEdits, LogInv, [Log!Next]_Log!vars
    PROVE  LogInv'
  <1>1. CASE Log!Hook
    BY <1>1, HookGoes, HookLocks DEF Log!Hook
  <1>2. CASE Log!Appending
    BY <1>2, HookOpens, HookWrites, HookChecks DEF Log!Appending
  <1>3. CASE Log!Rebuild
    BY <1>3, HookReadsTail, HookConfirms, HookMovesAside, HookSwaps, HookVerifies
       DEF Log!Rebuild
  <1>4. CASE Log!Terminal
    BY <1>4, TerminalAsks, TerminalLooks, TerminalRetires DEF Log!Terminal
  <1>5. CASE Log!CallFails
    BY <1>5, Stops DEF Log!CallFails
  <1>6. CASE Log!Outside
    BY <1>6, LogEdited DEF Log!Outside
  <1>7. CASE UNCHANGED Log!vars
    <2>1. UNCHANGED <<files, vouched, committed, hookAt, history, holder, lastOpen, counts>>
      BY <1>7 DEF Log!vars
    <2> QED
      BY <2>1 DEF LogInv, LogTypes, HooksOK, FilesLeft, Used, Spent, Holders, Nodes, Told
  <1> QED
    BY <1>1, <1>2, <1>3, <1>4, <1>5, <1>6, <1>7, HookSeals, LogCrashes
       DEF Log!Next, Log!AtRest

LEMMA LogScene ==
    ASSUME [Next]_all, scene' \in {"runlog", "raced"}
    PROVE  scene \in {"runlog", "raced"} /\ [Log!Next]_Log!vars
  BY DEF Next, all, state, Log!vars

(* The invariant says what the run checks.                                  *)
LEMMA LogTells ==
    ASSUME Log!LogAssumption, LogInv
    PROVE  /\ Log!SealedTellsHistory /\ Log!WithinBound
           /\ Log!LedgerFirst /\ Log!SessionReadsOurs
  <1>1. LogTypes
    BY DEF LogInv
  <1>2. ASSUME NEW lines \in Log!Trusted PROVE TellsEnd(lines, history)
    <2>1. PICK n \in Log!Ours(vouched) : lines = files[n].lines
      BY DEF Log!Trusted
    <2>2. vouched # Log!NoSeal
      <3>1. n \in Log!Files /\ vouched.node = n
        BY DEF Log!Ours, Log!Holders, Log!SealMatches, Log!SealOf
      <3>2. Log!NoSeal.node = 0
        BY DEF Log!NoSeal
      <3> QED
        BY <3>1, <3>2, FilesAreFinite
    <2> QED
      BY <2>1, <2>2, OursTells
  <1>3. Log!SealedTellsHistory /\ Log!WithinBound
    BY <1>2 DEF Log!SealedTellsHistory, Log!WithinBound, TellsEnd
  <1>4. Log!LedgerFirst
    <2>1. ASSUME NEW n \in Log!Files, NEW i \in DOMAIN files[n].lines,
                 files[n].lines[i] \in Runs
          PROVE  files[n].lines[i] \in committed
      <3>1. PICK lines : lines = files[n].lines /\ lines \in Seq(Told)
        BY <1>1 DEF LogTypes, Nodes
      <3>2. lines[i] \in Told /\ lines[i] \in Runs
        BY <2>1, <3>1
      <3> QED
        BY <3>1, <3>2 DEF Told, Log!LogAssumption
    <2> QED
      BY <2>1 DEF Log!LedgerFirst
  <1>5. Log!SessionReadsOurs
    BY DEF LogInv, OnlyOurs, Log!SessionReadsOurs, Log!Holders
  <1> QED
    BY <1>3, <1>4, <1>5

(* The log the seal vouches for tells the newest part of the history within *)
(* its bound, every record has its event, and a session finds only lines of *)
(* the app, whatever is edited between two calls of the lock's holder       *)
(* (services/runs.py, services/projection.py).                              *)
THEOREM RunLogHolds == Spec => []RunLogTells
  <1> DEFINE Inv == scene \in {"runlog", "raced"} => LogInv
  <1>1. Init => Inv
    BY LogInitially, LogsAssumption DEF Init
  <1>2. Inv /\ [Next]_all => Inv'
    BY LogScene, LogStep, LogsAssumption, RacingAssumption
  <1>3. Inv => RunLogTells
    BY LogTells, LogsAssumption DEF RunLogTells
  <1> QED
    BY <1>1, <1>2, <1>3, PTL DEF Spec

-----------------------------------------------------------------------------
(* The attempts.  AttemptsProofs proves of the component what is needed of  *)
(* the scene; an instance of it has definitions of its own, which are those *)
(* of Record.                                                               *)
RecordP == INSTANCE AttemptsProofs WITH
    Nobody <- NoHolder, Opener <- Visitor, Requests <- Submits,
    MaxEdits <- MaxWrites,
    rows <- v1, stamp <- v2,
    file <- v3, sidecar <- v4, window <- v5, at <- v6, told <- v7,
    lock <- v8, op <- v9, spent <- v10

LEMMA RecordAssumption == RecordP!AttemptsAssumption
  BY Zenon, LogsAssumption DEF
         Record!AttemptsAssumption, RecordP!AttemptsAssumption, Record!Actors, RecordP!Actors,
         Record!EditKinds, RecordP!EditKinds, Record!IsFiniteSet, RecordP!IsFiniteSet

LEMMA RecordInitially == Record!Init => RecordP!IInv
  <1>1. Record!Init => RecordP!Init
    BY DEF
         Record!Init, RecordP!Init, Record!NoState, RecordP!NoState, Record!Unanswered,
         RecordP!Unanswered, Record!Idle, RecordP!Idle, Record!Actors, RecordP!Actors
  <1> QED
    BY <1>1, RecordAssumption, RecordP!Start

LEMMA SameCardinality ==
    ASSUME NEW S
    PROVE  Record!Cardinality(S) = RecordP!Cardinality(S)
  BY DEF Record!Cardinality, RecordP!Cardinality

LEMMA SameOrdered ==
    ASSUME NEW n
    PROVE  Record!Ordered(n) = RecordP!Ordered(n)
  BY DEF Record!Cardinality, RecordP!Cardinality, Record!Ordered, RecordP!Ordered

LEMMA RecordNext == Record!Next => RecordP!Next
  <1>1. ASSUME NEW r, Record!Replays(r) PROVE RecordP!Replays(r)
    BY Zenon, <1>1 DEF
         Record!Replays, RecordP!Replays, Record!Free, RecordP!Free, Record!Prior,
         RecordP!Prior, Record!Goes, RecordP!Goes, Record!AnswersKnown, RecordP!AnswersKnown,
         Record!Refund, RecordP!Refund, Record!Answers, RecordP!Answers, Record!Unlocks,
         RecordP!Unlocks, Record!RemoveFirst, RecordP!RemoveFirst, Record!SelectInSeq,
         RecordP!SelectInSeq, Record!RemoveAt, RecordP!RemoveAt, Record!Min, RecordP!Min,
         Record!Range, RecordP!Range
  <1>2. ASSUME NEW r, Record!Validates(r) PROVE RecordP!Validates(r)
    BY <1>2 DEF
         Record!Validates, RecordP!Validates, Record!Goes, RecordP!Goes
  <1>3. ASSUME NEW r, Record!Refuses(r) PROVE RecordP!Refuses(r)
    BY Zenon, <1>3 DEF
         Record!Refuses, RecordP!Refuses, Record!Free, RecordP!Free, Record!Prior,
         RecordP!Prior, Record!AnswersKnown, RecordP!AnswersKnown, Record!Refund,
         RecordP!Refund, Record!Answers, RecordP!Answers, Record!Unlocks, RecordP!Unlocks,
         Record!Goes, RecordP!Goes, Record!RemoveFirst, RecordP!RemoveFirst, Record!SelectInSeq,
         RecordP!SelectInSeq, Record!RemoveAt, RecordP!RemoveAt, Record!Min, RecordP!Min,
         Record!Range, RecordP!Range
  <1>4. ASSUME NEW r, Record!Enters(r) PROVE RecordP!Enters(r)
    BY Zenon, <1>4 DEF
         Record!Enters, RecordP!Enters, Record!Free, RecordP!Free, Record!Prior, RecordP!Prior,
         Record!Goes, RecordP!Goes, Record!AnswersKnown, RecordP!AnswersKnown, Record!Refund,
         RecordP!Refund, Record!Answers, RecordP!Answers, Record!Unlocks, RecordP!Unlocks,
         Record!RemoveFirst, RecordP!RemoveFirst, Record!SelectInSeq, RecordP!SelectInSeq,
         Record!RemoveAt, RecordP!RemoveAt, Record!Min, RecordP!Min, Record!Range,
         RecordP!Range
  <1>5. ASSUME NEW r, Record!Writes(r) PROVE RecordP!Writes(r)
    BY Zenon, <1>5, SameCardinality DEF
         Record!Writes, RecordP!Writes, Record!Prior, RecordP!Prior, Record!Goes, RecordP!Goes,
         Record!AnswersKnown, RecordP!AnswersKnown, Record!Refund, RecordP!Refund,
         Record!Answers, RecordP!Answers, Record!Unlocks, RecordP!Unlocks, Record!RemoveFirst,
         RecordP!RemoveFirst, Record!SelectInSeq, RecordP!SelectInSeq, Record!RemoveAt,
         RecordP!RemoveAt, Record!Min, RecordP!Min, Record!Range, RecordP!Range
  <1>6. ASSUME NEW r, Record!Projects(r) PROVE RecordP!Projects(r)
    BY <1>6 DEF
         Record!Projects, RecordP!Projects, Record!Answers, RecordP!Answers, Record!Goes,
         RecordP!Goes, Record!Unlocks, RecordP!Unlocks, Record!Idle, RecordP!Idle
  <1>7. CASE Record!TerminalOpens
    <2>1. RecordP!TerminalOpens
      BY <1>7 DEF
           Record!TerminalOpens, RecordP!TerminalOpens, Record!Free, RecordP!Free, Record!Goes,
           RecordP!Goes
    <2> QED
      BY <2>1 DEF RecordP!Next, RecordP!Terminal
  <1>8. CASE Record!Looks
    <2>1. RecordP!Looks
      BY Zenon, <1>8 DEF
           Record!Looks, RecordP!Looks, Record!SealMatches, RecordP!SealMatches,
           Record!Anchored, RecordP!Anchored, Record!Unseen, RecordP!Unseen,
           Record!BelongsAtEnd, RecordP!BelongsAtEnd, Record!Ends, RecordP!Ends, Record!Answers,
           RecordP!Answers, Record!Goes, RecordP!Goes, Record!Unlocks, RecordP!Unlocks,
           Record!Idle, RecordP!Idle, Record!NoState, RecordP!NoState
    <2> QED
      BY <2>1 DEF RecordP!Next, RecordP!Projection
  <1>9. CASE Record!OpensFile
    <2>1. RecordP!OpensFile
      BY <1>9 DEF
           Record!OpensFile, RecordP!OpensFile, Record!OnName, RecordP!OnName, Record!ToRebuild,
           RecordP!ToRebuild, Record!Held, RecordP!Held
    <2> QED
      BY <2>1 DEF RecordP!Next, RecordP!Projection, RecordP!Appending
  <1>10. CASE Record!Appends
    <2>1. RecordP!Appends
      BY Zenon, <1>10 DEF
           Record!Appends, RecordP!Appends, Record!OnName, RecordP!OnName, Record!ToRebuild,
           RecordP!ToRebuild, Record!Onward, RecordP!Onward, Record!Held, RecordP!Held
    <2> QED
      BY <2>1 DEF RecordP!Next, RecordP!Projection, RecordP!Appending
  <1>11. CASE Record!Measures
    <2>1. RecordP!Measures
      BY <1>11 DEF
           Record!Measures, RecordP!Measures, Record!OnName, RecordP!OnName, Record!ToRebuild,
           RecordP!ToRebuild, Record!Held, RecordP!Held
    <2> QED
      BY <2>1 DEF RecordP!Next, RecordP!Projection, RecordP!Appending
  <1>12. CASE Record!Confirms
    <2>1. RecordP!Confirms
      BY <1>12 DEF
           Record!Confirms, RecordP!Confirms, Record!OnName, RecordP!OnName, Record!ToRebuild,
           RecordP!ToRebuild, Record!Onward, RecordP!Onward, Record!Held, RecordP!Held
    <2> QED
      BY <2>1 DEF RecordP!Next, RecordP!Projection, RecordP!Appending
  <1>13. CASE Record!Renders
    <2>1. RecordP!Renders
      BY <1>13 DEF
           Record!Renders, RecordP!Renders, Record!Held, RecordP!Held
    <2> QED
      BY <2>1 DEF RecordP!Next, RecordP!Projection, RecordP!Rebuilding
  <1>14. CASE Record!Swaps
    <2>1. RecordP!Swaps
      BY Zenon, <1>14, SameOrdered DEF
           Record!Swaps, RecordP!Swaps, Record!Held, RecordP!Held
    <2> QED
      BY <2>1 DEF RecordP!Next, RecordP!Projection, RecordP!Rebuilding
  <1>15. CASE Record!Verifies
    <2>1. RecordP!Verifies
      BY <1>15 DEF
           Record!Verifies, RecordP!Verifies, Record!OnName, RecordP!OnName, Record!Onward,
           RecordP!Onward, Record!Ends, RecordP!Ends, Record!Answers, RecordP!Answers,
           Record!Goes, RecordP!Goes, Record!Unlocks, RecordP!Unlocks, Record!Idle,
           RecordP!Idle
    <2> QED
      BY <2>1 DEF RecordP!Next, RecordP!Projection, RecordP!Rebuilding
  <1>16. CASE Record!Seals
    <2>1. RecordP!Seals
      BY <1>16, SameOrdered DEF
           Record!Seals, RecordP!Seals, Record!Last, RecordP!Last, Record!Ends, RecordP!Ends,
           Record!Answers, RecordP!Answers, Record!Goes, RecordP!Goes, Record!Unlocks,
           RecordP!Unlocks, Record!Idle, RecordP!Idle
    <2> QED
      BY <2>1 DEF RecordP!Next, RecordP!Projection
  <1>17. CASE Record!CallFails
    <2>1. RecordP!CallFails
      BY <1>17 DEF
           Record!CallFails, RecordP!CallFails, Record!ToRebuild, RecordP!ToRebuild,
           Record!Ends, RecordP!Ends, Record!Answers, RecordP!Answers, Record!Goes,
           RecordP!Goes, Record!Unlocks, RecordP!Unlocks, Record!Idle, RecordP!Idle
    <2> QED
      BY <2>1 DEF RecordP!Next
  <1>18. ASSUME NEW r, Record!Crashes(r) PROVE RecordP!Crashes(r)
    BY <1>18 DEF
         Record!Crashes, RecordP!Crashes, Record!Running, RecordP!Running, Record!Actors,
         RecordP!Actors, Record!Unanswered, RecordP!Unanswered, Record!Idle, RecordP!Idle
  <1>19. CASE Record!RestoresDatabase
    <2>1. RecordP!RestoresDatabase
      BY <1>19 DEF
           Record!RestoresDatabase, RecordP!RestoresDatabase, Record!Running, RecordP!Running,
           Record!Actors, RecordP!Actors
    <2> QED
      BY <2>1 DEF RecordP!Next, RecordP!Outside
  <1>20. ASSUME NEW r, Record!Edits(r) PROVE RecordP!Edits(r)
    BY <1>20 DEF
         Record!Edits, RecordP!Edits, Record!Idle, RecordP!Idle
  <1>21. ASSUME NEW r \in Submits, Record!Request(r) PROVE RecordP!Next
    <2>1. RecordP!Request(r)
      BY <1>1, <1>2, <1>3, <1>4, <1>5, <1>6, <1>21 DEF Record!Request, RecordP!Request
    <2> QED
      BY <2>1 DEF RecordP!Next
  <1>22. CASE Record!Projects(Visitor)
    BY <1>6, <1>22 DEF RecordP!Next, RecordP!Terminal
  <1>23. CASE \E p \in Procs : Record!Crashes(p)
    BY <1>18, <1>23 DEF RecordP!Next, RecordP!Outside
  <1>24. CASE \E kind \in Record!EditKinds : Record!Edits(kind)
    BY <1>20, <1>24 DEF RecordP!Next, RecordP!Outside, Record!EditKinds, RecordP!EditKinds
  <1>25. CASE Record!AllAnswered
    BY <1>25 DEF RecordP!Next, Record!AllAnswered, RecordP!AllAnswered, Record!Actors,
                 RecordP!Actors, Record!vars, RecordP!vars
  <1> QED
    BY <1>7, <1>8, <1>9, <1>10, <1>11, <1>12, <1>13, <1>14, <1>15, <1>16, <1>17, <1>19,
       <1>21, <1>22, <1>23, <1>24, <1>25
       DEF Record!Next, Record!Terminal, Record!Projection, Record!Appending,
           Record!Rebuilding, Record!Outside

LEMMA RecordScene ==
    ASSUME [Next]_all, scene' = "attempts"
    PROVE  scene = "attempts" /\ [RecordP!Next]_RecordP!vars
  BY RecordNext DEF Next, all, state, RecordP!vars

(* An attempts file that is vouched for is the table up to its cursor, and  *)
(* an actor told that it is current was told the truth, for any number of   *)
(* requests, processes, crashes, edits and restores (attempts.py).          *)
THEOREM AttemptsHold == Spec => VouchedIsAuthority
  <1> DEFINE Inv == scene = "attempts" => RecordP!IInv
  <1>1. Init => Inv
    BY RecordInitially DEF Init
  <1>2. Inv /\ [Next]_all => Inv'
    BY RecordScene, RecordAssumption, RecordP!Step
  <1>3. RecordP!IInv => Record!VouchedIsAuthority
    <2>1. RecordP!IInv => RecordP!VouchedIsAuthority
      BY RecordAssumption, RacingAssumption, RecordP!VouchedNow
    <2> QED
      BY <2>1, SameOrdered DEF Record!VouchedIsAuthority, RecordP!VouchedIsAuthority,
         Record!SealMatches, RecordP!SealMatches
  <1>4. Inv /\ [Next]_all
          => [scene = "attempts" => Record!StepCurrent /\ Record!VouchedIsAuthority']_all
    <2>1. SUFFICES ASSUME Inv, [Next]_all, scene = "attempts", scene' = "attempts"
                   PROVE  Record!StepCurrent /\ Record!VouchedIsAuthority'
      BY DEF Next, all
    <2>2. RecordP!IInv' /\ RecordP!StepCurrent
      BY <2>1, RecordScene, RecordAssumption, RacingAssumption, RecordP!Step, RecordP!CurrentStep
    <2>3. Record!StepCurrent
      BY <2>2, SameOrdered DEF Record!StepCurrent, RecordP!StepCurrent, Record!SealMatches,
         RecordP!SealMatches, Record!Actors, RecordP!Actors
    <2> QED
      BY <2>2, <2>3, <1>3, PTL
  <1> QED
    BY <1>1, <1>2, <1>4, PTL DEF Spec, VouchedIsAuthority
===============================================================================
