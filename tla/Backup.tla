------------------------------- MODULE Backup -------------------------------
(***************************************************************************)
(* Backup sets of scripts/backup_db.py: `backup_db.py --keep Keep` run by  *)
(* several processes over one backups/ directory.  A set is a database     *)
(* snapshot, an archive of the instance files and a manifest, published in *)
(* that order under one stamp; the stamp is claimed by creating the        *)
(* snapshot's name empty and locked.  A process may fail or be killed at   *)
(* any step; its locks go with it, its files stay.                         *)
(***************************************************************************)
EXTENDS Integers, FiniteSets, Sequences, Functions

CONSTANTS Runs,     \* invocations of the script
          Files,    \* instance files other than the database
          Keep,     \* --keep
          Seconds   \* bound on the clock that stamps are read from

BackupAssumption ==
  /\ IsFiniteSet(Runs) /\ Runs # {} /\ Runs \cap {"none", "claim", "legacy"} = {}
  /\ Keep \in Nat \ {0} /\ Seconds \in Nat \ {0}

Members == {"database", "instance", "manifest"}
Stamps  == (0..Seconds) \X (1..Cardinality(Runs))
NoStamp == <<-1, 0>>
Old     == <<0, 1>>           \* a snapshot of the pre-manifest script

VARIABLES disk,       \* disk[m][s]: who wrote that name of set s, or a word
          staged,     \* staged[r]: staging files of run r on disk
          archived,   \* archived[r]: what run r's archive holds
          listed,     \* listed[r]: what run r's manifest says it holds
          at, stamp,  \* at[r], stamp[r]: program counter, claimed stamp
          todo,       \* todo[r]: files still to archive
          doomed,     \* doomed[r]: sets retention decided to drop
          live,       \* instance files that exist now
          clock,
          published   \* history: runs in the order their manifests appeared

vars == <<disk, staged, archived, listed, at, stamp, todo, doomed, live,
          clock, published>>

-----------------------------------------------------------------------------
Free(m, s)   == disk[m][s] = "none"
Sets         == {s \in Stamps : ~Free("manifest", s)}

(* Names compare as text: "-" sorts before ".", so within one second the   *)
(* second set's name precedes the first's.                                 *)
NameBefore(a, b) ==
  \/ a[1] < b[1]
  \/ a[1] = b[1] /\ a[2] # 1 /\ (b[2] = 1 \/ a[2] < b[2])

(* sets[:-Keep] of the manifests sorted by name. *)
Oldest(sets) == {s \in sets : Cardinality({t \in sets : NameBefore(s, t)}) >= Keep}

(* A process holds its claim and its staging files until it closes them.   *)
Holding == {"staging", "snapshot", "archiving", "publishing"}
LiveClaim(s) == \E r \in Runs : at[r] \in Holding /\ stamp[r] = s

(* What a retention pass is dropping: the name of a set's snapshot is free *)
(* before its archive is gone, and that of an abandoned claim before       *)
(* another pass that has listed it too comes to unlink it.                 *)
BeingDropped == UNION {doomed[r] : r \in {q \in Runs : at[q] \in {"dropping", "tidying"}}}

Init ==
  /\ disk = [m \in Members |->
       [s \in Stamps |-> IF m = "database" /\ s = Old THEN "legacy" ELSE "none"]]
  /\ staged = [r \in Runs |-> {}]
  /\ archived = [r \in Runs |-> {}]
  /\ listed = [r \in Runs |-> {}]
  /\ at = [r \in Runs |-> "ready"]
  /\ stamp = [r \in Runs |-> NoStamp]
  /\ todo = [r \in Runs |-> {}]
  /\ doomed = [r \in Runs |-> {}]
  /\ live = Files
  /\ clock = 1
  /\ published = <<>>

Goto(r, label) == at' = [at EXCEPT ![r] = label]

(* sweep_staging_debris: staging files whose lock can be taken. *)
Swept == [r \in Runs |-> IF at[r] \in Holding THEN staged[r] ELSE {}]

-----------------------------------------------------------------------------
(* create_backup, one call at a time. *)
Sweep(r) ==
  /\ at[r] = "ready"
  /\ staged' = Swept
  /\ Goto(r, "claiming")
  /\ UNCHANGED <<disk, archived, listed, stamp, todo, doomed, live, clock, published>>

(* _claim_stamp: the first n whose snapshot name O_EXCL can create.  Two   *)
(* assumptions about the machine: nothing probes the placeholder between   *)
(* its creation and its flock, and no pass takes so long that a stamp it   *)
(* is dropping or tidying is claimed within that same second.              *)
Claim(r) ==
  /\ at[r] = "claiming"
  /\ \E n \in 1..Cardinality(Runs) :
       LET s == <<clock, n>> IN
         /\ Free("database", s)
         /\ \A k \in 1..(n - 1) : ~Free("database", <<clock, k>>)
         /\ s \notin BeingDropped
         /\ disk' = [disk EXCEPT !["database"][s] = "claim"]
         /\ stamp' = [stamp EXCEPT ![r] = s]
  /\ Goto(r, "staging")
  /\ UNCHANGED <<staged, archived, listed, todo, doomed, live, clock, published>>

Stage(r) ==
  /\ at[r] = "staging"
  /\ staged' = [staged EXCEPT ![r] = Members]
  /\ Goto(r, "snapshot")
  /\ UNCHANGED <<disk, archived, listed, stamp, todo, doomed, live, clock, published>>

(* snapshot and its integrity check, then the walk of instance_files. *)
Snapshot(r) ==
  /\ at[r] = "snapshot"
  /\ todo' = [todo EXCEPT ![r] = live]
  /\ Goto(r, "archiving")
  /\ UNCHANGED <<disk, staged, archived, listed, stamp, doomed, live, clock, published>>

(* archive_instance: a name gone since the walk is vanished, not archived. *)
Archive(r) ==
  /\ at[r] = "archiving"
  /\ \E f \in todo[r] :
       /\ todo' = [todo EXCEPT ![r] = @ \ {f}]
       /\ archived' = [archived EXCEPT ![r] = @ \cup ({f} \cap live)]
       /\ listed' = [listed EXCEPT ![r] = @ \cup ({f} \cap live)]
  /\ UNCHANGED <<disk, staged, at, stamp, doomed, live, clock, published>>

Archived(r) ==
  /\ at[r] = "archiving" /\ todo[r] = {}
  /\ Goto(r, "publishing")
  /\ UNCHANGED <<disk, staged, archived, listed, stamp, todo, doomed, live,
                 clock, published>>

(* The three renames, in the order that makes the manifest the last. *)
(* Mutant: the manifest first. *)
ManifestFirst(r) ==
  IF "manifest" \in staged[r] THEN "manifest"
  ELSE IF "database" \in staged[r] THEN "database" ELSE "instance"
NextMember(r) ==
  IF "database" \in staged[r] THEN "database"
  ELSE IF "instance" \in staged[r] THEN "instance" ELSE "manifest"

Publish(r) ==
  /\ at[r] = "publishing" /\ staged[r] # {}
  /\ LET m == NextMember(r) IN
       /\ disk' = [disk EXCEPT ![m][stamp[r]] = r]
       /\ staged' = [staged EXCEPT ![r] = @ \ {m}]
       /\ published' = IF m = "manifest" THEN Append(published, r) ELSE published
  /\ UNCHANGED <<archived, listed, at, stamp, todo, doomed, live, clock>>

(* The finally of a completed run, and list_sets at the head of prune. *)
Release(r) ==
  /\ at[r] = "publishing" /\ staged[r] = {}
  /\ doomed' = [doomed EXCEPT ![r] = Oldest(Sets)]
  /\ Goto(r, "dropping")
  /\ UNCHANGED <<disk, staged, archived, listed, stamp, todo, live, clock, published>>

(* An error of any step up to the last rename: the finally alone. *)
Fail(r) ==
  /\ at[r] \in {"snapshot", "archiving", "publishing"} /\ staged[r] # {}
  /\ staged' = [staged EXCEPT ![r] = {}]
  /\ Goto(r, "failed")
  /\ UNCHANGED <<disk, archived, listed, stamp, todo, doomed, live, clock, published>>

-----------------------------------------------------------------------------
(* prune: each doomed set loses its manifest, then its snapshot, then its  *)
(* archive; a set another pass is dropping may have lost some already.     *)
Drop(r) ==
  /\ at[r] = "dropping" /\ doomed[r] # {}
  /\ \E s \in doomed[r] :
       /\ \A t \in doomed[r] : t = s \/ NameBefore(s, t)
       /\ LET m == CASE ~Free("manifest", s) -> "manifest"
                     [] Free("manifest", s) /\ ~Free("database", s) -> "database"
                     [] OTHER -> "instance"
          IN /\ disk' = [disk EXCEPT ![m][s] = "none"]
             /\ doomed' = [doomed EXCEPT ![r] = IF m = "instance" THEN @ \ {s} ELSE @]
  /\ UNCHANGED <<staged, archived, listed, at, stamp, todo, live, clock, published>>

(* unclaimed_files: empty placeholders no manifest names and nobody holds. *)
Abandoned == {s \in Stamps : /\ disk["database"][s] = "claim"
                             /\ s \notin Sets
                             /\ ~LiveClaim(s)}

WithoutClaims(ss) ==
  [disk EXCEPT !["database"] =
     [s \in Stamps |-> IF s \in ss /\ @[s] = "claim" THEN "none" ELSE @[s]]]

(* The sweep of staging files, then of abandoned claims: all of them are   *)
(* probed before the first is unlinked.                                    *)
Tidy(r) ==
  /\ at[r] = "dropping" /\ doomed[r] = {}
  /\ staged' = Swept
  /\ doomed' = [doomed EXCEPT ![r] = Abandoned]
  /\ Goto(r, "tidying")
  /\ UNCHANGED <<disk, archived, listed, stamp, todo, live, clock, published>>

Unlink(r) ==
  /\ at[r] = "tidying"
  /\ disk' = WithoutClaims(doomed[r])
  /\ doomed' = [doomed EXCEPT ![r] = {}]
  /\ Goto(r, "done")
  /\ UNCHANGED <<staged, archived, listed, stamp, todo, live, clock, published>>

(* The process is killed: the kernel closes its locks, nothing else. *)
Kill(r) ==
  /\ at[r] \notin {"ready", "done", "failed", "killed"}
  /\ Goto(r, "killed")
  /\ doomed' = [doomed EXCEPT ![r] = {}]
  /\ UNCHANGED <<disk, staged, archived, listed, stamp, todo, live, clock, published>>

(* The application and the clock, beside the script. *)
Edit == /\ \E f \in Files : live' = (live \ {f}) \cup ({f} \ live)
        /\ \E r \in Runs : at[r] = "archiving"
        /\ UNCHANGED <<disk, staged, archived, listed, at, stamp, todo, doomed,
                       clock, published>>

Tick == /\ clock < Seconds
        /\ clock' = clock + 1
        /\ UNCHANGED <<disk, staged, archived, listed, at, stamp, todo, doomed,
                       live, published>>

Run(r) == \/ Sweep(r) \/ Claim(r) \/ Stage(r) \/ Snapshot(r)
          \/ Archive(r) \/ Archived(r) \/ Publish(r) \/ Release(r) \/ Fail(r)
          \/ Drop(r) \/ Tidy(r) \/ Unlink(r) \/ Kill(r)

Next == Edit \/ Tick \/ \E r \in Runs : Run(r)

Spec == Init /\ [][Next]_vars

-----------------------------------------------------------------------------
(* verify() of a set: its members are the ones its manifest was written    *)
(* for, and the archive holds what the manifest lists.                     *)
Verifies(s) ==
  LET r == disk["manifest"][s] IN
    disk["database"][s] = r /\ disk["instance"][s] = r /\ listed[r] = archived[r]

(* Whatever overlaps or dies, every set that has a manifest verifies. *)
SetsAreWhole == \A s \in Sets : Verifies(s)

(* Retention and the sweeps take nothing of a run whose set is not out     *)
(* yet: not its claim, not a member it has published, not a staging file   *)
(* it has yet to publish.  The pre-manifest snapshot is nobody's debris.   *)
LiveWorkKept ==
  /\ disk["database"][Old] = "legacy"
  /\ \A r \in Runs : at[r] \in Holding /\ r \notin Range(published) =>
       /\ disk["database"][stamp[r]] \in {"claim", r}
       /\ at[r] # "staging" =>
            \A m \in Members : m \in staged[r] \/ disk[m][stamp[r]] = r

(* Overlapping retention passes together still leave Keep sets, once that  *)
(* many were published.                                                    *)
SetsRemain ==
  LET kept == Cardinality(Sets) IN kept >= Keep \/ kept >= Len(published)

(* All three.                                                              *)
BackupsHold == SetsAreWhole /\ LiveWorkKept /\ SetsRemain

(* "Keep the `keep` newest sets": the newest set is never the one dropped. *)
NewestKept ==
  published # <<>> =>
    LET r == published[Len(published)] IN disk["manifest"][stamp[r]] = r
=============================================================================
