----------------------------- MODULE Artifacts -----------------------------
(***************************************************************************)
(* The editor of a lesson block (app/services/artifacts.py): saves that    *)
(* compare and publish one file, and the byte snapshot a run is given.     *)
(* Requests of one process take turns under projection.lesson_lock; two    *)
(* processes serve during a rolling restart, each with its own lock, and   *)
(* the agent's shell writes, replaces or removes the file at any moment.   *)
(*                                                                         *)
(* A revision is the digest of the bytes, so it is the content here. Every *)
(* write gives the file a new identity (inode, mtime, ctime).              *)
(***************************************************************************)
EXTENDS Integers, FiniteSets

CONSTANTS Requests,   \* saves and runs of one block
          Processes,  \* server processes alive at once
          Contents,   \* what the file may hold
          MaxEdits    \* bound: writes of the agent's shell

VARIABLES at,       \* at[r]
          process,  \* process[r]: where r is served
          lock,     \* lock[p]: the request inside p's lesson_lock
          file,     \* [data, id] of the name, data = Absent when nothing holds it
          ids,      \* identities given out
          edits,    \* writes of the agent so far
          asked,    \* asked[r]: [kind, base, data] of the request
          opened,   \* opened[r]: the descriptor's [data, id]
          late,     \* late[r]: the name was written after r's last look at it
          ledger,   \* contents of the lesson_artifact_saved events
          stored    \* contents a save has put on the name

vars == <<at, process, lock, file, ids, edits, asked, opened, late, ledger, stored>>

Absent  == "absent"
Nobody  == "nobody"
NoFile  == [data |-> Absent, id |-> 0]
Request == [kind : {"save"}, base : Contents \cup {Absent}, data : Contents]
           \cup [kind : {"run"}, base : Contents, data : {Absent}]

ArtifactsAssumption == Nobody \notin Requests /\ MaxEdits \in Nat

Unasked == [kind |-> "none", base |-> Absent, data |-> Absent]

Init ==
  /\ at = [r \in Requests |-> "new"]
  /\ process \in [Requests -> Processes] /\ lock = [p \in Processes |-> Nobody]
  /\ file = NoFile /\ ids = 0 /\ edits = 0
  /\ asked = [r \in Requests |-> Unasked] /\ opened = [r \in Requests |-> NoFile]
  /\ late = [r \in Requests |-> FALSE] /\ ledger = {} /\ stored = {}

Goto(r, label)  == at' = [at EXCEPT ![r] = label]
Stay            == UNCHANGED <<file, ids, edits, late, stored>>
Leave(r, label) == Goto(r, label) /\ lock' = [lock EXCEPT ![process[r]] = Nobody]

(* The name gets new bytes under a new identity; whoever looked, looked    *)
(* too early.                                                              *)
Wrote(data) ==
  /\ ids' = ids + 1
  /\ file' = IF data = Absent THEN NoFile ELSE [data |-> data, id |-> ids + 1]
  /\ late' = [r \in Requests |-> at[r] = "checked"]

-----------------------------------------------------------------------------
(* The lock, a bundle that still offers the block, and the descriptor.     *)
Opens(r) ==
  /\ at[r] = "new" /\ lock[process[r]] = Nobody
  /\ \/ /\ lock' = [lock EXCEPT ![process[r]] = r]
        /\ \E request \in Request : asked' = [asked EXCEPT ![r] = request]
        /\ opened' = [opened EXCEPT ![r] = file] /\ Goto(r, "reading")
     \/ Goto(r, "refused") /\ UNCHANGED <<lock, asked, opened>>
  /\ Stay /\ UNCHANGED <<process, ledger>>

(* _open_artifact ends with a second fstat: bytes read across a write are  *)
(* refused. A name that turns up after the open found none is not seen.    *)
Reads(r) ==
  /\ at[r] = "reading"
  /\ IF opened[r] \in {file, NoFile} THEN Goto(r, "read") /\ UNCHANGED lock
                                     ELSE Leave(r, "refused")
  /\ Stay /\ UNCHANGED <<process, asked, opened, ledger>>

(* _name_matches, or _name_absent when nothing was opened.                 *)
(* Mutant: the revision compared before staging is enough.                 *)
TrustsTheRead(r) == TRUE
NameMatches(r)   == file = opened[r]

(* The caller's base_rev against the revision that was read.               *)
BaseHolds(r) == asked[r].base = opened[r].data

(* The same bytes again are answered "unchanged", whatever the base; a     *)
(* base that has moved on is a conflict; otherwise the bytes are staged.   *)
Compares(r) ==
  /\ at[r] = "read" /\ asked[r].kind = "save"
  /\ IF asked[r].data = opened[r].data
     THEN Leave(r, IF NameMatches(r) THEN "unchanged" ELSE "conflict")
     ELSE IF BaseHolds(r)
     THEN Goto(r, "staged") /\ UNCHANGED lock
     ELSE Leave(r, "conflict")
  /\ Stay /\ UNCHANGED <<process, asked, opened, ledger>>

(* Staging, the swap or the durability of the swap may fail: unsafe-file.  *)
StageFails(r) ==
  /\ at[r] \in {"staged", "checked"}
  /\ Leave(r, "refused")
  /\ Stay /\ UNCHANGED <<process, asked, opened, ledger>>

(* The last look before os.replace.                                        *)
LooksAgain(r) ==
  /\ at[r] = "staged"
  /\ IF NameMatches(r) THEN Goto(r, "checked") /\ UNCHANGED lock
                       ELSE Leave(r, "conflict")
  /\ late' = [late EXCEPT ![r] = FALSE]
  /\ UNCHANGED <<process, file, ids, edits, asked, opened, ledger, stored>>

(* os.replace: from here the bytes are the learner's record, even when the *)
(* fsync of the directory fails and the caller is refused.                 *)
Publishes(r) ==
  /\ at[r] = "checked"
  /\ Wrote(asked[r].data) /\ stored' = stored \cup {asked[r].data}
  /\ Goto(r, "published")
  /\ UNCHANGED <<process, lock, edits, asked, opened, ledger>>

(* The event is best effort and the answer says whether it was recorded.   *)
Answers(r) ==
  /\ at[r] = "published"
  /\ \/ Leave(r, "saved") /\ ledger' = ledger \cup {asked[r].data}
     \/ Leave(r, "saved silently") /\ UNCHANGED ledger
     \/ Leave(r, "refused") /\ UNCHANGED ledger
  /\ Stay /\ UNCHANGED <<process, asked, opened>>

(* get_run_snapshot: the bytes handed to the runner are the ones hashed.   *)
Executed(r)    == opened[r].data

Snapshots(r) ==
  /\ at[r] = "read" /\ asked[r].kind = "run"
  /\ Leave(r, IF opened[r].data = Absent THEN "missing"
              ELSE IF NameMatches(r) /\ BaseHolds(r) THEN "runs" ELSE "conflict")
  /\ Stay /\ UNCHANGED <<process, asked, opened, ledger>>

(* The job starts later, when the runner has room for it.                  *)
Starts(r) ==
  /\ at[r] = "runs" /\ Goto(r, "ran")
  /\ asked' = [asked EXCEPT ![r].data = Executed(r)]
  /\ Stay /\ UNCHANGED <<process, lock, opened, ledger>>

-----------------------------------------------------------------------------
(* The agent's shell writes in place, replaces or removes the file.        *)
AgentWrites ==
  /\ edits < MaxEdits /\ edits' = edits + 1
  /\ \E data \in Contents \cup {Absent} : data # file.data /\ Wrote(data)
  /\ UNCHANGED <<at, process, lock, asked, opened, ledger, stored>>

Next ==
  \/ \E r \in Requests :
        \/ Opens(r) \/ Reads(r) \/ Compares(r) \/ StageFails(r) \/ LooksAgain(r)
        \/ Publishes(r) \/ Answers(r) \/ Snapshots(r) \/ Starts(r)
  \/ AgentWrites

Spec == Init /\ [][Next]_vars

-----------------------------------------------------------------------------
TypeOK ==
  /\ file.data \in Contents \cup {Absent} /\ file.id \in 0 .. ids
  /\ asked \in [Requests -> [kind : {"none", "save", "run"}, base : Contents \cup {Absent},
                             data : Contents \cup {Absent}]]
  /\ ledger \subseteq Contents /\ edits \in 0 .. MaxEdits
  /\ \A r \in Requests : lock[process[r]] = r => at[r] # "new"

(* A save replaces only what its author had in front of them: the bytes on *)
(* the name are those of its base_rev, by whoever and in whichever process *)
(* they were written. All that is left is the one call between the last    *)
(* look at the name and the swap (save_artifact).                          *)
ReplacesItsBase ==
  \A r \in Requests :
    at[r] = "checked" /\ at'[r] = "published" /\ ~late[r] => file.data = asked[r].base

SavesReplaceTheirBase == [][ReplacesItsBase]_vars

(* A run executes the revision its caller named, however the file moves on *)
(* before the job starts; and the ledger tells only of bytes that reached  *)
(* the name (get_run_snapshot, save_artifact).                             *)
RunsAndEventsAreTrue ==
  /\ \A r \in Requests : at[r] = "ran" => asked[r].data = asked[r].base
  /\ ledger \subseteq stored

(* All of it, of every step and the state it leads to.                     *)
StepKeepsWord == ReplacesItsBase /\ (TypeOK /\ RunsAndEventsAreTrue)'
=============================================================================
