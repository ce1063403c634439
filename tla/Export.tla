------------------------------- MODULE Export -------------------------------
(***************************************************************************)
(* JSONL exports (app/services/export.py, POST /export/jsonl): requests    *)
(* that stage a file, read the audit stream and the calendar into it, link *)
(* it under a stamped name, prune the directory and then send the file.    *)
(* Requests overlap, a request may fail or die at any step, and the clock  *)
(* may be set back, or only the local time that names are stamped with, as *)
(* at the end of daylight saving.                                          *)
(***************************************************************************)
EXTENDS Integers, Sequences, FiniteSets, Functions

CONSTANTS Requests,   \* POST /export/jsonl
          Keep,       \* limits.EXPORT_KEEP
          Grace,      \* limits.EXPORT_GRACE, in ticks of the clock
          Clock       \* bound: the seconds the clock may show, 1..Clock

VARIABLES files,      \* files[f]: [by, mtime] of a finished export, or NoExport
          temp,       \* requests whose staged file is on disk
          at,         \* at[r]
          name,       \* name[r]: the file r claimed, or NoName
          written,    \* written[r]: the clock at its last write
          doomed,     \* doomed[r]: [name, by] of the files r decided to remove
          clock,
          stepped     \* what was set back: "nothing", "clock" or "zone"

vars == <<files, temp, at, name, written, doomed, clock, stepped>>

(* The grace lasts at least a tick, and a request is not mistaken for the  *)
(* mark of a file nobody here wrote.                                       *)
ExportAssumption ==
  /\ IsFiniteSet(Requests) /\ <<0, 0>> \notin Requests
  /\ Grace \in Nat \ {0} /\ Clock \in Nat \ {0}

Names  == (0..Clock) \X (1..Cardinality(Requests) + 1)
NoName == <<0, 0>>
NoExport == [by |-> NoName, mtime |-> 0]
Existing == {f \in Names : files[f] # NoExport}

(* existing_exports: by stamp, then by collision number. *)
Newer(f, g) == f[1] > g[1] \/ (f[1] = g[1] /\ f[2] > g[2])

(* An export made before. *)
Earlier == [by |-> NoName, mtime |-> 1]

Init ==
  /\ \E old \in SUBSET {<<1, 1>>} :
       files = [f \in Names |-> IF f \in old THEN Earlier ELSE NoExport]
  /\ temp = {}
  /\ at = [r \in Requests |-> "new"]
  /\ name = [r \in Requests |-> NoName]
  /\ written = [r \in Requests |-> 0]
  /\ doomed = [r \in Requests |-> {}]
  /\ clock = 1 /\ stepped = "nothing"

Goto(r, label) == at' = [at EXCEPT ![r] = label]

-----------------------------------------------------------------------------
(* now_stamp: the local time. *)
Stamp == IF stepped = "zone" THEN clock - 1 ELSE clock

(* The stamp is taken and a file staged, then the rows are read into it.   *)
Stage(r) ==
  /\ at[r] = "new"
  /\ temp' = temp \cup {r}
  /\ name' = [name EXCEPT ![r] = <<Stamp, 0>>]
  /\ Goto(r, "reading")
  /\ UNCHANGED <<files, written, doomed, clock, stepped>>

Read(r) ==
  /\ at[r] = "reading"
  /\ written' = [written EXCEPT ![r] = clock]
  /\ Goto(r, "linking")
  /\ UNCHANGED <<files, temp, name, doomed, clock, stepped>>

(* _claim_name: os.link refuses a name that exists. *)
Link(r) ==
  /\ at[r] = "linking"
  /\ \E n \in 1..Cardinality(Requests) + 1 :
       LET f == <<name[r][1], n>> IN
         /\ f \notin Existing
         /\ \A k \in 1..(n - 1) : <<name[r][1], k>> \in Existing
         /\ name' = [name EXCEPT ![r] = f]
         /\ files' = [files EXCEPT ![f] = [by |-> r, mtime |-> written[r]]]
  /\ temp' = temp \ {r}
  /\ Goto(r, "listing")
  /\ UNCHANGED <<written, doomed, clock, stepped>>

(* prune_exports: the caller's own file counts as the newest, and a file   *)
(* touched within the grace - or in the clock's future - is in flight.     *)
(* Mutant: a file from the clock's future is not.                          *)
InFlightByAge(f) == clock - files[f].mtime \in 0 .. Grace - 1
InFlight(f)      == clock - files[f].mtime < Grace

Surplus(mine) ==
  {f \in Existing \ {mine} :
     Cardinality({g \in Existing : g = mine \/ Newer(g, f)}) >= Keep}

Decide(r) ==
  /\ at[r] = "listing"
  /\ doomed' = [doomed EXCEPT ![r] =
                 {[name |-> f, by |-> files[f].by] :
                    f \in {g \in Surplus(name[r]) : ~InFlight(g)}}]
  /\ Goto(r, "pruning")
  /\ UNCHANGED <<files, temp, name, written, clock, stepped>>

(* Best effort: an unlink that fails leaves the file and goes on. *)
Remove(r) ==
  /\ at[r] = "pruning"
  /\ \E d \in doomed[r] :
       /\ doomed' = [doomed EXCEPT ![r] = @ \ {d}]
       /\ files' \in {files, [files EXCEPT ![d.name] = NoExport]}
  /\ UNCHANGED <<temp, at, name, written, clock, stepped>>

(* FileResponse opens the file only when the handler has returned. *)
Respond(r) ==
  /\ at[r] = "pruning" /\ doomed[r] = {}
  /\ Goto(r, "sending")
  /\ UNCHANGED <<files, temp, name, written, doomed, clock, stepped>>

Sent(r) ==
  /\ at[r] = "sending"
  /\ Goto(r, "sent")
  /\ UNCHANGED <<files, temp, name, written, doomed, clock, stepped>>

(* An error while writing removes the staged file; a crash leaves it. *)
Fail(r) ==
  /\ at[r] \in {"reading", "linking"}
  /\ temp' \in {temp, temp \ {r}}
  /\ Goto(r, "failed")
  /\ UNCHANGED <<files, name, written, doomed, clock, stepped>>

(* EXPORT_GRACE is far longer than serving a file takes: the clock does    *)
(* not carry a file out of its grace before its request is over.           *)
Serving == {r \in Requests : at[r] \in {"listing", "pruning", "sending"}}
Tick == /\ clock < Clock
        /\ \A r \in Requests :
             at[r] = "linking" \/ r \in Serving => clock + 1 - written[r] < Grace
        /\ clock' = clock + 1
        /\ UNCHANGED <<files, temp, at, name, written, doomed, stepped>>

StepBack == /\ stepped = "nothing"
            /\ \/ clock' \in 1..(clock - 1) /\ stepped' = "clock"
               \/ UNCHANGED clock /\ stepped' = "zone"
            /\ UNCHANGED <<files, temp, at, name, written, doomed>>

Next == \/ Tick \/ StepBack
        \/ \E r \in Requests : \/ Stage(r) \/ Read(r) \/ Link(r) \/ Decide(r)
                               \/ Remove(r) \/ Respond(r) \/ Sent(r) \/ Fail(r)

Spec == Init /\ [][Next]_vars

-----------------------------------------------------------------------------
(* Whichever requests overlap and whatever is set back, retention takes    *)
(* the file of a request that has yet to send it only on an outdated       *)
(* decision: one about an earlier file of the same name, which another     *)
(* pass removed in the meantime. "This covers every export still being     *)
(* delivered" (prune_exports) but for that race.                           *)
StepSent ==
  \A r \in Serving :
    files[name[r]].by = r /\ files'[name[r]].by # r =>
      \E p \in Requests : \E d \in doomed[p] : d.name = name[r] /\ d.by # r
=============================================================================
