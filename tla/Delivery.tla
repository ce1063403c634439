------------------------------ MODULE Delivery ------------------------------
(***************************************************************************)
(* Exports delivered to another installation: iter_jsonl (app/services/    *)
(* export.py) writes the audit stream and then the calendar into a file    *)
(* while the source goes on changing; scripts/restore_from_export.py       *)
(* builds a fresh target from a file or redelivers a file into a target    *)
(* that has a database.  Files arrive in any order, more than once; a      *)
(* build may be killed; the target's own application may have been used.   *)
(***************************************************************************)
EXTENDS Integers, Sequences, FiniteSets, SequencesExt

CONSTANTS Exports,    \* exports the source takes
          MaxLog,     \* bound on the source's audit stream
          MaxRuns     \* bound on the runs of the restore script

DeliveryAssumption == Exports \cap {"idle", "built"} = {}  \* the phases of the script

VARIABLES log,        \* the source's stream: "calendar" edits and other "row"s
          file,       \* file[x]: [at, n, calendar, ids]
          target,     \* the target directory: no database, or its contents
          staged,     \* what a fresh build holds in its staging directory
          phase,      \* of the restore script
          scrap,      \* staging directories left by killed builds
          runs

vars == <<log, file, target, staged, phase, scrap, runs>>

-----------------------------------------------------------------------------
(* A target database: the stream events applied, in order (0 is an event   *)
(* of its own application), the calendar version, whether the receipts are *)
(* the source's, and the id counter of the tables that are not restored.   *)
NoDatabase == [applied |-> <<>>, calendar |-> -1, ids |-> FALSE, counter |-> -1]
Empty      == [applied |-> <<>>, calendar |-> 0, ids |-> TRUE, counter |-> 0]

Edits(n)  == Cardinality({k \in 1..n : log[k] = "calendar"})
Version   == Edits(Len(log))
Used(t)   == 0 \in Range(t.applied)
Held(t)   == Range(t.applied)

Init ==
  /\ log = <<>>
  /\ file = [x \in Exports |-> [at |-> "none", n |-> 0, calendar |-> 0, ids |-> TRUE]]
  /\ target = NoDatabase /\ staged = NoDatabase
  /\ phase = "idle" /\ scrap = 0 /\ runs = 0

(* The source journals every write; an event of the tables that are not    *)
(* restored mentions an id, here its own position.                         *)
Write(kind) ==
  /\ Len(log) < MaxLog
  /\ log' = Append(log, kind)
  /\ UNCHANGED <<file, target, staged, phase, scrap, runs>>

(* iter_jsonl: the events in one SELECT, the calendar in a later one.      *)
ReadEvents(x, carriesIds) ==
  /\ file[x].at = "none"
  /\ file' = [file EXCEPT ![x] =
                [at |-> "events", n |-> Len(log), calendar |-> 0, ids |-> carriesIds]]
  /\ UNCHANGED <<log, target, staged, phase, scrap, runs>>

ReadCalendar(x) ==
  /\ file[x].at = "events"
  /\ file' = [file EXCEPT ![x].at = "done", ![x].calendar = Version]
  /\ UNCHANGED <<log, target, staged, phase, scrap, runs>>

-----------------------------------------------------------------------------
(* _apply_records: the records the database does not hold, in file order;  *)
(* the calendar as the file says; the id counter past every id mentioned.  *)
InOrder(S) ==
  [i \in 1..Cardinality(S) |-> CHOOSE k \in S : Cardinality({j \in S : j <= k}) = i]

Missing(t, f) == InOrder((1..f.n) \ (IF f.ids /\ t.ids THEN Held(t) ELSE {}))

Delivered(t, f) ==
  [applied  |-> t.applied \o Missing(t, f),
   calendar |-> f.calendar,
   ids      |-> f.ids,
   counter  |-> IF f.n > t.counter THEN f.n ELSE t.counter]

(* _require_shared_history: what the target holds must be in the file; an  *)
(* empty ledger contradicts nothing.                                       *)
(* Mutant: receipts alone are compared. *)
SharesReceipts(t, f) == t.ids
SharesHistory(t, f) ==
  \/ t.applied = <<>>
  \/ t.ids /\ ~Used(t) /\ Held(t) \subseteq 1..f.n

(* Redelivery: one immediate transaction, refused whole or applied whole.  *)
Redeliver(x) ==
  /\ phase = "idle" /\ runs < MaxRuns /\ file[x].at = "done"
  /\ target # NoDatabase
  /\ target' = IF file[x].ids /\ SharesHistory(target, file[x])
                 THEN Delivered(target, file[x]) ELSE target
  /\ runs' = runs + 1
  /\ UNCHANGED <<log, file, staged, phase, scrap>>

(* A fresh build in a sibling directory, moved into place when complete.   *)
Build(x) ==
  /\ phase = "idle" /\ runs < MaxRuns /\ file[x].at = "done"
  /\ target = NoDatabase
  /\ staged' = Empty
  /\ phase' = x
  /\ runs' = runs + 1
  /\ UNCHANGED <<log, file, target, scrap>>

Commit ==
  /\ phase \in Exports
  /\ staged' = Delivered(staged, file[phase])
  /\ phase' = "built"
  /\ UNCHANGED <<log, file, target, scrap, runs>>

Rename ==
  /\ phase = "built"
  /\ target' = staged /\ staged' = NoDatabase
  /\ phase' = "idle"
  /\ UNCHANGED <<log, file, scrap, runs>>

(* An error removes the staging directory; a kill leaves it beside.        *)
Abort(killed) ==
  /\ phase # "idle"
  /\ staged' = NoDatabase
  /\ scrap' = IF killed THEN scrap + 1 ELSE scrap
  /\ phase' = "idle"
  /\ UNCHANGED <<log, file, target, runs>>

(* The target's own application: a write takes the next id.                *)
Use ==
  /\ phase = "idle" /\ target # NoDatabase /\ ~Used(target)
  /\ target' = [target EXCEPT !.applied = Append(@, 0), !.counter = @ + 1]
  /\ UNCHANGED <<log, file, staged, phase, scrap, runs>>

Next ==
  \/ \E kind \in {"calendar", "row"} : Write(kind)
  \/ \E x \in Exports :
       \/ \E carriesIds \in BOOLEAN : ReadEvents(x, carriesIds)
       \/ ReadCalendar(x) \/ Redeliver(x) \/ Build(x)
  \/ Commit \/ Rename \/ Use
  \/ \E killed \in BOOLEAN : Abort(killed)

Spec == Init /\ [][Next]_vars

-----------------------------------------------------------------------------
(* Whatever files were delivered, in whatever order and however often, the *)
(* target holds a prefix of the source's stream, each event once and in    *)
(* order, with its own events only behind it.                              *)
HoldsAPrefix ==
  \A k \in DOMAIN target.applied :
    target.applied[k] = k \/ (target.applied[k] = 0 /\ k = Len(target.applied))

(* The calendar of a target is never behind the edits its ledger tells of, *)
(* and an id its application takes is in no event it holds.                *)
LedgerNotAhead ==
  target # NoDatabase /\ ~Used(target) =>
    /\ target.calendar >= Edits(Len(target.applied))
    /\ \A k \in Held(target) : k <= target.counter

(* A delivery moves a target forward or leaves it alone; one whose own     *)
(* application was used is left alone for good.                            *)
StepForward ==
  target # NoDatabase =>
    /\ IsPrefix(target.applied, target'.applied)
    /\ Used(target) => target' = target

ForwardOnly == [][StepForward]_vars

(* "Redelivery only ever moves forward": a delivery into a database with a *)
(* history does not take its calendar back.                                *)
CalendarNeverReverts ==
  [][target.applied # <<>> => target'.calendar >= target.calendar]_vars
=============================================================================
