------------------------------- MODULE Restore ------------------------------
(***************************************************************************)
(* `backup_db.py --restore MANIFEST [--into DIR] [--force]`: attempts to   *)
(* put one set's entries into a data directory whose own entries are moved *)
(* aside.  An attempt may fail at any call (and then undoes what it did),  *)
(* be killed at any call (and then undoes nothing), and be tried again.    *)
(* Retention of another process may drop the set meanwhile.                *)
(***************************************************************************)
EXTENDS Integers, FiniteSets

CONSTANTS Names,       \* top-level entries of a data directory
          Database,    \* the one among them that is the ledger
          MaxAttempts  \* bound on the attempts

RestoreAssumption == Database \in Names /\ MaxAttempts \in Nat

Origin == {"none", "before", "set"}   \* no entry, the old one, the set's copy
Tries  == 1..MaxAttempts

VARIABLES members,   \* what is left of the set: "manifest", "database", "instance"
          carried,   \* the entries the set's archive carries
          target,    \* target[n]: the entry the directory has under n
          aside,     \* aside[n][k]: the k-th *.pre-restore-<stamp> name of n
          staging,   \* the set's copies in this attempt's staging directory
          scrap,     \* staging directories killed attempts left behind
          phase, try,
          displaced, \* entries this attempt moves aside, and still has to
          moved,     \* moved[n]: where this attempt put n aside, 0 if nowhere
          installed, \* entries this attempt put in place
          found,     \* history: target when this attempt began
          original   \* history: target when the first attempt began

vars == <<members, carried, target, aside, staging, scrap, phase, try,
          displaced, moved, installed, found, original>>

-----------------------------------------------------------------------------
Whole        == {"manifest", "database", "instance"}
Occupied(t)  == {n \in Names : t[n] # "none"}
Contents     == carried \cup {Database}
Idle         == {"idle", "restored", "unsynced", "refused", "failed"}

(* _reserve_asides: the first suffix nothing is kept under. *)
FreeAside(n) == CHOOSE k \in Tries :
                  /\ aside[n][k] = "none"
                  /\ \A j \in 1..(k - 1) : aside[n][j] # "none"

Init ==
  /\ members = Whole
  /\ carried \in SUBSET (Names \ {Database})
  /\ \E old \in SUBSET Names :
       target = [n \in Names |-> IF n \in old THEN "before" ELSE "none"]
  /\ aside = [n \in Names |-> [k \in Tries |-> "none"]]
  /\ staging = {} /\ scrap = 0
  /\ phase = "idle" /\ try = 0
  /\ displaced = {} /\ installed = {}
  /\ moved = [n \in Names |-> 0]
  /\ found = target /\ original = target

-----------------------------------------------------------------------------
(* verify(), the scan of the target and the refusal of an occupied one.    *)
Begin(force) ==
  /\ phase \in Idle /\ try < MaxAttempts
  /\ try' = try + 1
  /\ found' = target
  /\ displaced' = Occupied(target)
  /\ moved' = [n \in Names |-> 0]
  /\ installed' = {} /\ staging' = {}
  /\ phase' = IF members # Whole THEN "failed"
              ELSE IF Occupied(target) # {} /\ ~force THEN "refused" ELSE "extracting"
  /\ UNCHANGED <<members, carried, target, aside, scrap, original>>

(* The archive is extracted, then the snapshot laid down beside it. *)
Extract ==
  /\ phase = "extracting" /\ "instance" \in members
  /\ staging' = carried
  /\ phase' = "copying"
  /\ UNCHANGED <<members, carried, target, aside, scrap, try, displaced, moved,
                 installed, found, original>>

Copy ==
  /\ phase = "copying" /\ "database" \in members
  /\ staging' = staging \cup {Database}
  /\ phase' = "moving"
  /\ UNCHANGED <<members, carried, target, aside, scrap, try, displaced, moved,
                 installed, found, original>>

(* A full disk, or a member retention has dropped: nothing has moved yet,  *)
(* and the finally removes the staging directory.                          *)
FailEarly ==
  /\ phase \in {"extracting", "copying"}
  /\ staging' = {}
  /\ phase' = "failed"
  /\ UNCHANGED <<members, carried, target, aside, scrap, try, displaced, moved,
                 installed, found, original>>

(* One os.replace of the swap: everything moves aside before anything in.  *)
MoveAside(n) ==
  /\ phase = "moving" /\ n \in displaced
  /\ aside' = [aside EXCEPT ![n][FreeAside(n)] = target[n]]
  /\ moved' = [moved EXCEPT ![n] = FreeAside(n)]
  /\ target' = [target EXCEPT ![n] = "none"]
  /\ displaced' = displaced \ {n}
  /\ UNCHANGED <<members, carried, staging, scrap, phase, try, installed,
                 found, original>>

Install(n) ==
  /\ phase = "moving" /\ displaced = {} /\ n \in staging
  /\ target' = [target EXCEPT ![n] = "set"]
  /\ staging' = staging \ {n}
  /\ installed' = installed \cup {n}
  /\ UNCHANGED <<members, carried, aside, scrap, phase, try, displaced, moved,
                 found, original>>

(* The directory is synced before success is reported; should that fail,   *)
(* the command fails with the whole set in place.                          *)
Finish ==
  /\ phase = "moving" /\ displaced = {} /\ staging = {}
  /\ phase' \in {"restored", "unsynced"}
  /\ UNCHANGED <<members, carried, target, aside, staging, scrap, try, displaced,
                 moved, installed, found, original>>

(* A rename fails: the handler takes back what was installed and then puts *)
(* back what was moved, one rename at a time.                              *)
FailSwap ==
  /\ phase = "moving"
  /\ displaced # {} \/ staging # {}
  /\ phase' = "undoing"
  /\ UNCHANGED <<members, carried, target, aside, staging, scrap, try, displaced,
                 moved, installed, found, original>>

TakeBack(n) ==
  /\ phase = "undoing" /\ n \in installed
  /\ target' = [target EXCEPT ![n] = "none"]
  /\ staging' = staging \cup {n}
  /\ installed' = installed \ {n}
  /\ UNCHANGED <<members, carried, aside, scrap, phase, try, displaced, moved,
                 found, original>>

(* Mutant: entries are put back while installed ones still stand. *)
PutBackBeside(n) ==
  /\ phase = "undoing" /\ moved[n] # 0
  /\ target' = [target EXCEPT ![n] = IF @ = "none" THEN aside[n][moved[n]] ELSE @]
  /\ aside' = [aside EXCEPT ![n][moved[n]] =
                 IF target[n] = "none" THEN "none" ELSE @]
  /\ moved' = [moved EXCEPT ![n] = 0]
  /\ UNCHANGED <<members, carried, staging, scrap, phase, try, displaced,
                 installed, found, original>>

PutBack(n) ==
  /\ phase = "undoing" /\ installed = {} /\ moved[n] # 0
  /\ target' = [target EXCEPT ![n] = IF @ = "none" THEN aside[n][moved[n]] ELSE @]
  /\ aside' = [aside EXCEPT ![n][moved[n]] =
                 IF target[n] = "none" THEN "none" ELSE @]
  /\ moved' = [moved EXCEPT ![n] = 0]
  /\ UNCHANGED <<members, carried, staging, scrap, phase, try, displaced,
                 installed, found, original>>

Undone ==
  /\ phase = "undoing" /\ installed = {} /\ \A n \in Names : moved[n] = 0
  /\ staging' = {}
  /\ phase' = "failed"
  /\ UNCHANGED <<members, carried, target, aside, scrap, try, displaced, moved,
                 installed, found, original>>

(* Killed: what is on disk stays, the staging directory included. *)
Kill ==
  /\ phase \notin Idle
  /\ scrap' = scrap + 1
  /\ staging' = {}
  /\ phase' = "idle"
  /\ UNCHANGED <<members, carried, target, aside, try, displaced, moved,
                 installed, found, original>>

(* prune of another process: manifest, then snapshot, then archive. *)
Retention ==
  /\ members # {}
  /\ members' = CASE "manifest" \in members -> members \ {"manifest"}
                  [] members = {"database", "instance"} -> {"instance"}
                  [] OTHER -> {}
  /\ UNCHANGED <<carried, target, aside, staging, scrap, phase, try, displaced,
                 moved, installed, found, original>>

Next ==
  \/ \E force \in BOOLEAN : Begin(force)
  \/ Extract \/ Copy \/ FailEarly \/ Finish \/ FailSwap \/ Undone \/ Kill
  \/ Retention
  \/ \E n \in Names : MoveAside(n) \/ Install(n) \/ TakeBack(n) \/ PutBack(n)

Spec == Init /\ [][Next]_vars

-----------------------------------------------------------------------------
(* An attempt is all or nothing: "restored" is exactly the set, a refusal  *)
(* or an error leaves exactly what the attempt found - also when the set   *)
(* was dropped under it, and when what it found was the half-swapped       *)
(* directory of a killed attempt.                                          *)
AllOrNothing ==
  /\ phase \in {"restored", "unsynced"} =>
       target = [n \in Names |-> IF n \in Contents THEN "set" ELSE "none"]
  /\ phase \in {"refused", "failed"} => target = found

(* A mistake stays recoverable: whatever attempts were killed, undone or   *)
(* repeated, every entry the directory had at first is still in it or      *)
(* under exactly one of its *.pre-restore-* names.                         *)
OriginalsSurvive ==
  \A n \in Names : original[n] = "before" =>
    Cardinality({k \in Tries : aside[n][k] = "before"})
      + (IF target[n] = "before" THEN 1 ELSE 0) = 1

(* The directory never holds a mix of the two instances unless a swap is   *)
(* under way or one was killed.                                            *)
NoHybrid ==
  phase \notin {"moving", "undoing"} /\ scrap = 0 =>
    \/ target = original
    \/ \A n \in Names : target[n] # "before"

(* All three.                                                              *)
RestoresAreWhole == AllOrNothing /\ OriginalsSurvive /\ NoHybrid
=============================================================================
