----------------------------- MODULE LessonBuild -----------------------------
(***************************************************************************)
(* The build of one lesson page (app/services/lesson_build.py): install    *)
(* and bundle steps run as process groups in the lesson's workspace, then  *)
(* the artifact is placed in the bundle, judged by a browser and kept or   *)
(* taken back. The agent's shell writes into the same bundle meanwhile; a  *)
(* build may be cancelled by a shutdown at any await, or die with the      *)
(* server.                                                                 *)
(*                                                                         *)
(* A stretch of adjacent system calls without an await (set aside and      *)
(* place; look and undo) is one step here: the code documents that window  *)
(* and does not close it.                                                  *)
(***************************************************************************)
EXTENDS Integers, Sequences, FiniteSets

CONSTANTS Builds,     \* POST .../build of one lesson, for one output name
          MaxEdits    \* bound: writes of the agent's shell to that name

VARIABLES at,       \* at[b]
          lock,     \* the build whose coroutine holds _lesson_lock
          group,    \* group[b]: live members of the running step's process group
          slot,     \* what holds the output name
          aside,    \* aside[b]: what b set aside under a random name, or Nothing
          placed,   \* placed[b]: what b placed, or Nothing
          clean,    \* clean[b]: the page renders b's artifact without an error
          reads,    \* reads[b]: b's bundle step read the output name as source
          found,    \* found[b]: what held the name when b came to place
          edits,    \* writes of the agent so far
          edited    \* edited[b]: the agent changed the name since b placed

vars == <<at, lock, group, slot, aside, placed, clean, reads, found, edits, edited>>

Nothing    == [of |-> "nothing", n |-> 0]
Directory  == [of |-> "directory", n |-> 0]
Authored(n) == [of |-> "agent", n |-> n]
Artifact(b) == [of |-> "build", n |-> b]
NoBuild    == "none"

BuildAssumption == NoBuild \notin Builds

Init ==
  /\ at = [b \in Builds |-> "new"] /\ lock = NoBuild
  /\ group = [b \in Builds |-> {}]
  /\ slot \in {Nothing, Authored(0)}
  /\ aside = [b \in Builds |-> Nothing] /\ placed = [b \in Builds |-> Nothing]
  /\ clean = [b \in Builds |-> FALSE] /\ reads = [b \in Builds |-> FALSE]
  /\ found = [b \in Builds |-> Nothing]
  /\ edits = 0 /\ edited = [b \in Builds |-> FALSE]

File == <<slot, aside, placed, edits, edited>>
Seen == <<clean, reads, found>>

Goto(b, label) == at' = [at EXCEPT ![b] = label]
Leave(b, label) == Goto(b, label) /\ lock' = NoBuild

-----------------------------------------------------------------------------
(* build_lesson waits for the lesson's lock; a build found no longer to    *)
(* have a bundle, a workspace or an entry leaves at once.                  *)
Enter(b) ==
  /\ at[b] = "new" /\ lock = NoBuild
  /\ \/ Goto(b, "install") /\ lock' = b
     \/ Goto(b, "refused") /\ UNCHANGED lock
  /\ UNCHANGED <<group, File, Seen>>

(* _run_step: a session of its own, whose leader may leave a child behind. *)
Starts(b) ==
  /\ at[b] \in {"install", "bundle"} /\ group[b] = {}
  /\ group' = [group EXCEPT ![b] = {"leader"}]
  /\ UNCHANGED <<at, lock, File, Seen>>

Forks(b) ==
  /\ "leader" \in group[b]
  /\ group' = [group EXCEPT ![b] = @ \cup {"child"}]
  /\ UNCHANGED <<at, lock, File, Seen>>

(* The pipe is at its end and the leader has exited: whatever is left of   *)
(* the group is killed before the result is looked at.                     *)
(* Mutant: a step that ended normally is taken to have ended as a whole.   *)
ExitsLeaving(b) == group[b] \ {"leader"}
Exits(b)        == {}

StepEnds(b) ==
  /\ at[b] \in {"install", "bundle"} /\ group[b] # {}
  /\ group' = [group EXCEPT ![b] = Exits(b)]
  /\ \/ at[b] = "install" /\ Goto(b, "bundle") /\ UNCHANGED <<lock, reads>>
     \/ /\ at[b] = "bundle" /\ Goto(b, "place")
        /\ \E r \in BOOLEAN : /\ r => slot.of = "agent"
                              /\ reads' = [reads EXCEPT ![b] = r]
        /\ UNCHANGED lock
     \/ Leave(b, "refused") /\ UNCHANGED reads
  /\ UNCHANGED <<File, clean, found>>

(* A timeout, or the coroutine is cancelled by a shutdown: _kill signals   *)
(* the group before its first await.                                       *)
Stopped(b) ==
  /\ at[b] \in {"install", "bundle"}
  /\ group' = [group EXCEPT ![b] = {}]
  /\ Leave(b, "refused")
  /\ UNCHANGED <<File, Seen>>

-----------------------------------------------------------------------------
(* The graph is read back and the outputs composed. A build whose sources  *)
(* hold the output name is refused, and so is an output name that a        *)
(* directory holds.                                                        *)
MayTake(b)    == ~reads[b]

PlaceRefused(b) ==
  /\ at[b] = "place"
  /\ ~MayTake(b) \/ slot = Directory
  /\ Leave(b, "refused")
  /\ UNCHANGED <<group, File, Seen>>

Place(b) ==
  /\ at[b] = "place" /\ MayTake(b) /\ slot # Directory
  /\ aside' = [aside EXCEPT ![b] = slot]
  /\ slot' = Artifact(b)
  /\ placed' = [placed EXCEPT ![b] = Artifact(b)]
  /\ edited' = [edited EXCEPT ![b] = FALSE]
  /\ found' = [found EXCEPT ![b] = slot]
  /\ \E c \in BOOLEAN : clean' = [clean EXCEPT ![b] = c]
  /\ Goto(b, "render")
  /\ UNCHANGED <<lock, group, edits, reads>>

(* The artifact cannot be written: what was set aside is renamed back.     *)
PlaceFails(b) ==
  /\ at[b] = "place" /\ MayTake(b) /\ slot # Directory
  /\ Leave(b, "refused")
  /\ UNCHANGED <<group, File, Seen>>

(* The directory sync after the rename fails: publish raises, the build    *)
(* does not know that it has placed anything, and an absent file is not    *)
(* put back.                                                               *)
PlaceFailsLate(b) ==
  /\ at[b] = "place" /\ MayTake(b) /\ slot # Directory
  /\ slot' = IF slot = Nothing THEN Artifact(b) ELSE slot
  /\ Leave(b, "refused")
  /\ UNCHANGED <<group, aside, placed, edits, edited, Seen>>

(* After the render gate, seconds later: is it still the file placed?      *)
(* Mutant: the undo only looks whether something is there.                 *)
StillThere(b)    == slot # Nothing
StillOurs(b)     == slot = placed[b]
StillVouched(b)  == clean[b] /\ slot = placed[b]

Undo(b) ==
  /\ slot' = IF StillOurs(b) THEN aside[b] ELSE slot
  /\ aside' = [aside EXCEPT ![b] = Nothing]

Passes(b) ==
  /\ at[b] = "render" /\ StillVouched(b)
  /\ aside' = [aside EXCEPT ![b] = Nothing]
  /\ Leave(b, "built")
  /\ UNCHANGED <<group, slot, placed, edits, edited, Seen>>

(* Errors on the page, no verdict, a page the agent replaced, or a         *)
(* cancellation while the browser runs.                                    *)
Fails(b) ==
  /\ at[b] = "render"
  /\ Undo(b)
  /\ Leave(b, "refused")
  /\ UNCHANGED <<group, placed, edits, edited, Seen>>

-----------------------------------------------------------------------------
(* The agent's shell writes, deletes or makes a directory of the name. An  *)
(* edit in place and a replacement are both a new identity.                *)
Edit ==
  /\ edits < MaxEdits /\ edits' = edits + 1
  /\ slot' \in {Authored(edits + 1), Nothing, Directory} \ {slot}
  /\ edited' = [b \in Builds |-> TRUE]
  /\ UNCHANGED <<at, lock, group, aside, placed, Seen>>

(* The server dies; systemd kills the unit's control group with it.        *)
Crash ==
  /\ lock # NoBuild
  /\ at' = [b \in Builds |-> IF at[b] = "new" THEN "new"
                             ELSE IF b = lock THEN "died" ELSE at[b]]
  /\ lock' = NoBuild
  /\ group' = [b \in Builds |-> {}]
  /\ UNCHANGED <<File, Seen>>

Step(b) == \/ Enter(b) \/ Starts(b) \/ Forks(b) \/ StepEnds(b) \/ Stopped(b)
           \/ PlaceRefused(b) \/ Place(b) \/ PlaceFails(b) \/ PlaceFailsLate(b)
           \/ Passes(b) \/ Fails(b)

Next == (\E b \in Builds : Step(b)) \/ Edit \/ Crash

Spec == Init /\ [][Next]_vars

-----------------------------------------------------------------------------
(* Whatever timed out, was cancelled or left a child behind, at most one   *)
(* build's processes are at work in the workspace, and they are those of   *)
(* the build that holds the lesson.                                        *)
OneBuildWorks == \A b \in Builds : group[b] # {} => lock = b

(* The end of a build that did not pass puts back what it displaced, and   *)
(* does not argue with the agent: what the agent wrote or removed while    *)
(* the page was being checked stays as the agent left it.                  *)
StepUndone == \A b \in Builds :
                (at[b] = "render" /\ at'[b] = "refused") =>
                  slot' = IF edited[b] THEN slot ELSE found[b]
UndoIsExact == [][StepUndone]_vars

(* "built" is only said of a file that is still there and rendered clean.  *)
StepBuilt == \A b \in Builds :
               (at[b] # "built" /\ at'[b] = "built") =>
                 clean[b] /\ slot' = Artifact(b)
BuiltIsTrue == [][StepBuilt]_vars

(* No build replaces a file it was compiled from.                          *)
SourceStays == \A b \in Builds : reads[b] => placed[b] = Nothing

(* The lesson belongs to one build, and that build replaces no source.     *)
OneBuildAtATime == OneBuildWorks /\ SourceStays

(* The comment over the undo: "Every path out of here that is not a pass   *)
(* puts the bundle back the way it was found".                             *)
StepPutBack == \A b \in Builds :
                 (at[b] = "place" /\ at'[b] = "refused") => slot' = slot
AlwaysPutBack == [][StepPutBack]_vars
=============================================================================
