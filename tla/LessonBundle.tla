---------------------------- MODULE LessonBundle ----------------------------
(***************************************************************************)
(* What opening a lesson's terminal, or building it, prepares in the       *)
(* bundle before a shell may run there (app/services/lessons.py): the      *)
(* bundle's git repository and the node_modules link to the build          *)
(* workspace. Opens overlap, the server may die between two of them's      *)
(* steps, a backup does not keep empty directories, and the shell of an    *)
(* earlier session works in the bundle.                                    *)
(***************************************************************************)
EXTENDS Integers, FiniteSets

CONSTANTS Opens,        \* terminal opens and builds of the lesson
          MaxMeddling   \* bound: outside changes, crashes and failures

VARIABLES repo,       \* <bundle>/.git
          link,       \* <bundle>/node_modules
          kept,       \* contents moved aside under a collision name
          at,         \* at[o]
          saw,        \* saw[o]: what o found at the link's name
          disturbed,  \* disturbed[o]: something else changed the bundle since
          meddling,
          waived      \* the repository's identity is not the app's to settle

vars == <<repo, link, kept, at, saw, disturbed, meddling, waived>>

\* "config" is a plain readable file at that name, "identity" what git finds.
Parts   == {"head", "dirs", "config", "identity", "rules"}
NoRepo  == {"nothing"}
Authored == {"authored directory"}
Finished == Parts

Ours    == "link"
Empty   == "empty directory"
Free    == "nothing"
Learner == "content"

Init ==
  /\ repo \in {NoRepo, Finished, Finished \ {"dirs"}, {"head", "dirs", "config"}, Authored}
  /\ link \in {Free, Ours, Empty, Learner}
  /\ kept = {}
  /\ at = [o \in Opens |-> "new"] /\ saw = [o \in Opens |-> Free]
  /\ disturbed = [o \in Opens |-> FALSE]
  /\ meddling = 0 /\ waived = FALSE

Goto(o, label) == at' = [at EXCEPT ![o] = label]
Trouble        == meddling < MaxMeddling /\ meddling' = meddling + 1
Disturb        == disturbed' = [o \in Opens |-> TRUE]

-----------------------------------------------------------------------------
(* _bundle_repo_is_ready: the marker is the content of info/exclude.       *)
IsRepo == repo \subseteq Parts
Ready  == IsRepo /\ {"dirs", "rules"} \subseteq repo

(* _ensure_bundle_repo. *)
Begins(o) ==
  /\ at[o] = "new"
  /\ Goto(o, CASE repo = NoRepo -> "stage"
               [] IsRepo /\ ~Ready -> "repair"
               [] OTHER -> "link")
  /\ disturbed' = [disturbed EXCEPT ![o] = FALSE]
  /\ UNCHANGED <<repo, link, kept, saw, meddling, waived>>

(* _install_bundle_repo: built out of the session's reach, then renamed in *)
(* whole. The rename cannot replace a directory that is not empty.         *)
Arrives(o) == IF repo = NoRepo THEN repo' = Finished ELSE UNCHANGED repo

Installs(o) ==
  /\ at[o] = "stage"
  /\ Arrives(o)
  /\ Goto(o, "link")
  /\ UNCHANGED <<link, kept, saw, disturbed, meddling, waived>>

(* git cannot be run, or the staging directory cannot be made: logged.     *)
InstallFails(o) ==
  /\ at[o] = "stage" /\ Trouble
  /\ Goto(o, "link") /\ disturbed' = [disturbed EXCEPT ![o] = TRUE]
  /\ UNCHANGED <<repo, link, kept, saw, waived>>

(* _repair_bundle_repo: directories, identity, and the marker last.        *)
Repairing(o, label) ==
  /\ at[o] = label
  /\ UNCHANGED <<link, kept, saw, disturbed, meddling>>

HasHead == IsRepo /\ "head" \in repo

MakesDirs(o) ==
  /\ Repairing(o, "repair")
  /\ IF HasHead THEN repo' = repo \cup {"dirs"} /\ Goto(o, "identity")
     ELSE UNCHANGED repo /\ Goto(o, "link")
  /\ UNCHANGED waived

(* _ensure_repo_identity reads the config. One that is missing, a link or  *)
(* too large is passed over, and the repository finished without it.       *)
LooksAtConfig(o) ==
  /\ Repairing(o, "identity")
  /\ Goto(o, IF "config" \notin repo \/ "identity" \in repo THEN "rules" ELSE "fill")
  /\ waived' = (waived \/ "config" \notin repo)
  /\ UNCHANGED repo

(* The copy, filled in, is renamed over whatever file holds the name now.  *)
FillsIdentity(o) ==
  /\ Repairing(o, "fill")
  /\ repo' = repo \cup {"config", "identity"}
  /\ Goto(o, "rules")
  /\ UNCHANGED waived

WritesRules(o) ==
  /\ Repairing(o, "rules")
  /\ repo' = repo \cup {"rules"}
  /\ Goto(o, "link")
  /\ UNCHANGED waived

Repairs(o) == MakesDirs(o) \/ LooksAtConfig(o) \/ FillsIdentity(o) \/ WritesRules(o)

(* A directory cannot be made or the identity not be filled in: the repair *)
(* ends there and the open goes on.                                        *)
RepairFails(o) ==
  /\ at[o] \in {"repair", "identity", "fill", "rules"} /\ Trouble
  /\ Goto(o, "link") /\ disturbed' = [disturbed EXCEPT ![o] = TRUE]
  /\ UNCHANGED <<repo, link, kept, saw, waived>>

-----------------------------------------------------------------------------
(* _ensure_build_workspace. What is at the name and is not the link is     *)
(* moved aside, or removed if it is an empty directory.                    *)
LooksAtLink(o) ==
  /\ at[o] = "link"
  /\ saw' = [saw EXCEPT ![o] = link]
  /\ Goto(o, CASE link = Ours -> "opened" [] link = Free -> "symlink" [] OTHER -> "clear")
  /\ UNCHANGED <<repo, link, kept, disturbed, meddling, waived>>

(* rmdir refuses what is no longer an empty directory; a rename takes      *)
(* whatever holds the name, the link another open has placed included, and *)
(* fails on a free name.                                                   *)
(* Mutant: an empty directory is removed with whatever it holds by then.   *)
RemovesTree(o) == /\ saw[o] = Empty /\ link # Free
                  /\ link' = Free /\ UNCHANGED kept
Removes(o)     == /\ saw[o] = Empty /\ link = Empty
                  /\ link' = Free /\ UNCHANGED kept
MovesAside(o)  == /\ saw[o] = Learner /\ link # Free
                  /\ link' = Free /\ kept' = kept \cup {link}

Clears(o) ==
  /\ at[o] = "clear"
  /\ Removes(o) \/ MovesAside(o)
  /\ Goto(o, "symlink")
  /\ UNCHANGED <<repo, saw, disturbed, meddling, waived>>

ClearFails(o) ==
  /\ at[o] = "clear"
  /\ IF saw[o] = Empty THEN link # Empty ELSE link = Free
  /\ Goto(o, "refused")
  /\ UNCHANGED <<repo, link, kept, saw, disturbed, meddling, waived>>

(* The loser of two opens is fine if the winner placed the same link.      *)
WinnersOwn == link = Ours

Links(o) ==
  /\ at[o] = "symlink"
  /\ IF link = Free THEN link' = Ours /\ Goto(o, "opened")
     ELSE UNCHANGED link /\ Goto(o, IF WinnersOwn THEN "opened" ELSE "refused")
  /\ UNCHANGED <<repo, kept, saw, disturbed, meddling, waived>>

(* A directory or the link cannot be made, or what holds the name not be   *)
(* moved: no shell is opened, and the link may be gone.                    *)
LinkFails(o) ==
  /\ at[o] \in {"link", "clear", "symlink"} /\ Trouble
  /\ Goto(o, "refused")
  /\ disturbed' = [p \in Opens |-> disturbed[p] \/ at[o] = "symlink"]
  /\ UNCHANGED <<repo, link, kept, saw, waived>>

-----------------------------------------------------------------------------
(* A session's shell makes a repository of its own, or a node_modules, or  *)
(* edits, replaces or removes the config; an instance is backed up and     *)
(* restored; the server dies.                                              *)
GitInit ==
  /\ Trouble /\ repo = NoRepo /\ repo' = {"head", "dirs", "config"} /\ Disturb
  /\ UNCHANGED <<link, kept, at, saw, waived>>

ConfigEdited ==
  /\ Trouble /\ IsRepo
  /\ \E left \in SUBSET {"config", "identity"} :
        repo' = (repo \ {"config", "identity"}) \cup left
  /\ waived' = (waived \/ "rules" \in repo \/ \E o \in Opens : at[o] = "rules")
  /\ UNCHANGED <<link, kept, at, saw, disturbed>>

Installed ==
  /\ Trouble /\ link \in {Free, Empty} /\ link' = Learner
  /\ disturbed' = [o \in Opens |-> disturbed[o] \/ at[o] = "opened"]
  /\ UNCHANGED <<repo, kept, at, saw, waived>>

Restored ==
  /\ Trouble /\ \A o \in Opens : at[o] \in {"new", "opened", "refused"}
  /\ repo' = IF IsRepo THEN repo \ {"dirs"} ELSE repo
  /\ link' = IF link \in {Ours, Empty} THEN Free ELSE link
  /\ Disturb
  /\ UNCHANGED <<kept, at, saw, waived>>

Crash ==
  /\ Trouble
  /\ at' = [o \in Opens |-> IF at[o] \in {"new", "opened", "refused"} THEN at[o] ELSE "refused"]
  /\ Disturb
  /\ UNCHANGED <<repo, link, kept, saw, waived>>

Next ==
  \/ \E o \in Opens : \/ Begins(o) \/ Installs(o) \/ InstallFails(o) \/ Repairs(o)
                      \/ RepairFails(o) \/ LooksAtLink(o) \/ Clears(o)
                      \/ ClearFails(o) \/ Links(o) \/ LinkFails(o)
  \/ GitInit \/ ConfigEdited \/ Installed \/ Restored \/ Crash

Spec == Init /\ [][Next]_vars

-----------------------------------------------------------------------------
(* A repository that will never be looked at again can take a commit: it   *)
(* has its directories and somebody's identity, unless its config was not  *)
(* a plain file when an open looked, or a session changed it after that.   *)
(* And every open that nothing disturbed leaves such a repository, unless  *)
(* the name is taken.                                                      *)
RepositoryUsable ==
  /\ Ready => /\ {"head", "dirs"} \subseteq repo
              /\ "identity" \in repo \/ waived
  /\ \A o \in Opens : (at[o] = "opened" /\ ~disturbed[o]) => repo = Authored \/ Ready

(* A shell is not opened onto a bundle that installs would land in: once   *)
(* the opens under way have ended, an answered open stands on the link.    *)
LinkBeforeShell ==
  (/\ \E o \in Opens : at[o] = "opened" /\ ~disturbed[o]
   /\ \A o \in Opens : at[o] \in {"new", "opened", "refused"}) => link = Ours

(* What a session had installed at the name is never destroyed.            *)
StepContent == (link = Learner /\ link' # Learner) => Learner \in kept'
ContentKept == [][StepContent]_vars
=============================================================================
