------------------------------- MODULE RunLog -------------------------------
(***************************************************************************)
(* runs.jsonl of one lesson: the log of finished runs that the finish hook *)
(* of the runner writes into the lesson's bundle (app/services/runs.py and *)
(* the publishing helpers of app/services/projection.py).                  *)
(*                                                                         *)
(* The bundle directory is shared with the learner and the study agent, so *)
(* a file on the name may be anybody's. The app keeps a private seal of    *)
(* the file it last published and trusts a file on the name only while it  *)
(* still matches. Everything the app does to the file happens under an     *)
(* app-private lock; what the outside does takes no lock at all, so it can *)
(* fall between any two system calls of the app. An action is therefore a  *)
(* system call of the lock's holder that reads or changes the shared       *)
(* directory, with the computation that follows it up to the next one.     *)
(***************************************************************************)
EXTENDS Naturals, FiniteSets, Sequences, SequencesExt

CONSTANTS Runs,          \* the runs of the lesson
          Bytes,         \* Bytes[r]: length of the serialized record of r
          MaxBytes,      \* PROJECTION_MAX_BYTES
          Foreign,       \* a line the app did not write
          Torn,          \* a line whose append broke off
          RacingEdits,   \* the outside edits that can fall inside a locked section
          MaxEdits,      \* bound: outside edits
          MaxCrashes,    \* bound: crashes of the server
          MaxOpens       \* bound: terminal opens

Opener == "terminal"     \* who opens a terminal, and who holds a free lock
Nobody == "no one"
EditKinds == {"save", "append", "rewrite", "remove"}

LogAssumption ==
    /\ IsFiniteSet(Runs)
    /\ MaxBytes \in Nat \ {0}
    /\ Bytes \in [Runs -> Nat \ {0}]
    /\ Foreign \notin Runs /\ Torn \notin Runs /\ Foreign # Torn
    /\ Opener \notin Runs /\ Nobody \notin Runs
    /\ RacingEdits \subseteq EditKinds
    /\ MaxEdits \in Nat /\ MaxCrashes \in Nat /\ MaxOpens \in Nat

VARIABLES
    nodes,     \* the files that hold or held the name, one inode each: their lines,
               \* the number of changes (mtime, ctime), and where they are
    seal,      \* run-projections/<uid>.json: the inode and change it describes
    ledger,    \* the runs whose lesson_run event is committed
    phase,     \* where each run's finish hook is
    sealed,    \* the runs in the order their line was sealed
    op,        \* the holder of the lesson's lock and where it stands
    opened,    \* what the last terminal open left on the name
    spent      \* edits, crashes and opens so far

vars == <<nodes, seal, ledger, phase, sealed, op, opened, spent>>

Lines == Runs \cup {Foreign, Torn}
Places == {"unused", "name", "aside", "replaced", "gone"}

\* A run publishes at most one new file, and so does an outside edit.
Files == 1..(Cardinality(Runs) + MaxEdits)
NoSeal == [node |-> 0, change |-> 0]

\* No one holds the lock. A holder: whose, its next call, the seal it goes by,
\* the file it opened or published, that file's size when opened, and the lines a
\* publication keeps in front of its own.
Idle == [by |-> Nobody, at |-> "idle", seal |-> NoSeal, fd |-> 0, size |-> 0, keep |-> <<>>]

TypeOK ==
    /\ nodes \in [Files -> [lines: Seq(Lines), change: Nat, at: Places]]
    /\ seal \in [node: Nat, change: Nat]
    /\ ledger \subseteq Runs
    /\ phase \in [Runs -> {"running", "finished", "recorded", "done"}]
    /\ sealed \in Seq(Runs)
    /\ op.by \in Runs \cup {Opener, Nobody}
    /\ op.at \in {"idle", "open", "write", "check", "tail", "confirm", "aside", "swap",
                  "verify", "seal", "look", "retire"}
    /\ op.seal \in [node: Nat, change: Nat]
    /\ op.by \in Runs => phase[op.by] = "recorded"
    /\ op.fd \in Files \cup {0} /\ op.size \in Nat /\ op.keep \in Seq(Lines)
    /\ opened \in {"not", "clean", "unknown"}
    /\ spent \in [edits: 0..MaxEdits, crashes: 0..MaxCrashes, opens: 0..MaxOpens]

Init ==
    /\ nodes = [n \in Files |-> [lines |-> <<>>, change |-> 0, at |-> "unused"]]
    /\ seal = NoSeal
    /\ ledger = {}
    /\ phase = [r \in Runs |-> "running"]
    /\ sealed = <<>>
    /\ op = Idle
    /\ opened = "not"
    /\ spent = [edits |-> 0, crashes |-> 0, opens |-> 0]

-----------------------------------------------------------------------------
(* Files and seals *)

LineBytes(l) == IF l \in Runs THEN Bytes[l] ELSE 1
Offsets(lines) ==   \* where each line ends, in bytes from the start of the file
    LET end[i \in 0..Len(lines)] == IF i = 0 THEN 0 ELSE end[i - 1] + LineBytes(lines[i])
    IN  end
Size(lines) == Offsets(lines)[Len(lines)]

\* file_seal: an inode at one of its changes. Any write, rename or link changes it.
SealOf(n) == [node |-> n, change |-> nodes[n].change]
SealMatches(n, s) == SealOf(n) = s

Holders == {n \in Files : nodes[n].at = "name"}
Ours(s) == {n \in Holders : SealMatches(n, s)}

\* What the name and the files become when the holder is put in another place, and
\* when a new file takes the name.
Put(place) == [n \in Files |->
    IF n \in Holders
    THEN [nodes[n] EXCEPT !.at = place, !.change = @ + 1]
    ELSE nodes[n]]
NewFile == CHOOSE n \in Files : /\ nodes[n].at = "unused"
                                /\ \A m \in Files : nodes[m].at = "unused" => n <= m
Take(place, lines) ==
    [Put(place) EXCEPT ![NewFile] = [lines |-> lines, change |-> 1, at |-> "name"]]
Written(n, lines) == [nodes EXCEPT ![n].lines = lines, ![n].change = @ + 1]

\* _retained_tail: the newest whole records that fit.
RetainedTail(lines, budget) ==
    LET fits == {k \in 0..Len(lines) :
                    Size(SubSeq(lines, Len(lines) - k + 1, Len(lines))) <= budget}
        most == CHOOSE k \in fits : \A j \in fits : j <= k
    IN  SubSeq(lines, Len(lines) - most + 1, Len(lines))

CompactBudget == (MaxBytes * 3) \div 4
\* max(0, budget - len(line)): subtraction on Nat that stops at zero.
RoomBeside(r) == IF Bytes[r] > CompactBudget THEN 0 ELSE CompactBudget - Bytes[r]

-----------------------------------------------------------------------------
(* The finish hook: _record_finish_sync *)

\* The runner reports the exit. Two runs of a lesson may be in their hooks at once:
\* the slot of a run is free again before its hook starts.
Finishes(r) ==
    /\ phase[r] = "running"
    /\ phase' = [phase EXCEPT ![r] = "finished"]
    /\ UNCHANGED <<nodes, seal, ledger, sealed, op, opened, spent>>

\* The event is committed first and is the authority. When it cannot be, the hook
\* returns and nothing is written in the bundle.
CommitsEvent(r) ==
    /\ phase[r] = "finished"
    /\ \/ /\ phase' = [phase EXCEPT ![r] = "recorded"]
          /\ ledger' = ledger \cup {r}
       \/ /\ phase' = [phase EXCEPT ![r] = "done"]
          /\ UNCHANGED ledger
    /\ UNCHANGED <<nodes, seal, sealed, op, opened, spent>>

\* A holder stops and the lock is free: it is through, or a call failed. The caller
\* of either holder swallows the failure.
Release ==
    /\ op' = Idle
    /\ phase' = IF op.by \in Runs THEN [phase EXCEPT ![op.by] = "done"] ELSE phase

\* The identity gate refuses, or the lock file cannot be opened.
NeverProjects(r) ==
    /\ phase[r] = "recorded" /\ op.by # r
    /\ phase' = [phase EXCEPT ![r] = "done"]
    /\ UNCHANGED <<nodes, seal, ledger, sealed, op, opened, spent>>

\* The lock, then _read_state: the seal, or nothing when it cannot be read.
Locks(r) ==
    /\ phase[r] = "recorded" /\ op = Idle
    /\ \E s \in {seal, NoSeal} :
         op' = [Idle EXCEPT !.by = r, !.seal = s,
                            !.at = IF s = NoSeal THEN "aside" ELSE "open"]
    /\ UNCHANGED <<nodes, seal, ledger, phase, sealed, opened, spent>>

At(pc) == op.at = pc /\ op.by \in Runs
Onward(pc) == op' = [op EXCEPT !.at = pc]

\* The bound is on the published file.
HasRoom(n, r) == Size(nodes[n].lines) + Bytes[r] <= MaxBytes

\* _append_to_sealed, up to the first byte: appended, foreign or oversize.
Opens ==
    /\ At("open")
    /\ \/ Ours(op.seal) = {} /\ Onward("aside")
       \/ \E n \in Ours(op.seal) :
            IF HasRoom(n, op.by)
            THEN op' = [op EXCEPT !.at = "write", !.fd = n, !.size = Size(nodes[n].lines)]
            ELSE Onward("tail")
    /\ UNCHANGED <<nodes, seal, ledger, phase, sealed, opened, spent>>

\* The append lands at the end of the open file, wherever that file is by now. A
\* write that breaks off raises.
Writes ==
    /\ At("write")
    /\ \/ /\ nodes' = Written(op.fd, Append(nodes[op.fd].lines, op.by))
          /\ Onward("check") /\ UNCHANGED phase
       \/ /\ nodes' = Written(op.fd, Append(nodes[op.fd].lines, Torn))
          /\ Release
    /\ UNCHANGED <<seal, ledger, sealed, opened, spent>>

\* Mutant: the size is not compared after the append.
StillLinked ==
    /\ nodes[op.fd].at \in {"name", "aside"}
    /\ Last(nodes[op.fd].lines) = op.by

\* The file is still linked and longer by exactly this record; the seal will
\* describe it as this call found it.
GrewByOne ==
    /\ nodes[op.fd].at \in {"name", "aside"}
    /\ Size(nodes[op.fd].lines) = op.size + Bytes[op.by]
    /\ Last(nodes[op.fd].lines) = op.by

Checks ==
    /\ At("check")
    /\ IF GrewByOne
       THEN op' = [op EXCEPT !.at = "seal", !.seal = SealOf(op.fd)] /\ UNCHANGED phase
       ELSE Release
    /\ UNCHANGED <<nodes, seal, ledger, sealed, opened, spent>>

\* _read_sealed_tail: the seal is checked again, the file may have been swapped.
ReadsTail ==
    /\ At("tail")
    /\ \/ Ours(op.seal) = {} /\ Onward("aside")
       \/ \E n \in Ours(op.seal) :
            op' = [op EXCEPT !.at = "confirm",
                             !.keep = RetainedTail(nodes[n].lines, RoomBeside(op.by))]
    /\ UNCHANGED <<nodes, seal, ledger, phase, sealed, opened, spent>>

\* publish with `expect`, after the long staging: the name must still hold the
\* sealed file.
Confirms ==
    /\ At("confirm")
    /\ IF Ours(op.seal) # {} THEN Onward("swap") ELSE Onward("aside")
    /\ UNCHANGED <<nodes, seal, ledger, phase, sealed, opened, spent>>

\* _restart_projection: whatever holds the name is moved aside, and a file of one
\* line is staged.
MovesAside ==
    /\ At("aside")
    /\ nodes' = Put("aside")
    /\ op' = [op EXCEPT !.at = "swap", !.keep = <<>>]
    /\ UNCHANGED <<seal, ledger, phase, sealed, opened, spent>>

Published(r) == Append(op.keep, r)

\* os.replace: the staged file takes the name from whatever holds it.
Swaps ==
    /\ At("swap")
    /\ nodes' = Take("replaced", Published(op.by))
    /\ op' = [op EXCEPT !.at = "verify", !.fd = NewFile]
    /\ UNCHANGED <<seal, ledger, phase, sealed, opened, spent>>

\* publish, after the swap: the staged file is unchanged and holds the name.
Verifies ==
    /\ At("verify")
    /\ IF op.fd \in Holders /\ nodes[op.fd].change = 1
       THEN op' = [op EXCEPT !.at = "seal", !.seal = SealOf(op.fd)] /\ UNCHANGED phase
       ELSE Release
    /\ UNCHANGED <<nodes, seal, ledger, sealed, opened, spent>>

\* _write_state: one rename in the app's own state directory.
Seals ==
    /\ At("seal")
    /\ seal' = op.seal
    /\ sealed' = Append(sealed, op.by)
    /\ Release
    /\ UNCHANGED <<nodes, ledger, opened, spent>>

-----------------------------------------------------------------------------
(* A terminal opens: retire_foreign_projection *)

Asks ==
    /\ op = Idle /\ spent.opens < MaxOpens
    /\ spent' = [spent EXCEPT !.opens = @ + 1]
    /\ op' = [Idle EXCEPT !.by = Opener, !.at = "look"]
    /\ UNCHANGED <<nodes, seal, ledger, phase, sealed, opened>>

\* The seal may be unreadable, and then nothing on the name can be verified.
Looks ==
    /\ op.by = Opener /\ op.at = "look"
    /\ \E s \in {seal, NoSeal} :
         IF Holders = Ours(s)
         THEN Release /\ opened' = "clean"
         ELSE Onward("retire") /\ UNCHANGED <<phase, opened>>
    /\ UNCHANGED <<nodes, seal, ledger, sealed, spent>>

Retires ==
    /\ op.by = Opener /\ op.at = "retire"
    /\ nodes' = Put("aside")
    /\ Release
    /\ opened' = "clean"
    /\ UNCHANGED <<seal, ledger, sealed, spent>>

-----------------------------------------------------------------------------
(* What can go wrong, and what the outside does *)

\* A call of the holder fails: no write, the staged file is removed, the seal stays.
CallFails ==
    /\ op # Idle
    /\ Release
    /\ UNCHANGED <<nodes, seal, ledger, sealed, opened, spent>>

\* The server dies: the hooks and the lock with it. The files stay.
Crashes ==
    /\ spent.crashes < MaxCrashes
    /\ spent' = [spent EXCEPT !.crashes = @ + 1]
    /\ op' = Idle
    /\ phase' = [r \in Runs |-> IF phase[r] = "running" THEN "running" ELSE "done"]
    /\ UNCHANGED <<nodes, seal, ledger, sealed, opened>>

\* An editor or a restore outside the app: a file saved over the name, the file on
\* it appended to or rewritten in place, or removed.
Edit(kind) ==
    CASE kind = "save" -> nodes' = Take("gone", <<Foreign>>)
      [] kind = "append" ->
            \E n \in Holders : nodes' = Written(n, Append(nodes[n].lines, Foreign))
      [] kind = "rewrite" -> \E n \in Holders : nodes' = Written(n, <<Foreign>>)
      [] kind = "remove" -> Holders # {} /\ nodes' = Put("gone")

Edits(kind) ==
    /\ spent.edits < MaxEdits
    /\ op = Idle \/ kind \in RacingEdits
    /\ Edit(kind)
    /\ spent' = [spent EXCEPT !.edits = @ + 1]
    /\ opened' = IF opened = "clean" THEN "unknown" ELSE opened
    /\ UNCHANGED <<seal, ledger, phase, sealed, op>>

-----------------------------------------------------------------------------
Hook == \E r \in Runs : Finishes(r) \/ CommitsEvent(r) \/ NeverProjects(r) \/ Locks(r)
Appending == Opens \/ Writes \/ Checks
Rebuild == ReadsTail \/ Confirms \/ MovesAside \/ Swaps \/ Verifies
Terminal == Asks \/ Looks \/ Retires
Outside == \E kind \in EditKinds : Edits(kind)

\* Every hook has returned and no terminal is opening: the server is at rest.
AtRest == op = Idle /\ (\A r \in Runs : phase[r] = "done") /\ UNCHANGED vars

Next == Hook \/ Appending \/ Rebuild \/ Seals \/ Terminal \/ CallFails \/ Crashes
        \/ Outside \/ AtRest

Spec == Init /\ [][Next]_vars

-----------------------------------------------------------------------------
(* Properties *)

IsEndOf(lines, history) ==
    /\ Len(lines) <= Len(history)
    /\ \A i \in DOMAIN lines : lines[i] = history[Len(history) - Len(lines) + i]

Trusted == UNION {{nodes[n].lines : n \in Ours(seal)}}

\* A file the seal vouches for tells the newest part of the history and nothing
\* else: the last runs sealed, in the order they were sealed, none missing, none
\* twice, no outside or torn line, whatever was edited, swapped, cut short by a
\* crash or compacted in between.
SealedTellsHistory ==
    \A lines \in Trusted : lines # <<>> /\ IsEndOf(lines, sealed)

\* The bound is on the published file, also in the middle of a compaction: a file
\* the seal vouches for is within it, or is one record that alone exceeds it.
WithinBound ==
    \A lines \in Trusted : Size(lines) <= MaxBytes \/ Len(lines) = 1

\* The event is committed before any work on the file: every record in any file,
\* moved aside or replaced ones too, has its event.
LedgerFirst ==
    \A n \in Files : \A i \in DOMAIN nodes[n].lines :
        nodes[n].lines[i] \in Runs => nodes[n].lines[i] \in ledger

\* After a terminal opened, and until somebody outside touches the directory, the
\* session finds only lines the app wrote (one of them may be torn).
SessionReadsOurs ==
    opened = "clean" =>
        \A n \in Holders : \A i \in DOMAIN nodes[n].lines : nodes[n].lines[i] # Foreign
=============================================================================
