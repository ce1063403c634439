---------------------------- MODULE RecoveryProofs ----------------------------
(***************************************************************************)
(* Proofs about what must survive, for every value of the constants:       *)
(* exports that are being served, the instance that a restore replaces,    *)
(* backup sets and deliveries.  MCRecovery lets a behaviour be of one      *)
(* component; each has an inductive invariant of its own, and the theorems *)
(* are about the behaviours of its scene.                                  *)
(***************************************************************************)
EXTENDS MCRecovery, FiniteSets, Sequences, TLAPS, FiniteSetTheorems

-----------------------------------------------------------------------------
(* Retention and the exports that are being served.  The age of a file      *)
(* stands for "its request is over": that is what Fresh and Owned make      *)
(* precise.  The variables of Export, as the scenes hold them:              *)
files    == v1
temp     == v2
at       == v3
name     == v4
written  == v5
doomed   == v6
clock    == v7
stepped  == v8
USE DEF files, temp, at, name, written, doomed, clock, stepped

Authors  == Processes \cup {Send!NoName}
Stations == {"new", "reading", "linking", "listing", "pruning", "sending",
             "sent", "failed"}

ExportTypes ==
    /\ files \in [Send!Names -> [by : Authors, mtime : Nat]]
    /\ at \in [Processes -> Stations]
    /\ name \in [Processes -> (0..Clock) \X Nat]
    /\ written \in [Processes -> Nat]
    /\ doomed \in [Processes -> SUBSET [name : Send!Names, by : Authors]]
    /\ clock \in 1..Clock

(* A request whose file is written and not yet sent wrote it within the    *)
(* grace.                                                                  *)
Fresh ==
    \A r \in Processes :
        at[r] = "linking" \/ r \in Send!Serving => clock - written[r] < Grace

(* A file that a request wrote stands under the name it claimed, with the  *)
(* time of its last write.                                                 *)
Owned ==
    \A f \in Send!Names : files[f].by \in Processes =>
        LET r == files[f].by
        IN  /\ r \in Send!Serving \/ at[r] = "sent"
            /\ name[r] = f /\ files[f].mtime = written[r]

(* A request that has linked its file knows a name that can stand.         *)
Linked == \A r \in Send!Serving : name[r] \in Send!Names

(* Whatever a pass has decided to remove had been sent when it decided.    *)
OldNews == \A p \in Processes : \A d \in doomed[p] : d.by \in Processes => at[d.by] = "sent"

ExportInv == ExportTypes /\ Fresh /\ Owned /\ Linked /\ OldNews

-----------------------------------------------------------------------------
(* An instance sees the library's operators under its own name.             *)
LEMMA SameSets ==
    ASSUME NEW S
    PROVE  /\ Send!Cardinality(S) = Cardinality(S) /\ Put!Cardinality(S) = Cardinality(S)
           /\ Send!IsFiniteSet(S) <=> IsFiniteSet(S)
  <1>1. Send!Cardinality(S) = Cardinality(S)
    BY DEF Send!Cardinality, Cardinality
  <1>2. Put!Cardinality(S) = Cardinality(S)
    BY DEF Put!Cardinality, Cardinality
  <1>3. Send!IsFiniteSet(S) <=> IsFiniteSet(S)
    BY DEF Send!IsFiniteSet, IsFiniteSet
  <1> QED
    BY <1>1, <1>2, <1>3

(* The parts of the state space.                                            *)
LEMMA NamesAre ==
    ASSUME Send!ExportAssumption
    PROVE  /\ Cardinality(Processes) \in Nat
           /\ \A t \in 0..Clock, n \in 1..(Cardinality(Processes) + 1) : <<t, n>> \in Send!Names
           /\ Send!NoExport \in [by : Authors, mtime : Nat]
           /\ Send!NoName \in (0..Clock) \X Nat
  <1>1. Cardinality(Processes) \in Nat
    BY FS_CardinalityType, SameSets DEF Send!ExportAssumption
  <1> QED
    BY <1>1, SameSets DEF Send!Names, Send!NoExport, Send!NoName, Authors, Send!ExportAssumption

(* Init: no request has written or decided anything.                        *)
LEMMA ExportStarts == ASSUME Send!ExportAssumption, Send!Init PROVE ExportInv
  <1>1. ExportTypes
    <2>1. files \in [Send!Names -> [by : Authors, mtime : Nat]]
      BY NamesAre DEF Send!Init, Send!Earlier, Send!NoExport, Authors
    <2> QED
      BY <2>1, NamesAre DEF Send!Init, ExportTypes, Stations, Send!ExportAssumption
  <1>2. Owned
    BY DEF Send!Init, Owned, Send!Earlier, Send!NoExport, Send!NoName, Send!ExportAssumption
  <1>3. Fresh /\ Linked /\ OldNews
    BY DEF Send!Init, Fresh, Linked, OldNews, Send!Serving
  <1> QED
    BY <1>1, <1>2, <1>3 DEF ExportInv

(* A file that a pass may remove was written by nobody here, or sent.       *)
LEMMA DoomedIsSent ==
    ASSUME Send!ExportAssumption, ExportInv, NEW f \in Send!Existing, ~Send!InFlight(f), files[f].by \in Processes
    PROVE  at[files[f].by] = "sent"
  <1> DEFINE q == files[f].by
  <1>1. (q \in Send!Serving \/ at[q] = "sent") /\ files[f].mtime = written[q]
    BY DEF ExportInv, Owned, Send!Existing
  <1>2. ~(clock - written[q] < Grace)
    BY <1>1 DEF Send!InFlight
  <1>3. q \notin Send!Serving
    BY <1>2 DEF ExportInv, Fresh
  <1> QED
    BY <1>1, <1>3

(* The name a request claims is free, and no file of its own stands yet.    *)
LEMMA ClaimIsFree ==
    ASSUME Send!ExportAssumption, ExportInv, NEW r \in Processes, Send!Link(r)
    PROVE  \E f \in Send!Names :
             /\ files[f] = Send!NoExport /\ name' = [name EXCEPT ![r] = f]
             /\ files' = [files EXCEPT ![f] = [by |-> r, mtime |-> written[r]]]
             /\ f \in (0..Clock) \X Nat
  <1>1. PICK n \in 1..(Cardinality(Processes) + 1) :
          LET f == <<name[r][1], n>>
          IN  /\ f \notin Send!Existing
              /\ name' = [name EXCEPT ![r] = f]
              /\ files' = [files EXCEPT ![f] = [by |-> r, mtime |-> written[r]]]
    BY SameSets DEF Send!Link
  <1>2. name[r][1] \in 0..Clock
    BY DEF ExportInv, ExportTypes
  <1>3. n \in Nat /\ <<name[r][1], n>> \in Send!Names
    BY <1>2, NamesAre
  <1> QED
    BY <1>1, <1>2, <1>3 DEF Send!Existing

(* What the steps that leave the directory alone keep.                      *)
LEMMA UnlinkedKeeps ==
    ASSUME ExportInv, NEW r \in Processes, UNCHANGED <<files, doomed>>,
           name' \in [Processes -> (0..Clock) \X Nat], written' \in [Processes -> Nat],
           at' \in [Processes -> Stations], at[r] \notin {"listing", "pruning", "sending", "sent"},
           at'[r] \notin {"listing", "pruning", "sending", "sent"}, clock' = clock,
           \A q \in Processes \ {r} : /\ at'[q] = at[q] /\ name'[q] = name[q]
                                      /\ written'[q] = written[q],
           at'[r] = "linking" => clock - written'[r] < Grace
    PROVE  ExportInv'
  <1>1. ExportTypes' /\ Fresh' /\ Linked'
    BY DEF ExportInv, ExportTypes, Fresh, Linked, Send!Serving
  <1>2. Owned'
    <2> SUFFICES ASSUME NEW f \in Send!Names, files[f].by \in Processes
                 PROVE  LET q == files[f].by
                        IN  /\ q \in Send!Serving' \/ at'[q] = "sent"
                            /\ name'[q] = f /\ files[f].mtime = written'[q]
      BY DEF Owned
    <2> QED
      BY DEF ExportInv, Owned, Send!Serving
  <1>3. OldNews'
    BY DEF ExportInv, OldNews, ExportTypes
  <1> QED
    BY <1>1, <1>2, <1>3 DEF ExportInv

(* IInv is inductive. *)
LEMMA ExportContinues == ASSUME Send!ExportAssumption, ExportInv, [Send!Next]_Send!vars PROVE ExportInv'
  <1>1. CASE UNCHANGED Send!vars
    BY <1>1 DEF Send!vars, ExportInv, ExportTypes, Fresh, Owned, Linked, OldNews, Send!Serving
  <1>2. CASE Send!Tick
    <2>1. clock' \in 1..Clock
      BY <1>2 DEF Send!Tick, ExportInv, ExportTypes, Send!ExportAssumption
    <2>2. ExportTypes'
      BY <1>2, <2>1 DEF Send!Tick, ExportInv, ExportTypes
    <2>3. Fresh'
      BY <1>2, <2>1 DEF Send!Tick, ExportInv, ExportTypes, Fresh, Send!Serving, Send!ExportAssumption
    <2>4. Owned' /\ Linked' /\ OldNews'
      BY <1>2 DEF Send!Tick, ExportInv, Owned, Linked, OldNews, Send!Serving
    <2> QED
      BY <2>2, <2>3, <2>4 DEF ExportInv
  <1>3. CASE Send!StepBack
    <2>1. clock' \in 1..Clock
      BY <1>3 DEF Send!StepBack, ExportInv, ExportTypes, Send!ExportAssumption
    <2>2. ExportTypes'
      BY <1>3, <2>1 DEF Send!StepBack, ExportInv, ExportTypes
    <2>3. Fresh'
      BY <1>3, <2>1 DEF Send!StepBack, ExportInv, ExportTypes, Fresh, Send!Serving, Send!ExportAssumption
    <2>4. Owned' /\ Linked' /\ OldNews'
      BY <1>3 DEF Send!StepBack, ExportInv, Owned, Linked, OldNews, Send!Serving
    <2> QED
      BY <2>2, <2>3, <2>4 DEF ExportInv
  <1>4. ASSUME NEW r \in Processes, Send!Stage(r) PROVE ExportInv'
    <2>1. Send!Stamp \in 0..Clock
      BY DEF Send!Stamp, ExportInv, ExportTypes, Send!ExportAssumption
    <2>2. name' \in [Processes -> (0..Clock) \X Nat]
      BY <1>4, <2>1 DEF Send!Stage, ExportInv, ExportTypes
    <2> QED
      BY <1>4, <2>2, UnlinkedKeeps DEF Send!Stage, Send!Goto, ExportInv, ExportTypes, Stations
  <1>5. ASSUME NEW r \in Processes, Send!Read(r) PROVE ExportInv'
    <2>1. clock \in Nat /\ clock - clock < Grace
      BY DEF ExportInv, ExportTypes, Send!ExportAssumption
    <2> QED
      BY <1>5, <2>1, UnlinkedKeeps DEF Send!Read, Send!Goto, ExportInv, ExportTypes, Stations
  <1>6. ASSUME NEW r \in Processes, Send!Fail(r) PROVE ExportInv'
    BY <1>6, UnlinkedKeeps DEF Send!Fail, Send!Goto, ExportInv, ExportTypes, Stations
  <1>7. ASSUME NEW r \in Processes, Send!Link(r) PROVE ExportInv'
    <2>1. PICK f \in Send!Names :
            /\ files[f] = Send!NoExport /\ name' = [name EXCEPT ![r] = f]
            /\ files' = [files EXCEPT ![f] = [by |-> r, mtime |-> written[r]]]
            /\ f \in (0..Clock) \X Nat
      BY <1>7, ClaimIsFree
    <2>2. /\ at[r] = "linking" /\ at' = [at EXCEPT ![r] = "listing"]
          /\ UNCHANGED <<written, doomed, clock>>
      BY <1>7 DEF Send!Link, Send!Goto
    <2>3. ExportTypes'
      BY <2>1, <2>2 DEF ExportInv, ExportTypes, Stations, Authors
    <2>4. Fresh' /\ Linked' /\ OldNews'
      BY <2>1, <2>2 DEF ExportInv, ExportTypes, Fresh, Linked, OldNews, Send!Serving
    <2>5. Owned'
      <3> SUFFICES ASSUME NEW g \in Send!Names, files'[g].by \in Processes
                   PROVE  LET q == files'[g].by
                          IN  /\ q \in Send!Serving' \/ at'[q] = "sent"
                              /\ name'[q] = g /\ files'[g].mtime = written'[q]
        BY DEF Owned
      <3>1. CASE g = f
        BY <2>1, <2>2, <3>1 DEF ExportInv, ExportTypes, Send!Serving
      <3>2. CASE g # f
        <4>1. files'[g] = files[g]
          BY <2>1, <3>2 DEF ExportInv, ExportTypes
        <4>2. files[g].by # r
          BY <2>2, <4>1 DEF ExportInv, Owned, Send!Serving
        <4> QED
          BY <2>1, <2>2, <4>1, <4>2 DEF ExportInv, ExportTypes, Owned, Send!Serving
      <3> QED
        BY <3>1, <3>2
    <2> QED
      BY <2>3, <2>4, <2>5 DEF ExportInv
  <1>8. ASSUME NEW r \in Processes, Send!Decide(r) PROVE ExportInv'
    <2> DEFINE Gone == {[name |-> f, by |-> files[f].by] :
                          f \in {g \in Send!Surplus(name[r]) : ~Send!InFlight(g)}}
    <2>1. /\ at[r] = "listing" /\ at' = [at EXCEPT ![r] = "pruning"]
          /\ doomed' = [doomed EXCEPT ![r] = Gone]
          /\ UNCHANGED <<files, name, written, clock>>
      BY <1>8 DEF Send!Decide, Send!Goto
    <2>2. \A f \in Send!Surplus(name[r]) : f \in Send!Existing
      BY DEF Send!Surplus
    <2>3. \A f \in Send!Existing : f \in Send!Names /\ files[f].by \in Authors
      BY DEF Send!Existing, ExportInv, ExportTypes
    <2> HIDE DEF Gone
    <2>4. Gone \in SUBSET [name : Send!Names, by : Authors]
      BY <2>2, <2>3 DEF Gone
    <2>5. \A d \in Gone : d.by \in Processes => at[d.by] = "sent"
      BY <2>2, DoomedIsSent DEF Gone
    <2>6. ExportTypes'
      BY <2>1, <2>4 DEF ExportInv, ExportTypes, Stations
    <2>7. Fresh' /\ Linked' /\ Owned'
      BY <2>1 DEF ExportInv, ExportTypes, Fresh, Linked, Owned, Send!Serving
    <2>8. OldNews'
      BY <2>1, <2>5 DEF ExportInv, ExportTypes, OldNews
    <2> QED
      BY <2>6, <2>7, <2>8 DEF ExportInv
  <1>9. ASSUME NEW r \in Processes, Send!Remove(r) PROVE ExportInv'
    <2>1. PICK d \in doomed[r] :
            /\ doomed' = [doomed EXCEPT ![r] = @ \ {d}]
            /\ files' \in {files, [files EXCEPT ![d.name] = Send!NoExport]}
            /\ UNCHANGED <<at, name, written, clock>>
      BY <1>9 DEF Send!Remove
    <2>2. ExportTypes'
      BY <2>1, NamesAre DEF ExportInv, ExportTypes
    <2>3. Fresh' /\ Linked' /\ OldNews'
      BY <2>1 DEF ExportInv, ExportTypes, Fresh, Linked, OldNews, Send!Serving
    <2>4. Owned'
      <3>1. \A g \in Send!Names : files'[g] = files[g] \/ files'[g].by \notin Processes
        <4>1. Send!NoExport.by \notin Processes
          BY DEF Send!NoExport, Send!NoName, Send!ExportAssumption
        <4>2. CASE files' = [files EXCEPT ![d.name] = Send!NoExport]
          BY <4>1, <4>2 DEF ExportInv, ExportTypes
        <4> QED
          BY <2>1, <4>2
      <3> QED
        BY <2>1, <3>1 DEF ExportInv, Owned, Send!Serving
    <2> QED
      BY <2>2, <2>3, <2>4 DEF ExportInv
  <1>10. ASSUME NEW r \in Processes, Send!Respond(r) \/ Send!Sent(r) PROVE ExportInv'
    BY <1>10 DEF Send!Respond, Send!Sent, Send!Goto, ExportInv, ExportTypes, Stations, Fresh, Owned, Linked, OldNews, Send!Serving
  <1> QED
    BY <1>1, <1>2, <1>3, <1>4, <1>5, <1>6, <1>7, <1>8, <1>9, <1>10 DEF Send!Next

-----------------------------------------------------------------------------
(* What retention may do in one step.                                       *)
LEMMA SparesTheServed == ASSUME Send!ExportAssumption, ExportInv, [Send!Next]_Send!vars PROVE Send!StepSent
  <1> SUFFICES ASSUME NEW s \in Send!Serving, files[name[s]].by = s, files'[name[s]].by # s
               PROVE  \E p \in Processes : \E d \in doomed[p] : d.name = name[s] /\ d.by # s
    BY DEF Send!StepSent
  <1>1. s \in Processes /\ name[s] \in Send!Names /\ at[s] # "sent"
    BY DEF ExportInv, Linked, Send!Serving
  <1>2. ASSUME NEW r \in Processes, Send!Link(r) PROVE FALSE
    <2>1. PICK f \in Send!Names :
            /\ files[f] = Send!NoExport
            /\ files' = [files EXCEPT ![f] = [by |-> r, mtime |-> written[r]]]
      BY <1>2, ClaimIsFree
    <2>2. f # name[s]
      BY <1>1, <2>1 DEF Send!NoExport, Send!NoName, Send!ExportAssumption
    <2> QED
      BY <1>1, <2>1, <2>2 DEF ExportInv, ExportTypes
  <1>3. CASE \E r \in Processes : Send!Remove(r)
    <2> PICK r \in Processes : Send!Remove(r)
      BY <1>3
    <2>1. PICK d \in doomed[r] : files' \in {files, [files EXCEPT ![d.name] = Send!NoExport]}
      BY DEF Send!Remove
    <2>2. d.name = name[s]
      BY <1>1, <2>1 DEF ExportInv, ExportTypes
    <2>3. d.by # s
      BY <1>1 DEF ExportInv, OldNews
    <2> QED
      BY <2>2, <2>3
  <1>4. UNCHANGED files \/ (\E r \in Processes : Send!Link(r) \/ Send!Remove(r))
    BY DEF Send!Next, Send!vars, Send!Tick, Send!StepBack, Send!Stage, Send!Read, Send!Decide, Send!Respond, Send!Sent, Send!Fail
  <1> QED
    BY <1>2, <1>3, <1>4

LEMMA ExportScene ==
    ASSUME [SceneNext]_all, scene' = "export"
    PROVE  scene = "export" /\ [Send!Next]_Send!vars
  BY DEF SceneNext, all, state, Send!vars

(* However many requests overlap, whatever Keep and the grace are, and if   *)
(* the clock or the zone is set back: prune_exports takes the file of a     *)
(* request that has yet to send it only on a decision another pass has      *)
(* outdated in the meantime.                                                *)
THEOREM RetentionSparesTheServed == SceneSpec => ExportsArrive
  <1> DEFINE Inv == scene = "export" => ExportInv
  <1>1. SceneInit => Inv
    BY ExportStarts, RecoveryAssumption DEF SceneInit
  <1>2. Inv /\ [SceneNext]_all => Inv'
    BY ExportScene, ExportContinues, RecoveryAssumption
  <1>3. Inv /\ [SceneNext]_all => [scene = "export" => Send!StepSent]_all
    <2>1. SUFFICES ASSUME Inv, [SceneNext]_all, scene = "export", scene' = "export"
                   PROVE  Send!StepSent
      BY DEF SceneNext, all
    <2> QED
      BY <2>1, ExportScene, SparesTheServed, RecoveryAssumption
  <1> QED
    BY <1>1, <1>2, <1>3, PTL DEF SceneSpec, ExportsArrive

-----------------------------------------------------------------------------
(* Restoring a backup.  What an entry of the directory is depends on how    *)
(* far the attempt has come with it; the names an entry has been set aside  *)
(* under are the first ones, and the last of them is what the attempt under *)
(* way has moved.  The variables of Restore, as the scenes hold them:       *)
members   == v1
carried   == v2
target    == v3
aside     == v4
staging   == v5
scrap     == v6
phase     == v7
try       == v8
displaced == v9
moved     == v10
installed == v11
found     == v12
original  == v13
USE DEF members, carried, target, aside, staging, scrap, phase, try, displaced, moved,
        installed, found, original

Swapping == phase \in {"moving", "undoing"}
Active   == phase \in {"extracting", "copying", "moving", "undoing"}

RestoreTypes ==
    /\ carried \in SUBSET Places
    /\ target \in [Places -> Put!Origin] /\ found \in [Places -> Put!Origin]
    /\ original \in [Places -> Put!Origin]
    /\ aside \in [Places -> [Put!Tries -> Put!Origin]]
    /\ moved \in [Places -> 0 .. MaxAttempts] /\ try \in 0 .. MaxAttempts /\ scrap \in Nat
    /\ phase \in Put!Idle \cup {"extracting", "copying", "moving", "undoing"}

\* The first u aside names of n are taken, and the attempt under way has one to spare.
Stacked(n, u) ==
    /\ \A k \in Put!Tries : aside[n][k] # "none" <=> k <= u
    /\ Active => IF moved[n] = 0 THEN u < try ELSE u = moved[n]

\* Where the attempt under way stands with an entry.
EntryOK(n) ==
    /\ n \in displaced => /\ moved[n] = 0 /\ n \notin installed
                          /\ target[n] = found[n] /\ found[n] # "none"
    /\ n \in installed => target[n] = "set" /\ (found[n] # "none" => moved[n] # 0)
    /\ moved[n] # 0 => aside[n][moved[n]] = found[n] /\ found[n] # "none"
    /\ n \notin displaced /\ n \notin installed =>
         target[n] = IF moved[n] = 0 THEN found[n] ELSE "none"
    /\ n \notin displaced /\ phase = "moving" /\ moved[n] = 0 => found[n] = "none"

AttemptOK ==
    /\ phase \in {"extracting", "copying"} =>
         /\ target = found /\ displaced = Put!Occupied(target) /\ installed = {}
         /\ \A n \in Places : moved[n] = 0
         /\ phase = "copying" => staging = carried
    /\ Swapping => (\A n \in Places : EntryOK(n)) /\ (displaced = {} \/ installed = {})
    /\ phase = "moving" => /\ staging \cup installed = Put!Contents
                           /\ staging \cap installed = {}
    /\ Put!AllOrNothing

\* An entry the directory had at first is in one place.
Kept(n) ==
    original[n] = "before" =>
      \/ /\ target[n] = "before"
         /\ \A k \in Put!Tries : aside[n][k] # "before"
      \/ /\ target[n] # "before"
         /\ \E k \in Put!Tries : /\ aside[n][k] = "before"
                                 /\ \A j \in Put!Tries : aside[n][j] = "before" => j = k

NeverMixed ==
    /\ Put!NoHybrid
    /\ Active /\ scrap = 0 => found = original \/ \A n \in Places : found[n] # "before"

RestoreInv ==
    /\ RestoreTypes /\ AttemptOK /\ NeverMixed
    /\ \A n \in Places : Kept(n) /\ \E u \in 0 .. try : Stacked(n, u)

(* The first free name is the one after those that are taken.               *)
LEMMA NextAside ==
    ASSUME Put!RestoreAssumption, RestoreTypes, NEW n \in Places, NEW u \in Nat,
           \A k \in Put!Tries : aside[n][k] # "none" <=> k <= u, u < MaxAttempts
    PROVE  Put!FreeAside(n) = u + 1 /\ u + 1 \in Put!Tries
  <1>1. MaxAttempts \in Nat
    BY DEF Put!RestoreAssumption
  <1>2. /\ u + 1 \in Put!Tries /\ ~(u + 1 <= u)
        /\ \A j \in 1 .. ((u + 1) - 1) : j \in Put!Tries /\ j <= u
    BY <1>1 DEF Put!Tries
  <1>3. aside[n][u + 1] = "none" /\ \A j \in 1 .. ((u + 1) - 1) : aside[n][j] # "none"
    BY <1>2
  <1>4. ASSUME NEW k \in Put!Tries, aside[n][k] = "none",
               \A j \in 1 .. (k - 1) : aside[n][j] # "none"
        PROVE  k = u + 1
    <2>1. k \in Nat /\ ~(k <= u)
      BY <1>4 DEF Put!Tries
    <2>2. u + 1 \in 1 .. (k - 1) \/ k = u + 1
      BY <2>1
    <2> QED
      BY <1>3, <1>4, <2>2
  <1> QED
    BY <1>2, <1>3, <1>4 DEF Put!FreeAside


(* An attempt begins with the directory as it is and nothing moved.          *)
LEMMA RestoreBegins ==
    ASSUME Put!RestoreAssumption, RestoreInv, NEW force \in BOOLEAN, Put!Begin(force)
    PROVE  RestoreInv'
  <1>1. /\ phase \in Put!Idle /\ try < MaxAttempts /\ try' = try + 1
        /\ found' = target /\ displaced' = Put!Occupied(target) /\ installed' = {}
        /\ moved' = [n \in Places |-> 0]
        /\ phase' \in {"failed", "refused", "extracting"}
        /\ UNCHANGED <<carried, target, aside, scrap, original>>
    BY DEF Put!Begin
  <1>2. RestoreTypes'
    BY <1>1 DEF RestoreInv, RestoreTypes, Put!RestoreAssumption, Put!Idle
  <1>3. Put!Occupied(target)' = Put!Occupied(target)
    BY <1>1 DEF Put!Occupied
  <1>4. AttemptOK'
    BY <1>1, <1>3 DEF AttemptOK, Swapping, Put!AllOrNothing
  <1>5. NeverMixed'
    BY <1>1 DEF RestoreInv, NeverMixed, Put!NoHybrid, Active, Put!Idle
  <1>6. ASSUME NEW n \in Places PROVE Kept(n)' /\ \E u \in (0 .. try)' : Stacked(n, u)'
    <2>1. PICK u \in 0 .. try : Stacked(n, u)
      BY DEF RestoreInv
    <2>2. u \in (0 .. try)' /\ u < try'
      BY <1>1 DEF RestoreInv, RestoreTypes
    <2>3. Stacked(n, u)'
      BY <1>1, <2>1, <2>2 DEF Stacked
    <2>4. Kept(n)'
      BY <1>1 DEF RestoreInv, Kept
    <2> QED
      BY <2>2, <2>3, <2>4
  <1> QED
    BY <1>2, <1>4, <1>5, <1>6 DEF RestoreInv

(* What a step that moves no entry keeps.                                   *)
LEMMA NothingMoves ==
    ASSUME RestoreInv, UNCHANGED <<target, aside, try, moved, original>>, Active' => Active
    PROVE  \A n \in Places : Kept(n)' /\ \E u \in (0 .. try)' : Stacked(n, u)'
  <1> SUFFICES ASSUME NEW n \in Places
               PROVE  Kept(n)' /\ \E u \in (0 .. try)' : Stacked(n, u)'
    OBVIOUS
  <1>1. PICK u \in 0 .. try : Stacked(n, u)
    BY DEF RestoreInv
  <1>2. Stacked(n, u)' /\ u \in (0 .. try)'
    BY <1>1 DEF Stacked
  <1>3. Kept(n)'
    BY DEF RestoreInv, Kept
  <1> QED
    BY <1>2, <1>3

(* The steps of an attempt that move no entry, and what goes on beside it.  *)
LEMMA RestoreRests ==
    ASSUME RestoreInv,
           \/ Put!Extract \/ Put!Copy \/ Put!FailEarly \/ Put!Finish \/ Put!FailSwap
           \/ Put!Undone \/ Put!Kill \/ Put!Retention \/ UNCHANGED Put!vars
    PROVE  RestoreInv'
  <1> USE DEF RestoreInv
  <1>1. CASE Put!Extract
    <2>1. /\ phase = "extracting" /\ phase' = "copying" /\ staging' = carried
          /\ UNCHANGED <<carried, target, aside, scrap, try, displaced, moved, installed,
                         found, original>>
      BY <1>1 DEF Put!Extract
    <2>2. RestoreTypes'
      BY <2>1 DEF RestoreTypes
    <2>3. AttemptOK'
      BY <2>1 DEF AttemptOK, Swapping, Put!AllOrNothing, Put!Occupied
    <2>4. NeverMixed'
      BY <2>1 DEF NeverMixed, Put!NoHybrid, Active
    <2> QED
      BY <2>1, <2>2, <2>3, <2>4, NothingMoves DEF Active
  <1>2. CASE Put!Copy
    <2>1. /\ phase = "copying" /\ phase' = "moving" /\ staging' = staging \cup {Database}
          /\ UNCHANGED <<carried, target, aside, scrap, try, displaced, moved, installed,
                         found, original>>
      BY <1>2 DEF Put!Copy
    <2>2. RestoreTypes'
      BY <2>1 DEF RestoreTypes
    <2>3. ASSUME NEW n \in Places PROVE EntryOK(n)'
      <3>1. /\ target = found /\ displaced = Put!Occupied(target) /\ installed = {}
            /\ moved[n] = 0
        BY <2>1 DEF AttemptOK
      <3> QED
        BY <2>1, <3>1 DEF EntryOK, Put!Occupied
    <2>4. AttemptOK'
      <3>1. installed = {} /\ staging = carried
        BY <2>1 DEF AttemptOK
      <3> QED
        BY <2>1, <2>3, <3>1 DEF AttemptOK, Swapping, Put!AllOrNothing, Put!Contents
    <2>5. NeverMixed'
      BY <2>1 DEF NeverMixed, Put!NoHybrid, Active
    <2> QED
      BY <2>1, <2>2, <2>4, <2>5, NothingMoves DEF Active
  <1>3. CASE Put!FailEarly
    <2>1. /\ phase \in {"extracting", "copying"} /\ phase' = "failed"
          /\ UNCHANGED <<carried, target, aside, scrap, try, displaced, moved, installed,
                         found, original>>
      BY <1>3 DEF Put!FailEarly
    <2>2. RestoreTypes'
      BY <2>1 DEF RestoreTypes, Put!Idle
    <2>3. AttemptOK'
      BY <2>1 DEF AttemptOK, Swapping, Put!AllOrNothing
    <2>4. NeverMixed'
      BY <2>1 DEF NeverMixed, Put!NoHybrid, Active
    <2> QED
      BY <2>1, <2>2, <2>3, <2>4, NothingMoves DEF Active
  <1>4. CASE Put!Finish
    <2>1. /\ phase = "moving" /\ displaced = {} /\ staging = {}
          /\ phase' \in {"restored", "unsynced"}
          /\ UNCHANGED <<carried, target, aside, scrap, try, displaced, moved, installed,
                         found, original>>
      BY <1>4 DEF Put!Finish
    <2>2. RestoreTypes'
      BY <2>1 DEF RestoreTypes, Put!Idle
    <2>3. installed = Put!Contents
      BY <2>1 DEF AttemptOK
    <2>4. \A n \in Places : target[n] = IF n \in Put!Contents THEN "set" ELSE "none"
      <3> SUFFICES ASSUME NEW n \in Places
                   PROVE  target[n] = IF n \in Put!Contents THEN "set" ELSE "none"
        OBVIOUS
      <3>1. EntryOK(n)
        BY <2>1 DEF AttemptOK, Swapping
      <3> QED
        BY <2>1, <2>3, <3>1 DEF EntryOK
    <2>5. target = [n \in Places |-> IF n \in Put!Contents THEN "set" ELSE "none"]
      BY <2>4 DEF RestoreTypes
    <2>6. AttemptOK'
      BY <2>1, <2>5 DEF AttemptOK, Swapping, Put!AllOrNothing, Put!Contents
    <2>7. NeverMixed'
      BY <2>1, <2>4 DEF NeverMixed, Put!NoHybrid, Active
    <2> QED
      BY <2>1, <2>2, <2>6, <2>7, NothingMoves DEF Active
  <1>5. CASE Put!FailSwap
    <2>1. /\ phase = "moving" /\ phase' = "undoing"
          /\ UNCHANGED <<carried, target, aside, scrap, try, displaced, moved, installed,
                         found, original>>
      BY <1>5 DEF Put!FailSwap
    <2>2. RestoreTypes'
      BY <2>1 DEF RestoreTypes
    <2>3. AttemptOK'
      BY <2>1 DEF AttemptOK, Swapping, EntryOK, Put!AllOrNothing
    <2>4. NeverMixed'
      BY <2>1 DEF NeverMixed, Put!NoHybrid, Active
    <2> QED
      BY <2>1, <2>2, <2>3, <2>4, NothingMoves DEF Active
  <1>6. CASE Put!Undone
    <2>1. /\ phase = "undoing" /\ installed = {} /\ phase' = "failed"
          /\ \A n \in Places : moved[n] = 0
          /\ UNCHANGED <<carried, target, aside, scrap, try, displaced, moved, installed,
                         found, original>>
      BY <1>6 DEF Put!Undone
    <2>2. RestoreTypes'
      BY <2>1 DEF RestoreTypes, Put!Idle
    <2>3. \A n \in Places : target[n] = found[n]
      BY <2>1 DEF AttemptOK, Swapping, EntryOK
    <2>4. target = found
      BY <2>3 DEF RestoreTypes
    <2>5. AttemptOK'
      BY <2>1, <2>4 DEF AttemptOK, Swapping, Put!AllOrNothing
    <2>6. NeverMixed'
      BY <2>1, <2>4 DEF NeverMixed, Put!NoHybrid, Active
    <2> QED
      BY <2>1, <2>2, <2>5, <2>6, NothingMoves DEF Active
  <1>7. CASE Put!Kill
    <2>1. /\ phase' = "idle" /\ scrap' = scrap + 1
          /\ UNCHANGED <<carried, target, aside, try, displaced, moved, installed,
                         found, original>>
      BY <1>7 DEF Put!Kill
    <2>2. RestoreTypes' /\ scrap' # 0
      BY <2>1 DEF RestoreTypes, Put!Idle
    <2>3. AttemptOK' /\ NeverMixed'
      BY <2>1, <2>2 DEF AttemptOK, Swapping, Put!AllOrNothing, NeverMixed, Put!NoHybrid, Active
    <2> QED
      BY <2>1, <2>2, <2>3, NothingMoves DEF Active
  <1>8. CASE Put!Retention \/ UNCHANGED Put!vars
    <2>1. UNCHANGED <<carried, target, aside, staging, scrap, phase, try, displaced, moved,
                      installed, found, original>>
      BY <1>8 DEF Put!Retention, Put!vars
    <2>2. RestoreTypes'
      BY <2>1 DEF RestoreTypes
    <2>3. AttemptOK'
      BY <2>1 DEF AttemptOK, Swapping, EntryOK, Put!AllOrNothing, Put!Occupied, Put!Contents
    <2>4. NeverMixed'
      BY <2>1 DEF NeverMixed, Put!NoHybrid, Active
    <2> QED
      BY <2>1, <2>2, <2>3, <2>4, NothingMoves DEF Active
  <1> QED
    BY <1>1, <1>2, <1>3, <1>4, <1>5, <1>6, <1>7, <1>8

(* Where every entry stands while a swap is under way or being undone.      *)
LEMMA MidSwap ==
    ASSUME RestoreInv, Swapping, NEW n \in Places
    PROVE  /\ EntryOK(n) /\ Kept(n) /\ (displaced = {} \/ installed = {})
           /\ target[n] \in Put!Origin /\ found[n] \in Put!Origin
           /\ moved[n] \in 0 .. MaxAttempts /\ try \in 0 .. MaxAttempts
           /\ aside[n] \in [Put!Tries -> Put!Origin]
           /\ \E u \in 0 .. try : /\ \A k \in Put!Tries : aside[n][k] # "none" <=> k <= u
                                  /\ IF moved[n] = 0 THEN u < try ELSE u = moved[n]
  BY DEF RestoreInv, RestoreTypes, AttemptOK, Swapping, Stacked, Active

(* A step of a swap leaves the outcome to be told when it is over.          *)
LEMMA SwapGoesOn ==
    ASSUME RestoreInv, Swapping, UNCHANGED <<scrap, phase, found, original>>
    PROVE  Put!AllOrNothing' /\ NeverMixed' /\ Swapping' /\ (phase' = phase)
  BY DEF RestoreInv, Swapping, Put!AllOrNothing, NeverMixed, Put!NoHybrid, Active

(* An entry moves aside, under the first name that is free.                 *)
LEMMA RestoreMoves ==
    ASSUME Put!RestoreAssumption, RestoreInv, NEW n \in Places, Put!MoveAside(n)
    PROVE  RestoreInv'
  <1>1. /\ phase = "moving" /\ n \in displaced
        /\ aside' = [aside EXCEPT ![n][Put!FreeAside(n)] = target[n]]
        /\ moved' = [moved EXCEPT ![n] = Put!FreeAside(n)]
        /\ target' = [target EXCEPT ![n] = "none"]
        /\ displaced' = displaced \ {n}
        /\ UNCHANGED <<carried, staging, scrap, phase, try, installed, found, original>>
    BY DEF Put!MoveAside
  <1>2. Swapping
    BY <1>1 DEF Swapping
  <1>3. /\ moved[n] = 0 /\ n \notin installed /\ target[n] = found[n] /\ found[n] # "none"
        /\ installed = {}
    BY <1>1, <1>2, MidSwap DEF EntryOK
  <1>4. PICK u \in 0 .. try : /\ \A k \in Put!Tries : aside[n][k] # "none" <=> k <= u
                              /\ u < try
    BY <1>2, <1>3, MidSwap
  <1>5. u \in Nat /\ u < MaxAttempts /\ try \in 0 .. MaxAttempts /\ MaxAttempts \in Nat
    BY <1>4 DEF RestoreInv, RestoreTypes, Put!RestoreAssumption
  <1>6. /\ Put!FreeAside(n) = u + 1 /\ u + 1 \in Put!Tries
    BY <1>4, <1>5, NextAside DEF RestoreInv
  <1>7. /\ aside \in [Places -> [Put!Tries -> Put!Origin]] /\ target \in [Places -> Put!Origin]
        /\ moved \in [Places -> 0 .. MaxAttempts]
    BY DEF RestoreInv, RestoreTypes
  <1>8. /\ aside'[n] = [aside[n] EXCEPT ![u + 1] = target[n]]
        /\ moved'[n] = u + 1 /\ target'[n] = "none"
        /\ \A m \in Places : m # n => aside'[m] = aside[m] /\ moved'[m] = moved[m]
                                      /\ target'[m] = target[m]
    BY <1>1, <1>6, <1>7
  <1>9. /\ aside'[n][u + 1] = target[n] /\ \A k \in Put!Tries : k # u + 1 => aside'[n][k] = aside[n][k]
        /\ aside[n][u + 1] = "none"
    <2>1. aside[n] \in [Put!Tries -> Put!Origin] /\ ~(u + 1 <= u)
      BY <1>5, <1>7
    <2> QED
      BY <2>1, <1>4, <1>6, <1>8
  <1>10. RestoreTypes'
    <2>1. u + 1 \in 0 .. MaxAttempts
      BY <1>5
    <2>2. moved' \in [Places -> 0 .. MaxAttempts]
      BY <1>1, <1>6, <1>7, <2>1
    <2>3. target' \in [Places -> Put!Origin]
      BY <1>1, <1>7 DEF Put!Origin
    <2>4. aside' \in [Places -> [Put!Tries -> Put!Origin]]
      BY <1>1, <1>6, <1>7
    <2> QED
      BY <1>1, <2>2, <2>3, <2>4 DEF RestoreInv, RestoreTypes
  <1>11. ASSUME NEW m \in Places PROVE EntryOK(m)'
    <2>1. CASE m = n
      <3>1. u + 1 # 0
        BY <1>5
      <3> QED
        BY <2>1, <3>1, <1>1, <1>3, <1>8, <1>9 DEF EntryOK
    <2>2. CASE m # n
      BY <2>2, <1>1, <1>2, <1>8, MidSwap DEF EntryOK
    <2> QED
      BY <2>1, <2>2
  <1>12. AttemptOK'
    BY <1>1, <1>2, <1>3, <1>11, SwapGoesOn DEF RestoreInv, AttemptOK, Swapping, Put!Contents
  <1>13. ASSUME NEW m \in Places PROVE Kept(m)' /\ \E w \in (0 .. try)' : Stacked(m, w)'
    <2>1. CASE m = n
      <3>1. \A k \in Put!Tries : aside'[n][k] # "none" <=> k <= u + 1
        <4> SUFFICES ASSUME NEW k \in Put!Tries PROVE aside'[n][k] # "none" <=> k <= u + 1
          OBVIOUS
        <4>1. k \in Nat
          BY DEF Put!Tries
        <4>2. k # u + 1 => (k <= u <=> k <= u + 1)
          BY <4>1, <1>5
        <4>3. CASE k = u + 1
          BY <4>3, <1>3, <1>5, <1>9
        <4>4. CASE k # u + 1
          BY <4>2, <4>4, <1>4, <1>9
        <4> QED
          BY <4>3, <4>4
      <3>2. u + 1 \in (0 .. try)' /\ u + 1 # 0
        BY <1>1, <1>4, <1>5
      <3>3. Stacked(m, u + 1)'
        BY <2>1, <3>1, <3>2, <1>8 DEF Stacked
      <3>4. Kept(n)
        BY DEF RestoreInv
      <3>5. Kept(m)'
        BY <2>1, <3>4, <1>1, <1>6, <1>8, <1>9 DEF Kept
      <3> QED
        BY <3>2, <3>3, <3>5
    <2>2. CASE m # n
      <3>1. PICK w \in 0 .. try : Stacked(m, w)
        BY DEF RestoreInv
      <3>2. Stacked(m, w)'
        BY <2>2, <3>1, <1>1, <1>8 DEF Stacked, Active
      <3>3. Kept(m)'
        BY <2>2, <1>1, <1>8 DEF RestoreInv, Kept
      <3> QED
        BY <3>2, <3>3, <1>1
    <2> QED
      BY <2>1, <2>2
  <1> QED
    BY <1>1, <1>2, <1>10, <1>12, <1>13, SwapGoesOn DEF RestoreInv

(* A copy of the set takes the place of an entry, or gives it up again.     *)
LEMMA RestoreInstalls ==
    ASSUME RestoreInv, NEW n \in Places, Put!Install(n) \/ Put!TakeBack(n)
    PROVE  RestoreInv'
  <1>1. /\ Swapping /\ displaced = {} /\ target[n] # "before" /\ target'[n] # "before"
        /\ target' \in [Places -> Put!Origin]
        /\ \A m \in Places : m # n => target'[m] = target[m]
        /\ \A m \in Places : m # n => (m \in installed' <=> m \in installed)
        /\ UNCHANGED <<carried, aside, scrap, phase, try, displaced, moved, found, original>>
    <2>1. target \in [Places -> Put!Origin]
      BY DEF RestoreInv, RestoreTypes
    <2>2. CASE Put!Install(n)
      <3>1. n \in staging /\ n \notin installed /\ n \notin displaced /\ Swapping /\ phase = "moving"
        BY <2>2 DEF Put!Install, RestoreInv, AttemptOK, Swapping
      <3>2. target[n] = "none"
        BY <3>1, MidSwap DEF EntryOK
      <3> QED
        BY <2>1, <2>2, <3>1, <3>2 DEF Put!Install, Put!Origin
    <2>3. CASE Put!TakeBack(n)
      <3>1. Swapping /\ n \in installed
        BY <2>3 DEF Put!TakeBack, Swapping
      <3>2. target[n] = "set" /\ displaced = {}
        BY <3>1, MidSwap DEF EntryOK
      <3> QED
        BY <2>1, <2>3, <3>1, <3>2 DEF Put!TakeBack, Put!Origin
    <2> QED
      BY <2>2, <2>3
  <1>2. RestoreTypes'
    BY <1>1 DEF RestoreInv, RestoreTypes
  <1>3. EntryOK(n)'
    <2>1. EntryOK(n)
      BY <1>1, MidSwap
    <2>2. CASE Put!Install(n)
      <3>1. n \in staging /\ n \notin installed
        BY <2>2 DEF Put!Install, RestoreInv, AttemptOK
      <3>2. target'[n] = "set" /\ n \in installed' /\ phase = "moving"
        BY <2>2 DEF Put!Install, RestoreInv, RestoreTypes
      <3> QED
        BY <1>1, <2>1, <3>1, <3>2 DEF EntryOK
    <2>3. CASE Put!TakeBack(n)
      <3>1. target'[n] = "none" /\ n \notin installed' /\ n \in installed /\ phase = "undoing"
        BY <2>3 DEF Put!TakeBack, RestoreInv, RestoreTypes
      <3>2. moved[n] = 0 => found[n] = "none"
        BY <2>1, <3>1 DEF EntryOK
      <3> QED
        BY <1>1, <2>1, <3>1, <3>2 DEF EntryOK
    <2> QED
      BY <2>2, <2>3
  <1>4. ASSUME NEW m \in Places PROVE EntryOK(m)'
    BY <1>1, <1>3, MidSwap DEF EntryOK
  <1>5. phase' = "moving" => /\ (staging \cup installed)' = Put!Contents'
                             /\ (staging \cap installed)' = {}
    BY <1>1 DEF Put!Install, Put!TakeBack, RestoreInv, AttemptOK, Put!Contents
  <1>6. AttemptOK'
    BY <1>1, <1>4, <1>5, SwapGoesOn DEF AttemptOK, Swapping
  <1>7. ASSUME NEW m \in Places PROVE Kept(m)' /\ \E u \in (0 .. try)' : Stacked(m, u)'
    <2>1. PICK u \in 0 .. try : Stacked(m, u)
      BY DEF RestoreInv
    <2>2. Stacked(m, u)'
      BY <1>1, <2>1 DEF Stacked, Active
    <2>3. Kept(m)'
      BY <1>1 DEF RestoreInv, Kept
    <2> QED
      BY <1>1, <2>2, <2>3
  <1> QED
    BY <1>1, <1>2, <1>6, <1>7, SwapGoesOn DEF RestoreInv

(* A swap that failed puts an entry back from the last of its names.        *)
LEMMA RestorePutsBack ==
    ASSUME Put!RestoreAssumption, RestoreInv, NEW n \in Places, Put!PutBack(n)
    PROVE  RestoreInv'
  <1>1. /\ phase = "undoing" /\ installed = {} /\ moved[n] # 0
        /\ target' = [target EXCEPT ![n] = IF @ = "none" THEN aside[n][moved[n]] ELSE @]
        /\ aside' = [aside EXCEPT ![n][moved[n]] = IF target[n] = "none" THEN "none" ELSE @]
        /\ moved' = [moved EXCEPT ![n] = 0]
        /\ UNCHANGED <<carried, staging, scrap, phase, try, displaced, installed, found,
                       original>>
    BY DEF Put!PutBack
  <1>2. Swapping
    BY <1>1 DEF Swapping
  <1>3. PICK u \in 0 .. try : /\ \A k \in Put!Tries : aside[n][k] # "none" <=> k <= u
                              /\ u = moved[n]
    BY <1>1, <1>2, MidSwap
  <1>4. /\ n \notin displaced /\ target[n] = "none" /\ aside[n][u] = found[n] /\ found[n] # "none"
    BY <1>1, <1>2, <1>3, MidSwap DEF EntryOK
  <1>5. /\ aside \in [Places -> [Put!Tries -> Put!Origin]] /\ target \in [Places -> Put!Origin]
        /\ moved \in [Places -> 0 .. MaxAttempts] /\ try \in 0 .. MaxAttempts
        /\ found \in [Places -> Put!Origin] /\ MaxAttempts \in Nat
    BY DEF RestoreInv, RestoreTypes, Put!RestoreAssumption
  <1>6. u \in Put!Tries /\ u \in Nat /\ u # 0
    BY <1>1, <1>3, <1>5 DEF Put!Tries
  <1>7. /\ aside'[n] = [aside[n] EXCEPT ![u] = "none"]
        /\ moved'[n] = 0 /\ target'[n] = found[n]
        /\ \A m \in Places : m # n => aside'[m] = aside[m] /\ moved'[m] = moved[m]
                                      /\ target'[m] = target[m]
    BY <1>1, <1>3, <1>4, <1>5
  <1>8. /\ aside'[n][u] = "none" /\ \A k \in Put!Tries : k # u => aside'[n][k] = aside[n][k]
    BY <1>5, <1>6, <1>7
  <1>9. RestoreTypes'
    <2>1. moved' \in [Places -> 0 .. MaxAttempts]
      BY <1>1, <1>5
    <2>2. target' \in [Places -> Put!Origin]
      BY <1>1, <1>3, <1>4, <1>5
    <2>3. aside' = [aside EXCEPT ![n][u] = "none"]
      BY <1>1, <1>3, <1>4
    <2>4. aside' \in [Places -> [Put!Tries -> Put!Origin]]
      BY <2>3, <1>5, <1>6 DEF Put!Origin
    <2> QED
      BY <1>1, <2>1, <2>2, <2>4 DEF RestoreInv, RestoreTypes
  <1>10. ASSUME NEW m \in Places PROVE EntryOK(m)'
    <2>1. CASE m = n
      BY <2>1, <1>1, <1>4, <1>7 DEF EntryOK
    <2>2. CASE m # n
      BY <2>2, <1>1, <1>2, <1>7, MidSwap DEF EntryOK
    <2> QED
      BY <2>1, <2>2
  <1>11. AttemptOK'
    BY <1>1, <1>2, <1>10, SwapGoesOn DEF AttemptOK, Swapping
  <1>12. ASSUME NEW m \in Places PROVE Kept(m)' /\ \E w \in (0 .. try)' : Stacked(m, w)'
    <2>1. CASE m = n
      <3>1. \A k \in Put!Tries : aside'[n][k] # "none" <=> k <= u - 1
        <4> SUFFICES ASSUME NEW k \in Put!Tries PROVE aside'[n][k] # "none" <=> k <= u - 1
          OBVIOUS
        <4>1. k \in Nat
          BY DEF Put!Tries
        <4>2. k # u => (k <= u <=> k <= u - 1)
          BY <4>1, <1>6
        <4>3. CASE k = u
          BY <4>1, <4>3, <1>6, <1>8
        <4>4. CASE k # u
          BY <4>2, <4>4, <1>3, <1>8
        <4> QED
          BY <4>3, <4>4
      <3>2. u - 1 \in (0 .. try)' /\ u - 1 < try'
        <4>1. try' = try /\ try \in Nat /\ u <= try
          BY <1>1, <1>3, <1>5
        <4> QED
          BY <4>1, <1>6
      <3>3. Stacked(m, u - 1)'
        BY <2>1, <3>1, <3>2, <1>7 DEF Stacked
      <3>4. Kept(n)
        BY DEF RestoreInv
      <3>5. Kept(m)'
        BY <2>1, <3>4, <1>1, <1>4, <1>6, <1>7, <1>8 DEF Kept
      <3> QED
        BY <3>2, <3>3, <3>5
    <2>2. CASE m # n
      <3>1. PICK w \in 0 .. try : Stacked(m, w)
        BY DEF RestoreInv
      <3>2. Stacked(m, w)'
        BY <2>2, <3>1, <1>1, <1>7 DEF Stacked, Active
      <3>3. Kept(m)'
        BY <2>2, <1>1, <1>7 DEF RestoreInv, Kept
      <3> QED
        BY <3>2, <3>3, <1>1
    <2> QED
      BY <2>1, <2>2
  <1> QED
    BY <1>1, <1>2, <1>9, <1>11, <1>12, SwapGoesOn DEF RestoreInv

LEMMA RestoreStarts == ASSUME Put!RestoreAssumption, Put!Init PROVE RestoreInv
  <1> USE DEF Put!Init
  <1>1. PICK old \in SUBSET Places : target = [n \in Places |-> IF n \in old THEN "before" ELSE "none"]
    OBVIOUS
  <1>2. target \in [Places -> Put!Origin] /\ \A n \in Places : target[n] # "set"
    BY <1>1 DEF Put!Origin
  <1>3. RestoreTypes
    BY <1>2 DEF RestoreTypes, Put!RestoreAssumption, Put!Idle, Put!Origin
  <1>4. AttemptOK /\ NeverMixed
    BY DEF AttemptOK, Swapping, Put!AllOrNothing, NeverMixed, Put!NoHybrid, Active
  <1>5. ASSUME NEW n \in Places PROVE Kept(n) /\ Stacked(n, 0) /\ 0 \in 0 .. try
    <2>1. \A k \in Put!Tries : aside[n][k] = "none" /\ ~(k <= 0)
      BY DEF Put!Tries, Put!RestoreAssumption
    <2> QED
      BY <2>1 DEF Kept, Stacked, Active
  <1> QED
    BY <1>3, <1>4, <1>5 DEF RestoreInv

LEMMA RestoreContinues ==
    ASSUME Put!RestoreAssumption, RestoreInv, [Put!Next]_Put!vars PROVE RestoreInv'
  BY RestoreBegins, RestoreRests, RestoreMoves, RestoreInstalls, RestorePutsBack DEF Put!Next

(* Exactly one: the set of the names that keep an entry is a singleton, or  *)
(* empty when the entry is in its place.                                    *)
LEMMA OneCopy ==
    ASSUME RestoreInv
    PROVE  Put!OriginalsSurvive
  <1> SUFFICES ASSUME NEW n \in Places, original[n] = "before"
               PROVE  Put!Cardinality({k \in Put!Tries : aside[n][k] = "before"})
                        + (IF target[n] = "before" THEN 1 ELSE 0) = 1
    BY DEF Put!OriginalsSurvive
  <1> DEFINE Copies == {k \in Put!Tries : aside[n][k] = "before"}
  <1>1. Kept(n)
    BY DEF RestoreInv
  <1>2. CASE target[n] = "before"
    <2>1. Copies = {}
      BY <1>1, <1>2 DEF Kept
    <2>2. Put!Cardinality({}) = 0
      BY SameSets, FS_EmptySet
    <2> QED
      BY <1>2, <2>1, <2>2
  <1>3. CASE target[n] # "before"
    <2>1. PICK k \in Put!Tries : /\ aside[n][k] = "before"
                                 /\ \A j \in Put!Tries : aside[n][j] = "before" => j = k
      BY <1>1, <1>3 DEF Kept
    <2>2. Copies = {k}
      BY <2>1
    <2>3. Put!Cardinality({k}) = 1
      BY SameSets, FS_Singleton
    <2> QED
      BY <1>3, <2>2, <2>3
  <1> QED
    BY <1>2, <1>3

LEMMA RestoreScene ==
    ASSUME [SceneNext]_all, scene' = "restore"
    PROVE  scene = "restore" /\ [Put!Next]_Put!vars
  BY DEF SceneNext, all, state, Put!vars

(* Whatever entries a directory and a set have, and however many attempts   *)
(* to restore fail, are killed at any call or are tried again:              *)
(* backup_db.restore is all or nothing, never mixes two instances unless it *)
(* is killed, and loses no entry of the instance that it replaces.          *)
THEOREM RestoresHold == SceneSpec => []RestoresAreWhole
  <1> DEFINE Inv == scene = "restore" => RestoreInv
  <1>1. SceneInit => Inv
    BY RestoreStarts, RecoveryAssumption DEF SceneInit
  <1>2. Inv /\ [SceneNext]_all => Inv'
    BY RestoreScene, RestoreContinues, RecoveryAssumption
  <1>3. Inv => RestoresAreWhole
    BY OneCopy DEF RestoresAreWhole, Put!RestoresAreWhole, RestoreInv, AttemptOK, NeverMixed
  <1> QED
    BY <1>1, <1>2, <1>3, PTL DEF SceneSpec
-----------------------------------------------------------------------------
(* Backup sets.  A run owns a stamp from its claim until its manifest is     *)
(* out; nobody else writes or drops under it.  A set is dropped only while   *)
(* enough newer ones stand.  The variables of Backup, as the scenes hold     *)
(* them:                                                                     *)
disk      == v1
copies    == v2
archived  == v3
listed    == v4
runAt     == v5
stamp     == v6
todo      == v7
dropping  == v8
live      == v9
time      == v10
published == v11
USE DEF disk, copies, archived, listed, runAt, stamp, todo, dropping, live, time, published

Parts == {"database", "instance", "manifest"}
Steps == {"ready", "claiming", "staging", "snapshot", "archiving", "publishing", "dropping",
          "tidying", "done", "failed", "killed"}
Out   == {published[i] : i \in 1 .. Len(published)}
Ours  == {"staging", "snapshot", "archiving", "publishing"}

BackupTypes(runs, seconds) ==
    /\ disk \in [Parts -> [Back(runs, seconds)!Stamps -> runs \cup {"none", "claim", "legacy"}]]
    /\ copies \in [runs -> SUBSET Parts] /\ runAt \in [runs -> Steps]
    /\ archived \in [runs -> SUBSET Files] /\ listed = archived
    /\ live \in SUBSET Files /\ todo \in [runs -> SUBSET Files]
    /\ stamp \in [runs -> Back(runs, seconds)!Stamps \cup {Back(runs, seconds)!NoStamp}]
    /\ dropping \in [runs -> SUBSET Back(runs, seconds)!Stamps]
    /\ published \in Seq(runs) /\ time \in 1 .. seconds

\* A run whose set is not out yet.
Unfinished(r) == runAt[r] \in Ours /\ r \notin Out

\* How far a run has come with its own files.
Staged(r) ==
    /\ runAt[r] \in {"ready", "claiming", "staging"} => copies[r] = {}
    /\ runAt[r] \in {"ready", "claiming", "staging", "snapshot", "archiving"} => r \notin Out
    /\ runAt[r] \in {"snapshot", "archiving"} => copies[r] = Parts
    /\ runAt[r] = "publishing" =>
          /\ copies[r] \in {Parts, {"instance", "manifest"}, {"manifest"}, {}}
          /\ r \in Out <=> copies[r] = {}

\* What stands under the stamp of a run whose set is not out yet.
Claimed(runs, seconds, r) ==
    /\ stamp[r] \in Back(runs, seconds)!Stamps /\ stamp[r] # Back(runs, seconds)!Old
    /\ disk["manifest"][stamp[r]] = "none"
    /\ disk["database"][stamp[r]] =
          IF runAt[r] = "publishing" /\ "database" \notin copies[r] THEN r ELSE "claim"
    /\ runAt[r] = "publishing" /\ "instance" \notin copies[r] => disk["instance"][stamp[r]] = r
    /\ \A p \in runs : runAt[p] \in {"dropping", "tidying"} => stamp[r] \notin dropping[p]
    /\ \A q \in runs : Unfinished(q) /\ stamp[q] = stamp[r] => q = r

Whole(s) ==
    disk["manifest"][s] # "none" =>
       /\ disk["manifest"][s] \in Out
       /\ disk["database"][s] = disk["manifest"][s] /\ disk["instance"][s] = disk["manifest"][s]

\* The sets that are newer than s, by name.
Newer(runs, seconds, s) ==
    {t \in Back(runs, seconds)!Sets : Back(runs, seconds)!NameBefore(s, t)}

Retained(runs, seconds) ==
    /\ \A p \in runs : runAt[p] = "dropping" => \A s \in dropping[p] :
          /\ s # Back(runs, seconds)!Old
          /\ Cardinality(Newer(runs, seconds, s)) >= Keep
    /\ \/ Cardinality(Back(runs, seconds)!Sets) >= Keep
       \/ Cardinality(Back(runs, seconds)!Sets) >= Len(published)

Work(runs, seconds) ==
    \A r \in runs : Staged(r) /\ (Unfinished(r) => Claimed(runs, seconds, r))

BackupInv(runs, seconds) ==
    /\ BackupTypes(runs, seconds) /\ Work(runs, seconds) /\ Retained(runs, seconds)
    /\ \A s \in Back(runs, seconds)!Stamps : Whole(s)
    /\ disk["database"][Back(runs, seconds)!Old] = "legacy"

(* The stamps are finitely many, in the order of their names.               *)
LEMMA StampsAre ==
    ASSUME NEW runs, NEW seconds, Back(runs, seconds)!BackupAssumption
    PROVE  /\ IsFiniteSet(Back(runs, seconds)!Stamps)
           /\ Back(runs, seconds)!Old \in Back(runs, seconds)!Stamps
           /\ \A t \in 1 .. seconds, n \in 1 .. Back(runs, seconds)!Cardinality(runs) :
                 /\ <<t, n>> \in Back(runs, seconds)!Stamps
                 /\ <<t, n>> # Back(runs, seconds)!Old
           /\ \A s \in Back(runs, seconds)!Stamps : ~Back(runs, seconds)!NameBefore(s, s)
           /\ \A s, t, u \in Back(runs, seconds)!Stamps :
                 Back(runs, seconds)!NameBefore(s, t) /\ Back(runs, seconds)!NameBefore(t, u)
                   => Back(runs, seconds)!NameBefore(s, u)
  <1> DEFINE C == Back(runs, seconds)!Cardinality(runs)
             Second == 0 .. seconds
             Place == 1 .. C
  <1>1. /\ C = Cardinality(runs) /\ (Back(runs, seconds)!IsFiniteSet(runs) <=> IsFiniteSet(runs))
    BY DEF Back!Cardinality, Cardinality, Back!IsFiniteSet, IsFiniteSet
  <1>2. IsFiniteSet(runs) /\ runs # {} /\ seconds \in Nat
    BY <1>1 DEF Back!BackupAssumption
  <1>3. C \in Nat /\ C # 0
    BY <1>1, <1>2, FS_CardinalityType, FS_EmptySet
  <1> HIDE DEF C
  <1>4. IsFiniteSet(Second) /\ IsFiniteSet(Place)
    BY <1>2, <1>3, FS_Interval
  <1>5. Back(runs, seconds)!Stamps = Second \X Place
    BY DEF Back!Stamps, C
  <1>6. IsFiniteSet(Second \X Place)
    BY <1>4, FS_Product
  <1>7. Back(runs, seconds)!Old \in Back(runs, seconds)!Stamps
    BY <1>2, <1>3, <1>5 DEF Back!Old
  <1>8. \A t \in 1 .. seconds, n \in Place :
                 /\ <<t, n>> \in Back(runs, seconds)!Stamps
                 /\ <<t, n>> # Back(runs, seconds)!Old
    BY <1>2, <1>3, <1>5 DEF Back!Old
  <1>9. \A s \in Back(runs, seconds)!Stamps : s[1] \in Nat /\ s[2] \in Nat /\ s = <<s[1], s[2]>>
    BY <1>2, <1>3, <1>5
  <1>10. \A s \in Back(runs, seconds)!Stamps : ~Back(runs, seconds)!NameBefore(s, s)
    BY <1>9 DEF Back!NameBefore
  <1>11. ASSUME NEW s \in Back(runs, seconds)!Stamps, NEW t \in Back(runs, seconds)!Stamps,
                NEW u \in Back(runs, seconds)!Stamps,
                Back(runs, seconds)!NameBefore(s, t), Back(runs, seconds)!NameBefore(t, u)
         PROVE  Back(runs, seconds)!NameBefore(s, u)
    <2>1. /\ s[1] \in Nat /\ t[1] \in Nat /\ u[1] \in Nat
          /\ s[2] \in Nat /\ t[2] \in Nat /\ u[2] \in Nat
      BY <1>9
    <2> QED
      BY <2>1, <1>11 DEF Back!NameBefore
  <1> QED
    BY <1>5, <1>6, <1>7, <1>8, <1>10, <1>11 DEF C

(* What the parts of the invariant say together.                            *)
LEMMA SetsAre ==
    ASSUME NEW runs, NEW seconds, Back(runs, seconds)!BackupAssumption, BackupInv(runs, seconds)
    PROVE  /\ \A s : s \in Back(runs, seconds)!Sets <=>
                 s \in Back(runs, seconds)!Stamps /\ disk["manifest"][s] # "none"
           /\ Out \subseteq runs /\ \A x \in {"none", "claim", "legacy"} : x \notin runs
           /\ Back(runs, seconds)!Old \notin Back(runs, seconds)!Sets
           /\ Back(runs, seconds)!Range(published) = Out
           /\ \A s \in Back(runs, seconds)!Sets : disk["database"][s] \in runs
  <1>1. \A s : s \in Back(runs, seconds)!Sets <=>
                 s \in Back(runs, seconds)!Stamps /\ disk["manifest"][s] # "none"
    BY DEF Back!Sets, Back!Free
  <1>2. published \in Seq(runs) /\ DOMAIN published = 1 .. Len(published)
    BY DEF BackupInv, BackupTypes
  <1>3. Out \subseteq runs /\ Back(runs, seconds)!Range(published) = Out
    BY <1>2 DEF Out, Back!Range
  <1>4. \A x \in {"none", "claim", "legacy"} : x \notin runs
    BY DEF Back!BackupAssumption
  <1>5. \A s \in Back(runs, seconds)!Sets : disk["database"][s] \in runs
    BY <1>1, <1>3 DEF BackupInv, Whole
  <1>6. Back(runs, seconds)!Old \notin Back(runs, seconds)!Sets
    BY <1>4, <1>5 DEF BackupInv
  <1> QED
    BY <1>1, <1>3, <1>4, <1>5, <1>6

(* How many sets there are, and how many newer than one.                    *)
LEMMA SetsCount ==
    ASSUME NEW runs, NEW seconds, Back(runs, seconds)!BackupAssumption
    PROVE  /\ IsFiniteSet(Back(runs, seconds)!Sets)
           /\ Cardinality(Back(runs, seconds)!Sets) \in Nat
           /\ \A s : Newer(runs, seconds, s) \subseteq Back(runs, seconds)!Sets
           /\ \A s : /\ IsFiniteSet(Newer(runs, seconds, s))
                     /\ Cardinality(Newer(runs, seconds, s)) \in Nat
           /\ \A s \in Back(runs, seconds)!Oldest(Back(runs, seconds)!Sets) :
                 s \in Back(runs, seconds)!Sets /\ Cardinality(Newer(runs, seconds, s)) >= Keep
  <1>1. Back(runs, seconds)!Sets \subseteq Back(runs, seconds)!Stamps
    BY DEF Back!Sets
  <1>2. \A s : Newer(runs, seconds, s) \subseteq Back(runs, seconds)!Sets
    BY DEF Newer
  <1>3. IsFiniteSet(Back(runs, seconds)!Sets)
    BY <1>1, StampsAre, FS_Subset
  <1>4. ASSUME NEW s PROVE /\ IsFiniteSet(Newer(runs, seconds, s))
                          /\ Cardinality(Newer(runs, seconds, s)) \in Nat
    BY <1>2, <1>3, FS_Subset, FS_CardinalityType
  <1>5. Cardinality(Back(runs, seconds)!Sets) \in Nat
    BY <1>3, FS_CardinalityType
  <1>6. ASSUME NEW s \in Back(runs, seconds)!Oldest(Back(runs, seconds)!Sets)
        PROVE  s \in Back(runs, seconds)!Sets /\ Cardinality(Newer(runs, seconds, s)) >= Keep
    <2>1. /\ s \in Back(runs, seconds)!Sets
          /\ Back(runs, seconds)!Cardinality(Newer(runs, seconds, s)) >= Keep
      BY DEF Back!Oldest, Newer
    <2>2. Back(runs, seconds)!Cardinality(Newer(runs, seconds, s)) = Cardinality(Newer(runs, seconds, s))
      BY DEF Back!Cardinality, Cardinality
    <2> QED
      BY <2>1, <2>2
  <1> QED
    BY <1>2, <1>3, <1>4, <1>5, <1>6

(* A step that neither brings out nor drops a set.                          *)
LEMMA RetentionRests ==
    ASSUME NEW runs, NEW seconds, Back(runs, seconds)!BackupAssumption, BackupInv(runs, seconds),
           \A s \in Back(runs, seconds)!Stamps : disk'["manifest"][s] = disk["manifest"][s],
           published' = published,
           \A p \in runs : runAt'[p] = "dropping" =>
              \/ runAt[p] = "dropping" /\ dropping'[p] \subseteq dropping[p]
              \/ dropping'[p] \subseteq Back(runs, seconds)!Oldest(Back(runs, seconds)!Sets)
    PROVE  Retained(runs, seconds)' /\ Out' = Out
           /\ Back(runs, seconds)!Sets' = Back(runs, seconds)!Sets
  <1>1. Back(runs, seconds)!Sets' = Back(runs, seconds)!Sets
    BY DEF Back!Sets, Back!Free
  <1>2. \A s : Newer(runs, seconds, s)' = Newer(runs, seconds, s)
    BY <1>1 DEF Newer, Back!NameBefore
  <1>3. ASSUME NEW p \in runs, runAt'[p] = "dropping", NEW s \in dropping'[p]
        PROVE  s # Back(runs, seconds)!Old /\ Cardinality(Newer(runs, seconds, s)) >= Keep
    <2>1. CASE runAt[p] = "dropping" /\ s \in dropping[p]
      BY <2>1 DEF BackupInv, Retained
    <2>2. CASE s \in Back(runs, seconds)!Oldest(Back(runs, seconds)!Sets)
      BY <2>2, SetsCount, SetsAre
    <2> QED
      BY <1>3, <2>1, <2>2
  <1>4. Out' = Out
    BY DEF Out
  <1> QED
    BY <1>1, <1>2, <1>3, <1>4 DEF BackupInv, Retained, Back!Old

(* A step that writes and removes nothing of a set.                         *)
LEMMA NothingWritten ==
    ASSUME NEW runs, NEW seconds, Back(runs, seconds)!BackupAssumption, BackupInv(runs, seconds),
           BackupTypes(runs, seconds)', UNCHANGED <<disk, stamp, published>>,
           \A q \in runs : Staged(q)',
           \A q \in runs : runAt'[q] \in Ours =>
              \/ q \in Out
              \/ /\ runAt[q] \in Ours
                 /\ \A m \in {"database", "instance"} :
                      runAt'[q] = "publishing" /\ m \notin copies'[q] <=>
                      runAt[q] = "publishing" /\ m \notin copies[q],
           \A p \in runs : runAt'[p] \in {"dropping", "tidying"} =>
              \/ runAt[p] = runAt'[p] /\ dropping'[p] \subseteq dropping[p]
              \/ /\ \A q \in runs : Unfinished(q) => stamp[q] \notin dropping'[p]
                 /\ \/ runAt'[p] = "tidying"
                    \/ dropping'[p] \subseteq Back(runs, seconds)!Oldest(Back(runs, seconds)!Sets)
    PROVE  BackupInv(runs, seconds)'
  <1>1. Retained(runs, seconds)' /\ Out' = Out
    BY RetentionRests
  <1>2. \A q \in runs : Unfinished(q)' => Unfinished(q)
    BY <1>1 DEF Unfinished
  <1>3. ASSUME NEW r \in runs, Unfinished(r)' PROVE Claimed(runs, seconds, r)'
    <2>1. Unfinished(r) /\ r \notin Out /\ runAt'[r] \in Ours
      BY <1>1, <1>2, <1>3 DEF Unfinished
    <2>2. Claimed(runs, seconds, r)
      BY <2>1 DEF BackupInv, Work
    <2>3. \A m \in {"database", "instance"} :
            runAt'[r] = "publishing" /\ m \notin copies'[r] <=>
            runAt[r] = "publishing" /\ m \notin copies[r]
      BY <2>1
    <2>4. \A p \in runs : runAt'[p] \in {"dropping", "tidying"} => stamp[r] \notin dropping'[p]
      BY <2>1, <2>2 DEF Claimed
    <2>5. \A q \in runs : Unfinished(q)' /\ stamp[q] = stamp[r] => q = r
      BY <1>2, <2>2 DEF Claimed
    <2>6. /\ stamp[r] \in Back(runs, seconds)!Stamps /\ stamp[r] # Back(runs, seconds)!Old
          /\ disk["manifest"][stamp[r]] = "none"
      BY <2>2 DEF Claimed
    <2>7. disk["database"][stamp[r]] =
            IF runAt'[r] = "publishing" /\ "database" \notin copies'[r] THEN r ELSE "claim"
      BY <2>2, <2>3 DEF Claimed
    <2>8. runAt'[r] = "publishing" /\ "instance" \notin copies'[r] => disk["instance"][stamp[r]] = r
      BY <2>2, <2>3 DEF Claimed
    <2> QED
      BY <2>4, <2>5, <2>6, <2>7, <2>8 DEF Claimed, Back!Stamps, Back!Old
  <1>4. Work(runs, seconds)'
    BY <1>3 DEF Work
  <1>5. \A s \in Back(runs, seconds)!Stamps : Whole(s)'
    BY <1>1 DEF BackupInv, Whole
  <1> QED
    BY <1>1, <1>4, <1>5 DEF BackupInv, Back!Stamps, Back!Old

(* The steps of a run that write and remove nothing of a set.               *)
LEMMA BackupRests ==
    ASSUME NEW runs, NEW seconds, Back(runs, seconds)!BackupAssumption, BackupInv(runs, seconds),
           NEW r \in runs,
           \/ Back(runs, seconds)!Sweep(r) \/ Back(runs, seconds)!Stage(r)
           \/ Back(runs, seconds)!Snapshot(r) \/ Back(runs, seconds)!Archive(r)
           \/ Back(runs, seconds)!Archived(r) \/ Back(runs, seconds)!Release(r)
           \/ Back(runs, seconds)!Fail(r) \/ Back(runs, seconds)!Tidy(r)
           \/ Back(runs, seconds)!Kill(r)
    PROVE  BackupInv(runs, seconds)'
  <1>1. BackupTypes(runs, seconds) /\ \A q \in runs : Staged(q)
    BY DEF BackupInv, Work
  <1>2. CASE Back(runs, seconds)!Sweep(r)
    <2>1. /\ runAt[r] = "ready" /\ runAt' = [runAt EXCEPT ![r] = "claiming"]
          /\ copies' = [q \in runs |-> IF runAt[q] \in Ours THEN copies[q] ELSE {}]
          /\ UNCHANGED <<disk, archived, listed, stamp, todo, dropping, live, time, published>>
      BY <1>2 DEF Back!Sweep, Back!Swept, Back!Goto, Back!Holding, Ours
    <2>2. BackupTypes(runs, seconds)'
      BY <1>1, <2>1 DEF BackupTypes, Steps, Back!Stamps, Back!NoStamp
    <2>3. \A q \in runs : Staged(q)'
      BY <1>1, <2>1 DEF BackupTypes, Staged, Ours, Out
    <2> QED
      BY <1>1, <2>1, <2>2, <2>3, NothingWritten DEF BackupTypes, Ours
  <1>3. CASE Back(runs, seconds)!Stage(r)
    <2>1. /\ runAt[r] = "staging" /\ runAt' = [runAt EXCEPT ![r] = "snapshot"]
          /\ copies' = [copies EXCEPT ![r] = Parts]
          /\ UNCHANGED <<disk, archived, listed, stamp, todo, dropping, live, time, published>>
      BY <1>3 DEF Back!Stage, Back!Goto, Back!Members, Parts
    <2>2. BackupTypes(runs, seconds)'
      BY <1>1, <2>1 DEF BackupTypes, Steps, Back!Stamps, Back!NoStamp
    <2>3. \A q \in runs : Staged(q)'
      <3>1. /\ runAt'[r] = "snapshot" /\ copies'[r] = Parts /\ Out' = Out
            /\ \A q \in runs : q # r => runAt'[q] = runAt[q] /\ copies'[q] = copies[q]
        BY <1>1, <2>1 DEF BackupTypes, Out
      <3> QED
        BY <1>1, <2>1, <3>1 DEF Staged
    <2> QED
      BY <1>1, <2>1, <2>2, <2>3, NothingWritten DEF BackupTypes, Ours
  <1>4. CASE Back(runs, seconds)!Snapshot(r)
    <2>1. /\ runAt[r] = "snapshot" /\ runAt' = [runAt EXCEPT ![r] = "archiving"]
          /\ todo' = [todo EXCEPT ![r] = live]
          /\ UNCHANGED <<disk, copies, archived, listed, stamp, dropping, live, time, published>>
      BY <1>4 DEF Back!Snapshot, Back!Goto
    <2>2. BackupTypes(runs, seconds)'
      BY <1>1, <2>1 DEF BackupTypes, Steps, Back!Stamps, Back!NoStamp
    <2>3. \A q \in runs : Staged(q)'
      BY <1>1, <2>1 DEF BackupTypes, Staged, Out
    <2> QED
      BY <1>1, <2>1, <2>2, <2>3, NothingWritten DEF BackupTypes, Ours
  <1>5. CASE Back(runs, seconds)!Archive(r)
    <2>1. PICK f \in todo[r] :
            /\ todo' = [todo EXCEPT ![r] = @ \ {f}]
            /\ archived' = [archived EXCEPT ![r] = @ \cup ({f} \cap live)]
            /\ listed' = [listed EXCEPT ![r] = @ \cup ({f} \cap live)]
      BY <1>5 DEF Back!Archive
    <2>2. UNCHANGED <<disk, copies, runAt, stamp, dropping, live, time, published>>
      BY <1>5 DEF Back!Archive
    <2>3. BackupTypes(runs, seconds)'
      <3>1. /\ todo' \in [runs -> SUBSET Files] /\ archived' \in [runs -> SUBSET Files]
            /\ listed' = archived'
        BY <1>1, <2>1 DEF BackupTypes
      <3> QED
        BY <1>1, <2>2, <3>1 DEF BackupTypes, Back!Stamps, Back!NoStamp
    <2>4. \A q \in runs : Staged(q)'
      BY <1>1, <2>2 DEF Staged, Out
    <2> QED
      BY <2>2, <2>3, <2>4, NothingWritten
  <1>6. CASE Back(runs, seconds)!Archived(r)
    <2>1. /\ runAt[r] = "archiving" /\ runAt' = [runAt EXCEPT ![r] = "publishing"]
          /\ UNCHANGED <<disk, copies, archived, listed, stamp, todo, dropping, live, time, published>>
      BY <1>6 DEF Back!Archived, Back!Goto
    <2>2. BackupTypes(runs, seconds)'
      BY <1>1, <2>1 DEF BackupTypes, Steps, Back!Stamps, Back!NoStamp
    <2>3. copies[r] = Parts /\ "database" \in Parts /\ "instance" \in Parts
      BY <1>1, <2>1 DEF Staged, Parts
    <2>4. \A q \in runs : Staged(q)'
      <3>1. /\ runAt'[r] = "publishing" /\ copies' = copies /\ Out' = Out /\ copies[r] # {}
            /\ \A q \in runs : q # r => runAt'[q] = runAt[q]
        BY <1>1, <2>1, <2>3 DEF BackupTypes, Out
      <3> QED
        BY <1>1, <2>1, <2>3, <3>1 DEF Staged
    <2> QED
      BY <1>1, <2>1, <2>2, <2>3, <2>4, NothingWritten DEF BackupTypes, Ours
  <1>7. CASE Back(runs, seconds)!Release(r)
    <2>1. /\ runAt' = [runAt EXCEPT ![r] = "dropping"]
          /\ dropping' = [dropping EXCEPT ![r] = Back(runs, seconds)!Oldest(Back(runs, seconds)!Sets)]
          /\ UNCHANGED <<disk, copies, archived, listed, stamp, todo, live, time, published>>
      BY <1>7 DEF Back!Release, Back!Goto
    <2>2. \A s \in Back(runs, seconds)!Oldest(Back(runs, seconds)!Sets) :
            s \in Back(runs, seconds)!Stamps /\ disk["manifest"][s] # "none"
      BY SetsCount, SetsAre
    <2>3. BackupTypes(runs, seconds)'
      <3>1. /\ dropping' \in [runs -> SUBSET Back(runs, seconds)!Stamps]
            /\ runAt' \in [runs -> Steps]
        BY <1>1, <2>1, <2>2 DEF BackupTypes, Steps
      <3> QED
        BY <1>1, <2>1, <3>1 DEF BackupTypes, Back!Stamps, Back!NoStamp
    <2>4. \A q \in runs : Staged(q)'
      BY <1>1, <2>1 DEF BackupTypes, Staged, Out
    <2>5. \A q \in runs : Unfinished(q) => disk["manifest"][stamp[q]] = "none"
      BY DEF BackupInv, Work, Claimed
    <2>6. /\ dropping'[r] = Back(runs, seconds)!Oldest(Back(runs, seconds)!Sets)
          /\ runAt'[r] = "dropping"
          /\ \A q \in runs : q # r => runAt'[q] = runAt[q] /\ dropping'[q] = dropping[q]
      BY <1>1, <2>1 DEF BackupTypes
    <2>7. \A q \in runs : Unfinished(q) => stamp[q] \notin dropping'[r]
      BY <2>2, <2>5, <2>6
    <2> QED
      BY <2>1, <2>3, <2>4, <2>6, <2>7, NothingWritten DEF Ours
  <1>8. CASE Back(runs, seconds)!Fail(r)
    <2>1. /\ runAt' = [runAt EXCEPT ![r] = "failed"]
          /\ copies' = [copies EXCEPT ![r] = {}]
          /\ UNCHANGED <<disk, archived, listed, stamp, todo, dropping, live, time, published>>
      BY <1>8 DEF Back!Fail, Back!Goto
    <2>2. BackupTypes(runs, seconds)'
      BY <1>1, <2>1 DEF BackupTypes, Steps, Back!Stamps, Back!NoStamp
    <2>3. \A q \in runs : Staged(q)'
      BY <1>1, <2>1 DEF BackupTypes, Staged, Out
    <2> QED
      BY <1>1, <2>1, <2>2, <2>3, NothingWritten DEF BackupTypes, Ours
  <1>9. CASE Back(runs, seconds)!Tidy(r)
    <2>1. /\ runAt' = [runAt EXCEPT ![r] = "tidying"] /\ runAt[r] = "dropping"
          /\ copies' = [q \in runs |-> IF runAt[q] \in Ours THEN copies[q] ELSE {}]
          /\ dropping' = [dropping EXCEPT ![r] = Back(runs, seconds)!Abandoned]
          /\ UNCHANGED <<disk, archived, listed, stamp, todo, live, time, published>>
      BY <1>9 DEF Back!Tidy, Back!Swept, Back!Goto, Back!Holding, Ours
    <2>2. \A s \in Back(runs, seconds)!Abandoned :
            /\ s \in Back(runs, seconds)!Stamps
            /\ \A q \in runs : ~(runAt[q] \in Ours /\ stamp[q] = s)
      BY DEF Back!Abandoned, Back!LiveClaim, Back!Holding, Ours
    <2>3. BackupTypes(runs, seconds)'
      <3>1. /\ dropping' \in [runs -> SUBSET Back(runs, seconds)!Stamps]
            /\ runAt' \in [runs -> Steps]
        BY <1>1, <2>1, <2>2 DEF BackupTypes, Steps
      <3> QED
        BY <1>1, <2>1, <3>1 DEF BackupTypes, Back!Stamps, Back!NoStamp
    <2>4. \A q \in runs : Staged(q)'
      BY <1>1, <2>1 DEF BackupTypes, Staged, Ours, Out
    <2>5. /\ dropping'[r] = Back(runs, seconds)!Abandoned
          /\ runAt'[r] = "tidying"
          /\ \A q \in runs : q # r => runAt'[q] = runAt[q] /\ dropping'[q] = dropping[q]
      BY <1>1, <2>1 DEF BackupTypes
    <2>6. \A q \in runs : Unfinished(q) => stamp[q] \notin dropping'[r]
      BY <2>2, <2>5 DEF Unfinished
    <2> QED
      BY <2>1, <2>3, <2>4, <2>5, <2>6, NothingWritten DEF Ours
  <1>10. CASE Back(runs, seconds)!Kill(r)
    <2>1. /\ runAt' = [runAt EXCEPT ![r] = "killed"]
          /\ dropping' = [dropping EXCEPT ![r] = {}]
          /\ UNCHANGED <<disk, copies, archived, listed, stamp, todo, live, time, published>>
      BY <1>10 DEF Back!Kill, Back!Goto
    <2>2. BackupTypes(runs, seconds)'
      BY <1>1, <2>1 DEF BackupTypes, Steps, Back!Stamps, Back!NoStamp
    <2>3. \A q \in runs : Staged(q)'
      BY <1>1, <2>1 DEF BackupTypes, Staged, Out
    <2> QED
      BY <1>1, <2>1, <2>2, <2>3, NothingWritten DEF BackupTypes, Ours
  <1> QED
    BY <1>2, <1>3, <1>4, <1>5, <1>6, <1>7, <1>8, <1>9, <1>10

(* What happens under one stamp leaves the runs alone that own another.     *)
LEMMA OthersWork ==
    ASSUME NEW runs, NEW seconds, BackupInv(runs, seconds), NEW r \in runs,
           NEW s \in Back(runs, seconds)!Stamps,
           \A q \in runs : q # r => /\ runAt'[q] = runAt[q] /\ copies'[q] = copies[q]
                                    /\ stamp'[q] = stamp[q] /\ (q \in Out' <=> q \in Out),
           \A m \in Parts, t \in Back(runs, seconds)!Stamps : t # s => disk'[m][t] = disk[m][t],
           \A q \in runs : q # r /\ Unfinished(q) => stamp[q] # s,
           \A p \in runs : runAt'[p] \in {"dropping", "tidying"} =>
              runAt[p] = runAt'[p] /\ dropping'[p] \subseteq dropping[p],
           Staged(r)',
           Unfinished(r)' => Claimed(runs, seconds, r)'
    PROVE  Work(runs, seconds)'
  <1> SUFFICES ASSUME NEW q \in runs, q # r
               PROVE  Staged(q)' /\ (Unfinished(q)' => Claimed(runs, seconds, q)')
    BY DEF Work
  <1>1. /\ runAt'[q] = runAt[q] /\ copies'[q] = copies[q] /\ stamp'[q] = stamp[q]
        /\ q \in Out' <=> q \in Out
    OBVIOUS
  <1>2. Staged(q)'
    BY <1>1 DEF BackupInv, Work, Staged
  <1>3. ASSUME Unfinished(q)' PROVE Claimed(runs, seconds, q)'
    <2>1. Unfinished(q) /\ Claimed(runs, seconds, q)
      BY <1>1, <1>3 DEF Unfinished, BackupInv, Work
    <2>2. /\ stamp[q] \in Back(runs, seconds)!Stamps /\ stamp[q] # s
          /\ stamp[q] # Back(runs, seconds)!Old
      BY <2>1 DEF Claimed
    <2>3. \A m \in Parts : disk'[m][stamp[q]] = disk[m][stamp[q]]
      BY <2>2
    <2>4. /\ disk'["manifest"][stamp[q]] = disk["manifest"][stamp[q]]
          /\ disk'["database"][stamp[q]] = disk["database"][stamp[q]]
          /\ disk'["instance"][stamp[q]] = disk["instance"][stamp[q]]
      BY <2>3 DEF Parts
    <2>5. \A p \in runs : runAt'[p] \in {"dropping", "tidying"} => stamp'[q] \notin dropping'[p]
      BY <1>1, <2>1 DEF Claimed
    <2>6. ASSUME NEW x \in runs, Unfinished(x)', stamp'[x] = stamp'[q] PROVE x = q
      <3>1. CASE x = r
        BY <1>1, <1>3, <2>6, <3>1 DEF Claimed
      <3>2. CASE x # r
        BY <1>1, <2>1, <2>6, <3>2 DEF Claimed, Unfinished
      <3> QED
        BY <3>1, <3>2
    <2> QED
      BY <1>1, <2>1, <2>2, <2>4, <2>5, <2>6 DEF Claimed, Back!Stamps, Back!Old
  <1> QED
    BY <1>2, <1>3

(* A claim: nobody owns a name that is free, and no set stands under it.    *)
LEMMA BackupClaims ==
    ASSUME NEW runs, NEW seconds, Back(runs, seconds)!BackupAssumption, BackupInv(runs, seconds),
           NEW r \in runs, Back(runs, seconds)!Claim(r)
    PROVE  BackupInv(runs, seconds)'
  <1>1. PICK n \in 1 .. Back(runs, seconds)!Cardinality(runs) :
          /\ disk["database"][<<time, n>>] = "none"
          /\ <<time, n>> \notin Back(runs, seconds)!BeingDropped
          /\ disk' = [disk EXCEPT !["database"][<<time, n>>] = "claim"]
          /\ stamp' = [stamp EXCEPT ![r] = <<time, n>>]
    BY DEF Back!Claim, Back!Free
  <1>2. /\ runAt[r] = "claiming" /\ runAt' = [runAt EXCEPT ![r] = "staging"]
        /\ UNCHANGED <<copies, archived, listed, todo, dropping, live, time, published>>
    BY DEF Back!Claim, Back!Goto
  <1> DEFINE s == <<time, n>>
  <1>3. BackupTypes(runs, seconds)
    BY DEF BackupInv
  <1>4. s \in Back(runs, seconds)!Stamps /\ s # Back(runs, seconds)!Old
    BY <1>3, StampsAre DEF BackupTypes
  <1> HIDE DEF s
  <1>5. /\ disk["database"][s] = "none" /\ s \notin Back(runs, seconds)!BeingDropped
        /\ disk' = [disk EXCEPT !["database"][s] = "claim"]
        /\ stamp' = [stamp EXCEPT ![r] = s]
    BY <1>1 DEF s
  <1>6. BackupTypes(runs, seconds)'
    <2>1. disk' \in [Parts -> [Back(runs, seconds)!Stamps -> runs \cup {"none", "claim", "legacy"}]]
      BY <1>3, <1>4, <1>5 DEF BackupTypes, Parts
    <2>2. /\ stamp' \in [runs -> Back(runs, seconds)!Stamps \cup {Back(runs, seconds)!NoStamp}]
          /\ runAt' \in [runs -> Steps]
      BY <1>2, <1>3, <1>4, <1>5 DEF BackupTypes, Steps
    <2> QED
      BY <1>2, <1>3, <2>1, <2>2 DEF BackupTypes, Back!Stamps, Back!NoStamp
  <1>7. /\ runAt'[r] = "staging" /\ stamp'[r] = s /\ Out' = Out
        /\ \A q \in runs : q # r => runAt'[q] = runAt[q] /\ stamp'[q] = stamp[q]
        /\ \A m \in Parts, t \in Back(runs, seconds)!Stamps :
              m # "database" \/ t # s => disk'[m][t] = disk[m][t]
        /\ disk'["database"][s] = "claim"
    BY <1>2, <1>3, <1>4, <1>5 DEF BackupTypes, Parts, Out
  <1>8. Staged(r) /\ \A q \in runs : Unfinished(q) => Claimed(runs, seconds, q)
    BY DEF BackupInv, Work
  <1>9. \A q \in runs : Unfinished(q) => stamp[q] # s
    <2>1. \A q \in runs : q # "none"
      BY SetsAre
    <2> QED
      BY <1>5, <1>8, <2>1 DEF Claimed
  <1>10. disk["manifest"][s] = "none"
    <2>1. "none" \notin runs
      BY SetsAre
    <2> QED
      BY <1>4, <1>5, <2>1, SetsAre
  <1>11. Staged(r)'
    BY <1>2, <1>7, <1>8 DEF Staged
  <1>12. \A p \in runs : runAt'[p] \in {"dropping", "tidying"} =>
            runAt'[p] = runAt[p] /\ dropping'[p] = dropping[p] /\ s \notin dropping[p]
    BY <1>2, <1>5, <1>7 DEF Back!BeingDropped
  <1>13. Claimed(runs, seconds, r)'
    <2>1. disk'["manifest"][s] = "none"
      BY <1>4, <1>7, <1>10 DEF Parts
    <2>2. \A q \in runs : Unfinished(q)' /\ stamp'[q] = s => q = r
      BY <1>7, <1>9 DEF Unfinished
    <2>3. \A p \in runs : runAt'[p] \in {"dropping", "tidying"} => s \notin dropping'[p]
      BY <1>12
    <2> QED
      BY <1>4, <1>7, <2>1, <2>2, <2>3 DEF Claimed, Back!Stamps, Back!Old
  <1>14. Work(runs, seconds)'
    <2>1. \A q \in runs : q # r => copies'[q] = copies[q] /\ (q \in Out' <=> q \in Out)
      BY <1>2, <1>7
    <2>2. \A p \in runs : runAt'[p] \in {"dropping", "tidying"} =>
            runAt'[p] = runAt[p] /\ dropping'[p] \subseteq dropping[p]
      BY <1>12
    <2> QED
      BY <1>4, <1>7, <1>9, <1>11, <1>13, <2>1, <2>2, OthersWork
  <1>15. \A t \in Back(runs, seconds)!Stamps : Whole(t)'
    <2> SUFFICES ASSUME NEW t \in Back(runs, seconds)!Stamps PROVE Whole(t)'
      OBVIOUS
    <2>1. /\ disk'["manifest"][t] = disk["manifest"][t] /\ disk'["instance"][t] = disk["instance"][t]
          /\ t # s => disk'["database"][t] = disk["database"][t]
      BY <1>7 DEF Parts
    <2> QED
      BY <1>7, <1>10, <2>1 DEF BackupInv, Whole
  <1>16. Retained(runs, seconds)'
    <2>1. \A t \in Back(runs, seconds)!Stamps : disk'["manifest"][t] = disk["manifest"][t]
      BY <1>7 DEF Parts
    <2> QED
      BY <1>2, <1>12, <2>1, RetentionRests
  <1>17. disk'["database"][Back(runs, seconds)!Old] = "legacy"
    BY <1>4, <1>7, StampsAre DEF BackupInv, Parts
  <1> QED
    BY <1>6, <1>14, <1>15, <1>16, <1>17 DEF BackupInv, Back!Stamps, Back!Old

(* The order of a publication: a manifest comes out last, over a set whose  *)
(* members are its run's.                                                   *)
LEMMA BackupPublishes ==
    ASSUME NEW runs, NEW seconds, Back(runs, seconds)!BackupAssumption, BackupInv(runs, seconds),
           NEW r \in runs, Back(runs, seconds)!Publish(r)
    PROVE  BackupInv(runs, seconds)'
  <1>s. PICK s : s = stamp[r]
    OBVIOUS
  <1>m. PICK m : m = Back(runs, seconds)!NextMember(r)
    OBVIOUS
  <1>1. /\ runAt[r] = "publishing" /\ copies[r] # {}
        /\ disk' = [disk EXCEPT ![m][s] = r]
        /\ copies' = [copies EXCEPT ![r] = @ \ {m}]
        /\ published' = IF m = "manifest" THEN Append(published, r) ELSE published
        /\ UNCHANGED <<archived, listed, runAt, stamp, todo, dropping, live, time>>
    BY <1>s, <1>m DEF Back!Publish
  <1>2. /\ BackupTypes(runs, seconds) /\ Staged(r)
        /\ \A q \in runs : Unfinished(q) => Claimed(runs, seconds, q)
    BY DEF BackupInv, Work
  <1>3. \/ m = "database" /\ copies[r] = Parts
        \/ m = "instance" /\ copies[r] = {"instance", "manifest"}
        \/ m = "manifest" /\ copies[r] = {"manifest"}
    BY <1>m, <1>1, <1>2 DEF Back!NextMember, Staged, Parts
  <1>4. Unfinished(r) /\ Claimed(runs, seconds, r) /\ r \notin Out
    BY <1>1, <1>2 DEF Unfinished, Ours, Staged
  <1>5. /\ m \in Parts /\ s \in Back(runs, seconds)!Stamps /\ s # Back(runs, seconds)!Old
        /\ disk["manifest"][s] = "none"
    BY <1>s, <1>3, <1>4 DEF Parts, Claimed
  <1>6. BackupTypes(runs, seconds)'
    <2>1. disk' \in [Parts -> [Back(runs, seconds)!Stamps -> runs \cup {"none", "claim", "legacy"}]]
      BY <1>1, <1>2, <1>5 DEF BackupTypes
    <2>2. copies' \in [runs -> SUBSET Parts] /\ published' \in Seq(runs)
      BY <1>1, <1>2 DEF BackupTypes
    <2> QED
      BY <1>1, <1>2, <2>1, <2>2 DEF BackupTypes, Back!Stamps, Back!NoStamp
  <1>7. /\ copies'[r] = copies[r] \ {m} /\ \A q \in runs : q # r => copies'[q] = copies[q]
        /\ disk'[m][s] = r
        /\ \A k \in Parts, t \in Back(runs, seconds)!Stamps : k # m \/ t # s => disk'[k][t] = disk[k][t]
    BY <1>1, <1>2, <1>5 DEF BackupTypes
  <1>8. Out' = IF m = "manifest" THEN Out \cup {r} ELSE Out
    <2>1. CASE m = "manifest"
      <3>1. /\ published' = Append(published, r) /\ published \in Seq(runs)
            /\ Len(published) \in Nat /\ Len(published') = Len(published) + 1
            /\ \A i \in 1 .. Len(published) : published'[i] = published[i]
            /\ published'[Len(published) + 1] = r
        BY <1>1, <1>2, <2>1 DEF BackupTypes
      <3>2. 1 .. Len(published') = (1 .. Len(published)) \cup {Len(published) + 1}
        BY <3>1
      <3> QED
        BY <2>1, <3>1, <3>2 DEF Out
    <2>2. CASE m # "manifest"
      BY <1>1, <2>2 DEF Out
    <2> QED
      BY <2>1, <2>2
  <1>9. Staged(r)'
    BY <1>1, <1>3, <1>4, <1>7, <1>8 DEF Staged, Parts
  <1>10. \A q \in runs : q # r /\ Unfinished(q) => stamp[q] # s
    BY <1>s, <1>4 DEF Claimed
  <1>11. ASSUME Unfinished(r)' PROVE Claimed(runs, seconds, r)'
    <2>1. m # "manifest"
      BY <1>8, <1>11 DEF Unfinished
    <2>2. Out' = Out /\ disk'["manifest"][s] = "none"
      BY <1>5, <1>7, <1>8, <2>1 DEF Parts
    <2>3. \A q \in runs : Unfinished(q)' /\ stamp[q] = s => q = r
      BY <1>s, <1>1, <1>10, <2>2 DEF Unfinished
    <2>4. "database" \notin copies'[r] /\ disk'["database"][s] = r
      <3>1. CASE m = "database"
        BY <1>3, <1>7, <3>1
      <3>2. CASE m = "instance"
        <4>1. "database" \notin copies[r] /\ disk'["database"][s] = disk["database"][s]
          BY <1>3, <1>5, <1>7, <3>2 DEF Parts
        <4> QED
          BY <1>s, <1>1, <1>4, <1>7, <4>1 DEF Claimed
      <3> QED
        BY <1>3, <2>1, <3>1, <3>2
    <2>5. "instance" \notin copies'[r] => disk'["instance"][s] = r
      BY <1>3, <1>7, <2>1 DEF Parts
    <2>6. \A p \in runs : runAt[p] \in {"dropping", "tidying"} => s \notin dropping[p]
      BY <1>s, <1>4 DEF Claimed
    <2> QED
      BY <1>s, <1>1, <1>5, <2>2, <2>3, <2>4, <2>5, <2>6 DEF Claimed, Back!Stamps, Back!Old
  <1>12. Work(runs, seconds)'
    <2>1. \A q \in runs : q # r => /\ runAt'[q] = runAt[q] /\ copies'[q] = copies[q]
                                   /\ stamp'[q] = stamp[q] /\ (q \in Out' <=> q \in Out)
      BY <1>1, <1>7, <1>8
    <2>2. \A k \in Parts, t \in Back(runs, seconds)!Stamps : t # s => disk'[k][t] = disk[k][t]
      BY <1>7
    <2>3. \A p \in runs : runAt'[p] \in {"dropping", "tidying"} =>
            runAt[p] = runAt'[p] /\ dropping'[p] \subseteq dropping[p]
      BY <1>1
    <2>4. Unfinished(r)' => Claimed(runs, seconds, r)'
      BY <1>11
    <2> QED
      BY <1>5, <1>9, <1>10, <2>1, <2>2, <2>3, <2>4, OthersWork
  <1>13. \A t \in Back(runs, seconds)!Stamps : Whole(t)'
    <2> SUFFICES ASSUME NEW t \in Back(runs, seconds)!Stamps PROVE Whole(t)'
      OBVIOUS
    <2>1. CASE t = s /\ m = "manifest"
      <3>1. /\ disk'["manifest"][s] = r /\ disk'["database"][s] = disk["database"][s]
            /\ disk'["instance"][s] = disk["instance"][s] /\ r \in Out'
        BY <1>5, <1>7, <1>8, <2>1 DEF Parts
      <3>2. disk["database"][s] = r /\ disk["instance"][s] = r
        BY <1>s, <1>1, <1>3, <1>4, <2>1 DEF Claimed
      <3> QED
        BY <2>1, <3>1, <3>2 DEF Whole
    <2>2. CASE t = s /\ m # "manifest"
      <3>1. disk'["manifest"][s] = "none"
        BY <1>5, <1>7, <2>2 DEF Parts
      <3> QED
        BY <2>2, <3>1 DEF Whole
    <2>3. CASE t # s
      <3>1. /\ disk'["manifest"][t] = disk["manifest"][t] /\ disk'["instance"][t] = disk["instance"][t]
            /\ disk'["database"][t] = disk["database"][t]
        BY <1>7, <2>3 DEF Parts
      <3> QED
        BY <1>8, <3>1 DEF BackupInv, Whole
    <2> QED
      BY <2>1, <2>2, <2>3
  <1>14. Retained(runs, seconds)'
    <2>1. CASE m # "manifest"
      <3>1. /\ \A t \in Back(runs, seconds)!Stamps : disk'["manifest"][t] = disk["manifest"][t]
            /\ published' = published
        BY <1>1, <1>7, <2>1 DEF Parts
      <3> QED
        BY <1>1, <3>1, RetentionRests
    <2>2. CASE m = "manifest"
      <3> DEFINE S == Back(runs, seconds)!Sets
      <3>1. /\ disk'["manifest"][s] = r
            /\ \A t \in Back(runs, seconds)!Stamps : t # s => disk'["manifest"][t] = disk["manifest"][t]
            /\ r # "none"
        BY <1>7, <2>2, SetsAre DEF Parts
      <3>2. s \notin S
        BY <1>5, SetsAre
      <3>3. Back(runs, seconds)!Sets' = S \cup {s}
        BY <1>5, <3>1 DEF Back!Sets, Back!Free, Back!Stamps
      <3>4. Cardinality(S \cup {s}) = Cardinality(S) + 1 /\ IsFiniteSet(S \cup {s})
        BY <3>2, SetsCount, FS_AddElement
      <3>5. \A t : Newer(runs, seconds, t) \subseteq Newer(runs, seconds, t)'
        BY <3>3 DEF Newer, Back!NameBefore
      <3>6. \A t : IsFiniteSet(Newer(runs, seconds, t)')
        <4>1. \A t : Newer(runs, seconds, t)' \subseteq S \cup {s}
          BY <3>3 DEF Newer
        <4> QED
          BY <3>4, <4>1, FS_Subset
      <3>7. \A t : Cardinality(Newer(runs, seconds, t)) <= Cardinality(Newer(runs, seconds, t)')
        BY <3>5, <3>6, FS_Subset
      <3>8. \A t : Cardinality(Newer(runs, seconds, t)) \in Nat /\ Cardinality(Newer(runs, seconds, t)') \in Nat
        BY <3>6, SetsCount, FS_CardinalityType
      <3>9. Keep \in Nat /\ Cardinality(S) \in Nat
        BY SetsCount DEF Back!BackupAssumption
      <3>10. ASSUME NEW p \in runs, runAt'[p] = "dropping", NEW t \in dropping'[p]
             PROVE  t # Back(runs, seconds)!Old /\ Cardinality(Newer(runs, seconds, t)') >= Keep
        <4>1. t # Back(runs, seconds)!Old /\ Cardinality(Newer(runs, seconds, t)) >= Keep
          BY <1>1, <3>10 DEF BackupInv, Retained
        <4> QED
          BY <4>1, <3>7, <3>8, <3>9
      <3>11. Len(published') = Len(published) + 1 /\ Len(published) \in Nat
        BY <1>1, <1>2, <2>2 DEF BackupTypes
      <3>12. \/ Cardinality(Back(runs, seconds)!Sets') >= Keep
             \/ Cardinality(Back(runs, seconds)!Sets') >= Len(published')
        <4>1. Cardinality(S) >= Keep \/ Cardinality(S) >= Len(published)
          BY DEF BackupInv, Retained
        <4> QED
          BY <4>1, <3>3, <3>4, <3>9, <3>11
      <3> QED
        BY <3>10, <3>12 DEF Retained, Back!Old
    <2> QED
      BY <2>1, <2>2
  <1>15. disk'["database"][Back(runs, seconds)!Old] = "legacy"
    BY <1>5, <1>7, StampsAre DEF BackupInv, Parts
  <1> QED
    BY <1>6, <1>12, <1>13, <1>14, <1>15 DEF BackupInv, Back!Stamps, Back!Old

(* Retention drops what nobody owns, and only while enough newer sets stand. *)
LEMMA BackupDrops ==
    ASSUME NEW runs, NEW seconds, Back(runs, seconds)!BackupAssumption, BackupInv(runs, seconds),
           NEW r \in runs, Back(runs, seconds)!Drop(r)
    PROVE  BackupInv(runs, seconds)'
  <1>1. PICK s \in dropping[r] :
          \E m \in Parts :
            /\ m = IF disk["manifest"][s] # "none" THEN "manifest"
                   ELSE IF disk["database"][s] # "none" THEN "database" ELSE "instance"
            /\ disk' = [disk EXCEPT ![m][s] = "none"]
            /\ dropping' = [dropping EXCEPT ![r] = IF m = "instance" THEN @ \ {s} ELSE @]
    BY DEF Back!Drop, Back!Free, Parts
  <1>2. PICK m \in Parts :
            /\ m = IF disk["manifest"][s] # "none" THEN "manifest"
                   ELSE IF disk["database"][s] # "none" THEN "database" ELSE "instance"
            /\ disk' = [disk EXCEPT ![m][s] = "none"]
            /\ dropping' = [dropping EXCEPT ![r] = IF m = "instance" THEN @ \ {s} ELSE @]
    BY <1>1
  <1>3. /\ runAt[r] = "dropping"
        /\ UNCHANGED <<copies, archived, listed, runAt, stamp, todo, live, time, published>>
    BY DEF Back!Drop
  <1>4. /\ BackupTypes(runs, seconds) /\ Retained(runs, seconds)
        /\ \A q \in runs : Staged(q) /\ (Unfinished(q) => Claimed(runs, seconds, q))
    BY DEF BackupInv, Work
  <1>5. /\ s \in Back(runs, seconds)!Stamps /\ s # Back(runs, seconds)!Old
        /\ Cardinality(Newer(runs, seconds, s)) >= Keep
    BY <1>3, <1>4 DEF BackupTypes, Retained
  <1>6. \A q \in runs : Unfinished(q) => stamp[q] # s
    BY <1>3, <1>4 DEF Claimed
  <1>7. /\ disk'[m][s] = "none"
        /\ \A k \in Parts, t \in Back(runs, seconds)!Stamps : k # m \/ t # s => disk'[k][t] = disk[k][t]
        /\ \A p \in runs : dropping'[p] \subseteq dropping[p]
        /\ Out' = Out
    BY <1>2, <1>3, <1>4, <1>5 DEF BackupTypes, Out
  <1>8. BackupTypes(runs, seconds)'
    <2>1. disk' \in [Parts -> [Back(runs, seconds)!Stamps -> runs \cup {"none", "claim", "legacy"}]]
      BY <1>2, <1>4, <1>5 DEF BackupTypes
    <2>2. dropping' \in [runs -> SUBSET Back(runs, seconds)!Stamps]
      BY <1>2, <1>4 DEF BackupTypes
    <2> QED
      BY <1>3, <1>4, <2>1, <2>2 DEF BackupTypes, Back!Stamps, Back!NoStamp
  <1>9. disk'["manifest"][s] = "none"
    BY <1>2, <1>5, <1>7 DEF Parts
  <1>10. Work(runs, seconds)'
    <2>1. ~Unfinished(r)' /\ Staged(r)'
      BY <1>3 DEF Unfinished, Ours, Staged
    <2>2. \A q \in runs : q # r => /\ runAt'[q] = runAt[q] /\ copies'[q] = copies[q]
                                   /\ stamp'[q] = stamp[q] /\ (q \in Out' <=> q \in Out)
      BY <1>3, <1>7
    <2>3. \A k \in Parts, t \in Back(runs, seconds)!Stamps : t # s => disk'[k][t] = disk[k][t]
      BY <1>7
    <2>4. \A p \in runs : runAt'[p] \in {"dropping", "tidying"} =>
            runAt[p] = runAt'[p] /\ dropping'[p] \subseteq dropping[p]
      BY <1>3, <1>7
    <2> QED
      BY <1>5, <1>6, <2>1, <2>2, <2>3, <2>4, OthersWork
  <1>11. \A t \in Back(runs, seconds)!Stamps : Whole(t)'
    <2> SUFFICES ASSUME NEW t \in Back(runs, seconds)!Stamps PROVE Whole(t)'
      OBVIOUS
    <2>1. CASE t = s
      BY <1>9, <2>1 DEF Whole
    <2>2. CASE t # s
      <3>1. /\ disk'["manifest"][t] = disk["manifest"][t] /\ disk'["instance"][t] = disk["instance"][t]
            /\ disk'["database"][t] = disk["database"][t]
        BY <1>7, <2>2 DEF Parts
      <3> QED
        BY <1>7, <3>1 DEF BackupInv, Whole
    <2> QED
      BY <2>1, <2>2
  <1>12. Retained(runs, seconds)'
    <2>1. CASE m # "manifest"
      <3>1. \A t \in Back(runs, seconds)!Stamps : disk'["manifest"][t] = disk["manifest"][t]
        BY <1>7, <2>1 DEF Parts
      <3> QED
        BY <1>3, <1>7, <3>1, RetentionRests
    <2>2. CASE m = "manifest"
      <3> DEFINE S == Back(runs, seconds)!Sets
      <3>1. Back(runs, seconds)!Sets' = S \ {s}
        <4>1. \A t \in Back(runs, seconds)!Stamps : t # s => disk'["manifest"][t] = disk["manifest"][t]
          BY <1>7 DEF Parts
        <4> QED
          BY <1>9, <4>1 DEF Back!Sets, Back!Free, Back!Stamps
      <3>2. \A t : Newer(runs, seconds, t)' = Newer(runs, seconds, t) \ {s}
        BY <3>1 DEF Newer, Back!NameBefore
      <3>3. Newer(runs, seconds, s) \subseteq S \ {s}
        BY <1>5, StampsAre DEF Newer
      <3>4. ASSUME NEW t \in Back(runs, seconds)!Stamps, Cardinality(Newer(runs, seconds, t)) >= Keep
            PROVE  Cardinality(Newer(runs, seconds, t)') >= Keep
        <4>1. CASE s \in Newer(runs, seconds, t)
          <5>1. Back(runs, seconds)!NameBefore(t, s)
            BY <4>1 DEF Newer
          <5>2. \A u \in S : u \in Back(runs, seconds)!Stamps
            BY DEF Back!Sets
          <5>3. Newer(runs, seconds, s) \subseteq Newer(runs, seconds, t) \ {s}
            BY <1>5, <3>3, <5>1, <5>2, StampsAre DEF Newer
          <5>4. IsFiniteSet(Newer(runs, seconds, t) \ {s})
            BY SetsCount, FS_Subset
          <5>5. Cardinality(Newer(runs, seconds, s)) <= Cardinality(Newer(runs, seconds, t) \ {s})
            BY <5>3, <5>4, FS_Subset
          <5>6. /\ Cardinality(Newer(runs, seconds, t) \ {s}) \in Nat
                /\ Cardinality(Newer(runs, seconds, s)) \in Nat /\ Keep \in Nat
            BY <5>4, SetsCount, FS_CardinalityType DEF Back!BackupAssumption
          <5> QED
            BY <1>5, <3>2, <5>5, <5>6
        <4>2. CASE s \notin Newer(runs, seconds, t)
          <5>1. Newer(runs, seconds, t)' = Newer(runs, seconds, t)
            BY <3>2, <4>2
          <5> QED
            BY <3>4, <5>1
        <4> QED
          BY <4>1, <4>2
      <3>5. ASSUME NEW p \in runs, runAt'[p] = "dropping", NEW t \in dropping'[p]
            PROVE  t # Back(runs, seconds)!Old /\ Cardinality(Newer(runs, seconds, t)') >= Keep
        <4>1. /\ t \in Back(runs, seconds)!Stamps /\ t # Back(runs, seconds)!Old
              /\ Cardinality(Newer(runs, seconds, t)) >= Keep
          BY <1>3, <1>4, <1>7, <3>5 DEF BackupTypes, Retained
        <4> QED
          BY <3>4, <4>1
      <3>6. Cardinality(S \ {s}) >= Keep
        <4>1. IsFiniteSet(S \ {s})
          BY SetsCount, FS_Subset
        <4>2. Cardinality(Newer(runs, seconds, s)) <= Cardinality(S \ {s})
          BY <3>3, <4>1, FS_Subset
        <4>3. /\ Cardinality(S \ {s}) \in Nat
              /\ Cardinality(Newer(runs, seconds, s)) \in Nat /\ Keep \in Nat
          BY <4>1, SetsCount, FS_CardinalityType DEF Back!BackupAssumption
        <4> QED
          BY <1>5, <4>2, <4>3
      <3> QED
        BY <3>1, <3>5, <3>6 DEF Retained, Back!Old
    <2> QED
      BY <2>1, <2>2
  <1>13. disk'["database"][Back(runs, seconds)!Old] = "legacy"
    BY <1>5, <1>7, StampsAre DEF BackupInv, Parts
  <1> QED
    BY <1>8, <1>10, <1>11, <1>12, <1>13 DEF BackupInv, Back!Stamps, Back!Old

(* The sweep of abandoned claims: it takes no claim that a run still holds, *)
(* and no member of a set.                                                  *)
LEMMA BackupUnlinks ==
    ASSUME NEW runs, NEW seconds, Back(runs, seconds)!BackupAssumption, BackupInv(runs, seconds),
           NEW r \in runs, Back(runs, seconds)!Unlink(r)
    PROVE  BackupInv(runs, seconds)'
  <1>1. /\ runAt[r] = "tidying" /\ runAt' = [runAt EXCEPT ![r] = "done"]
        /\ dropping' = [dropping EXCEPT ![r] = {}]
        /\ disk' = [disk EXCEPT !["database"] =
                      [s \in Back(runs, seconds)!Stamps |->
                         IF s \in dropping[r] /\ @[s] = "claim" THEN "none" ELSE @[s]]]
        /\ UNCHANGED <<copies, archived, listed, stamp, todo, live, time, published>>
    BY DEF Back!Unlink, Back!Goto, Back!WithoutClaims
  <1>2. /\ BackupTypes(runs, seconds) /\ Staged(r)
        /\ \A q \in runs : Staged(q) /\ (Unfinished(q) => Claimed(runs, seconds, q))
    BY DEF BackupInv, Work
  <1>3. /\ \A m \in Parts, t \in Back(runs, seconds)!Stamps :
              m # "database" => disk'[m][t] = disk[m][t]
        /\ \A t \in Back(runs, seconds)!Stamps :
              disk'["database"][t] =
                 IF t \in dropping[r] /\ disk["database"][t] = "claim"
                 THEN "none" ELSE disk["database"][t]
    BY <1>1, <1>2 DEF BackupTypes, Parts
  <1>4. /\ runAt'[r] = "done" /\ dropping'[r] = {} /\ Out' = Out
        /\ \A q \in runs : q # r => runAt'[q] = runAt[q] /\ dropping'[q] = dropping[q]
    BY <1>1, <1>2 DEF BackupTypes, Out
  <1>5. BackupTypes(runs, seconds)'
    <2>1. disk' \in [Parts -> [Back(runs, seconds)!Stamps -> runs \cup {"none", "claim", "legacy"}]]
      BY <1>1, <1>2 DEF BackupTypes, Parts
    <2>2. runAt' \in [runs -> Steps] /\ dropping' \in [runs -> SUBSET Back(runs, seconds)!Stamps]
      BY <1>1, <1>2 DEF BackupTypes, Steps
    <2> QED
      BY <1>1, <1>2, <2>1, <2>2 DEF BackupTypes, Back!Stamps, Back!NoStamp
  <1>6. \A s \in Back(runs, seconds)!Stamps : disk'["manifest"][s] = disk["manifest"][s]
    BY <1>3 DEF Parts
  <1>7. Retained(runs, seconds)'
    <2>1. \A p \in runs : runAt'[p] = "dropping" =>
            runAt[p] = "dropping" /\ dropping'[p] \subseteq dropping[p]
      BY <1>4
    <2> QED
      BY <1>1, <1>6, <2>1, RetentionRests
  <1>8. ASSUME NEW q \in runs, Unfinished(q)' PROVE Claimed(runs, seconds, q)'
    <2>1. /\ q # r /\ Unfinished(q) /\ Claimed(runs, seconds, q)
          /\ runAt'[q] = runAt[q] /\ copies'[q] = copies[q] /\ stamp'[q] = stamp[q]
      BY <1>1, <1>2, <1>4, <1>8 DEF Unfinished, Ours
    <2>2. /\ stamp[q] \in Back(runs, seconds)!Stamps /\ stamp[q] # Back(runs, seconds)!Old
          /\ stamp[q] \notin dropping[r]
      BY <1>1, <2>1 DEF Claimed
    <2>3. /\ disk'["manifest"][stamp[q]] = disk["manifest"][stamp[q]]
          /\ disk'["database"][stamp[q]] = disk["database"][stamp[q]]
          /\ disk'["instance"][stamp[q]] = disk["instance"][stamp[q]]
      BY <1>3, <2>2 DEF Parts
    <2>4. \A p \in runs : runAt'[p] \in {"dropping", "tidying"} => stamp[q] \notin dropping'[p]
      BY <1>4, <2>1 DEF Claimed
    <2>5. \A x \in runs : Unfinished(x)' /\ stamp'[x] = stamp[q] => x = q
      <3>1. \A x \in runs : Unfinished(x)' => Unfinished(x)
        BY <1>4 DEF Unfinished, Ours
      <3> QED
        BY <1>1, <2>1, <3>1 DEF Claimed
    <2> QED
      BY <2>1, <2>2, <2>3, <2>4, <2>5 DEF Claimed, Back!Stamps, Back!Old
  <1>9. ASSUME NEW q \in runs PROVE Staged(q)'
    <2>1. CASE q = r
      BY <1>4, <2>1 DEF Staged
    <2>2. CASE q # r
      BY <1>1, <1>2, <1>4, <2>2 DEF Staged
    <2> QED
      BY <2>1, <2>2
  <1>10. ASSUME NEW t \in Back(runs, seconds)!Stamps PROVE Whole(t)'
    <2>1. Whole(t) /\ Out \subseteq runs /\ "claim" \notin runs
      BY SetsAre DEF BackupInv
    <2>2. /\ disk'["manifest"][t] = disk["manifest"][t] /\ disk'["instance"][t] = disk["instance"][t]
          /\ disk["database"][t] # "claim" => disk'["database"][t] = disk["database"][t]
      BY <1>3 DEF Parts
    <2> QED
      BY <1>4, <2>1, <2>2 DEF Whole
  <1>11. disk'["database"][Back(runs, seconds)!Old] = "legacy"
    BY <1>3, StampsAre DEF BackupInv
  <1> QED
    BY <1>5, <1>7, <1>8, <1>9, <1>10, <1>11 DEF BackupInv, Work, Back!Stamps, Back!Old

(* The application beside the script, and the clock.                        *)
LEMMA BackupWaits ==
    ASSUME NEW runs, NEW seconds, Back(runs, seconds)!BackupAssumption, BackupInv(runs, seconds),
           \/ Back(runs, seconds)!Edit \/ Back(runs, seconds)!Tick
           \/ UNCHANGED Back(runs, seconds)!vars
    PROVE  BackupInv(runs, seconds)'
  <1>1. /\ UNCHANGED <<disk, copies, archived, listed, runAt, stamp, todo, dropping, published>>
        /\ live' = live \/ \E f \in Files : live' = (live \ {f}) \cup ({f} \ live)
        /\ time' = time \/ (time < seconds /\ time' = time + 1)
    BY DEF Back!Edit, Back!Tick, Back!vars
  <1>2. BackupTypes(runs, seconds) /\ \A q \in runs : Staged(q)
    BY DEF BackupInv, Work
  <1>3. live' \in SUBSET Files
    BY <1>1, <1>2 DEF BackupTypes
  <1>4. time' \in 1 .. seconds
    BY <1>1, <1>2 DEF BackupTypes, Back!BackupAssumption
  <1>5. BackupTypes(runs, seconds)'
    BY <1>1, <1>2, <1>3, <1>4 DEF BackupTypes, Back!Stamps, Back!NoStamp
  <1>6. \A q \in runs : Staged(q)'
    BY <1>1, <1>2 DEF Staged, Out
  <1> QED
    BY <1>1, <1>5, <1>6, NothingWritten

LEMMA BackupStarts ==
    ASSUME NEW runs, NEW seconds, Back(runs, seconds)!BackupAssumption, Back(runs, seconds)!Init
    PROVE  BackupInv(runs, seconds)
  <1> USE DEF Back!Init
  <1>1. Back(runs, seconds)!Old \in Back(runs, seconds)!Stamps
    BY StampsAre
  <1>2. BackupTypes(runs, seconds)
    <2>1. disk \in [Parts -> [Back(runs, seconds)!Stamps -> runs \cup {"none", "claim", "legacy"}]]
      BY DEF Parts, Back!Members
    <2> QED
      BY <2>1 DEF BackupTypes, Steps, Back!BackupAssumption
  <1>3. \A s \in Back(runs, seconds)!Stamps : disk["manifest"][s] = "none"
    BY DEF Back!Members
  <1>4. disk["database"][Back(runs, seconds)!Old] = "legacy"
    BY <1>1 DEF Back!Members
  <1>5. Out = {}
    BY DEF Out
  <1>6. Work(runs, seconds)
    BY <1>5 DEF Work, Staged, Unfinished, Ours
  <1>7. Retained(runs, seconds)
    <2>1. Len(published) = 0 /\ Cardinality(Back(runs, seconds)!Sets) \in Nat
      BY SetsCount
    <2> QED
      BY <2>1 DEF Retained
  <1> QED
    BY <1>2, <1>3, <1>4, <1>6, <1>7 DEF BackupInv, Whole

LEMMA BackupContinues ==
    ASSUME NEW runs, NEW seconds, Back(runs, seconds)!BackupAssumption, BackupInv(runs, seconds),
           [Back(runs, seconds)!Next]_(Back(runs, seconds)!vars)
    PROVE  BackupInv(runs, seconds)'
  BY BackupRests, BackupClaims, BackupPublishes, BackupDrops, BackupUnlinks, BackupWaits
  DEF Back!Next, Back!Run

(* What the invariant means for the sets and for the runs.                  *)
LEMMA BackupMeans ==
    ASSUME NEW runs, NEW seconds, Back(runs, seconds)!BackupAssumption, BackupInv(runs, seconds)
    PROVE  Back(runs, seconds)!BackupsHold
  <1>1. /\ BackupTypes(runs, seconds) /\ Retained(runs, seconds)
        /\ \A q \in runs : Staged(q) /\ (Unfinished(q) => Claimed(runs, seconds, q))
    BY DEF BackupInv, Work
  <1>2. Back(runs, seconds)!SetsAreWhole
    <2> SUFFICES ASSUME NEW s \in Back(runs, seconds)!Sets PROVE Back(runs, seconds)!Verifies(s)
      BY DEF Back!SetsAreWhole
    <2>1. Whole(s) /\ disk["manifest"][s] # "none" /\ listed = archived
      BY <1>1, SetsAre DEF BackupInv, BackupTypes
    <2> QED
      BY <2>1 DEF Whole, Back!Verifies
  <1>3. Back(runs, seconds)!LiveWorkKept
    <2> SUFFICES ASSUME NEW r \in runs, Unfinished(r)
                 PROVE  /\ disk["database"][stamp[r]] \in {"claim", r}
                        /\ runAt[r] # "staging" =>
                              \A m \in Parts : m \in copies[r] \/ disk[m][stamp[r]] = r
      BY SetsAre DEF Back!LiveWorkKept, Back!Holding, Back!Members, Unfinished, Ours, Parts, BackupInv
    <2>1. Claimed(runs, seconds, r) /\ Staged(r) /\ r \notin Out
      BY <1>1 DEF Unfinished
    <2>2. disk["database"][stamp[r]] \in {"claim", r}
      BY <2>1 DEF Claimed
    <2>3. CASE runAt[r] = "publishing"
      <3>1. copies[r] \in {Parts, {"instance", "manifest"}, {"manifest"}}
        BY <2>1, <2>3 DEF Staged
      <3>2. "manifest" \in copies[r]
        BY <3>1 DEF Parts
      <3>3. /\ "database" \notin copies[r] => disk["database"][stamp[r]] = r
            /\ "instance" \notin copies[r] => disk["instance"][stamp[r]] = r
        BY <2>1, <2>3 DEF Claimed
      <3> QED
        BY <2>2, <3>2, <3>3 DEF Parts
    <2>4. CASE runAt[r] \in {"snapshot", "archiving"}
      BY <2>1, <2>2, <2>4 DEF Staged
    <2> QED
      BY <2>2, <2>3, <2>4 DEF Unfinished, Ours
  <1>4. Back(runs, seconds)!SetsRemain
    <2>1. Back(runs, seconds)!Cardinality(Back(runs, seconds)!Sets) = Cardinality(Back(runs, seconds)!Sets)
      BY DEF Back!Cardinality, Cardinality
    <2> QED
      BY <1>1, <2>1 DEF Retained, Back!SetsRemain
  <1> QED
    BY <1>2, <1>3, <1>4 DEF Back!BackupsHold

LEMMA BackupScene ==
    ASSUME [SceneNext]_all, scene' = "backup"
    PROVE  scene = "backup" /\ [Back(Processes, 1)!Next]_(Back(Processes, 1)!vars)
  BY DEF SceneNext, all, state, Back!vars

LEMMA NightlyScene ==
    ASSUME [SceneNext]_all, scene' = "nightly"
    PROVE  scene = "nightly" /\ [Back(Nightly, Seconds)!Next]_(Back(Nightly, Seconds)!vars)
  BY DEF SceneNext, all, state, Back!vars

(* However many runs of scripts/backup_db.py overlap, fail or are killed at *)
(* any step, within one second or over many: every set that has a manifest  *)
(* verifies, no pass takes what a run at work has claimed, staged or        *)
(* published, and the passes together leave --keep sets.                    *)
THEOREM BackupsStand == SceneSpec => []BackupsHold
  <1> DEFINE Inv == /\ scene = "backup" => BackupInv(Processes, 1)
                    /\ scene = "nightly" => BackupInv(Nightly, Seconds)
  <1>1. SceneInit => Inv
    BY BackupStarts, RecoveryAssumption DEF SceneInit
  <1>2. Inv /\ [SceneNext]_all => Inv'
    BY BackupScene, NightlyScene, BackupContinues, RecoveryAssumption
  <1>3. Inv => BackupsHold
    BY BackupMeans, RecoveryAssumption DEF BackupsHold
  <1> QED
    BY <1>1, <1>2, <1>3, PTL DEF SceneSpec

-----------------------------------------------------------------------------
(* Deliveries.  What a target holds of the source is always the numbers     *)
(* 1 to m: a file that shares its history brings m + 1 to n.  The variables *)
(* of Delivery, as the scene holds them:                                    *)
log      == v1
file     == v2
received == v3
build    == v4
step     == v5
USE DEF log, file, received, build, step

Stream(m) == [k \in 1 .. m |-> k]

Databases == [applied : Seq(Nat), calendar : Int, ids : BOOLEAN, counter : Int]

\* The first m events, the calendar that goes with them, and ids past them all.
Mirrors(t, m) ==
    /\ m <= Len(log)
    /\ t.applied = Stream(m) /\ t.calendar >= Deliver!Edits(m) /\ t.counter >= m

TargetOK(t) ==
    /\ t \in Databases
    /\ \/ t = Deliver!NoDatabase
       \/ \E m \in Nat : Mirrors(t, m)
       \/ \E m \in Nat : t.applied = Append(Stream(m), 0)

FileOK(f) ==
    /\ f \in [at : {"none", "events", "done"}, n : Nat, calendar : Nat, ids : BOOLEAN]
    /\ f.n <= Len(log)
    /\ f.at = "done" => f.calendar >= Deliver!Edits(f.n)

DeliveryInv ==
    /\ log \in Seq({"calendar", "row"})
    /\ DOMAIN file = Exports /\ \A x \in Exports : FileOK(file[x])
    /\ TargetOK(received)
    /\ step \in Exports \cup {"idle", "built"}
    /\ step # "idle" => received = Deliver!NoDatabase
    /\ step \in Exports => build = Deliver!Empty /\ file[step].at = "done"
    /\ step = "built" => build \in Databases /\ \E m \in Nat : Mirrors(build, m)

(* The library's operators, as Delivery takes them in.                      *)
LEMMA CountsTheSame == ASSUME NEW S PROVE Deliver!Cardinality(S) = Cardinality(S)
  BY DEF Deliver!Cardinality, Cardinality

LEMMA InOrderIs ==
    ASSUME NEW m \in Nat, NEW n \in Nat, m <= n
    PROVE  Deliver!InOrder((1 .. n) \ (1 .. m)) = [i \in 1 .. n - m |-> m + i]
  <1> DEFINE S == m + 1 .. n
  <1>1. (1 .. n) \ (1 .. m) = S
    OBVIOUS
  <1>2. Deliver!Cardinality(S) = n - m
    <2>1. m + 1 \in Int /\ n \in Int
      OBVIOUS
    <2>2. Cardinality(S) = IF m + 1 > n THEN 0 ELSE n - (m + 1) + 1
      BY <2>1, FS_Interval
    <2> HIDE DEF S
    <2> QED
      BY <2>2, CountsTheSame
  <1>3. ASSUME NEW k \in S PROVE Deliver!Cardinality({j \in S : j <= k}) = k - m
    <2>1. {j \in S : j <= k} = m + 1 .. k
      OBVIOUS
    <2>2. m + 1 \in Int /\ k \in Int /\ k > m
      OBVIOUS
    <2>3. Cardinality(m + 1 .. k) = IF m + 1 > k THEN 0 ELSE k - (m + 1) + 1
      BY <2>2, FS_Interval
    <2>4. Deliver!Cardinality(m + 1 .. k) = k - m
      BY <2>2, <2>3, CountsTheSame
    <2> QED
      BY <2>1, <2>4
  <1>4. ASSUME NEW i \in 1 .. n - m
        PROVE  (CHOOSE k \in S : Deliver!Cardinality({j \in S : j <= k}) = i) = m + i
    <2>1. m + i \in S /\ (m + i) - m = i
      OBVIOUS
    <2>2. Deliver!Cardinality({j \in S : j <= m + i}) = i
      BY <1>3, <2>1
    <2>3. ASSUME NEW k \in S, Deliver!Cardinality({j \in S : j <= k}) = i PROVE k = m + i
      BY <1>3, <2>3
    <2> HIDE DEF S
    <2> QED
      BY <2>1, <2>2, <2>3
  <1>5. Deliver!InOrder(S) =
          [i \in 1 .. n - m |-> CHOOSE k \in S : Deliver!Cardinality({j \in S : j <= k}) = i]
    BY <1>2 DEF Deliver!InOrder
  <1> HIDE DEF S
  <1> QED
    BY <1>1, <1>4, <1>5

LEMMA Streams ==
    ASSUME NEW m \in Nat
    PROVE  /\ Stream(m) \in Seq(Nat) /\ Len(Stream(m)) = m /\ DOMAIN Stream(m) = 1 .. m
           /\ \A k \in 1 .. m : Stream(m)[k] = k
           /\ Deliver!Range(Stream(m)) = 1 .. m
           /\ 0 \notin Deliver!Range(Stream(m))
           /\ m = 0 <=> Stream(m) = <<>>
  BY DEF Stream, Deliver!Range

LEMMA Used ==
    ASSUME NEW m \in Nat
    PROVE  LET s == Append(Stream(m), 0)
           IN  /\ s \in Seq(Nat) /\ Len(s) = m + 1 /\ DOMAIN s = 1 .. m + 1
               /\ \A k \in 1 .. m : s[k] = k /\ s[m + 1] = 0
               /\ 0 \in Deliver!Range(s)
  <1>1. Stream(m) \in Seq(Nat) /\ Len(Stream(m)) = m /\ \A k \in 1 .. m : Stream(m)[k] = k
    BY Streams
  <1> DEFINE s == Append(Stream(m), 0)
  <1>2. /\ s \in Seq(Nat) /\ Len(s) = m + 1 /\ DOMAIN s = 1 .. m + 1
        /\ \A k \in 1 .. m : s[k] = k
        /\ s[m + 1] = 0
    BY <1>1
  <1> HIDE DEF s
  <1>3. 0 \in Deliver!Range(s)
    BY <1>2 DEF Deliver!Range
  <1> QED
    BY <1>2, <1>3 DEF s

(* m events and the missing ones make n.                                    *)
LEMMA Joined ==
    ASSUME NEW m \in Nat, NEW n \in Nat, m <= n
    PROVE  Stream(m) \o [i \in 1 .. n - m |-> m + i] = Stream(n)
  <1> DEFINE e == [i \in 1 .. n - m |-> m + i]
  <1>1. e \in Seq(Nat) /\ Len(e) = n - m /\ \A i \in 1 .. n - m : e[i] = m + i
    OBVIOUS
  <1>2. Stream(m) \in Seq(Nat) /\ Len(Stream(m)) = m /\ \A k \in 1 .. m : Stream(m)[k] = k
    BY Streams
  <1>3. Stream(n) \in Seq(Nat) /\ Len(Stream(n)) = n /\ \A k \in 1 .. n : Stream(n)[k] = k
    BY Streams
  <1> HIDE DEF e
  <1>4. /\ Stream(m) \o e \in Seq(Nat) /\ Len(Stream(m) \o e) = n
        /\ \A k \in 1 .. n : (Stream(m) \o e)[k] = k
    BY <1>1, <1>2
  <1>5. ASSUME NEW s \in Seq(Nat), NEW t \in Seq(Nat), Len(s) = n, Len(t) = n,
               \A k \in 1 .. n : s[k] = t[k]
        PROVE  s = t
    BY <1>5
  <1> QED
    BY <1>3, <1>4, <1>5 DEF e

(* The calendar's edits.                                                    *)
LEMMA Counts ==
    ASSUME NEW m \in Nat, NEW n \in Nat, m <= n
    PROVE  /\ Deliver!Edits(m) \in Nat /\ Deliver!Edits(n) \in Nat
           /\ Deliver!Edits(m) <= Deliver!Edits(n)
  <1> DEFINE C(l) == {k \in 1 .. l : log[k] = "calendar"}
  <1>1. IsFiniteSet(1 .. n)
    BY FS_Interval
  <1>2. C(n) \in SUBSET (1 .. n) /\ C(m) \in SUBSET C(n)
    OBVIOUS
  <1>3. Deliver!Edits(m) = Cardinality(C(m)) /\ Deliver!Edits(n) = Cardinality(C(n))
    BY CountsTheSame DEF Deliver!Edits
  <1> HIDE DEF C
  <1> QED
    BY <1>1, <1>2, <1>3, FS_Subset, FS_CardinalityType

(* What a delivery makes of a target that it does not refuse.               *)
LEMMA Brings ==
    ASSUME NEW t \in Databases, NEW f, FileOK(f), f.at = "done",
           NEW m \in Nat, m <= f.n, t.applied = Stream(m), t.calendar \in Int, t.counter >= m,
           m = 0 \/ (t.ids /\ f.ids)
    PROVE  Deliver!Delivered(t, f) \in Databases /\ Mirrors(Deliver!Delivered(t, f), f.n)
  <1>1. f.n \in Nat /\ f.calendar \in Nat /\ f.ids \in BOOLEAN
    BY DEF FileOK
  <1>2. Deliver!Missing(t, f) = [i \in 1 .. f.n - m |-> m + i]
    <2>1. Deliver!Held(t) = 1 .. m
      BY Streams DEF Deliver!Held
    <2>2. (1 .. f.n) \ (IF f.ids /\ t.ids THEN Deliver!Held(t) ELSE {}) = (1 .. f.n) \ (1 .. m)
      BY <2>1
    <2> QED
      BY <1>1, <2>2, InOrderIs DEF Deliver!Missing
  <1>3. t.applied \o Deliver!Missing(t, f) = Stream(f.n)
    BY <1>1, <1>2, Joined
  <1> DEFINE d == Deliver!Delivered(t, f)
  <1>4. /\ d.applied = Stream(f.n) /\ d.calendar = f.calendar
        /\ d.counter = IF f.n > t.counter THEN f.n ELSE t.counter
    BY <1>3 DEF Deliver!Delivered
  <1>5. d \in Databases
    BY <1>1, <1>3, Streams DEF Deliver!Delivered, Databases
  <1>6. d.counter >= f.n
    BY <1>1, <1>4 DEF Databases
  <1> HIDE DEF d
  <1> QED
    BY <1>1, <1>4, <1>5, <1>6 DEF Mirrors, FileOK, d

LEMMA Forward ==
    ASSUME NEW m \in Nat, NEW n \in Nat, m <= n
    PROVE  Deliver!IsPrefix(Stream(m), Stream(n))
  <1>1. /\ Stream(m) \in Seq(Nat) /\ Len(Stream(m)) = m
        /\ Stream(n) \in Seq(Nat) /\ Len(Stream(n)) = n
        /\ \A k \in 1 .. m : Stream(m)[k] = k /\ Stream(n)[k] = k
    BY Streams
  <1>2. SubSeq(Stream(m), 1, m) = SubSeq(Stream(n), 1, m)
    BY <1>1
  <1> QED
    BY <1>1, <1>2 DEF Deliver!IsPrefix

LEMMA Stays ==
    ASSUME NEW s \in Seq(Nat) PROVE Deliver!IsPrefix(s, s)
  BY DEF Deliver!IsPrefix

(* What the run asserts of a state.                                         *)
LEMMA TargetSays ==
    ASSUME DeliveryInv PROVE Deliver!HoldsAPrefix /\ Deliver!LedgerNotAhead
  <1>1. CASE received = Deliver!NoDatabase
    BY <1>1 DEF Deliver!NoDatabase, Deliver!HoldsAPrefix, Deliver!LedgerNotAhead
  <1>2. ASSUME NEW m \in Nat, Mirrors(received, m)
        PROVE  Deliver!HoldsAPrefix /\ Deliver!LedgerNotAhead
    <2>1. /\ DOMAIN received.applied = 1 .. m /\ Len(received.applied) = m
          /\ Deliver!Held(received) = 1 .. m
          /\ \A k \in 1 .. m : received.applied[k] = k
      BY <1>2, Streams DEF Mirrors, Deliver!Held
    <2>2. Deliver!HoldsAPrefix
      BY <2>1 DEF Deliver!HoldsAPrefix
    <2>3. received.calendar >= Deliver!Edits(Len(received.applied))
      BY <1>2, <2>1 DEF Mirrors
    <2>4. \A k \in Deliver!Held(received) : k <= received.counter
      BY <1>2, <2>1 DEF Mirrors, DeliveryInv, TargetOK, Databases
    <2> QED
      BY <2>2, <2>3, <2>4 DEF Deliver!LedgerNotAhead
  <1>3. ASSUME NEW m \in Nat, received.applied = Append(Stream(m), 0)
        PROVE  Deliver!HoldsAPrefix /\ Deliver!LedgerNotAhead
    <2>1. /\ DOMAIN received.applied = 1 .. m + 1 /\ Len(received.applied) = m + 1
          /\ \A k \in 1 .. m : received.applied[k] = k
          /\ received.applied[m + 1] = 0 /\ 0 \in Deliver!Range(received.applied)
      BY <1>3, Used
    <2>2. \A k \in 1 .. m + 1 : k \in 1 .. m \/ k = m + 1
      OBVIOUS
    <2>3. Deliver!HoldsAPrefix
      BY <2>1, <2>2 DEF Deliver!HoldsAPrefix
    <2> QED
      BY <2>1, <2>3 DEF Deliver!LedgerNotAhead, Deliver!Used
  <1> QED
    BY <1>1, <1>2, <1>3 DEF DeliveryInv, TargetOK

(* An event more takes nothing from what was said of the stream.            *)
LEMMA WriteStep ==
    ASSUME DeliveryInv, NEW kind \in {"calendar", "row"}, Deliver!Write(kind)
    PROVE  DeliveryInv' /\ Deliver!StepForward
  <1>1. /\ log' = Append(log, kind) /\ log \in Seq({"calendar", "row"})
        /\ UNCHANGED <<file, received, build, step>>
    BY DEF Deliver!Write, DeliveryInv
  <1>2. /\ log' \in Seq({"calendar", "row"}) /\ Len(log) \in Nat /\ Len(log') = Len(log) + 1
        /\ \A k \in 1 .. Len(log) : log'[k] = log[k]
    BY <1>1
  <1>3. ASSUME NEW m \in Nat, m <= Len(log) PROVE Deliver!Edits(m)' = Deliver!Edits(m)
    <2>1. {k \in 1 .. m : log'[k] = "calendar"} = {k \in 1 .. m : log[k] = "calendar"}
      BY <1>2, <1>3
    <2> QED
      BY <2>1 DEF Deliver!Edits
  <1>4. \A m \in Nat : \A t : Mirrors(t, m) => Mirrors(t, m)'
    BY <1>2, <1>3 DEF Mirrors
  <1>5. \A f : FileOK(f) => FileOK(f)'
    BY <1>2, <1>3 DEF FileOK
  <1>6. DeliveryInv'
    BY <1>1, <1>2, <1>4, <1>5
    DEF DeliveryInv, TargetOK, Deliver!NoDatabase, Deliver!Empty
  <1> QED
    BY <1>1, <1>6, Stays DEF Deliver!StepForward, DeliveryInv, TargetOK, Databases

(* The steps of an export, and of a build, that leave the target.           *)
LEMMA LeavesTarget ==
    ASSUME DeliveryInv, UNCHANGED <<log, received>>,
           DOMAIN file' = Exports, \A x \in Exports : FileOK(file'[x]),
           \A x \in Exports : file[x].at = "done" => file'[x] = file[x],
           \/ build' = build /\ step' = step
           \/ step' = "idle"
           \/ /\ step' \in Exports /\ build' = Deliver!Empty /\ file[step'].at = "done"
              /\ received = Deliver!NoDatabase
           \/ /\ step' = "built" /\ step # "idle"
              /\ build' \in Databases /\ \E m \in Nat : Mirrors(build', m)
    PROVE  DeliveryInv' /\ Deliver!StepForward
  <1>1. /\ step' \in Exports \cup {"idle", "built"}
        /\ step' # "idle" => received = Deliver!NoDatabase
        /\ step' \in Exports /\ step' # "built" /\ step' # "idle" =>
              build' = Deliver!Empty /\ file'[step'].at = "done"
        /\ step' = "built" /\ step' \notin Exports =>
              build' \in Databases /\ \E m \in Nat : Mirrors(build', m)
    BY DEF DeliveryInv
  <1>2. "built" \notin Exports /\ "idle" \notin Exports
    BY RecoveryAssumption DEF Deliver!DeliveryAssumption
  <1>3. \A f : FileOK(f) => FileOK(f)'
    BY DEF FileOK, Deliver!Edits
  <1>4. \A m \in Nat : \A t : Mirrors(t, m) => Mirrors(t, m)'
    BY DEF Mirrors, Deliver!Edits
  <1>5. TargetOK(received)'
    BY <1>4 DEF DeliveryInv, TargetOK, Deliver!NoDatabase
  <1>6. step' = "built" => \E m \in Nat : Mirrors(build, m)'
    BY <1>1, <1>2, <1>4
  <1>7. DeliveryInv'
    BY <1>1, <1>2, <1>3, <1>5, <1>6 DEF DeliveryInv, Deliver!NoDatabase, Deliver!Empty
  <1> QED
    BY <1>7, Stays DEF Deliver!StepForward, DeliveryInv, TargetOK, Databases

LEMMA ReadsOn ==
    ASSUME DeliveryInv, NEW x \in Exports,
           \/ \E carriesIds \in BOOLEAN : Deliver!ReadEvents(x, carriesIds)
           \/ Deliver!ReadCalendar(x)
    PROVE  DeliveryInv' /\ Deliver!StepForward
  <1>0. FileOK(file[x]) /\ DOMAIN file = Exports /\ Len(log) \in Nat
    BY DEF DeliveryInv
  <1>1. Deliver!Edits(Len(log)) \in Nat
    BY <1>0, Counts
  <1>2. file[x].at # "done" /\ \E f : FileOK(f) /\ file' = [file EXCEPT ![x] = f]
    <2>1. ASSUME NEW carriesIds \in BOOLEAN, Deliver!ReadEvents(x, carriesIds)
          PROVE  file[x].at # "done" /\ \E f : FileOK(f) /\ file' = [file EXCEPT ![x] = f]
      <3> DEFINE f == [at |-> "events", n |-> Len(log), calendar |-> 0, ids |-> carriesIds]
      <3>1. FileOK(f)
        BY <1>0 DEF FileOK
      <3>2. file[x].at # "done" /\ file' = [file EXCEPT ![x] = f]
        BY <2>1 DEF Deliver!ReadEvents
      <3> HIDE DEF f
      <3> QED
        BY <3>1, <3>2
    <2>2. ASSUME Deliver!ReadCalendar(x)
          PROVE  file[x].at # "done" /\ \E f : FileOK(f) /\ file' = [file EXCEPT ![x] = f]
      <3> DEFINE f == [file[x] EXCEPT !.at = "done", !.calendar = Deliver!Edits(Len(log))]
      <3>1. file[x].at # "done" /\ file' = [file EXCEPT ![x] = f]
        BY <2>2, <1>0 DEF Deliver!ReadCalendar, Deliver!Version
      <3>2. Deliver!Edits(Len(log)) >= Deliver!Edits(file[x].n)
        BY <1>0, Counts DEF FileOK
      <3>3. FileOK(f)
        BY <1>0, <1>1, <3>2 DEF FileOK
      <3> HIDE DEF f
      <3> QED
        BY <3>1, <3>3
    <2> QED
      BY <2>1, <2>2
  <1>3. PICK f : FileOK(f) /\ file' = [file EXCEPT ![x] = f]
    BY <1>2
  <1>4. UNCHANGED <<log, received, build, step>>
    BY DEF Deliver!ReadEvents, Deliver!ReadCalendar
  <1>5. DOMAIN file' = Exports /\ \A y \in Exports : FileOK(file'[y])
    BY <1>0, <1>3 DEF DeliveryInv
  <1>6. \A y \in Exports : file[y].at = "done" => file'[y] = file[y]
    BY <1>0, <1>2, <1>3
  <1> QED
    BY <1>4, <1>5, <1>6, LeavesTarget

LEMMA BuildSteps ==
    ASSUME DeliveryInv,
           \/ \E x \in Exports : Deliver!Build(x)
           \/ Deliver!Commit \/ \E killed \in BOOLEAN : Deliver!Abort(killed)
    PROVE  DeliveryInv' /\ Deliver!StepForward
  <1>1. UNCHANGED <<log, received, file>>
    BY DEF Deliver!Build, Deliver!Commit, Deliver!Abort
  <1>2. DOMAIN file' = Exports /\ \A x \in Exports : FileOK(file'[x])
    BY <1>1 DEF DeliveryInv
  <1>3. ASSUME NEW x \in Exports, Deliver!Build(x) PROVE DeliveryInv' /\ Deliver!StepForward
    BY <1>1, <1>2, <1>3, LeavesTarget DEF Deliver!Build
  <1>4. CASE Deliver!Commit
    <2>1. step \in Exports /\ build = Deliver!Empty /\ file[step].at = "done" /\ FileOK(file[step])
      BY <1>4 DEF Deliver!Commit, DeliveryInv
    <2>2. /\ build \in Databases /\ build.applied = Stream(0) /\ build.calendar \in Int
          /\ build.counter >= 0
      BY <2>1, Streams DEF Deliver!Empty, Databases
    <2>3. file[step].n \in Nat /\ 0 <= file[step].n
      BY <2>1 DEF FileOK
    <2>4. /\ Deliver!Delivered(build, file[step]) \in Databases
          /\ Mirrors(Deliver!Delivered(build, file[step]), file[step].n)
      <3>1. PICK t, f : t = build /\ f = file[step]
        OBVIOUS
      <3>2. FileOK(f) /\ f.at = "done" /\ 0 <= f.n
        BY <2>1, <2>3, <3>1
      <3>3. t \in Databases /\ t.applied = Stream(0) /\ t.calendar \in Int /\ t.counter >= 0
        BY <2>2, <3>1
      <3> PICK m \in Nat : m = 0
        OBVIOUS
      <3>4. m <= f.n /\ t.applied = Stream(m) /\ t.counter >= m
        BY <3>2, <3>3
      <3>5. Deliver!Delivered(t, f) \in Databases /\ Mirrors(Deliver!Delivered(t, f), f.n)
        <4>1. m = 0 \/ (t.ids /\ f.ids)
          OBVIOUS
        <4>2. t \in Databases /\ FileOK(f) /\ f.at = "done" /\ t.calendar \in Int
          BY <3>2, <3>3
        <4> QED
          BY <3>4, <4>1, <4>2, Brings, Zenon
      <3> QED
        BY <3>1, <3>5
    <2>5. build' \in Databases /\ (\E m \in Nat : Mirrors(build', m)) /\ step' = "built"
      BY <1>4, <2>3, <2>4 DEF Deliver!Commit
    <2>6. step # "idle"
      BY <2>1, RecoveryAssumption DEF Deliver!DeliveryAssumption
    <2> QED
      BY <1>1, <1>2, <2>5, <2>6, LeavesTarget
  <1>5. ASSUME NEW killed \in BOOLEAN, Deliver!Abort(killed)
        PROVE  DeliveryInv' /\ Deliver!StepForward
    BY <1>1, <1>2, <1>5, LeavesTarget DEF Deliver!Abort
  <1> QED
    BY <1>3, <1>4, <1>5

(* The steps that replace the target: no more than a delivery of a file     *)
(* that shares its history, a build put in place, or an event of its own.   *)
LEMMA TargetStep ==
    ASSUME DeliveryInv, UNCHANGED <<log, file>>, step' = "idle", TargetOK(received'),
           received # Deliver!NoDatabase =>
             /\ Deliver!IsPrefix(received.applied, received'.applied)
             /\ Deliver!Used(received) => received' = received
    PROVE  DeliveryInv' /\ Deliver!StepForward
  <1>1. \A f : FileOK(f) => FileOK(f)'
    BY DEF FileOK, Deliver!Edits
  <1>2. \A t : TargetOK(t) => TargetOK(t)'
    BY DEF TargetOK, Mirrors, Deliver!Edits, Deliver!NoDatabase
  <1>3. TargetOK(received)'
    BY <1>2
  <1>4. "built" \notin Exports /\ "idle" \notin Exports
    BY RecoveryAssumption DEF Deliver!DeliveryAssumption
  <1> QED
    BY <1>1, <1>3, <1>4 DEF DeliveryInv, Deliver!StepForward, Deliver!NoDatabase

LEMMA RedeliverStep ==
    ASSUME DeliveryInv, NEW x \in Exports, Deliver!Redeliver(x)
    PROVE  DeliveryInv' /\ Deliver!StepForward
  <1> DEFINE f == file[x]
  <1>1. /\ f.at = "done" /\ FileOK(f) /\ received # Deliver!NoDatabase /\ step' = "idle"
        /\ received' = IF f.ids /\ Deliver!SharesHistory(received, f)
                         THEN Deliver!Delivered(received, f) ELSE received
        /\ UNCHANGED <<log, file>> /\ received \in Databases /\ TargetOK(received)
    BY DEF Deliver!Redeliver, DeliveryInv, TargetOK
  <1>2. received.applied \in Seq(Nat) /\ f.n \in Nat
    BY <1>1 DEF Databases, FileOK
  <1> HIDE DEF f
  <1>3. CASE ~(f.ids /\ Deliver!SharesHistory(received, f))
    BY <1>1, <1>2, <1>3, Stays, TargetStep
  <1>4. CASE f.ids /\ Deliver!SharesHistory(received, f)
    <2>1. PICK m \in Nat : Mirrors(received, m) /\ m <= f.n /\ (m = 0 \/ (received.ids /\ f.ids))
      <3>1. CASE \E m \in Nat : received.applied = Append(Stream(m), 0)
        <4>1. 0 \in Deliver!Range(received.applied) /\ received.applied # <<>>
          <5>1. PICK m \in Nat : received.applied = Append(Stream(m), 0)
            BY <3>1
          <5>2. 0 \in Deliver!Range(Append(Stream(m), 0)) /\ Len(Append(Stream(m), 0)) = m + 1
            BY Used
          <5>3. Append(Stream(m), 0) # <<>>
            <6>1. Len(<<>>) = 0 /\ m + 1 # 0
              OBVIOUS
            <6> QED
              BY <5>2, <6>1
          <5> QED
            BY <5>1, <5>2, <5>3
        <4> QED
          BY <1>4, <4>1 DEF Deliver!SharesHistory, Deliver!Used
      <3>2. ASSUME NEW m \in Nat, Mirrors(received, m)
            PROVE  m <= f.n /\ (m = 0 \/ (received.ids /\ f.ids))
        <4>1. received.applied = Stream(m) /\ Deliver!Held(received) = 1 .. m
          BY <3>2, Streams DEF Mirrors, Deliver!Held
        <4>2. CASE received.applied = <<>>
          <5>1. m = 0
            BY <4>1, <4>2, Streams
          <5> QED
            BY <1>2, <5>1
        <4>3. CASE received.ids /\ 1 .. m \subseteq 1 .. f.n
          BY <1>2, <1>4, <4>3
        <4> QED
          BY <1>4, <4>1, <4>2, <4>3 DEF Deliver!SharesHistory
      <3> QED
        BY <1>1, <3>1, <3>2 DEF TargetOK
    <2>2. received.applied = Stream(m) /\ received.calendar \in Int /\ received.counter >= m
      BY <1>1, <2>1 DEF Mirrors, Databases
    <2>3. received' \in Databases /\ Mirrors(received', f.n)
      BY <1>1, <1>2, <1>4, <2>1, <2>2, Brings
    <2>4. Deliver!IsPrefix(received.applied, received'.applied)
      BY <1>2, <2>1, <2>2, <2>3, Forward DEF Mirrors
    <2>5. ~Deliver!Used(received)
      BY <2>2, Streams DEF Deliver!Used
    <2>6. TargetOK(received')
      BY <1>2, <2>3 DEF TargetOK
    <2> QED
      BY <1>1, <2>4, <2>5, <2>6, TargetStep
  <1> QED
    BY <1>3, <1>4

LEMMA PutInPlace ==
    ASSUME DeliveryInv, Deliver!Rename PROVE DeliveryInv' /\ Deliver!StepForward
  <1>1. /\ received' = build /\ step' = "idle" /\ UNCHANGED <<log, file>>
        /\ build \in Databases /\ (\E m \in Nat : Mirrors(build, m))
        /\ received = Deliver!NoDatabase
    BY DEF Deliver!Rename, DeliveryInv
  <1>2. TargetOK(received')
    BY <1>1 DEF TargetOK
  <1> QED
    BY <1>1, <1>2, TargetStep

LEMMA UseStep ==
    ASSUME DeliveryInv, Deliver!Use PROVE DeliveryInv' /\ Deliver!StepForward
  <1>1. /\ step' = "idle" /\ UNCHANGED <<log, file>> /\ ~Deliver!Used(received)
        /\ received' = [received EXCEPT !.applied = Append(received.applied, 0),
                                       !.counter = received.counter + 1]
        /\ received # Deliver!NoDatabase /\ TargetOK(received) /\ received \in Databases
    BY DEF Deliver!Use, DeliveryInv, TargetOK
  <1>2. ~ \E m \in Nat : received.applied = Append(Stream(m), 0)
    BY <1>1, Used DEF Deliver!Used
  <1>3. PICK m \in Nat : Mirrors(received, m)
    BY <1>1, <1>2 DEF TargetOK
  <1>4. received.applied = Stream(m) /\ received'.applied = Append(Stream(m), 0)
    BY <1>1, <1>3 DEF Mirrors, Databases
  <1>5. /\ Stream(m) \in Seq(Nat) /\ Append(Stream(m), 0) \in Seq(Nat)
        /\ Len(Stream(m)) = m /\ Len(Append(Stream(m), 0)) = m + 1
        /\ \A k \in 1 .. m : Append(Stream(m), 0)[k] = Stream(m)[k]
    BY Streams, Used
  <1>6. Deliver!IsPrefix(received.applied, received'.applied)
    <2>1. SubSeq(Stream(m), 1, m) = SubSeq(Append(Stream(m), 0), 1, m)
      BY <1>5
    <2> QED
      BY <1>4, <1>5, <2>1 DEF Deliver!IsPrefix
  <1>7. received' \in Databases
    <2>1. received.counter + 1 \in Int
      BY <1>1 DEF Databases
    <2>2. Append(received.applied, 0) \in Seq(Nat)
      BY <1>4, <1>5
    <2> QED
      BY <1>1, <2>1, <2>2 DEF Databases
  <1> QED
    BY <1>1, <1>4, <1>6, <1>7, TargetStep DEF TargetOK

LEMMA DeliveryContinues ==
    ASSUME DeliveryInv, [Deliver!Next]_(Deliver!vars) PROVE DeliveryInv' /\ Deliver!StepForward
  <1>1. CASE UNCHANGED Deliver!vars
    <2>1. UNCHANGED <<log, file, received, build, step>>
      BY <1>1 DEF Deliver!vars
    <2> QED
      BY <2>1, LeavesTarget DEF DeliveryInv
  <1>2. CASE Deliver!Next
    BY <1>2, WriteStep, ReadsOn, RedeliverStep, BuildSteps, PutInPlace, UseStep DEF Deliver!Next
  <1> QED
    BY <1>1, <1>2

(* Whatever files a target is given, in whatever order and however often,   *)
(* it only moves forward along the source's stream, holds a prefix of it    *)
(* and its calendar, and is left alone once it has a history of its own     *)
(* (scripts/restore_from_export.py, services/export.py).                    *)
THEOREM TargetsAdvance == SceneSpec => DeliveriesAdvance
  <1> DEFINE I == scene = "delivery" => DeliveryInv
             J == scene = "delivery" => Deliver!HoldsAPrefix /\ Deliver!LedgerNotAhead
             P == scene = "delivery" =>
                    Deliver!StepForward /\ (Deliver!HoldsAPrefix /\ Deliver!LedgerNotAhead)'
  <1>1. SceneInit => I
    <2> SUFFICES ASSUME Deliver!Init PROVE DeliveryInv
      BY DEF SceneInit
    <2>1. "built" \notin Exports /\ "idle" \notin Exports
      BY RecoveryAssumption DEF Deliver!DeliveryAssumption
    <2> QED
      BY <2>1 DEF Deliver!Init, DeliveryInv, FileOK, TargetOK, Deliver!NoDatabase, Databases
  <1>2. I => J
    BY TargetSays
  <1>3. I' => J'
    BY <1>2, PTL
  <1>4. I /\ [SceneNext]_all => I' /\ (P \/ UNCHANGED all)
    <2>1. SUFFICES ASSUME I, [SceneNext]_all, scene = "delivery" \/ scene' = "delivery"
                   PROVE  I' /\ (P \/ UNCHANGED all)
      BY DEF all
    <2>2. scene = "delivery" /\ scene' = "delivery" /\ [Deliver!Next]_(Deliver!vars)
      BY <2>1 DEF SceneNext, all, state, Deliver!vars
    <2>3. DeliveryInv' /\ Deliver!StepForward
      BY <2>1, <2>2, DeliveryContinues
    <2>4. (Deliver!HoldsAPrefix /\ Deliver!LedgerNotAhead)'
      BY <1>3, <2>2, <2>3
    <2> QED
      BY <2>3, <2>4
  <1>5. I /\ [SceneNext]_all => [P]_all
    BY <1>4
  <1> QED
    BY <1>1, <1>4, <1>5, PTL DEF SceneSpec, DeliveriesAdvance
=============================================================================
