----------------------------- MODULE RunnerProofs -----------------------------
(***************************************************************************)
(* Proofs about Runner for every value of its constants: type correctness, *)
(* the capacity accounting of admission, and then what the service         *)
(* promises of its jobs.                                                   *)
(*                                                                         *)
(* The inductive invariant IInv is TypeOK cut into the four groups of      *)
(* variables that actions change together, each with the facts the typing  *)
(* of its own updates rests on:                                            *)
(*   JobPart    the job records and the counters: a reservation is held    *)
(*              exactly by the STARTING and RUNNING jobs;                  *)
(*   TaskPart   the driver's position against the process it waits for;    *)
(*   TablePart  the kept jobs and the replay table;                        *)
(*   RestPart   shutdown, the stream handlers and the clock.               *)
(***************************************************************************)
EXTENDS Runner, FiniteSetTheorems, WellFoundedInduction, TLAPS

JobOK(r) ==
    /\ r.state # "NONE" /\ r.lesson \in Lessons /\ r.key \in Keys
    /\ r.released <=> r.cause # None
    /\ r.released <=> r.state \in {"TERMINATING", "FINISHED"}

ActiveJobs    == {j \in JobIds : Active(j)}
ActiveOf(l)   == {j \in JobIds : Active(j) /\ job[j].lesson = l}

JobPart ==
    /\ job \in [JobIds -> JobRecords]
    /\ issued \in 0..MaxJobs
    /\ \A j \in JobIds : IF j \in Created THEN JobOK(job[j]) ELSE job[j] = NoJob
    /\ activeTotal \in Int
    /\ activeByLesson \in [Lessons -> Int]
    /\ CapacityAccounting

TaskPart ==
    /\ proc \in [JobIds -> ProcRecords]
    /\ drive \in [JobIds -> DrivePCs]
    /\ stream \in [JobIds -> [Streams -> StreamPCs]]
    /\ cancelKill \in SUBSET JobIds
    /\ \A j \in JobIds :
          /\ drive[j] = "none" <=> j \notin Created
          /\ drive[j] \in {"none", "new", "spawning"} =>
                proc[j].leader = "none" /\ ~proc[j].known
          /\ proc[j].known \/ drive[j] \in {"sweeping", "settling"} =>
                proc[j].leader \in {"exit", "signal"}
          /\ \A s \in Streams : stream[j][s] # "off" => j \in Created

TablePart ==
    /\ retained \in SUBSET Created
    /\ replay \in [Lessons \X Keys -> Entries]

RestPart ==
    /\ accepting \in BOOLEAN
    /\ stop \in [pc : {"serving", "joining", "hooks", "stopped"},
                 kill : SUBSET JobIds, join : SUBSET JobIds, hooks : SUBSET JobIds]
    /\ sse \in [Readers -> [pc : {"idle", "opened", "polling", "asking", "blocked",
                                 "complete", "closing"},
                           job : 0..MaxJobs, cursor : Nat, lease : BOOLEAN,
                           releases : 0..2]]
    /\ \A r \in Readers : sse[r].pc # "idle" => sse[r].job \in Created
    /\ now \in Nat

IInv == JobPart /\ TaskPart /\ TablePart /\ RestPart

-----------------------------------------------------------------------------
(* The job helpers keep a job record well formed.                           *)

(* A termination keeps the record's lesson and key, and frees it.           *)
LEMMA BeginJob ==
    ASSUME NEW r \in JobRecords, JobOK(r), NEW c \in Causes
    PROVE  /\ Begin(r, c) \in JobRecords /\ JobOK(Begin(r, c))
           /\ Begin(r, c).lesson = r.lesson /\ Begin(r, c).released
  BY RunnerAssumption DEF Begin, JobRecords, JobOK

(* An appended event leaves everything but the events and waiters alone.    *)
LEMMA EmitJob ==
    ASSUME NEW r \in JobRecords, JobOK(r), NEW kind \in {"output", "exit"}
    PROVE  /\ Emit(r, kind) \in JobRecords /\ JobOK(Emit(r, kind))
           /\ Emit(r, kind).lesson = r.lesson
           /\ Emit(r, kind).released = r.released
<1>1. r.events \in Seq({"output", "exit"})
  BY DEF JobRecords
<1>2. Append(r.events, kind) \in Seq({"output", "exit"})
  BY <1>1
<1> DEFINE e == [r EXCEPT !.events = Append(@, kind), !.waiters = {}]
<1>3. Emit(r, kind) = e
  BY DEF Emit
<1>4. e \in JobRecords
  BY <1>2 DEF JobRecords
<1>5. /\ e.state = r.state /\ e.cause = r.cause /\ e.lesson = r.lesson
      /\ e.key = r.key /\ e.released = r.released
  BY DEF JobRecords
<1> QED  BY <1>3, <1>4, <1>5 DEF JobOK

(* Finishing keeps the reservation as termination left it.                  *)
LEMMA FinishJob ==
    ASSUME NEW r \in JobRecords, JobOK(r), now \in Nat
    PROVE  /\ FinishRecord(r) \in JobRecords /\ JobOK(FinishRecord(r))
           /\ FinishRecord(r).lesson = r.lesson
           /\ FinishRecord(r).released = r.released
<1>1. Emit(r, "exit") \in JobRecords /\ JobOK(Emit(r, "exit"))
      /\ Emit(r, "exit").lesson = r.lesson /\ Emit(r, "exit").released = r.released
      /\ Emit(r, "exit").state = r.state
  BY EmitJob DEF Emit, JobRecords
<1> QED  BY <1>1 DEF FinishRecord, Finishable, JobRecords, JobOK

(* A kill only moves an alive leader to "signal".                           *)
LEMMA KilledProc ==
    ASSUME NEW p \in ProcRecords
    PROVE  /\ Killed(p) \in ProcRecords /\ Killed(p).known = p.known
           /\ p.leader = "none" => Killed(p).leader = "none"
           /\ p.leader \in {"exit", "signal"} => Killed(p).leader = p.leader
  BY DEF Killed, ProcRecords

(* A prune keeps a subset of the jobs and a replay table.                   *)
LEMMA PruneTable ==
    ASSUME TablePart, NEW jf, NEW entries \in [Lessons \X Keys -> Entries],
           Prune(jf, entries), UNCHANGED issued
    PROVE  TablePart'
<1>1. retained' \subseteq retained
  BY DEF Prune, Retain
<1>2. replay' \in [Lessons \X Keys -> Entries]
  BY RunnerAssumption DEF Prune, Expire, Entries, NoEntry, Never
<1> QED  BY <1>1, <1>2 DEF TablePart, Created

-----------------------------------------------------------------------------
(* The counters follow any legal update of one job.                         *)
LEMMA UpdateJob ==
    ASSUME JobPart, NEW j \in Created, NEW r \in JobRecords, JobOK(r),
           r.lesson = job[j].lesson, job[j].released => r.released,
           job' = [job EXCEPT ![j] = r], Release(j, r), UNCHANGED issued
    PROVE  JobPart'
<1> USE DEF JobPart
<1>0. MaxJobs \in Nat /\ j \in JobIds /\ Created' = Created
  BY RunnerAssumption DEF Created, JobIds
<1>1. job' \in [JobIds -> JobRecords] /\ issued' \in 0..MaxJobs
  BY <1>0
<1>2. \A i \in JobIds : IF i \in Created' THEN JobOK(job'[i]) ELSE job'[i] = NoJob
  BY <1>0
<1>3. JobOK(job[j]) /\ \A i \in JobIds : i # j => job'[i] = job[i]
  BY <1>0
<1>4. job'[j] = r
  BY <1>0
<1>5. IsFiniteSet(JobIds)
  BY <1>0, FS_Interval DEF JobIds
<1>6. IsFiniteSet(ActiveJobs) /\ \A l \in Lessons : IsFiniteSet(ActiveOf(l))
  BY <1>5, FS_Subset DEF ActiveJobs, ActiveOf
<1>7. /\ activeTotal = Cardinality(ActiveJobs)
      /\ \A l \in Lessons : activeByLesson[l] = Cardinality(ActiveOf(l))
      /\ activeTotal <= GlobalLimit
      /\ \A l \in Lessons : activeByLesson[l] <= PerLessonLimit
  BY DEF CapacityAccounting, ActiveJobs, ActiveOf
<1>8. SUFFICES /\ activeTotal' \in Int /\ activeByLesson' \in [Lessons -> Int]
               /\ activeTotal' = Cardinality(ActiveJobs')
               /\ \A l \in Lessons : activeByLesson'[l] = Cardinality(ActiveOf(l)')
               /\ activeTotal' <= GlobalLimit
               /\ \A l \in Lessons : activeByLesson'[l] <= PerLessonLimit
  BY <1>1, <1>2 DEF CapacityAccounting, ActiveJobs, ActiveOf
<1>9. CASE r.released /\ ~job[j].released
  <2>1. job[j].state \in {"STARTING", "RUNNING"} /\ r.state \in {"TERMINATING", "FINISHED"}
    BY <1>0, <1>3, <1>9 DEF JobOK, JobRecords
  <2>2. ActiveJobs' = ActiveJobs \ {j} /\ j \in ActiveJobs
    BY <1>0, <1>3, <1>4, <2>1 DEF ActiveJobs, Active
  <2>3. \A l \in Lessons : /\ ActiveOf(l)' = ActiveOf(l) \ {j}
                           /\ j \in ActiveOf(l) <=> l = r.lesson
    BY <1>0, <1>3, <1>4, <2>1 DEF ActiveOf, Active
  <2>4. /\ activeTotal' = activeTotal - 1
        /\ activeByLesson' = [activeByLesson EXCEPT ![r.lesson] = @ - 1]
    BY <1>9 DEF Release
  <2>5. Cardinality(ActiveJobs') = Cardinality(ActiveJobs) - 1
    BY <1>6, <2>2, FS_RemoveElement
  <2>6. \A l \in Lessons : Cardinality(ActiveOf(l)') =
            IF l = r.lesson THEN Cardinality(ActiveOf(l)) - 1 ELSE Cardinality(ActiveOf(l))
    <3> TAKE l \in Lessons
    <3>1. IsFiniteSet(ActiveOf(l)) /\ ActiveOf(l)' = ActiveOf(l) \ {j}
      BY <1>6, <2>3
    <3>2. Cardinality(ActiveOf(l) \ {j}) =
            IF j \in ActiveOf(l) THEN Cardinality(ActiveOf(l)) - 1
            ELSE Cardinality(ActiveOf(l))
      BY <3>1, FS_RemoveElement
    <3> QED  BY <2>3, <3>1, <3>2
  <2>7. activeTotal' \in Int /\ activeTotal' = Cardinality(ActiveJobs')
        /\ activeTotal' <= GlobalLimit
    BY <1>7, <2>4, <2>5, RunnerAssumption
  <2>8. activeByLesson' \in [Lessons -> Int]
    <3>1. activeByLesson \in [Lessons -> Int] /\ activeByLesson[r.lesson] - 1 \in Int
      BY <1>0, <1>3 DEF JobOK
    <3> QED  BY <2>4, <3>1
  <2>9. \A l \in Lessons : activeByLesson'[l] =
           IF l = r.lesson THEN activeByLesson[l] - 1 ELSE activeByLesson[l]
    BY <2>4
  <2>10. \A l \in Lessons : /\ activeByLesson'[l] = Cardinality(ActiveOf(l)')
                            /\ activeByLesson'[l] <= PerLessonLimit
    BY <1>7, <2>6, <2>9, RunnerAssumption
  <2> QED  BY <2>7, <2>8, <2>10
<1>10. CASE ~(r.released /\ ~job[j].released)
  <2>1. \A i \in JobIds : Active(i)' <=> Active(i)
    BY <1>0, <1>3, <1>4, <1>10 DEF Active, JobOK, JobRecords
  <2>2. \A i \in JobIds : job'[i].lesson = job[i].lesson
    BY <1>0, <1>3, <1>4
  <2>3. ActiveJobs' = ActiveJobs /\ \A l \in Lessons : ActiveOf(l)' = ActiveOf(l)
    BY <2>1, <2>2 DEF ActiveJobs, ActiveOf
  <2> QED  BY <1>7, <1>10, <2>3 DEF Release
<1> QED  BY <1>9, <1>10

(* Update and Settle: one job's new record, and the tables.                 *)
LEMMA UpdateParts ==
    ASSUME JobPart, TablePart, NEW j \in Created, NEW r \in JobRecords, JobOK(r),
           r.lesson = job[j].lesson, job[j].released => r.released,
           Update(j, r), UNCHANGED issued
    PROVE  JobPart' /\ TablePart'
<1>1. JobPart'
  BY UpdateJob DEF Update
<1> QED  BY <1>1 DEF Update, TablePart, Created

LEMMA SettleParts ==
    ASSUME JobPart, TablePart, now \in Nat, NEW j \in Created,
           NEW r \in JobRecords, JobOK(r),
           r.lesson = job[j].lesson, job[j].released => r.released,
           Settle(j, r), UNCHANGED issued
    PROVE  JobPart' /\ TablePart'
<1> DEFINE f == FinishRecord(r)
           lk == <<r.lesson, r.key>>
           entries == IF replay[lk].job = j
                      THEN [replay EXCEPT ![lk].expires = now + Retention]
                      ELSE replay
<1>1. f \in JobRecords /\ JobOK(f) /\ f.lesson = r.lesson /\ f.released = r.released
  BY FinishJob
<1>2. job' = [job EXCEPT ![j] = f] /\ Release(j, f)
  BY DEF Settle
<1>3. JobPart'
  <2> HIDE DEF f
  <2> QED  BY <1>1, <1>2, UpdateJob
<1>4. entries \in [Lessons \X Keys -> Entries]
  <2>1. now + Retention \in Nat /\ replay \in [Lessons \X Keys -> Entries]
    BY RunnerAssumption DEF TablePart
  <2>2. \A e \in Entries : [e EXCEPT !.expires = now + Retention] \in Entries
    BY <2>1 DEF Entries
  <2> QED  BY <2>1, <2>2
<1>5. CASE Finishable(r)
  <2>1. Prune(job', entries)
    BY <1>5 DEF Settle
  <2> HIDE DEF entries
  <2> QED  BY <1>3, <1>4, <2>1, PruneTable
<1>6. CASE ~Finishable(r)
  BY <1>3, <1>6 DEF Settle, TablePart, Created
<1> QED  BY <1>5, <1>6

-----------------------------------------------------------------------------
(* The two steps that change more than one job or create one.               *)

LEMMA AdmitParts ==
    ASSUME IInv, NEW l \in Lessons, NEW k \in Keys, NEW v \in Revs, Admit(l, k, v)
    PROVE  JobPart' /\ TablePart' /\ TaskPart'
<1> DEFINE j == issued + 1
           r == [NoJob EXCEPT !.state = "STARTING", !.lesson = l,
                              !.key = k, !.rev = v, !.created = now]
<1>0. /\ JobPart /\ TaskPart /\ TablePart /\ now \in Nat
      /\ issued < MaxJobs /\ issued \in Nat /\ MaxJobs \in Nat
      /\ job' = [job EXCEPT ![j] = r] /\ issued' = j
      /\ activeTotal < GlobalLimit /\ activeByLesson[l] < PerLessonLimit
      /\ activeTotal' = activeTotal + 1
      /\ activeByLesson' = [activeByLesson EXCEPT ![l] = @ + 1]
  BY RunnerAssumption DEF Admit, IInv, JobPart, RestPart
<1>1. j \in JobIds /\ j \notin Created /\ Created' = Created \cup {j}
  BY <1>0 DEF JobIds, Created
<1>2. r \in JobRecords /\ JobOK(r) /\ r.state = "STARTING" /\ r.lesson = l
  <2>1. <<>> \in Seq({"output", "exit"}) /\ 0 \in 0..OutputLimit
    BY RunnerAssumption
  <2> QED  BY <1>0, <2>1, RunnerAssumption DEF NoJob, JobRecords, JobOK
<1> HIDE DEF r
<1>3. /\ job' \in [JobIds -> JobRecords] /\ job'[j] = r
      /\ \A i \in JobIds : i # j => job'[i] = job[i]
      /\ ~Active(j)
  BY <1>0, <1>1, <1>2 DEF JobPart, Active, NoJob
<1>4. ActiveJobs' = ActiveJobs \cup {j} /\ j \notin ActiveJobs
  BY <1>1, <1>2, <1>3 DEF ActiveJobs, Active
<1>5. \A m \in Lessons : /\ j \notin ActiveOf(m)
                         /\ ActiveOf(m)' = IF m = l THEN ActiveOf(m) \cup {j} ELSE ActiveOf(m)
  BY <1>1, <1>2, <1>3 DEF ActiveOf, Active
<1>6. IsFiniteSet(JobIds)
  BY <1>0, FS_Interval DEF JobIds
<1>7. IsFiniteSet(ActiveJobs) /\ \A m \in Lessons : IsFiniteSet(ActiveOf(m))
  BY <1>6, FS_Subset DEF ActiveJobs, ActiveOf
<1>8. Cardinality(ActiveJobs') = Cardinality(ActiveJobs) + 1
  BY <1>4, <1>7, FS_AddElement
<1>9. \A m \in Lessons : Cardinality(ActiveOf(m)') =
        IF m = l THEN Cardinality(ActiveOf(m)) + 1 ELSE Cardinality(ActiveOf(m))
  <2> TAKE m \in Lessons
  <2>1. Cardinality(ActiveOf(m) \cup {j}) = Cardinality(ActiveOf(m)) + 1
    BY <1>5, <1>7, FS_AddElement
  <2> QED  BY <1>5, <2>1
<1>10. /\ activeTotal \in Int /\ activeByLesson \in [Lessons -> Int]
       /\ activeTotal = Cardinality(ActiveJobs)
       /\ \A m \in Lessons : activeByLesson[m] = Cardinality(ActiveOf(m))
       /\ \A m \in Lessons : activeByLesson[m] <= PerLessonLimit
  BY <1>0 DEF JobPart, CapacityAccounting, ActiveJobs, ActiveOf
<1>11. /\ activeTotal' \in Int /\ activeTotal' <= GlobalLimit
       /\ activeTotal' = Cardinality(ActiveJobs')
  BY <1>0, <1>8, <1>10, RunnerAssumption
<1>12. /\ activeByLesson' \in [Lessons -> Int]
       /\ \A m \in Lessons : activeByLesson'[m] =
             IF m = l THEN activeByLesson[m] + 1 ELSE activeByLesson[m]
  BY <1>0, <1>10
<1>13. \A m \in Lessons : /\ activeByLesson'[m] = Cardinality(ActiveOf(m)')
                          /\ activeByLesson'[m] <= PerLessonLimit
  BY <1>0, <1>9, <1>10, <1>12, RunnerAssumption
<1>14. JobPart'
  <2>1. \A i \in JobIds : IF i \in Created' THEN JobOK(job'[i]) ELSE job'[i] = NoJob
    BY <1>0, <1>1, <1>2, <1>3 DEF JobPart
  <2>2. CapacityAccounting'
    BY <1>11, <1>13 DEF CapacityAccounting, ActiveJobs, ActiveOf
  <2> QED  BY <1>0, <1>1, <1>3, <1>11, <1>12, <2>1, <2>2 DEF JobPart, JobIds
<1>15. TablePart'
  <2> DEFINE kept == Retain(job, retained)
             entries == Expire(replay, kept)
  <2>1. kept \subseteq retained
    BY DEF Retain
  <2>2. entries \in [Lessons \X Keys -> Entries]
    BY <1>0 DEF Expire, TablePart, Entries, NoEntry, Never
  <2>3. [job |-> j, expires |-> Never] \in Entries
    BY <1>1 DEF Entries, JobIds
  <2>4. retained' = kept \cup {j} /\
        replay' = [entries EXCEPT ![<<l, k>>] = [job |-> j, expires |-> Never]]
    BY DEF Admit
  <2> HIDE DEF kept, entries
  <2> QED  BY <1>0, <1>1, <2>1, <2>2, <2>3, <2>4 DEF TablePart
<1>16. TaskPart'
  <2>1. drive' = [drive EXCEPT ![j] = "new"] /\ UNCHANGED <<proc, stream, cancelKill>>
    BY DEF Admit
  <2> QED  BY <1>0, <1>1, <2>1 DEF TaskPart, DrivePCs
<1> QED  BY <1>14, <1>15, <1>16

LEMMA ShutdownBeginsParts ==
    ASSUME IInv, ShutdownBegins
    PROVE  JobPart'
<1> DEFINE live  == {j \in retained : ~Finished(j)}
           freed == {j \in live : job[j].cause = None}
           freedOf(l) == {j \in freed : job[j].lesson = l}
<1>1. /\ JobPart /\ TablePart /\ MaxJobs \in Nat
      /\ Created' = Created /\ issued' = issued
      /\ job' = [j \in JobIds |-> IF j \in live THEN Begin(job[j], "shutdown") ELSE job[j]]
      /\ activeTotal' = activeTotal - Cardinality(freed)
      /\ activeByLesson' = [l \in Lessons |-> activeByLesson[l] - Cardinality(freedOf(l))]
  BY RunnerAssumption DEF ShutdownBegins, IInv, Created
<1>2. live \subseteq Created /\ Created \subseteq JobIds
  <2>1. retained \subseteq Created /\ issued \in 0..MaxJobs
    BY <1>1 DEF TablePart, JobPart
  <2>2. live \subseteq retained
    OBVIOUS
  <2>3. Created \subseteq JobIds
    BY <1>1, <2>1 DEF Created, JobIds
  <2> QED  BY <2>1, <2>2, <2>3
<1>3. \A j \in live : /\ Begin(job[j], "shutdown") \in JobRecords
                      /\ JobOK(Begin(job[j], "shutdown"))
                      /\ Begin(job[j], "shutdown").lesson = job[j].lesson
                      /\ Begin(job[j], "shutdown").released
  <2>1. \A j \in live : job[j] \in JobRecords /\ JobOK(job[j])
    BY <1>1, <1>2 DEF JobPart
  <2>2. "shutdown" \in Causes
    BY DEF Causes
  <2> HIDE DEF live
  <2> QED  BY <2>1, <2>2, BeginJob
<1>4. job' \in [JobIds -> JobRecords]
  BY <1>1, <1>2, <1>3 DEF JobPart
<1>5. \A j \in JobIds : IF j \in Created' THEN JobOK(job'[j]) ELSE job'[j] = NoJob
  BY <1>1, <1>2, <1>3 DEF JobPart
<1>6. freed \subseteq ActiveJobs /\ \A l \in Lessons : freedOf(l) \subseteq ActiveOf(l)
  BY <1>1, <1>2 DEF JobPart, JobOK, ActiveJobs, ActiveOf, Active, Finished, JobRecords
<1>7. \A j \in JobIds : Active(j)' <=> Active(j) /\ j \notin freed
  BY <1>1, <1>2, <1>3 DEF Active, JobPart, JobOK, Begin
<1>8. \A j \in JobIds : job'[j].lesson = job[j].lesson
  BY <1>1, <1>3
<1>9. /\ ActiveJobs' = ActiveJobs \ freed
      /\ \A l \in Lessons : ActiveOf(l)' = ActiveOf(l) \ freedOf(l)
  <2> HIDE DEF freed
  <2> QED  BY <1>7, <1>8 DEF ActiveJobs, ActiveOf
<1>10. IsFiniteSet(JobIds)
  BY <1>1, FS_Interval DEF JobIds
<1>11. IsFiniteSet(ActiveJobs) /\ \A l \in Lessons : IsFiniteSet(ActiveOf(l))
  BY <1>10, FS_Subset DEF ActiveJobs, ActiveOf
<1> HIDE DEF freed, freedOf
<1>12. /\ Cardinality(freed) \in Nat
       /\ Cardinality(ActiveJobs') = Cardinality(ActiveJobs) - Cardinality(freed)
  <2>1. ActiveJobs \cap freed = freed
    BY <1>6
  <2>2. IsFiniteSet(freed)
    BY <1>6, <1>11, FS_Subset
  <2>3. Cardinality(ActiveJobs \ freed) = Cardinality(ActiveJobs) - Cardinality(freed)
    BY <1>11, <2>1, FS_Difference
  <2>4. Cardinality(freed) \in Nat
    BY <2>2, FS_CardinalityType
  <2> QED  BY <1>9, <2>3, <2>4
<1>13. \A l \in Lessons :
         /\ Cardinality(freedOf(l)) \in Nat
         /\ Cardinality(ActiveOf(l)') = Cardinality(ActiveOf(l)) - Cardinality(freedOf(l))
  <2> TAKE l \in Lessons
  <2>1. ActiveOf(l) \cap freedOf(l) = freedOf(l)
    BY <1>6
  <2>2. IsFiniteSet(freedOf(l)) /\ IsFiniteSet(ActiveOf(l))
    BY <1>6, <1>11, FS_Subset
  <2>3. Cardinality(ActiveOf(l) \ freedOf(l)) =
          Cardinality(ActiveOf(l)) - Cardinality(freedOf(l))
    BY <2>1, <2>2, FS_Difference
  <2>4. Cardinality(freedOf(l)) \in Nat
    BY <2>2, FS_CardinalityType
  <2> QED  BY <1>9, <2>3, <2>4
<1>14. /\ activeTotal \in Int /\ activeByLesson \in [Lessons -> Int]
       /\ activeTotal = Cardinality(ActiveJobs) /\ activeTotal <= GlobalLimit
       /\ \A l \in Lessons : activeByLesson[l] = Cardinality(ActiveOf(l))
                            /\ activeByLesson[l] <= PerLessonLimit
  BY <1>1 DEF JobPart, CapacityAccounting, ActiveJobs, ActiveOf
<1>15. activeTotal' \in Int /\ activeTotal' <= GlobalLimit
       /\ activeTotal' = Cardinality(ActiveJobs')
  BY <1>1, <1>12, <1>14, RunnerAssumption
<1>16. \A l \in Lessons : activeByLesson'[l] = activeByLesson[l] - Cardinality(freedOf(l))
  BY <1>1
<1>17. \A l \in Lessons : activeByLesson'[l] = Cardinality(ActiveOf(l)')
                         /\ activeByLesson'[l] <= PerLessonLimit
  BY <1>13, <1>14, <1>16, RunnerAssumption
<1>18. activeByLesson' \in [Lessons -> Int]
  BY <1>1, <1>13, <1>14
<1>19. CapacityAccounting'
  BY <1>15, <1>17 DEF CapacityAccounting, ActiveJobs, ActiveOf
<1> QED  BY <1>1, <1>4, <1>5, <1>15, <1>18, <1>19 DEF JobPart
-----------------------------------------------------------------------------
(* Steps that leave a group of variables alone keep its part.               *)

LEMMA SameJobs ==
    JobPart /\ UNCHANGED <<job, issued, activeTotal, activeByLesson>> => JobPart'
BY DEF JobPart, CapacityAccounting, Created, Active

LEMMA SameTasks == TaskPart /\ UNCHANGED <<tasks, issued>> => TaskPart'
BY DEF TaskPart, tasks, Created

LEMMA SameTables == TablePart /\ UNCHANGED <<retained, replay, issued>> => TablePart'
BY DEF TablePart, Created

LEMMA SameRest == RestPart /\ UNCHANGED rest => RestPart'
BY DEF RestPart, rest, Created

(* A created job has a well formed record.                                  *)
LEMMA CreatedJob ==
    ASSUME JobPart, NEW j \in Created
    PROVE  j \in JobIds /\ job[j] \in JobRecords /\ JobOK(job[j])
BY RunnerAssumption DEF JobPart, Created, JobIds

(* Whoever is not at "none" belongs to a created job.                       *)
LEMMA DriverCreated ==
    ASSUME TaskPart, NEW j \in JobIds, drive[j] # "none" PROVE j \in Created
BY DEF TaskPart

LEMMA ReaderCreated ==
    ASSUME TaskPart, NEW j \in JobIds, NEW s \in Streams, stream[j][s] # "off"
    PROVE  j \in Created
BY DEF TaskPart

(* A kill keeps the process facts of every job.                             *)
LEMMA KillParts ==
    ASSUME JobPart, TablePart, TaskPart, NEW j \in JobIds, Kills(j), UNCHANGED issued
    PROVE  /\ JobPart' /\ TablePart'
           /\ proc' \in [JobIds -> ProcRecords]
           /\ \A i \in JobIds :
                 /\ proc[i].leader = "none" => proc'[i].leader = "none"
                 /\ proc'[i].known = proc[i].known
                 /\ proc[i].leader \in {"exit", "signal"} => proc'[i].leader \in {"exit", "signal"}
<1>1. JobPart' /\ TablePart'
  BY SameJobs, SameTables DEF Kills, service
<1>2. proc' = [proc EXCEPT ![j] = Killed(proc[j])] /\ proc \in [JobIds -> ProcRecords]
  BY DEF Kills, TaskPart
<1>3. \A i \in JobIds : /\ Killed(proc[i]) \in ProcRecords
                        /\ Killed(proc[i]).known = proc[i].known
                        /\ proc[i].leader = "none" => Killed(proc[i]).leader = "none"
                        /\ proc[i].leader \in {"exit", "signal"} =>
                              Killed(proc[i]).leader = proc[i].leader
  BY <1>2, KilledProc
<1> QED  BY <1>1, <1>2, <1>3

(* What the outside world does to one process.                              *)
LEMMA ProcessParts ==
    ASSUME IInv, NEW j \in JobIds, NEW p \in ProcRecords, Process(j, p),
           proc[j].leader # "none" \/ (p.leader = "none" /\ ~p.known),
           proc[j].leader = "alive" => drive[j] \notin {"sweeping", "settling"} ,
           p.known \/ proc[j].leader \in {"exit", "signal"} =>
                p.leader \in {"exit", "signal"}
    PROVE  IInv'
<1>1. JobPart' /\ TablePart' /\ RestPart'
  BY SameJobs, SameTables, SameRest DEF IInv, Process, service, rest
<1>2. TaskPart'
  BY DEF IInv, TaskPart, Process, Created, rest
<1> QED  BY <1>1, <1>2 DEF IInv

-----------------------------------------------------------------------------
(* One lemma per group of actions.                                          *)

LEMMA RequestSteps ==
    ASSUME IInv, \/ Sweep
                 \/ \E j \in JobIds : Cancel(j) \/ CancelKill(j)
    PROVE  IInv'
<1> USE DEF IInv
<1>1. CASE Sweep
  <2>1. UNCHANGED <<job, issued, tasks, activeTotal, activeByLesson, rest>>
        /\ Prune(job, replay)
    BY <1>1 DEF Sweep, rest
  <2>2. TablePart'
    BY <2>1, PruneTable DEF TablePart
  <2> QED  BY <2>1, <2>2, SameJobs, SameTasks, SameRest
<1>2. ASSUME NEW j \in JobIds, Cancel(j) PROVE IInv'
  <2>1. UNCHANGED <<proc, drive, stream, rest>> /\ UNCHANGED issued
        /\ j \in Created /\ Update(j, Begin(job[j], "cancelled"))
        /\ cancelKill' \in SUBSET JobIds
    BY <1>2 DEF Cancel, TablePart, TaskPart, rest
  <2>2. JobPart' /\ TablePart'
    BY <2>1, CreatedJob, BeginJob, UpdateParts DEF Causes
  <2>3. TaskPart' /\ RestPart'
    BY <2>1, SameRest DEF TaskPart, Created, rest
  <2> QED  BY <2>2, <2>3
<1>3. ASSUME NEW j \in JobIds, CancelKill(j) PROVE IInv'
  <2>1. Kills(j) /\ UNCHANGED <<drive, stream, rest, issued>>
        /\ cancelKill' \in SUBSET JobIds
    BY <1>3 DEF CancelKill, TaskPart, rest
  <2>2. TaskPart'
    BY <2>1, KillParts DEF TaskPart, Created
  <2> QED  BY <2>1, <2>2, KillParts, SameRest
<1> QED  BY <1>1, <1>2, <1>3

LEMMA ProcessSteps ==
    ASSUME IInv, NEW j \in JobIds, Environment(j) \/ NoticeExit(j)
    PROVE  IInv'
<1>0. proc[j] \in ProcRecords
      /\ (drive[j] \in {"sweeping", "settling"} => proc[j].leader \in {"exit", "signal"})
      /\ (proc[j].known => proc[j].leader \in {"exit", "signal"})
  BY DEF IInv, TaskPart
<1>1. ASSUME NEW how \in {"exit", "signal"}, LeaderExits(j, how) PROVE IInv'
  <2> DEFINE p == [proc[j] EXCEPT !.leader = how, !.open = {}]
  <2>1. p \in ProcRecords /\ p.leader = how /\ p.known = proc[j].known
    BY <1>0 DEF ProcRecords
  <2> QED  BY <1>0, <1>1, <2>1, ProcessParts DEF LeaderExits
<1>2. ASSUME NEW s \in Streams, LeaderCloses(j, s) PROVE IInv'
  <2> DEFINE p == [proc[j] EXCEPT !.open = @ \ {s}]
  <2>1. p \in ProcRecords /\ p.leader = proc[j].leader /\ p.known = proc[j].known
    BY <1>0 DEF ProcRecords
  <2>2. Process(j, p)
    BY <1>2 DEF LeaderCloses
  <2>3. /\ proc[j].leader # "none" \/ (p.leader = "none" /\ ~p.known)
        /\ proc[j].leader = "alive" => drive[j] \notin {"sweeping", "settling"}
        /\ p.known \/ proc[j].leader \in {"exit", "signal"} =>
             p.leader \in {"exit", "signal"}
    BY <1>0, <2>1
  <2> HIDE DEF p
  <2> QED  BY <2>1, <2>2, <2>3, ProcessParts
<1>3. ASSUME NEW s \in Streams, Writes(j, s) PROVE IInv'
  <2> DEFINE p == [proc[j] EXCEPT !.pipe = @ \cup {s}]
  <2>1. p \in ProcRecords /\ p.leader = proc[j].leader /\ p.known = proc[j].known
    BY <1>0 DEF ProcRecords
  <2>2. Process(j, p)
    BY <1>3 DEF Writes
  <2>3. /\ proc[j].leader # "none" \/ (p.leader = "none" /\ ~p.known)
        /\ proc[j].leader = "alive" => drive[j] \notin {"sweeping", "settling"}
        /\ p.known \/ proc[j].leader \in {"exit", "signal"} =>
             p.leader \in {"exit", "signal"}
    BY <1>0, <2>1
  <2> HIDE DEF p
  <2> QED  BY <2>1, <2>2, <2>3, ProcessParts
<1>4. ASSUME NEW kid \in Kids, Forks(j, kid) PROVE IInv'
  <2> DEFINE p == [proc[j] EXCEPT !.kid = kid]
  <2>1. p \in ProcRecords /\ p.leader = proc[j].leader /\ p.known = proc[j].known
    BY <1>0 DEF ProcRecords
  <2> QED  BY <1>0, <1>4, <2>1, ProcessParts DEF Forks
<1>5. CASE KidExits(j)
  <2> DEFINE p == [proc[j] EXCEPT !.kid = "none"]
  <2>1. p \in ProcRecords /\ p.leader = proc[j].leader /\ p.known = proc[j].known
    BY <1>0 DEF ProcRecords
  <2>2. Process(j, p)
    BY <1>5 DEF KidExits
  <2>3. /\ proc[j].leader # "none" \/ (p.leader = "none" /\ ~p.known)
        /\ proc[j].leader = "alive" => drive[j] \notin {"sweeping", "settling"}
        /\ p.known \/ proc[j].leader \in {"exit", "signal"} =>
             p.leader \in {"exit", "signal"}
    BY <1>0, <2>1
  <2> HIDE DEF p
  <2> QED  BY <2>1, <2>2, <2>3, ProcessParts
<1>6. CASE NoticeExit(j)
  <2> DEFINE p == [proc[j] EXCEPT !.known = TRUE]
  <2>1. p \in ProcRecords /\ p.leader = proc[j].leader /\ p.known
    BY <1>0 DEF ProcRecords
  <2>2. Process(j, p)
    BY <1>6 DEF NoticeExit
  <2>3. /\ proc[j].leader # "none" \/ (p.leader = "none" /\ ~p.known)
        /\ proc[j].leader = "alive" => drive[j] \notin {"sweeping", "settling"}
        /\ p.known \/ proc[j].leader \in {"exit", "signal"} =>
             p.leader \in {"exit", "signal"}
    BY <1>0, <1>6, <2>1 DEF NoticeExit
  <2> HIDE DEF p
  <2> QED  BY <2>1, <2>2, <2>3, ProcessParts
<1> QED  BY <1>1, <1>2, <1>3, <1>4, <1>5, <1>6 DEF Environment

(* What a driver's move between two positions leaves to be shown.           *)
LEMMA StepTask ==
    ASSUME TaskPart, NEW j \in JobIds, NEW from \in DrivePCs \ {"none"},
           NEW to \in DrivePCs \ {"none", "new"}, Step(j, from, to),
           to = "spawning" => from = "new",
           UNCHANGED <<cancelKill, issued>>,
           proc' \in [JobIds -> ProcRecords],
           stream' \in [JobIds -> [Streams -> StreamPCs]],
           \A i \in JobIds : \A s \in Streams :
              stream'[i][s] # "off" => stream[i][s] # "off" \/ i = j,
           \A i \in JobIds :
              /\ i # j \/ to = "spawning" => (proc[i].leader = "none" => proc'[i].leader = "none")
              /\ proc'[i].known = proc[i].known
              /\ proc[i].leader \in {"exit", "signal"} => proc'[i].leader \in {"exit", "signal"},
           to \in {"sweeping", "settling"} => proc'[j].leader \in {"exit", "signal"}
    PROVE  TaskPart'
<1>1. j \in Created /\ Created' = Created
  BY DEF TaskPart, Step, Created
<1>2. /\ drive' \in [JobIds -> DrivePCs] /\ drive'[j] = to /\ drive[j] = from
      /\ \A i \in JobIds : i # j => drive'[i] = drive[i]
  BY DEF TaskPart, Step
<1>3. ASSUME NEW i \in JobIds
      PROVE  /\ drive'[i] = "none" <=> i \notin Created'
             /\ drive'[i] \in {"none", "new", "spawning"} =>
                   proc'[i].leader = "none" /\ ~proc'[i].known
             /\ proc'[i].known \/ drive'[i] \in {"sweeping", "settling"} =>
                   proc'[i].leader \in {"exit", "signal"}
             /\ \A s \in Streams : stream'[i][s] # "off" => i \in Created'
  <2>1. CASE i = j
    BY <1>1, <1>2, <2>1 DEF TaskPart
  <2>2. CASE i # j
    BY <1>1, <1>2, <2>2 DEF TaskPart
  <2> QED  BY <2>1, <2>2
<1> QED  BY <1>2, <1>3 DEF TaskPart

(* Starting the readers of a job sets only that job's.                       *)
LEMMA ReadersStart ==
    ASSUME TaskPart, NEW j \in JobIds, StartReaders(j)
    PROVE  /\ stream' \in [JobIds -> [Streams -> StreamPCs]]
           /\ \A i \in JobIds : i # j => stream'[i] = stream[i]
<1>1. [s \in Streams |-> "reading"] \in [Streams -> StreamPCs]
  BY DEF StreamPCs
<1>2. stream \in [JobIds -> [Streams -> StreamPCs]]
  BY DEF TaskPart
<1> QED  BY <1>1, <1>2 DEF StartReaders

(* Every step of _drive_job keeps the invariant.                            *)
LEMMA DriveSteps ==
    ASSUME IInv, NEW j \in JobIds, Drive(j)
    PROVE  IInv'
<1> USE DEF IInv
<1>0. now \in Nat /\ Created' = Created /\ UNCHANGED issued
  BY DEF RestPart, Drive, DriveStarts, Spawns, SpawnFails, Adopts, KillsNow,
         WallTimeout, TimeoutKills, Reaps, SweepsGroup, Settles, JoinsReaders,
         rest, Created
<1>1. RestPart'
  BY SameRest DEF Drive, DriveStarts, Spawns, SpawnFails, Adopts, KillsNow,
         WallTimeout, TimeoutKills, Reaps, SweepsGroup, Settles, JoinsReaders
<1>2. j \in Created /\ job[j] \in JobRecords /\ JobOK(job[j])
  <2>1. drive[j] # "none"
    BY DEF Drive, DriveStarts, Spawns, SpawnFails, Adopts, KillsNow,
           WallTimeout, TimeoutKills, Reaps, SweepsGroup, Settles, JoinsReaders, Step
  <2> QED  BY <2>1, DriverCreated, CreatedJob
<1>3. proc[j] \in ProcRecords
  BY DEF TaskPart
<1>4. ASSUME NEW r \in JobRecords, JobOK(r)
      PROVE  Unspawned(r) \in JobRecords /\ JobOK(Unspawned(r))
             /\ Unspawned(r).lesson = r.lesson /\ Unspawned(r).released = r.released
  BY <1>4 DEF Unspawned, JobRecords, JobOK
<1>5. CASE DriveStarts(j)
  <2>1. CASE job[j].state # "STARTING"
    <3>1. Settle(j, Unspawned(job[j])) /\ Step(j, "new", "done")
          /\ UNCHANGED <<proc, stream, cancelKill>>
      BY <1>5, <2>1 DEF DriveStarts
    <3>2. JobPart' /\ TablePart'
      BY <1>0, <1>2, <1>4, <3>1, SettleParts
    <3>3. TaskPart'
      BY <1>0, <3>1, StepTask DEF TaskPart, DrivePCs
    <3> QED  BY <1>1, <3>2, <3>3
  <2>2. CASE job[j].state = "STARTING"
    <3>1. Step(j, "new", "spawning") /\ UNCHANGED <<job, service, proc, stream, cancelKill>>
      BY <1>5, <2>2 DEF DriveStarts
    <3>2. JobPart' /\ TablePart'
      BY <1>0, <3>1, SameJobs, SameTables DEF service
    <3>3. TaskPart'
      BY <1>0, <3>1, StepTask DEF TaskPart, DrivePCs
    <3> QED  BY <1>1, <3>2, <3>3
  <2> QED  BY <2>1, <2>2
<1>6. CASE Spawns(j)
  <2>1. Step(j, "spawning", "adopting") /\ UNCHANGED <<job, service, stream, cancelKill>>
    BY <1>6 DEF Spawns
  <2>2. JobPart' /\ TablePart'
    BY <1>0, <2>1, SameJobs, SameTables DEF service
  <2>3. /\ proc' \in [JobIds -> ProcRecords]
        /\ \A i \in JobIds : proc'[i].known = proc[i].known
        /\ \A i \in JobIds : i # j => proc'[i] = proc[i]
    <3> DEFINE p == [proc[j] EXCEPT !.leader = "alive", !.open = Streams,
                                    !.workdir = TRUE]
    <3>1. p \in ProcRecords /\ p.known = proc[j].known
      BY <1>3 DEF ProcRecords
    <3>2. proc' = [proc EXCEPT ![j] = p]
      BY <1>6 DEF Spawns
    <3> HIDE DEF p
    <3> QED  BY <3>1, <3>2 DEF TaskPart
  <2>4. proc[j].leader = "none" /\ ~proc[j].known
    BY <2>1 DEF TaskPart, Step
  <2>5. TaskPart'
    BY <1>0, <2>1, <2>3, <2>4, StepTask DEF TaskPart, DrivePCs
  <2> QED  BY <1>1, <2>2, <2>5
<1>7. CASE SpawnFails(j)
  <2>1. Settle(j, Unspawned(Begin(job[j], "spawn-failed"))) /\ Step(j, "spawning", "done")
        /\ UNCHANGED <<proc, stream, cancelKill>>
    BY <1>7 DEF SpawnFails
  <2>2. /\ Begin(job[j], "spawn-failed") \in JobRecords
        /\ JobOK(Begin(job[j], "spawn-failed"))
        /\ Begin(job[j], "spawn-failed").lesson = job[j].lesson
        /\ Begin(job[j], "spawn-failed").released
    BY <1>2, BeginJob DEF Causes
  <2>3. JobPart' /\ TablePart'
    BY <1>0, <1>2, <1>4, <2>1, <2>2, SettleParts
  <2>4. TaskPart'
    BY <1>0, <2>1, StepTask DEF TaskPart, DrivePCs
  <2> QED  BY <1>1, <2>3, <2>4
<1>8. CASE Adopts(j)
  <2>1. /\ proc' \in [JobIds -> ProcRecords] /\ UNCHANGED <<cancelKill, service>>
        /\ \A i \in JobIds : proc'[i].known = proc[i].known /\ proc'[i].leader = proc[i].leader
    <3> DEFINE p == [proc[j] EXCEPT !.adopted = TRUE]
    <3>1. p \in ProcRecords /\ p.known = proc[j].known /\ p.leader = proc[j].leader
      BY <1>3 DEF ProcRecords
    <3>2. proc' = [proc EXCEPT ![j] = p] /\ UNCHANGED <<cancelKill, service>>
      BY <1>8 DEF Adopts
    <3> HIDE DEF p
    <3> QED  BY <3>1, <3>2 DEF TaskPart
  <2>2. CASE job[j].state = "STARTING"
    <3> DEFINE r == [job[j] EXCEPT !.state = "RUNNING"]
    <3>1. Step(j, "adopting", "waiting") /\ StartReaders(j)
          /\ job' = [job EXCEPT ![j] = r]
      BY <1>8, <2>2 DEF Adopts
    <3>2. r \in JobRecords /\ JobOK(r) /\ r.lesson = job[j].lesson
          /\ r.released = job[j].released
      BY <1>2, <2>2 DEF JobRecords, JobOK
    <3>3. Release(j, r) /\ UNCHANGED <<retained, replay>>
      BY <2>1, <3>2 DEF Release, service
    <3>4. JobPart' /\ TablePart'
      <4> HIDE DEF r
      <4> QED  BY <1>0, <1>2, <3>1, <3>2, <3>3, UpdateJob, SameTables
    <3>5. stream' \in [JobIds -> [Streams -> StreamPCs]]
          /\ \A i \in JobIds : i # j => stream'[i] = stream[i]
      BY <1>0, <2>1, <3>1, ReadersStart
    <3>6. \A i \in JobIds : \A s \in Streams :
             stream'[i][s] # "off" => stream[i][s] # "off" \/ i = j
      BY <3>5
    <3>7. TaskPart'
      BY <1>0, <2>1, <3>1, <3>5, <3>6, StepTask DEF DrivePCs
    <3> QED  BY <1>1, <3>4, <3>7
  <2>3. CASE job[j].state # "STARTING"
    <3>1. Step(j, "adopting", "killing") /\ UNCHANGED <<job, stream>>
      BY <1>8, <2>3 DEF Adopts
    <3>2. JobPart' /\ TablePart'
      BY <1>0, <2>1, <3>1, SameJobs, SameTables DEF service
    <3>3. TaskPart'
      BY <1>0, <2>1, <3>1, StepTask DEF TaskPart, DrivePCs
    <3> QED  BY <1>1, <3>2, <3>3
  <2> QED  BY <2>2, <2>3
<1>9. CASE KillsNow(j)
  <2>1. Step(j, "killing", "waiting") /\ StartReaders(j) /\ Kills(j) /\ UNCHANGED cancelKill
    BY <1>9 DEF KillsNow
  <2>2. stream' \in [JobIds -> [Streams -> StreamPCs]]
        /\ \A i \in JobIds : i # j => stream'[i] = stream[i]
    BY <1>0, <2>1, ReadersStart
  <2>3. TaskPart'
    BY <1>0, <2>1, <2>2, KillParts, StepTask DEF DrivePCs
  <2> QED  BY <1>0, <1>1, <2>1, <2>3, KillParts
<1>10. CASE WallTimeout(j)
  <2> DEFINE to == IF job[j].cause = None THEN "expiring" ELSE "awaiting"
  <2>1. Step(j, "waiting", to) /\ Update(j, Begin(job[j], "timeout"))
        /\ UNCHANGED <<proc, stream, cancelKill>>
    BY <1>10 DEF WallTimeout
  <2>2. JobPart' /\ TablePart'
    BY <1>0, <1>2, <2>1, BeginJob, UpdateParts DEF Causes
  <2>3. TaskPart'
    BY <1>0, <2>1, StepTask DEF TaskPart, DrivePCs
  <2> QED  BY <1>1, <2>2, <2>3
<1>11. CASE TimeoutKills(j)
  <2>1. Step(j, "expiring", "awaiting") /\ Kills(j) /\ UNCHANGED <<stream, cancelKill>>
    BY <1>11 DEF TimeoutKills
  <2>2. TaskPart'
    BY <1>0, <2>1, KillParts, StepTask DEF DrivePCs, TaskPart
  <2> QED  BY <1>0, <1>1, <2>1, <2>2, KillParts
<1>12. CASE Reaps(j)
  <2> DEFINE r == [job[j] EXCEPT !.reaped = TRUE]
  <2>1. /\ Step(j, "waiting", "sweeping") \/ Step(j, "awaiting", "sweeping")
        /\ Update(j, r) /\ UNCHANGED <<proc, stream, cancelKill>>
        /\ proc[j].leader \in {"exit", "signal"}
    BY <1>12 DEF Reaps, TaskPart
  <2>2. r \in JobRecords /\ JobOK(r) /\ r.lesson = job[j].lesson
        /\ r.released = job[j].released
    BY <1>2 DEF JobRecords, JobOK
  <2>3. JobPart' /\ TablePart'
    <3> HIDE DEF r
    <3> QED  BY <1>0, <1>2, <2>1, <2>2, UpdateParts
  <2>4. TaskPart'
    BY <1>0, <2>1, StepTask DEF TaskPart, DrivePCs
  <2> QED  BY <1>1, <2>3, <2>4
<1>13. CASE SweepsGroup(j)
  <2> DEFINE p == [Killed(proc[j]) EXCEPT !.workdir = FALSE]
  <2>1. Step(j, "sweeping", "settling") /\ UNCHANGED <<job, stream, cancelKill, service>>
        /\ proc' = [proc EXCEPT ![j] = p]
    BY <1>13 DEF SweepsGroup
  <2>2. proc[j].leader \in {"exit", "signal"}
    BY <2>1 DEF TaskPart, Step
  <2>3. p \in ProcRecords /\ p.known = proc[j].known /\ p.leader = proc[j].leader
    BY <1>3, <2>2, KilledProc DEF ProcRecords
  <2>4. JobPart' /\ TablePart'
    BY <1>0, <2>1, SameJobs, SameTables DEF service
  <2>5. TaskPart'
    <3> HIDE DEF p
    <3>1. proc' \in [JobIds -> ProcRecords] /\
          \A i \in JobIds : proc'[i].known = proc[i].known /\ proc'[i].leader = proc[i].leader
      BY <2>1, <2>3 DEF TaskPart
    <3> QED  BY <1>0, <2>1, <2>2, <3>1, StepTask DEF TaskPart, DrivePCs
  <2> QED  BY <1>1, <2>4, <2>5
<1>14. CASE Settles(j)
  <2>1. Step(j, "settling", "joining") /\ Settle(j, Begin(job[j], proc[j].leader))
        /\ UNCHANGED <<proc, stream, cancelKill>>
    BY <1>14 DEF Settles
  <2>2. proc[j].leader \in Causes
    BY <2>1 DEF TaskPart, Step, Causes
  <2>3. JobPart' /\ TablePart'
    BY <1>0, <1>2, <2>1, <2>2, BeginJob, SettleParts
  <2>4. TaskPart'
    BY <1>0, <2>1, StepTask DEF TaskPart, DrivePCs
  <2> QED  BY <1>1, <2>3, <2>4
<1>15. CASE JoinsReaders(j)
  <2>1. Step(j, "joining", "done") /\ Settle(j, job[j])
        /\ UNCHANGED <<proc, stream, cancelKill>>
    BY <1>15 DEF JoinsReaders
  <2>2. JobPart' /\ TablePart'
    BY <1>0, <1>2, <2>1, SettleParts
  <2>3. TaskPart'
    BY <1>0, <2>1, StepTask DEF TaskPart, DrivePCs
  <2> QED  BY <1>1, <2>2, <2>3
<1> QED  BY <1>5, <1>6, <1>7, <1>8, <1>9, <1>10, <1>11, <1>12, <1>13, <1>14, <1>15 DEF Drive

(* A reader task's move; it only changes its own position.                  *)
LEMMA ReaderTask ==
    ASSUME TaskPart, NEW j \in JobIds, NEW s \in Streams,
           NEW from \in StreamPCs \ {"off"}, NEW to \in StreamPCs, Reader(j, s, from, to),
           UNCHANGED <<drive, cancelKill, issued>>,
           proc' \in [JobIds -> ProcRecords],
           \A i \in JobIds :
              /\ proc[i].leader = "none" => proc'[i].leader = "none"
              /\ proc'[i].known = proc[i].known
              /\ proc[i].leader \in {"exit", "signal"} => proc'[i].leader \in {"exit", "signal"}
    PROVE  TaskPart'
<1>1. j \in Created /\ Created' = Created
  BY DEF TaskPart, Reader, Created
<1>2. stream' \in [JobIds -> [Streams -> StreamPCs]]
      /\ \A i \in JobIds : i # j => stream'[i] = stream[i]
  BY DEF TaskPart, Reader
<1> QED  BY <1>1, <1>2 DEF TaskPart

(* Every step of _read_stream and of the finish hook keeps the invariant.   *)
LEMMA ReaderSteps ==
    ASSUME IInv, NEW j \in JobIds, NEW s \in Streams, ReadStream(j, s)
    PROVE  IInv'
<1> USE DEF IInv
<1>0. /\ now \in Nat /\ UNCHANGED issued
      /\ UNCHANGED rest /\ UNCHANGED <<drive, cancelKill>>
  BY DEF RestPart, ReadStream, ReadsChunk, Overflows, ReadFails, ReaderKills,
         ReadsEof, Closes, rest
<1>1. RestPart'
  BY <1>0, SameRest
<1>2. j \in Created /\ job[j] \in JobRecords /\ JobOK(job[j])
  <2>1. stream[j][s] # "off"
    BY DEF ReadStream, ReadsChunk, Overflows, ReadFails, ReaderKills,
           ReadsEof, Closes, Reader
  <2> QED  BY <2>1, ReaderCreated, CreatedJob
<1>3. proc[j] \in ProcRecords /\ proc \in [JobIds -> ProcRecords]
  BY DEF TaskPart
<1>4. ASSUME NEW n \in 1..MaxChunk, NEW text \in BOOLEAN, NEW partial \in BOOLEAN,
             ReadsChunk(j, s, n, text, partial)
      PROVE  IInv'
  <2> DEFINE left     == Remaining(job[j])
             accepted == IF n < left THEN n ELSE left
             r == [job[j] EXCEPT !.bytes = @ + accepted,
                                 !.truncated = @ \/ n > accepted,
                                 !.partial = IF accepted = 0 THEN @
                                             ELSE IF partial THEN @ \cup {s}
                                             ELSE @ \ {s}]
             to == IF n > accepted THEN "overflow" ELSE "reading"
             p == [proc[j] EXCEPT !.pipe = @ \ {s}]
             e == IF accepted > 0 /\ text THEN Emit(r, "output") ELSE r
  <2>1. Reader(j, s, "reading", to) /\ Update(j, e) /\ proc' = [proc EXCEPT ![j] = p]
    BY <1>4 DEF ReadsChunk
  <2>2. job[j].bytes + accepted \in 0..OutputLimit
    <3>1. job[j].bytes \in 0..OutputLimit /\ OutputLimit \in Nat /\ MaxChunk \in Nat
      BY <1>2, RunnerAssumption DEF JobRecords
    <3> QED  BY <3>1 DEF Remaining
  <2>3. r \in JobRecords /\ r.state = job[j].state /\ r.cause = job[j].cause
        /\ r.lesson = job[j].lesson /\ r.key = job[j].key
        /\ r.released = job[j].released
    <3> HIDE DEF accepted
    <3>1. (job[j].truncated \/ n > accepted) \in BOOLEAN
      BY <1>2 DEF JobRecords
    <3> QED  BY <1>2, <2>2, <3>1 DEF JobRecords
  <2>4. JobOK(r)
    BY <1>2, <2>3 DEF JobOK
  <2>5. e \in JobRecords /\ JobOK(e) /\ e.lesson = job[j].lesson
        /\ e.released = job[j].released
    <3> HIDE DEF r, accepted
    <3>1. Emit(r, "output") \in JobRecords /\ JobOK(Emit(r, "output"))
          /\ Emit(r, "output").lesson = r.lesson
          /\ Emit(r, "output").released = r.released
      BY <2>3, <2>4, EmitJob
    <3> QED  BY <2>3, <2>4, <3>1
  <2>6. JobPart' /\ TablePart'
    <3> HIDE DEF e
    <3> QED  BY <1>0, <1>2, <2>1, <2>5, UpdateParts
  <2>7. p \in ProcRecords /\ p.known = proc[j].known /\ p.leader = proc[j].leader
    BY <1>3 DEF ProcRecords
  <2>8. TaskPart'
    <3> HIDE DEF p, accepted
    <3>1. proc' \in [JobIds -> ProcRecords] /\
          \A i \in JobIds : proc'[i].known = proc[i].known /\ proc'[i].leader = proc[i].leader
      BY <1>3, <2>1, <2>7
    <3> QED  BY <1>0, <2>1, <3>1, ReaderTask DEF StreamPCs
  <2> QED  BY <1>1, <2>6, <2>8
<1>5. CASE Overflows(j, s)
  <2> DEFINE to == IF job[j].cause = None THEN "overflow kill" ELSE "reading"
  <2>1. Reader(j, s, "overflow", to) /\ Update(j, Begin(job[j], "output-limit"))
        /\ UNCHANGED proc
    BY <1>5 DEF Overflows
  <2>2. JobPart' /\ TablePart'
    BY <1>0, <1>2, <2>1, BeginJob, UpdateParts DEF Causes
  <2>3. TaskPart'
    BY <1>0, <1>3, <2>1, ReaderTask DEF StreamPCs
  <2> QED  BY <1>1, <2>2, <2>3
<1>6. CASE ReadFails(j, s)
  <2> DEFINE to == IF job[j].cause = None THEN "error kill" ELSE "closing"
  <2>1. Reader(j, s, "reading", to) /\ Update(j, Begin(job[j], "spawn-failed"))
        /\ UNCHANGED proc
    BY <1>6 DEF ReadFails
  <2>2. JobPart' /\ TablePart'
    BY <1>0, <1>2, <2>1, BeginJob, UpdateParts DEF Causes
  <2>3. TaskPart'
    BY <1>0, <1>3, <2>1, ReaderTask DEF StreamPCs
  <2> QED  BY <1>1, <2>2, <2>3
<1>7. CASE ReaderKills(j, s)
  <2>1. /\ Reader(j, s, "overflow kill", "reading") \/ Reader(j, s, "error kill", "closing")
        /\ Kills(j)
    BY <1>7 DEF ReaderKills
  <2>2. TaskPart'
    BY <1>0, <2>1, KillParts, ReaderTask DEF StreamPCs
  <2> QED  BY <1>0, <1>1, <2>1, <2>2, KillParts
<1>8. CASE ReadsEof(j, s)
  <2> DEFINE e == IF s \in job[j].partial THEN Emit(job[j], "output") ELSE job[j]
  <2>1. Reader(j, s, "reading", "closing") /\ Update(j, e) /\ UNCHANGED proc
    BY <1>8 DEF ReadsEof
  <2>2. e \in JobRecords /\ JobOK(e) /\ e.lesson = job[j].lesson
        /\ e.released = job[j].released
    BY <1>2, EmitJob
  <2>3. JobPart' /\ TablePart'
    <3> HIDE DEF e
    <3> QED  BY <1>0, <1>2, <2>1, <2>2, UpdateParts
  <2>4. TaskPart'
    BY <1>0, <1>3, <2>1, ReaderTask DEF StreamPCs
  <2> QED  BY <1>1, <2>3, <2>4
<1>9. CASE Closes(j, s)
  <2> DEFINE r == [job[j] EXCEPT !.eof = @ \cup {s}]
  <2>1. Reader(j, s, "closing", "done") /\ Settle(j, r) /\ UNCHANGED proc
    BY <1>9 DEF Closes
  <2>2. r \in JobRecords /\ JobOK(r) /\ r.lesson = job[j].lesson
        /\ r.released = job[j].released
    BY <1>2 DEF JobRecords, JobOK
  <2>3. JobPart' /\ TablePart'
    <3> HIDE DEF r
    <3> QED  BY <1>0, <1>2, <2>1, <2>2, SettleParts
  <2>4. TaskPart'
    BY <1>0, <1>3, <2>1, ReaderTask DEF StreamPCs
  <2> QED  BY <1>1, <2>3, <2>4
<1> QED  BY <1>4, <1>5, <1>6, <1>7, <1>8, <1>9 DEF ReadStream

(* A job whose leases or waiters change keeps its reservation.              *)
LEMMA ShareParts ==
    ASSUME JobPart, NEW j \in Created, NEW r \in JobRecords,
           r.state = job[j].state, r.cause = job[j].cause, r.lesson = job[j].lesson,
           r.key = job[j].key, r.released = job[j].released,
           job' = [job EXCEPT ![j] = r],
           UNCHANGED <<issued, activeTotal, activeByLesson>>
    PROVE  JobPart'
<1>1. JobOK(r)
  BY CreatedJob DEF JobOK
<1>2. Release(j, r)
  BY DEF Release
<1> QED  BY <1>1, <1>2, UpdateJob

(* A handler's new record, well typed, keeps RestPart.                      *)
SseRecords ==
    [pc : {"idle", "opened", "polling", "asking", "blocked", "complete", "closing"},
     job : 0..MaxJobs, cursor : Nat, lease : BOOLEAN, releases : 0..2]

LEMMA StreamRest ==
    ASSUME RestPart, UNCHANGED <<issued, accepting, stop, now>>, NEW q \in Readers,
           NEW d \in SseRecords, d.pc # "idle" => d.job \in Created,
           sse' = [sse EXCEPT ![q] = d]
    PROVE  RestPart'
BY DEF RestPart, SseRecords, Created

(* What a reader or the hook changes in a record keeps its type and state.  *)
Kin(r, c) ==
    /\ r.state = c.state /\ r.cause = c.cause /\ r.lesson = c.lesson
    /\ r.key = c.key /\ r.released = c.released

LEMMA RecordEdits ==
    ASSUME NEW c \in JobRecords, NEW n \in Nat, NEW w \in SUBSET Readers,
           NEW h \in {"none", "pending", "recorded", "failed"}
    PROVE  /\ [c EXCEPT !.readers = n] \in JobRecords
           /\ Kin([c EXCEPT !.readers = n], c)
           /\ [c EXCEPT !.waiters = w] \in JobRecords
           /\ Kin([c EXCEPT !.waiters = w], c)
           /\ [c EXCEPT !.hook = h, !.waiters = w] \in JobRecords
           /\ Kin([c EXCEPT !.hook = h, !.waiters = w], c)
<1>1. [c EXCEPT !.readers = n] \in JobRecords
  BY DEF JobRecords
<1>2. [c EXCEPT !.waiters = w] \in JobRecords
  BY DEF JobRecords
<1>3. [c EXCEPT !.hook = h, !.waiters = w] \in JobRecords
  BY DEF JobRecords
<1>4. Kin([c EXCEPT !.readers = n], c)
  BY DEF JobRecords, Kin
<1>5. Kin([c EXCEPT !.waiters = w], c)
  BY DEF JobRecords, Kin
<1>6. Kin([c EXCEPT !.hook = h, !.waiters = w], c)
  BY DEF JobRecords, Kin
<1> QED  BY <1>1, <1>2, <1>3, <1>4, <1>5, <1>6

(* The same for a handler's record: a poll, and a release of its lease.      *)
LEMMA PollEdits ==
    ASSUME NEW c \in SseRecords, NEW n \in Nat, NEW pc \in {"complete", "asking"},
           NEW k \in 0..2
    PROVE  /\ [c EXCEPT !.cursor = n, !.pc = pc, !.releases = k] \in SseRecords
           /\ [c EXCEPT !.cursor = n, !.pc = pc, !.releases = k].job = c.job
<1>1. [c EXCEPT !.cursor = n, !.pc = pc, !.releases = k] \in SseRecords
  BY DEF SseRecords
<1>2. [c EXCEPT !.cursor = n, !.pc = pc, !.releases = k].job = c.job
  BY DEF SseRecords
<1> QED  BY <1>1, <1>2

LEMMA ReleaseEdits ==
    ASSUME NEW c \in SseRecords, NEW b \in BOOLEAN, NEW k \in 0..2
    PROVE  /\ [c EXCEPT !.lease = b, !.releases = k] \in SseRecords
           /\ [c EXCEPT !.lease = b, !.releases = k].job = c.job
<1>1. [c EXCEPT !.lease = b, !.releases = k] \in SseRecords
  BY DEF SseRecords
<1>2. [c EXCEPT !.lease = b, !.releases = k].job = c.job
  BY DEF SseRecords
<1> QED  BY <1>1, <1>2

(* Every step of a stream handler keeps the invariant.                      *)
LEMMA StreamSteps ==
    ASSUME IInv, NEW q \in Readers,
           \/ \E j \in JobIds, after \in 0..(OutputLimit + 3) : Attach(q, j, after)
           \/ Stream(q) \/ KeepsAlive(q) \/ Disconnects(q)
    PROVE  IInv'
<1> USE DEF IInv
<1>1. UNCHANGED <<issued, tasks, accepting, stop, now>> /\ Created' = Created
  BY DEF Attach, Stream, Polls, Asks, Wakes, KeepsAlive, Disconnects, LeaveWait,
         Detaches, loop, Created
<1>2. TaskPart'
  BY <1>1, SameTasks
<1>3. replay \in [Lessons \X Keys -> Entries]
  BY DEF TablePart
<1>4. sse[q].pc # "idle" =>
        /\ sse[q].job \in Created /\ job[sse[q].job] \in JobRecords
        /\ Len(job[sse[q].job].events) \in Nat
  <2>1. sse[q].pc # "idle" => sse[q].job \in Created
    BY DEF RestPart
  <2>2. ASSUME NEW j \in Created
        PROVE  job[j] \in JobRecords /\ Len(job[j].events) \in Nat
    <3>1. job[j] \in JobRecords
      BY CreatedJob
    <3>2. job[j].events \in Seq({"output", "exit"})
      BY <3>1 DEF JobRecords
    <3> QED  BY <3>1, <3>2
  <2> QED  BY <2>1, <2>2
<1>5. ASSUME NEW j \in JobIds, NEW after \in Nat, Attach(q, j, after) PROVE IInv'
  <2> DEFINE r == [job[j] EXCEPT !.readers = @ + 1]
  <2>1. TablePart' /\ j \in Created /\ job' = [job EXCEPT ![j] = r]
        /\ UNCHANGED <<activeTotal, activeByLesson>>
    <3>1. Prune(job, replay) /\ j \in retained'
      BY <1>5 DEF Attach
    <3>2. TablePart'
      BY <1>1, <1>3, <3>1, PruneTable
    <3> QED  BY <1>1, <1>5, <3>1, <3>2 DEF Attach, TablePart, loop
  <2>2. job[j] \in JobRecords
    BY <2>1, CreatedJob
  <2>3. r \in JobRecords /\ r.state = job[j].state /\ r.cause = job[j].cause
        /\ r.lesson = job[j].lesson /\ r.key = job[j].key /\ r.released = job[j].released
    <3>1. job[j].readers + 1 \in Nat
      BY <2>2 DEF JobRecords
    <3> DEFINE n == job[j].readers + 1
    <3>2. r = [job[j] EXCEPT !.readers = n]
      BY <2>2 DEF JobRecords
    <3> HIDE DEF n, r
    <3> QED  BY <2>2, <3>1, <3>2, RecordEdits DEF Kin, n
  <2>4. JobPart'
    <3> HIDE DEF r
    <3> QED  BY <1>1, <2>1, <2>3, ShareParts
  <2>5. sse' = [sse EXCEPT ![q] = [pc |-> "opened", job |-> j, cursor |-> after,
                                  lease |-> TRUE, releases |-> 1]]
    BY <1>5 DEF Attach
  <2>6. RestPart'
    BY <1>1, <2>1, <2>5 DEF RestPart, JobIds
  <2> QED  BY <1>2, <2>1, <2>4, <2>6
<1>6. CASE Polls(q)
  <2> DEFINE n  == Len(job[sse[q].job].events)
             pc == IF Finished(sse[q].job) THEN "complete" ELSE "asking"
  <2>1. /\ Prune(job, replay) /\ UNCHANGED <<job, activeTotal, activeByLesson>>
        /\ sse[q].pc # "idle"
        /\ sse' = [sse EXCEPT ![q].cursor = n, ![q].pc = pc, ![q].releases = 2]
    BY <1>6 DEF Polls, loop
  <2>2. RestPart'
    <3>1. n \in Nat /\ pc \in {"complete", "asking"}
      BY <1>4, <2>1
    <3>2. sse[q] \in SseRecords /\ sse[q].job \in Created
      BY <2>1 DEF RestPart, SseRecords
    <3> HIDE DEF n, pc
    <3> DEFINE d == [sse[q] EXCEPT !.cursor = n, !.pc = pc, !.releases = 2]
    <3>3. d \in SseRecords /\ d.job = sse[q].job
      <4> DEFINE k == 2
                 c == sse[q]
                 e == [c EXCEPT !.cursor = n, !.pc = pc, !.releases = k]
      <4>1. k \in 0..2 /\ d = e /\ c = sse[q] /\ c \in SseRecords
        BY <3>2
      <4> HIDE DEF k, c, d
      <4>2. e \in SseRecords
        BY <3>1, <4>1, PollEdits
      <4>3. e.job = c.job
        BY <3>1, <4>1 DEF SseRecords
      <4> QED  BY <4>1, <4>2, <4>3
    <3>4. sse' = [sse EXCEPT ![q] = d]
      BY <2>1
    <3> HIDE DEF d
    <3> QED  BY <1>1, <3>2, <3>3, <3>4, StreamRest
  <2> QED  BY <1>1, <1>2, <1>3, <2>1, <2>2, PruneTable, SameJobs
<1>7. CASE Asks(q)
  <2> DEFINE j == sse[q].job
             r == [job[j] EXCEPT !.waiters = @ \cup {q}]
  <2>1. /\ Prune(job, replay) /\ UNCHANGED <<activeTotal, activeByLesson>>
        /\ j \in Created /\ job[j] \in JobRecords /\ sse[q].pc # "idle"
        /\ \E pc \in {"polling", "blocked"} : sse' = [sse EXCEPT ![q].pc = pc]
        /\ UNCHANGED job \/ job' = [job EXCEPT ![j] = r]
    BY <1>4, <1>7 DEF Asks, loop
  <2>2. r \in JobRecords /\ r.state = job[j].state /\ r.cause = job[j].cause
        /\ r.lesson = job[j].lesson /\ r.key = job[j].key /\ r.released = job[j].released
    BY <2>1 DEF JobRecords
  <2>3. JobPart'
    <3> HIDE DEF r, j
    <3> QED  BY <1>1, <2>1, <2>2, ShareParts, SameJobs
  <2>4. RestPart'
    BY <1>1, <2>1 DEF RestPart
  <2> QED  BY <1>1, <1>2, <1>3, <2>1, <2>3, <2>4, PruneTable
<1>8. CASE Wakes(q)
  <2>1. UNCHANGED <<job, service>> /\ sse[q].pc # "idle"
        /\ sse' = [sse EXCEPT ![q].pc = "polling"]
    BY <1>8 DEF Wakes
  <2>2. RestPart'
    BY <1>1, <2>1 DEF RestPart
  <2> QED  BY <1>1, <1>2, <2>1, <2>2, SameJobs, SameTables DEF service
<1>9. CASE KeepsAlive(q) \/ Disconnects(q)
  <2> DEFINE j == sse[q].job
             r == [job[j] EXCEPT !.waiters = @ \ {q}]
  <2>1. /\ UNCHANGED service /\ job' = [job EXCEPT ![j] = r]
        /\ j \in Created /\ job[j] \in JobRecords /\ sse[q].pc # "idle"
        /\ \E pc \in {"polling", "closing"} : sse' = [sse EXCEPT ![q].pc = pc]
    BY <1>4, <1>9 DEF KeepsAlive, Disconnects, LeaveWait
  <2>2. r \in JobRecords /\ r.state = job[j].state /\ r.cause = job[j].cause
        /\ r.lesson = job[j].lesson /\ r.key = job[j].key /\ r.released = job[j].released
    BY <2>1 DEF JobRecords
  <2>3. JobPart'
    <3> HIDE DEF r, j
    <3> QED  BY <1>1, <2>1, <2>2, ShareParts DEF service
  <2>4. RestPart'
    BY <1>1, <2>1 DEF RestPart
  <2> QED  BY <1>1, <1>2, <2>1, <2>3, <2>4, SameTables DEF service
<1>10. CASE Detaches(q)
  <2> DEFINE j == sse[q].job
             r == [job[j] EXCEPT !.readers = IF @ > 0 THEN @ - 1 ELSE @]
             d == IF sse[q].releases = 1 THEN Idle
                  ELSE [sse[q] EXCEPT !.lease = FALSE, !.releases = 1]
  <2>1. /\ UNCHANGED <<activeTotal, activeByLesson>> /\ sse' = [sse EXCEPT ![q] = d]
        /\ \/ UNCHANGED <<job, retained, replay>>
           \/ job' = [job EXCEPT ![j] = r] /\ Prune(job', replay)
        /\ j \in Created /\ job[j] \in JobRecords /\ sse[q].pc # "idle"
    BY <1>4, <1>10 DEF Detaches, loop
  <2>2. r \in JobRecords /\ r.state = job[j].state /\ r.cause = job[j].cause
        /\ r.lesson = job[j].lesson /\ r.key = job[j].key /\ r.released = job[j].released
    <3>1. (IF job[j].readers > 0 THEN job[j].readers - 1 ELSE job[j].readers) \in Nat
      BY <2>1 DEF JobRecords
    <3> DEFINE c == job[j]
               n == IF c.readers > 0 THEN c.readers - 1 ELSE c.readers
    <3>2. c \in JobRecords /\ n \in Nat /\ r = [c EXCEPT !.readers = n]
      BY <2>1, <3>1
    <3>3. job[j] = c
      OBVIOUS
    <3> HIDE DEF n, r, c
    <3>4. r \in JobRecords /\ Kin(r, c)
      BY <3>2, RecordEdits
    <3> QED  BY <3>3, <3>4 DEF Kin
  <2>3. JobPart'
    <3> HIDE DEF r, j
    <3> QED  BY <1>1, <2>1, <2>2, ShareParts, SameJobs
  <2>4. TablePart'
    <3>1. Prune(job', replay) => TablePart'
      BY <1>1, <1>3, PruneTable
    <3> QED  BY <1>1, <2>1, <3>1, SameTables
  <2>5. RestPart'
    <3>1. sse[q] \in SseRecords
      BY DEF RestPart, SseRecords
    <3>2. Idle \in SseRecords /\ Idle.pc = "idle"
      BY RunnerAssumption DEF Idle, SseRecords
    <3> DEFINE k == 1
               b == FALSE
               e == [sse[q] EXCEPT !.lease = b, !.releases = k]
    <3>3. e \in SseRecords /\ e.job = sse[q].job
      <4>1. k \in 0..2 /\ b \in BOOLEAN
        OBVIOUS
      <4> HIDE DEF k, b
      <4> QED  BY <3>1, <4>1, ReleaseEdits DEF e
    <3>4. d = IF sse[q].releases = 1 THEN Idle ELSE e
      OBVIOUS
    <3> HIDE DEF e
    <3>5. d \in SseRecords /\ (d.pc # "idle" => d.job \in Created)
      BY <2>1, <3>2, <3>3, <3>4
    <3> HIDE DEF d
    <3> QED  BY <1>1, <2>1, <3>5, StreamRest
  <2> QED  BY <1>2, <2>3, <2>4, <2>5
<1>11. \A after \in 0..(OutputLimit + 3) : after \in Nat
  BY RunnerAssumption
<1> QED  BY <1>5, <1>6, <1>7, <1>8, <1>9, <1>10, <1>11 DEF Stream

(* The finish hook, shutdown and the clock keep the invariant.              *)
LEMMA ServiceSteps ==
    ASSUME IInv, \/ \E j \in JobIds, outcome \in {"recorded", "failed"} : Notify(j, outcome)
                 \/ ShutdownBegins \/ Shutdown \/ Tick
    PROVE  IInv'
<1> USE DEF IInv
<1>1. ASSUME NEW j \in JobIds, NEW outcome \in {"recorded", "failed"}, Notify(j, outcome)
      PROVE  IInv'
  <2> DEFINE r == [job[j] EXCEPT !.hook = outcome, !.waiters = {}]
  <2>1. job[j].hook = "pending" /\ Update(j, r) /\ UNCHANGED <<tasks, rest>>
        /\ UNCHANGED issued
    BY <1>1 DEF Notify, rest
  <2>2. j \in Created
    BY <2>1 DEF JobPart, NoJob
  <2>3. r \in JobRecords /\ JobOK(r) /\ r.lesson = job[j].lesson
        /\ r.released = job[j].released
    <3>1. job[j] \in JobRecords /\ JobOK(job[j])
      BY <2>2, CreatedJob
    <3>2. r \in JobRecords /\ r.state = job[j].state /\ r.cause = job[j].cause
          /\ r.lesson = job[j].lesson /\ r.key = job[j].key
          /\ r.released = job[j].released
      <4> DEFINE c == job[j]
                 w == {}
      <4>1. c \in JobRecords /\ w \in SUBSET Readers /\ outcome \in {"recorded", "failed"}
            /\ r = [c EXCEPT !.hook = outcome, !.waiters = w] /\ job[j] = c
        BY <3>1
      <4> HIDE DEF c, r, w
      <4>2. r \in JobRecords /\ Kin(r, c)
        BY <4>1, RecordEdits
      <4> QED  BY <4>1, <4>2 DEF Kin
    <3> HIDE DEF r
    <3> QED  BY <3>1, <3>2 DEF JobOK
  <2>4. JobPart' /\ TablePart'
    <3> HIDE DEF r
    <3> QED  BY <2>1, <2>2, <2>3, UpdateParts
  <2> QED  BY <2>1, <2>4, SameTasks, SameRest
<1>2. CASE ShutdownBegins
  <2>1. UNCHANGED <<issued, tasks, retained, replay, sse, now>> /\ accepting' = FALSE
    BY <1>2 DEF ShutdownBegins
  <2>2. stop' \in [pc : {"serving", "joining", "hooks", "stopped"},
                  kill : SUBSET JobIds, join : SUBSET JobIds, hooks : SUBSET JobIds]
    <3>1. retained \subseteq JobIds
      BY RunnerAssumption DEF TablePart, JobPart, Created, JobIds
    <3> QED  BY <1>2, <3>1 DEF ShutdownBegins
  <2>3. RestPart'
    BY <2>1, <2>2 DEF RestPart, Created
  <2> QED  BY <1>2, <2>1, <2>3, ShutdownBeginsParts, SameTasks, SameTables
<1>3. ASSUME NEW j \in JobIds, ShutdownKills(j) PROVE IInv'
  <2>1. Kills(j) /\ UNCHANGED <<issued, drive, stream, cancelKill, accepting, sse, now>>
        /\ stop' = [stop EXCEPT !.kill = @ \ {j}]
    BY <1>3 DEF ShutdownKills
  <2>2. TaskPart'
    BY <2>1, KillParts DEF TaskPart, Created
  <2>3. RestPart'
    BY <2>1 DEF RestPart, Created
  <2> QED  BY <2>1, <2>2, <2>3, KillParts
<1>4. CASE ShutdownJoins \/ ShutdownEnds
  <2>1. UNCHANGED <<job, issued, tasks, service, accepting, sse, now>>
    BY <1>4 DEF ShutdownJoins, ShutdownEnds
  <2>2. Created \subseteq JobIds
    BY RunnerAssumption DEF JobPart, Created, JobIds
  <2>3. stop' \in [pc : {"serving", "joining", "hooks", "stopped"},
                  kill : SUBSET JobIds, join : SUBSET JobIds, hooks : SUBSET JobIds]
    <3>1. CASE ShutdownJoins
      <4> DEFINE h == {j \in Created : job[j].hook = "pending"}
      <4>1. h \in SUBSET JobIds
        BY <2>2
      <4>2. stop' = [stop EXCEPT !.pc = "hooks", !.hooks = h]
        BY <3>1 DEF ShutdownJoins
      <4> HIDE DEF h
      <4> QED  BY <4>1, <4>2 DEF RestPart
    <3>2. CASE ShutdownEnds
      BY <3>2 DEF ShutdownEnds, RestPart
    <3> QED  BY <1>4, <3>1, <3>2
  <2>4. RestPart'
    BY <2>1, <2>3 DEF RestPart, Created
  <2> QED  BY <2>1, <2>4, SameJobs, SameTasks, SameTables DEF service
<1>5. CASE Tick
  <2>1. UNCHANGED <<job, issued, tasks, service, accepting, stop, sse>> /\ now' = now + 1
    BY <1>5 DEF Tick
  <2>2. RestPart'
    BY <2>1 DEF RestPart, Created
  <2> QED  BY <2>1, <2>2, SameJobs, SameTasks, SameTables DEF service
<1> QED  BY <1>1, <1>2, <1>3, <1>4, <1>5 DEF Shutdown

-----------------------------------------------------------------------------
(* The invariant holds initially.                                           *)
LEMMA InitInv == Init => IInv
<1> SUFFICES ASSUME Init PROVE IInv
  OBVIOUS
<1> USE RunnerAssumption DEF Init
<1>1. Created = {} /\ JobIds \in SUBSET Nat
  BY DEF Created, JobIds
<1>2. NoJob \in JobRecords /\ NoJob.state = "NONE"
  <2>1. <<>> \in Seq({"output", "exit"}) /\ 0 \in 0..OutputLimit
    OBVIOUS
  <2> QED  BY <2>1 DEF NoJob, JobRecords
<1>3. ActiveJobs = {} /\ \A l \in Lessons : ActiveOf(l) = {}
  BY <1>2 DEF ActiveJobs, ActiveOf, Active
<1>4. Cardinality(ActiveJobs) = 0 /\ \A l \in Lessons : Cardinality(ActiveOf(l)) = 0
  BY <1>3, FS_EmptySet
<1>5. CapacityAccounting
  BY <1>4 DEF CapacityAccounting, ActiveJobs, ActiveOf
<1>6. JobPart
  BY <1>1, <1>2, <1>5 DEF JobPart
<1>7. TaskPart
  BY <1>1 DEF TaskPart, NoProc, ProcRecords, DrivePCs, StreamPCs
<1>8. TablePart
  BY DEF TablePart, NoEntry, Never, Entries
<1>9. RestPart
  BY DEF RestPart, Idle
<1> QED  BY <1>6, <1>7, <1>8, <1>9 DEF IInv

(* Every step keeps the invariant.                                          *)
LEMMA NextInv == IInv /\ [Next]_vars => IInv'
<1> SUFFICES ASSUME IInv, [Next]_vars PROVE IInv'
  OBVIOUS
<1>1. ASSUME NEW l \in Lessons, NEW k \in Keys, NEW v \in Revs, Admit(l, k, v)
      PROVE  IInv'
  <2>1. JobPart' /\ TablePart' /\ TaskPart'
    BY <1>1, AdmitParts
  <2>2. UNCHANGED <<accepting, stop, sse, now>> /\ issued' = issued + 1 /\ issued \in Nat
    BY <1>1, RunnerAssumption DEF Admit, IInv, JobPart
  <2>3. RestPart'
    BY <2>2 DEF IInv, RestPart, Created
  <2> QED  BY <2>1, <2>3 DEF IInv
<1>2. CASE UNCHANGED vars
  BY <1>2, SameJobs, SameTasks, SameTables, SameRest DEF IInv, vars, rest, service
<1>3. CASE Next
  BY <1>1, <1>3, RequestSteps, ProcessSteps, DriveSteps, ReaderSteps, StreamSteps,
     ServiceSteps DEF Next
<1> QED  BY <1>2, <1>3

(* The inductive invariant holds in every reachable state.                  *)
THEOREM Invariance == Spec => []IInv
BY InitInv, NextInv, PTL DEF Spec

(* Type correctness of the service, for every value of the constants.       *)
THEOREM TypeCorrect == Spec => []TypeOK
<1>1. IInv => TypeOK
  <2> SUFFICES ASSUME IInv PROVE TypeOK
    OBVIOUS
  <2>1. IsFiniteSet(JobIds)
    BY RunnerAssumption, FS_Interval DEF JobIds
  <2>2. activeTotal \in Nat
    BY <2>1, FS_Subset, FS_CardinalityType DEF IInv, JobPart, CapacityAccounting
  <2>3. \A l \in Lessons : activeByLesson[l] \in Nat
    BY <2>1, FS_Subset, FS_CardinalityType DEF IInv, JobPart, CapacityAccounting
  <2> QED  BY <2>2, <2>3 DEF TypeOK, IInv, JobPart, TaskPart, TablePart, RestPart
<1> QED  BY <1>1, Invariance, PTL

(* Admission is never fooled: with any limits, lessons and numbers of jobs, *)
(* the counters are the active jobs and the limits hold.                    *)
THEOREM CapacityHolds == Spec => []CapacityAccounting
<1>1. IInv => CapacityAccounting
  BY DEF IInv, JobPart
<1> QED  BY <1>1, Invariance, PTL

-----------------------------------------------------------------------------
(***************************************************************************)
(* What the runner service promises of its jobs: how a job ends            *)
(* (JobsEndClean), that the first cause of an end stands (CauseSettled),   *)
(* what its streams deliver (StreamsDeliver), and the tables: one run per  *)
(* key, for as long as a start may be repeated, and the bound on the       *)
(* finished jobs that are kept (TablesSound).                              *)
(*                                                                         *)
(* EndInv is inductive given IInv.  Its parts say, of a job                *)
(* record (RecordEnds), where its exit event and its hook stand; how far   *)
(* its driver (DriverEnds) and its readers (ReadersEnd) have come when     *)
(* process_reaped and the streams' ends are set; what is left of its       *)
(* process at each position of the driver (ProcessEnds); and what each     *)
(* phase of shutdown() has waited for (StopEnds).                          *)
(*                                                                         *)
(* StreamInv is inductive given both.  Its steps rest on Moves, which says *)
(* what one step may make of a job record.                                 *)
(*                                                                         *)
(* Books relates the job table, the replay table and the retained jobs: an *)
(* entry tells of a job of its own lesson and key, and of its deadline; a  *)
(* retained job owns its entry; and a job that has lost its entry finished *)
(* at least the retention time ago.  PruneBooks shows that a prune keeps   *)
(* it, whatever it drops, and KeptBound what a prune may leave.            *)
(***************************************************************************)

RecordEnds(r) ==
    /\ \A n \in 1..Len(r.events) :
          r.events[n] = "exit" <=> r.state = "FINISHED" /\ n = Len(r.events)
    /\ r.state = "FINISHED" => r.reaped /\ r.eof = Streams /\ r.events # <<>>
    /\ r.state = "FINISHED" <=> r.hook # "none"

Before == {"none", "new", "spawning", "adopting", "killing"}
After  == {"sweeping", "settling", "joining", "done"}

DriverEnds(r, d) ==
    /\ r.reaped <=> d \in After
    /\ d \in {"new", "spawning", "adopting"} => r.state # "RUNNING"
    /\ d \in {"joining", "done"} => r.cause # None
    /\ d = "done" => r.state = "FINISHED"

ReadersEnd(r, d, t) ==
    /\ \A s \in Streams : s \in r.eof <=> t[s] = "done" \/ d = "done"
    /\ d \in Before => \A s \in Streams : t[s] = "off"
    /\ d = "done" => \A s \in Streams : t[s] \in {"off", "done"}

ProcessEnds(d, p) ==
    /\ d \in {"none", "new", "spawning"} => p.kid = "none" /\ ~p.workdir
    /\ d \in After => p.leader # "alive"
    /\ d \in {"settling", "joining", "done"} => p.kid = "none" /\ ~p.workdir

JobEnds(j) ==
    /\ RecordEnds(job[j])
    /\ DriverEnds(job[j], drive[j])
    /\ ReadersEnd(job[j], drive[j], stream[j])

StopEnds ==
    /\ stop.pc # "serving" => ~accepting
    /\ stop.pc = "joining" => \A j \in Created : j \in stop.join \/ Finished(j)
    /\ stop.pc \in {"hooks", "stopped"} => \A j \in Created : Finished(j)
    /\ stop.pc = "hooks" =>
          \A j \in Created : job[j].hook = "pending" => j \in stop.hooks
    /\ stop.pc = "stopped" => \A j \in Created : job[j].hook # "pending"

EndInv ==
    /\ \A j \in Created : JobEnds(j)
    /\ \A j \in Created : Finished(j) \/ j \in retained
    /\ \A j \in JobIds : ProcessEnds(drive[j], proc[j])
    /\ StopEnds

-----------------------------------------------------------------------------
(* The helpers on job records.                                              *)

(* A termination is not an end: events, hook and streams stay.              *)
LEMMA BeginEnds ==
    ASSUME NEW r \in JobRecords, JobOK(r), RecordEnds(r), NEW c \in Causes
    PROVE  /\ RecordEnds(Begin(r, c)) /\ Begin(r, c).cause # None
           /\ Begin(r, c).reaped = r.reaped /\ Begin(r, c).eof = r.eof
           /\ Begin(r, c).hook = r.hook
           /\ Begin(r, c).state \in {"TERMINATING", "FINISHED"}
           /\ Begin(r, c).state = "FINISHED" <=> r.state = "FINISHED"
<1>1. CASE r.cause # None
  BY <1>1 DEF Begin, JobOK
<1>2. CASE r.cause = None
  <2>1. r.state # "FINISHED"
    BY <1>2 DEF JobOK
  <2>2. c # None
    BY RunnerAssumption
  <2> QED  BY <1>2, <2>1, <2>2 DEF Begin, JobRecords, RecordEnds
<1> QED  BY <1>1, <1>2

(* Output before the exit leaves the exit to come.                          *)
LEMMA OutputEnds ==
    ASSUME NEW r \in JobRecords, RecordEnds(r), r.state # "FINISHED"
    PROVE  /\ RecordEnds(Emit(r, "output")) /\ Emit(r, "output").state = r.state
           /\ Emit(r, "output").reaped = r.reaped /\ Emit(r, "output").eof = r.eof
           /\ Emit(r, "output").cause = r.cause /\ Emit(r, "output").hook = r.hook
<1>1. r.events \in Seq({"output", "exit"})
  BY DEF JobRecords
<1> DEFINE ev == Append(r.events, "output")
           e  == [r EXCEPT !.events = ev, !.waiters = {}]
<1>2. /\ Len(ev) = Len(r.events) + 1 /\ Len(r.events) \in Nat
      /\ \A n \in 1..Len(r.events) : ev[n] = r.events[n]
      /\ ev[Len(r.events) + 1] = "output"
  BY <1>1
<1>3. \A n \in 1..Len(ev) : ev[n] # "exit"
  BY <1>2 DEF RecordEnds
<1> HIDE DEF ev
<1>4. /\ e.events = ev /\ e.state = r.state /\ e.reaped = r.reaped
      /\ e.eof = r.eof /\ e.hook = r.hook /\ e.cause = r.cause
  BY DEF JobRecords
<1>5. Emit(r, "output") = e
  BY DEF Emit, ev
<1> HIDE DEF e
<1> QED  BY <1>3, <1>4, <1>5 DEF RecordEnds

(* _finish_locked appends the exit once, last, with the hook pending.       *)
LEMMA FinishEnds ==
    ASSUME NEW r \in JobRecords, JobOK(r), RecordEnds(r)
    PROVE  /\ RecordEnds(FinishRecord(r))
           /\ FinishRecord(r).reaped = r.reaped /\ FinishRecord(r).eof = r.eof
           /\ FinishRecord(r).cause = r.cause
           /\ Finishable(r) => FinishRecord(r).state = "FINISHED"
           /\ ~Finishable(r) => FinishRecord(r) = r
<1>1. CASE Finishable(r)
  <2> DEFINE ev == Append(r.events, "exit")
             e  == [r EXCEPT !.events = ev, !.waiters = {},
                             !.state = "FINISHED", !.finished = now, !.hook = "pending"]
  <2>1. r.events \in Seq({"output", "exit"})
    BY DEF JobRecords
  <2>2. /\ Len(ev) = Len(r.events) + 1 /\ Len(r.events) \in Nat
        /\ \A n \in 1..Len(r.events) : ev[n] = r.events[n]
        /\ ev[Len(r.events) + 1] = "exit"
    BY <2>1
  <2>3. r.state = "TERMINATING" /\ r.reaped /\ r.eof = Streams
    BY <1>1 DEF Finishable
  <2>4. \A n \in 1..Len(ev) : ev[n] = "exit" <=> n = Len(ev)
    BY <2>2, <2>3 DEF RecordEnds
  <2>5. ev # <<>>
    BY <2>2, SMTT(30)
  <2> HIDE DEF ev
  <2>6. /\ e.events = ev /\ e.state = "FINISHED" /\ e.reaped = r.reaped
        /\ e.eof = r.eof /\ e.hook = "pending" /\ e.cause = r.cause
    BY DEF JobRecords
  <2>7. FinishRecord(r) = e
    BY <1>1 DEF FinishRecord, Emit, ev
  <2> HIDE DEF e
  <2> QED  BY <1>1, <2>3, <2>4, <2>5, <2>6, <2>7 DEF RecordEnds
<1>2. CASE ~Finishable(r)
  BY <1>2 DEF FinishRecord
<1> QED  BY <1>1, <1>2

(* A prune keeps every job that has not finished or is leased.              *)
LEMMA PruneKeeps ==
    ASSUME NEW jf, NEW entries, Prune(jf, entries)
    PROVE  \A i \in retained :
              jf[i].state # "FINISHED" \/ jf[i].readers > 0 => i \in retained'
BY DEF Prune, Retain

-----------------------------------------------------------------------------
(* A step of one job leaves the others alone.                               *)

LEMMA EndsFrame ==
    ASSUME IInv, EndInv, NEW j \in Created,
           UNCHANGED <<issued, accepting, stop>>,
           \A i \in JobIds : i # j => /\ job'[i] = job[i] /\ drive'[i] = drive[i]
                                      /\ stream'[i] = stream[i] /\ proc'[i] = proc[i],
           JobEnds(j)', ProcessEnds(drive'[j], proc'[j]),
           Finished(j) => Finished(j)',
           job'[j].hook = "pending" /\ Finished(j) => job[j].hook = "pending",
           \A i \in retained : i \in retained' \/ Finished(i)'
    PROVE  EndInv'
<1>1. Created' = Created /\ Created \subseteq JobIds
  BY RunnerAssumption DEF IInv, JobPart, Created, JobIds
<1>2. \A i \in Created : i # j => JobEnds(i)'
  BY <1>1 DEF EndInv, JobEnds
<1>3. \A i \in Created : Finished(i) => Finished(i)'
  BY <1>1 DEF Finished
<1>4. \A i \in Created : Finished(i)' \/ i \in retained'
  BY <1>3 DEF EndInv
<1>5. \A i \in JobIds : ProcessEnds(drive'[i], proc'[i])
  BY DEF EndInv
<1>6. \A i \in Created : Finished(i) /\ job'[i].hook = "pending" => job[i].hook = "pending"
  BY <1>1
<1>7. StopEnds'
  BY <1>1, <1>3, <1>6 DEF EndInv, StopEnds
<1> QED  BY <1>1, <1>2, <1>4, <1>5, <1>7 DEF EndInv

(* A step of the processes alone.                                           *)
LEMMA ProcFrame ==
    ASSUME IInv, EndInv, UNCHANGED <<job, issued, drive, stream, retained, accepting, stop>>,
           \A i \in JobIds : ProcessEnds(drive[i], proc'[i])
    PROVE  EndInv'
BY DEF EndInv, JobEnds, StopEnds, Finished, Created

-----------------------------------------------------------------------------
(* What Update and Settle do to the job they are about.                     *)

LEMMA UpdateEnds ==
    ASSUME IInv, EndInv, NEW j \in Created, NEW r, Update(j, r)
    PROVE  /\ job'[j] = r /\ \A i \in JobIds : i # j => job'[i] = job[i]
           /\ retained' = retained
<1>1. job \in [JobIds -> JobRecords] /\ j \in JobIds
  BY CreatedJob DEF IInv, JobPart
<1> QED  BY <1>1 DEF Update

LEMMA SettleEnds ==
    ASSUME IInv, EndInv, NEW j \in Created, NEW r \in JobRecords, JobOK(r),
           RecordEnds(r), Settle(j, r), Finished(j) => r.state = "FINISHED"
    PROVE  /\ job'[j] = FinishRecord(r)
           /\ \A i \in JobIds : i # j => job'[i] = job[i]
           /\ RecordEnds(job'[j]) /\ job'[j].reaped = r.reaped
           /\ job'[j].eof = r.eof /\ job'[j].cause = r.cause
           /\ Finishable(r) => Finished(j)'
           /\ ~Finishable(r) => job'[j] = r
           /\ Finished(j) => job'[j] = r
           /\ \A i \in retained : i \in retained' \/ Finished(i)'
<1>1. job \in [JobIds -> JobRecords] /\ j \in JobIds
  BY CreatedJob DEF IInv, JobPart
<1>2. job' = [job EXCEPT ![j] = FinishRecord(r)]
  BY DEF Settle
<1>3. job'[j] = FinishRecord(r) /\ \A i \in JobIds : i # j => job'[i] = job[i]
  BY <1>1, <1>2
<1>4. /\ RecordEnds(job'[j]) /\ job'[j].reaped = r.reaped
      /\ job'[j].eof = r.eof /\ job'[j].cause = r.cause
      /\ Finishable(r) => Finished(j)'
      /\ ~Finishable(r) => job'[j] = r
  BY <1>3, FinishEnds DEF Finished
<1>5. Finished(j) => ~Finishable(r)
  BY DEF Finishable
<1>6. \A i \in retained : i \in retained' \/ Finished(i)'
  <2>1. CASE Finishable(r)
    <3>1. \E entries : Prune(job', entries)
      BY <2>1 DEF Settle
    <3> QED  BY <3>1, PruneKeeps DEF Finished
  <2>2. CASE ~Finishable(r)
    BY <2>2 DEF Settle
  <2> QED  BY <2>1, <2>2
<1> QED  BY <1>3, <1>4, <1>5, <1>6

(* A job whose process was never started ends in one step.                  *)
LEMMA UnspawnedEnds ==
    ASSUME NEW r \in JobRecords, JobOK(r), RecordEnds(r), r.cause # None
    PROVE  /\ Unspawned(r) \in JobRecords /\ JobOK(Unspawned(r))
           /\ RecordEnds(Unspawned(r)) /\ Unspawned(r).state = r.state
           /\ Unspawned(r).reaped /\ Unspawned(r).eof = Streams
           /\ Unspawned(r).cause = r.cause
           /\ Finishable(Unspawned(r)) \/ Unspawned(r).state = "FINISHED"
<1> DEFINE u == [r EXCEPT !.reaped = TRUE, !.eof = Streams]
<1>1. u \in JobRecords /\ u.state = r.state /\ u.reaped /\ u.eof = Streams
      /\ u.cause = r.cause /\ u.events = r.events /\ u.hook = r.hook
      /\ u.lesson = r.lesson /\ u.key = r.key /\ u.released = r.released
  BY DEF JobRecords
<1>2. Unspawned(r) = u
  BY DEF Unspawned
<1>3. r.state \in {"TERMINATING", "FINISHED"}
  BY DEF JobOK
<1> HIDE DEF u
<1> QED  BY <1>1, <1>2, <1>3 DEF JobOK, RecordEnds, Finishable

(* Every step of _drive_job keeps the ends.                                 *)
LEMMA DriveEnds ==
    ASSUME IInv, EndInv, NEW j \in JobIds, Drive(j)
    PROVE  EndInv'
<1>0. /\ UNCHANGED <<issued, accepting, stop>>
      /\ \A i \in JobIds : i # j => /\ drive'[i] = drive[i] /\ stream'[i] = stream[i]
                                    /\ proc'[i] = proc[i]
      /\ drive[j] # "none"
  BY DEF IInv, TaskPart, Drive, DriveStarts, Spawns, SpawnFails, Adopts, KillsNow,
         WallTimeout, TimeoutKills, Reaps, SweepsGroup, Settles, JoinsReaders,
         rest, Step, StartReaders, Kills
<1>1. j \in Created /\ job[j] \in JobRecords /\ JobOK(job[j])
  BY <1>0, DriverCreated, CreatedJob DEF IInv
<1>2. /\ RecordEnds(job[j]) /\ DriverEnds(job[j], drive[j])
      /\ ReadersEnd(job[j], drive[j], stream[j]) /\ ProcessEnds(drive[j], proc[j])
      /\ Finished(j) \/ j \in retained
  BY <1>1 DEF EndInv, JobEnds
<1>3. /\ proc[j] \in ProcRecords /\ stream[j] \in [Streams -> StreamPCs]
      /\ proc \in [JobIds -> ProcRecords] /\ drive \in [JobIds -> DrivePCs]
      /\ job \in [JobIds -> JobRecords] /\ stream \in [JobIds -> [Streams -> StreamPCs]]
  BY DEF IInv, TaskPart, JobPart
<1>4. CASE DriveStarts(j)
  <2>1. CASE job[j].state # "STARTING"
    <3>1. /\ Settle(j, Unspawned(job[j])) /\ drive[j] = "new" /\ drive'[j] = "done"
          /\ UNCHANGED <<proc, stream>>
      BY <1>3, <1>4, <2>1 DEF DriveStarts, Step
    <3>2. job[j].cause # None
      BY <1>1, <1>2, <2>1, <3>1 DEF JobOK, DriverEnds, JobRecords
    <3>3. /\ Unspawned(job[j]) \in JobRecords /\ JobOK(Unspawned(job[j]))
          /\ RecordEnds(Unspawned(job[j])) /\ Unspawned(job[j]).state = job[j].state
          /\ Unspawned(job[j]).reaped /\ Unspawned(job[j]).eof = Streams
          /\ Unspawned(job[j]).cause = job[j].cause
          /\ Finishable(Unspawned(job[j])) \/ Unspawned(job[j]).state = "FINISHED"
      BY <1>1, <1>2, <3>2, UnspawnedEnds
    <3> DEFINE u == Unspawned(job[j])
    <3>4. Finished(j) => u.state = "FINISHED"
      BY <3>3 DEF Finished
    <3> HIDE DEF u
    <3>5. /\ \A i \in JobIds : i # j => job'[i] = job[i]
          /\ RecordEnds(job'[j]) /\ job'[j].reaped = u.reaped
          /\ job'[j].eof = u.eof /\ job'[j].cause = u.cause
          /\ Finishable(u) => Finished(j)'
          /\ ~Finishable(u) => job'[j] = u
          /\ Finished(j) => job'[j] = u
          /\ \A i \in retained : i \in retained' \/ Finished(i)'
      BY <1>1, <3>1, <3>3, <3>4, SettleEnds DEF u
    <3>6. Finished(j)'
      BY <3>3, <3>5 DEF u, Finished
    <3>7. job'[j].hook = "pending" /\ Finished(j) => job[j].hook = "pending"
      BY <1>1, <3>5 DEF u, Unspawned, JobRecords
    <3>8. JobEnds(j)'
      BY <1>2, <3>1, <3>2, <3>3, <3>5, <3>6
         DEF u, JobEnds, DriverEnds, ReadersEnd, Finished, Before, After
    <3>9. ProcessEnds(drive'[j], proc'[j])
      BY <1>2, <3>1 DEF ProcessEnds, IInv, TaskPart, After
    <3> QED  BY <1>0, <1>1, <3>5, <3>6, <3>7, <3>8, <3>9, EndsFrame
  <2>2. CASE job[j].state = "STARTING"
    <3>1. /\ drive[j] = "new" /\ drive'[j] = "spawning"
          /\ UNCHANGED <<job, retained, proc, stream>>
      BY <1>3, <1>4, <2>2 DEF DriveStarts, Step, service
    <3>2. JobEnds(j)' /\ ProcessEnds(drive'[j], proc'[j])
      BY <1>2, <2>2, <3>1 DEF JobEnds, DriverEnds, ReadersEnd, ProcessEnds, Before, After
    <3> QED  BY <1>0, <1>1, <3>1, <3>2, EndsFrame DEF Finished
  <2> QED  BY <2>1, <2>2
<1>5. CASE Spawns(j)
  <2>1. /\ drive[j] = "spawning" /\ drive'[j] = "adopting"
        /\ UNCHANGED <<job, retained, stream>>
    BY <1>3, <1>5 DEF Spawns, Step, service
  <2>2. JobEnds(j)' /\ ProcessEnds(drive'[j], proc'[j])
    BY <1>2, <2>1 DEF JobEnds, DriverEnds, ReadersEnd, ProcessEnds, Before, After
  <2> QED  BY <1>0, <1>1, <2>1, <2>2, EndsFrame DEF Finished
<1>6. CASE SpawnFails(j)
  <2> DEFINE b == Begin(job[j], "spawn-failed")
             u == Unspawned(b)
  <2>1. /\ Settle(j, u) /\ drive[j] = "spawning" /\ drive'[j] = "done"
        /\ UNCHANGED <<proc, stream>>
    BY <1>3, <1>6 DEF SpawnFails, Step
  <2>2. /\ b \in JobRecords /\ JobOK(b) /\ RecordEnds(b) /\ b.cause # None
        /\ (b.state = "FINISHED" <=> Finished(j)) /\ b.hook = job[j].hook
    BY <1>1, <1>2, BeginJob, BeginEnds DEF Causes, Finished
  <2> HIDE DEF b
  <2>3. /\ u \in JobRecords /\ JobOK(u) /\ RecordEnds(u) /\ u.state = b.state
        /\ u.reaped /\ u.eof = Streams /\ u.cause = b.cause
        /\ Finishable(u) \/ u.state = "FINISHED"
    BY <2>2, UnspawnedEnds
  <2>4. u.hook = b.hook
    BY <2>2 DEF Unspawned, JobRecords
  <2> HIDE DEF u
  <2>5. /\ \A i \in JobIds : i # j => job'[i] = job[i]
        /\ RecordEnds(job'[j]) /\ job'[j].reaped = u.reaped
        /\ job'[j].eof = u.eof /\ job'[j].cause = u.cause
        /\ Finishable(u) => Finished(j)'
        /\ ~Finishable(u) => job'[j] = u
        /\ Finished(j) => job'[j] = u
        /\ \A i \in retained : i \in retained' \/ Finished(i)'
    BY <1>1, <2>1, <2>2, <2>3, SettleEnds
  <2>6. Finished(j)'
    BY <2>3, <2>5 DEF Finished
  <2>7. JobEnds(j)'
    BY <1>2, <2>1, <2>2, <2>3, <2>5, <2>6
       DEF JobEnds, DriverEnds, ReadersEnd, Finished, Before, After
  <2>8. ProcessEnds(drive'[j], proc'[j])
    BY <1>2, <2>1 DEF ProcessEnds, IInv, TaskPart, After
  <2> QED  BY <1>0, <1>1, <2>2, <2>4, <2>5, <2>6, <2>7, <2>8, EndsFrame
<1>7. CASE Adopts(j)
  <2>1. /\ drive[j] = "adopting" /\ UNCHANGED retained
        /\ proc' = [proc EXCEPT ![j].adopted = TRUE]
    BY <1>7 DEF Adopts, Step, service
  <2>2. proc'[j].kid = proc[j].kid /\ proc'[j].workdir = proc[j].workdir
        /\ proc'[j].leader = proc[j].leader
    BY <1>3, <2>1 DEF ProcRecords
  <2>3. CASE job[j].state = "STARTING"
    <3>1. /\ drive'[j] = "waiting" /\ job' = [job EXCEPT ![j].state = "RUNNING"]
          /\ stream'[j] = [s \in Streams |-> "reading"]
      BY <1>3, <1>7, <2>3 DEF Adopts, Step, StartReaders
    <3> DEFINE r == [job[j] EXCEPT !.state = "RUNNING"]
    <3>2. job'[j] = r /\ \A i \in JobIds : i # j => job'[i] = job[i]
      BY <1>3, <3>1
    <3>3. /\ r.state = "RUNNING" /\ r.reaped = job[j].reaped /\ r.eof = job[j].eof
          /\ r.events = job[j].events /\ r.hook = job[j].hook
      BY <1>1 DEF JobRecords
    <3> HIDE DEF r
    <3>4. JobEnds(j)' /\ ProcessEnds(drive'[j], proc'[j])
      BY <1>2, <2>1, <2>2, <2>3, <3>1, <3>2, <3>3
         DEF JobEnds, RecordEnds, DriverEnds, ReadersEnd, ProcessEnds, Before, After
    <3> QED  BY <1>0, <1>1, <1>2, <2>1, <2>3, <3>2, <3>4, EndsFrame DEF Finished
  <2>4. CASE job[j].state # "STARTING"
    <3>1. drive'[j] = "killing" /\ UNCHANGED <<job, stream>>
      BY <1>3, <1>7, <2>4 DEF Adopts, Step
    <3>2. JobEnds(j)' /\ ProcessEnds(drive'[j], proc'[j])
      BY <1>2, <2>1, <2>2, <3>1 DEF JobEnds, DriverEnds, ReadersEnd, ProcessEnds, Before, After
    <3> QED  BY <1>0, <1>1, <2>1, <3>1, <3>2, EndsFrame DEF Finished
  <2> QED  BY <2>3, <2>4
<1>8. CASE KillsNow(j)
  <2>1. /\ drive[j] = "killing" /\ drive'[j] = "waiting" /\ UNCHANGED <<job, retained>>
        /\ stream'[j] = [s \in Streams |-> "reading"]
    BY <1>3, <1>8 DEF KillsNow, Step, StartReaders, Kills, service
  <2>2. JobEnds(j)' /\ ProcessEnds(drive'[j], proc'[j])
    BY <1>2, <2>1 DEF JobEnds, DriverEnds, ReadersEnd, ProcessEnds, Before, After
  <2> QED  BY <1>0, <1>1, <2>1, <2>2, EndsFrame DEF Finished
<1>9. CASE WallTimeout(j)
  <2> DEFINE b == Begin(job[j], "timeout")
  <2>1. /\ drive[j] = "waiting" /\ drive'[j] \in {"expiring", "awaiting"}
        /\ Update(j, b) /\ UNCHANGED <<proc, stream>>
    BY <1>3, <1>9 DEF WallTimeout, Step
  <2>2. /\ RecordEnds(b) /\ b.reaped = job[j].reaped /\ b.eof = job[j].eof
        /\ (b.state = "FINISHED" <=> Finished(j)) /\ b.hook = job[j].hook
    BY <1>1, <1>2, BeginEnds DEF Causes, Finished
  <2> HIDE DEF b
  <2>3. /\ job'[j] = b /\ \A i \in JobIds : i # j => job'[i] = job[i]
        /\ retained' = retained
    BY <1>1, <2>1, UpdateEnds
  <2>4. JobEnds(j)' /\ ProcessEnds(drive'[j], proc'[j])
    BY <1>2, <2>1, <2>2, <2>3 DEF JobEnds, DriverEnds, ReadersEnd, ProcessEnds, Before, After
  <2> QED  BY <1>0, <1>1, <2>2, <2>3, <2>4, EndsFrame DEF Finished
<1>10. CASE TimeoutKills(j)
  <2>1. /\ drive[j] = "expiring" /\ drive'[j] = "awaiting"
        /\ UNCHANGED <<job, retained, stream>>
    BY <1>3, <1>10 DEF TimeoutKills, Step, Kills, service
  <2>2. JobEnds(j)' /\ ProcessEnds(drive'[j], proc'[j])
    BY <1>2, <2>1 DEF JobEnds, DriverEnds, ReadersEnd, ProcessEnds, Before, After
  <2> QED  BY <1>0, <1>1, <2>1, <2>2, EndsFrame DEF Finished
<1>11. CASE Reaps(j)
  <2> DEFINE r == [job[j] EXCEPT !.reaped = TRUE]
  <2>1. /\ drive[j] \in {"waiting", "awaiting"} /\ drive'[j] = "sweeping"
        /\ Update(j, r) /\ UNCHANGED <<proc, stream>>
        /\ proc[j].leader \in {"exit", "signal"}
    BY <1>3, <1>11 DEF Reaps, Step, IInv, TaskPart
  <2>2. /\ r.reaped /\ r.state = job[j].state /\ r.eof = job[j].eof
        /\ r.events = job[j].events /\ r.hook = job[j].hook /\ r.cause = job[j].cause
    BY <1>1 DEF JobRecords
  <2> HIDE DEF r
  <2>3. /\ job'[j] = r /\ \A i \in JobIds : i # j => job'[i] = job[i]
        /\ retained' = retained
    BY <1>1, <2>1, UpdateEnds
  <2>4. JobEnds(j)' /\ ProcessEnds(drive'[j], proc'[j])
    BY <1>2, <2>1, <2>2, <2>3
       DEF JobEnds, RecordEnds, DriverEnds, ReadersEnd, ProcessEnds, Before, After
  <2> QED  BY <1>0, <1>1, <2>2, <2>3, <2>4, EndsFrame DEF Finished
<1>12. CASE SweepsGroup(j)
  <2>1. /\ drive[j] = "sweeping" /\ drive'[j] = "settling"
        /\ UNCHANGED <<job, retained, stream>>
        /\ proc'[j] = [Killed(proc[j]) EXCEPT !.workdir = FALSE]
    BY <1>3, <1>12 DEF SweepsGroup, Step, service
  <2>2. proc'[j].kid = "none" /\ ~proc'[j].workdir /\ proc'[j].leader # "alive"
    BY <1>3, <2>1 DEF Killed, ProcRecords
  <2>3. JobEnds(j)' /\ ProcessEnds(drive'[j], proc'[j])
    BY <1>2, <2>1, <2>2 DEF JobEnds, DriverEnds, ReadersEnd, ProcessEnds, Before, After
  <2> QED  BY <1>0, <1>1, <2>1, <2>3, EndsFrame DEF Finished
<1>13. CASE Settles(j)
  <2> DEFINE b == Begin(job[j], proc[j].leader)
  <2>1. /\ Settle(j, b) /\ drive[j] = "settling" /\ drive'[j] = "joining"
        /\ UNCHANGED <<proc, stream>> /\ proc[j].leader \in Causes
    BY <1>3, <1>13 DEF Settles, Step, IInv, TaskPart, Causes
  <2>2. /\ b \in JobRecords /\ JobOK(b) /\ RecordEnds(b) /\ b.cause # None
        /\ (b.state = "FINISHED" <=> Finished(j)) /\ b.hook = job[j].hook
        /\ b.reaped = job[j].reaped /\ b.eof = job[j].eof
    BY <1>1, <1>2, <2>1, BeginJob, BeginEnds DEF Finished
  <2> HIDE DEF b
  <2>3. /\ \A i \in JobIds : i # j => job'[i] = job[i]
        /\ RecordEnds(job'[j]) /\ job'[j].reaped = b.reaped
        /\ job'[j].eof = b.eof /\ job'[j].cause = b.cause
        /\ Finishable(b) => Finished(j)'
        /\ ~Finishable(b) => job'[j] = b
        /\ Finished(j) => job'[j] = b
        /\ \A i \in retained : i \in retained' \/ Finished(i)'
    BY <1>1, <2>1, <2>2, SettleEnds
  <2>4. JobEnds(j)' /\ ProcessEnds(drive'[j], proc'[j])
    BY <1>2, <2>1, <2>2, <2>3 DEF JobEnds, DriverEnds, ReadersEnd, ProcessEnds, Before, After
  <2>5. Finished(j) => Finished(j)'
    BY <2>2, <2>3 DEF Finished
  <2> QED  BY <1>0, <1>1, <2>2, <2>3, <2>4, <2>5, EndsFrame
<1>14. CASE JoinsReaders(j)
  <2> DEFINE b == job[j]
  <2>1. /\ Settle(j, b) /\ drive[j] = "joining" /\ drive'[j] = "done"
        /\ UNCHANGED <<proc, stream>> /\ \A s \in Streams : stream[j][s] = "done"
    BY <1>3, <1>14 DEF JoinsReaders, Step
  <2>2. b.reaped /\ b.eof = Streams /\ b.cause # None
        /\ b.state \in {"TERMINATING", "FINISHED"}
    <3>1. b.reaped /\ b.cause # None /\ Streams \subseteq b.eof
      BY <1>2, <2>1 DEF DriverEnds, ReadersEnd, After
    <3>2. b.eof \subseteq Streams
      BY <1>1 DEF JobRecords
    <3> QED  BY <1>1, <3>1, <3>2 DEF JobOK
  <2>3. /\ \A i \in JobIds : i # j => job'[i] = job[i]
        /\ RecordEnds(job'[j]) /\ job'[j].reaped = b.reaped
        /\ job'[j].eof = b.eof /\ job'[j].cause = b.cause
        /\ Finishable(b) => Finished(j)'
        /\ ~Finishable(b) => job'[j] = b
        /\ Finished(j) => job'[j] = b
        /\ \A i \in retained : i \in retained' \/ Finished(i)'
    BY <1>1, <1>2, <2>1, SettleEnds DEF Finished
  <2>4. Finished(j)'
    BY <2>2, <2>3 DEF Finishable, Finished
  <2>5. JobEnds(j)' /\ ProcessEnds(drive'[j], proc'[j])
    BY <1>2, <2>1, <2>2, <2>3, <2>4
       DEF JobEnds, DriverEnds, ReadersEnd, ProcessEnds, Finished, Before, After
  <2> QED  BY <1>0, <1>1, <2>3, <2>4, <2>5, EndsFrame
<1> QED  BY <1>4, <1>5, <1>6, <1>7, <1>8, <1>9, <1>10, <1>11, <1>12, <1>13, <1>14 DEF Drive

(* An active reader's stream has not ended, and so neither has its job.     *)
LEMMA ReaderOpen ==
    ASSUME IInv, EndInv, NEW j \in JobIds, NEW s \in Streams,
           stream[j][s] \notin {"off", "done"}
    PROVE  /\ j \in Created /\ job[j] \in JobRecords /\ JobOK(job[j])
           /\ ~Finished(j) /\ s \notin job[j].eof /\ drive[j] \notin Before \cup {"done"}
<1>1. j \in Created /\ job[j] \in JobRecords /\ JobOK(job[j])
  BY ReaderCreated, CreatedJob DEF IInv
<1> QED  BY <1>1 DEF EndInv, JobEnds, RecordEnds, ReadersEnd, Finished

(* What a reader's move to another open position leaves to be shown.        *)
LEMMA ReaderFrame ==
    ASSUME IInv, EndInv, NEW j \in JobIds, NEW s \in Streams,
           NEW from \in StreamPCs \ {"off", "done"}, NEW to \in StreamPCs \ {"off", "done"},
           Reader(j, s, from, to), NEW r, UNCHANGED <<issued, accepting, stop, drive, retained>>,
           job'[j] = r, \A i \in JobIds : i # j => job'[i] = job[i],
           \A i \in JobIds : i # j => proc'[i] = proc[i],
           RecordEnds(r), r.reaped = job[j].reaped, r.eof = job[j].eof,
           r.state = job[j].state \/ r.state = "TERMINATING",
           job[j].cause # None => r.cause # None,
           ProcessEnds(drive[j], proc'[j])
    PROVE  EndInv'
<1>1. /\ stream[j][s] = from /\ stream'[j] = [stream[j] EXCEPT ![s] = to]
      /\ stream[j] \in [Streams -> StreamPCs]
      /\ \A i \in JobIds : i # j => stream'[i] = stream[i]
  BY DEF Reader, IInv, TaskPart
<1>2. /\ j \in Created /\ ~Finished(j) /\ s \notin job[j].eof
      /\ drive[j] \notin Before \cup {"done"}
  BY <1>1, ReaderOpen
<1>3. /\ DriverEnds(job[j], drive[j]) /\ ReadersEnd(job[j], drive[j], stream[j])
      /\ j \in retained
  BY <1>2 DEF EndInv, JobEnds
<1>4. \A t \in Streams : stream'[j][t] = "done" <=> stream[j][t] = "done"
  BY <1>1
<1>5. JobEnds(j)'
  BY <1>2, <1>3, <1>4 DEF JobEnds, DriverEnds, ReadersEnd, Before, Finished
<1>6. ~Finished(j)'
  BY <1>2 DEF Finished
<1> QED  BY <1>1, <1>2, <1>3, <1>5, EndsFrame

(* A kill of the group leaves nothing alive that was dead.                  *)
LEMMA KilledEnds ==
    ASSUME NEW p \in ProcRecords, NEW d, ProcessEnds(d, p)
    PROVE  ProcessEnds(d, Killed(p))
BY DEF ProcessEnds, Killed, ProcRecords

(* Every step of _read_stream keeps the ends.                               *)
LEMMA ReaderEnds ==
    ASSUME IInv, EndInv, NEW j \in JobIds, NEW s \in Streams, ReadStream(j, s)
    PROVE  EndInv'
<1>0. UNCHANGED <<issued, accepting, stop, drive>>
  BY DEF ReadStream, ReadsChunk, Overflows, ReadFails, ReaderKills, ReadsEof, Closes, rest
<1>1. /\ j \in Created /\ job[j] \in JobRecords /\ JobOK(job[j])
      /\ ~Finished(j) /\ s \notin job[j].eof /\ drive[j] \notin Before \cup {"done"}
  <2>1. stream[j][s] \notin {"off", "done"}
    BY DEF ReadStream, ReadsChunk, Overflows, ReadFails, ReaderKills,
           ReadsEof, Closes, Reader
  <2> QED  BY <2>1, ReaderOpen
<1>2. /\ RecordEnds(job[j]) /\ DriverEnds(job[j], drive[j])
      /\ ReadersEnd(job[j], drive[j], stream[j]) /\ ProcessEnds(drive[j], proc[j])
  BY <1>1 DEF EndInv, JobEnds
<1>3. /\ proc[j] \in ProcRecords /\ proc \in [JobIds -> ProcRecords]
      /\ stream[j] \in [Streams -> StreamPCs]
  BY DEF IInv, TaskPart
<1>4. ASSUME NEW c \in Causes, NEW from \in StreamPCs \ {"off", "done"},
             NEW to \in StreamPCs \ {"off", "done"}, Reader(j, s, from, to),
             Update(j, Begin(job[j], c)), UNCHANGED proc
      PROVE  EndInv'
  <2> DEFINE b == Begin(job[j], c)
  <2>1. /\ RecordEnds(b) /\ b.reaped = job[j].reaped /\ b.eof = job[j].eof
        /\ b.state = "TERMINATING" /\ b.cause # None
    BY <1>1, <1>2, <1>4, BeginEnds DEF Finished
  <2> HIDE DEF b
  <2>2. /\ job'[j] = b /\ \A i \in JobIds : i # j => job'[i] = job[i]
        /\ retained' = retained
    BY <1>1, <1>4, UpdateEnds DEF b
  <2> QED  BY <1>0, <1>2, <1>4, <2>1, <2>2, ReaderFrame
<1>5. ASSUME NEW n \in 1..MaxChunk, NEW text \in BOOLEAN, NEW partial \in BOOLEAN,
             ReadsChunk(j, s, n, text, partial)
      PROVE  EndInv'
  <2> DEFINE left     == Remaining(job[j])
             accepted == IF n < left THEN n ELSE left
             by == job[j].bytes + accepted
             tr == job[j].truncated \/ n > accepted
             pa == IF accepted = 0 THEN job[j].partial
                   ELSE IF partial THEN job[j].partial \cup {s}
                   ELSE job[j].partial \ {s}
             r == [job[j] EXCEPT !.bytes = by, !.truncated = tr, !.partial = pa]
             to == IF n > accepted THEN "overflow" ELSE "reading"
             p == [proc[j] EXCEPT !.pipe = @ \ {s}]
             e == IF accepted > 0 /\ text THEN Emit(r, "output") ELSE r
  <2>1. Reader(j, s, "reading", to) /\ Update(j, e) /\ proc' = [proc EXCEPT ![j] = p]
    BY <1>5 DEF ReadsChunk
  <2>2. by \in 0..OutputLimit /\ tr \in BOOLEAN /\ pa \in SUBSET Streams
    <3>1. job[j].bytes \in 0..OutputLimit /\ OutputLimit \in Nat /\ MaxChunk \in Nat
          /\ job[j].partial \in SUBSET Streams /\ job[j].truncated \in BOOLEAN
      BY <1>1, RunnerAssumption DEF JobRecords
    <3>2. by \in 0..OutputLimit
      BY <3>1 DEF Remaining
    <3> HIDE DEF by
    <3> QED  BY <3>1, <3>2
  <2>3. to \in StreamPCs \ {"off", "done"}
    BY DEF StreamPCs
  <2> HIDE DEF by, tr, pa, accepted, to
  <2>4. /\ r \in JobRecords /\ r.state = job[j].state /\ r.cause = job[j].cause
        /\ r.reaped = job[j].reaped /\ r.eof = job[j].eof
        /\ r.events = job[j].events /\ r.hook = job[j].hook
    BY <1>1, <2>2 DEF JobRecords
  <2> HIDE DEF r
  <2>5. RecordEnds(r) /\ r.state # "FINISHED"
    BY <1>1, <1>2, <2>4 DEF RecordEnds, Finished
  <2>6. /\ RecordEnds(e) /\ e.state = r.state /\ e.reaped = r.reaped
        /\ e.eof = r.eof /\ e.cause = r.cause
    BY <2>4, <2>5, OutputEnds
  <2> HIDE DEF e
  <2>7. /\ job'[j] = e /\ \A i \in JobIds : i # j => job'[i] = job[i]
        /\ retained' = retained
    BY <1>1, <2>1, UpdateEnds
  <2>8. ProcessEnds(drive[j], p)
    BY <1>2, <1>3 DEF ProcessEnds, ProcRecords
  <2>9. proc'[j] = p /\ \A i \in JobIds : i # j => proc'[i] = proc[i]
    BY <1>3, <2>1
  <2> QED  BY <1>0, <2>1, <2>3, <2>4, <2>6, <2>7, <2>8, <2>9, ReaderFrame, ZenonT(30) DEF StreamPCs
<1>6. CASE Overflows(j, s)
  BY <1>4, <1>6 DEF Overflows, Causes, StreamPCs
<1>7. CASE ReadFails(j, s)
  BY <1>4, <1>7 DEF ReadFails, Causes, StreamPCs
<1>8. CASE ReaderKills(j, s)
  <2>1. /\ Reader(j, s, "overflow kill", "reading") \/ Reader(j, s, "error kill", "closing")
        /\ UNCHANGED <<job, retained>> /\ proc'[j] = Killed(proc[j])
        /\ \A i \in JobIds : i # j => proc'[i] = proc[i]
    BY <1>3, <1>8 DEF ReaderKills, Kills, service
  <2>2. ProcessEnds(drive[j], proc'[j])
    BY <1>2, <1>3, <2>1, KilledEnds
  <2> QED  BY <1>0, <1>2, <2>1, <2>2, ReaderFrame DEF StreamPCs
<1>9. CASE ReadsEof(j, s)
  <2> DEFINE e == IF s \in job[j].partial THEN Emit(job[j], "output") ELSE job[j]
  <2>1. Reader(j, s, "reading", "closing") /\ Update(j, e) /\ UNCHANGED proc
    BY <1>9 DEF ReadsEof
  <2>2. /\ RecordEnds(e) /\ e.state = job[j].state /\ e.reaped = job[j].reaped
        /\ e.eof = job[j].eof /\ e.cause = job[j].cause
    BY <1>1, <1>2, OutputEnds DEF Finished
  <2> HIDE DEF e
  <2>3. /\ job'[j] = e /\ \A i \in JobIds : i # j => job'[i] = job[i]
        /\ retained' = retained
    BY <1>1, <2>1, UpdateEnds
  <2> QED  BY <1>0, <1>2, <2>1, <2>2, <2>3, ReaderFrame DEF StreamPCs
<1>10. CASE Closes(j, s)
  <2> DEFINE r == [job[j] EXCEPT !.eof = @ \cup {s}]
  <2>1. /\ Settle(j, r) /\ UNCHANGED proc /\ stream'[j] = [stream[j] EXCEPT ![s] = "done"]
        /\ \A i \in JobIds : i # j => stream'[i] = stream[i]
    BY <1>10 DEF Closes, Reader, IInv, TaskPart
  <2>2. /\ r \in JobRecords /\ r.state = job[j].state /\ r.cause = job[j].cause
        /\ r.reaped = job[j].reaped /\ r.eof = job[j].eof \cup {s}
        /\ r.events = job[j].events /\ r.hook = job[j].hook
        /\ r.lesson = job[j].lesson /\ r.key = job[j].key /\ r.released = job[j].released
    BY <1>1 DEF JobRecords
  <2> HIDE DEF r
  <2>3. JobOK(r) /\ RecordEnds(r)
    BY <1>1, <1>2, <2>2 DEF JobOK, RecordEnds, Finished
  <2>4. /\ \A i \in JobIds : i # j => job'[i] = job[i]
        /\ RecordEnds(job'[j]) /\ job'[j].reaped = r.reaped
        /\ job'[j].eof = r.eof /\ job'[j].cause = r.cause
        /\ Finishable(r) => Finished(j)'
        /\ ~Finishable(r) => job'[j] = r
        /\ \A i \in retained : i \in retained' \/ Finished(i)'
    BY <1>1, <2>1, <2>2, <2>3, SettleEnds
  <2>5. \A t \in Streams : stream'[j][t] = "done" <=> stream[j][t] = "done" \/ t = s
    BY <1>3, <2>1
  <2>6. JobEnds(j)'
    <3>1. ReadersEnd(job'[j], drive'[j], stream'[j])
      BY <1>0, <1>1, <1>2, <2>2, <2>4, <2>5 DEF ReadersEnd
    <3>2. DriverEnds(job'[j], drive'[j])
      BY <1>0, <1>1, <1>2, <2>2, <2>4 DEF DriverEnds, Before
    <3> QED  BY <2>4, <3>1, <3>2 DEF JobEnds
  <2> QED  BY <1>0, <1>1, <1>2, <2>1, <2>4, <2>6, EndsFrame
<1> QED  BY <1>5, <1>6, <1>7, <1>8, <1>9, <1>10 DEF ReadStream

-----------------------------------------------------------------------------
(* The remaining steps.                                                     *)

(* Requests, the processes, kills, and the stream handlers: what a handler  *)
(* changes of a job are its leases and waiters.                             *)
LEMMA SharedFrame ==
    ASSUME IInv, EndInv, UNCHANGED <<issued, drive, stream, proc, accepting, stop>>,
           \A i \in Created :
              /\ job'[i].state = job[i].state /\ job'[i].cause = job[i].cause
              /\ job'[i].reaped = job[i].reaped /\ job'[i].eof = job[i].eof
              /\ job'[i].events = job[i].events /\ job'[i].hook = job[i].hook,
           \A i \in retained : i \in retained' \/ Finished(i)
    PROVE  EndInv'
<1>1. Created' = Created
  BY DEF Created
<1>2. \A i \in Created : JobEnds(i)'
  BY <1>1 DEF EndInv, JobEnds, RecordEnds, DriverEnds, ReadersEnd
<1>3. \A i \in Created : Finished(i)' <=> Finished(i)
  BY DEF Finished
<1>4. StopEnds'
  BY <1>1, <1>3 DEF EndInv, StopEnds
<1> QED  BY <1>1, <1>2, <1>3, <1>4 DEF EndInv

LEMMA RequestEnds ==
    ASSUME IInv, EndInv, \/ Sweep
                         \/ \E j \in JobIds : Cancel(j) \/ CancelKill(j)
    PROVE  EndInv'
<1>1. CASE Sweep
  <2>1. UNCHANGED <<job, issued, drive, stream, proc, accepting, stop>> /\ Prune(job, replay)
    BY <1>1 DEF Sweep, tasks, rest
  <2>2. \A i \in retained : i \in retained' \/ Finished(i)
    BY <2>1, PruneKeeps DEF Finished
  <2> QED  BY <2>1, <2>2, SharedFrame
<1>2. ASSUME NEW j \in JobIds, Cancel(j) PROVE EndInv'
  <2> DEFINE b == Begin(job[j], "cancelled")
  <2>1. /\ UNCHANGED <<issued, drive, stream, proc, accepting, stop>>
        /\ j \in Created /\ Update(j, b) /\ job[j] \in JobRecords /\ JobOK(job[j])
    BY <1>2, CreatedJob DEF Cancel, IInv, TablePart, rest
  <2>2. /\ RecordEnds(job[j]) /\ DriverEnds(job[j], drive[j])
        /\ ReadersEnd(job[j], drive[j], stream[j]) /\ ProcessEnds(drive[j], proc[j])
    BY <1>2, <2>1 DEF EndInv, JobEnds
  <2>3. /\ RecordEnds(b) /\ b.reaped = job[j].reaped /\ b.eof = job[j].eof
        /\ b.hook = job[j].hook /\ b.cause # None
        /\ b.state \in {"TERMINATING", "FINISHED"}
        /\ (b.state = "FINISHED" <=> Finished(j))
    BY <2>1, <2>2, BeginEnds DEF Causes, Finished
  <2> HIDE DEF b
  <2>4. /\ job'[j] = b /\ \A i \in JobIds : i # j => job'[i] = job[i]
        /\ retained' = retained
    BY <2>1, UpdateEnds
  <2>5. JobEnds(j)'
    BY <2>1, <2>2, <2>3, <2>4 DEF JobEnds, DriverEnds, ReadersEnd, Finished
  <2> QED  BY <2>1, <2>2, <2>3, <2>4, <2>5, EndsFrame DEF Finished
<1>3. ASSUME NEW j \in JobIds, CancelKill(j) PROVE EndInv'
  <2>1. /\ Kills(j) /\ UNCHANGED <<job, issued, drive, stream, retained, accepting, stop>>
    BY <1>3 DEF CancelKill, Kills, service, rest
  <2>2. \A i \in JobIds : ProcessEnds(drive[i], proc'[i])
    BY <2>1, KilledEnds DEF Kills, EndInv, IInv, TaskPart
  <2> QED  BY <2>1, <2>2, ProcFrame
<1> QED  BY <1>1, <1>2, <1>3

(* The outside world starts nothing.                                        *)
LEMMA ProcessesEnd ==
    ASSUME IInv, EndInv, NEW j \in JobIds, Environment(j) \/ NoticeExit(j)
    PROVE  EndInv'
<1>1. /\ proc \in [JobIds -> ProcRecords] /\ proc[j] \in ProcRecords
      /\ ProcessEnds(drive[j], proc[j])
      /\ drive[j] \in {"none", "new", "spawning"} => proc[j].leader = "none"
  BY DEF IInv, TaskPart, EndInv
<1>2. ASSUME NEW p, Process(j, p), ProcessEnds(drive[j], p) PROVE EndInv'
  <2>1. UNCHANGED <<job, issued, drive, stream, retained, accepting, stop>>
        /\ proc' = [proc EXCEPT ![j] = p]
    BY <1>2 DEF Process, service, rest
  <2>2. \A i \in JobIds : ProcessEnds(drive[i], proc'[i])
    BY <1>1, <1>2, <2>1 DEF EndInv
  <2> QED  BY <2>1, <2>2, ProcFrame
<1>3. ASSUME NEW how \in {"exit", "signal"}, LeaderExits(j, how) PROVE EndInv'
  <2>1. ProcessEnds(drive[j], [proc[j] EXCEPT !.leader = how, !.open = {}])
    BY <1>1 DEF ProcessEnds, ProcRecords
  <2> QED  BY <1>2, <1>3, <2>1 DEF LeaderExits
<1>4. ASSUME NEW s \in Streams, LeaderCloses(j, s) PROVE EndInv'
  <2>1. ProcessEnds(drive[j], [proc[j] EXCEPT !.open = @ \ {s}])
    BY <1>1 DEF ProcessEnds, ProcRecords
  <2> QED  BY <1>2, <1>4, <2>1 DEF LeaderCloses
<1>5. ASSUME NEW s \in Streams, Writes(j, s) PROVE EndInv'
  <2>1. ProcessEnds(drive[j], [proc[j] EXCEPT !.pipe = @ \cup {s}])
    BY <1>1 DEF ProcessEnds, ProcRecords
  <2> QED  BY <1>2, <1>5, <2>1 DEF Writes
<1>6. ASSUME NEW kid \in Kids, Forks(j, kid) PROVE EndInv'
  <2>1. ProcessEnds(drive[j], [proc[j] EXCEPT !.kid = kid])
    BY <1>1, <1>6 DEF ProcessEnds, ProcRecords, Forks, After
  <2> QED  BY <1>2, <1>6, <2>1 DEF Forks
<1>7. CASE KidExits(j)
  <2>1. ProcessEnds(drive[j], [proc[j] EXCEPT !.kid = "none"])
    BY <1>1 DEF ProcessEnds, ProcRecords
  <2> QED  BY <1>2, <1>7, <2>1 DEF KidExits
<1>8. CASE NoticeExit(j)
  <2>1. ProcessEnds(drive[j], [proc[j] EXCEPT !.known = TRUE])
    BY <1>1 DEF ProcessEnds, ProcRecords
  <2> QED  BY <1>2, <1>8, <2>1 DEF NoticeExit
<1> QED  BY <1>3, <1>4, <1>5, <1>6, <1>7, <1>8 DEF Environment

(* A stream handler changes leases, waiters and nothing else of a record.   *)
LEMMA StreamShares ==
    ASSUME IInv, NEW q \in Readers,
           \/ \E j \in JobIds, after \in 0..(OutputLimit + 3) : Attach(q, j, after)
           \/ Stream(q) \/ KeepsAlive(q) \/ Disconnects(q)
    PROVE  /\ UNCHANGED <<issued, drive, stream, proc, accepting, stop, now>>
           /\ \A i \in JobIds :
                 /\ job'[i].state = job[i].state /\ job'[i].cause = job[i].cause
                 /\ job'[i].reaped = job[i].reaped /\ job'[i].eof = job[i].eof
                 /\ job'[i].events = job[i].events /\ job'[i].hook = job[i].hook
                 /\ job'[i].lesson = job[i].lesson /\ job'[i].key = job[i].key
                 /\ job'[i].rev = job[i].rev /\ job'[i].created = job[i].created
                 /\ job'[i].finished = job[i].finished
<1>1. UNCHANGED <<issued, drive, stream, proc, accepting, stop, now>>
  BY DEF Attach, Stream, Polls, Asks, Wakes, KeepsAlive, Disconnects, LeaveWait,
         Detaches, loop, tasks
<1>2. \E j : \/ UNCHANGED job
             \/ \E n : job' = [job EXCEPT ![j].readers = n]
             \/ \E w : job' = [job EXCEPT ![j].waiters = w]
  BY DEF Attach, Stream, Polls, Asks, Wakes, KeepsAlive, Disconnects, LeaveWait, Detaches
<1>3. ASSUME NEW i \in JobIds
      PROVE  /\ job'[i].state = job[i].state /\ job'[i].cause = job[i].cause
             /\ job'[i].reaped = job[i].reaped /\ job'[i].eof = job[i].eof
             /\ job'[i].events = job[i].events /\ job'[i].hook = job[i].hook
             /\ job'[i].lesson = job[i].lesson /\ job'[i].key = job[i].key
             /\ job'[i].rev = job[i].rev /\ job'[i].created = job[i].created
             /\ job'[i].finished = job[i].finished
  <2>1. job \in [JobIds -> JobRecords] /\ job[i] \in JobRecords
    BY DEF IInv, JobPart
  <2>2. \/ job'[i] = job[i]
        \/ \E n : job'[i] = [job[i] EXCEPT !.readers = n]
        \/ \E w : job'[i] = [job[i] EXCEPT !.waiters = w]
    BY <1>2, <2>1
  <2> QED  BY <2>1, <2>2 DEF JobRecords
<1> QED  BY <1>1, <1>3

LEMMA StreamEnds ==
    ASSUME IInv, EndInv, NEW q \in Readers,
           \/ \E j \in JobIds, after \in 0..(OutputLimit + 3) : Attach(q, j, after)
           \/ Stream(q) \/ KeepsAlive(q) \/ Disconnects(q)
    PROVE  EndInv'
<1>1. \A i \in Created : i \in JobIds
  BY CreatedJob DEF IInv
<1>2. retained' = retained \/ Prune(job, replay) \/ Prune(job', replay)
  BY DEF Attach, Stream, Polls, Asks, Wakes, KeepsAlive, Disconnects, LeaveWait,
         Detaches, service
<1>3. \A i \in retained : job'[i].state = job[i].state
  BY <1>1, StreamShares DEF IInv, TablePart
<1>4. \A i \in retained : i \in retained' \/ Finished(i)
  <2>1. CASE Prune(job, replay)
    BY <2>1, PruneKeeps DEF Finished
  <2>2. CASE Prune(job', replay)
    BY <1>3, <2>2, PruneKeeps DEF Finished
  <2> QED  BY <1>2, <2>1, <2>2
<1> QED  BY <1>1, <1>4, StreamShares, SharedFrame

(* The finish hook, shutdown and the clock.                                 *)
LEMMA ServiceEnds ==
    ASSUME IInv, EndInv,
           \/ \E j \in JobIds, outcome \in {"recorded", "failed"} : Notify(j, outcome)
           \/ ShutdownBegins \/ Shutdown \/ Tick
    PROVE  EndInv'
<1>1. ASSUME NEW j \in JobIds, NEW outcome \in {"recorded", "failed"}, Notify(j, outcome)
      PROVE  EndInv'
  <2> DEFINE r == [job[j] EXCEPT !.hook = outcome, !.waiters = {}]
  <2>1. /\ job[j].hook = "pending" /\ Update(j, r)
        /\ UNCHANGED <<issued, drive, stream, proc, accepting, stop>>
    BY <1>1 DEF Notify, tasks, rest
  <2>2. j \in Created
    BY <2>1 DEF IInv, JobPart, NoJob
  <2>3. job[j] \in JobRecords /\ JobEnds(j) /\ ProcessEnds(drive[j], proc[j])
        /\ Finished(j)
    BY <2>1, <2>2, CreatedJob DEF IInv, EndInv, JobEnds, RecordEnds, Finished
  <2>4. /\ r.state = job[j].state /\ r.cause = job[j].cause
        /\ r.reaped = job[j].reaped /\ r.eof = job[j].eof
        /\ r.events = job[j].events /\ r.hook = outcome
    BY <2>3 DEF JobRecords
  <2> HIDE DEF r
  <2>5. /\ job'[j] = r /\ \A i \in JobIds : i # j => job'[i] = job[i]
        /\ retained' = retained
    BY <2>1, <2>2, UpdateEnds
  <2>6. JobEnds(j)' /\ Finished(j)'
    BY <2>1, <2>3, <2>4, <2>5 DEF JobEnds, RecordEnds, DriverEnds, ReadersEnd, Finished
  <2> QED  BY <2>1, <2>2, <2>3, <2>4, <2>5, <2>6, EndsFrame
<1>2. CASE ShutdownBegins
  <2> DEFINE live == {j \in retained : ~Finished(j)}
  <2>1. /\ UNCHANGED <<issued, drive, stream, proc, retained>> /\ ~accepting'
        /\ job' = [j \in JobIds |->
                     IF j \in live THEN Begin(job[j], "shutdown") ELSE job[j]]
        /\ stop'.pc = "joining" /\ stop'.join = live
    BY <1>2 DEF ShutdownBegins, tasks
  <2>2. Created' = Created
    BY <2>1 DEF Created
  <2>3. ASSUME NEW i \in Created
        PROVE  JobEnds(i)' /\ (Finished(i)' <=> Finished(i))
    <3>1. job[i] \in JobRecords /\ JobOK(job[i]) /\ i \in JobIds
      BY CreatedJob DEF IInv
    <3>2. /\ RecordEnds(job[i]) /\ DriverEnds(job[i], drive[i])
          /\ ReadersEnd(job[i], drive[i], stream[i])
      BY DEF EndInv, JobEnds
    <3>3. CASE i \in live
      <4> DEFINE b == Begin(job[i], "shutdown")
      <4>1. job'[i] = b
        BY <2>1, <3>1, <3>3
      <4>2. /\ RecordEnds(b) /\ b.reaped = job[i].reaped /\ b.eof = job[i].eof
            /\ b.cause # None /\ b.state \in {"TERMINATING", "FINISHED"}
            /\ (b.state = "FINISHED" <=> Finished(i))
        BY <3>1, <3>2, BeginEnds DEF Causes, Finished
      <4> HIDE DEF b, live
      <4> QED  BY <2>1, <3>2, <4>1, <4>2 DEF JobEnds, DriverEnds, ReadersEnd, Finished
    <3>4. CASE i \notin live
      <4>1. job'[i] = job[i]
        BY <2>1, <3>1, <3>4
      <4> HIDE DEF live
      <4> QED  BY <2>1, <3>2, <4>1 DEF JobEnds, Finished
    <3> QED  BY <3>3, <3>4
  <2>4. StopEnds'
    BY <2>1, <2>2, <2>3 DEF StopEnds, EndInv
  <2> HIDE DEF live
  <2> QED  BY <2>1, <2>2, <2>3, <2>4 DEF EndInv
<1>3. ASSUME NEW j \in JobIds, ShutdownKills(j) PROVE EndInv'
  <2>1. /\ Kills(j) /\ UNCHANGED <<job, issued, drive, stream, retained, accepting>>
        /\ stop'.pc = stop.pc /\ stop'.join = stop.join /\ stop'.hooks = stop.hooks
    BY <1>3 DEF ShutdownKills, Kills, service, IInv, RestPart
  <2>2. \A i \in JobIds : ProcessEnds(drive[i], proc'[i])
    BY <2>1, KilledEnds DEF Kills, EndInv, IInv, TaskPart
  <2> QED  BY <2>1, <2>2 DEF EndInv, JobEnds, StopEnds, Finished, Created
<1>4. CASE ShutdownJoins \/ ShutdownEnds
  <2>1. /\ UNCHANGED <<job, issued, drive, stream, proc, retained, accepting>>
    BY <1>4 DEF ShutdownJoins, ShutdownEnds, tasks, service
  <2>2. StopEnds'
    <3>1. CASE ShutdownJoins
      <4>1. /\ stop.pc = "joining" /\ \A j \in stop.join : drive[j] = "done"
            /\ stop'.pc = "hooks"
            /\ stop'.hooks = {j \in Created : job[j].hook = "pending"}
        BY <3>1 DEF ShutdownJoins, IInv, RestPart
      <4>2. \A j \in Created : Finished(j)
        BY <4>1 DEF EndInv, StopEnds, JobEnds, DriverEnds, Finished
      <4> QED  BY <2>1, <4>1, <4>2 DEF EndInv, StopEnds, Finished, Created
    <3>2. CASE ShutdownEnds
      <4>1. /\ stop.pc = "hooks" /\ \A j \in stop.hooks : job[j].hook # "pending"
            /\ stop'.pc = "stopped"
        BY <3>2 DEF ShutdownEnds, IInv, RestPart
      <4> QED  BY <2>1, <4>1 DEF EndInv, StopEnds, Finished, Created
    <3> QED  BY <1>4, <3>1, <3>2
  <2> QED  BY <2>1, <2>2 DEF EndInv, JobEnds, Finished, Created
<1>5. CASE Tick
  BY <1>5 DEF Tick, EndInv, JobEnds, StopEnds, Finished, Created, service, tasks
<1> QED  BY <1>1, <1>2, <1>3, <1>4, <1>5 DEF Shutdown

(* A new job has not begun to end.                                          *)
LEMMA AdmitEnds ==
    ASSUME IInv, EndInv, NEW l \in Lessons, NEW k \in Keys, NEW v \in Revs, Admit(l, k, v)
    PROVE  EndInv'
<1> PICK n \in Int : n = issued + 1
  BY RunnerAssumption DEF IInv, JobPart
<1> DEFINE r == [NoJob EXCEPT !.state = "STARTING", !.lesson = l,
                              !.key = k, !.rev = v, !.created = now]
<1>1. /\ UNCHANGED <<stream, proc, accepting, stop>> /\ accepting
      /\ job' = [job EXCEPT ![n] = r] /\ issued' = n /\ drive' = [drive EXCEPT ![n] = "new"]
      /\ retained' = Retain(job, retained) \cup {n} /\ issued < MaxJobs
      /\ issued \in Nat /\ MaxJobs \in Nat
  BY RunnerAssumption DEF Admit, IInv, JobPart
<1>2. /\ n \in JobIds /\ n \notin Created /\ Created' = Created \cup {n}
      /\ Created \subseteq JobIds
  BY <1>1 DEF Created, JobIds
<1>3. /\ r.state = "STARTING" /\ ~r.reaped /\ r.eof = {} /\ r.events = <<>>
      /\ r.hook = "none"
  BY DEF NoJob
<1> HIDE DEF r
<1>4. /\ job'[n] = r /\ drive'[n] = "new"
      /\ \A i \in JobIds : i # n => job'[i] = job[i] /\ drive'[i] = drive[i]
  BY <1>1, <1>2 DEF IInv, JobPart, TaskPart
<1>5. drive[n] = "none" /\ \A s \in Streams : stream[n][s] = "off"
  BY <1>2 DEF IInv, TaskPart
<1>6. RecordEnds(r)
  <2>1. Len(r.events) = 0
    BY <1>3
  <2> QED  BY <1>3, <2>1 DEF RecordEnds
<1>7. JobEnds(n)'
  BY <1>1, <1>3, <1>4, <1>5, <1>6 DEF JobEnds, DriverEnds, ReadersEnd, After
<1>8. \A i \in Created : JobEnds(i)' /\ (Finished(i)' <=> Finished(i))
  BY <1>1, <1>2, <1>4 DEF EndInv, JobEnds, Finished
<1>9. \A i \in JobIds : ProcessEnds(drive'[i], proc'[i])
  BY <1>1, <1>2, <1>4, <1>5 DEF EndInv, ProcessEnds, After
<1>10. \A i \in Created : Finished(i)' \/ i \in retained'
  BY <1>1, <1>8 DEF EndInv, Retain, Finished
<1>11. StopEnds'
  <2>1. stop.pc = "serving"
    BY <1>1 DEF EndInv, StopEnds
  <2> QED  BY <1>1, <2>1 DEF StopEnds
<1> QED  BY <1>1, <1>2, <1>7, <1>8, <1>9, <1>10, <1>11 DEF EndInv

LEMMA InitEnds == Init => EndInv
<1> SUFFICES ASSUME Init PROVE EndInv
  OBVIOUS
<1>1. Created = {}
  BY DEF Init, Created
<1> QED  BY <1>1 DEF Init, EndInv, StopEnds, ProcessEnds, NoProc, After

LEMMA NextEnds == IInv /\ EndInv /\ [Next]_vars => EndInv'
<1> SUFFICES ASSUME IInv, EndInv, [Next]_vars PROVE EndInv'
  OBVIOUS
<1>1. CASE UNCHANGED vars
  BY <1>1 DEF vars, tasks, service, rest, EndInv, JobEnds, StopEnds, Finished, Created
<1>2. CASE Next
  BY <1>2, AdmitEnds, RequestEnds, ProcessesEnd, DriveEnds, ReaderEnds, StreamEnds,
     ServiceEnds DEF Next
<1> QED  BY <1>1, <1>2

(* For any number of jobs, streams and limits: the exit is written once and *)
(* last, a finished driver has left neither a process nor its directory,    *)
(* and a shutdown that returned left no job without its recorded end.       *)
THEOREM EndsAreClean == Spec => []JobsEndClean
<1>1. IInv /\ EndInv => JobsEndClean
  <2> SUFFICES ASSUME IInv, EndInv PROVE ExitIsLast /\ StopsClean
    BY DEF JobsEndClean
  <2>1. ExitIsLast
    BY DEF EndInv, JobEnds, RecordEnds, ExitIsLast, Finished
  <2>2. ASSUME NEW j \in Created
        PROVE  /\ drive[j] = "done" =>
                    proc[j].leader # "alive" /\ proc[j].kid = "none" /\ ~proc[j].workdir
               /\ stop.pc = "stopped" =>
                    /\ Finished(j) /\ proc[j].leader # "alive"
                    /\ job[j].hook \in {"recorded", "failed"}
    <3>1. j \in JobIds /\ job[j] \in JobRecords
      BY CreatedJob DEF IInv
    <3>2. JobEnds(j) /\ ProcessEnds(drive[j], proc[j])
      BY <3>1 DEF EndInv
    <3>3. drive[j] = "done" =>
            proc[j].leader # "alive" /\ proc[j].kid = "none" /\ ~proc[j].workdir
      BY <3>2 DEF ProcessEnds, After
    <3>4. ASSUME stop.pc = "stopped"
          PROVE  /\ Finished(j) /\ proc[j].leader # "alive"
                 /\ job[j].hook \in {"recorded", "failed"}
      <4>1. Finished(j) /\ job[j].hook # "pending"
        BY <3>4 DEF EndInv, StopEnds
      <4>2. job[j].hook \in {"recorded", "failed"}
        BY <3>1, <3>2, <4>1 DEF JobEnds, RecordEnds, Finished, JobRecords
      <4>3. proc[j].leader # "alive"
        BY <3>2, <4>1 DEF JobEnds, RecordEnds, DriverEnds, ProcessEnds, Finished
      <4> QED  BY <4>1, <4>2, <4>3
    <3> QED  BY <3>3, <3>4
  <2> QED  BY <2>1, <2>2 DEF StopsClean
<1>2. Spec => []EndInv
  <2>1. Spec => []IInv
    BY Invariance
  <2> QED  BY <2>1, InitEnds, NextEnds, PTL DEF Spec
<1> QED  BY <1>1, <1>2, Invariance, PTL

-----------------------------------------------------------------------------
(* What a step outside admission and the stream handlers makes of a record. *)

Moves(r, q) ==
    /\ q.lesson = r.lesson /\ q.key = r.key /\ q.rev = r.rev /\ q.created = r.created
    /\ q.readers = r.readers
    /\ q.cause # r.cause => r.cause = None
    /\ r.state = "FINISHED" =>
          q.state = "FINISHED" /\ q.finished = r.finished /\ q.events = r.events
    /\ r.state # "FINISHED" /\ q.state = "FINISHED" => q.finished = now
    /\ \/ q.waiters = {}
       \/ /\ q.waiters = r.waiters /\ q.events = r.events
          /\ q.state = "FINISHED" => r.state = "FINISHED"

LEMMA MovesTwice ==
    ASSUME NEW a, NEW b, NEW c, Moves(a, b), Moves(b, c)
    PROVE  Moves(a, c)
BY DEF Moves

LEMMA BeginMoves ==
    ASSUME NEW r \in JobRecords, JobOK(r), NEW c \in Causes
    PROVE  /\ Moves(r, Begin(r, c))
           /\ Begin(r, c).cause = IF r.cause = None THEN c ELSE r.cause
BY DEF Begin, Moves, JobRecords, JobOK

LEMMA OutputMoves ==
    ASSUME NEW r \in JobRecords, r.state # "FINISHED"
    PROVE  Moves(r, Emit(r, "output")) /\ Emit(r, "output").cause = r.cause
<1> DEFINE ev == Append(r.events, "output")
           e  == [r EXCEPT !.events = ev, !.waiters = {}]
<1>1. Emit(r, "output") = e
  BY DEF Emit
<1> HIDE DEF ev
<1> QED  BY <1>1 DEF Moves, JobRecords

LEMMA UnspawnedMoves ==
    ASSUME NEW r \in JobRecords, JobOK(r)
    PROVE  /\ Unspawned(r) \in JobRecords /\ JobOK(Unspawned(r))
           /\ Moves(r, Unspawned(r)) /\ Unspawned(r).cause = r.cause
<1> DEFINE u == [r EXCEPT !.reaped = TRUE, !.eof = Streams]
<1>1. Unspawned(r) = u
  BY DEF Unspawned
<1>2. u \in JobRecords
  BY DEF JobRecords
<1>3. JobOK(u) /\ u.cause = r.cause
  BY DEF JobOK, JobRecords
<1>4. Moves(r, u)
  BY DEF Moves, JobRecords
<1> QED  BY <1>1, <1>2, <1>3, <1>4

LEMMA FinishMoves ==
    ASSUME NEW r \in JobRecords, JobOK(r)
    PROVE  Moves(r, FinishRecord(r)) /\ FinishRecord(r).cause = r.cause
<1>1. CASE Finishable(r)
  <2> DEFINE ev == Append(r.events, "exit")
             e  == [r EXCEPT !.events = ev, !.waiters = {},
                             !.state = "FINISHED", !.finished = now, !.hook = "pending"]
  <2>1. FinishRecord(r) = e
    BY <1>1 DEF FinishRecord, Emit
  <2>2. r.state # "FINISHED"
    BY <1>1 DEF Finishable
  <2> HIDE DEF ev
  <2> QED  BY <2>1, <2>2 DEF Moves, JobRecords
<1>2. CASE ~Finishable(r)
  BY <1>2 DEF FinishRecord, Moves
<1> QED  BY <1>1, <1>2

(* Settle and Update of a record that has moved.                            *)
LEMMA SettleMoves ==
    ASSUME IInv, NEW j \in Created, NEW r \in JobRecords, JobOK(r), Moves(job[j], r),
           Settle(j, r)
    PROVE  /\ Moves(job[j], job'[j]) /\ job'[j].cause = r.cause
           /\ \A i \in JobIds : i # j => job'[i] = job[i]
<1>1. job \in [JobIds -> JobRecords] /\ j \in JobIds
  BY CreatedJob DEF IInv, JobPart
<1>2. job' = [job EXCEPT ![j] = FinishRecord(r)]
  BY DEF Settle
<1>3. job'[j] = FinishRecord(r) /\ \A i \in JobIds : i # j => job'[i] = job[i]
  BY <1>1, <1>2
<1> QED  BY <1>3, FinishMoves, MovesTwice

(* Every such step moves every record, and only a cancel cancels.           *)
JobsMove ==
    /\ UNCHANGED <<issued, sse>>
    /\ \A i \in Created :
          /\ Moves(job[i], job'[i])
          /\ job'[i].cause # job[i].cause /\ job'[i].cause = "cancelled" =>
                ~(proc[i].adopted /\ proc[i].known)

LEMMA OneMoves ==
    ASSUME IInv, NEW j \in Created, UNCHANGED <<issued, sse>>,
           \A i \in JobIds : i # j => job'[i] = job[i],
           Moves(job[j], job'[j]),
           job'[j].cause = job[j].cause \/ job'[j].cause # "cancelled"
    PROVE  JobsMove
<1>1. \A i \in Created : i \in JobIds
  BY CreatedJob DEF IInv
<1> QED  BY <1>1 DEF JobsMove, Moves

LEMMA DriveMoves ==
    ASSUME IInv, EndInv, NEW j \in JobIds, Drive(j)
    PROVE  JobsMove
<1>0. UNCHANGED <<issued, sse>> /\ drive[j] # "none"
  BY DEF Drive, DriveStarts, Spawns, SpawnFails, Adopts, KillsNow,
         WallTimeout, TimeoutKills, Reaps, SweepsGroup, Settles, JoinsReaders, rest, Step
<1>1. j \in Created /\ job[j] \in JobRecords /\ JobOK(job[j])
  BY <1>0, DriverCreated, CreatedJob DEF IInv
<1>2. ASSUME UNCHANGED job PROVE JobsMove
  BY <1>0, <1>2 DEF JobsMove, Moves
<1>3. /\ Moves(job[j], job[j])
      /\ \A r \in JobRecords : JobOK(r) =>
            /\ Unspawned(r) \in JobRecords /\ JobOK(Unspawned(r))
            /\ Moves(r, Unspawned(r)) /\ Unspawned(r).cause = r.cause
  BY UnspawnedMoves DEF Moves
<1>4. ASSUME NEW r, Update(j, r), Moves(job[j], r),
             r.cause = job[j].cause \/ r.cause # "cancelled"
      PROVE  JobsMove
  <2>1. job'[j] = r /\ \A i \in JobIds : i # j => job'[i] = job[i]
    BY <1>1, <1>4, UpdateEnds
  <2> QED  BY <1>0, <1>1, <1>4, <2>1, OneMoves
<1>5. ASSUME NEW r \in JobRecords, JobOK(r), Settle(j, r), Moves(job[j], r),
             r.cause = job[j].cause \/ r.cause # "cancelled"
      PROVE  JobsMove
  BY <1>0, <1>1, <1>5, SettleMoves, OneMoves
<1>6. CASE DriveStarts(j)
  <2>1. CASE job[j].state # "STARTING"
    <3>1. Settle(j, Unspawned(job[j])) /\ drive[j] = "new"
      BY <1>6, <2>1 DEF DriveStarts, Step
    <3>2. job[j].cause # None
      BY <1>1, <2>1, <3>1 DEF JobOK, EndInv, JobEnds, DriverEnds, JobRecords
    <3> QED  BY <1>1, <1>3, <1>5, <3>1, <3>2
  <2>2. CASE job[j].state = "STARTING"
    BY <1>2, <1>6, <2>2 DEF DriveStarts
  <2> QED  BY <2>1, <2>2
<1>7. CASE SpawnFails(j)
  <2> DEFINE b == Begin(job[j], "spawn-failed")
  <2>1. b \in JobRecords /\ JobOK(b) /\ b.released
    BY <1>1, BeginJob DEF Causes
  <2>2. Moves(job[j], b) /\ (b.cause = job[j].cause \/ b.cause # "cancelled")
    BY <1>1, BeginMoves DEF Causes
  <2>3. Settle(j, Unspawned(b))
    BY <1>7 DEF SpawnFails
  <2> HIDE DEF b
  <2>4. b.cause # None
    BY <2>1 DEF JobOK
  <2> QED  BY <1>3, <1>5, <2>1, <2>2, <2>3, <2>4, MovesTwice
<1>8. CASE Adopts(j)
  <2>1. UNCHANGED job \/ (job[j].state = "STARTING" /\ job' = [job EXCEPT ![j].state = "RUNNING"])
    BY <1>8 DEF Adopts
  <2>2. ASSUME job[j].state = "STARTING", job' = [job EXCEPT ![j].state = "RUNNING"]
        PROVE  JobsMove
    <3> DEFINE r == [job[j] EXCEPT !.state = "RUNNING"]
    <3>1. Moves(job[j], r) /\ r.cause = job[j].cause
      BY <1>1, <2>2 DEF Moves, JobRecords
    <3>2. job'[j] = r /\ \A i \in JobIds : i # j => job'[i] = job[i]
      BY <2>2 DEF IInv, JobPart
    <3> HIDE DEF r
    <3> QED  BY <1>0, <1>1, <3>1, <3>2, OneMoves
  <2> QED  BY <1>2, <2>1, <2>2
<1>9. CASE WallTimeout(j)
  BY <1>1, <1>4, <1>9, BeginMoves DEF WallTimeout, Causes
<1>10. CASE Reaps(j)
  <2> DEFINE r == [job[j] EXCEPT !.reaped = TRUE]
  <2>1. Moves(job[j], r) /\ r.cause = job[j].cause
    BY <1>1 DEF Moves, JobRecords
  <2>2. Update(j, r)
    BY <1>10 DEF Reaps
  <2> HIDE DEF r
  <2> QED  BY <1>4, <2>1, <2>2
<1>11. CASE Settles(j)
  <2> DEFINE b == Begin(job[j], proc[j].leader)
  <2>1. Settle(j, b) /\ proc[j].leader \in Causes \ {"cancelled"}
    BY <1>11 DEF Settles, Step, IInv, TaskPart, Causes
  <2>2. b \in JobRecords /\ JobOK(b)
    BY <1>1, <2>1, BeginJob
  <2>3. Moves(job[j], b) /\ (b.cause = job[j].cause \/ b.cause # "cancelled")
    BY <1>1, <2>1, BeginMoves
  <2> HIDE DEF b
  <2> QED  BY <1>5, <2>1, <2>2, <2>3
<1>12. CASE JoinsReaders(j)
  BY <1>1, <1>3, <1>5, <1>12 DEF JoinsReaders
<1>13. CASE Spawns(j) \/ KillsNow(j) \/ TimeoutKills(j) \/ SweepsGroup(j)
  BY <1>2, <1>13 DEF Spawns, KillsNow, TimeoutKills, SweepsGroup, Kills
<1> QED  BY <1>6, <1>7, <1>8, <1>9, <1>10, <1>11, <1>12, <1>13 DEF Drive

LEMMA ReaderMoves ==
    ASSUME IInv, EndInv, NEW j \in JobIds, NEW s \in Streams, ReadStream(j, s)
    PROVE  JobsMove
<1>0. UNCHANGED <<issued, sse>>
  BY DEF ReadStream, ReadsChunk, Overflows, ReadFails, ReaderKills, ReadsEof, Closes, rest
<1>1. /\ j \in Created /\ job[j] \in JobRecords /\ JobOK(job[j])
      /\ ~Finished(j)
  <2>1. stream[j][s] \notin {"off", "done"}
    BY DEF ReadStream, ReadsChunk, Overflows, ReadFails, ReaderKills,
           ReadsEof, Closes, Reader
  <2> QED  BY <2>1, ReaderOpen
<1>2. ASSUME NEW r, Update(j, r), Moves(job[j], r),
             r.cause = job[j].cause \/ r.cause # "cancelled"
      PROVE  JobsMove
  <2>1. job'[j] = r /\ \A i \in JobIds : i # j => job'[i] = job[i]
    BY <1>1, <1>2, UpdateEnds
  <2> QED  BY <1>0, <1>1, <1>2, <2>1, OneMoves
<1>3. ASSUME NEW n \in 1..MaxChunk, NEW text \in BOOLEAN, NEW partial \in BOOLEAN,
             ReadsChunk(j, s, n, text, partial)
      PROVE  JobsMove
  <2> DEFINE left     == Remaining(job[j])
             accepted == IF n < left THEN n ELSE left
             by == job[j].bytes + accepted
             tr == job[j].truncated \/ n > accepted
             pa == IF accepted = 0 THEN job[j].partial
                   ELSE IF partial THEN job[j].partial \cup {s}
                   ELSE job[j].partial \ {s}
             r == [job[j] EXCEPT !.bytes = by, !.truncated = tr, !.partial = pa]
             e == IF accepted > 0 /\ text THEN Emit(r, "output") ELSE r
  <2>1. Update(j, e)
    BY <1>3 DEF ReadsChunk
  <2>2. by \in 0..OutputLimit /\ tr \in BOOLEAN /\ pa \in SUBSET Streams
    <3>1. job[j].bytes \in 0..OutputLimit /\ OutputLimit \in Nat /\ MaxChunk \in Nat
          /\ job[j].partial \in SUBSET Streams /\ job[j].truncated \in BOOLEAN
      BY <1>1, RunnerAssumption DEF JobRecords
    <3>2. by \in 0..OutputLimit
      BY <3>1 DEF Remaining
    <3> HIDE DEF by
    <3> QED  BY <3>1, <3>2
  <2> HIDE DEF by, tr, pa, accepted
  <2>3. r \in JobRecords /\ Moves(job[j], r) /\ r.state = job[j].state /\ r.cause = job[j].cause
    BY <1>1, <2>2, ZenonT(30) DEF JobRecords, Moves
  <2> HIDE DEF r
  <2>4. Moves(r, e) /\ e.cause = r.cause
    BY <1>1, <2>3, OutputMoves DEF Moves, Finished
  <2> HIDE DEF e
  <2> QED  BY <1>2, <2>1, <2>3, <2>4, MovesTwice
<1>4. CASE Overflows(j, s) \/ ReadFails(j, s)
  BY <1>1, <1>2, <1>4, BeginMoves DEF Overflows, ReadFails, Causes
<1>5. CASE ReaderKills(j, s)
  BY <1>0, <1>5 DEF ReaderKills, Kills, JobsMove, Moves
<1>6. CASE ReadsEof(j, s)
  <2> DEFINE e == IF s \in job[j].partial THEN Emit(job[j], "output") ELSE job[j]
  <2>1. Update(j, e)
    BY <1>6 DEF ReadsEof
  <2>2. Moves(job[j], e) /\ e.cause = job[j].cause
    BY <1>1, OutputMoves DEF Moves, Finished
  <2> HIDE DEF e
  <2> QED  BY <1>2, <2>1, <2>2
<1>7. CASE Closes(j, s)
  <2> DEFINE r == [job[j] EXCEPT !.eof = @ \cup {s}]
  <2>1. /\ Settle(j, r)
    BY <1>7 DEF Closes
  <2>2. /\ r \in JobRecords /\ Moves(job[j], r) /\ JobOK(r) /\ r.cause = job[j].cause
    BY <1>1 DEF JobRecords, Moves, JobOK
  <2> HIDE DEF r
  <2> QED  BY <1>0, <1>1, <2>1, <2>2, SettleMoves, OneMoves
<1> QED  BY <1>3, <1>4, <1>5, <1>6, <1>7 DEF ReadStream

LEMMA OtherMoves ==
    ASSUME IInv, EndInv,
           \/ Sweep
           \/ \E j \in JobIds : \/ Cancel(j) \/ CancelKill(j)
                                \/ Environment(j) \/ NoticeExit(j)
           \/ \E j \in JobIds, outcome \in {"recorded", "failed"} : Notify(j, outcome)
           \/ ShutdownBegins \/ Shutdown \/ Tick
    PROVE  JobsMove
<1>1. ASSUME UNCHANGED <<job, issued, sse>> PROVE JobsMove
  BY <1>1 DEF JobsMove, Moves
<1>2. CASE Sweep \/ Shutdown \/ Tick
  BY <1>1, <1>2 DEF Sweep, Shutdown, ShutdownKills, ShutdownJoins, ShutdownEnds, Tick,
     Kills, rest
<1>3. ASSUME NEW j \in JobIds, CancelKill(j) \/ Environment(j) \/ NoticeExit(j)
      PROVE  JobsMove
  BY <1>1, <1>3 DEF CancelKill, Kills, Environment, LeaderExits, LeaderCloses, Writes,
     Forks, KidExits, NoticeExit, Process, rest
<1>4. ASSUME NEW j \in JobIds, Cancel(j) PROVE JobsMove
  <2> DEFINE b == Begin(job[j], "cancelled")
  <2>1. /\ j \in Created /\ Update(j, b) /\ UNCHANGED <<issued, sse>>
        /\ ~(proc[j].adopted /\ proc[j].known)
    BY <1>4 DEF Cancel, IInv, TablePart, rest
  <2>2. Moves(job[j], b)
    BY <2>1, CreatedJob, BeginMoves DEF IInv, Causes
  <2> HIDE DEF b
  <2>3. job'[j] = b /\ \A i \in JobIds : i # j => job'[i] = job[i]
    BY <2>1, UpdateEnds
  <2>4. \A i \in Created : i \in JobIds
    BY CreatedJob DEF IInv
  <2> QED  BY <2>1, <2>2, <2>3, <2>4 DEF JobsMove, Moves
<1>5. ASSUME NEW j \in JobIds, NEW outcome \in {"recorded", "failed"}, Notify(j, outcome)
      PROVE  JobsMove
  <2> DEFINE r == [job[j] EXCEPT !.hook = outcome, !.waiters = {}]
  <2>1. job[j].hook = "pending" /\ Update(j, r) /\ UNCHANGED <<issued, sse>>
    BY <1>5 DEF Notify, rest
  <2>2. j \in Created
    BY <2>1 DEF IInv, JobPart, NoJob
  <2>3. Finished(j) /\ job[j] \in JobRecords
    BY <2>1, <2>2, CreatedJob DEF IInv, EndInv, JobEnds, RecordEnds, Finished
  <2>4. Moves(job[j], r) /\ r.cause = job[j].cause
    BY <2>3 DEF Moves, JobRecords, Finished
  <2> HIDE DEF r
  <2>5. job'[j] = r /\ \A i \in JobIds : i # j => job'[i] = job[i]
    BY <2>1, <2>2, UpdateEnds
  <2> QED  BY <2>1, <2>2, <2>4, <2>5, OneMoves
<1>6. CASE ShutdownBegins
  <2>1. UNCHANGED <<issued, sse>>
        /\ \A i \in JobIds : job'[i] = job[i] \/ job'[i] = Begin(job[i], "shutdown")
    BY <1>6 DEF ShutdownBegins
  <2>2. ASSUME NEW i \in Created
        PROVE  /\ Moves(job[i], job'[i])
               /\ job'[i].cause = job[i].cause \/ job'[i].cause # "cancelled"
    <3>1. i \in JobIds /\ job[i] \in JobRecords /\ JobOK(job[i])
      BY CreatedJob DEF IInv
    <3>2. CASE job'[i] = job[i]
      BY <3>2 DEF Moves
    <3>3. CASE job'[i] = Begin(job[i], "shutdown")
      BY <3>1, <3>3, BeginMoves DEF Causes
    <3> QED  BY <2>1, <3>1, <3>2, <3>3
  <2> QED  BY <2>1, <2>2 DEF JobsMove
<1> QED  BY <1>2, <1>3, <1>4, <1>5, <1>6

(* The first cause of a job's end stands, and once the return code of its   *)
(* process is known no cancel replaces it, whatever runs in parallel.       *)
THEOREM FirstCauseStands == Spec => CauseSettled
<1> DEFINE A == \A j \in JobIds :
         /\ job[j].cause # None => job'[j].cause = job[j].cause
         /\ proc[j].adopted /\ proc[j].known /\ job[j].cause = None
            => job'[j].cause # "cancelled"
<1>1. ASSUME IInv, EndInv, [Next]_vars PROVE A
  <2>1. None # "cancelled"
    BY RunnerAssumption DEF Causes
  <2>2. \A i \in JobIds : i \notin Created => job[i].cause = None
    BY <1>1 DEF IInv, JobPart, NoJob
  <2>3. ASSUME NEW l \in Lessons, NEW k \in Keys, NEW v \in Revs, Admit(l, k, v) PROVE A
    <3>1. \A i \in JobIds : job'[i].cause = job[i].cause \/ (i = issued + 1 /\ job'[i].cause = None)
      BY <1>1, <2>3 DEF Admit, NoJob, IInv, JobPart
    <3>2. issued + 1 \notin Created
      BY <1>1, RunnerAssumption DEF Created, IInv, JobPart
    <3> QED  BY <2>1, <2>2, <3>1, <3>2
  <2>4. ASSUME JobsMove PROVE A
    <3>1. \A i \in JobIds \ Created : job'[i].cause = None
      <4>1. IInv'
        BY <1>1, NextInv
      <4>2. Created' = Created
        BY <2>4 DEF JobsMove, Created
      <4> QED  BY <4>1, <4>2 DEF IInv, JobPart, NoJob
    <3> QED  BY <2>1, <2>2, <2>4, <3>1 DEF JobsMove, Moves
  <2>5. ASSUME \A i \in JobIds : job'[i].cause = job[i].cause PROVE A
    BY <2>1, <2>5
  <2>6. CASE UNCHANGED vars
    BY <2>5, <2>6 DEF vars
  <2> HIDE DEF A
  <2>7. CASE Next
    <3>1. ASSUME NEW q \in Readers,
                 \/ \E j \in JobIds, after \in 0..(OutputLimit + 3) : Attach(q, j, after)
                 \/ Stream(q) \/ KeepsAlive(q) \/ Disconnects(q)
          PROVE  A
      BY <1>1, <2>5, <3>1, StreamShares
    <3>2. ASSUME NEW j \in JobIds, NEW s \in Streams, ReadStream(j, s) PROVE A
      BY <1>1, <2>4, <3>2, ReaderMoves
    <3>3. ASSUME NEW j \in JobIds, Drive(j) PROVE A
      BY <1>1, <2>4, <3>3, DriveMoves
    <3> QED  BY <1>1, <2>3, <2>4, <2>7, <3>1, <3>2, <3>3, OtherMoves DEF Next
  <2> QED  BY <1>1, <2>6, <2>7
<1>2. Spec => []EndInv
  <2>1. Spec => []IInv
    BY Invariance
  <2> QED  BY <2>1, InitEnds, NextEnds, PTL DEF Spec
<1>3. ASSUME IInv, EndInv, [Next]_vars PROVE [A]_vars
  BY <1>1, <1>3
<1> HIDE DEF A
<1>4. Spec => [][A]_vars
  BY <1>2, <1>3, Invariance, PTL DEF Spec
<1> QED  BY <1>4 DEF A, CauseSettled

-----------------------------------------------------------------------------
(* The stream handlers.                                                     *)

LeaseOf(j) == {q \in Readers : sse[q].lease /\ sse[q].job = j}

StreamInv ==
    /\ NoLostWakeup
    /\ \A q \in Readers : sse[q].pc = "complete" =>
          Finished(sse[q].job) /\ sse[q].cursor = Len(job[sse[q].job].events)
    /\ \A q \in Readers : sse[q].pc = "idle" => ~sse[q].lease
    /\ \A j \in Created :
          IsFiniteSet(LeaseOf(j)) /\ job[j].readers = Cardinality(LeaseOf(j))
    /\ \A q \in Readers : sse[q].lease => sse[q].job \in retained

(* A leased job has a reader to be counted.                                 *)
LEMMA LeasedCounts ==
    ASSUME IInv, StreamInv, NEW q \in Readers, sse[q].lease
    PROVE  /\ sse[q].job \in Created /\ job[sse[q].job].readers > 0
           /\ job[sse[q].job].readers # 0
<1>1. sse[q].job \in Created
  BY DEF StreamInv, IInv, TablePart
<1>2. q \in LeaseOf(sse[q].job)
  BY DEF LeaseOf
<1>3. IsFiniteSet(LeaseOf(sse[q].job)) /\ job[sse[q].job].readers = Cardinality(LeaseOf(sse[q].job))
  BY <1>1 DEF StreamInv
<1>4. Cardinality(LeaseOf(sse[q].job)) \in Nat /\ Cardinality(LeaseOf(sse[q].job)) # 0
  BY <1>2, <1>3, FS_CardinalityType, FS_EmptySet
<1> QED  BY <1>1, <1>3, <1>4

(* A step that moves the jobs and drops none that is leased.                *)
LEMMA StreamsMove ==
    ASSUME IInv, EndInv, StreamInv, JobsMove,
           \A i \in retained : i \in retained' \/ job'[i].readers = 0
    PROVE  StreamInv'
<1>1. Created' = Created /\ sse' = sse
  BY DEF JobsMove, Created
<1>2. NoLostWakeup'
  BY <1>1 DEF StreamInv, NoLostWakeup, JobsMove, Moves, Finished
<1>3. \A q \in Readers : sse[q].pc = "complete" => sse[q].job \in Created
  BY DEF IInv, RestPart
<1>4. \A q \in Readers : sse'[q].pc = "complete" =>
         job'[sse[q].job].state = "FINISHED" /\ sse[q].cursor = Len(job'[sse[q].job].events)
  BY <1>1, <1>3 DEF StreamInv, JobsMove, Moves, Finished
<1>5. \A j \in Created : LeaseOf(j)' = LeaseOf(j) /\ job'[j].readers = job[j].readers
  BY <1>1 DEF LeaseOf, JobsMove, Moves
<1>6. \A q \in Readers : sse'[q].lease => sse'[q].job \in retained'
  <2> SUFFICES ASSUME NEW q \in Readers, sse[q].lease PROVE sse[q].job \in retained'
    BY <1>1
  <2>1. sse[q].job \in Created /\ job[sse[q].job].readers # 0 /\ sse[q].job \in retained
    BY LeasedCounts DEF StreamInv
  <2> QED  BY <1>5, <2>1
<1> QED  BY <1>1, <1>2, <1>4, <1>5, <1>6 DEF StreamInv, Finished

(* No step outside the handlers drops a leased job.                         *)
LEMMA LeasedStay ==
    ASSUME IInv,
           \/ Sweep
           \/ \E j \in JobIds : \/ Cancel(j) \/ CancelKill(j)
                                \/ Environment(j) \/ NoticeExit(j) \/ Drive(j)
                                \/ \E s \in Streams : ReadStream(j, s)
           \/ \E j \in JobIds, outcome \in {"recorded", "failed"} : Notify(j, outcome)
           \/ ShutdownBegins \/ Shutdown \/ Tick
    PROVE  \/ UNCHANGED <<retained, replay>>
           \/ Prune(job, replay) /\ UNCHANGED job
           \/ \E j \in JobIds : \E r : Settle(j, r) /\ Finishable(r)
<1>1. CASE Sweep
  BY <1>1 DEF Sweep
<1>2. ASSUME NEW j \in JobIds,
             Cancel(j) \/ CancelKill(j) \/ Environment(j) \/ NoticeExit(j)
      PROVE  UNCHANGED <<retained, replay>>
  BY <1>2 DEF Cancel, Update, CancelKill, Kills, Environment, LeaderExits, LeaderCloses,
     Writes, Forks, KidExits, NoticeExit, Process, service
<1>3. ASSUME NEW j \in JobIds, Drive(j)
      PROVE  UNCHANGED <<retained, replay>> \/ \E r : Settle(j, r)
  BY <1>3 DEF Drive, DriveStarts, Spawns, SpawnFails, Adopts, KillsNow, WallTimeout,
     TimeoutKills, Reaps, SweepsGroup, Settles, JoinsReaders, Update, Kills, service
<1>4. ASSUME NEW j \in JobIds, NEW s \in Streams, ReadStream(j, s)
      PROVE  UNCHANGED <<retained, replay>> \/ \E r : Settle(j, r)
  BY <1>4, ZenonT(30)
  DEF ReadStream, ReadsChunk, Overflows, ReadFails, ReaderKills, ReadsEof, Closes,
      Update, Kills, service
<1>5. ASSUME NEW j \in JobIds, NEW outcome \in {"recorded", "failed"}, Notify(j, outcome)
      PROVE  UNCHANGED <<retained, replay>>
  BY <1>5 DEF Notify, Update
<1>6. CASE ShutdownBegins \/ Shutdown \/ Tick
  BY <1>6 DEF ShutdownBegins, Shutdown, ShutdownKills, ShutdownJoins, ShutdownEnds, Tick,
     Kills, service
<1>7. ASSUME NEW j \in JobIds, NEW r, Settle(j, r)
      PROVE  UNCHANGED <<retained, replay>> \/ Finishable(r)
  BY <1>7 DEF Settle
<1> QED  BY <1>1, <1>2, <1>3, <1>4, <1>5, <1>6, <1>7

(* What a handler's step leaves to be shown.                                *)
LEMMA StreamFrame ==
    ASSUME IInv, StreamInv, NEW q \in Readers, UNCHANGED issued,
           \A p \in Readers : p # q => sse'[p] = sse[p],
           \A i \in JobIds : job'[i].state = job[i].state /\ job'[i].events = job[i].events,
           \A i \in Created : \A p \in Readers :
              p # q /\ p \in job'[i].waiters => p \in job[i].waiters,
           \A i \in Created : q \in job'[i].waiters =>
              /\ sse'[q].pc = "blocked" /\ sse'[q].job = i
              /\ ~Finished(i) /\ Len(job[i].events) <= sse'[q].cursor,
           sse'[q].pc = "complete" =>
              /\ sse'[q].job \in JobIds /\ job[sse'[q].job].state = "FINISHED"
              /\ sse'[q].cursor = Len(job[sse'[q].job].events),
           sse'[q].pc = "idle" => ~sse'[q].lease,
           \A i \in Created :
              IsFiniteSet(LeaseOf(i)') /\ job'[i].readers = Cardinality(LeaseOf(i)'),
           \A p \in Readers : sse'[p].lease => sse'[p].job \in retained'
    PROVE  StreamInv'
<1>1. Created' = Created /\ \A i \in Created : i \in JobIds
  BY CreatedJob DEF IInv, Created
<1>2. NoLostWakeup'
  BY <1>1 DEF StreamInv, NoLostWakeup, Finished
<1>3. \A p \in Readers : sse[p].pc = "complete" => sse[p].job \in Created
  BY DEF IInv, RestPart
<1>4. \A p \in Readers : sse'[p].pc = "complete" =>
         /\ job'[sse'[p].job].state = "FINISHED"
         /\ sse'[p].cursor = Len(job'[sse'[p].job].events)
  <2> TAKE p \in Readers
  <2>1. CASE p = q
    BY <2>1
  <2>2. CASE p # q
    <3> SUFFICES ASSUME sse[p].pc = "complete"
                 PROVE  /\ job'[sse'[p].job].state = "FINISHED"
                        /\ sse'[p].cursor = Len(job'[sse'[p].job].events)
      BY <2>2
    <3> PICK i \in Created : i = sse[p].job
      BY <1>3
    <3>1. job[i].state = "FINISHED" /\ sse[p].cursor = Len(job[i].events)
      BY DEF StreamInv, Finished
    <3>2. sse'[p] = sse[p]
      BY <2>2
    <3> QED  BY <1>1, <3>1, <3>2
  <2> QED  BY <2>1, <2>2
<1>5. \A p \in Readers : sse'[p].pc = "idle" => ~sse'[p].lease
  BY DEF StreamInv
<1> QED  BY <1>1, <1>2, <1>4, <1>5 DEF StreamInv, Finished

(* A handler that keeps its lease, or its lack of one, and its job.         *)
LEMMA SameLeases ==
    ASSUME IInv, StreamInv, NEW q \in Readers, UNCHANGED issued,
           \A p \in Readers : p # q => sse'[p] = sse[p],
           sse'[q].lease = sse[q].lease, sse'[q].job = sse[q].job,
           \A i \in JobIds : job'[i].readers = job[i].readers,
           retained' = retained \/ Prune(job, replay)
    PROVE  /\ \A i \in Created :
                 IsFiniteSet(LeaseOf(i)') /\ job'[i].readers = Cardinality(LeaseOf(i)')
           /\ \A p \in Readers : sse'[p].lease => sse'[p].job \in retained'
<1>1. \A i \in Created : i \in JobIds
  BY CreatedJob DEF IInv
<1>2. \A i : LeaseOf(i)' = LeaseOf(i)
  BY DEF LeaseOf
<1>3. \A p \in Readers : sse[p].lease => sse[p].job \in retained'
  BY LeasedCounts, PruneKeeps DEF StreamInv
<1> QED  BY <1>1, <1>2, <1>3 DEF StreamInv

(* A waiter of a job waits for it and for no other.                         *)
LEMMA AwakeWaitsNot ==
    ASSUME StreamInv, NEW q \in Readers, sse[q].pc # "blocked"
    PROVE  \A i \in Created : q \notin job[i].waiters
BY DEF StreamInv, NoLostWakeup

LEMMA AttachStreams ==
    ASSUME IInv, StreamInv, NEW q \in Readers, NEW j \in JobIds, NEW after \in Nat,
           Attach(q, j, after),
           \A i \in JobIds : job'[i].state = job[i].state /\ job'[i].events = job[i].events
    PROVE  StreamInv'
<1>1. /\ sse[q].pc = "idle" /\ ~sse[q].lease /\ Prune(job, replay) /\ j \in retained'
      /\ job' = [job EXCEPT ![j].readers = @ + 1] /\ UNCHANGED issued
      /\ sse' = [sse EXCEPT ![q] = [pc |-> "opened", job |-> j, cursor |-> after,
                                    lease |-> TRUE, releases |-> 1]]
  BY DEF Attach, StreamInv, loop
<1>2. /\ job \in [JobIds -> JobRecords] /\ DOMAIN sse = Readers
      /\ \A i \in Created : i \in JobIds
  BY CreatedJob DEF IInv, JobPart, RestPart
<1>3. /\ sse'[q].pc = "opened" /\ sse'[q].job = j /\ sse'[q].lease
      /\ \A p \in Readers : p # q => sse'[p] = sse[p]
  BY <1>1, <1>2
<1>4. /\ job'[j].readers = job[j].readers + 1
      /\ \A i \in JobIds : /\ job'[i].waiters = job[i].waiters
                           /\ i # j => job'[i].readers = job[i].readers
  BY <1>1, <1>2 DEF JobRecords
<1>5. /\ LeaseOf(j)' = LeaseOf(j) \cup {q} /\ q \notin LeaseOf(j)
      /\ \A i : i # j => LeaseOf(i)' = LeaseOf(i)
  BY <1>1, <1>3 DEF LeaseOf
<1>6. \A i \in Created :
         IsFiniteSet(LeaseOf(i)') /\ job'[i].readers = Cardinality(LeaseOf(i)')
  <2> TAKE i \in Created
  <2>1. IsFiniteSet(LeaseOf(i)) /\ job[i].readers = Cardinality(LeaseOf(i))
    BY DEF StreamInv
  <2>2. CASE i = j
    <3>1. /\ IsFiniteSet(LeaseOf(j) \cup {q})
          /\ Cardinality(LeaseOf(j) \cup {q}) = Cardinality(LeaseOf(j)) + 1
      BY <1>5, <2>1, <2>2, FS_AddElement
    <3> QED  BY <1>4, <1>5, <2>1, <2>2, <3>1
  <2>3. CASE i # j
    BY <1>2, <1>4, <1>5, <2>1, <2>3
  <2> QED  BY <2>2, <2>3
<1>7. \A p \in Readers : sse'[p].lease => sse'[p].job \in retained'
  <2>1. \A p \in Readers : sse[p].lease => sse[p].job \in retained'
    BY <1>1, LeasedCounts, PruneKeeps DEF StreamInv
  <2> QED  BY <1>1, <1>3, <2>1
<1>8. \A i \in Created : q \notin job[i].waiters
  BY <1>1, AwakeWaitsNot
<1> QED  BY <1>1, <1>2, <1>3, <1>4, <1>6, <1>7, <1>8, StreamFrame

LEMMA DetachStreams ==
    ASSUME IInv, StreamInv, NEW q \in Readers, Detaches(q),
           \A i \in JobIds : job'[i].state = job[i].state /\ job'[i].events = job[i].events
    PROVE  StreamInv'
<1> PICK j : j = sse[q].job
  OBVIOUS
<1> PICK d : d = IF sse[q].releases = 1 THEN Idle
                 ELSE [sse[q] EXCEPT !.lease = FALSE, !.releases = 1]
  OBVIOUS
<1>1. /\ sse[q].pc \in {"complete", "closing"} /\ UNCHANGED issued
      /\ sse' = [sse EXCEPT ![q] = d]
      /\ sse[q].lease =>
            /\ job' = [job EXCEPT ![j].readers = IF @ > 0 THEN @ - 1 ELSE @]
            /\ Prune(job', replay)
      /\ ~sse[q].lease => UNCHANGED <<job, retained>>
  BY DEF Detaches, loop
<1>2. /\ job \in [JobIds -> JobRecords] /\ DOMAIN sse = Readers
      /\ sse[q] \in SseRecords /\ j \in Created /\ j \in JobIds
      /\ \A i \in Created : i \in JobIds
  BY <1>1, CreatedJob DEF IInv, JobPart, RestPart, SseRecords
<1>3. /\ ~d.lease /\ d.pc \in {"idle", sse[q].pc}
      /\ d.pc # "idle" => d.job = j /\ d.cursor = sse[q].cursor
  BY <1>2 DEF Idle, SseRecords
<1>4. sse'[q] = d /\ \A p \in Readers : p # q => sse'[p] = sse[p]
  BY <1>1, <1>2
<1>5. /\ \A i \in JobIds : /\ job'[i].waiters = job[i].waiters
                           /\ i # j => job'[i].readers = job[i].readers
      /\ ~sse[q].lease => job'[j].readers = job[j].readers
  <2>1. CASE sse[q].lease
    <3>1. job[j].readers > 0
      BY <2>1, LeasedCounts
    <3>2. job' = [job EXCEPT ![j].readers = job[j].readers - 1]
      BY <1>1, <2>1, <3>1
    <3> QED  BY <1>2, <2>1, <3>2 DEF JobRecords
  <2>2. CASE ~sse[q].lease
    BY <1>1, <2>2
  <2> QED  BY <2>1, <2>2
<1>6. sse[q].lease => job'[j].readers = job[j].readers - 1
  <2> SUFFICES ASSUME sse[q].lease PROVE job'[j].readers = job[j].readers - 1
    OBVIOUS
  <2>1. job[j].readers > 0
    BY LeasedCounts
  <2> QED  BY <1>1, <1>2, <2>1 DEF JobRecords
<1>7. /\ LeaseOf(j)' = LeaseOf(j) \ {q} /\ (q \in LeaseOf(j) <=> sse[q].lease)
      /\ \A i : i # j => LeaseOf(i)' = LeaseOf(i)
  <2>1. ~sse'[q].lease /\ \A p \in Readers : p # q => sse'[p] = sse[p]
    BY <1>3, <1>4
  <2> QED  BY <2>1 DEF LeaseOf
<1>8. \A i \in Created :
         IsFiniteSet(LeaseOf(i)') /\ job'[i].readers = Cardinality(LeaseOf(i)')
  <2> TAKE i \in Created
  <2>1. IsFiniteSet(LeaseOf(i)) /\ job[i].readers = Cardinality(LeaseOf(i))
    BY DEF StreamInv
  <2>2. CASE i = j
    <3> PICK S : S = LeaseOf(j)
      OBVIOUS
    <3>1. IsFiniteSet(S) /\ job[j].readers = Cardinality(S)
      BY <2>1, <2>2
    <3>2. /\ IsFiniteSet(S \ {q})
          /\ Cardinality(S \ {q}) = IF q \in S THEN Cardinality(S) - 1 ELSE Cardinality(S)
      BY <3>1, FS_RemoveElement
    <3>3. job'[j].readers = IF q \in S THEN Cardinality(S) - 1 ELSE Cardinality(S)
      BY <1>5, <1>6, <1>7, <3>1
    <3> QED  BY <1>7, <2>2, <3>2, <3>3
  <2>3. CASE i # j
    BY <1>2, <1>5, <1>7, <2>1, <2>3
  <2> QED  BY <2>2, <2>3
<1>9. \A p \in Readers : sse'[p].lease => sse'[p].job \in retained'
  <2> SUFFICES ASSUME NEW p \in Readers, p # q, sse[p].lease
               PROVE  sse[p].job \in retained'
    BY <1>3, <1>4
  <2> PICK i \in Created : i = sse[p].job
    BY LeasedCounts
  <2>1. i \in retained
    BY DEF StreamInv
  <2>2. p \in LeaseOf(i)'
    BY <1>4 DEF LeaseOf
  <2>3. IsFiniteSet(LeaseOf(i)') /\ job'[i].readers = Cardinality(LeaseOf(i)')
    BY <1>8
  <2>4. Cardinality(LeaseOf(i)') \in Nat /\ Cardinality(LeaseOf(i)') # 0
    BY <2>2, <2>3, FS_CardinalityType, FS_EmptySet
  <2> QED  BY <1>1, <2>1, <2>3, <2>4, PruneKeeps
<1>10. \A i \in Created : q \notin job[i].waiters
  BY <1>1, AwakeWaitsNot
<1>11. sse'[q].pc = "complete" =>
         /\ sse'[q].job \in JobIds /\ job[sse'[q].job].state = "FINISHED"
         /\ sse'[q].cursor = Len(job[sse'[q].job].events)
  BY <1>2, <1>3, <1>4 DEF StreamInv, Finished
<1> QED  BY <1>1, <1>2, <1>3, <1>4, <1>5, <1>8, <1>9, <1>10, <1>11, StreamFrame

(* The other steps of a handler keep its lease.                             *)
LEMMA HandlerStreams ==
    ASSUME IInv, StreamInv, NEW q \in Readers,
           Polls(q) \/ Asks(q) \/ Wakes(q) \/ KeepsAlive(q) \/ Disconnects(q),
           \A i \in JobIds : job'[i].state = job[i].state /\ job'[i].events = job[i].events
    PROVE  StreamInv'
<1> PICK j : j = sse[q].job
  OBVIOUS
<1>1. /\ sse[q].pc # "idle" /\ UNCHANGED issued /\ j \in Created /\ j \in JobIds
      /\ retained' = retained \/ Prune(job, replay)
  BY DEF Polls, Asks, Wakes, KeepsAlive, Disconnects, LeaveWait, loop, service, IInv, RestPart,
     Created, JobIds, JobPart
<1>2. /\ job \in [JobIds -> JobRecords] /\ sse \in [Readers -> SseRecords]
      /\ sse[q] \in SseRecords /\ \A i \in Created : i \in JobIds
  BY CreatedJob DEF IInv, JobPart, RestPart, SseRecords
<1>3. /\ \A p \in Readers : p # q => sse'[p] = sse[p]
      /\ sse'[q].lease = sse[q].lease /\ sse'[q].job = j /\ sse'[q].pc # "idle"
  BY <1>2 DEF Polls, Asks, Wakes, KeepsAlive, Disconnects, SseRecords
<1>4. \A i \in JobIds : job'[i].readers = job[i].readers
  <2> PICK v, w : v = job[j].waiters \cup {q} /\ w = job[j].waiters \ {q}
    OBVIOUS
  <2>1. UNCHANGED job \/ job' = [job EXCEPT ![j].waiters = v]
                      \/ job' = [job EXCEPT ![j].waiters = w]
    BY DEF Polls, Asks, Wakes, KeepsAlive, Disconnects, LeaveWait
  <2>2. ASSUME NEW x, job' = [job EXCEPT ![j].waiters = x]
        PROVE  \A i \in JobIds : job'[i].readers = job[i].readers
    BY <1>2, <2>2 DEF JobRecords
  <2> QED  BY <2>1, <2>2
<1>5. /\ \A i \in Created :
            IsFiniteSet(LeaseOf(i)') /\ job'[i].readers = Cardinality(LeaseOf(i)')
      /\ \A p \in Readers : sse'[p].lease => sse'[p].job \in retained'
  BY <1>1, <1>3, <1>4, SameLeases
<1>6. CASE Polls(q)
  <2>1. /\ UNCHANGED job /\ sse[q].pc \in {"opened", "polling"}
        /\ sse'[q].cursor = Len(job[j].events)
        /\ sse'[q].pc = IF Finished(j) THEN "complete" ELSE "asking"
    BY <1>2, <1>6 DEF Polls, SseRecords
  <2>2. \A i \in Created : q \notin job[i].waiters
    BY <2>1, AwakeWaitsNot
  <2> QED  BY <1>1, <1>2, <1>3, <1>5, <2>1, <2>2, StreamFrame DEF Finished
<1>7. CASE Asks(q)
  <2>1. sse[q].pc = "asking" /\ \A i \in Created : q \notin job[i].waiters
    BY <1>7, AwakeWaitsNot DEF Asks
  <2>2. CASE Finished(j) \/ Len(job[j].events) > sse[q].cursor
    <3>1. UNCHANGED job /\ sse' = [sse EXCEPT ![q].pc = "polling"]
      BY <1>7, <2>2 DEF Asks
    <3>2. sse'[q].pc = "polling"
      BY <1>2, <3>1 DEF SseRecords
    <3> QED  BY <1>1, <1>3, <1>5, <2>1, <3>1, <3>2, StreamFrame
  <2>3. CASE ~(Finished(j) \/ Len(job[j].events) > sse[q].cursor)
    <3>1. /\ job' = [job EXCEPT ![j].waiters = @ \cup {q}]
          /\ sse'[q].pc = "blocked" /\ sse'[q].cursor = sse[q].cursor
      BY <1>2, <1>7, <2>3 DEF Asks, SseRecords
    <3>2. Len(job[j].events) <= sse[q].cursor
      <4>1. Len(job[j].events) \in Nat /\ sse[q].cursor \in Nat
        <5>1. job[j].events \in Seq({"output", "exit"})
          BY <1>1, <1>2 DEF JobRecords
        <5> QED  BY <1>2, <5>1 DEF SseRecords
      <4> QED  BY <2>3, <4>1
    <3> PICK w : w = job[j].waiters \cup {q}
      OBVIOUS
    <3>3. job'[j].waiters = w /\ \A i \in JobIds : i # j => job'[i].waiters = job[i].waiters
      <4>1. job' = [job EXCEPT ![j].waiters = w]
        BY <3>1
      <4> QED  BY <1>1, <1>2, <4>1 DEF JobRecords
    <3>4. \A i \in Created : q \in job'[i].waiters => i = j
      BY <1>2, <2>1, <3>3
    <3>5. \A i \in Created : \A p \in Readers :
             p # q /\ p \in job'[i].waiters => p \in job[i].waiters
      BY <1>2, <3>3
    <3> QED  BY <1>1, <1>3, <1>5, <2>3, <3>1, <3>2, <3>4, <3>5, StreamFrame
  <2> QED  BY <2>2, <2>3
<1>8. CASE Wakes(q)
  <2>1. /\ UNCHANGED job /\ q \notin job[j].waiters /\ sse'[q].pc = "polling"
    BY <1>2, <1>8 DEF Wakes
  <2>2. \A i \in Created : q \notin job[i].waiters
    BY <2>1 DEF StreamInv, NoLostWakeup
  <2> QED  BY <1>1, <1>3, <1>5, <2>1, <2>2, StreamFrame
<1>9. CASE KeepsAlive(q) \/ Disconnects(q)
  <2> PICK w : w = job[j].waiters \ {q}
    OBVIOUS
  <2>1. job' = [job EXCEPT ![j].waiters = w]
    BY <1>9 DEF KeepsAlive, Disconnects, LeaveWait
  <2>2. job'[j].waiters = w /\ \A i \in JobIds : i # j => job'[i].waiters = job[i].waiters
    BY <1>1, <1>2, <2>1 DEF JobRecords
  <2>5. sse'[q].pc \in {"polling", "closing"}
    <3>1. CASE KeepsAlive(q)
      BY <1>2, <3>1 DEF KeepsAlive, SseRecords
    <3>2. CASE Disconnects(q)
      BY <1>2, <3>2 DEF Disconnects, SseRecords
    <3> QED  BY <1>9, <3>1, <3>2
  <2>3. \A i \in Created : q \notin job'[i].waiters
    <3> SUFFICES ASSUME NEW i \in Created, i # j PROVE q \notin job'[i].waiters
      BY <2>2
    <3>1. q \in job[i].waiters => sse[q].job = i
      BY DEF StreamInv, NoLostWakeup
    <3> QED  BY <1>2, <2>2, <3>1
  <2>4. \A i \in Created : \A p \in Readers :
           p # q /\ p \in job'[i].waiters => p \in job[i].waiters
    BY <1>2, <2>2
  <2> QED  BY <1>1, <1>3, <1>5, <2>3, <2>4, <2>5, StreamFrame
<1> QED  BY <1>6, <1>7, <1>8, <1>9

LEMMA AdmitStreams ==
    ASSUME IInv, StreamInv, NEW l \in Lessons, NEW k \in Keys, NEW v \in Revs, Admit(l, k, v)
    PROVE  StreamInv'
<1> PICK n \in Int : n = issued + 1
  BY RunnerAssumption DEF IInv, JobPart
<1>1. /\ UNCHANGED sse /\ issued \in Nat /\ issued < MaxJobs /\ MaxJobs \in Nat
      /\ job' = [job EXCEPT ![n] = [NoJob EXCEPT !.state = "STARTING", !.lesson = l,
                                    !.key = k, !.rev = v, !.created = now]]
      /\ retained' = Retain(job, retained) \cup {n} /\ issued' = n
  BY RunnerAssumption DEF Admit, IInv, JobPart
<1>2. /\ n \in JobIds /\ n \notin Created /\ Created' = Created \cup {n}
      /\ Created \subseteq JobIds
  BY <1>1 DEF Created, JobIds
<1>3. /\ job'[n].waiters = {} /\ job'[n].readers = 0
      /\ \A i \in Created : job'[i] = job[i]
  BY <1>1, <1>2 DEF IInv, JobPart, NoJob
<1>4. NoLostWakeup'
  BY <1>1, <1>2, <1>3 DEF StreamInv, NoLostWakeup, Finished
<1>5. \A q \in Readers : sse[q].pc = "complete" =>
         /\ job'[sse[q].job].state = "FINISHED"
         /\ sse[q].cursor = Len(job'[sse[q].job].events)
  BY <1>3 DEF StreamInv, IInv, RestPart, Finished
<1>6. ASSUME NEW q \in Readers, sse[q].lease
      PROVE  sse[q].job \in retained' /\ sse[q].job \in Created
  <2>1. sse[q].job \in retained /\ job[sse[q].job].readers > 0 /\ sse[q].job \in Created
    BY <1>6, LeasedCounts DEF StreamInv
  <2> QED  BY <1>1, <2>1 DEF Retain
<1>7. ASSUME NEW i \in Created'
      PROVE  IsFiniteSet(LeaseOf(i)') /\ job'[i].readers = Cardinality(LeaseOf(i)')
  <2>1. LeaseOf(i)' = {q \in Readers : sse[q].lease /\ sse[q].job = i}
    BY <1>1 DEF LeaseOf
  <2>2. CASE i \in Created
    BY <1>3, <2>1, <2>2 DEF StreamInv, LeaseOf
  <2>3. CASE i = n
    <3>1. {q \in Readers : sse[q].lease /\ sse[q].job = i} = {}
      BY <1>2, <1>6, <2>3
    <3> QED  BY <1>3, <2>1, <2>3, <3>1, FS_EmptySet
  <2> QED  BY <1>2, <2>2, <2>3
<1> QED  BY <1>1, <1>4, <1>5, <1>6, <1>7 DEF StreamInv, Finished

LEMMA InitStreams == Init => StreamInv
<1> SUFFICES ASSUME Init PROVE StreamInv
  OBVIOUS
<1>1. Created = {}
  BY DEF Init, Created
<1> QED  BY <1>1 DEF Init, StreamInv, NoLostWakeup, Idle

LEMMA NextStreams == IInv /\ EndInv /\ StreamInv /\ [Next]_vars => StreamInv'
<1> SUFFICES ASSUME IInv, EndInv, StreamInv, [Next]_vars PROVE StreamInv'
  OBVIOUS
<1>1. CASE UNCHANGED vars
  BY <1>1 DEF vars, service, rest, StreamInv, NoLostWakeup, Finished, Created, LeaseOf
<1>2. ASSUME NEW q \in Readers,
             \/ \E j \in JobIds, after \in 0..(OutputLimit + 3) : Attach(q, j, after)
             \/ Stream(q) \/ KeepsAlive(q) \/ Disconnects(q)
      PROVE  StreamInv'
  <2>1. \A i \in JobIds : job'[i].state = job[i].state /\ job'[i].events = job[i].events
    BY <1>2, StreamShares
  <2>2. \A after \in 0..(OutputLimit + 3) : after \in Nat
    BY RunnerAssumption
  <2> QED  BY <1>2, <2>1, <2>2, AttachStreams, DetachStreams, HandlerStreams DEF Stream
<1>3. ASSUME \/ Sweep
             \/ \E j \in JobIds : \/ Cancel(j) \/ CancelKill(j)
                                  \/ Environment(j) \/ NoticeExit(j) \/ Drive(j)
                                  \/ \E s \in Streams : ReadStream(j, s)
             \/ \E j \in JobIds, outcome \in {"recorded", "failed"} : Notify(j, outcome)
             \/ ShutdownBegins \/ Shutdown \/ Tick
      PROVE  StreamInv'
  <2>1. JobsMove
    BY <1>3, DriveMoves, ReaderMoves, OtherMoves
  <2>2. \A i \in retained : job'[i].readers = job[i].readers /\ job[i].readers \in Nat
    BY <2>1, CreatedJob DEF JobsMove, Moves, IInv, TablePart, JobRecords
  <2>3. \A i \in retained : i \in retained' \/ job'[i].readers = 0
    <3>1. CASE UNCHANGED <<retained, replay>>
      BY <3>1
    <3>2. CASE Prune(job, replay) /\ UNCHANGED job
      BY <2>2, <3>2, PruneKeeps
    <3>3. CASE \E j \in JobIds : \E r : Settle(j, r) /\ Finishable(r)
      <4>1. \E entries : Prune(job', entries)
        BY <3>3 DEF Settle
      <4> QED  BY <2>2, <4>1, PruneKeeps
    <3> QED  BY <1>3, <3>1, <3>2, <3>3, LeasedStay
  <2> QED  BY <2>1, <2>3, StreamsMove
<1>4. CASE Next
  BY <1>2, <1>3, <1>4, AdmitStreams DEF Next
<1> QED  BY <1>1, <1>4

(* Both auxiliary invariants hold in every reachable state.                 *)
LEMMA EndsAndStreams == Spec => [](EndInv /\ StreamInv)
<1>1. EndInv /\ StreamInv /\ IInv /\ [Next]_vars => (EndInv /\ StreamInv)'
  BY NextEnds, NextStreams
<1>2. Init => EndInv /\ StreamInv
  BY InitEnds, InitStreams
<1> QED  BY <1>1, <1>2, Invariance, PTL DEF Spec

(* Whatever readers attach, poll, sleep, drop and detach twice: none sleeps *)
(* on news, a stream that ends by itself has sent the exit, and the leases  *)
(* are counted right and keep their jobs.                                   *)
THEOREM StreamsAreServed == Spec => []StreamsDeliver
<1>1. IInv /\ EndInv /\ StreamInv => StreamsDeliver
  <2> SUFFICES ASSUME IInv, EndInv, StreamInv PROVE StreamsDeliver
    OBVIOUS
  <2>1. StreamComplete
    <3> SUFFICES ASSUME NEW q \in Readers, sse[q].pc = "complete"
                 PROVE  LET events == job[sse[q].job].events
                        IN  /\ events # <<>> /\ sse[q].cursor = Len(events)
                            /\ events[Len(events)] = "exit"
      BY DEF StreamComplete
    <3>1. /\ sse[q].job \in Created /\ Finished(sse[q].job)
          /\ sse[q].cursor = Len(job[sse[q].job].events)
      BY DEF StreamInv, IInv, RestPart
    <3>2. RecordEnds(job[sse[q].job]) /\ job[sse[q].job] \in JobRecords
      BY <3>1, CreatedJob DEF EndInv, JobEnds, IInv
    <3>3. /\ job[sse[q].job].events # <<>>
          /\ job[sse[q].job].events \in Seq({"output", "exit"})
      BY <3>1, <3>2 DEF RecordEnds, Finished, JobRecords
    <3>4. Len(job[sse[q].job].events) \in 1..Len(job[sse[q].job].events)
      BY <3>3
    <3> QED  BY <3>1, <3>2, <3>3, <3>4 DEF RecordEnds, Finished
  <2>2. LeasesProtect
    BY DEF StreamInv, LeasesProtect, LeaseOf
  <2> QED  BY <2>1, <2>2 DEF StreamsDeliver, StreamInv
<1> QED  BY <1>1, EndsAndStreams, Invariance, PTL

-----------------------------------------------------------------------------
(* The tables of the service.                                              *)

Slot(jf, j) == <<jf[j].lesson, jf[j].key>>

Books(jf, entries, kept) ==
    /\ \A lk \in Lessons \X Keys :
          \/ entries[lk] = NoEntry
          \/ /\ entries[lk].job \in Created
             /\ Slot(jf, entries[lk].job) = lk
             /\ entries[lk].expires =
                   IF jf[entries[lk].job].state = "FINISHED"
                   THEN jf[entries[lk].job].finished + Retention ELSE Never
    /\ \A j \in kept : entries[Slot(jf, j)].job = j
    /\ \A j \in Created : jf[j].state = "FINISHED" => jf[j].finished <= now
    /\ \A j \in Created : entries[Slot(jf, j)].job # j =>
          jf[j].state = "FINISHED" /\ now >= jf[j].finished + Retention

OneByOne(jf) ==
    \A i, k \in Created : i < k /\ Slot(jf, i) = Slot(jf, k) =>
        jf[i].state = "FINISHED" /\ jf[k].created >= jf[i].finished + Retention

TableInv ==
    /\ Books(job, replay, retained)
    /\ OneByOne(job)
    /\ RetentionBound

-----------------------------------------------------------------------------
(* A prune.                                                                 *)

LEMMA CreatedSlot ==
    ASSUME JobPart, NEW j \in Created
    PROVE  Slot(job, j) \in Lessons \X Keys /\ j # 0 /\ j \in JobIds
BY CreatedJob DEF Slot, JobOK, JobIds

LEMMA PruneBooks ==
    ASSUME NEW jf, NEW entries, DOMAIN entries = Lessons \X Keys,
           \A j \in Created : Slot(jf, j) \in Lessons \X Keys,
           NEW kept \in SUBSET Created, Books(jf, entries, kept),
           NEW fewer \in SUBSET kept
    PROVE  Books(jf, Expire(entries, fewer), fewer)
<1> DEFINE after == Expire(entries, fewer)
           Gone(lk) == /\ entries[lk].expires # Never /\ now >= entries[lk].expires
                       /\ entries[lk].job \notin fewer
<1>1. /\ \A lk \in Lessons \X Keys : Gone(lk) => after[lk] = NoEntry
      /\ \A lk \in Lessons \X Keys : ~Gone(lk) => after[lk] = entries[lk]
  BY DEF Expire
<1> HIDE DEF after
<1>2. ASSUME NEW lk \in Lessons \X Keys
      PROVE  \/ after[lk] = NoEntry
             \/ /\ after[lk].job \in Created
                /\ Slot(jf, after[lk].job) = lk
                /\ after[lk].expires =
                      IF jf[after[lk].job].state = "FINISHED"
                      THEN jf[after[lk].job].finished + Retention ELSE Never
  <2>1. after[lk] = NoEntry \/ after[lk] = entries[lk]
    BY <1>1
  <2> HIDE DEF Gone
  <2> QED  BY <2>1 DEF Books
<1>3. ASSUME NEW j \in fewer PROVE after[Slot(jf, j)].job = j
  <2>1. j \in Created /\ entries[Slot(jf, j)].job = j
    BY DEF Books
  <2>2. Slot(jf, j) \in Lessons \X Keys /\ ~Gone(Slot(jf, j))
    BY <2>1
  <2> QED  BY <1>1, <2>1, <2>2
<1>4. ASSUME NEW j \in Created, after[Slot(jf, j)].job # j
      PROVE  jf[j].state = "FINISHED" /\ now >= jf[j].finished + Retention
  <2> PICK lk \in Lessons \X Keys : lk = Slot(jf, j)
    OBVIOUS
  <2>1. CASE entries[lk].job # j
    BY <2>1 DEF Books
  <2>2. CASE entries[lk].job = j
    <3>1. Gone(lk)
      BY <1>1, <1>4, <2>2
    <3>2. entries[lk] # NoEntry
      BY <3>1 DEF NoEntry
    <3>3. entries[lk].expires = IF jf[j].state = "FINISHED"
                                THEN jf[j].finished + Retention ELSE Never
      BY <2>2, <3>2 DEF Books
    <3> QED  BY <3>1, <3>3
  <2> QED  BY <2>1, <2>2
<1>5. \A j \in Created : jf[j].state = "FINISHED" => jf[j].finished <= now
  BY DEF Books
<1> QED  BY <1>2, <1>3, <1>4, <1>5 DEF Books, after

(* Among the members of a finite set, one that no other is older than.      *)
LEMMA OldestOf ==
    ASSUME NEW jf, NEW S \in SUBSET JobIds, S # {},
           \A i \in S : jf[i].finished \in Nat
    PROVE  \E i \in S : \A k \in S : ~Older(jf, k, i)
<1> DEFINE Elders(i) == {k \in S : Older(jf, k, i)}
           All == {Elders(i) : i \in S}
<1>0. \A i \in S : i \in Int
  BY DEF JobIds
<1>1. IsFiniteSet(S)
  <2>1. IsFiniteSet(1..MaxJobs)
    BY RunnerAssumption, FS_Interval
  <2> QED  BY <2>1, FS_Subset DEF JobIds
<1>2. All \subseteq SUBSET S /\ All # {}
  OBVIOUS
<1>3. \E X \in All : \A Y \in All : ~(Y \subseteq X /\ Y # X)
  <2> HIDE DEF All
  <2>1. IsWellFoundedOn(StrictSubsetOrdering(S), FiniteSubsetsOf(S))
    BY <1>1, FS_StrictSubsetOrderingWellFounded
  <2>2. All \subseteq FiniteSubsetsOf(S)
    BY <1>1, <1>2, FS_Subset DEF FiniteSubsetsOf
  <2>3. \E X \in All : \A Y \in All : <<Y, X>> \notin StrictSubsetOrdering(S)
    BY <2>1, <2>2, <1>2, WFMin
  <2> QED  BY <2>3, <1>2 DEF StrictSubsetOrdering
<1>4. PICK i \in S : \A k \in S : ~(Elders(k) \subseteq Elders(i) /\ Elders(k) # Elders(i))
  <2>1. PICK X \in All : \A Y \in All : ~(Y \subseteq X /\ Y # X)
    BY <1>3
  <2>2. PICK i \in S : X = Elders(i)
    OBVIOUS
  <2>3. \A k \in S : Elders(k) \in All
    OBVIOUS
  <2> HIDE DEF Elders, All
  <2> QED  BY <2>1, <2>2, <2>3
<1>5. ASSUME NEW k \in S, Older(jf, k, i) PROVE FALSE
  <2>1. k \in Elders(i) /\ k \notin Elders(k)
    BY <1>0, <1>5 DEF Older
  <2>2. Elders(k) \subseteq Elders(i)
    BY <1>0, <1>5 DEF Older
  <2> QED  BY <1>4, <2>1, <2>2
<1> QED  BY <1>5

(* What a prune may leave of the finished jobs.                             *)
LEMMA KeptBound ==
    ASSUME NEW jf \in [JobIds -> JobRecords], NEW kept \in SUBSET JobIds
    PROVE  LET left == {i \in Retain(jf, kept) : jf[i].state = "FINISHED"}
           IN  Cardinality(left) <= MaxTerminal \/ \A i \in left : jf[i].readers > 0
<1> DEFINE terminal  == {i \in kept : jf[i].state = "FINISHED"}
           protected == {i \in terminal : jf[i].readers > 0}
           fresh     == {i \in terminal \ protected : now - jf[i].finished < Retention}
           slots     == IF MaxTerminal > Cardinality(protected)
                        THEN MaxTerminal - Cardinality(protected) ELSE 0
           Rank(i)   == {k \in fresh : ~Older(jf, k, i)}
           newest    == {i \in fresh : Cardinality(Rank(i)) <= slots}
           left      == {i \in Retain(jf, kept) : jf[i].state = "FINISHED"}
<1>1. left = protected \cup newest
  BY DEF Retain
<1>2. IsFiniteSet(JobIds) /\ MaxTerminal \in Nat
  BY RunnerAssumption, FS_Interval DEF JobIds
<1>3. /\ IsFiniteSet(protected) /\ IsFiniteSet(newest) /\ IsFiniteSet(fresh)
      /\ \A i : IsFiniteSet(Rank(i))
  <2>1. /\ protected \subseteq JobIds /\ newest \subseteq JobIds /\ fresh \subseteq JobIds
        /\ \A i : Rank(i) \subseteq JobIds
    OBVIOUS
  <2> HIDE DEF protected, newest, fresh, Rank
  <2> QED  BY <1>2, <2>1, FS_Subset
<1>4. Cardinality(protected) \in Nat /\ slots \in Nat
  <2> HIDE DEF protected
  <2>1. Cardinality(protected) \in Nat
    BY <1>3, FS_CardinalityType
  <2> QED  BY <1>2, <2>1
<1>5. \A i \in fresh : i \in Rank(i)
  <2>1. \A i \in fresh : jf[i].finished \in Nat /\ i \in Int
    BY DEF JobRecords, JobIds
  <2> QED  BY <2>1 DEF Older
<1>6. CASE newest = {}
  BY <1>1, <1>6
<1>7. CASE newest # {}
  <2>1. newest \subseteq JobIds /\ \A i \in newest : jf[i].finished \in Nat
    BY DEF JobRecords
  <2>2. PICK i \in newest : \A k \in newest : ~Older(jf, k, i)
    <3> HIDE DEF newest
    <3> QED  BY <1>7, <2>1, OldestOf
  <2>3. newest \subseteq Rank(i)
    BY <2>2
  <2>4. Cardinality(newest) <= slots
    <3>1. Cardinality(Rank(i)) <= slots
      BY <2>2
    <3> HIDE DEF newest, Rank, slots
    <3>2. Cardinality(newest) <= Cardinality(Rank(i))
      BY <1>3, <2>3, FS_Subset
    <3>3. Cardinality(newest) \in Nat /\ Cardinality(Rank(i)) \in Nat
      BY <1>3, FS_CardinalityType
    <3> QED  BY <1>4, <3>1, <3>2, <3>3
  <2>5. Cardinality(newest) # 0 /\ Cardinality(newest) \in Nat
    <3> HIDE DEF newest
    <3> QED  BY <1>3, <1>7, FS_EmptySet, FS_CardinalityType
  <2>6. slots = MaxTerminal - Cardinality(protected)
    <3> HIDE DEF newest, protected
    <3> QED  BY <1>2, <1>4, <2>4, <2>5
  <2>7. Cardinality(left) <= Cardinality(protected) + Cardinality(newest)
    <3> HIDE DEF newest, protected, left
    <3>1. Cardinality(protected \cup newest) =
             Cardinality(protected) + Cardinality(newest) - Cardinality(protected \cap newest)
      BY <1>3, FS_Union
    <3>2. Cardinality(protected \cap newest) \in Nat
      BY <1>3, FS_Intersection, FS_CardinalityType
    <3> QED  BY <1>1, <1>4, <2>5, <3>1, <3>2
  <2>8. Cardinality(left) \in Nat
    <3> HIDE DEF newest, protected, left
    <3> QED  BY <1>1, <1>3, FS_Union, FS_CardinalityType
  <2>9. Cardinality(left) <= MaxTerminal
    <3> HIDE DEF newest, protected, left, slots
    <3> QED  BY <1>2, <1>4, <2>4, <2>5, <2>6, <2>7, <2>8
  <2> QED  BY <2>9
<1> QED  BY <1>6, <1>7

-----------------------------------------------------------------------------
(* The steps that touch the tables.                                         *)

NoneFinishes == \A i \in Created : job'[i].state = "FINISHED" => job[i].state = "FINISHED"

(* Outside admission and the handlers a step finishes no job, prunes for a  *)
(* look-up, or finishes one job.                                            *)
TableStep ==
    \/ NoneFinishes /\ UNCHANGED <<retained, replay>>
    \/ Prune(job, replay) /\ UNCHANGED job
    \/ \E j \in Created, r \in JobRecords : Settle(j, r) /\ Finishable(r)

LEMMA WriteStays ==
    ASSUME IInv, NEW j \in JobIds, NEW r, job' = [job EXCEPT ![j] = r],
           r.state = "FINISHED" => job[j].state = "FINISHED"
    PROVE  NoneFinishes
BY CreatedJob DEF IInv, JobPart, NoneFinishes

LEMMA SettleStays ==
    ASSUME IInv, NEW j \in Created, NEW r \in JobRecords, Settle(j, r),
           r.state = "FINISHED" => job[j].state = "FINISHED"
    PROVE  TableStep
<1>1. CASE Finishable(r)
  BY <1>1 DEF TableStep
<1>2. CASE ~Finishable(r)
  <2>1. job' = [job EXCEPT ![j] = r] /\ UNCHANGED <<retained, replay>>
    BY <1>2 DEF Settle, FinishRecord
  <2>2. j \in JobIds
    BY CreatedJob DEF IInv
  <2> QED  BY <2>1, <2>2, WriteStays DEF TableStep
<1> QED  BY <1>1, <1>2

LEMMA BeginStays ==
    ASSUME NEW r \in JobRecords, NEW c \in Causes
    PROVE  Begin(r, c) \in JobRecords /\ (Begin(r, c).state = "FINISHED" => r.state = "FINISHED")
<1>1. CASE r.cause # None
  BY <1>1 DEF Begin
<1>2. CASE r.cause = None
  <2> DEFINE b == [r EXCEPT !.cause = c, !.state = "TERMINATING", !.released = TRUE]
  <2>1. Begin(r, c) = b
    BY <1>2 DEF Begin
  <2>2. b \in JobRecords /\ b.state = "TERMINATING"
    BY DEF JobRecords
  <2> HIDE DEF b
  <2> QED  BY <2>1, <2>2
<1> QED  BY <1>1, <1>2

LEMMA UnspawnedStays ==
    ASSUME NEW r \in JobRecords
    PROVE  Unspawned(r) \in JobRecords /\ Unspawned(r).state = r.state
BY DEF Unspawned, JobRecords

LEMMA DriveTables ==
    ASSUME IInv, NEW j \in JobIds, Drive(j)
    PROVE  TableStep
<1>1. j \in Created /\ job[j] \in JobRecords /\ job \in [JobIds -> JobRecords]
  <2>1. drive[j] # "none"
    BY DEF Drive, DriveStarts, Spawns, SpawnFails, Adopts, KillsNow, WallTimeout,
       TimeoutKills, Reaps, SweepsGroup, Settles, JoinsReaders, Step
  <2> QED  BY <2>1, DriverCreated, CreatedJob DEF IInv, JobPart
<1>2. CASE \/ Spawns(j) \/ KillsNow(j) \/ TimeoutKills(j) \/ SweepsGroup(j)
           \/ DriveStarts(j) /\ job[j].state = "STARTING"
  BY <1>2 DEF Spawns, KillsNow, TimeoutKills, SweepsGroup, DriveStarts, Kills, service,
     TableStep, NoneFinishes
<1>3. CASE DriveStarts(j) /\ job[j].state # "STARTING"
  BY <1>1, <1>3, UnspawnedStays, SettleStays DEF DriveStarts
<1>4. CASE SpawnFails(j)
  <2>1. Settle(j, Unspawned(Begin(job[j], "spawn-failed"))) /\ "spawn-failed" \in Causes
    BY <1>4 DEF SpawnFails, Causes
  <2> QED  BY <1>1, <2>1, BeginStays, UnspawnedStays, SettleStays
<1>5. CASE Adopts(j)
  <2>1. UNCHANGED <<retained, replay>>
    BY <1>5 DEF Adopts, service
  <2>2. NoneFinishes
    <3>1. UNCHANGED job \/ job' = [job EXCEPT ![j].state = "RUNNING"]
      BY <1>5 DEF Adopts
    <3> PICK r : r = [job[j] EXCEPT !.state = "RUNNING"]
      OBVIOUS
    <3>2. r.state = "RUNNING" /\ (UNCHANGED job \/ job' = [job EXCEPT ![j] = r])
      BY <1>1, <3>1 DEF JobRecords
    <3> QED  BY <1>1, <3>2, WriteStays DEF NoneFinishes
  <2> QED  BY <2>1, <2>2 DEF TableStep
<1>6. CASE WallTimeout(j)
  <2>1. Update(j, Begin(job[j], "timeout")) /\ "timeout" \in Causes
    BY <1>6 DEF WallTimeout, Causes
  <2> QED  BY <1>1, <2>1, BeginStays, WriteStays DEF Update, TableStep
<1>7. CASE Reaps(j)
  <2> PICK r : r = [job[j] EXCEPT !.reaped = TRUE]
    OBVIOUS
  <2>1. Update(j, r) /\ r.state = job[j].state
    BY <1>1, <1>7 DEF Reaps, JobRecords
  <2> QED  BY <1>1, <2>1, WriteStays DEF Update, TableStep
<1>8. CASE Settles(j)
  <2>1. Settle(j, Begin(job[j], proc[j].leader)) /\ drive[j] = "settling"
    BY <1>8 DEF Settles, Step
  <2>2. proc[j].leader \in Causes
    BY <2>1 DEF IInv, TaskPart, Causes
  <2> QED  BY <1>1, <2>1, <2>2, BeginStays, SettleStays
<1>9. CASE JoinsReaders(j)
  BY <1>1, <1>9, SettleStays DEF JoinsReaders
<1> QED  BY <1>2, <1>3, <1>4, <1>5, <1>6, <1>7, <1>8, <1>9 DEF Drive

LEMMA ReaderTables ==
    ASSUME IInv, NEW j \in JobIds, NEW s \in Streams, ReadStream(j, s)
    PROVE  TableStep
<1>1. j \in Created /\ job[j] \in JobRecords
  <2>1. stream[j][s] # "off"
    BY DEF ReadStream, ReadsChunk, Overflows, ReadFails, ReaderKills, ReadsEof, Closes, Reader
  <2> QED  BY <2>1, ReaderCreated, CreatedJob DEF IInv
<1>2. ASSUME NEW r \in JobRecords PROVE Emit(r, "output").state = r.state
  BY DEF Emit, JobRecords
<1>3. ASSUME NEW n \in 1..MaxChunk, NEW text \in BOOLEAN, NEW partial \in BOOLEAN,
             ReadsChunk(j, s, n, text, partial)
      PROVE  TableStep
  <2> PICK b, t, p, r : r = [job[j] EXCEPT !.bytes = b, !.truncated = t, !.partial = p]
                        /\ (Update(j, r) \/ Update(j, Emit(r, "output")))
    BY <1>3 DEF ReadsChunk
  <2>1. r.state = job[j].state /\ Emit(r, "output").state = job[j].state
    BY <1>1 DEF Emit, JobRecords
  <2> QED  BY <2>1, WriteStays DEF Update, TableStep
<1>4. CASE Overflows(j, s) \/ ReadFails(j, s)
  <2>1. \E c \in Causes : Update(j, Begin(job[j], c))
    BY <1>4 DEF Overflows, ReadFails, Causes
  <2> QED  BY <1>1, <2>1, BeginStays, WriteStays DEF Update, TableStep
<1>5. CASE ReaderKills(j, s)
  BY <1>5 DEF ReaderKills, Kills, service, TableStep, NoneFinishes
<1>6. CASE ReadsEof(j, s)
  BY <1>1, <1>2, <1>6, WriteStays DEF ReadsEof, Update, TableStep
<1>7. CASE Closes(j, s)
  <2> PICK r : r = [job[j] EXCEPT !.eof = @ \cup {s}]
    OBVIOUS
  <2>1. r \in JobRecords /\ r.state = job[j].state
    BY <1>1 DEF JobRecords
  <2> QED  BY <1>1, <1>7, <2>1, SettleStays DEF Closes
<1> QED  BY <1>3, <1>4, <1>5, <1>6, <1>7 DEF ReadStream

LEMMA OtherTables ==
    ASSUME IInv,
           \/ Sweep
           \/ \E j \in JobIds : \/ Cancel(j) \/ CancelKill(j)
                                \/ Environment(j) \/ NoticeExit(j)
           \/ \E j \in JobIds, outcome \in {"recorded", "failed"} : Notify(j, outcome)
           \/ ShutdownBegins \/ Shutdown \/ Tick
    PROVE  TableStep
<1>1. CASE Sweep
  BY <1>1 DEF Sweep, TableStep
<1>2. ASSUME NEW j \in JobIds, Cancel(j)
      PROVE  TableStep
  <2>1. Update(j, Begin(job[j], "cancelled")) /\ "cancelled" \in Causes /\ job[j] \in JobRecords
    BY <1>2 DEF Cancel, Causes, IInv, JobPart
  <2> QED  BY <2>1, BeginStays, WriteStays DEF Update, TableStep
<1>3. ASSUME NEW j \in JobIds, CancelKill(j) \/ Environment(j) \/ NoticeExit(j)
      PROVE  TableStep
  BY <1>3 DEF CancelKill, Kills, Environment, LeaderExits, LeaderCloses,
     Writes, Forks, KidExits, NoticeExit, Process, service, TableStep, NoneFinishes
<1>4. ASSUME NEW j \in JobIds, NEW outcome \in {"recorded", "failed"}, Notify(j, outcome)
      PROVE  TableStep
  <2> PICK r : r = [job[j] EXCEPT !.hook = outcome, !.waiters = {}]
    OBVIOUS
  <2>1. Update(j, r) /\ r.state = job[j].state
    BY <1>4 DEF Notify, IInv, JobPart, JobRecords
  <2> QED  BY <2>1, WriteStays DEF Update, TableStep
<1>5. CASE ShutdownBegins
  <2>1. UNCHANGED <<retained, replay>>
    BY <1>5 DEF ShutdownBegins
  <2>2. "shutdown" \in Causes /\ \A i \in JobIds :
           job'[i] = job[i] \/ job'[i] = Begin(job[i], "shutdown")
    BY <1>5 DEF ShutdownBegins, Causes
  <2>3. NoneFinishes
    BY <2>2, CreatedJob, BeginStays DEF IInv, NoneFinishes
  <2> QED  BY <2>1, <2>3 DEF TableStep
<1>6. CASE Shutdown \/ Tick
  BY <1>6 DEF Shutdown, ShutdownKills, ShutdownJoins, ShutdownEnds, Tick,
     Kills, service, TableStep, NoneFinishes
<1> QED  BY <1>1, <1>2, <1>3, <1>4, <1>5, <1>6

-----------------------------------------------------------------------------
(* The invariant.                                                           *)

(* Two job tables that differ in nothing the books tell apart.              *)
Alike(jf, jg) ==
    \A i \in Created : /\ jg[i].state = "FINISHED" <=> jf[i].state = "FINISHED"
                       /\ jg[i].lesson = jf[i].lesson /\ jg[i].key = jf[i].key
                       /\ jg[i].created = jf[i].created
                       /\ jf[i].state = "FINISHED" => jg[i].finished = jf[i].finished

LEMMA AlikeBooks ==
    ASSUME NEW jf, NEW jg, Alike(jf, jg), NEW entries, NEW kept \in SUBSET Created,
           Books(jf, entries, kept)
    PROVE  Books(jg, entries, kept)
<1>1. \A i \in Created : Slot(jg, i) = Slot(jf, i)
  BY DEF Alike, Slot
<1>2. \A lk \in Lessons \X Keys :
         \/ entries[lk] = NoEntry
         \/ /\ entries[lk].job \in Created
            /\ Slot(jg, entries[lk].job) = lk
            /\ entries[lk].expires =
                  IF jg[entries[lk].job].state = "FINISHED"
                  THEN jg[entries[lk].job].finished + Retention ELSE Never
  BY <1>1 DEF Books, Alike
<1>3. \A j \in kept : entries[Slot(jg, j)].job = j
  BY <1>1 DEF Books
<1>4. \A j \in Created : jg[j].state = "FINISHED" => jg[j].finished <= now
  BY DEF Books, Alike
<1>5. \A j \in Created : entries[Slot(jg, j)].job # j =>
         jg[j].state = "FINISHED" /\ now >= jg[j].finished + Retention
  BY <1>1 DEF Books, Alike
<1> QED  BY <1>2, <1>3, <1>4, <1>5 DEF Books

LEMMA AlikeOneByOne ==
    ASSUME NEW jf, NEW jg, Alike(jf, jg), OneByOne(jf)
    PROVE  OneByOne(jg)
<1>1. \A i \in Created : Slot(jg, i) = Slot(jf, i)
  BY DEF Alike, Slot
<1> QED  BY <1>1 DEF Alike, OneByOne

(* A step of the clock, or none, keeps the books.                           *)
LEMMA LaterBooks ==
    ASSUME NEW jf, NEW entries, NEW kept, Books(jf, entries, kept),
           UNCHANGED issued, now \in Nat, now' \in {now, now + 1}, Retention \in Nat,
           \A i \in Created : jf[i].finished \in Nat
    PROVE  \A i \in Created : /\ jf[i].state = "FINISHED" => jf[i].finished <= now'
                              /\ entries[Slot(jf, i)].job # i =>
                                    now' >= jf[i].finished + Retention
BY DEF Books

(* What a prune keeps of the bound.                                         *)
LEMMA PruneBound ==
    ASSUME IInv, EndInv', UNCHANGED issued, NEW jf \in [JobIds -> JobRecords],
           NEW entries, Prune(jf, entries),
           \A i \in Created : /\ job'[i].state = "FINISHED" <=> jf[i].state = "FINISHED"
                              /\ jf[i].readers > 0 => job'[i].readers > 0
    PROVE  RetentionBound'
<1> DEFINE left == {i \in Retain(jf, retained) : jf[i].state = "FINISHED"}
<1>1. /\ retained \subseteq JobIds /\ retained \subseteq Created /\ Created' = Created
      /\ retained' \subseteq retained /\ retained' = Retain(jf, retained)
  BY CreatedJob DEF IInv, TablePart, Prune, Retain, Created
<1>2. Cardinality(left) <= MaxTerminal \/ \A i \in left : jf[i].readers > 0
  BY <1>1, KeptBound
<1>3. left = {j \in retained : Finished(j)}'
  BY <1>1 DEF Finished
<1>4. \A j \in Created' : ~Finished(j)' => j \in retained'
  BY DEF EndInv
<1>5. \/ Cardinality({j \in retained : Finished(j)}') <= MaxTerminal
      \/ \A i \in {j \in retained : Finished(j)}' : job'[i].readers > 0
  <2>1. \A i \in left : i \in Created
    BY <1>1
  <2> HIDE DEF left
  <2> QED  BY <1>2, <1>3, <2>1
<1> QED  BY <1>4, <1>5 DEF RetentionBound

(* A step that leaves the tables alone and finishes nothing.                *)
LEMMA SameBound ==
    ASSUME RetentionBound, UNCHANGED <<issued, retained>>, retained \subseteq Created,
           \A i \in Created : /\ job'[i].state = "FINISHED" <=> job[i].state = "FINISHED"
                              /\ job'[i].readers = job[i].readers
    PROVE  RetentionBound'
<1>1. {j \in retained : Finished(j)}' = {j \in retained : Finished(j)}
  BY DEF Finished
<1>2. {j \in {i \in retained : Finished(i)} : job[j].readers > 0}'
         = {j \in {i \in retained : Finished(i)} : job[j].readers > 0}
  BY DEF Finished
<1>3. Created' = Created /\ \A j \in Created : Finished(j)' <=> Finished(j)
  BY DEF Finished, Created
<1> QED  BY <1>1, <1>2, <1>3 DEF RetentionBound

(* A step that touches no table and ends no job, the clock's included.      *)
LEMMA QuietTables ==
    ASSUME IInv, TableInv, UNCHANGED <<issued, retained, replay>>, now' \in {now, now + 1},
           Alike(job, job'), \A i \in Created : job'[i].readers = job[i].readers
    PROVE  TableInv'
<1>1. Created' = Created /\ retained \in SUBSET Created
  BY DEF Created, IInv, TablePart
<1>2. Books(job', replay', retained') /\ OneByOne(job')
  BY <1>1, AlikeBooks, AlikeOneByOne DEF TableInv
<1>3. /\ now \in Nat /\ Retention \in Nat
      /\ \A i \in Created : job[i].finished \in Nat /\ job[i] \in JobRecords
  BY RunnerAssumption, CreatedJob DEF IInv, RestPart, JobRecords
<1>4. \A i \in Created : job'[i].state = "FINISHED" => job'[i].finished \in Nat
  BY <1>3 DEF Alike
<1>5. \A i \in Created :
         /\ job'[i].state = "FINISHED" => job'[i].finished <= now'
         /\ replay'[Slot(job', i)].job # i =>
               job'[i].state = "FINISHED" /\ now' >= job'[i].finished + Retention
  <2> SUFFICES ASSUME NEW i \in Created
               PROVE  /\ job'[i].state = "FINISHED" => job'[i].finished <= now'
                      /\ replay'[Slot(job', i)].job # i =>
                            job'[i].state = "FINISHED" /\ now' >= job'[i].finished + Retention
    OBVIOUS
  <2>1. /\ job'[i].state = "FINISHED" => job'[i].finished <= now
        /\ replay'[Slot(job', i)].job # i =>
              job'[i].state = "FINISHED" /\ now >= job'[i].finished + Retention
    BY <1>2 DEF Books
  <2>2. job'[i].state = "FINISHED" => job'[i].finished \in Nat
    BY <1>4
  <2> QED  BY <1>3, <2>1, <2>2
<1>6. Books(job, replay, retained)'
  BY <1>1, <1>2, <1>5 DEF Books, Slot
<1>7. OneByOne(job)'
  BY <1>1, <1>2 DEF OneByOne, Slot
<1>8. RetentionBound'
  BY <1>1, SameBound DEF Alike, TableInv
<1> QED  BY <1>6, <1>7, <1>8 DEF TableInv

(* A prune of the job table, before or after its readers are counted.       *)
LEMMA PruneTables ==
    ASSUME IInv, IInv', EndInv', TableInv, UNCHANGED <<issued, now>>,
           NEW jf \in [JobIds -> JobRecords], jf = job \/ jf = job', Prune(jf, replay),
           Alike(job, job'),
           \A i \in Created : jf[i].readers > 0 => job'[i].readers > 0
    PROVE  TableInv'
<1>1. /\ Created' = Created /\ retained \in SUBSET Created /\ retained' \in SUBSET retained
      /\ DOMAIN replay = Lessons \X Keys /\ replay' = Expire(replay, retained')
  BY DEF Created, IInv, TablePart, Prune, Retain
<1>2. \A i \in Created : Slot(job, i) \in Lessons \X Keys
  BY CreatedSlot DEF IInv
<1>3. Books(job, Expire(replay, retained'), retained')
  BY <1>1, <1>2, PruneBooks DEF TableInv
<1>4. Books(job', replay', retained') /\ OneByOne(job')
  BY <1>1, <1>3, AlikeBooks, AlikeOneByOne DEF TableInv
<1>5. Books(job, replay, retained)' /\ OneByOne(job)'
  BY <1>1, <1>4 DEF Books, OneByOne, Slot
<1>6. \A i \in Created : job'[i].state = "FINISHED" <=> jf[i].state = "FINISHED"
  BY DEF Alike
<1>7. RetentionBound'
  BY <1>6, PruneBound
<1> QED  BY <1>5, <1>7 DEF TableInv

(* A job ends: its entry is stamped with its deadline, then all is pruned.  *)
LEMMA SettleTables ==
    ASSUME IInv, IInv', EndInv, EndInv', TableInv, JobsMove, UNCHANGED now,
           NEW j \in Created, NEW r \in JobRecords, Settle(j, r), Finishable(r)
    PROVE  TableInv'
<1> PICK lk : lk = <<r.lesson, r.key>>
  OBVIOUS
<1> PICK entries : entries = IF replay[lk].job = j
                             THEN [replay EXCEPT ![lk].expires = now + Retention]
                             ELSE replay
  OBVIOUS
<1>1. /\ UNCHANGED issued /\ Created' = Created /\ j \in JobIds /\ j # 0
      /\ retained \in SUBSET Created /\ replay \in [Lessons \X Keys -> Entries]
      /\ now \in Nat /\ Retention \in Nat /\ job \in [JobIds -> JobRecords]
      /\ \A i \in Created : i \in JobIds /\ Slot(job, i) \in Lessons \X Keys
  BY CreatedSlot, RunnerAssumption
     DEF JobsMove, Created, IInv, TablePart, JobPart, RestPart
<1>2. job' = [job EXCEPT ![j] = FinishRecord(r)] /\ Prune(job', entries)
  BY DEF Settle
<1>3. /\ FinishRecord(r).state = "FINISHED" /\ FinishRecord(r).finished = now
      /\ FinishRecord(r).lesson = r.lesson /\ FinishRecord(r).key = r.key
  BY DEF FinishRecord, Emit, JobRecords
<1>4. /\ job'[j].state = "FINISHED" /\ job'[j].finished = now /\ Slot(job', j) = lk
      /\ \A i \in Created : i # j => job'[i] = job[i]
  BY <1>1, <1>2, <1>3 DEF Slot
<1>5. \A i \in Created :
         /\ Slot(job', i) = Slot(job, i) /\ job'[i].created = job[i].created
         /\ job[i].state = "FINISHED" =>
               job'[i].state = "FINISHED" /\ job'[i].finished = job[i].finished
  BY DEF JobsMove, Moves, Slot
<1>6. lk \in Lessons \X Keys /\ lk = Slot(job, j)
  BY <1>1, <1>4, <1>5
<1>7. /\ DOMAIN entries = Lessons \X Keys
      /\ \A m \in Lessons \X Keys : entries[m].job = replay[m].job
      /\ \A m \in Lessons \X Keys : m # lk \/ replay[m].job # j => entries[m] = replay[m]
      /\ replay[lk].job = j => entries[lk].expires = now + Retention
  BY <1>1, <1>6 DEF Entries
<1>8. ASSUME NEW m \in Lessons \X Keys, entries[m] # NoEntry
      PROVE  /\ entries[m].job \in Created
             /\ Slot(job', entries[m].job) = m
             /\ entries[m].expires =
                   IF job'[entries[m].job].state = "FINISHED"
                   THEN job'[entries[m].job].finished + Retention ELSE Never
  <2> PICK i : i = replay[m].job
    OBVIOUS
  <2>1. replay[m] # NoEntry
    BY <1>1, <1>7, <1>8, SMTT(30) DEF NoEntry
  <2>2. /\ i \in Created /\ Slot(job, i) = m
        /\ replay[m].expires = IF job[i].state = "FINISHED"
                               THEN job[i].finished + Retention ELSE Never
    BY <2>1 DEF TableInv, Books
  <2>3. entries[m].job = i /\ Slot(job', i) = m
    BY <1>5, <1>7, <2>2
  <2>4. CASE i = j
    BY <1>4, <1>6, <1>7, <2>2, <2>3, <2>4
  <2>5. CASE i # j
    BY <1>4, <1>7, <2>2, <2>3, <2>5
  <2> QED  BY <2>4, <2>5
<1>9. \A i \in retained : entries[Slot(job', i)].job = i
  BY <1>1, <1>5, <1>7, SMTT(30) DEF TableInv, Books
<1>10. \A i \in Created : job'[i].state = "FINISHED" => job'[i].finished <= now
  BY <1>1, <1>4 DEF TableInv, Books
<1>11. \A i \in Created : entries[Slot(job', i)].job # i =>
          job'[i].state = "FINISHED" /\ now >= job'[i].finished + Retention
  BY <1>1, <1>5, <1>7, SMTT(30) DEF TableInv, Books
<1>12. Books(job', entries, retained)
  BY <1>8, <1>9, <1>10, <1>11 DEF Books
<1>13. /\ retained' \in SUBSET retained /\ replay' = Expire(entries, retained')
       /\ \A i \in Created : Slot(job', i) \in Lessons \X Keys
  BY <1>1, <1>2, <1>5 DEF Prune, Retain
<1>14. Books(job', replay', retained')
  BY <1>1, <1>7, <1>12, <1>13, PruneBooks
<1>15. OneByOne(job')
  BY <1>5 DEF TableInv, OneByOne
<1>16. Books(job, replay, retained)' /\ OneByOne(job)'
  BY <1>1, <1>14, <1>15 DEF Books, OneByOne, Slot
<1>17. RetentionBound'
  <2>1. job' \in [JobIds -> JobRecords]
    BY DEF IInv, JobPart
  <2> QED  BY <1>1, <1>2, <2>1, PruneBound
<1> QED  BY <1>16, <1>17 DEF TableInv

(* A new job takes the entry of its lesson and key, which a prune had to    *)
(* free: whoever had it finished at least the retention time ago.           *)
LEMMA AdmitTables ==
    ASSUME IInv, IInv', EndInv', TableInv,
           NEW l \in Lessons, NEW k \in Keys, NEW v \in Revs, Admit(l, k, v)
    PROVE  TableInv'
<1> PICK n \in Int : n = issued + 1
  BY DEF IInv, JobPart
<1> PICK kept : kept = Retain(job, retained)
  OBVIOUS
<1> PICK entries : entries = Expire(replay, kept)
  OBVIOUS
<1>1. /\ issued' = n /\ retained' = kept \cup {n} /\ UNCHANGED now
      /\ replay' = [entries EXCEPT ![<<l, k>>] = [job |-> n, expires |-> Never]]
      /\ entries[<<l, k>>] = NoEntry
      /\ job' = [job EXCEPT ![n] = [NoJob EXCEPT !.state = "STARTING", !.lesson = l,
                                    !.key = k, !.rev = v, !.created = now]]
  BY DEF Admit
<1>2. /\ n \in JobIds /\ n \notin Created /\ Created' = Created \cup {n} /\ n # 0
      /\ \A i \in Created : i \in JobIds /\ i \in Int /\ i < n
  <2>1. issued \in Nat /\ issued < MaxJobs /\ MaxJobs \in Nat
    BY RunnerAssumption DEF Admit, IInv, JobPart
  <2> QED  BY <1>1, <2>1 DEF Created, JobIds
<1>3. /\ job \in [JobIds -> JobRecords] /\ retained \in SUBSET Created
      /\ DOMAIN replay = Lessons \X Keys /\ kept \in SUBSET retained
      /\ \A i \in Created : Slot(job, i) \in Lessons \X Keys
  BY CreatedSlot DEF IInv, JobPart, TablePart, Retain
<1>4. /\ job'[n].state = "STARTING" /\ Slot(job', n) = <<l, k>> /\ job'[n].created = now
      /\ \A i \in Created : job'[i] = job[i]
  BY <1>1, <1>2, <1>3 DEF NoJob, Slot
<1>5. DOMAIN entries = Lessons \X Keys /\ <<l, k>> \in Lessons \X Keys
  BY <1>3 DEF Expire
<1>6. Books(job, entries, kept)
  BY <1>3, PruneBooks DEF TableInv
<1>7. /\ replay'[<<l, k>>] = [job |-> n, expires |-> Never]
      /\ \A lk \in Lessons \X Keys : lk # <<l, k>> => replay'[lk] = entries[lk]
  BY <1>1, <1>5
<1>8. \A i \in Created : Slot(job, i) = <<l, k>> =>
         /\ job[i].state = "FINISHED" /\ now >= job[i].finished + Retention
         /\ i \notin kept
  <2>1. \A i \in Created : i # 0
    BY CreatedSlot DEF IInv
  <2> QED  BY <1>1, <1>6, <2>1 DEF Books, NoEntry
<1>9. Books(job, replay, retained)'
  <2>1. ASSUME NEW lk \in Lessons \X Keys, replay'[lk] # NoEntry
        PROVE  /\ replay'[lk].job \in Created'
               /\ Slot(job', replay'[lk].job) = lk
               /\ replay'[lk].expires =
                     IF job'[replay'[lk].job].state = "FINISHED"
                     THEN job'[replay'[lk].job].finished + Retention ELSE Never
    <3>1. CASE lk = <<l, k>>
      BY <1>2, <1>4, <1>7, <3>1
    <3>2. CASE lk # <<l, k>>
      BY <1>2, <1>4, <1>6, <1>7, <2>1, <3>2 DEF Books, Slot
    <3> QED  BY <3>1, <3>2
  <2>2. ASSUME NEW i \in retained' PROVE replay'[Slot(job', i)].job = i
    <3>1. CASE i = n
      BY <1>4, <1>7, <3>1
    <3>2. CASE i # n
      BY <1>1, <1>3, <1>4, <1>6, <1>7, <1>8, <3>2 DEF Books, Slot
    <3> QED  BY <3>1, <3>2
  <2>3. \A i \in Created' : job'[i].state = "FINISHED" => job'[i].finished <= now'
    BY <1>1, <1>2, <1>4, <1>6 DEF Books
  <2>4. ASSUME NEW i \in Created', replay'[Slot(job', i)].job # i
        PROVE  job'[i].state = "FINISHED" /\ now' >= job'[i].finished + Retention
    <3>1. i \in Created /\ Slot(job', i) = Slot(job, i) /\ job'[i] = job[i]
      BY <1>2, <1>4, <1>7, <2>4 DEF Slot
    <3>2. CASE Slot(job, i) = <<l, k>>
      BY <1>1, <1>8, <3>1, <3>2
    <3>3. CASE Slot(job, i) # <<l, k>>
      <4>1. entries[Slot(job, i)].job # i
        BY <1>3, <1>7, <2>4, <3>1, <3>3
      <4> QED  BY <1>1, <1>6, <3>1, <4>1 DEF Books
    <3> QED  BY <3>2, <3>3
  <2> QED  BY <2>1, <2>2, <2>3, <2>4 DEF Books, Slot
<1>10. OneByOne(job)'
  <2> SUFFICES ASSUME NEW i \in Created', NEW m \in Created', i < m,
                      Slot(job', i) = Slot(job', m)
               PROVE  /\ job'[i].state = "FINISHED"
                      /\ job'[m].created >= job'[i].finished + Retention
    BY DEF OneByOne, Slot
  <2>1. i \in Created /\ Slot(job', i) = Slot(job, i) /\ job'[i] = job[i]
    BY <1>2, <1>4 DEF Slot
  <2>2. CASE m = n
    BY <1>4, <1>8, <2>1, <2>2
  <2>3. CASE m # n
    BY <1>2, <1>4, <2>1, <2>3 DEF TableInv, OneByOne, Slot
  <2> QED  BY <2>2, <2>3
<1>11. RetentionBound'
  <2> DEFINE left == {i \in kept : job[i].state = "FINISHED"}
  <2>1. Cardinality(left) <= MaxTerminal \/ \A i \in left : job[i].readers > 0
    <3>1. retained \subseteq JobIds
      BY <1>2, <1>3
    <3> QED  BY <1>3, <3>1, KeptBound
  <2>2. {j \in retained : Finished(j)}' = left
    BY <1>1, <1>2, <1>3, <1>4 DEF Finished
  <2>3. \A i \in left : job'[i].readers = job[i].readers
    BY <1>3, <1>4
  <2>4. \/ Cardinality({j \in retained : Finished(j)}') <= MaxTerminal
        \/ \A i \in {j \in retained : Finished(j)}' : job'[i].readers > 0
    <3> HIDE DEF left
    <3> QED  BY <2>1, <2>2, <2>3
  <2>5. \A j \in Created' : ~Finished(j)' => j \in retained'
    BY DEF EndInv
  <2> QED  BY <2>4, <2>5 DEF RetentionBound
<1> QED  BY <1>9, <1>10, <1>11 DEF TableInv

(* The stream handlers count readers and waiters, and prune.                *)
LEMMA HandlerTables ==
    ASSUME IInv, IInv', EndInv', StreamInv, TableInv, NEW q \in Readers,
           \/ \E j \in JobIds, after \in 0..(OutputLimit + 3) : Attach(q, j, after)
           \/ Stream(q) \/ KeepsAlive(q) \/ Disconnects(q)
    PROVE  TableInv'
<1>1. /\ UNCHANGED <<issued, now>> /\ Alike(job, job')
      /\ \A i \in Created : i \in JobIds /\ job[i] \in JobRecords
  BY StreamShares, CreatedJob DEF IInv, Alike
<1>2. job \in [JobIds -> JobRecords] /\ job' \in [JobIds -> JobRecords]
  BY DEF IInv, JobPart
<1>3. ASSUME NEW j \in JobIds, NEW after, Attach(q, j, after)
      PROVE  TableInv'
  <2>1. Prune(job, replay) /\ job' = [job EXCEPT ![j].readers = @ + 1]
    BY <1>3 DEF Attach
  <2>2. \A i \in Created : job[i].readers > 0 => job'[i].readers > 0
    BY <1>1, <1>2, <2>1 DEF JobRecords
  <2> QED  BY <1>1, <1>2, <2>1, <2>2, PruneTables
<1>4. ASSUME NEW x, NEW j, job' = [job EXCEPT ![j].waiters = x]
      PROVE  \A i \in Created : job'[i].readers = job[i].readers
  BY <1>1, <1>2, <1>4 DEF JobRecords
<1>5. CASE Polls(q) \/ Asks(q)
  <2>1. Prune(job, replay)
    BY <1>5 DEF Polls, Asks
  <2> PICK x, j : x = job[j].waiters \cup {q} /\ j = sse[q].job
    OBVIOUS
  <2>2. UNCHANGED job \/ job' = [job EXCEPT ![j].waiters = x]
    BY <1>5 DEF Polls, Asks
  <2>3. \A i \in Created : job'[i].readers = job[i].readers
    BY <1>4, <2>2
  <2> QED  BY <1>1, <1>2, <2>1, <2>3, PruneTables
<1>6. CASE Wakes(q) \/ KeepsAlive(q) \/ Disconnects(q)
  <2> PICK x, j : x = job[j].waiters \ {q} /\ j = sse[q].job
    OBVIOUS
  <2>1. UNCHANGED job \/ job' = [job EXCEPT ![j].waiters = x]
    BY <1>6 DEF Wakes, KeepsAlive, Disconnects, LeaveWait
  <2>2. UNCHANGED <<retained, replay>>
    BY <1>6 DEF Wakes, KeepsAlive, Disconnects, LeaveWait, service
  <2>3. \A i \in Created : job'[i].readers = job[i].readers
    BY <1>4, <2>1
  <2> QED  BY <1>1, <2>2, <2>3, QuietTables
<1>7. CASE Detaches(q)
  <2>1. CASE sse[q].lease
    BY <1>1, <1>2, <1>7, <2>1, PruneTables DEF Detaches
  <2>2. CASE ~sse[q].lease
    <3>1. UNCHANGED <<job, retained, replay>>
      BY <1>7, <2>2 DEF Detaches
    <3> QED  BY <1>1, <3>1, QuietTables
  <2> QED  BY <2>1, <2>2
<1> QED  BY <1>3, <1>5, <1>6, <1>7 DEF Stream

LEMMA InitTables == Init => TableInv
<1> SUFFICES ASSUME Init PROVE TableInv
  OBVIOUS
<1>1. Created = {} /\ retained = {} /\ \A lk \in Lessons \X Keys : replay[lk] = NoEntry
  BY DEF Init, Created
<1>2. RetentionBound
  <2>1. {j \in retained : Finished(j)} = {}
    BY <1>1
  <2> QED  BY <1>1, <2>1 DEF RetentionBound
<1> QED  BY <1>1, <1>2 DEF TableInv, Books, OneByOne

LEMMA NextTables ==
    IInv /\ EndInv /\ StreamInv /\ TableInv /\ [Next]_vars => TableInv'
<1> SUFFICES ASSUME IInv, EndInv, StreamInv, TableInv, [Next]_vars PROVE TableInv'
  OBVIOUS
<1>0. IInv' /\ EndInv'
  BY NextInv, NextEnds
<1>1. ASSUME JobsMove, NoneFinishes, UNCHANGED <<retained, replay>>, now' \in {now, now + 1}
      PROVE  TableInv'
  <2>1. UNCHANGED issued /\ Alike(job, job') /\ \A i \in Created : job'[i].readers = job[i].readers
    BY <1>1 DEF JobsMove, Moves, Alike, NoneFinishes
  <2> QED  BY <1>1, <2>1, QuietTables
<1>2. CASE UNCHANGED vars
  <2>1. UNCHANGED <<job, issued, retained, replay, now>>
    BY <1>2 DEF vars, service, rest
  <2> QED  BY <2>1, QuietTables DEF Alike
<1>3. ASSUME TableStep, JobsMove, UNCHANGED now
      PROVE  TableInv'
  <2>1. CASE NoneFinishes /\ UNCHANGED <<retained, replay>>
    BY <1>1, <1>3, <2>1
  <2>2. CASE Prune(job, replay) /\ UNCHANGED job
    <3>1. job \in [JobIds -> JobRecords] /\ UNCHANGED issued
      BY <1>3 DEF IInv, JobPart, JobsMove
    <3> QED  BY <1>0, <1>3, <2>2, <3>1, PruneTables DEF Alike
  <2>3. CASE \E j \in Created, r \in JobRecords : Settle(j, r) /\ Finishable(r)
    BY <1>0, <1>3, <2>3, SettleTables
  <2> QED  BY <1>3, <2>1, <2>2, <2>3 DEF TableStep
<1>4. ASSUME \/ Sweep
             \/ \E j \in JobIds : \/ Cancel(j) \/ CancelKill(j)
                                  \/ Environment(j) \/ NoticeExit(j)
             \/ \E j \in JobIds, outcome \in {"recorded", "failed"} : Notify(j, outcome)
             \/ ShutdownBegins \/ Shutdown
      PROVE  TableInv'
  <2>1. UNCHANGED now
    BY <1>4 DEF Sweep, Cancel, CancelKill, Environment, LeaderExits, LeaderCloses, Writes,
       Forks, KidExits, NoticeExit, Process, Notify, ShutdownBegins, Shutdown, ShutdownKills,
       ShutdownJoins, ShutdownEnds, rest
  <2> QED  BY <1>3, <1>4, <2>1, OtherTables, OtherMoves
<1>5. ASSUME NEW j \in JobIds, Drive(j) PROVE TableInv'
  <2>1. UNCHANGED now
    BY <1>5 DEF Drive, DriveStarts, Spawns, SpawnFails, Adopts, KillsNow, WallTimeout,
       TimeoutKills, Reaps, SweepsGroup, Settles, JoinsReaders, rest
  <2> QED  BY <1>3, <1>5, <2>1, DriveTables, DriveMoves
<1>6. ASSUME NEW j \in JobIds, NEW s \in Streams, ReadStream(j, s) PROVE TableInv'
  <2>1. UNCHANGED now
    BY <1>6 DEF ReadStream, ReadsChunk, Overflows, ReadFails, ReaderKills, ReadsEof, Closes, rest
  <2> QED  BY <1>3, <1>6, <2>1, ReaderTables, ReaderMoves
<1>7. CASE Tick
  <2>1. UNCHANGED <<job, retained, replay>> /\ now' = now + 1
    BY <1>7 DEF Tick, service
  <2>2. JobsMove /\ NoneFinishes
    BY <1>7, <2>1, OtherMoves DEF NoneFinishes
  <2> QED  BY <1>1, <2>1, <2>2
<1>8. CASE Next
  BY <1>0, <1>4, <1>5, <1>6, <1>7, <1>8, AdmitTables, HandlerTables DEF Next
<1> QED  BY <1>2, <1>8

(* In every reachable state: the slots are counted right, a lesson and key  *)
(* are run again only when the retention time has passed and a repeated     *)
(* start is answered with its own job, and no more finished jobs are kept   *)
(* than the bound and the leases allow.                                     *)
THEOREM TablesAreSound == Spec => []TablesSound
<1>1. IInv /\ TableInv => TablesSound
  <2> SUFFICES ASSUME IInv, TableInv PROVE TablesSound
    OBVIOUS
  <2>1. ASSUME NEW i \in Created, NEW k \in Created, i < k,
               job[i].lesson = job[k].lesson, job[i].key = job[k].key
        PROVE  Finished(i) /\ job[k].created >= job[i].finished + Retention
    BY <2>1 DEF TableInv, OneByOne, Slot, Finished
  <2>2. ASSUME NEW j \in Retain(job, retained)
        PROVE  Replays(job[j].lesson, job[j].key, job[j].rev, j)
    <3> PICK kept : kept = Retain(job, retained)
      OBVIOUS
    <3> PICK entry : entry = Expire(replay, kept)[Slot(job, j)]
      OBVIOUS
    <3>1. /\ kept \in SUBSET retained /\ retained \in SUBSET Created /\ j \in kept
          /\ DOMAIN replay = Lessons \X Keys
          /\ \A i \in Created : Slot(job, i) \in Lessons \X Keys /\ i # 0
      BY CreatedSlot DEF IInv, TablePart, Retain
    <3>2. Books(job, Expire(replay, kept), kept)
      BY <3>1, PruneBooks DEF TableInv
    <3>3. entry.job = j
      BY <3>1, <3>2 DEF Books
    <3>4. entry # NoEntry
      BY <3>1, <3>3 DEF NoEntry
    <3> QED  BY <3>1, <3>3, <3>4 DEF Replays, Slot
  <2> QED  BY <2>1, <2>2 DEF TablesSound, TableInv, OneRunPerKey, IInv, JobPart
<1>2. Spec => [](EndInv /\ StreamInv /\ TableInv)
  <2>1. EndInv /\ StreamInv /\ TableInv /\ IInv /\ [Next]_vars
           => (EndInv /\ StreamInv /\ TableInv)'
    BY NextEnds, NextStreams, NextTables
  <2>2. Init => EndInv /\ StreamInv /\ TableInv
    BY InitEnds, InitStreams, InitTables
  <2> QED  BY <2>1, <2>2, Invariance, PTL DEF Spec
<1> QED  BY <1>1, <1>2, Invariance, PTL
================================================================================
