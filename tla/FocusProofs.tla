------------------------------ MODULE FocusProofs ------------------------------
(***************************************************************************)
(* Proofs about FocusTimer and FocusDrawer for every value of their        *)
(* constants.                                                              *)
(*                                                                         *)
(* Of the timer, the inductive invariant IInv adds RunShape to the         *)
(* properties the runs check.  RunShape says that the arithmetic of        *)
(* _elapsed_seconds never meets its clamps: the pauses fit between the     *)
(* start and the moment the work stopped, and a held run has room left.    *)
(* With it, what a finish credits is Worked cut at the cap, and the dates  *)
(* follow.                                                                 *)
(*                                                                         *)
(* Of the drawer, it does to the timer only what FocusTimer allows         *)
(* (DrawerImplements), and TabsHonest.  Opened is the set of the tokens    *)
(* whose start no longer waits for the server.  Everything anyone knows of *)
(* a token comes after that: a view, a session, an answer and a request    *)
(* other than the start name only opened tokens (KnownPart), and each      *)
(* start is waiting in one place (OncePart), so that an ended timer never  *)
(* comes back.  AnswerPart says what is true of the answers under way,     *)
(* SightPart what a tab has seen and will see, since it was told.          *)
(***************************************************************************)
EXTENDS FocusDrawer, SequenceTheorems, TLAPS

-----------------------------------------------------------------------------
(* The timer.                                                               *)


Stopped(r) == IF Paused(r) THEN r.pausedAt ELSE now
Worked(r)  == Stopped(r) - r.started - r.pausedSeconds

RunShape ==
    run # NoRun =>
        /\ run.token \in Tokens
        /\ run.length = 0 \/ run.length \in MinTarget..MaxTarget
        /\ Worked(run) >= 0
        /\ Stopped(run) <= now
        /\ Paused(run) => Worked(run) < Cap(run)

IInv == TypeOK /\ NoStuckRun /\ RunShape /\ TargetsExist /\ LedgerMatches /\ SpansDisjoint

-----------------------------------------------------------------------------
(* The arithmetic of one run.                                               *)

(* A run that start_run accepted is full after a positive number of seconds, *)
(* never more than MAX_SECONDS.                                             *)
LEMMA CapBounds ==
    ASSUME NEW r \in Runs, r.length = 0 \/ r.length \in MinTarget..MaxTarget
    PROVE  Cap(r) \in Nat \ {0} /\ Cap(r) <= MaxSeconds
  BY FocusAssumption DEF Cap, Runs

(* Under RunShape no clamp of the code is met: the credit is the work done,  *)
(* cut at the cap, and a full run is dated when it became full.             *)
LEMMA Arithmetic ==
    ASSUME TypeOK, RunShape, run # NoRun
    PROVE  /\ Credited(run) = Least(Worked(run), Cap(run))
           /\ EndedAt(run) = IF Worked(run) >= Cap(run)
                             THEN run.started + Cap(run) + run.pausedSeconds
                             ELSE Stopped(run)
           /\ (Elapsed(run) >= Cap(run)) <=> (Worked(run) >= Cap(run))
  <1> DEFINE c == Cap(run)
  <1>1. run \in Runs /\ now \in Nat
    BY DEF TypeOK
  <1>2. c \in Nat \ {0} /\ c <= MaxSeconds
    BY <1>1, CapBounds DEF RunShape
  <1>3. /\ run.started \in Nat /\ run.pausedSeconds \in Nat
        /\ run.pausedAt \in Nat \cup {NotPaused} /\ MaxSeconds \in Nat
    BY <1>1, FocusAssumption DEF Runs
  <1>4. Elapsed(run) = Least(Worked(run), MaxSeconds) /\ Worked(run) \in Nat
    BY <1>1, <1>3 DEF RunShape, Elapsed, Worked, Stopped, Least, Greatest, Paused, NotPaused
  <1>5. (Elapsed(run) >= c) <=> (Worked(run) >= c)
    BY <1>2, <1>3, <1>4 DEF Least
  <1>6. Credited(run) = Least(Worked(run), c)
    BY <1>2, <1>3, <1>4 DEF Credited, Least
  <1>7. CASE Worked(run) >= c
    <2>1. EndedAt(run) = Least(run.started + c + run.pausedSeconds, Stopped(run))
      BY <1>5, <1>7 DEF EndedAt, CappedEnd, Stopped
    <2>2. run.started + c + run.pausedSeconds <= Stopped(run)
      BY <1>1, <1>2, <1>3, <1>7 DEF Worked, Stopped, Paused, NotPaused
    <2> QED
      BY <1>1, <1>2, <1>3, <1>5, <1>6, <1>7, <2>1, <2>2
      DEF Least, Stopped, Paused, NotPaused
  <1>8. CASE ~(Worked(run) >= c)
    BY <1>5, <1>6, <1>8 DEF EndedAt, Stopped
  <1> QED
    BY <1>7, <1>8

(* What a finish writes: the credit fits between the stamps.                *)
LEMMA FinishedSpan ==
    ASSUME TypeOK, RunShape, run # NoRun
    PROVE  /\ Credited(run) \in Nat /\ EndedAt(run) \in Nat
           /\ Credited(run) <= EndedAt(run) - run.started
           /\ EndedAt(run) <= now
  <1> DEFINE c == Cap(run)
  <1>1. run \in Runs /\ now \in Nat
    BY DEF TypeOK
  <1>2. c \in Nat \ {0}
    BY <1>1, CapBounds DEF RunShape
  <1>3. /\ run.started \in Nat /\ run.pausedSeconds \in Nat
        /\ Stopped(run) \in Nat /\ Stopped(run) <= now /\ Worked(run) \in Nat
        /\ Worked(run) = Stopped(run) - run.started - run.pausedSeconds
    BY <1>1 DEF Runs, RunShape, Worked, Stopped, Paused, NotPaused
  <1> QED
    BY <1>1, <1>2, <1>3, Arithmetic DEF Least

-----------------------------------------------------------------------------
(* The invariant is preserved by every step.                                *)

(* What Append does to a sequence over S.                                   *)
LEMMA AppendFacts ==
    ASSUME NEW S, NEW s \in Seq(S), NEW e \in S
    PROVE  /\ Append(s, e) \in Seq(S)
           /\ Len(Append(s, e)) = Len(s) + 1 /\ Len(s) \in Nat
           /\ DOMAIN s = 1..Len(s) /\ DOMAIN Append(s, e) = 1..(Len(s) + 1)
           /\ \A i \in 1..Len(s) : Append(s, e)[i] = s[i] /\ s[i] \in S
           /\ Append(s, e)[Len(s) + 1] = e
  OBVIOUS

(* Detaching a habit from the sessions keeps their other columns.           *)
LEMMA DetachedRows ==
    ASSUME NEW s \in Seq(SessionRows), NEW x \in Targets
    PROVE  LET d == [i \in DOMAIN s |-> Detached(s[i], x)]
           IN  /\ d \in Seq(SessionRows) /\ DOMAIN d = DOMAIN s /\ Len(d) = Len(s)
               /\ \A i \in DOMAIN s :
                     /\ d[i].token = s[i].token /\ d[i].seconds = s[i].seconds
                     /\ d[i].started = s[i].started /\ d[i].ended = s[i].ended
                     /\ d[i].target = IF s[i].target = x THEN None ELSE s[i].target
                     /\ s[i] \in SessionRows
  <1> DEFINE d == [i \in DOMAIN s |-> Detached(s[i], x)]
  <1>1. DOMAIN s = 1..Len(s) /\ Len(s) \in Nat
    OBVIOUS
  <1>2. \A i \in DOMAIN s : s[i] \in SessionRows
    OBVIOUS
  <1>3. ASSUME NEW r \in SessionRows
        PROVE  /\ Detached(r, x) \in SessionRows
               /\ Detached(r, x).token = r.token /\ Detached(r, x).seconds = r.seconds
               /\ Detached(r, x).started = r.started /\ Detached(r, x).ended = r.ended
               /\ Detached(r, x).target = IF r.target = x THEN None ELSE r.target
    BY DEF Detached, SessionRows
  <1>4. d \in [1..Len(s) -> SessionRows]
    BY <1>1, <1>2, <1>3
  <1>5. d \in Seq(SessionRows) /\ Len(d) = Len(s)
    BY <1>1, <1>4, SeqDef
  <1> QED
    BY <1>2, <1>3, <1>5

(* The empty tables satisfy the invariant.                                  *)
LEMMA Initially == Init => IInv
  <1> SUFFICES ASSUME Init PROVE IInv
    OBVIOUS
  <1>1. TypeOK
    BY DEF Init, TypeOK, Runs, NoRun, NotPaused
  <1>2. NoStuckRun /\ RunShape /\ TargetsExist
    BY DEF Init, NoStuckRun, RunShape, TargetsExist, NoRun
  <1>3. LedgerMatches /\ SpansDisjoint
    BY DEF Init, LedgerMatches, SpansDisjoint
  <1> QED
    BY <1>1, <1>2, <1>3 DEF IInv

(* Actions on the row of focus_runs alone.                                  *)
LEMMA StartInv ==
    ASSUME IInv, NEW t \in Tokens, NEW n \in Lengths, NEW x \in Targets \cup {None},
           Start(t, n, x)
    PROVE  IInv'
  <1> USE DEF IInv, Start
  <1>1. /\ run' \in Runs /\ run'.token = t /\ run'.length = n /\ run'.started = now
        /\ run'.pausedAt = NotPaused /\ run'.pausedSeconds = 0 /\ run'.target = x
    BY FocusAssumption DEF TypeOK, Runs, NoRun, NotPaused
  <1>2. TypeOK'
    BY <1>1 DEF TypeOK
  <1>3. NoStuckRun'
    BY <1>1 DEF NoStuckRun, Spent
  <1>4. RunShape'
    BY <1>1 DEF RunShape, TypeOK, Worked, Stopped, Paused, NotPaused
  <1>5. TargetsExist'
    BY <1>1 DEF TargetsExist
  <1>6. LedgerMatches'
    BY DEF LedgerMatches
  <1>7. SpansDisjoint'
    BY <1>1 DEF SpansDisjoint
  <1> QED
    BY <1>2, <1>3, <1>4, <1>5, <1>6, <1>7

(* A pause keeps the work done, which is below the cap.                     *)
LEMMA PauseInv ==
    ASSUME IInv, NEW t \in Tokens, Pause(t)
    PROVE  IInv'
  <1> USE DEF IInv, Pause
  <1>1. /\ run' \in Runs /\ run'.token = run.token /\ run'.length = run.length
        /\ run'.started = run.started /\ run'.pausedAt = now
        /\ run'.pausedSeconds = run.pausedSeconds /\ run'.target = run.target
    BY DEF TypeOK, Runs
  <1>2. TypeOK'
    BY <1>1 DEF TypeOK
  <1>3. NoStuckRun'
    BY <1>1 DEF NoStuckRun, Spent
  <1>4. Cap(run') = Cap(run) /\ Paused(run')
    BY <1>1 DEF Cap, Paused, NotPaused, TypeOK
  <1>5. Stopped(run)' = now /\ Stopped(run) = now
    BY <1>1, <1>4 DEF Stopped
  <1>6. Worked(run)' = Worked(run)
    BY <1>1, <1>5 DEF Worked
  <1>7. Worked(run) < Cap(run)
    <2>1. ~(Worked(run) >= Cap(run))
      <3>1. Elapsed(run) \in Int /\ Cap(run) \in Int
        BY FocusAssumption
        DEF Elapsed, Cap, TypeOK, Runs, Greatest, Least, Paused, NotPaused
      <3> QED
        BY <3>1, Arithmetic
    <2>2. Worked(run) \in Int /\ Cap(run) \in Int
      BY <1>5, FocusAssumption DEF Worked, Cap, TypeOK, Runs
    <2> QED
      BY <2>1, <2>2
  <1>8. RunShape'
    BY <1>1, <1>4, <1>5, <1>6, <1>7 DEF RunShape, TypeOK
  <1>9. TargetsExist'
    BY <1>1 DEF TargetsExist
  <1>10. LedgerMatches'
    BY DEF LedgerMatches
  <1>11. SpansDisjoint'
    BY <1>1 DEF SpansDisjoint
  <1> QED
    BY <1>2, <1>3, <1>8, <1>9, <1>10, <1>11

(* The row a resume writes.                                                 *)
LEMMA ResumedRow ==
    ASSUME NEW r \in Runs, NEW g \in Nat
    PROVE  LET u == [r EXCEPT !.pausedAt = NotPaused, !.pausedSeconds = @ + g]
           IN  /\ u \in Runs /\ u.token = r.token /\ u.length = r.length
               /\ u.started = r.started /\ u.pausedAt = NotPaused
               /\ u.pausedSeconds = r.pausedSeconds + g /\ u.target = r.target
  <1> DEFINE p == r.pausedSeconds + g
  <1>1. p \in Nat
    BY DEF Runs
  <1>2. NotPaused \in Nat \cup {NotPaused}
    OBVIOUS
  <1> HIDE DEF p
  <1>3. [r EXCEPT !.pausedAt = NotPaused, !.pausedSeconds = p] \in Runs
    BY <1>1, <1>2 DEF Runs
  <1> QED
    BY <1>3 DEF Runs, p

(* A resume folds the gap in, so the work done stays what it was.           *)
LEMMA ResumeInv ==
    ASSUME IInv, NEW t \in Tokens, Resume(t)
    PROVE  /\ IInv'
           /\ Worked(run)' = Worked(run) /\ Stopped(run)' = now
           /\ Cap(run)' = Cap(run) /\ ~Paused(run')
  <1> USE DEF IInv, Resume
  <1>1. run.pausedAt \in Nat /\ run.pausedAt <= now /\ now \in Nat /\ run \in Runs
    BY DEF TypeOK, Runs, Paused, RunShape, Stopped
  <1>2. /\ run' \in Runs /\ run'.token = run.token /\ run'.length = run.length
        /\ run'.started = run.started /\ run'.pausedAt = NotPaused
        /\ run'.pausedSeconds = run.pausedSeconds + (now - run.pausedAt)
        /\ run'.target = run.target
    <2> DEFINE g == Greatest(0, now - run.pausedAt)
    <2>1. g = now - run.pausedAt /\ g \in Nat
      BY <1>1 DEF Greatest
    <2>2. run' = [run EXCEPT !.pausedAt = NotPaused, !.pausedSeconds = @ + g]
      OBVIOUS
    <2>3. g \in Nat
      BY <2>1
    <2> HIDE DEF g
    <2>4. LET u == [run EXCEPT !.pausedAt = NotPaused, !.pausedSeconds = @ + g]
          IN  /\ u \in Runs /\ u.token = run.token /\ u.length = run.length
              /\ u.started = run.started /\ u.pausedAt = NotPaused
              /\ u.pausedSeconds = run.pausedSeconds + g /\ u.target = run.target
      BY <1>1, <2>3, ResumedRow
    <2> QED
      BY <2>1, <2>2, <2>4
  <1>3. TypeOK'
    BY <1>2 DEF TypeOK
  <1>4. NoStuckRun'
    BY <1>2 DEF NoStuckRun, Spent
  <1>5. Cap(run)' = Cap(run) /\ ~Paused(run') /\ Stopped(run)' = now
    BY <1>2 DEF Cap, Paused, Stopped
  <1>6. Worked(run)' = Worked(run)
    BY <1>1, <1>2, <1>5 DEF Worked, Stopped, Runs
  <1>7. RunShape'
    BY <1>1, <1>2, <1>5, <1>6 DEF RunShape
  <1>8. TargetsExist'
    BY <1>2 DEF TargetsExist
  <1>9. LedgerMatches'
    BY DEF LedgerMatches
  <1>10. SpansDisjoint'
    BY <1>2 DEF SpansDisjoint
  <1> QED
    BY <1>3, <1>4, <1>5, <1>6, <1>7, <1>8, <1>9, <1>10

(* A discard empties the slot.                                              *)
LEMMA DiscardInv ==
    ASSUME IInv, NEW t \in Tokens, Discard(t)
    PROVE  IInv'
  <1> USE DEF IInv, Discard
  <1>1. TypeOK'
    BY DEF TypeOK, Runs, NoRun, NotPaused
  <1>2. NoStuckRun' /\ RunShape' /\ TargetsExist'
    BY DEF NoStuckRun, RunShape, TargetsExist, NoRun
  <1>3. LedgerMatches' /\ SpansDisjoint'
    BY DEF LedgerMatches, SpansDisjoint
  <1> QED
    BY <1>1, <1>2, <1>3

(* A finish appends the span and its event together.                        *)
LEMMA FinishInv ==
    ASSUME IInv, NEW t \in Tokens, Finish(t)
    PROVE  IInv'
  <1> USE DEF IInv
  <1> DEFINE row == [token |-> t, seconds |-> Credited(run), started |-> run.started,
                     ended |-> EndedAt(run), target |-> run.target]
             event == [session |-> Len(sessions'), seconds |-> Credited(run),
                       target |-> run.target]
             n == Len(sessions) + 1
  <1>1. /\ run # NoRun /\ run.token = t /\ t \notin Spent /\ run' = NoRun
        /\ sessions' = Append(sessions, row) /\ ledger' = Append(ledger, event)
        /\ UNCHANGED <<status, now>>
    BY DEF Finish
  <1>2. run \in Runs /\ sessions \in Seq(SessionRows) /\ ledger \in Seq(LedgerRows)
    BY DEF TypeOK
  <1>3. /\ Credited(run) \in Nat /\ EndedAt(run) \in Nat /\ run.started \in Nat
        /\ Credited(run) <= EndedAt(run) - run.started
        /\ EndedAt(run) <= now
    BY <1>1, <1>2, FinishedSpan DEF Runs
  <1>4. row \in SessionRows /\ run.target \in Targets \cup {None}
    BY <1>2, <1>3 DEF SessionRows, Runs
  <1>5. /\ sessions' \in Seq(SessionRows) /\ Len(sessions') = n /\ n \in Nat
        /\ DOMAIN sessions = 1..(n - 1) /\ DOMAIN sessions' = 1..n
        /\ \A i \in 1..(n - 1) : sessions'[i] = sessions[i] /\ sessions[i] \in SessionRows
        /\ sessions'[n] = row
    <2> HIDE DEF row
    <2> QED
      BY <1>1, <1>2, <1>4, AppendFacts
  <1>6. event \in LedgerRows /\ event.session = n
    BY <1>3, <1>4, <1>5 DEF LedgerRows
  <1>7. /\ ledger' \in Seq(LedgerRows) /\ Len(ledger') = n
        /\ \A i \in 1..(n - 1) : ledger'[i] = ledger[i]
        /\ ledger'[n] = event
    <2>1. Len(ledger) = n - 1
      BY <1>5 DEF LedgerMatches
    <2> HIDE DEF event
    <2> QED
      BY <1>1, <1>2, <1>5, <1>6, <2>1, AppendFacts
  <1>8. TypeOK'
    BY <1>1, <1>5, <1>7 DEF TypeOK, Runs, NoRun, NotPaused
  <1>9. NoStuckRun' /\ RunShape'
    BY <1>1 DEF NoStuckRun, RunShape
  <1>10. TargetsExist'
    <2>1. run'.target = None
      BY <1>1 DEF NoRun
    <2>2. ASSUME NEW i \in 1..n, sessions'[i].target # None
          PROVE  status'[sessions'[i].target] # "gone"
      <3>1. CASE i = n
        BY <1>1, <1>5, <2>2, <3>1 DEF TargetsExist
      <3>2. CASE i # n
        <4>1. i \in 1..(n - 1)
          BY <1>5, <3>2
        <4> QED
          BY <1>1, <1>5, <2>2, <4>1 DEF TargetsExist
      <3> QED
        BY <3>1, <3>2
    <2> QED
      BY <1>5, <2>1, <2>2 DEF TargetsExist
  <1>11. LedgerMatches'
    <2>1. ASSUME NEW i \in 1..n
          PROVE  /\ ledger'[i].session = i /\ ledger'[i].seconds = sessions'[i].seconds
                 /\ \/ sessions'[i].target = ledger'[i].target
                    \/ sessions'[i].target = None /\ status'[ledger'[i].target] = "gone"
      <3>1. CASE i = n
        BY <1>5, <1>6, <1>7, <3>1
      <3>2. CASE i # n
        <4>1. i \in 1..(n - 1)
          BY <1>5, <3>2
        <4> QED
          <5>1. sessions'[i] = sessions[i] /\ ledger'[i] = ledger[i] /\ i \in DOMAIN sessions
            BY <1>5, <1>7, <4>1
          <5>2. status' = status
            BY <1>1
          <5> HIDE DEF row, event, n
          <5>3. /\ ledger[i].session = i /\ ledger[i].seconds = sessions[i].seconds
                /\ \/ sessions[i].target = ledger[i].target
                   \/ sessions[i].target = None /\ status[ledger[i].target] = "gone"
            BY <5>1 DEF LedgerMatches
          <5> QED
            BY <5>1, <5>2, <5>3
      <3> QED
        BY <3>1, <3>2
    <2> QED
      BY <1>5, <1>7, <2>1 DEF LedgerMatches
  <1>12. SpansDisjoint'
    <2>1. ASSUME NEW i \in 1..n
          PROVE  /\ sessions'[i].seconds <= sessions'[i].ended - sessions'[i].started
                 /\ sessions'[i].ended <= now'
      <3>1. CASE i = n
        BY <1>1, <1>3, <1>5, <3>1
      <3>2. CASE i # n
        <4>1. i \in 1..(n - 1)
          BY <1>5, <3>2
        <4> QED
          BY <1>1, <1>5, <4>1 DEF SpansDisjoint
      <3> QED
        BY <3>1, <3>2
    <2>2. ASSUME NEW i \in 1..n, NEW k \in 1..n, i < k
          PROVE  sessions'[i].ended <= sessions'[k].started
      <3>1. i \in 1..(n - 1) /\ sessions'[i] = sessions[i]
        BY <1>5, <2>2
      <3>2. CASE k = n
        BY <1>1, <1>5, <3>1, <3>2 DEF SpansDisjoint
      <3>3. CASE k # n
        <4>1. k \in 1..(n - 1)
          BY <1>5, <3>3
        <4> QED
          BY <1>5, <2>2, <3>1, <4>1 DEF SpansDisjoint
      <3> QED
        BY <3>2, <3>3
    <2> QED
      BY <1>1, <1>5, <2>1, <2>2 DEF SpansDisjoint
  <1> QED
    BY <1>8, <1>9, <1>10, <1>11, <1>12

(* What other services do to a target, and time.                            *)
LEMMA StatusInv ==
    ASSUME IInv, NEW x \in Targets, Retire(x) \/ Revive(x)
    PROVE  IInv'
  <1> USE DEF IInv
  <1>1. /\ UNCHANGED <<run, sessions, ledger, now>>
        /\ status' \in [Targets -> {"live", "dormant", "gone"}]
        /\ \A y \in Targets : status'[y] = "gone" <=> status[y] = "gone"
    BY DEF Retire, Revive, TypeOK
  <1>2. TypeOK' /\ NoStuckRun' /\ RunShape' /\ SpansDisjoint'
    BY <1>1 DEF TypeOK, NoStuckRun, Spent, RunShape, Worked, Stopped, SpansDisjoint
  <1>3. run \in Runs /\ \A i \in DOMAIN sessions : sessions[i] \in SessionRows
    BY DEF TypeOK
  <1>4. TargetsExist'
    BY <1>1, <1>3 DEF TargetsExist, Runs, SessionRows
  <1>5. LedgerMatches'
    <2>1. \A i \in DOMAIN sessions : ledger[i].target \in Targets \cup {None}
      <3>1. DOMAIN sessions = DOMAIN ledger
        BY DEF LedgerMatches, TypeOK
      <3>2. \A i \in DOMAIN ledger : ledger[i] \in LedgerRows
        BY DEF TypeOK
      <3> QED
        BY <3>1, <3>2 DEF LedgerRows
    <2>2. ASSUME NEW i \in DOMAIN sessions
          PROVE  \/ sessions[i].target = ledger[i].target
                 \/ sessions[i].target = None /\ status'[ledger[i].target] = "gone"
      <3>1. CASE ledger[i].target = None
        BY <1>3, <3>1, FocusAssumption DEF LedgerMatches, TargetsExist, SessionRows
      <3>2. CASE ledger[i].target \in Targets
        BY <1>1, <3>2 DEF LedgerMatches
      <3> QED
        BY <2>1, <3>1, <3>2
    <2> QED
      BY <1>1, <2>2 DEF LedgerMatches
  <1> QED
    BY <1>2, <1>4, <1>5

(* Time adds to the work of a run that is not held.                         *)
LEMMA TickInv ==
    ASSUME IInv, Tick
    PROVE  IInv'
  <1> USE DEF IInv, Tick
  <1>1. TypeOK' /\ NoStuckRun' /\ TargetsExist' /\ LedgerMatches'
    BY DEF TypeOK, NoStuckRun, Spent, TargetsExist, LedgerMatches
  <1>2. RunShape'
    <2> SUFFICES ASSUME run # NoRun
                 PROVE  /\ Worked(run)' >= 0 /\ Stopped(run)' <= now'
                        /\ Paused(run) => Worked(run)' < Cap(run)
      BY DEF RunShape, Paused, Cap
    <2>1. run \in Runs /\ now \in Nat
      BY DEF TypeOK
    <2>2. CASE Paused(run)
      BY <2>1, <2>2 DEF RunShape, Worked, Stopped, Paused, NotPaused, Runs
    <2>3. CASE ~Paused(run)
      BY <2>1, <2>3 DEF RunShape, Worked, Stopped, Paused, NotPaused, Runs
    <2> QED
      BY <2>2, <2>3
  <1>3. SpansDisjoint'
    <2>1. now \in Nat /\ \A i \in DOMAIN sessions : sessions[i].ended \in Nat
      <3>1. now \in Nat /\ \A i \in DOMAIN sessions : sessions[i] \in SessionRows
        BY DEF TypeOK
      <3> QED
        BY <3>1 DEF SessionRows
    <2> QED
      BY <2>1 DEF SpansDisjoint
  <1> QED
    BY <1>1, <1>2, <1>3

(* delete_item detaches the habit from the run and from every session.      *)
LEMMA DeleteItemInv ==
    ASSUME IInv, NEW x \in Habits, DeleteItem(x)
    PROVE  IInv'
  <1> USE DEF IInv
  <1>1. x \in Targets /\ x # None
    BY FocusAssumption
  <1>2. /\ status' = [status EXCEPT ![x] = "gone"] /\ UNCHANGED <<ledger, now>>
        /\ sessions' = [i \in DOMAIN sessions |-> Detached(sessions[i], x)]
        /\ run' = Detached(run, x)
    BY DEF DeleteItem
  <1>3. run \in Runs /\ sessions \in Seq(SessionRows)
    BY DEF TypeOK
  <1>4. /\ sessions' \in Seq(SessionRows) /\ DOMAIN sessions' = DOMAIN sessions
        /\ Len(sessions') = Len(sessions)
        /\ \A i \in DOMAIN sessions :
              /\ sessions'[i].token = sessions[i].token
              /\ sessions'[i].seconds = sessions[i].seconds
              /\ sessions'[i].started = sessions[i].started
              /\ sessions'[i].ended = sessions[i].ended
              /\ sessions'[i].target = IF sessions[i].target = x THEN None
                                       ELSE sessions[i].target
              /\ sessions[i] \in SessionRows
    BY <1>1, <1>2, <1>3, DetachedRows
  <1>5. /\ run' \in Runs /\ run'.token = run.token /\ run'.length = run.length
        /\ run'.started = run.started /\ run'.pausedAt = run.pausedAt
        /\ run'.pausedSeconds = run.pausedSeconds
        /\ run'.target = IF run.target = x THEN None ELSE run.target
    BY <1>2, <1>3 DEF Detached, Runs
  <1>6. run = NoRun <=> run' = NoRun
    <2>1. run = NoRun => run' = NoRun
      BY <1>1, <1>2 DEF NoRun, Detached
    <2>2. run # NoRun => run.token \in Tokens
      BY DEF RunShape
    <2>3. NoRun.token = None
      BY DEF NoRun
    <2> QED
      BY <1>5, <2>1, <2>2, <2>3, FocusAssumption
  <1>7. /\ \A y \in Targets \ {x} : status'[y] = status[y]
        /\ status'[x] = "gone" /\ status' \in [Targets -> {"live", "dormant", "gone"}]
    BY <1>1, <1>2 DEF TypeOK
  <1>8. TypeOK'
    BY <1>2, <1>4, <1>5, <1>7 DEF TypeOK
  <1>9. NoStuckRun'
    BY <1>4, <1>5, <1>6 DEF NoStuckRun, Spent
  <1>10. RunShape'
    <2>1. Stopped(run)' = Stopped(run) /\ Paused(run') = Paused(run)
      BY <1>2, <1>5 DEF Stopped, Paused
    <2>2. Worked(run)' = Worked(run) /\ Cap(run') = Cap(run)
      BY <1>5, <2>1 DEF Worked, Cap
    <2> QED
      BY <1>2, <1>5, <1>6, <2>1, <2>2 DEF RunShape
  <1>11. TargetsExist'
    <2>1. run'.target # None => status'[run'.target] # "gone"
      BY <1>3, <1>5, <1>7 DEF TargetsExist, Runs
    <2>2. \A i \in DOMAIN sessions :
             sessions'[i].target # None => status'[sessions'[i].target] # "gone"
      BY <1>4, <1>7 DEF TargetsExist, SessionRows
    <2> QED
      BY <1>4, <2>1, <2>2 DEF TargetsExist
  <1>12. LedgerMatches'
    <2>1. \A i \in DOMAIN sessions : ledger[i].target \in Targets \cup {None}
      <3>1. DOMAIN sessions = DOMAIN ledger
        BY DEF LedgerMatches, TypeOK
      <3>2. \A i \in DOMAIN ledger : ledger[i] \in LedgerRows
        BY DEF TypeOK
      <3> QED
        BY <3>1, <3>2 DEF LedgerRows
    <2>2. ASSUME NEW i \in DOMAIN sessions
          PROVE  \/ sessions'[i].target = ledger[i].target
                 \/ sessions'[i].target = None /\ status'[ledger[i].target] = "gone"
      <3>1. CASE ledger[i].target = None
        <4>1. sessions[i].target = None
          BY <1>4, <3>1, FocusAssumption DEF LedgerMatches, TargetsExist, SessionRows
        <4> QED
          BY <1>1, <1>4, <3>1, <4>1
      <3>2. CASE ledger[i].target = x
        BY <1>4, <1>7, <3>2 DEF LedgerMatches
      <3>3. CASE ledger[i].target \in Targets \ {x}
        BY <1>1, <1>4, <1>7, <3>3 DEF LedgerMatches
      <3> QED
        BY <2>1, <3>1, <3>2, <3>3
    <2> QED
      BY <1>2, <1>4, <2>2 DEF LedgerMatches
  <1>13. SpansDisjoint'
    <2> HIDE DEF IInv
    <2>1. SpansDisjoint
      BY DEF IInv
    <2> QED
      BY <1>2, <1>4, <1>5, <1>6, <2>1 DEF SpansDisjoint
  <1> QED
    BY <1>8, <1>9, <1>10, <1>11, <1>12, <1>13

(* Every step preserves the invariant.                                      *)
LEMMA StepInv ==
    IInv /\ [Next]_vars => IInv'
  <1> SUFFICES ASSUME IInv, [Next]_vars PROVE IInv'
    OBVIOUS
  <1>1. ASSUME NEW t \in Tokens, Request(t) PROVE IInv'
    <2>1. ASSUME NEW n \in Lengths, NEW x \in Targets \cup {None}, Start(t, n, x)
          PROVE  IInv'
      BY <2>1, StartInv
    <2>2. CASE Pause(t)
      BY <2>2, PauseInv
    <2>3. CASE Resume(t)
      BY <2>3, ResumeInv
    <2>4. CASE Discard(t)
      BY <2>4, DiscardInv
    <2>5. CASE Finish(t)
      BY <2>5, FinishInv
    <2> QED
      BY <1>1, <2>1, <2>2, <2>3, <2>4, <2>5 DEF Request
  <1>2. ASSUME NEW x \in Targets, Retire(x) \/ Revive(x) PROVE IInv'
    BY <1>2, StatusInv
  <1>3. ASSUME NEW x \in Habits, DeleteItem(x) PROVE IInv'
    BY <1>3, DeleteItemInv
  <1>4. CASE Tick
    BY <1>4, TickInv
  <1>5. CASE UNCHANGED vars
    BY <1>5 DEF vars, IInv, TypeOK, NoStuckRun, Spent, RunShape, Worked, Stopped,
                TargetsExist, LedgerMatches, SpansDisjoint
  <1> QED
    BY <1>1, <1>2, <1>3, <1>4, <1>5 DEF Next

(* What every reachable state of the timer satisfies, for any set of        *)
(* tokens, any targets and any limits.                                      *)
THEOREM Invariance == Spec => []IInv
  BY Initially, StepInv, PTL DEF Spec

(* A timer in the slot can always be recorded under its token: the replay   *)
(* guard of start_run and the deletion in finish_run exclude each other.    *)
THEOREM NeverStuck == Spec => []NoStuckRun
  <1>1. IInv => NoStuckRun
    BY DEF IInv
  <1> QED
    BY <1>1, Invariance, PTL

(* The session table and the event ledger agree, whatever becomes of the    *)
(* targets; and no row names a habit that delete_item removed.              *)
THEOREM TablesAgree == Spec => [](TypeOK /\ LedgerMatches /\ TargetsExist)
  <1>1. IInv => TypeOK /\ LedgerMatches /\ TargetsExist
    BY DEF IInv
  <1> QED
    BY <1>1, Invariance, PTL

(* Recorded time is real time: a session is no longer than the wall time    *)
(* between its stamps and no two overlap.                                   *)
THEOREM TimeIsReal == Spec => []SpansDisjoint
  <1>1. IInv => SpansDisjoint
    BY DEF IInv
  <1> QED
    BY <1>1, Invariance, PTL

(* However a run ends, the session carries the target the run was started   *)
(* with; only the deletion of that habit takes it away.                     *)
THEOREM Attribution == Spec => AttributionKept
  <1> DEFINE Keeps ==
        /\ run'.token = run.token /\ run'.target # run.target
              => status'[run.target] = "gone"
        /\ Len(sessions') > Len(sessions)
              => sessions'[Len(sessions')].target = run.target
  <1>1. ASSUME IInv, [Next]_vars PROVE [Keeps]_vars
    <2> USE DEF IInv
    <2>1. /\ run \in Runs /\ sessions \in Seq(SessionRows) /\ Len(sessions) \in Nat
          /\ run # NoRun => run.token \in Tokens
          /\ NoRun.token = None /\ NoRun.target = None /\ None \notin Tokens
      BY <1>1, FocusAssumption DEF TypeOK, RunShape, NoRun
    <2>2. ASSUME NEW t \in Tokens, Request(t) PROVE Keeps
      <3>1. ASSUME NEW n \in Lengths, NEW x \in Targets \cup {None}, Start(t, n, x)
            PROVE  Keeps
        <4>1. run.token = None /\ run'.token = t /\ sessions' = sessions
          BY <2>1, <3>1 DEF Start, NoRun
        <4> QED
          BY <2>1, <4>1
      <3>2. CASE Pause(t) \/ Resume(t)
        <4>1. run'.target = run.target /\ sessions' = sessions
          BY <2>1, <3>2 DEF Pause, Resume, Runs
        <4> QED
          BY <2>1, <4>1
      <3>3. CASE Discard(t)
        <4>1. run'.token = None /\ run.token = t /\ sessions' = sessions
          BY <2>1, <3>3 DEF Discard
        <4> QED
          BY <2>1, <4>1
      <3>4. CASE Finish(t)
        <4> DEFINE row == [token |-> t, seconds |-> Credited(run), started |-> run.started,
                           ended |-> EndedAt(run), target |-> run.target]
        <4>1. /\ run # NoRun /\ run.token = t /\ run' = NoRun
              /\ sessions' = Append(sessions, row) /\ row.target = run.target
          BY <3>4 DEF Finish
        <4> HIDE DEF row
        <4>2. Len(sessions') = Len(sessions) + 1 /\ sessions'[Len(sessions) + 1] = row
          BY <2>1, <4>1
        <4> QED
          BY <2>1, <4>1, <4>2
      <3> QED
        BY <2>2, <3>1, <3>2, <3>3, <3>4 DEF Request
    <2>3. ASSUME NEW x \in Targets, Retire(x) \/ Revive(x) PROVE Keeps
      BY <2>1, <2>3 DEF Retire, Revive
    <2>4. ASSUME NEW x \in Habits, DeleteItem(x) PROVE Keeps
      <3>1. x \in Targets
        BY FocusAssumption
      <3>2. /\ status' = [status EXCEPT ![x] = "gone"]
            /\ sessions' = [i \in DOMAIN sessions |-> Detached(sessions[i], x)]
            /\ run' = Detached(run, x)
        BY <2>4 DEF DeleteItem
      <3>3. run'.target # run.target => run.target = x
        BY <3>2 DEF Detached
      <3>4. Len(sessions') = Len(sessions)
        BY <2>1, <3>1, <3>2, DetachedRows
      <3>5. status'[x] = "gone"
        BY <1>1, <3>1, <3>2 DEF TypeOK
      <3> QED
        BY <2>1, <3>3, <3>4, <3>5
    <2>5. CASE Tick
      BY <2>1, <2>5 DEF Tick
    <2> QED
      BY <1>1, <2>2, <2>3, <2>4, <2>5 DEF Next
  <1> QED
    BY <1>1, Invariance, PTL DEF Spec, AttributionKept

-----------------------------------------------------------------------------
(* The timer implements the stopwatch.                                      *)

Dates(r) == IF Worked(r) >= Cap(r) THEN r.started + Cap(r) + r.pausedSeconds ELSE Stopped(r)

(* The stopwatch a running timer stands for, and the one it never stands    *)
(* for.                                                                     *)
LEMMA WatchForm ==
    IInv /\ run # NoRun =>
        Watch = [token |-> run.token, full |-> Cap(run),
                 hand |-> IF Paused(run) THEN "held" ELSE "moves",
                 count |-> Least(Worked(run), Cap(run)), last |-> Dates(run)]
  BY Arithmetic DEF IInv, Watch, Dates

(* An empty slot, and only an empty slot, is the stopwatch switched off.    *)
LEMMA WatchOff ==
    /\ run = NoRun => Watch = SW!Off
    /\ IInv /\ run # NoRun => Watch # SW!Off
  <1>1. run = NoRun => Watch = SW!Off
    BY DEF Watch, SW!Off
  <1>2. ASSUME IInv, run # NoRun PROVE Watch # SW!Off
    <2>1. Watch.token = run.token /\ SW!Off.token = None /\ run.token \in Tokens
      BY <1>2 DEF Watch, SW!Off, IInv, RunShape
    <2> QED
      BY <2>1, FocusAssumption
  <1> QED
    BY <1>1, <1>2

(* The two ways the stopwatch passes a second.                              *)
LEMMA TickForm ==
    /\ now' = now + 1 /\ Spans' = Spans
    /\ \/ Watch.hand = "moves" /\ Watch.count < Watch.full
          /\ Watch' = SW!Reading("moves", Watch.count + 1, now + 1)
       \/ ~(Watch.hand = "moves" /\ Watch.count < Watch.full) /\ Watch' = Watch
    => SW!Tick
  BY DEF SW!Tick

(* A token no session carries is a token no span carries.                   *)
LEMMA SpansKnown ==
    ASSUME NEW t, t \notin Spent
    PROVE  \A s \in Spans : s.token # t
  <1> SUFFICES ASSUME NEW s \in Spans PROVE s.token # t
    OBVIOUS
  <1>1. PICK i \in DOMAIN sessions :
           s = [token |-> sessions[i].token, seconds |-> sessions[i].seconds,
                ended |-> sessions[i].ended]
    BY DEF Spans
  <1> QED
    BY <1>1 DEF Spent

(* Detaching a habit moves no date and no count.                            *)
LEMMA SpansDetached ==
    ASSUME IInv, NEW x \in Targets,
           sessions' = [i \in DOMAIN sessions |-> Detached(sessions[i], x)]
    PROVE  Spans' = Spans
  <1>1. /\ DOMAIN sessions' = DOMAIN sessions
        /\ \A i \in DOMAIN sessions :
              /\ sessions'[i].token = sessions[i].token
              /\ sessions'[i].seconds = sessions[i].seconds
              /\ sessions'[i].ended = sessions[i].ended
    BY DetachedRows DEF IInv, TypeOK
  <1> QED
    BY <1>1 DEF Spans

(* Recording a session adds its span.                                       *)
LEMMA SpansAppended ==
    ASSUME IInv, NEW row \in SessionRows, sessions' = Append(sessions, row)
    PROVE  Spans' = Spans \cup {[token |-> row.token, seconds |-> row.seconds,
                                 ended |-> row.ended]}
  <1> DEFINE span(r) == [token |-> r.token, seconds |-> r.seconds, ended |-> r.ended]
             n == Len(sessions) + 1
  <1>1. /\ DOMAIN sessions = 1..(n - 1) /\ DOMAIN sessions' = 1..n /\ n \in Nat
        /\ \A i \in 1..(n - 1) : sessions'[i] = sessions[i]
        /\ sessions'[n] = row
    BY AppendFacts DEF IInv, TypeOK
  <1>2. Spans = {span(sessions[i]) : i \in 1..(n - 1)}
    BY <1>1 DEF Spans
  <1>3. Spans' = {span(sessions'[i]) : i \in 1..n}
    BY <1>1 DEF Spans
  <1> HIDE DEF span
  <1>4. 1..n = (1..(n - 1)) \cup {n}
    BY <1>1
  <1>5. Spans' = Spans \cup {span(row)}
    BY <1>1, <1>2, <1>3, <1>4
  <1> QED
    BY <1>5 DEF span

(* The timestamps and pause sums of focus_runs implement a stopwatch: what  *)
(* a finish records is what counting second by second would have given, and *)
(* each token is recorded at most once.                                     *)
THEOREM Refinement == Spec => CountsLikeAStopwatch
  <1>1. Init => SW!Init
    BY DEF Init, SW!Init, SW!Off, Watch, Spans
  <1>2. (IInv /\ run # NoRun =>
           Watch = [token |-> run.token, full |-> Cap(run),
                    hand |-> IF Paused(run) THEN "held" ELSE "moves",
                    count |-> Least(Worked(run), Cap(run)), last |-> Dates(run)])'
    BY WatchForm, PTL
  <1>3. (run = NoRun => Watch = SW!Off)'
    <2>1. run = NoRun => Watch = SW!Off
      BY WatchOff
    <2> QED
      BY <2>1, PTL
  <1>4. (IInv /\ run # NoRun => Watch # SW!Off)'
    <2>1. IInv /\ run # NoRun => Watch # SW!Off
      BY WatchOff
    <2> QED
      BY <2>1, PTL
  <1>5. ASSUME IInv, IInv', [Next]_vars
        PROVE  [SW!Next]_<<Watch, Spans, now>>
    <2>1. /\ run \in Runs /\ run' \in Runs /\ now \in Nat
          /\ Paused(run) \in BOOLEAN /\ Paused(run') \in BOOLEAN
      BY <1>5 DEF IInv, TypeOK, Paused
    <2>2. ASSUME run # NoRun
          PROVE  /\ Cap(run) \in Nat \ {0} /\ Worked(run) \in Nat /\ Stopped(run) \in Nat
                 /\ run.started \in Nat /\ run.pausedSeconds \in Nat
                 /\ Worked(run) = Stopped(run) - run.started - run.pausedSeconds
                 /\ run.token \in Tokens
      <3>1. Cap(run) \in Nat \ {0}
        BY <1>5, <2>1, <2>2, CapBounds DEF IInv, RunShape
      <3> QED
        BY <1>5, <2>1, <2>2, <3>1
        DEF IInv, RunShape, Worked, Stopped, Runs, Paused, NotPaused
    <2>3. ASSUME NEW t \in Tokens, Request(t)
          PROVE  [SW!Next]_<<Watch, Spans, now>>
      <3>1. ASSUME NEW n \in Lengths, NEW x \in Targets \cup {None}, Start(t, n, x)
            PROVE  \E full \in (MinTarget..MaxTarget) \cup {MaxSeconds} : SW!Start(t, full)
        <4>1. /\ run = NoRun /\ t \notin Spent /\ (n = 0 \/ n \in MinTarget..MaxTarget)
              /\ UNCHANGED <<sessions, now>>
          BY <3>1 DEF Start
        <4>2. /\ run'.token = t /\ run'.length = n /\ run'.started = now
              /\ run'.pausedAt = NotPaused /\ run'.pausedSeconds = 0
          BY <3>1 DEF Start, NoRun
        <4>3. /\ run' # NoRun /\ ~Paused(run') /\ Worked(run)' = 0 /\ Stopped(run)' = now
              /\ Cap(run') \in (MinTarget..MaxTarget) \cup {MaxSeconds}
              /\ Cap(run') \in Nat \ {0}
          BY <2>1, <4>1, <4>2, FocusAssumption
          DEF Paused, Worked, Stopped, Cap, NoRun, NotPaused
        <4>4. Watch' = [token |-> t, full |-> Cap(run'), hand |-> "moves", count |-> 0,
                        last |-> now]
          BY <1>2, <1>5, <4>2, <4>3 DEF Least, Dates, Cap, Paused
        <4>5. Watch = SW!Off /\ (\A s \in Spans : s.token # t) /\ Spans' = Spans
          <5>1. \A s \in Spans : s.token # t
            BY <4>1, SpansKnown
          <5>2. Spans' = Spans
            BY <4>1 DEF Spans
          <5> QED
            BY <4>1, <5>1, <5>2, WatchOff
        <4> QED
          BY <4>1, <4>3, <4>4, <4>5 DEF SW!Start
      <3>2. CASE Pause(t)
        <4>1. /\ run # NoRun /\ ~Paused(run) /\ ~(Elapsed(run) >= Cap(run))
              /\ UNCHANGED <<sessions, now>>
          <5>1. Elapsed(run) \in Int
            BY <2>1, <3>2, FocusAssumption
            DEF Pause, Elapsed, Runs, Greatest, Least, Paused, NotPaused
          <5> QED
            BY <2>2, <3>2, <5>1 DEF Pause
        <4>2. /\ run'.token = run.token /\ run'.length = run.length
              /\ run'.started = run.started /\ run'.pausedAt = now
              /\ run'.pausedSeconds = run.pausedSeconds
          BY <2>1, <3>2 DEF Pause, Runs
        <4>3. Worked(run) < Cap(run) /\ Stopped(run) = now
          BY <1>5, <2>2, <4>1, Arithmetic DEF IInv, Stopped
        <4>4. /\ run' # NoRun /\ Paused(run') /\ Cap(run') = Cap(run)
              /\ Stopped(run)' = Stopped(run) /\ Worked(run)' = Worked(run)
          BY <2>1, <2>2, <4>2, <4>3, FocusAssumption
          DEF Paused, Worked, Stopped, Cap, NoRun, NotPaused
        <4>5. Watch = [token |-> run.token, full |-> Cap(run), hand |-> "moves",
                       count |-> Worked(run), last |-> now]
          BY <1>5, <2>2, <4>1, <4>3, WatchForm DEF Least, Dates
        <4>6. Watch' = [token |-> run.token, full |-> Cap(run), hand |-> "held",
                        count |-> Worked(run), last |-> now]
          <5>1. Least(Worked(run)', Cap(run')) = Worked(run) /\ Dates(run)' = now
            BY <2>2, <4>1, <4>3, <4>4 DEF Least, Dates
          <5> QED
            BY <1>2, <1>5, <4>2, <4>4, <5>1
        <4>7. Spans' = Spans
          BY <4>1 DEF Spans
        <4>8. SW!Hold
          BY <4>1, <4>3, <4>5, <4>6, <4>7 DEF SW!Hold, SW!Reading
        <4> QED
          BY <4>8 DEF SW!Next
      <3>3. CASE Resume(t)
        <4>1. run # NoRun /\ Paused(run) /\ UNCHANGED <<sessions, now>>
          BY <3>3 DEF Resume
        <4>2. /\ Worked(run)' = Worked(run) /\ Stopped(run)' = now
              /\ Cap(run)' = Cap(run) /\ ~Paused(run')
          BY <1>5, <3>3, ResumeInv
        <4>3. run'.token = run.token /\ run' # NoRun
          BY <2>1, <2>2, <3>3, <4>1, FocusAssumption DEF Resume, Runs, NoRun
        <4>4. Worked(run) < Cap(run)
          BY <1>5, <4>1 DEF IInv, RunShape
        <4>5. /\ Watch.hand = "held" /\ Watch.token = run.token /\ Watch # SW!Off
              /\ Watch = [token |-> run.token, full |-> Cap(run), hand |-> "held",
                          count |-> Worked(run), last |-> Dates(run)]
          BY <1>5, <2>2, <4>1, <4>4, WatchForm, WatchOff DEF Least
        <4>6. Watch' = [token |-> run.token, full |-> Cap(run), hand |-> "moves",
                        count |-> Worked(run), last |-> now]
          <5>1. Least(Worked(run)', Cap(run')) = Worked(run) /\ Dates(run)' = now
            BY <2>2, <4>1, <4>2, <4>4 DEF Least, Dates
          <5> QED
            BY <1>2, <1>5, <4>2, <4>3, <5>1
        <4>7. Spans' = Spans
          BY <4>1 DEF Spans
        <4>8. SW!Resume
          <5>1. Watch' = SW!Reading("moves", Watch.count, now)
            BY <4>5, <4>6 DEF SW!Reading
          <5> QED
            BY <4>1, <4>5, <4>7, <5>1 DEF SW!Resume
        <4> QED
          BY <4>8 DEF SW!Next
      <3>4. CASE Discard(t)
        <4>1. run # NoRun /\ run' = NoRun /\ UNCHANGED <<sessions, now>>
          BY <3>4 DEF Discard
        <4>2. Watch # SW!Off /\ Watch' = SW!Off /\ Spans' = Spans
          BY <1>3, <1>5, <4>1, WatchOff DEF Spans
        <4>3. SW!Discard
          BY <4>1, <4>2 DEF SW!Discard
        <4> QED
          BY <4>3 DEF SW!Next
      <3>5. CASE Finish(t)
        <4> DEFINE row == [token |-> t, seconds |-> Credited(run), started |-> run.started,
                           ended |-> EndedAt(run), target |-> run.target]
        <4>1. /\ run # NoRun /\ run.token = t /\ t \notin Spent /\ run' = NoRun
              /\ Credited(run) > 0 /\ sessions' = Append(sessions, row) /\ now' = now
          BY <3>5 DEF Finish
        <4>2. row \in SessionRows
          BY <1>5, <2>1, <4>1, FinishedSpan DEF IInv, SessionRows, Runs
        <4>3. Watch.token = t /\ Watch.count = Credited(run) /\ Watch.last = EndedAt(run)
          BY <4>1 DEF Watch
        <4>4. Spans' = Spans \cup {[token |-> Watch.token, seconds |-> Watch.count,
                                    ended |-> Watch.last]}
          <5> HIDE DEF row
          <5>1. Spans' = Spans \cup {[token |-> row.token, seconds |-> row.seconds,
                                      ended |-> row.ended]}
            BY <1>5, <4>1, <4>2, SpansAppended
          <5>2. row.token = t /\ row.seconds = Credited(run) /\ row.ended = EndedAt(run)
            BY DEF row
          <5> QED
            BY <4>3, <5>1, <5>2
        <4>5. Watch' = SW!Off /\ \A s \in Spans : s.token # Watch.token
          BY <1>3, <4>1, <4>3, SpansKnown
        <4>6. SW!Record
          BY <4>1, <4>3, <4>4, <4>5 DEF SW!Record
        <4> QED
          BY <4>6 DEF SW!Next
      <3> QED
        BY <2>3, <3>1, <3>2, <3>3, <3>4, <3>5 DEF Request, SW!Next
    <2>4. ASSUME NEW x \in Targets, Retire(x) \/ Revive(x)
          PROVE  UNCHANGED <<Watch, Spans, now>>
      BY <2>4 DEF Retire, Revive, Watch, Spans, Cap, Credited, EndedAt, CappedEnd,
                  Elapsed, Paused
    <2>5. ASSUME NEW x \in Habits, DeleteItem(x)
          PROVE  UNCHANGED <<Watch, Spans, now>>
      <3>1. x \in Targets /\ x # None
        BY FocusAssumption
      <3>2. /\ sessions' = [i \in DOMAIN sessions |-> Detached(sessions[i], x)]
            /\ run' = Detached(run, x) /\ now' = now
        BY <2>5 DEF DeleteItem
      <3>3. Spans' = Spans
        BY <1>5, <3>1, <3>2, SpansDetached
      <3>4. CASE run = NoRun
        <4>1. run' = NoRun
          BY <3>1, <3>2, <3>4 DEF Detached, NoRun
        <4> QED
          BY <1>3, <1>5, <3>2, <3>3, <3>4, <4>1, WatchOff
      <3>5. CASE run # NoRun
        <4>1. /\ run'.token = run.token /\ run'.length = run.length
              /\ run'.started = run.started /\ run'.pausedAt = run.pausedAt
              /\ run'.pausedSeconds = run.pausedSeconds
          BY <2>1, <3>2 DEF Detached, Runs
        <4>2. run' # NoRun
          BY <2>2, <3>5, <4>1, FocusAssumption DEF NoRun
        <4>3. /\ Cap(run') = Cap(run) /\ Paused(run') = Paused(run)
              /\ Stopped(run)' = Stopped(run)
          BY <3>2, <4>1 DEF Cap, Paused, Stopped
        <4>4. Worked(run)' = Worked(run)
          BY <4>1, <4>3 DEF Worked
        <4>5. Dates(run)' = Dates(run)
          BY <4>1, <4>3, <4>4 DEF Dates
        <4>6. Watch' = Watch
          BY <1>2, <1>5, <3>5, <4>1, <4>2, <4>3, <4>4, <4>5, WatchForm
        <4> QED
          BY <3>2, <3>3, <4>6
      <3> QED
        BY <3>4, <3>5
    <2>6. CASE Tick
      <3>1. now' = now + 1 /\ run' = run /\ Spans' = Spans
        BY <2>6 DEF Tick, Spans
      <3>2. CASE run = NoRun
        <4>1. Watch = SW!Off /\ Watch' = SW!Off /\ SW!Off.hand = "held"
          BY <1>3, <3>1, <3>2, WatchOff DEF SW!Off
        <4>2. SW!Tick
          BY <3>1, <4>1 DEF SW!Tick
        <4> QED
          BY <4>2 DEF SW!Next
      <3>3. CASE run # NoRun /\ ~Paused(run)
        <4>1. /\ Stopped(run) = now /\ Stopped(run)' = now + 1
              /\ Worked(run)' = Worked(run) + 1 /\ Cap(run') = Cap(run) /\ ~Paused(run')
          BY <2>1, <2>2, <3>1, <3>3 DEF Stopped, Worked, Cap, Paused
        <4>2. Watch = [token |-> run.token, full |-> Cap(run), hand |-> "moves",
                       count |-> Least(Worked(run), Cap(run)), last |-> Dates(run)]
          BY <1>5, <3>3, WatchForm
        <4>3. Watch' = [token |-> run.token, full |-> Cap(run), hand |-> "moves",
                        count |-> Least(Worked(run) + 1, Cap(run)), last |-> Dates(run)']
          BY <1>2, <1>5, <3>1, <3>3, <4>1
        <4>4. ASSUME Worked(run) >= Cap(run) PROVE SW!Tick
          <5>1. /\ Least(Worked(run) + 1, Cap(run)) = Cap(run)
                /\ Least(Worked(run), Cap(run)) = Cap(run)
            BY <2>2, <3>3, <4>4 DEF Least
          <5>2. Dates(run)' = Dates(run)
            BY <2>2, <3>1, <3>3, <4>1, <4>4 DEF Dates
          <5>3. Watch' = Watch /\ ~(Watch.count < Watch.full)
            BY <2>2, <3>3, <4>2, <4>3, <5>1, <5>2
          <5> QED
            BY <3>1, <5>3, TickForm
        <4>5. ASSUME Worked(run) < Cap(run) PROVE SW!Tick
          <5>1. /\ Least(Worked(run) + 1, Cap(run)) = Worked(run) + 1
                /\ Least(Worked(run), Cap(run)) = Worked(run)
            BY <2>2, <3>3, <4>5 DEF Least
          <5>2. Dates(run)' = now + 1
            BY <2>1, <2>2, <3>1, <3>3, <4>1, <4>5 DEF Dates
          <5>3. Watch.hand = "moves" /\ Watch.count < Watch.full
            BY <4>2, <4>5, <5>1
          <5>4. Watch' = SW!Reading("moves", Watch.count + 1, now + 1)
            BY <4>2, <4>3, <5>1, <5>2 DEF SW!Reading
          <5> QED
            BY <3>1, <5>3, <5>4, TickForm
        <4>6. SW!Tick
          BY <2>2, <3>3, <4>4, <4>5
        <4> QED
          BY <4>6 DEF SW!Next
      <3>4. CASE run # NoRun /\ Paused(run)
        <4>1. /\ Stopped(run)' = Stopped(run) /\ Worked(run)' = Worked(run)
              /\ Cap(run') = Cap(run) /\ Dates(run)' = Dates(run)
          BY <3>1, <3>4 DEF Stopped, Worked, Cap, Paused, Dates
        <4>2. Watch' = Watch
          BY <1>2, <1>5, <3>1, <3>4, <4>1, WatchForm
        <4>3. Watch.hand = "held"
          BY <3>4 DEF Watch
        <4>4. SW!Tick
          BY <3>1, <4>2, <4>3, TickForm
        <4> QED
          BY <4>4 DEF SW!Next
      <3> QED
        BY <3>2, <3>3, <3>4
    <2>7. CASE UNCHANGED vars
      BY <2>7 DEF vars, Watch, Spans, Cap, Credited, EndedAt, CappedEnd, Elapsed, Paused
    <2> QED
      BY <1>5, <2>3, <2>4, <2>5, <2>6, <2>7 DEF Next
  <1> QED
    BY <1>1, <1>5, Invariance, PTL DEF Spec, CountsLikeAStopwatch, SW!Spec

-----------------------------------------------------------------------------
(* The drawer over the timer.                                               *)


Ops     == {"sync", "start", "pause", "resume", "finish", "discard"}
Fetches == [op : Ops, token : Tokens \cup {None}, length : Nat,
            stage : {"sent", "settled", "answered"}, ok : BOOLEAN, run : Runs, elapsed : Int]
Views   == [token : Tokens \cup {None}, length : Nat, paused : BOOLEAN, zero : Int]
Pages   == [view : Views, busy : BOOLEAN, wire : Seq(Fetches)]

Held(s)     == {s[i] : i \in DOMAIN s}
OneWrite(s) == \A i \in DOMAIN s : s[i].op # "sync" => i = Len(s)
HasWrite(s) == \E i \in DOMAIN s : s[i].op # "sync"

PageOK(b, p) ==
    /\ Len(p.wire) <= MaxFlight[b]
    /\ OneWrite(p.wire)
    /\ p.busy <=> HasWrite(p.wire)
    /\ p.view = NoView \/ p.view.token # None

TypePart ==
    /\ tab \in [Tabs -> Pages]
    /\ orphans \in SUBSET Fetches
    /\ minted \in SUBSET Tokens
    /\ told \in SUBSET (Tabs \X {"start", "finish", "discard"} \X minted)
    /\ lost \in 0..MaxLost
    /\ \A b \in Tabs : PageOK(b, tab[b])

Waits(b)   == Held(tab[b].wire)
Opening(m) == m.op = "start" /\ m.stage = "sent"
Opened ==
    {t \in minted : /\ \A b \in Tabs : \A m \in Waits(b) : Opening(m) => m.token # t
                    /\ \A m \in orphans : Opening(m) => m.token # t}

OncePart ==
    /\ \A b, c \in Tabs : \A m \in Waits(b), n \in Waits(c) :
          Opening(m) /\ Opening(n) /\ m.token = n.token => b = c
    /\ \A b \in Tabs : \A m \in Waits(b), o \in orphans :
          Opening(m) /\ Opening(o) => m.token # o.token
    /\ \A o, p \in orphans : Opening(o) /\ Opening(p) /\ o.token = p.token => o = p

Placed(m) ==
    /\ m.run = NoRun \/ m.run.token \in Opened
    /\ IF Opening(m) THEN m.token \in minted ELSE m.token \in Opened \cup {None}
    /\ m.op # "sync" => m.token # None
    /\ m.op = "start" => m.length \in Lengths

KnownPart ==
    /\ Spent \subseteq Opened
    /\ run.token \in Opened \cup {None}
    /\ \A b \in Tabs : tab[b].view.token \in Opened \cup {None}
    /\ \A w \in told : w[3] \in Opened
    /\ \A b \in Tabs : \A m \in Waits(b) : Placed(m)
    /\ \A m \in orphans : Placed(m) /\ Unserved(m)

Answered(m) == m.ok /\ m.stage = "answered"

Answer(m) ==
    /\ m.stage = "sent" => ~m.ok
    /\ m.stage = "settled" => m.ok /\ m.op # "sync"
    /\ m.stage = "answered" /\ ~m.ok => m.op # "sync"
    /\ m.ok /\ m.op = "finish" => m.token \in Spent
    /\ m.ok /\ m.op = "discard" => m.token \notin Spent \cup {run.token}
    /\ Answered(m) /\ m.op \in {"finish", "discard"} => m.run.token # m.token
    /\ Answered(m) /\ m.op = "start" /\ run.token = m.token => m.run.token = m.token

AnswerPart == \A b \in Tabs : \A m \in Waits(b) : Answer(m)

Sees(w, t) ==
    /\ w[2] = "start" /\ w[3] = run.token => t = w[3]
    /\ w[2] \in {"finish", "discard"} => t # w[3]

SightPart ==
    \A w \in told :
        /\ Sees(w, tab[w[1]].view.token)
        /\ \A m \in Waits(w[1]) : Answered(m) => Sees(w, m.run.token)

DrawerInv == TypePart /\ OncePart /\ KnownPart /\ AnswerPart /\ AnswersHold /\ SightPart

-----------------------------------------------------------------------------
(* The fetches a tab waits for.                                             *)

(* A fetch that is sent joins the wire as the latest.                      *)
LEMMA AppendWire ==
    ASSUME NEW s \in Seq(Fetches), NEW m \in Fetches
    PROVE  /\ Append(s, m) \in Seq(Fetches) /\ Len(Append(s, m)) = Len(s) + 1
           /\ Held(Append(s, m)) = Held(s) \cup {m}
           /\ ~HasWrite(s) => OneWrite(Append(s, m))
           /\ HasWrite(Append(s, m)) <=> HasWrite(s) \/ m.op # "sync"
  <1> DEFINE r == Append(s, m)
  <1>1. /\ r \in Seq(Fetches) /\ Len(r) = Len(s) + 1 /\ Len(s) \in Nat
        /\ DOMAIN s = 1..Len(s) /\ DOMAIN r = 1..(Len(s) + 1)
        /\ \A k \in 1..Len(s) : r[k] = s[k]
        /\ r[Len(s) + 1] = m
    BY AppendFacts
  <1> HIDE DEF r
  <1>2. \A k \in DOMAIN r : k \in DOMAIN s \/ k = Len(s) + 1
    BY <1>1
  <1>3. Held(r) = Held(s) \cup {m}
    BY <1>1, <1>2 DEF Held
  <1>4. HasWrite(r) <=> HasWrite(s) \/ m.op # "sync"
    BY <1>1, <1>2 DEF HasWrite
  <1>5. ~HasWrite(s) => OneWrite(r)
    BY <1>1, <1>2 DEF HasWrite, OneWrite
  <1> QED
    BY <1>1, <1>3, <1>4, <1>5 DEF r

(* A fetch nobody waits for any more leaves the others in their order.     *)
LEMMA WithoutWire ==
    ASSUME NEW s \in Seq(Fetches), OneWrite(s), NEW i \in DOMAIN s
    PROVE  /\ Without(s, i) \in Seq(Fetches) /\ Len(Without(s, i)) = Len(s) - 1
           /\ Held(Without(s, i)) \subseteq Held(s)
           /\ OneWrite(Without(s, i))
           /\ HasWrite(Without(s, i)) <=> HasWrite(s) /\ s[i].op = "sync"
  <1> DEFINE r == Without(s, i)
  <1> DEFINE u == SubSeq(s, 1, i - 1)
             v == SubSeq(s, i + 1, Len(s))
  <1>a. Len(s) \in Nat /\ DOMAIN s = 1..Len(s) /\ i \in 1..Len(s)
    OBVIOUS
  <1>b. /\ u \in Seq(Fetches) /\ Len(u) = i - 1
        /\ \A k \in 1..(i - 1) : u[k] = s[k]
    BY <1>a
  <1>c. /\ v \in Seq(Fetches) /\ Len(v) = Len(s) - i
        /\ \A k \in 1..(Len(s) - i) : v[k] = s[k + i]
    BY <1>a
  <1>d. r = u \o v
    BY DEF Without
  <1>e. u \in Seq(Fetches) /\ v \in Seq(Fetches)
    BY <1>b, <1>c
  <1> HIDE DEF u, v, r
  <1>f. /\ r \in Seq(Fetches) /\ Len(r) = Len(u) + Len(v)
        /\ \A k \in 1..(Len(u) + Len(v)) : r[k] = IF k <= Len(u) THEN u[k] ELSE v[k - Len(u)]
    BY <1>d, <1>e, ConcatProperties
  <1>1. /\ Len(s) \in Nat /\ DOMAIN s = 1..Len(s) /\ i \in 1..Len(s)
        /\ r \in Seq(Fetches) /\ Len(r) = Len(s) - 1 /\ DOMAIN r = 1..(Len(s) - 1)
    BY <1>a, <1>b, <1>c, <1>f
  <1>2. \A k \in 1..(Len(s) - 1) : r[k] = IF k < i THEN s[k] ELSE s[k + 1]
    <2> SUFFICES ASSUME NEW k \in 1..(Len(s) - 1)
                 PROVE  r[k] = IF k < i THEN s[k] ELSE s[k + 1]
      OBVIOUS
    <2>1. r[k] = IF k <= Len(u) THEN u[k] ELSE v[k - Len(u)]
      BY <1>a, <1>b, <1>c, <1>f
    <2>2. CASE k < i
      BY <1>a, <1>b, <2>1, <2>2
    <2>3. CASE ~(k < i)
      <3>1. k - Len(u) \in 1..(Len(s) - i) /\ (k - Len(u)) + i = k + 1
        BY <1>a, <1>b, <2>3
      <3>2. r[k] = v[k - Len(u)]
        BY <1>a, <1>b, <2>1, <2>3
      <3>3. v[k - Len(u)] = s[(k - Len(u)) + i]
        BY <1>c, <3>1
      <3> QED
        BY <2>3, <3>1, <3>2, <3>3
    <2> QED
      BY <2>2, <2>3
  <1> HIDE DEF r
  <1>3. Held(r) \subseteq Held(s)
    BY <1>1, <1>2 DEF Held
  <1>4. OneWrite(r)
    BY <1>1, <1>2 DEF OneWrite
  <1>5. CASE s[i].op = "sync"
    <2>1. ASSUME HasWrite(s) PROVE HasWrite(r)
      <3>1. PICK k \in 1..Len(s) : s[k].op # "sync"
        BY <1>1, <2>1 DEF HasWrite
      <3>2. k = Len(s) /\ i # k
        BY <1>1, <1>5, <3>1 DEF OneWrite
      <3>3. k - 1 \in 1..(Len(s) - 1) /\ r[k - 1] = s[k]
        BY <1>1, <1>2, <3>2
      <3> QED
        BY <1>1, <3>1, <3>3 DEF HasWrite
    <2>2. HasWrite(r) => HasWrite(s)
      BY <1>1, <1>2 DEF HasWrite
    <2> QED
      BY <1>1, <1>3, <1>4, <1>5, <2>1, <2>2 DEF r
  <1>6. CASE s[i].op # "sync"
    <2>1. i = Len(s)
      BY <1>6 DEF OneWrite
    <2>2. \A k \in 1..(Len(s) - 1) : s[k].op = "sync"
      BY <1>1 DEF OneWrite
    <2> QED
      BY <1>1, <1>2, <1>3, <1>4, <1>6, <2>1, <2>2 DEF HasWrite, r
  <1> QED
    BY <1>5, <1>6

(* After absorbing fetch i only the later ones are waited for; the latest is *)
(* the write, so an absorbed write leaves none.                            *)
LEMMA SuffixWire ==
    ASSUME NEW s \in Seq(Fetches), OneWrite(s), NEW i \in DOMAIN s
    PROVE  LET r == SubSeq(s, i + 1, Len(s))
           IN  /\ r \in Seq(Fetches) /\ Len(r) <= Len(s)
               /\ Held(r) \subseteq Held(s) /\ OneWrite(r)
               /\ HasWrite(r) <=> HasWrite(s) /\ s[i].op = "sync"
               /\ s[i].op # "sync" => Held(r) = {}
  <1> DEFINE r == SubSeq(s, i + 1, Len(s))
  <1>1. /\ Len(s) \in Nat /\ DOMAIN s = 1..Len(s) /\ i \in 1..Len(s)
        /\ r \in Seq(Fetches) /\ Len(r) = Len(s) - i /\ DOMAIN r = 1..(Len(s) - i)
    OBVIOUS
  <1>2. \A k \in 1..(Len(s) - i) : r[k] = s[k + i]
    BY <1>1
  <1> HIDE DEF r
  <1>3. Held(r) \subseteq Held(s) /\ OneWrite(r)
    BY <1>1, <1>2 DEF Held, OneWrite
  <1>4. CASE s[i].op = "sync"
    <2>1. ASSUME HasWrite(s) PROVE HasWrite(r)
      <3>1. PICK k \in 1..Len(s) : s[k].op # "sync"
        BY <1>1, <2>1 DEF HasWrite
      <3>2. k = Len(s) /\ i # k
        BY <1>1, <1>4, <3>1 DEF OneWrite
      <3>3. k - i \in 1..(Len(s) - i) /\ r[k - i] = s[k]
        BY <1>1, <1>2, <3>2
      <3> QED
        BY <1>1, <3>1, <3>3 DEF HasWrite
    <2>2. HasWrite(r) <=> HasWrite(s)
      BY <1>1, <1>2, <2>1 DEF HasWrite
    <2> QED
      BY <1>1, <1>3, <1>4, <2>2 DEF r
  <1>5. CASE s[i].op # "sync"
    <2>1. i = Len(s)
      BY <1>5 DEF OneWrite
    <2>2. DOMAIN r = {}
      BY <1>1, <2>1
    <2> QED
      BY <1>1, <1>3, <1>5, <2>2 DEF HasWrite, Held, r
  <1> QED
    BY <1>4, <1>5

(* A fetch at its next stage keeps its place.                              *)
LEMMA ReplacedWire ==
    ASSUME NEW s \in Seq(Fetches), OneWrite(s), NEW i \in DOMAIN s,
           NEW m \in Fetches, m.op = s[i].op
    PROVE  LET r == [s EXCEPT ![i] = m]
           IN  /\ r \in Seq(Fetches) /\ Len(r) = Len(s)
               /\ Held(r) \subseteq Held(s) \cup {m}
               /\ OneWrite(r)
               /\ HasWrite(r) <=> HasWrite(s)
               /\ m.op # "sync" => \A n \in Held(r) : n.op # "sync" => n = m
  <1> DEFINE r == [s EXCEPT ![i] = m]
  <1>1. /\ Len(s) \in Nat /\ DOMAIN s = 1..Len(s) /\ i \in 1..Len(s)
        /\ r \in Seq(Fetches) /\ Len(r) = Len(s) /\ DOMAIN r = 1..Len(s)
    OBVIOUS
  <1>2. r[i] = m /\ \A k \in 1..Len(s) : k # i => r[k] = s[k]
    BY <1>1
  <1> HIDE DEF r
  <1>3. Held(r) \subseteq Held(s) \cup {m}
    BY <1>1, <1>2 DEF Held
  <1>4. OneWrite(r)
    BY <1>1, <1>2 DEF OneWrite
  <1>5. HasWrite(r) <=> HasWrite(s)
    BY <1>1, <1>2 DEF HasWrite
  <1>6. m.op # "sync" => \A n \in Held(r) : n.op # "sync" => n = m
    <2> SUFFICES ASSUME m.op # "sync", NEW k \in 1..Len(s), r[k].op # "sync" PROVE r[k] = m
      BY <1>1 DEF Held
    <2>1. i = Len(s) /\ k = Len(r)
      BY <1>1, <1>4 DEF OneWrite
    <2> QED
      BY <1>1, <1>2, <2>1
  <1> QED
    BY <1>1, <1>3, <1>4, <1>5, <1>6 DEF r
-----------------------------------------------------------------------------
(* What a step may change, and what that leaves true.                       *)

(* What a step does to the timer, as those see it who know the open tokens: *)
(* it records the running timer if any, and starts none of them again.      *)
TimerMoves ==
    /\ Spent \subseteq Spent'
    /\ Spent' \subseteq Spent \cup ({run.token} \ {None})
    /\ \A t \in Opened : run'.token = t => run.token = t

(* Tokens are minted and opened for good.                                  *)
LEMMA PlacedStays ==
    ASSUME Opened \subseteq Opened', minted \subseteq minted', NEW m, Placed(m)
    PROVE  Placed(m)'
  BY DEF Placed, Opening

(* What is true of an answer under way stays true of it.                   *)
LEMMA AnswerStays ==
    ASSUME TimerMoves, NEW m, Placed(m), Answer(m)
    PROVE  Answer(m)'
  <1>1. m.ok /\ m.op # "sync" => m.token \in Opened
    BY DEF Placed, Answer, Opening
  <1> QED
    BY <1>1 DEF TimerMoves, Answer, Answered

(* What a tab sees of its own writes stays right while it sees the same timer. *)
LEMMA SeesStays ==
    ASSUME TimerMoves, NEW w, w[3] \in Opened, NEW t, Sees(w, t)
    PROVE  Sees(w, t)'
  BY DEF TimerMoves, Sees

(* A tab waits for one write at a time.                                    *)
LEMMA OneWriteEach ==
    ASSUME DrawerInv, NEW b \in Tabs, NEW m \in Waits(b), NEW n \in Waits(b),
           m.op # "sync", n.op # "sync"
    PROVE  m = n
  <1>1. OneWrite(tab[b].wire)
    BY DEF DrawerInv, TypePart, PageOK
  <1>2. PICK i \in DOMAIN tab[b].wire : m = tab[b].wire[i]
    BY DEF Waits, Held
  <1>3. PICK k \in DOMAIN tab[b].wire : n = tab[b].wire[k]
    BY DEF Waits, Held
  <1> QED
    BY <1>1, <1>2, <1>3 DEF OneWrite

(* Starts that wait for the server are handed on, never multiplied.         *)
OpeningsKept ==
    /\ minted \subseteq minted'
    /\ \A b \in Tabs : \A m \in Waits(b)' : Opening(m) => m \in Waits(b)
    /\ \A o \in orphans' : Opening(o) =>
          \/ o \in orphans
          \/ \E b \in Tabs : o \in Waits(b) /\ \A m \in Waits(b)' : ~Opening(m)

(* So each start still waits in one place, and open tokens stay open.      *)
LEMMA OnceKept ==
    ASSUME DrawerInv, OpeningsKept
    PROVE  OncePart' /\ Opened \subseteq Opened'
  <1> USE DEF OpeningsKept
  <1>1. OncePart
    BY DEF DrawerInv
  <1>2. ASSUME NEW b \in Tabs, NEW c \in Tabs, NEW m \in Waits(b)', NEW n \in Waits(c)',
               Opening(m), Opening(n), m.token = n.token
        PROVE  b = c
    BY <1>1, <1>2 DEF OncePart
  <1>3. ASSUME NEW b \in Tabs, NEW m \in Waits(b)', NEW o \in orphans',
               Opening(m), Opening(o), m.token = o.token
        PROVE  FALSE
    <2>1. m \in Waits(b)
      BY <1>3
    <2>2. PICK c \in Tabs : o \in Waits(c) /\ \A n \in Waits(c)' : ~Opening(n)
      BY <1>1, <1>3, <2>1 DEF OncePart
    <2>3. c = b
      BY <1>1, <1>3, <2>1, <2>2 DEF OncePart
    <2> QED
      BY <1>3, <2>2, <2>3
  <1>4. ASSUME NEW o \in orphans', NEW p \in orphans',
               Opening(o), Opening(p), o.token = p.token
        PROVE  o = p
    <2>1. CASE o \in orphans /\ p \in orphans
      BY <1>1, <1>4, <2>1 DEF OncePart
    <2>2. CASE ~(o \in orphans /\ p \in orphans)
      <3>1. o \notin orphans /\ p \notin orphans
        BY <1>1, <1>4, <2>2 DEF OncePart
      <3>2. PICK b \in Tabs : o \in Waits(b)
        BY <1>4, <3>1
      <3>3. PICK c \in Tabs : p \in Waits(c)
        BY <1>4, <3>1
      <3>4. b = c
        BY <1>1, <1>4, <3>2, <3>3 DEF OncePart
      <3> QED
        BY <1>4, <3>2, <3>3, <3>4, OneWriteEach DEF Opening
    <2> QED
      BY <2>1, <2>2
  <1>5. OncePart'
    BY <1>2, <1>3, <1>4 DEF OncePart, Waits, Opening
  <1>6. ASSUME NEW t \in Opened PROVE t \in Opened'
    <2>1. \A b \in Tabs : \A m \in Waits(b)' : Opening(m) => m.token # t
      BY <1>6 DEF Opened
    <2>2. \A o \in orphans' : Opening(o) => o.token # t
      BY <1>6 DEF Opened
    <2> QED
      BY <1>6, <2>1, <2>2 DEF Opened, Waits, Opening
  <1> QED
    BY <1>5, <1>6

(* When the server takes a start, no other start has its token.             *)
LEMMA ServedOpens ==
    ASSUME DrawerInv, OpeningsKept, NEW m, Opening(m), m.token \in minted,
           orphans' \subseteq orphans,
           \/ m \in orphans \ orphans'
           \/ \E b \in Tabs : m \in Waits(b) /\ \A n \in Waits(b)' : ~Opening(n)
    PROVE  m.token \in Opened'
  <1> USE DEF OpeningsKept
  <1>1. OncePart
    BY DEF DrawerInv
  <1>2. ASSUME NEW c \in Tabs, NEW n \in Waits(c)', Opening(n) PROVE n.token # m.token
    BY <1>1, <1>2 DEF OncePart
  <1>3. ASSUME NEW o \in orphans', Opening(o) PROVE o.token # m.token
    BY <1>1, <1>3 DEF OncePart
  <1> QED
    BY <1>2, <1>3 DEF Opened, Waits, Opening

(* The invariant survives a step when the pages, the orphans and the told   *)
(* writes that are new in it are in order.                                  *)
LEMMA Frame ==
    ASSUME DrawerInv, TimerMoves, OncePart', Opened \subseteq Opened',
           tab' \in [Tabs -> Pages], orphans' \in SUBSET Fetches,
           minted \subseteq minted', minted' \in SUBSET Tokens, lost' \in 0..MaxLost,
           run'.token \in Opened' \cup {None},
           \A b \in Tabs : \/ tab'[b] = tab[b]
                           \/ /\ PageOK(b, tab'[b])
                              /\ tab'[b].view.token \in Opened' \cup {None}
                              /\ \A m \in Held(tab'[b].wire) :
                                    m \in Waits(b) \/ (Placed(m)' /\ Answer(m)'),
           \A m \in orphans' : m \in orphans \/ (Placed(m)' /\ Unserved(m)),
           \A w \in told' :
              \/ w \in told
              \/ /\ w \in Tabs \X {"start", "finish", "discard"} \X Opened'
                 /\ w[2] = "finish"  => w[3] \in Spent'
                 /\ w[2] = "discard" => w[3] \notin Spent' \cup {run'.token},
           \A w \in told' :
              \/ w \in told /\ tab'[w[1]] = tab[w[1]]
              \/ /\ Sees(w, tab[w[1]].view.token)'
                 /\ \A m \in Held(tab'[w[1]].wire) : Answered(m) => Sees(w, m.run.token)'
    PROVE  DrawerInv'
  <1> USE DEF DrawerInv
  <1>1. Opened' \subseteq minted'
    BY DEF Opened
  <1>2. TypePart'
    <2>1. told' \in SUBSET (Tabs \X {"start", "finish", "discard"} \X minted')
      <3> SUFFICES ASSUME NEW w \in told'
                   PROVE  w \in Tabs \X {"start", "finish", "discard"} \X minted'
        OBVIOUS
      <3>1. CASE w \in told
        <4>1. w \in Tabs \X {"start", "finish", "discard"} \X minted
          BY <3>1 DEF TypePart
        <4> QED
          BY <4>1
      <3>2. CASE w \in Tabs \X {"start", "finish", "discard"} \X Opened'
        BY <1>1, <3>2
      <3> QED
        BY <3>1, <3>2
    <2>2. \A b \in Tabs : PageOK(b, tab'[b])
      BY DEF TypePart
    <2> QED
      BY <2>1, <2>2 DEF TypePart, PageOK, OneWrite, HasWrite
  <1>3. ASSUME NEW m, Placed(m) PROVE Placed(m)'
    BY <1>3, PlacedStays
  <1>4. KnownPart'
    <2>1. Spent' \subseteq Opened'
      BY DEF TimerMoves, KnownPart
    <2>2. ASSUME NEW b \in Tabs PROVE tab'[b].view.token \in Opened' \cup {None}
      BY DEF KnownPart
    <2>3. ASSUME NEW w \in told' PROVE w[3] \in Opened'
      <3>1. CASE w \in told
        BY <3>1 DEF KnownPart
      <3>2. CASE w \in Tabs \X {"start", "finish", "discard"} \X Opened'
        BY <3>2
      <3> QED
        BY <3>1, <3>2
    <2>4. ASSUME NEW b \in Tabs, NEW m \in Held(tab'[b].wire) PROVE Placed(m)'
      BY <1>3, <2>4 DEF KnownPart, Waits
    <2>5. ASSUME NEW m \in orphans' PROVE Placed(m)' /\ Unserved(m)
      BY <1>3, <2>5 DEF KnownPart
    <2> QED
      BY <2>1, <2>2, <2>3, <2>4, <2>5 DEF KnownPart, Waits, Held, Unserved, Placed, Opening
  <1>5. AnswerPart'
    <2>1. ASSUME NEW b \in Tabs, NEW m \in Held(tab'[b].wire) PROVE Answer(m)'
      <3>1. CASE m \in Waits(b)
        BY <3>1, AnswerStays DEF KnownPart, AnswerPart
      <3>2. CASE m \notin Waits(b)
        BY <2>1, <3>2 DEF Waits
      <3> QED
        BY <3>1, <3>2
    <2> QED
      BY <2>1 DEF AnswerPart, Waits, Held, Answer, Answered
  <1>6. AnswersHold'
    <2>1. ASSUME NEW w \in told'
          PROVE  /\ w[2] = "finish"  => w[3] \in Spent'
                 /\ w[2] = "discard" => w[3] \notin Spent' \cup {run'.token}
      <3>1. CASE w \in told
        BY <3>1 DEF AnswersHold, TimerMoves, KnownPart
      <3>2. CASE w \notin told
        BY <3>2
      <3> QED
        BY <3>1, <3>2
    <2> QED
      BY <2>1 DEF AnswersHold
  <1>7. SightPart'
    <2>1. ASSUME NEW w \in told'
          PROVE  /\ Sees(w, tab[w[1]].view.token)'
                 /\ \A m \in Held(tab'[w[1]].wire) : Answered(m) => Sees(w, m.run.token)'
      <3>1. CASE w \in told /\ tab'[w[1]] = tab[w[1]]
        <4>1. w[3] \in Opened
          BY <3>1 DEF KnownPart
        <4>2. \A t : Sees(w, t) => Sees(w, t)'
          BY <4>1, SeesStays
        <4>3. /\ Sees(w, tab[w[1]].view.token)
              /\ \A m \in Held(tab[w[1]].wire) : Answered(m) => Sees(w, m.run.token)
          BY <3>1 DEF SightPart, Waits
        <4> QED
          BY <3>1, <4>2, <4>3 DEF Sees
      <3> QED
        BY <3>1
    <2> QED
      BY <2>1 DEF SightPart, Waits, Held, Answered, Sees
  <1> QED
    BY <1>2, <1>4, <1>5, <1>6, <1>7

(* A step that changes one page.                                            *)
LEMMA PageStep ==
    ASSUME DrawerInv, TimerMoves, OncePart', Opened \subseteq Opened',
           NEW b \in Tabs, NEW p \in Pages, PageOK(b, p), tab' = [tab EXCEPT ![b] = p],
           orphans' \in SUBSET Fetches,
           minted \subseteq minted', minted' \in SUBSET Tokens, lost' \in 0..MaxLost,
           run'.token \in Opened' \cup {None},
           p.view.token \in Opened' \cup {None},
           \A m \in Held(p.wire) : m \in Waits(b) \/ (Placed(m)' /\ Answer(m)'),
           \A m \in orphans' : m \in orphans \/ (Placed(m)' /\ Unserved(m)),
           \A w \in told' :
              \/ w \in told
              \/ /\ w \in Tabs \X {"start", "finish", "discard"} \X Opened'
                 /\ w[2] = "finish"  => w[3] \in Spent'
                 /\ w[2] = "discard" => w[3] \notin Spent' \cup {run'.token},
           \A w \in told' :
              \/ w \in told /\ w[1] # b
              \/ /\ w[1] = b /\ Sees(w, p.view.token)'
                 /\ \A m \in Held(p.wire) : Answered(m) => Sees(w, m.run.token)'
    PROVE  DrawerInv'
  <1>1. tab \in [Tabs -> Pages] /\ \A w \in told : w[1] \in Tabs
    BY DEF DrawerInv, TypePart
  <1>2. tab' \in [Tabs -> Pages] /\ tab'[b] = p /\ \A c \in Tabs : c # b => tab'[c] = tab[c]
    BY <1>1
  <1>3. ASSUME NEW c \in Tabs
        PROVE  \/ tab'[c] = tab[c]
               \/ /\ PageOK(c, tab'[c])
                  /\ tab'[c].view.token \in Opened' \cup {None}
                  /\ \A m \in Held(tab'[c].wire) :
                        m \in Waits(c) \/ (Placed(m)' /\ Answer(m)')
    BY <1>2
  <1>4. ASSUME NEW w \in told'
        PROVE  \/ w \in told /\ tab'[w[1]] = tab[w[1]]
               \/ /\ Sees(w, tab[w[1]].view.token)'
                  /\ \A m \in Held(tab'[w[1]].wire) : Answered(m) => Sees(w, m.run.token)'
    BY <1>1, <1>2 DEF Sees
  <1> QED
    BY <1>2, <1>3, <1>4, Frame

(* One that leaves what the page shows and what it was told.                *)
LEMMA QuietStep ==
    ASSUME DrawerInv, TimerMoves, OncePart', Opened \subseteq Opened',
           NEW b \in Tabs, NEW p \in Pages, PageOK(b, p), tab' = [tab EXCEPT ![b] = p],
           p.view = tab[b].view, told' = told,
           orphans' \in SUBSET Fetches,
           minted \subseteq minted', minted' \in SUBSET Tokens, lost' \in 0..MaxLost,
           run'.token \in Opened' \cup {None},
           \A m \in Held(p.wire) :
              \/ m \in Waits(b)
              \/ /\ Placed(m)' /\ Answer(m)'
                 /\ Answered(m) => \A w \in told : Sees(w, m.run.token),
           \A m \in orphans' : m \in orphans \/ (Placed(m)' /\ Unserved(m))
    PROVE  DrawerInv'
  <1> USE DEF DrawerInv
  <1>1. p.view.token \in Opened' \cup {None}
    BY DEF KnownPart
  <1>2. ASSUME NEW w \in told'
        PROVE  \/ w \in told /\ w[1] # b
               \/ /\ w[1] = b /\ Sees(w, p.view.token)'
                  /\ \A m \in Held(p.wire) : Answered(m) => Sees(w, m.run.token)'
    <2> SUFFICES ASSUME w[1] = b
                 PROVE  /\ Sees(w, p.view.token)'
                        /\ \A m \in Held(p.wire) : Answered(m) => Sees(w, m.run.token)'
      OBVIOUS
    <2>1. w \in told /\ w[3] \in Opened
      BY DEF KnownPart
    <2>2. \A t : Sees(w, t) => Sees(w, t)'
      BY <2>1, SeesStays
    <2>3. Sees(w, p.view.token)
      BY <2>1 DEF SightPart
    <2>4. \A m \in Held(p.wire) : Answered(m) => Sees(w, m.run.token)
      BY <2>1 DEF SightPart
    <2> QED
      BY <2>2, <2>3, <2>4
  <1> QED
    BY <1>1, <1>2, PageStep

-----------------------------------------------------------------------------
(* The timer.                                                               *)

(* A step that touches neither the run nor the sessions.                   *)
LEMMA TimerRests ==
    ASSUME run' = run, sessions' = sessions
    PROVE  TimerMoves
  BY DEF TimerMoves, Spent

(* A finish spends its token and no other.                                 *)
LEMMA FinishSpends ==
    ASSUME IInv, NEW t \in Tokens, Finish(t)
    PROVE  Spent' = Spent \cup {t}
  <1> DEFINE e == [token |-> t, seconds |-> Credited(run), started |-> run.started,
                   ended |-> EndedAt(run), target |-> run.target]
  <1>1. sessions' = Append(sessions, e) /\ e.token = t
    BY DEF Finish
  <1>2. PICK S : sessions \in Seq(S) /\ e \in S
    <2>1. sessions \in Seq(SessionRows \cup {e})
      BY DEF IInv, TypeOK
    <2> QED
      BY <2>1
  <1> HIDE DEF e
  <1>3. /\ DOMAIN sessions = 1..Len(sessions) /\ Len(sessions) \in Nat
        /\ DOMAIN sessions' = 1..(Len(sessions) + 1)
        /\ \A i \in 1..Len(sessions) : sessions'[i] = sessions[i]
        /\ sessions'[Len(sessions) + 1] = e
    BY <1>1, <1>2, AppendFacts
  <1>4. Spent' \subseteq Spent \cup {t}
    BY <1>1, <1>3 DEF Spent
  <1>5. t \in Spent'
    BY <1>1, <1>3 DEF Spent
  <1>6. Spent \subseteq Spent'
    BY <1>3 DEF Spent
  <1> QED
    BY <1>4, <1>5, <1>6

(* What one write request does to the timer, answered or not.               *)
LEMMA TimerServes ==
    ASSUME IInv, DrawerInv, NEW m \in Fetches, Placed(m), Unserved(m),
           m.op = "start" => m.token \notin Opened,
           Applies(m) \/ UNCHANGED vars
    PROVE  /\ TimerMoves
           /\ run'.token \in {run.token, None} \/ (m.op = "start" /\ run'.token = m.token)
           /\ [Next]_vars
  <1> DEFINE Goal == /\ TimerMoves
                     /\ run'.token \in {run.token, None}
                        \/ (m.op = "start" /\ run'.token = m.token)
                     /\ [Next]_vars
  <1> USE DEF Unserved
  <1>1. m.token \in Tokens /\ run \in Runs /\ sessions \in Seq(SessionRows)
    BY DEF Placed, Fetches, IInv, TypeOK
  <1>2. NoRun.token = None /\ None \notin Tokens
    BY FocusAssumption DEF NoRun
  <1>3. CASE UNCHANGED vars
    BY <1>3, TimerRests DEF vars
  <1>4. CASE m.op = "start" /\ Start(m.token, m.length, None)
    <2>1. run'.token = m.token /\ sessions' = sessions
      BY <1>4 DEF Start, NoRun
    <2>2. TimerMoves
      BY <1>4, <2>1 DEF TimerMoves, Spent
    <2>3. Next
      BY <1>1, <1>4 DEF Next, Request, Placed
    <2> QED
      BY <1>4, <2>1, <2>2, <2>3
  <1>5. ASSUME Pause(m.token) \/ Resume(m.token) PROVE Goal
    <2>1. run'.token = run.token /\ sessions' = sessions
      BY <1>1, <1>5 DEF Pause, Resume, Runs
    <2>2. TimerMoves
      BY <2>1 DEF TimerMoves, Spent
    <2>3. Next
      BY <1>1, <1>5 DEF Next, Request
    <2> QED
      BY <2>1, <2>2, <2>3
  <1>6. ASSUME Discard(m.token) PROVE Goal
    <2>1. run'.token = None /\ sessions' = sessions
      BY <1>6 DEF Discard, NoRun
    <2>2. None \notin Opened
      BY <1>2 DEF Opened, DrawerInv, TypePart
    <2>3. TimerMoves
      BY <2>1, <2>2 DEF TimerMoves, Spent
    <2>4. Next
      BY <1>1, <1>6 DEF Next, Request
    <2> QED
      BY <2>1, <2>3, <2>4
  <1>7. ASSUME Finish(m.token) PROVE Goal
    <2>1. run.token = m.token /\ run'.token = None
      BY <1>7 DEF Finish, NoRun
    <2>2. None \notin Opened
      BY <1>2 DEF Opened, DrawerInv, TypePart
    <2>3. Spent' = Spent \cup {m.token}
      BY <1>1, <1>7, FinishSpends
    <2>4. TimerMoves
      BY <1>1, <1>2, <2>1, <2>2, <2>3 DEF TimerMoves
    <2>5. Next
      BY <1>1, <1>7 DEF Next, Request
    <2> QED
      BY <2>1, <2>4, <2>5
  <1> QED
    BY <1>3, <1>4, <1>5, <1>6, <1>7 DEF Applies

(* What a write that was done has done.                                     *)
LEMMA Acknowledged ==
    ASSUME IInv, NEW m \in Fetches, m.token \in Tokens, Serve(m, TRUE)
    PROVE  /\ m.op = "finish"  => m.token \in Spent'
           /\ m.op = "discard" => m.token \notin Spent' \cup {run'.token}
  <1>1. NoRun.token = None /\ None \notin Tokens
    BY FocusAssumption DEF NoRun
  <1>2. CASE m.op = "finish"
    <2>1. Finish(m.token) \/ (m.token \in Spent /\ UNCHANGED vars)
      BY <1>2 DEF Serve, Applies, Accepts
    <2>2. ASSUME Finish(m.token) PROVE m.token \in Spent'
      BY <2>2, FinishSpends
    <2> QED
      BY <1>2, <2>1, <2>2 DEF vars, Spent
  <1>3. CASE m.op = "discard"
    <2>1. \/ Discard(m.token)
          \/ ~Running(m) /\ m.token \notin Spent /\ UNCHANGED vars
      BY <1>3 DEF Serve, Applies, Accepts
    <2>2. ASSUME Discard(m.token) PROVE m.token \notin Spent' \cup {run'.token}
      <3>1. m.token \notin Spent
        BY <2>2 DEF Discard, IInv, NoStuckRun
      <3> QED
        BY <1>1, <2>2, <3>1 DEF Discard, Spent
    <2>3. ASSUME ~Running(m), m.token \notin Spent, UNCHANGED vars
          PROVE  m.token \notin Spent' \cup {run'.token}
      BY <1>1, <2>3 DEF Running, vars, Spent
    <2> QED
      BY <1>3, <2>1, <2>2, <2>3
  <1> QED
    BY <1>2, <1>3

-----------------------------------------------------------------------------
(* The steps of a page.                                                     *)

(* The types of one page.                                                  *)
LEMMA PageFacts ==
    ASSUME DrawerInv, NEW b \in Tabs
    PROVE  /\ tab[b] \in Pages /\ PageOK(b, tab[b])
           /\ tab[b].wire \in Seq(Fetches) /\ OneWrite(tab[b].wire)
           /\ tab[b].busy \in BOOLEAN /\ tab[b].view \in Views
           /\ MaxFlight[b] \in Nat \ {0} /\ Len(tab[b].wire) \in Nat
           /\ \A i \in DOMAIN tab[b].wire :
                 tab[b].wire[i] \in Waits(b) /\ tab[b].wire[i] \in Fetches
  <1>1. tab[b] \in Pages /\ PageOK(b, tab[b])
    BY DEF DrawerInv, TypePart
  <1>2. tab[b].wire \in Seq(Fetches) /\ MaxFlight[b] \in Nat \ {0}
    BY <1>1, DrawerAssumption DEF Pages
  <1> QED
    BY <1>1, <1>2 DEF Pages, PageOK, Waits, Held

(* What the running timer may be.                                          *)
LEMMA RunKnown ==
    ASSUME IInv, DrawerInv
    PROVE  /\ run \in Runs /\ run.token \in Opened \cup {None} /\ run.token \notin Spent
           /\ run = NoRun \/ run.token \in Opened
           /\ NoRun \in Runs /\ NoRun.token = None
           /\ None \notin Tokens /\ None \notin Opened
           /\ Opened \subseteq minted /\ minted \subseteq Tokens /\ Spent \subseteq Opened
  <1>1. NoRun \in Runs /\ NoRun.token = None
    BY DEF NoRun, Runs, NotPaused
  <1>2. /\ None \notin Tokens /\ None \notin Opened
        /\ Opened \subseteq minted /\ minted \subseteq Tokens /\ Spent \subseteq Opened
    BY FocusAssumption DEF Opened, DrawerInv, TypePart, KnownPart
  <1>3. run.token \notin Spent
    BY <1>1, <1>2 DEF IInv, NoStuckRun
  <1> QED
    BY <1>1, <1>2, <1>3 DEF IInv, TypeOK, RunShape, DrawerInv, KnownPart

(* The empty slot.                                                         *)
LEMMA NoRunFacts ==
    NoRun \in Runs /\ NoRun.token = None
  BY DEF NoRun, Runs, NotPaused

(* A fetch that asks for the state names no timer.                         *)
LEMMA SyncFetch ==
    /\ Sync \in Fetches /\ Sync.op = "sync" /\ Sync.stage = "sent" /\ Sync.ok = FALSE
    /\ Sync.run = NoRun /\ Sync.token = None
  BY NoRunFacts DEF Sync, Fetch, Fetches, Ops

(* So it is in order in any state.                                         *)
LEMMA SyncInOrder ==
    Placed(Sync)' /\ Answer(Sync)' /\ ~Opening(Sync) /\ ~Answered(Sync)
  BY SyncFetch DEF Placed, Answer, Opening, Answered

(* AsksState, the buttons, autoFinish.                                      *)
LEMMA SendInv ==
    ASSUME IInv, DrawerInv, NEW b \in Tabs, ~tab[b].busy, NEW op \in Ops,
           NEW t \in Tokens \cup {None}, NEW n \in Nat, Send(b, Fetch(op, t, n)),
           IF op = "start" THEN t \in Tokens \ minted /\ n \in Lengths
           ELSE t \in Opened \cup {None},
           op # "sync" => t # None
    PROVE  DrawerInv'
  <1> DEFINE m == Fetch(op, t, n)
             w == tab[b].wire
             p == [tab[b] EXCEPT !.wire = Append(w, m), !.busy = op # "sync"]
  <1>1. /\ m \in Fetches /\ m.op = op /\ m.token = t /\ m.length = n
        /\ m.stage = "sent" /\ m.ok = FALSE /\ m.run = NoRun
    BY NoRunFacts DEF Fetch, Fetches
  <1>2. /\ tab[b] \in Pages /\ w \in Seq(Fetches) /\ ~HasWrite(w)
        /\ MaxFlight[b] \in Nat /\ PageOK(b, tab[b]) /\ tab \in [Tabs -> Pages]
    BY PageFacts DEF PageOK, DrawerInv, TypePart
  <1>3. /\ Append(w, m) \in Seq(Fetches) /\ Len(Append(w, m)) = Len(w) + 1
        /\ Held(Append(w, m)) = Held(w) \cup {m}
        /\ OneWrite(Append(w, m))
        /\ HasWrite(Append(w, m)) <=> op # "sync"
    BY <1>1, <1>2, AppendWire
  <1>4. /\ p \in Pages /\ p.view = tab[b].view /\ p.wire = Append(w, m)
        /\ p.busy = (op # "sync")
    BY <1>2, <1>3 DEF Pages
  <1>5. /\ tab' = [tab EXCEPT ![b] = p] /\ Len(w) < MaxFlight[b]
        /\ minted' = IF op = "start" THEN minted \cup {t} ELSE minted
        /\ UNCHANGED <<vars, orphans, told, lost>>
    BY <1>1, <1>2 DEF Send
  <1>6. PageOK(b, p)
    <2>1. Len(p.wire) <= MaxFlight[b]
      BY <1>2, <1>3, <1>4, <1>5
    <2>2. OneWrite(p.wire) /\ (p.busy <=> HasWrite(p.wire))
      BY <1>3, <1>4
    <2> QED
      BY <1>2, <1>4, <2>1, <2>2 DEF PageOK
  <1> HIDE DEF m, p
  <1>7. TimerMoves /\ run' = run /\ sessions' = sessions
    BY <1>5, TimerRests DEF vars
  <1>8. /\ Waits(b)' = Waits(b) \cup {m}
        /\ \A c \in Tabs : c # b => Waits(c)' = Waits(c)
    BY <1>2, <1>3, <1>4, <1>5 DEF Waits
  <1>9. OncePart' /\ Opened \subseteq Opened'
    <2>1. CASE op = "start"
      <3>1. \A c \in Tabs : \A o \in Waits(c) : Opening(o) => o.token # t
        BY <2>1 DEF DrawerInv, KnownPart, Placed
      <3>2. \A o \in orphans : Opening(o) => o.token # t
        BY <2>1 DEF DrawerInv, KnownPart, Placed
      <3>3. OncePart'
        <4>1. ASSUME NEW c \in Tabs, NEW d \in Tabs, NEW x \in Waits(c)', NEW y \in Waits(d)',
                     Opening(x), Opening(y), x.token = y.token
              PROVE  c = d
          BY <1>1, <1>8, <3>1, <4>1 DEF DrawerInv, OncePart
        <4>2. ASSUME NEW c \in Tabs, NEW x \in Waits(c)', NEW o \in orphans',
                     Opening(x), Opening(o)
              PROVE  x.token # o.token
          BY <1>1, <1>5, <1>8, <3>2, <4>2 DEF DrawerInv, OncePart
        <4>3. ASSUME NEW o \in orphans', NEW y \in orphans',
                     Opening(o), Opening(y), o.token = y.token
              PROVE  o = y
          BY <1>5, <4>3 DEF DrawerInv, OncePart
        <4> QED
          BY <4>1, <4>2, <4>3 DEF OncePart, Waits, Opening
      <3>4. ASSUME NEW x \in Opened PROVE x \in Opened'
        <4>1. x \in minted /\ x # t
          BY <2>1 DEF Opened
        <4>2. \A c \in Tabs : \A o \in Waits(c)' : Opening(o) => o.token # x
          BY <1>1, <1>8, <4>1 DEF Opened
        <4>3. \A o \in orphans' : Opening(o) => o.token # x
          BY <1>5 DEF Opened
        <4> QED
          BY <1>5, <4>1, <4>2, <4>3 DEF Opened, Waits, Opening
      <3> QED
        BY <3>3, <3>4
    <2>2. CASE op # "start"
      <3>1. OpeningsKept
        BY <1>1, <1>5, <1>8, <2>2 DEF OpeningsKept, Opening
      <3> QED
        BY <3>1, OnceKept
    <2> QED
      BY <2>1, <2>2
  <1>10. Placed(m)' /\ Answer(m)' /\ ~Answered(m)
    BY <1>1, <1>5, <1>9 DEF Placed, Answer, Answered, Opening
  <1>11. /\ run'.token \in Opened' \cup {None} /\ minted' \in SUBSET Tokens
         /\ orphans' \in SUBSET Fetches /\ lost' \in 0..MaxLost /\ told' = told
    BY <1>5, <1>7, <1>9 DEF DrawerInv, TypePart, KnownPart
  <1>12. \A x \in Held(p.wire) : x \in Waits(b) \/ x = m
    BY <1>3, <1>4 DEF Waits
  <1> QED
    BY <1>4, <1>5, <1>6, <1>7, <1>9, <1>10, <1>11, <1>12, QuietStep

(* A fetch moves on to its next stage.                                      *)
LEMMA ReplacesFetch ==
    ASSUME DrawerInv, NEW b \in Tabs, NEW i \in DOMAIN tab[b].wire,
           NEW n \in Fetches, n.op = tab[b].wire[i].op, ~Opening(n), NEW p,
           p = [tab[b] EXCEPT !.wire = [tab[b].wire EXCEPT ![i] = n]],
           tab' = [tab EXCEPT ![b] = p], minted' = minted, orphans' = orphans
    PROVE  /\ p \in Pages /\ PageOK(b, p) /\ p.view = tab[b].view
           /\ \A x \in Held(p.wire) : x \in Waits(b) \/ x = n
           /\ OncePart' /\ Opened \subseteq Opened'
           /\ Opening(tab[b].wire[i]) => tab[b].wire[i].token \in Opened'
  <1> DEFINE w == tab[b].wire
             r == [w EXCEPT ![i] = n]
  <1>1. /\ tab[b] \in Pages /\ w \in Seq(Fetches) /\ OneWrite(w) /\ PageOK(b, tab[b])
        /\ w[i] \in Waits(b) /\ w[i] \in Fetches
    BY PageFacts
  <1>2. /\ r \in Seq(Fetches) /\ Len(r) = Len(w) /\ Held(r) \subseteq Held(w) \cup {n}
        /\ OneWrite(r)
        /\ HasWrite(r) <=> HasWrite(w)
        /\ n.op # "sync" => \A x \in Held(r) : x.op # "sync" => x = n
    BY <1>1, ReplacedWire
  <1> HIDE DEF r
  <1>3. p \in Pages /\ p.view = tab[b].view /\ p.wire = r /\ p.busy = tab[b].busy
    BY <1>1, <1>2 DEF Pages, r
  <1>4. PageOK(b, p)
    BY <1>1, <1>2, <1>3 DEF PageOK
  <1>5. /\ Waits(b)' = Held(r)
        /\ \A c \in Tabs : c # b => Waits(c)' = Waits(c)
    BY <1>3 DEF Waits, DrawerInv, TypePart
  <1>6. \A x \in Held(r) : x \in Waits(b) \/ x = n
    BY <1>2 DEF Waits
  <1>7. OpeningsKept
    BY <1>5, <1>6 DEF OpeningsKept
  <1>8. ASSUME Opening(w[i]) PROVE w[i].token \in Opened'
    <2>1. \A x \in Waits(b)' : ~Opening(x)
      BY <1>2, <1>5, <1>8 DEF Opening
    <2>2. w[i].token \in minted
      BY <1>1, <1>8 DEF DrawerInv, KnownPart, Placed
    <2> QED
      BY <1>1, <1>7, <1>8, <2>1, <2>2, ServedOpens
  <1> QED
    BY <1>3, <1>4, <1>6, <1>7, <1>8, OnceKept

(* A write's transaction commits or is refused.                            *)
LEMMA SettlesInv ==
    ASSUME IInv, DrawerInv, NEW b \in Tabs, NEW i \in DOMAIN tab[b].wire,
           NEW ok \in BOOLEAN, Settles(b, i, ok)
    PROVE  DrawerInv' /\ [Next]_vars
  <1> PICK m : m = tab[b].wire[i]
    OBVIOUS
  <1> DEFINE n == [m EXCEPT !.stage = IF ok THEN "settled" ELSE "answered", !.ok = ok]
             p == [tab[b] EXCEPT !.wire = [tab[b].wire EXCEPT ![i] = n]]
  <1>1. /\ m.op # "sync" /\ m.stage = "sent" /\ Serve(m, ok)
        /\ UNCHANGED <<orphans, told, minted, lost>>
    BY DEF Settles
  <1>2. m \in Waits(b) /\ m \in Fetches /\ tab[b] \in Pages /\ tab[b].wire \in Seq(Fetches)
    BY PageFacts
  <1>3. /\ n \in Fetches /\ n.op = m.op /\ n.token = m.token /\ n.run = m.run
        /\ n.length = m.length
        /\ n.stage = (IF ok THEN "settled" ELSE "answered") /\ n.ok = ok
    BY <1>2 DEF Fetches
  <1>4. tab' = [tab EXCEPT ![b] = p]
    <2> DEFINE w  == tab[b].wire
               m1 == [m EXCEPT !.stage = IF ok THEN "settled" ELSE "answered"]
               w1 == [w EXCEPT ![i] = m1]
               p1 == [tab[b] EXCEPT !.wire = w1]
               t1 == [tab EXCEPT ![b] = p1]
    <2>1. w1[i] = m1 /\ [m1 EXCEPT !.ok = ok] = n
      BY <1>2 DEF Fetches
    <2>2. [w1 EXCEPT ![i] = n] = [w EXCEPT ![i] = n]
      BY <1>2
    <2>3. p1.wire = w1 /\ [p1 EXCEPT !.wire = [w EXCEPT ![i] = n]] = p
      BY <1>2 DEF Pages
    <2>4. t1[b] = p1 /\ [t1 EXCEPT ![b] = p] = [tab EXCEPT ![b] = p]
      BY <1>2 DEF DrawerInv, TypePart
    <2>5. tab' = [t1 EXCEPT ![b].wire[i].ok = ok]
      BY DEF Settles
    <2> HIDE DEF m1, w1, p1, t1, n, p, w
    <2>6. tab' = [t1 EXCEPT ![b] =
                    [p1 EXCEPT !.wire = [w1 EXCEPT ![i] = [m1 EXCEPT !.ok = ok]]]]
      BY <2>1, <2>3, <2>4, <2>5
    <2> QED
      BY <2>1, <2>2, <2>3, <2>4, <2>6
  <1>5. Placed(m) /\ m.token \in Tokens
    BY <1>1, <1>2 DEF DrawerInv, KnownPart, Placed, Fetches
  <1>6. Unserved(m) /\ (m.op = "start" => Opening(m) /\ m.token \notin Opened)
    BY <1>1, <1>2 DEF Unserved, Opened, Opening
  <1>7. Applies(m) \/ UNCHANGED vars
    BY <1>1 DEF Serve
  <1>8. /\ TimerMoves /\ [Next]_vars
        /\ run'.token \in {run.token, None} \/ (m.op = "start" /\ run'.token = m.token)
    BY <1>2, <1>5, <1>6, <1>7, TimerServes
  <1> HIDE DEF n
  <1>9. ~Opening(n)
    BY <1>3 DEF Opening
  <1>10. p = [tab[b] EXCEPT !.wire = [tab[b].wire EXCEPT ![i] = n]]
    OBVIOUS
  <1> HIDE DEF p
  <1>11. /\ p \in Pages /\ PageOK(b, p) /\ p.view = tab[b].view
         /\ \A x \in Held(p.wire) : x \in Waits(b) \/ x = n
         /\ OncePart' /\ Opened \subseteq Opened'
         /\ Opening(m) => m.token \in Opened'
    BY <1>1, <1>3, <1>4, <1>9, <1>10, ReplacesFetch
  <1>12. Placed(n)'
    BY <1>3, <1>5, <1>9, <1>11 DEF Placed, Opening
  <1>13. Answer(n)' /\ ~Answered(n)
    <2>1. ASSUME ok PROVE /\ m.op = "finish"  => m.token \in Spent'
                          /\ m.op = "discard" => m.token \notin Spent' \cup {run'.token}
      BY <1>1, <1>2, <1>5, <2>1, Acknowledged
    <2> QED
      BY <1>1, <1>3, <2>1 DEF Answer, Answered
  <1>14. /\ run'.token \in Opened' \cup {None}
         /\ minted' = minted /\ minted' \in SUBSET Tokens
         /\ orphans' = orphans /\ orphans' \in SUBSET Fetches
         /\ lost' \in 0..MaxLost /\ told' = told
    BY <1>1, <1>6, <1>8, <1>11, RunKnown DEF DrawerInv, TypePart
  <1> QED
    BY <1>4, <1>8, <1>11, <1>12, <1>13, <1>14, QuietStep

(* _state reads the answer, after its own write or without one.            *)
LEMMA AnswersInv ==
    ASSUME IInv, DrawerInv, NEW b \in Tabs, NEW i \in DOMAIN tab[b].wire, Answers(b, i)
    PROVE  DrawerInv'
  <1> PICK m : m = tab[b].wire[i]
    OBVIOUS
  <1> PICK e : e = IF run = NoRun THEN 0 ELSE Elapsed(run)
    OBVIOUS
  <1>0. PICK n : n = [m EXCEPT !.stage = "answered", !.ok = TRUE, !.run = run, !.elapsed = e]
    OBVIOUS
  <1> DEFINE p == [tab[b] EXCEPT !.wire = [tab[b].wire EXCEPT ![i] = n]]
  <1>1. /\ m.stage = IF m.op = "sync" THEN "sent" ELSE "settled"
        /\ UNCHANGED <<vars, orphans, told, minted, lost>>
    BY DEF Answers
  <1>2. m \in Waits(b) /\ m \in Fetches /\ tab[b] \in Pages /\ tab[b].wire \in Seq(Fetches)
    BY PageFacts
  <1>3. run \in Runs /\ now \in Nat
    BY DEF IInv, TypeOK
  <1>4. e \in Int
    BY <1>3, FocusAssumption DEF Elapsed, Greatest, Least, Runs, Paused, NotPaused
  <1>5. /\ n \in Fetches /\ n.op = m.op /\ n.token = m.token /\ n.run = run
        /\ n.length = m.length /\ n.stage = "answered" /\ n.ok = TRUE
    BY <1>0, <1>2, <1>3, <1>4 DEF Fetches
  <1>6. tab' = [tab EXCEPT ![b] = p]
    BY <1>0, <1>2 DEF Answers, DrawerInv, TypePart, Pages, Fetches
  <1>7. Placed(m) /\ Answer(m) /\ ~Opening(m)
    BY <1>1, <1>2 DEF DrawerInv, KnownPart, AnswerPart, Opening
  <1>8. TimerMoves /\ run' = run /\ sessions' = sessions
    BY <1>1, TimerRests DEF vars
  <1>9. ~Opening(n)
    BY <1>5 DEF Opening
  <1>10. p = [tab[b] EXCEPT !.wire = [tab[b].wire EXCEPT ![i] = n]]
    OBVIOUS
  <1> HIDE DEF p
  <1>11. /\ p \in Pages /\ PageOK(b, p) /\ p.view = tab[b].view
         /\ \A x \in Held(p.wire) : x \in Waits(b) \/ x = n
         /\ OncePart' /\ Opened \subseteq Opened'
    <2>1. n.op = tab[b].wire[i].op /\ minted' = minted /\ orphans' = orphans
      BY <1>1, <1>5
    <2> QED
      BY <1>5, <1>6, <1>9, <1>10, <2>1, ReplacesFetch
  <1>12. Placed(n)'
    <2>1. m.token \in Opened' \cup {None} /\ (run = NoRun \/ run.token \in Opened')
      BY <1>7, <1>11, RunKnown DEF Placed
    <2>2. /\ m.op # "sync" => m.token # None
          /\ m.op = "start" => m.length \in Lengths
      BY <1>7 DEF Placed
    <2> QED
      BY <1>5, <1>9, <2>1, <2>2 DEF Placed, Opening
  <1>13. Answer(n)'
    <2>1. m.op = "finish" => m.token \in Spent
      BY <1>1, <1>7 DEF Answer
    <2>2. m.op = "discard" => m.token \notin Spent \cup {run.token}
      BY <1>1, <1>7 DEF Answer
    <2>3. Spent' = Spent
      BY <1>8 DEF Spent
    <2> QED
      BY <1>5, <1>8, <2>1, <2>2, <2>3, RunKnown DEF Answer, Answered
  <1>14. \A w \in told : Sees(w, n.run.token)
    <2> SUFFICES ASSUME NEW w \in told PROVE Sees(w, run.token)
      BY <1>5
    <2>1. w[2] = "finish" => w[3] # run.token
      BY RunKnown DEF DrawerInv, AnswersHold
    <2>2. w[2] = "discard" => w[3] # run.token
      BY DEF DrawerInv, AnswersHold
    <2> QED
      BY <2>1, <2>2 DEF Sees
  <1>15. /\ run'.token \in Opened' \cup {None}
         /\ minted' = minted /\ minted' \in SUBSET Tokens
         /\ orphans' = orphans /\ orphans' \in SUBSET Fetches
         /\ lost' \in 0..MaxLost /\ told' = told
    BY <1>1, <1>8, <1>11, RunKnown DEF DrawerInv, TypePart
  <1> QED
    BY <1>6, <1>8, <1>11, <1>12, <1>13, <1>14, <1>15, QuietStep

(* absorb: what a tab was told before and what it is told now.              *)
LEMMA AbsorbsInv ==
    ASSUME IInv, DrawerInv, NEW b \in Tabs, NEW i \in DOMAIN tab[b].wire, Absorbs(b, i)
    PROVE  DrawerInv'
  <1>0. PICK m : m = tab[b].wire[i]
    OBVIOUS
  <1>1. PICK v : v = View(m)
    OBVIOUS
  <1>2. PICK w : w = tab[b].wire
    OBVIOUS
  <1>3. PICK r : r = SubSeq(w, i + 1, Len(w))
    OBVIOUS
  <1>4. PICK p : p = [view |-> v, busy |-> IF m.op = "sync" THEN tab[b].busy ELSE FALSE,
                      wire |-> r]
    OBVIOUS
  <1>5. /\ Answered(m) /\ tab' = [tab EXCEPT ![b] = p] /\ told' = Heard(b, m)
        /\ UNCHANGED <<vars, orphans, minted, lost>>
    BY <1>0, <1>1, <1>2, <1>3, <1>4 DEF Absorbs, Answered
  <1>6. /\ tab[b] \in Pages /\ PageOK(b, tab[b]) /\ w \in Seq(Fetches) /\ OneWrite(w)
        /\ m \in Waits(b) /\ m \in Fetches /\ i \in DOMAIN w /\ m = w[i]
    BY <1>0, <1>2, PageFacts
  <1>7. /\ r \in Seq(Fetches) /\ Len(r) <= Len(w)
        /\ Held(r) \subseteq Held(w) /\ OneWrite(r)
        /\ HasWrite(r) <=> HasWrite(w) /\ m.op = "sync"
        /\ m.op # "sync" => Held(r) = {}
    BY <1>3, <1>6, SuffixWire
  <1>8. Placed(m) /\ Answer(m) /\ ~Opening(m)
    BY <1>5, <1>6 DEF DrawerInv, KnownPart, AnswerPart, Opening, Answered
  <1>9. v \in Views /\ v.token = m.run.token /\ (v = NoView \/ v.token # None)
    <2>1. CASE m.run = NoRun
      BY <1>1, <2>1, NoRunFacts DEF View, NoView, Views
    <2>2. CASE m.run # NoRun
      <3>1. v = ViewAt(m.elapsed, m.run, Paused(m.run))
        BY <1>1, <2>2 DEF View
      <3>2. m.run \in Runs /\ m.elapsed \in Int /\ now \in Nat /\ m.run.token \in Opened
        BY <1>6, <1>8, <2>2 DEF Fetches, Placed, IInv, TypeOK
      <3>3. v \in Views /\ v.token = m.run.token
        BY <3>1, <3>2 DEF ViewAt, Views, Runs, Paused
      <3> QED
        BY <3>2, <3>3, RunKnown
    <2> QED
      BY <2>1, <2>2
  <1>10. p \in Pages /\ p.view = v /\ p.wire = r
         /\ p.busy = IF m.op = "sync" THEN tab[b].busy ELSE FALSE
    BY <1>4, <1>6, <1>7, <1>9 DEF Pages
  <1>11. PageOK(b, p)
    <2>1. Len(p.wire) <= MaxFlight[b]
      BY <1>2, <1>6, <1>7, <1>10, PageFacts DEF PageOK
    <2>2. p.busy <=> HasWrite(p.wire)
      BY <1>2, <1>6, <1>7, <1>10 DEF PageOK, Pages
    <2> QED
      BY <1>7, <1>9, <1>10, <2>1, <2>2 DEF PageOK
  <1>12. TimerMoves /\ run' = run /\ Spent' = Spent
    BY <1>5, TimerRests DEF vars, Spent
  <1>13. \A x \in Held(p.wire) : x \in Waits(b)
    BY <1>2, <1>7, <1>10 DEF Waits
  <1>14. OpeningsKept
    <2>1. Waits(b)' = Held(p.wire) /\ \A c \in Tabs : c # b => Waits(c)' = Waits(c)
      BY <1>5 DEF Waits, DrawerInv, TypePart
    <2> QED
      BY <1>5, <1>13, <2>1 DEF OpeningsKept
  <1>15. OncePart' /\ Opened \subseteq Opened'
    BY <1>14, OnceKept
  <1>16. /\ orphans' = orphans /\ orphans' \in SUBSET Fetches
         /\ minted' = minted /\ minted' \in SUBSET Tokens /\ lost' \in 0..MaxLost
         /\ run'.token \in Opened' \cup {None}
         /\ p.view.token \in Opened' \cup {None}
    BY <1>5, <1>8, <1>9, <1>10, <1>12, <1>15, RunKnown DEF DrawerInv, TypePart, Placed
  <1>17. ASSUME NEW x \in told', x \notin told
         PROVE  /\ x = <<b, m.op, m.token>> /\ m.op \in {"start", "finish", "discard"}
                /\ m.token \in Opened
    <2>1. x = <<b, m.op, m.token>> /\ m.op \in {"start", "finish", "discard"}
      BY <1>5, <1>17 DEF Heard
    <2> QED
      BY <1>8, <2>1 DEF Placed
  <1>18. ASSUME NEW x \in told'
         PROVE  \/ x \in told
                \/ /\ x \in Tabs \X {"start", "finish", "discard"} \X Opened'
                   /\ x[2] = "finish"  => x[3] \in Spent'
                   /\ x[2] = "discard" => x[3] \notin Spent' \cup {run'.token}
    <2> SUFFICES ASSUME x \notin told
                 PROVE  /\ x \in Tabs \X {"start", "finish", "discard"} \X Opened'
                        /\ x[2] = "finish"  => x[3] \in Spent'
                        /\ x[2] = "discard" => x[3] \notin Spent' \cup {run'.token}
      OBVIOUS
    <2>1. /\ x = <<b, m.op, m.token>> /\ m.op \in {"start", "finish", "discard"}
          /\ m.token \in Opened
      BY <1>17
    <2> QED
      BY <1>5, <1>8, <1>12, <1>15, <2>1 DEF Answer, Answered
  <1>19. ASSUME NEW x \in told'
         PROVE  \/ x \in told /\ x[1] # b
                \/ /\ x[1] = b /\ Sees(x, p.view.token)'
                   /\ \A y \in Held(p.wire) : Answered(y) => Sees(x, y.run.token)'
    <2> SUFFICES ASSUME ~(x \in told /\ x[1] # b)
                 PROVE  /\ x[1] = b /\ Sees(x, p.view.token)'
                        /\ \A y \in Held(p.wire) : Answered(y) => Sees(x, y.run.token)'
      OBVIOUS
    <2>1. \A t : Sees(x, t) => Sees(x, t)'
      BY <1>12 DEF Sees
    <2>2. CASE x \in told
      <3>1. Sees(x, m.run.token)
        BY <1>5, <1>6, <2>2 DEF DrawerInv, SightPart
      <3>2. \A y \in Held(p.wire) : Answered(y) => Sees(x, y.run.token)
        BY <1>13, <2>2 DEF DrawerInv, SightPart
      <3> QED
        BY <1>9, <1>10, <2>1, <2>2, <3>1, <3>2
    <2>3. CASE x \notin told
      <3>1. x = <<b, m.op, m.token>> /\ m.op \in {"start", "finish", "discard"}
        BY <1>17, <2>3
      <3>2. Sees(x, m.run.token)
        BY <1>5, <1>8, <3>1 DEF Sees, Answer
      <3>3. Held(p.wire) = {}
        BY <1>7, <1>10, <3>1
      <3> QED
        BY <1>9, <1>10, <2>1, <3>1, <3>2, <3>3
    <2> QED
      BY <2>2, <2>3
  <1> QED
    BY <1>5, <1>10, <1>11, <1>12, <1>13, <1>15, <1>16, <1>18, <1>19, PageStep

(* A fetch whose answer says no, or that gets none.                         *)
LEMMA DropsInv ==
    ASSUME IInv, DrawerInv, NEW b \in Tabs, NEW i \in DOMAIN tab[b].wire,
           NEW m, m = tab[b].wire[i],
           tab' = [tab EXCEPT
              ![b].busy = IF m.op = "sync" THEN @ ELSE FALSE,
              ![b].wire = IF m.op = "sync" THEN Without(@, i)
                          ELSE Append(Without(@, i), Sync)],
           orphans' = IF Unserved(m) THEN orphans \cup {m} ELSE orphans,
           lost' \in 0..MaxLost, UNCHANGED <<vars, told, minted>>
    PROVE  DrawerInv'
  <1>1. PICK w : w = tab[b].wire
    OBVIOUS
  <1>2. PICK r : r = IF m.op = "sync" THEN Without(w, i) ELSE Append(Without(w, i), Sync)
    OBVIOUS
  <1>3. PICK p : p = [tab[b] EXCEPT !.busy = IF m.op = "sync" THEN @ ELSE FALSE, !.wire = r]
    OBVIOUS
  <1>4. /\ tab[b] \in Pages /\ PageOK(b, tab[b]) /\ w \in Seq(Fetches) /\ OneWrite(w)
        /\ m \in Waits(b) /\ m \in Fetches /\ i \in DOMAIN w /\ m = w[i]
        /\ Len(w) \in Nat /\ MaxFlight[b] \in Nat \ {0} /\ Len(w) <= MaxFlight[b]
    BY <1>1, PageFacts DEF PageOK
  <1>5. /\ Without(w, i) \in Seq(Fetches) /\ Len(Without(w, i)) = Len(w) - 1
        /\ Held(Without(w, i)) \subseteq Held(w)
        /\ OneWrite(Without(w, i))
        /\ HasWrite(Without(w, i)) <=> HasWrite(w) /\ m.op = "sync"
    BY <1>4, WithoutWire
  <1>6. /\ r \in Seq(Fetches) /\ Len(r) <= Len(w)
        /\ \A x \in Held(r) : x \in Held(w) \/ x = Sync
        /\ OneWrite(r)
        /\ HasWrite(r) <=> HasWrite(w) /\ m.op = "sync"
    <2>1. CASE m.op = "sync"
      BY <1>2, <1>4, <1>5, <2>1
    <2>2. CASE m.op # "sync"
      <3>1. r = Append(Without(w, i), Sync) /\ ~HasWrite(Without(w, i))
        BY <1>2, <1>5, <2>2
      <3>2. /\ r \in Seq(Fetches) /\ Len(r) = Len(Without(w, i)) + 1
            /\ Held(r) = Held(Without(w, i)) \cup {Sync}
            /\ OneWrite(r)
            /\ ~HasWrite(r)
        BY <1>5, <3>1, SyncFetch, AppendWire
      <3> QED
        BY <1>4, <1>5, <2>2, <3>2
    <2> QED
      BY <2>1, <2>2
  <1>7. /\ p \in Pages /\ p.view = tab[b].view /\ p.wire = r
        /\ p.busy = IF m.op = "sync" THEN tab[b].busy ELSE FALSE
    BY <1>3, <1>4, <1>6 DEF Pages
  <1>8. tab' = [tab EXCEPT ![b] = p]
    BY <1>1, <1>2, <1>3, <1>4 DEF DrawerInv, TypePart, Pages
  <1>9. PageOK(b, p)
    <2>1. Len(p.wire) <= MaxFlight[b]
      BY <1>4, <1>6, <1>7
    <2>2. p.busy <=> HasWrite(p.wire)
      BY <1>1, <1>4, <1>6, <1>7 DEF PageOK, Pages
    <2> QED
      BY <1>4, <1>6, <1>7, <2>1, <2>2 DEF PageOK
  <1>10. TimerMoves /\ run' = run
    BY TimerRests DEF vars
  <1>11. \A x \in Held(p.wire) : x \in Waits(b) \/ x = Sync
    BY <1>1, <1>6, <1>7 DEF Waits
  <1>12. OpeningsKept
    <2>1. Waits(b)' = Held(p.wire) /\ \A c \in Tabs : c # b => Waits(c)' = Waits(c)
      BY <1>8 DEF Waits, DrawerInv, TypePart
    <2>2. m.op # "sync" => \A x \in Waits(b)' : ~Opening(x)
      BY <1>6, <1>7, <2>1 DEF HasWrite, Held, Opening
    <2> QED
      BY <1>4, <1>11, <2>1, <2>2, SyncInOrder DEF OpeningsKept, Unserved
  <1>13. OncePart' /\ Opened \subseteq Opened'
    BY <1>12, OnceKept
  <1>14. \A x \in orphans' : x \in orphans \/ (Placed(x)' /\ Unserved(x))
    <2>1. Placed(m)
      BY <1>4 DEF DrawerInv, KnownPart
    <2>2. Placed(m)'
      BY <1>13, <2>1, PlacedStays
    <2> QED
      BY <2>2
  <1>15. /\ orphans' \in SUBSET Fetches /\ told' = told
         /\ minted' = minted /\ minted' \in SUBSET Tokens
         /\ run'.token \in Opened' \cup {None}
    BY <1>4, <1>10, <1>13, RunKnown DEF DrawerInv, TypePart
  <1>16. \A x \in Held(p.wire) :
            \/ x \in Waits(b)
            \/ /\ Placed(x)' /\ Answer(x)'
               /\ Answered(x) => \A t \in told : Sees(t, x.run.token)
    <2> SUFFICES ASSUME NEW x, x = Sync PROVE Placed(x)' /\ Answer(x)' /\ ~Answered(x)
      BY <1>11
    <2> QED
      BY SyncFetch DEF Placed, Answer, Answered, Opening
  <1> QED
    BY <1>7, <1>8, <1>9, <1>10, <1>13, <1>14, <1>15, <1>16, QuietStep

(* A reload forgets what the page was told and leaves its write behind.    *)
LEMMA NavigatesInv ==
    ASSUME IInv, DrawerInv, NEW b \in Tabs, Navigates(b)
    PROVE  DrawerInv'
  <1>1. PICK p : p = [Fresh EXCEPT !.wire = <<Sync>>]
    OBVIOUS
  <1>2. PICK U : U = {tab[b].wire[i] :
                        i \in {k \in DOMAIN tab[b].wire : Unserved(tab[b].wire[k])}}
    OBVIOUS
  <1>3. /\ lost < MaxLost /\ lost' = lost + 1 /\ orphans' = orphans \cup U
        /\ tab' = [tab EXCEPT ![b] = p] /\ told' = {w \in told : w[1] # b}
        /\ UNCHANGED <<vars, minted>>
    BY <1>1, <1>2 DEF Navigates
  <1>4. \A m \in U : m \in Waits(b) /\ m \in Fetches /\ Unserved(m)
    BY <1>2, PageFacts
  <1>5. NoView \in Views /\ NoView.token = None
    BY DEF NoView, Views
  <1>6. p \in Pages /\ p.view = NoView /\ p.busy = FALSE /\ p.wire = <<Sync>>
    <2>1. <<Sync>> \in Seq(Fetches)
      BY SyncFetch
    <2>2. Fresh \in Pages /\ Fresh.view = NoView /\ Fresh.busy = FALSE
      BY <1>5 DEF Fresh, Pages
    <2> QED
      BY <1>1, <2>1, <2>2 DEF Pages
  <1>7. /\ Len(p.wire) = 1 /\ DOMAIN p.wire = {1} /\ p.wire[1] = Sync
        /\ Held(p.wire) = {Sync}
    BY <1>6 DEF Held
  <1>8. PageOK(b, p)
    <2>1. Len(p.wire) <= MaxFlight[b]
      BY <1>7, PageFacts
    <2>2. OneWrite(p.wire) /\ ~HasWrite(p.wire)
      BY <1>7, SyncFetch DEF OneWrite, HasWrite
    <2> QED
      BY <1>6, <2>1, <2>2 DEF PageOK
  <1>9. TimerMoves /\ run' = run
    BY <1>3, TimerRests DEF vars
  <1>10. OpeningsKept
    <2>1. Waits(b)' = {Sync} /\ \A c \in Tabs : c # b => Waits(c)' = Waits(c)
      BY <1>3, <1>7 DEF Waits, DrawerInv, TypePart
    <2> QED
      BY <1>3, <1>4, <2>1, SyncInOrder DEF OpeningsKept
  <1>11. OncePart' /\ Opened \subseteq Opened'
    BY <1>10, OnceKept
  <1>12. \A m \in orphans' : m \in orphans \/ (Placed(m)' /\ Unserved(m))
    <2> SUFFICES ASSUME NEW m \in U PROVE Placed(m)' /\ Unserved(m)
      BY <1>3
    <2>1. Placed(m)
      BY <1>4 DEF DrawerInv, KnownPart
    <2> QED
      BY <1>3, <1>4, <1>11, <2>1, PlacedStays
  <1>13. /\ orphans' \in SUBSET Fetches /\ minted' = minted /\ minted' \in SUBSET Tokens
         /\ lost' \in 0..MaxLost /\ run'.token \in Opened' \cup {None}
         /\ p.view.token \in Opened' \cup {None}
    BY <1>3, <1>4, <1>5, <1>6, <1>9, <1>11, RunKnown, DrawerAssumption DEF DrawerInv, TypePart
  <1>14. \A m \in Held(p.wire) : m \in Waits(b) \/ (Placed(m)' /\ Answer(m)')
    <2> SUFFICES ASSUME NEW m, m = Sync PROVE Placed(m)' /\ Answer(m)'
      BY <1>7
    <2> QED
      BY SyncFetch DEF Placed, Answer, Answered, Opening
  <1>15. \A w \in told' : w \in told /\ w[1] # b
    BY <1>3
  <1> QED
    BY <1>3, <1>6, <1>8, <1>9, <1>11, <1>12, <1>13, <1>14, <1>15, PageStep

(* A write nobody waits for any more reaches the server, or never does.     *)
LEMMA OrphanInv ==
    ASSUME IInv, DrawerInv, NEW m \in orphans, ServesOrphan(m)
    PROVE  DrawerInv' /\ [Next]_vars
  <1>1. /\ orphans' = orphans \ {m}
        /\ Applies(m) \/ UNCHANGED vars
        /\ UNCHANGED <<tab, told, minted, lost>>
    BY DEF ServesOrphan
  <1>2. m \in Fetches /\ Placed(m) /\ Unserved(m) /\ m.token \in minted \cup Opened
    BY DEF DrawerInv, TypePart, KnownPart, Placed, Unserved
  <1>3. m.op = "start" => Opening(m) /\ m.token \notin Opened
    BY <1>2 DEF Opened, Opening, Unserved
  <1>4. /\ TimerMoves /\ [Next]_vars
        /\ run'.token \in {run.token, None} \/ (m.op = "start" /\ run'.token = m.token)
    BY <1>1, <1>2, <1>3, TimerServes
  <1>5. \A c \in Tabs : Waits(c)' = Waits(c)
    BY <1>1 DEF Waits
  <1>6. OpeningsKept
    BY <1>1, <1>5 DEF OpeningsKept
  <1>7. OncePart' /\ Opened \subseteq Opened'
    BY <1>6, OnceKept
  <1>8. m.op = "start" => m.token \in Opened'
    <2> SUFFICES ASSUME Opening(m) PROVE m.token \in Opened'
      BY <1>3
    <2>1. m \in orphans \ orphans' /\ orphans' \subseteq orphans /\ m.token \in minted
      BY <1>1, <1>2, RunKnown
    <2> QED
      BY <1>6, <2>1, ServedOpens
  <1>9. /\ tab' \in [Tabs -> Pages] /\ \A b \in Tabs : tab'[b] = tab[b]
        /\ orphans' \in SUBSET Fetches /\ minted \subseteq minted'
        /\ minted' \in SUBSET Tokens /\ lost' \in 0..MaxLost
        /\ run'.token \in Opened' \cup {None}
        /\ \A x \in orphans' : x \in orphans
        /\ \A w \in told' : w \in told /\ tab'[w[1]] = tab[w[1]]
    BY <1>1, <1>4, <1>7, <1>8, RunKnown DEF DrawerInv, TypePart
  <1> QED
    BY <1>4, <1>7, <1>9, Frame

(* Time passes.                                                            *)
LEMMA StillInv ==
    ASSUME IInv, DrawerInv, run' = run, sessions' = sessions, UNCHANGED drawerVars
    PROVE  DrawerInv'
  <1>1. UNCHANGED <<tab, orphans, told, minted, lost>>
    BY DEF drawerVars
  <1>2. TimerMoves
    BY TimerRests
  <1>3. \A c \in Tabs : Waits(c)' = Waits(c)
    BY <1>1 DEF Waits
  <1>4. OncePart' /\ Opened \subseteq Opened'
    BY <1>1, <1>3, OnceKept DEF OpeningsKept
  <1>5. /\ tab' \in [Tabs -> Pages] /\ \A b \in Tabs : tab'[b] = tab[b]
        /\ orphans' \in SUBSET Fetches /\ minted \subseteq minted'
        /\ minted' \in SUBSET Tokens /\ lost' \in 0..MaxLost
        /\ run'.token \in Opened' \cup {None}
        /\ \A x \in orphans' : x \in orphans
        /\ \A w \in told' : w \in told /\ tab'[w[1]] = tab[w[1]]
    BY <1>1, <1>4, RunKnown DEF DrawerInv, TypePart
  <1> QED
    BY <1>2, <1>4, <1>5, Frame

-----------------------------------------------------------------------------
(* The whole drawer.                                                        *)

(* Empty pages over an empty table.                                        *)
LEMMA DrawerInitially ==
    ASSUME DrawerInit
    PROVE  IInv /\ DrawerInv
  <1> USE DEF DrawerInit
  <1>1. IInv
    BY Initially
  <1>2. run = NoRun /\ Spent = {} /\ NoRun.token = None
    BY NoRunFacts DEF Init, Spent
  <1>3. Fresh \in Pages /\ Fresh.view = NoView /\ Fresh.wire = <<>> /\ Fresh.busy = FALSE
    BY DEF Fresh, Pages, NoView, Views
  <1>4. Held(<<>>) = {} /\ OneWrite(<<>>) /\ ~HasWrite(<<>>) /\ Len(<<>>) = 0
    BY DEF Held, OneWrite, HasWrite
  <1>5. \A b \in Tabs : PageOK(b, Fresh)
    BY <1>3, <1>4, DrawerAssumption DEF PageOK
  <1>6. \A b \in Tabs : tab[b] = Fresh /\ Waits(b) = {}
    BY <1>3, <1>4 DEF Waits
  <1>7. TypePart
    BY <1>3, <1>5, DrawerAssumption DEF TypePart
  <1>8. OncePart /\ AnswerPart /\ AnswersHold /\ SightPart
    BY <1>6 DEF OncePart, AnswerPart, AnswersHold, SightPart
  <1>9. KnownPart
    BY <1>2, <1>3, <1>6 DEF KnownPart, NoView
  <1> QED
    BY <1>1, <1>7, <1>8, <1>9 DEF DrawerInv

(* Every request a page sends names its timer, or opens a new one.          *)
LEMMA AsksInv ==
    ASSUME IInv, DrawerInv, NEW b \in Tabs, AsksState(b) \/ Presses(b) \/ AutoFinishes(b)
    PROVE  DrawerInv' /\ UNCHANGED vars
  <1>1. \A op, t, n : Send(b, Fetch(op, t, n)) => UNCHANGED vars
    BY DEF Send
  <1>2. tab[b].view # NoView => tab[b].view.token \in Opened
    BY DEF DrawerInv, TypePart, PageOK, KnownPart
  <1>3. 0 \in Nat /\ Opened \subseteq Tokens /\ None \notin Tokens
    BY RunKnown
  <1>4. CASE AsksState(b)
    BY <1>1, <1>3, <1>4, SendInv DEF AsksState, Sync, Ops
  <1>5. ASSUME NEW t \in Tokens, NEW n \in Lengths, PressesStart(b, t, n)
        PROVE  DrawerInv' /\ UNCHANGED vars
    <2>1. n \in Nat /\ t \in Tokens \ minted /\ t # None /\ "start" \in Ops
      BY <1>3, <1>5, FocusAssumption DEF PressesStart, Ops
    <2> QED
      BY <1>1, <1>5, <2>1, SendInv DEF PressesStart
  <1>6. ASSUME NEW op \in {"pause", "resume", "finish", "discard"}, ~tab[b].busy,
               tab[b].view # NoView, Send(b, Fetch(op, tab[b].view.token, 0))
        PROVE  DrawerInv' /\ UNCHANGED vars
    <2>1. op \in Ops /\ op # "sync" /\ op # "start"
      BY DEF Ops
    <2> QED
      BY <1>1, <1>2, <1>3, <1>6, <2>1, SendInv
  <1>7. CASE PressesPause(b)
    BY <1>6, <1>7 DEF PressesPause
  <1>8. CASE PressesStop(b)
    BY <1>6, <1>8 DEF PressesStop
  <1>9. CASE PressesDiscard(b)
    BY <1>6, <1>9 DEF PressesDiscard
  <1>10. CASE AutoFinishes(b)
    BY <1>6, <1>10 DEF AutoFinishes
  <1> QED
    BY <1>4, <1>5, <1>7, <1>8, <1>9, <1>10 DEF Presses

(* Every step of a fetch.                                                  *)
LEMMA MovesInv ==
    ASSUME IInv, DrawerInv, NEW b \in Tabs, NEW i \in DOMAIN tab[b].wire,
           Moves(b, i) \/ LosesAnswer(b, i)
    PROVE  DrawerInv' /\ [Next]_vars
  <1>1. ASSUME NEW ok \in BOOLEAN, Settles(b, i, ok) PROVE DrawerInv' /\ [Next]_vars
    BY <1>1, SettlesInv
  <1>2. CASE Answers(b, i)
    BY <1>2, AnswersInv DEF Answers
  <1>3. CASE Absorbs(b, i)
    BY <1>3, AbsorbsInv DEF Absorbs
  <1>4. CASE ShowsRefusal(b, i)
    <2>1. PICK m : m = tab[b].wire[i]
      OBVIOUS
    <2>2. /\ m.stage = "answered" /\ ~m.ok /\ UNCHANGED <<vars, orphans, told, minted, lost>>
          /\ tab' = [tab EXCEPT ![b].busy = FALSE,
                                ![b].wire = Append(Without(@, i), Sync)]
      BY <1>4, <2>1 DEF ShowsRefusal
    <2>3. m.op # "sync"
      BY <2>1, <2>2, PageFacts DEF DrawerInv, AnswerPart, Answer
    <2>4. /\ tab' = [tab EXCEPT
                        ![b].busy = IF m.op = "sync" THEN @ ELSE FALSE,
                        ![b].wire = IF m.op = "sync" THEN Without(@, i)
                                    ELSE Append(Without(@, i), Sync)]
          /\ orphans' = IF Unserved(m) THEN orphans \cup {m} ELSE orphans
          /\ lost' \in 0..MaxLost
      BY <2>2, <2>3 DEF Unserved, DrawerInv, TypePart
    <2> QED
      BY <2>1, <2>2, <2>4, DropsInv
  <1>5. CASE LosesAnswer(b, i)
    <2>1. PICK m : m = tab[b].wire[i]
      OBVIOUS
    <2>2. /\ lost < MaxLost /\ lost' = lost + 1 /\ UNCHANGED <<vars, told, minted>>
          /\ orphans' = IF Unserved(m) THEN orphans \cup {m} ELSE orphans
          /\ tab' = [tab EXCEPT
                        ![b].busy = IF m.op = "sync" THEN @ ELSE FALSE,
                        ![b].wire = IF m.op = "sync" THEN Without(@, i)
                                    ELSE Append(Without(@, i), Sync)]
      BY <1>5, <2>1 DEF LosesAnswer
    <2>3. lost' \in 0..MaxLost
      BY <2>2, DrawerAssumption DEF DrawerInv, TypePart
    <2> QED
      BY <2>1, <2>2, <2>3, DropsInv
  <1> QED
    BY <1>1, <1>2, <1>3, <1>4, <1>5 DEF Moves

(* Every step of the drawer keeps the invariant and does to the timer what  *)
(* one request of FocusTimer does, or nothing.                              *)
LEMMA DrawerStep ==
    ASSUME IInv, DrawerInv, [DrawerNext]_allVars
    PROVE  IInv' /\ DrawerInv' /\ [Next]_vars
  <1>1. DrawerInv' /\ [Next]_vars
    <2>1. ASSUME NEW b \in Tabs, AsksState(b) \/ Presses(b) \/ AutoFinishes(b)
          PROVE  DrawerInv' /\ [Next]_vars
      BY <2>1, AsksInv
    <2>2. ASSUME NEW b \in Tabs, Navigates(b) PROVE DrawerInv' /\ [Next]_vars
      BY <2>2, NavigatesInv DEF Navigates
    <2>3. ASSUME NEW b \in Tabs, NEW i \in DOMAIN tab[b].wire,
                 Moves(b, i) \/ LosesAnswer(b, i)
          PROVE  DrawerInv' /\ [Next]_vars
      BY <2>3, MovesInv
    <2>4. ASSUME NEW m \in orphans, ServesOrphan(m) PROVE DrawerInv' /\ [Next]_vars
      BY <2>4, OrphanInv
    <2>5. CASE Passes
      BY <2>5, StillInv DEF Passes, Tick, Next
    <2>6. CASE UNCHANGED allVars
      BY <2>6, StillInv DEF allVars, vars
    <2> QED
      BY <2>1, <2>2, <2>3, <2>4, <2>5, <2>6 DEF DrawerNext
  <1> QED
    BY <1>1, StepInv

(* Whatever the tabs send, in whatever order it arrives, is lost or arrives *)
(* late, the timer is one that FocusTimer specifies: so each theorem about  *)
(* Spec holds of the drawer.                                                *)
THEOREM DrawerImplements == DrawerSpec => Spec
  <1>1. DrawerInit => Init
    BY DEF DrawerInit
  <1> QED
    BY <1>1, DrawerInitially, DrawerStep, PTL DEF DrawerSpec, Spec

(* The three parts that TabsHonest names follow from the invariant.         *)
LEMMA HonestParts ==
    ASSUME IInv, DrawerInv
    PROVE  TabsHonest
  <1>1. ASSUME NEW b \in Tabs
        PROVE  /\ tab[b].view.token \in Tokens \cup {None}
               /\ Len(tab[b].wire) <= MaxFlight[b]
               /\ tab[b].busy <=> \E i \in DOMAIN tab[b].wire : tab[b].wire[i].op # "sync"
               /\ \A i \in DOMAIN tab[b].wire :
                     tab[b].wire[i].op # "sync" => i = Len(tab[b].wire)
    BY PageFacts DEF PageOK, OneWrite, HasWrite, Views
  <1>2. DrawerTypeOK
    BY <1>1 DEF DrawerTypeOK, DrawerInv, TypePart
  <1>3. AnswersHold
    BY DEF DrawerInv
  <1>4. OwnWritesStay
    BY DEF OwnWritesStay, DrawerInv, SightPart, Sees
  <1> QED
    BY <1>2, <1>3, <1>4 DEF TabsHonest

(* What a tab was told of its own start, finish or discard is true and      *)
(* stays true, and the tab never shows anything else, for any number of     *)
(* tabs, requests under way, lost answers and reloads (focus-timer.ts over  *)
(* services/focus.py).                                                      *)
THEOREM TabsAreHonest == DrawerSpec => []TabsHonest
  <1>1. DrawerSpec => [](IInv /\ DrawerInv)
    BY DrawerInitially, DrawerStep, PTL DEF DrawerSpec
  <1>2. IInv /\ DrawerInv => TabsHonest
    BY HonestParts
  <1> QED
    BY <1>1, <1>2, PTL

===============================================================================
