------------------------------ MODULE FocusTimer ------------------------------
(***************************************************************************)
(* The focus timer of app/services/focus.py: the one running timer of      *)
(* focus_runs, the finished spans of focus_sessions with their ledger      *)
(* events, and the targets they are attributed to.                         *)
(*                                                                         *)
(* Every write runs under BEGIN IMMEDIATE or is one transaction, so each   *)
(* is one action.  A refused request changes nothing: the router answers   *)
(* 422 after the rollback.  `now` is the wall clock that now_iso() reads,  *)
(* in seconds, and is assumed not to be set back.                          *)
(***************************************************************************)
EXTENDS Integers, Sequences

CONSTANTS
    Tokens,           \* client_token values
    Targets,          \* lessons, tasks and habits a timer can be aimed at
    Habits,           \* the targets among them that can be hard-deleted
    Lengths,          \* target_seconds a client asks for; 0 is the open mode
    MinTarget,        \* MIN_TARGET_SECONDS
    MaxTarget,        \* MAX_TARGET_SECONDS
    MaxSeconds,       \* MAX_SECONDS
    Horizon,          \* bound: the clock
    None              \* NULL

ASSUME FocusAssumption ==
    /\ Habits \subseteq Targets /\ Lengths \subseteq Nat
    /\ MinTarget \in Nat \ {0} /\ MaxTarget \in Nat /\ MaxSeconds \in Nat \ {0}
    /\ MaxTarget <= MaxSeconds
    /\ Horizon \in Nat
    /\ None \notin Tokens \cup Targets

VARIABLES
    run,              \* the row of focus_runs, NoRun when the table is empty
    sessions,         \* focus_sessions by id
    ledger,           \* the focus_session_recorded events
    status,           \* the liveness of each target, as other services leave it
    now               \* the clock

vars == <<run, sessions, ledger, status, now>>

NotPaused == -1

NoRun == [token |-> None, length |-> 0, started |-> 0, pausedAt |-> NotPaused,
          pausedSeconds |-> 0, target |-> None]

Init ==
    /\ run = NoRun
    /\ sessions = <<>>
    /\ ledger = <<>>
    /\ status = [x \in Targets |-> "live"]
    /\ now = 0

Least(a, b)    == IF a < b THEN a ELSE b
Greatest(a, b) == IF a > b THEN a ELSE b

Spent == {sessions[i].token : i \in DOMAIN sessions}

Paused(r) == r.pausedAt # NotPaused
Cap(r)    == IF r.length > 0 THEN r.length ELSE MaxSeconds

(* _elapsed_seconds: wall time since the start minus every pause.           *)
Elapsed(r) ==
    LET inFlight == IF Paused(r) THEN Greatest(0, now - r.pausedAt) ELSE 0
    IN  Greatest(0, Least(now - r.started - (r.pausedSeconds + inFlight), MaxSeconds))

(* _capped_end: when a full run reached its cap.                            *)
CappedEnd(r) ==
    Least(r.started + Cap(r) + r.pausedSeconds, IF Paused(r) THEN r.pausedAt ELSE now)

(* What a finish stores as the duration and as ended_at.                    *)
Credited(r) == Least(Elapsed(r), Cap(r))
EndedAt(r) ==
    IF Elapsed(r) >= Cap(r) THEN CappedEnd(r)
    ELSE IF Paused(r) THEN r.pausedAt ELSE now

-----------------------------------------------------------------------------
(* The requests.                                                            *)

(* Mutant: a spent token opens a second run.                                *)
StartAgain(t, n, x) ==
    /\ run = NoRun
    /\ n = 0 \/ n \in MinTarget..MaxTarget
    /\ x # None => status[x] = "live"
    /\ run' = [NoRun EXCEPT !.token = t, !.length = n, !.started = now, !.target = x]
    /\ UNCHANGED <<sessions, ledger, status, now>>

Start(t, n, x) ==
    /\ run = NoRun
    /\ t \notin Spent
    /\ n = 0 \/ n \in MinTarget..MaxTarget
    /\ x # None => status[x] = "live"
    /\ run' = [NoRun EXCEPT !.token = t, !.length = n, !.started = now, !.target = x]
    /\ UNCHANGED <<sessions, ledger, status, now>>

(* Mutant: a full run can be paused.                                        *)
PauseLate(t) ==
    /\ run.token = t /\ run # NoRun
    /\ ~Paused(run)
    /\ run' = [run EXCEPT !.pausedAt = now]
    /\ UNCHANGED <<sessions, ledger, status, now>>

Pause(t) ==
    /\ run.token = t /\ run # NoRun
    /\ ~Paused(run)
    /\ Elapsed(run) < Cap(run)
    /\ run' = [run EXCEPT !.pausedAt = now]
    /\ UNCHANGED <<sessions, ledger, status, now>>

Resume(t) ==
    /\ run.token = t /\ run # NoRun
    /\ Paused(run)
    /\ run' = [run EXCEPT !.pausedAt = NotPaused,
                          !.pausedSeconds = @ + Greatest(0, now - run.pausedAt)]
    /\ UNCHANGED <<sessions, ledger, status, now>>

Discard(t) ==
    /\ run.token = t /\ run # NoRun
    /\ run' = NoRun
    /\ UNCHANGED <<sessions, ledger, status, now>>

(* Mutant: the target is coerced again against what is live at the end.     *)
FinishCoerced(t) ==
    LET x == IF run.target # None /\ status[run.target] # "live" THEN None ELSE run.target
    IN  /\ run.token = t /\ run # NoRun
        /\ Credited(run) > 0
        /\ sessions' = Append(sessions,
              [token |-> t, seconds |-> Credited(run), started |-> run.started,
               ended |-> EndedAt(run), target |-> x])
        /\ ledger' = Append(ledger,
              [session |-> Len(sessions'), seconds |-> Credited(run), target |-> x])
        /\ run' = NoRun
        /\ UNCHANGED <<status, now>>

(* Mutant: the event carries the span before it was capped.                 *)
FinishUncapped(t) ==
    /\ run.token = t /\ run # NoRun
    /\ Credited(run) > 0
    /\ t \notin Spent
    /\ sessions' = Append(sessions,
          [token |-> t, seconds |-> Credited(run), started |-> run.started,
           ended |-> EndedAt(run), target |-> run.target])
    /\ ledger' = Append(ledger,
          [session |-> Len(sessions'), seconds |-> Elapsed(run), target |-> run.target])
    /\ run' = NoRun
    /\ UNCHANGED <<status, now>>

(* finish_run: price the run, delete it, write the session and its event.   *)
Finish(t) ==
    /\ run.token = t /\ run # NoRun
    /\ Credited(run) > 0
    /\ t \notin Spent
    /\ sessions' = Append(sessions,
          [token |-> t, seconds |-> Credited(run), started |-> run.started,
           ended |-> EndedAt(run), target |-> run.target])
    /\ ledger' = Append(ledger,
          [session |-> Len(sessions'), seconds |-> Credited(run), target |-> run.target])
    /\ run' = NoRun
    /\ UNCHANGED <<status, now>>

-----------------------------------------------------------------------------
(* What other services do to the targets, and time.                         *)

(* Archiving a lesson, retiring a habit, completing a task; and back.       *)
Retire(x) ==
    /\ status[x] = "live"
    /\ status' = [status EXCEPT ![x] = "dormant"]
    /\ UNCHANGED <<run, sessions, ledger, now>>

Revive(x) ==
    /\ status[x] = "dormant"
    /\ status' = [status EXCEPT ![x] = "live"]
    /\ UNCHANGED <<run, sessions, ledger, now>>

Detached(r, x) == IF r.target = x THEN [r EXCEPT !.target = None] ELSE r

(* delete_item: a habit goes, the time spent on it stays.                   *)
DeleteItem(x) ==
    /\ status[x] # "gone"
    /\ status' = [status EXCEPT ![x] = "gone"]
    /\ sessions' = [i \in DOMAIN sessions |-> Detached(sessions[i], x)]
    /\ run' = Detached(run, x)
    /\ UNCHANGED <<ledger, now>>

Tick ==
    /\ now < Horizon
    /\ now' = now + 1
    /\ UNCHANGED <<run, sessions, ledger, status>>

Request(t) ==
    \/ \E n \in Lengths, x \in Targets \cup {None} : Start(t, n, x)
    \/ Pause(t) \/ Resume(t) \/ Discard(t) \/ Finish(t)

Next ==
    \/ \E t \in Tokens : Request(t)
    \/ \E x \in Targets : Retire(x) \/ Revive(x)
    \/ \E x \in Habits : DeleteItem(x)
    \/ Tick

Spec == Init /\ [][Next]_vars
-----------------------------------------------------------------------------
(* Properties.                                                              *)

Runs == [token : Tokens \cup {None}, length : Nat, started : Nat,
         pausedAt : Nat \cup {NotPaused}, pausedSeconds : Nat,
         target : Targets \cup {None}]

SessionRows == [token : Tokens, seconds : Nat, started : Nat, ended : Nat,
                target : Targets \cup {None}]

LedgerRows == [session : Nat, seconds : Nat, target : Targets \cup {None}]

(* Every table holds well-typed rows.                                       *)
TypeOK ==
    /\ run \in Runs
    /\ sessions \in Seq(SessionRows)
    /\ ledger \in Seq(LedgerRows)
    /\ status \in [Targets -> {"live", "dormant", "gone"}]
    /\ now \in Nat

(* The timer in the slot can always be recorded: its token was never spent  *)
(* on a session.  Otherwise every finish would be answered with the old     *)
(* session and the slot would stay taken until a discard.                   *)
NoStuckRun == run # NoRun => run.token \notin Spent

(* Sessions and ledger events correspond one to one, and a session names    *)
(* the target its event names unless that habit was hard-deleted since.     *)
LedgerMatches ==
    /\ Len(ledger) = Len(sessions)
    /\ \A i \in DOMAIN sessions :
          /\ ledger[i].session = i /\ ledger[i].seconds = sessions[i].seconds
          /\ \/ sessions[i].target = ledger[i].target
             \/ sessions[i].target = None /\ status[ledger[i].target] = "gone"

(* No row names a hard-deleted habit, so the foreign keys can never reject  *)
(* a finish and its fallback that records the span detached is never taken. *)
TargetsExist ==
    /\ run.target # None => status[run.target] # "gone"
    /\ \A i \in DOMAIN sessions :
          sessions[i].target # None => status[sessions[i].target] # "gone"

(* A session credits no more than the wall time between its two stamps, and *)
(* no two sessions overlap: the sum of all focus time never exceeds the     *)
(* time that passed.                                                        *)
SpansDisjoint ==
    /\ \A i \in DOMAIN sessions :
          /\ sessions[i].seconds <= sessions[i].ended - sessions[i].started
          /\ sessions[i].ended <= now
          /\ run # NoRun => sessions[i].ended <= run.started
    /\ \A i, k \in DOMAIN sessions : i < k => sessions[i].ended <= sessions[k].started

(* Ending a run, whatever happened to its target meanwhile, keeps the       *)
(* attribution it was started with.                                         *)
AttributionKept ==
    [][/\ run'.token = run.token /\ run'.target # run.target
          => status'[run.target] = "gone"
       /\ Len(sessions') > Len(sessions)
          => sessions'[Len(sessions')].target = run.target]_vars

(* The timestamps implement a stopwatch that counts second by second.       *)
Watch ==
    IF run = NoRun
    THEN [token |-> None, full |-> 0, hand |-> "held", count |-> 0, last |-> 0]
    ELSE [token |-> run.token, full |-> Cap(run),
          hand |-> IF Paused(run) THEN "held" ELSE "moves",
          count |-> Credited(run), last |-> EndedAt(run)]

Spans == {[token |-> sessions[i].token, seconds |-> sessions[i].seconds,
           ended |-> sessions[i].ended] : i \in DOMAIN sessions}

SW == INSTANCE Stopwatch WITH watch <- Watch, spans <- Spans,
                              Fulls <- (MinTarget..MaxTarget) \cup {MaxSeconds}

CountsLikeAStopwatch == SW!Spec
===============================================================================
