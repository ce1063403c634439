------------------------------- MODULE Stopwatch -------------------------------
(***************************************************************************)
(* What the focus timer promises its user: one stopwatch that counts the   *)
(* seconds it was running and not held, stops counting when it is full,    *)
(* and turns each token into at most one recorded span.  A span is dated   *)
(* at the last moment at which the watch could still count.  Nothing here  *)
(* says how the count is kept.                                             *)
(***************************************************************************)
EXTENDS Integers

CONSTANTS
    Tokens,           \* one per use of the watch
    Fulls,            \* the counts a watch can be filled by
    None

VARIABLES
    watch,            \* the token, what fills it, its hand, its count
    spans,            \* what was recorded
    now

Off == [token |-> None, full |-> 0, hand |-> "held", count |-> 0, last |-> 0]

Reading(hand, count, last) ==
    [token |-> watch.token, full |-> watch.full, hand |-> hand, count |-> count,
     last |-> last]

Init == watch = Off /\ spans = {} /\ now = 0

Start(t, full) ==
    /\ watch = Off
    /\ \A s \in spans : s.token # t
    /\ watch' = [token |-> t, full |-> full, hand |-> "moves", count |-> 0, last |-> now]
    /\ UNCHANGED <<spans, now>>

Hold ==
    /\ watch.hand = "moves" /\ watch.count < watch.full
    /\ watch' = Reading("held", watch.count, watch.last)
    /\ UNCHANGED <<spans, now>>

Resume ==
    /\ watch # Off /\ watch.hand = "held"
    /\ watch' = Reading("moves", watch.count, now)
    /\ UNCHANGED <<spans, now>>

Record ==
    /\ watch.count > 0
    /\ \A s \in spans : s.token # watch.token
    /\ spans' = spans \cup {[token |-> watch.token, seconds |-> watch.count,
                             ended |-> watch.last]}
    /\ watch' = Off
    /\ UNCHANGED now

Discard == watch # Off /\ watch' = Off /\ UNCHANGED <<spans, now>>

Tick ==
    /\ now' = now + 1
    /\ watch' = IF watch.hand = "moves" /\ watch.count < watch.full
                THEN Reading("moves", watch.count + 1, now + 1)
                ELSE watch
    /\ UNCHANGED spans

Next ==
    \/ \E t \in Tokens, full \in Fulls : Start(t, full)
    \/ Hold \/ Resume \/ Record \/ Discard \/ Tick

Spec == Init /\ [][Next]_<<watch, spans, now>>
===============================================================================
