----------------------------- MODULE MCAttempts -----------------------------
(* Attempts for the answers of the endpoint, in behaviours of two kinds: a  *)
(* submission, its retry through the other process, and the same key used   *)
(* for another question, with crashes; and two submissions under different  *)
(* keys, so that one appends to the file the other left, with an edit of    *)
(* the file in between.                                                     *)
EXTENDS Attempts, TLC

CONSTANTS r1, r2, r3, r4, k1, k2, q1, q2, p1, p2

VARIABLE scene

MCKeys    == [r \in Requests |-> IF r = r4 THEN k2 ELSE k1]
MCTargets == [r \in Requests |-> IF r = r3 THEN q2 ELSE q1]
MCProcs   == [a \in Actors |-> IF a = r2 THEN p2 ELSE p1]

(* Who takes part in a behaviour.                                           *)
Taking == IF scene = "retries" THEN {r1, r2, r3, Opener} ELSE {r1, r4, Opener}

(* The others do nothing, what disturbs a behaviour is bounded by its kind, *)
(* and so are the stamps it needs.                                          *)
Bounded ==
    /\ \A a \in Actors \ Taking : at[a] = "new"
    /\ \A r \in Requests : stamp[r] <= 2
    /\ IF scene = "retries" THEN spent.edits = 0 ELSE spent.crashes = 0

Over == \A a \in Taking : at[a] = "done"

SceneInit == scene \in {"retries", "apart"} /\ Init

SceneNext ==
    /\ UNCHANGED scene
    /\ (Next /\ Bounded') \/ (Over /\ UNCHANGED vars)

(* The fairness of Attempts, for those who take part.                       *)
SceneSpec ==
    /\ SceneInit
    /\ [][SceneNext]_<<vars, scene>>
    /\ \A r \in Requests : WF_vars(r \in Taking /\ Request(r))
    /\ WF_vars(Terminal)
    /\ WF_vars(Projection)
=============================================================================
