------------------------------- MODULE MCRunner -------------------------------
(* One job of the Runner from its start to its event: its deadline, output   *)
(* limit, cancellation, its children, a crash and a shutdown; and one whose  *)
(* spawn, pipes or reads fail while time passes.  Each behaviour is about    *)
(* one of them.                                                              *)
EXTENDS Runner

CONSTANTS Faults, MaxNow

VARIABLE scene

Failing == INSTANCE Runner WITH Incidents <- Faults, Horizon <- MaxNow

SceneInit == Init /\ scene \in {"ends", "faults"}

SceneNext ==
    \/ scene = "ends" /\ Next /\ UNCHANGED scene
    \/ scene = "faults" /\ Failing!Next /\ UNCHANGED scene

(* What the Runner's fairness is about are steps of both scenes.             *)
SceneSpec ==
    /\ SceneInit
    /\ [][SceneNext]_<<vars, scene>>
    /\ Fairness

ASSUME FaultsAssumption ==
    Incidents \cap {"spawn", "timeout", "read", "hook"} \subseteq Faults

-----------------------------------------------------------------------------
(* Properties of which Runner states the parts.                              *)

(* Every job finishes and attempts its event, every stream ends, and a       *)
(* shutdown converges (runner.py).                                           *)
JobsAndStreamsEnd == JobsFinish /\ StreamsEnd
===============================================================================
