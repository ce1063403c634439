------------------------------ MODULE MCService -------------------------------
(* The runner's tables and its streams.  Each behaviour is about one of      *)
(* them: it starts like every other, and takes only the steps of its scene.  *)
(* The properties are the Runner's own.                                      *)
EXTENDS Runner, TLC

CONSTANTS OneReader, OneStream, TableIncidents, StreamIncidents

VARIABLE scene

Table == INSTANCE Runner WITH
    Readers <- OneReader, Streams <- {}, OutputLimit <- 0,
    Incidents <- TableIncidents

\* One reader of two streams, and two readers of one.
Serve == INSTANCE Runner WITH
    Readers <- OneReader, MaxTerminal <- 0,
    Incidents <- StreamIncidents, MaxJobs <- 1, Horizon <- 0

Share == INSTANCE Runner WITH
    Streams <- OneStream, MaxTerminal <- 0,
    Incidents <- StreamIncidents, MaxJobs <- 1, Horizon <- 0

ASSUME ScenesAssumption ==
    /\ OneReader \subseteq Readers /\ OneStream \subseteq Streams
    /\ Table!RunnerAssumption /\ Serve!RunnerAssumption /\ Share!RunnerAssumption

SceneInit == Init /\ scene \in {"tables", "streams", "readers"}

SceneNext ==
    \/ scene = "tables" /\ Table!Next /\ UNCHANGED scene
    \/ scene = "streams" /\ Serve!Next /\ UNCHANGED scene
    \/ scene = "readers" /\ Share!Next /\ UNCHANGED scene

SceneSpec == SceneInit /\ [][SceneNext]_<<vars, scene>>

Symmetry == Permutations(Keys)
===============================================================================
