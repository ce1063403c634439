------------------------------- MODULE MCServer -------------------------------
(* The server's start on any database, and the sessions of the terminal.    *)
(* Each behaviour runs one of them; the terminal's module is extended, so   *)
(* that its properties, which are proved too, keep their names.             *)
EXTENDS Terminal, TLC

CONSTANTS MaxKills, Arrivals

(* The component that runs in a behaviour, and the start's state.           *)
VARIABLES scene,
          v1, v2, v3, v4, v5, v6, v7, v8, v9, v10, v11, v12, v13, v14, v15

state == <<v1, v2, v3, v4, v5, v6, v7, v8, v9, v10, v11, v12, v13, v14, v15>>
all   == <<scene, vars, state>>

Start == INSTANCE Startup WITH
    version <- v1, shape <- v2, ids <- v3, minted <- v4, counter <- v5,
    task <- v6, own <- v7, demo <- v8, inboxes <- v9, seededAt <- v10,
    at <- v11, line <- v12, kills <- v13, oldAlive <- v14, initialised <- v15

ASSUME TerminalAssumption

SceneInit ==
    /\ Init
    /\ \/ scene = "startup" /\ Start!Init
       \/ scene = "terminal" /\ v1 = 0 /\ v2 = 0 /\ v3 = 0 /\ v4 = 0 /\ v5 = 0 /\ v6 = 0
          /\ v7 = 0 /\ v8 = 0 /\ v9 = 0 /\ v10 = 0 /\ v11 = 0 /\ v12 = 0 /\ v13 = 0
          /\ v14 = 0 /\ v15 = 0

SceneNext ==
    \/ scene = "startup" /\ Start!Next /\ UNCHANGED <<scene, vars>>
    \/ scene = "terminal" /\ Next /\ UNCHANGED <<scene, state>>
    \/ scene = "startup" /\ UNCHANGED all   \* it may stop

SceneSpec == SceneInit /\ [][SceneNext]_all

(* The fairness each module states, in the behaviours its component runs in; *)
(* the terminal's asks nothing of a table in which nothing has begun.        *)
startState == Start!vars

SceneFairSpec ==
    /\ SceneSpec
    /\ WF_startState(scene = "startup" /\ Start!Start)
    /\ Fairness

-----------------------------------------------------------------------------
(* Properties, stated in the components' modules.                           *)

(* What answers is a whole application, demo rows enter only an unused      *)
(* installation, and identities last (app/db.py, app/main.py).       *)
StartIsSound ==
    [][scene = "startup" =>
          Start!StepDemo /\ Start!StepIdentities /\ Start!ServesWhole']_all

(* A start that is not killed again ends serving (db.init_db).              *)
EveryStartServes == <>[](scene = "startup" => Start!Serves)
===============================================================================
