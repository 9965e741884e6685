------------------------------ MODULE Machine ------------------------------
(***************************************************************************)
(* The life of the machine: the engine that starts, watches and stops it   *)
(* on the host, and process 1 in it.  They share no state here, so that a  *)
(* behaviour of this module is a behaviour of one of the two, beside which *)
(* the other stays in an initial state.                                    *)
(***************************************************************************)
EXTENDS Engine, Pid1

VARIABLE part   \* the one that runs

machineVars == <<part, engineVars, vars>>

MachineInit ==
    /\ part \in {"engine", "pid1"}
    /\ EngineInit /\ Init
    /\ part = "pid1" \/ boot = "mkfs"

MachineNext ==
    /\ UNCHANGED part
    /\ \/ part = "engine" /\ EngineNext /\ UNCHANGED vars
       \/ part = "pid1" /\ Next /\ UNCHANGED engineVars

(* The fairness of the modules, for the one that runs.                     *)
In(p, Step) == part = p /\ Step
MachineFairness ==
    /\ WF_engineVars(In("engine", StartStep)) /\ WF_engineVars(In("engine", StopStep))
    /\ WF_engineVars(In("engine", HandleEvent))
    /\ \A i \in Vm : WF_engineVars(In("engine", WatcherSeesExit(i) \/ WatcherGivesUp(i)))
    /\ WF_vars(In("pid1", Announce)) /\ WF_vars(In("pid1", JobWait))
    /\ WF_vars(In("pid1", Look)) /\ WF_vars(In("pid1", LookAbandoned))
    /\ WF_vars(In("pid1", Reap))

MachineSpec == MachineInit /\ [][MachineNext]_machineVars /\ MachineFairness
=============================================================================
