----------------------------- MODULE Sleepers -----------------------------
(***************************************************************************)
(* The sleeper in two worlds: one in which nothing goes wrong around it    *)
(* (Sleeper, with the constants that forbid failures, deaths and crashes), *)
(* and one in which everything may.  A behaviour of this module is one of  *)
(* the first, or of the second, beside which the other stays in its        *)
(* initial state.                                                          *)
(***************************************************************************)
EXTENDS Sleeper

CONSTANTS  \* the second world: its sets and its bounds
    FaultyContainer, FaultyConn, FaultyFailures, FaultyEvents

ASSUME FaultyAssumption == FaultyConn \subseteq Conn

VARIABLES
    part,   \* the one that runs
    fDocker, fDockerEvents, fAgent, fNever, fEnabled, fKnown, fTracked, fConns, fIdle, fSleeping,
    fConnPc, fConnTo, fLoopPc, fCur, fTodo, fFailures, fFresh

F == INSTANCE Sleeper WITH
        Container <- FaultyContainer, Conn <- FaultyConn, Eligible <- FaultyContainer,
        MaxFailures <- FaultyFailures, MaxEvents <- FaultyEvents,
        SettingsChange <- TRUE, UserPauses <- TRUE, ContainersDie <- TRUE, ServiceCrashes <- TRUE,
        docker <- fDocker, events <- fDockerEvents, agent <- fAgent, never <- fNever,
        enabled <- fEnabled, known <- fKnown, tracked <- fTracked, conns <- fConns,
        idle <- fIdle, sleeping <- fSleeping, connPc <- fConnPc, connTo <- fConnTo,
        loopPc <- fLoopPc, cur <- fCur, todo <- fTodo, failures <- fFailures, fresh <- fFresh

faulty == <<fDocker, fDockerEvents, fAgent, fNever, fEnabled, fKnown, fTracked, fConns, fIdle,
            fSleeping, fConnPc, fConnTo, fLoopPc, fCur, fTodo, fFailures, fFresh>>
sleepers == <<part, vars, faulty>>

AnyContainer == CHOOSE c \in Container : TRUE
SleepersInit ==
    /\ part \in {"calm", "faulty"}
    /\ Init /\ F!Init
    /\ part = "faulty" => cur = AnyContainer /\ connTo = [k \in Conn |-> AnyContainer]

Calm(A) == part = "calm" /\ A /\ UNCHANGED <<part, faulty>>
Faulty(A) == part = "faulty" /\ A /\ UNCHANGED <<part, vars>>

SleepersNext == Calm(Next) \/ Faulty(F!Next)

(* The fairness of Sleeper, for the world that runs.  Only one does, so    *)
(* that fairness for either step is fairness for each.                     *)
SleepersFairness ==
    /\ \A k \in Conn : /\ WF_sleepers(Calm(ConnStep(k)))
                       /\ SF_sleepers(\/ Calm(TakeOpLock(k))
                                      \/ k \in FaultyConn /\ Faulty(F!TakeOpLock(k)))
    /\ SF_sleepers(Calm(LoopRecheck) \/ Faulty(F!LoopRecheck))
    /\ WF_sleepers(Calm(LoopStep)) /\ WF_sleepers(Calm(EventStep))
    /\ \A c \in Container : WF_sleepers(Calm(Tick(c)))
    /\ \A k \in FaultyConn : WF_sleepers(Faulty(F!ConnStep(k)))
    /\ WF_sleepers(Faulty(F!LoopStep)) /\ WF_sleepers(Faulty(F!EventStep))
    /\ \A c \in FaultyContainer : WF_sleepers(Faulty(F!Tick(c)))

SleepersSpec == SleepersInit /\ [][SleepersNext]_sleepers /\ SleepersFairness

-----------------------------------------------------------------------------
(* Whatever fails, dies or crashes, the service loses track of a pause of  *)
(* its own for the four reasons of PauseLostOnlyTo and no other (sleep.rs).*)
PausesKeptElse == F!PauseLostOnlyTo

(* Whatever fails, dies or crashes, every connection is let through in the *)
(* end (sleep.rs, on_connection).                                          *)
ConnectionsServed == F!ConnectionsRelayed
=============================================================================
