------------------------------ MODULE Sleeper ------------------------------
(***************************************************************************)
(* Wake on demand (crates/solon-service/src/sleep.rs).  A container that   *)
(* was reached through Solon and has been idle for a while is paused; the  *)
(* next connection to it runs `docker unpause' before it is relayed.       *)
(*                                                                         *)
(* Actors: one task per relayed connection (on_connection, then the drop   *)
(* of its ConnGuard), the pause loop `run', the engine's event loop        *)
(* (on_container_event, update_endpoints) and, outside the service,        *)
(* dockerd, its user and the passing of time.  A step is what happens      *)
(* between two awaits: one critical section of `state', or one docker      *)
(* command in the guest.                                                   *)
(***************************************************************************)
EXTENDS Naturals, Sequences, FiniteSets

CONSTANTS
    Container,      \* container identifiers
    Conn,           \* slots for relayed connections
    Eligible,       \* containers that publish a port or expose an HTTP one
    SettingsChange, \* the sleep settings may change
    MaxFailures,    \* bound: docker commands that fail for an outside reason
    UserPauses,     \* the user may pause and unpause containers
    ContainersDie,  \* containers may stop and start, the engine may stop
    ServiceCrashes, \* the service process may die while the machine survives
    MaxEvents       \* bound: undelivered docker events

ASSUME SleeperAssumption ==
    /\ IsFiniteSet(Container) /\ IsFiniteSet(Conn)
    /\ Eligible \subseteq Container
    /\ MaxFailures \in Nat /\ MaxEvents \in Nat
    /\ {SettingsChange, UserPauses, ContainersDie, ServiceCrashes} \subseteq BOOLEAN

VARIABLES
    docker,    \* dockerd's status of each container, and who paused it
    events,    \* docker events on their way to the service, oldest first
    agent,     \* Sleeper.agent.is_some()
    never,     \* SleepSettings.never
    enabled,   \* SleepSettings.enabled
    known,     \* keys of State.names, by_ip and by_name
    tracked,   \* keys of State.activity
    conns,     \* Activity.conns
    idle,      \* containers with last.elapsed() >= settings.idle
    sleeping,  \* State.sleeping
    connPc,    \* where each connection's task is
    connTo,    \* the container each connection goes to
    loopPc,    \* where the pause loop is
    cur,       \* the candidate the loop is working on
    todo,      \* the candidates left in this round
    failures,  \* outside failures so far
    fresh      \* history: connections whose container has not died since

env   == <<docker, events, failures>>
table == <<known, tracked, conns, idle, sleeping>>
conn  == <<connPc, connTo, fresh>>
loop  == <<loopPc, cur, todo>>
prefs == <<agent, never, enabled>>
vars  == <<env, table, conn, loop, prefs>>

Statuses == {"running", "solonPaused", "userPaused", "exited"}
ConnPcs  == {"none", "found", "waitOp", "unpause", "forget", "open", "dropped"}
LoopPcs  == {"asleep", "next", "lock", "inspect", "pause", "late", "undo",
             "insert", "aborted"}
Event    == [what : {"pause", "unpause", "die", "start"}, id : Container]
              \cup [what : {"endpoints"}, alive : SUBSET Container]

TypeOK ==
    /\ docker \in [Container -> Statuses]
    /\ events \in Seq(Event)
    /\ agent \in BOOLEAN /\ enabled \in BOOLEAN
    /\ never \subseteq Container
    /\ known \subseteq Container
    /\ tracked \subseteq Container
    /\ conns \in [Container -> Nat]
    /\ idle \subseteq Container
    /\ sleeping \subseteq Container
    /\ connPc \in [Conn -> ConnPcs]
    /\ connTo \in [Conn -> Container]
    /\ loopPc \in LoopPcs
    /\ cur \in Container
    /\ todo \subseteq Container
    /\ failures \in Nat
    /\ fresh \subseteq Conn

(***************************************************************************)
(* The machine is up with every container running and known (the first     *)
(* EndpointsChanged has been applied); no connection has come yet.         *)
(***************************************************************************)
Init ==
    /\ docker = [c \in Container |-> "running"]
    /\ events = <<>>
    /\ agent = TRUE /\ enabled = TRUE /\ never = {}
    /\ known = Container
    /\ tracked = {} /\ idle = {} /\ sleeping = {}
    /\ conns = [c \in Container |-> 0]
    /\ connPc = [k \in Conn |-> "none"]
    /\ connTo \in [Conn -> Container]
    /\ loopPc = "asleep" /\ cur \in Container /\ todo = {}
    /\ failures = 0
    /\ fresh = {}

-----------------------------------------------------------------------------
(* Who holds the lock op_lock(c): the loop while it treats c, or a waker.  *)
LoopHolds(c) == cur = c /\ loopPc \in {"inspect", "pause", "late", "undo", "insert"}
ConnHolds(k, c) == connTo[k] = c /\ connPc[k] \in {"unpause", "forget"}
LockedByLoopOnly(c) == LoopHolds(c) \* mutant: every waker has a lock of its own
Locked(c) == LoopHolds(c) \/ \E k \in Conn : ConnHolds(k, c)

(* The container that a live ConnGuard, or a connection about to get one,  *)
(* keeps awake.                                                            *)
Guards(k, c) == connTo[k] = c /\ connPc[k] \in {"waitOp", "unpause", "forget", "open"}

Paused(c) == docker[c] \in {"solonPaused", "userPaused"}

Emit(e) == events' = Append(events, e)
Emit2(e, f) == events' = Append(Append(events, e), f)

(* A docker command: `effect' when it can be carried out, an error         *)
(* otherwise.  A failure from outside (agent gone, 30 s or 40 s timeout)   *)
(* is reported as an error whether or not dockerd carried it out.          *)
DockerOk(possible, effect) ==
    agent /\ possible /\ effect /\ UNCHANGED failures
DockerErr(possible, effect) ==
    \/ ~(agent /\ possible) /\ UNCHANGED env
    \/ /\ failures < MaxFailures
       /\ failures' = failures + 1
       /\ \/ UNCHANGED <<docker, events>>
          \/ agent /\ possible /\ effect

UnpauseEffect(c) ==
    /\ docker' = [docker EXCEPT ![c] = "running"]
    /\ Emit([what |-> "unpause", id |-> c])
PauseEffect(c) ==
    /\ docker' = [docker EXCEPT ![c] = "solonPaused"]
    /\ Emit([what |-> "pause", id |-> c])

-----------------------------------------------------------------------------
(* on_connection_ip, on_connection_name: the address or name is looked up. *)
Arrive(k) ==
    /\ connPc[k] = "none"
    /\ \E c \in known : connTo' = [connTo EXCEPT ![k] = c]
    /\ connPc' = [connPc EXCEPT ![k] = "found"]
    /\ fresh' = fresh \cup {k}
    /\ UNCHANGED <<env, table, loop, prefs>>

(* First critical section of on_connection: the connection is counted, and *)
(* `asleep' read, under one lock.                                          *)
OnConnection(k) ==
    LET c == connTo[k] IN
    /\ connPc[k] = "found"
    /\ IF c \in Eligible /\ c \in known
         THEN /\ tracked' = tracked \cup {c}
              /\ conns' = [conns EXCEPT ![c] = @ + 1]
              /\ idle' = idle \ {c}
         ELSE UNCHANGED <<tracked, conns, idle>>
    /\ connPc' = [connPc EXCEPT ![k] = IF c \in sleeping THEN "waitOp" ELSE "open"]
    /\ UNCHANGED <<env, known, sleeping, connTo, fresh, loop, prefs>>

(* Mutants: no second look at `sleeping'; no unpause.                      *)
TakeOpLockNoRecheck(k) ==
    /\ connPc[k] = "waitOp" /\ ~Locked(connTo[k])
    /\ connPc' = [connPc EXCEPT ![k] = "unpause"]
    /\ UNCHANGED <<env, table, connTo, fresh, loop, prefs>>
TakeOpLockNoUnpause(k) ==
    /\ connPc[k] = "waitOp" /\ ~Locked(connTo[k])
    /\ connPc' = [connPc EXCEPT ![k] = "forget"]
    /\ UNCHANGED <<env, table, connTo, fresh, loop, prefs>>

(* The op lock is taken and `sleeping' read again.                         *)
TakeOpLock(k) ==
    LET c == connTo[k] IN
    /\ connPc[k] = "waitOp"
    /\ ~Locked(c)
    /\ connPc' = [connPc EXCEPT ![k] = IF c \in sleeping THEN "unpause" ELSE "open"]
    /\ UNCHANGED <<env, table, connTo, fresh, loop, prefs>>

(* Mutant: the connection insists until the command succeeds.              *)
UnpauseInsist(k) ==
    /\ connPc[k] = "unpause"
    /\ DockerOk(Paused(connTo[k]), UnpauseEffect(connTo[k]))
    /\ connPc' = [connPc EXCEPT ![k] = "forget"]
    /\ UNCHANGED <<table, connTo, fresh, loop, prefs>>

(* `docker unpause': its failure is only logged.                           *)
Unpause(k) ==
    LET c == connTo[k] IN
    /\ connPc[k] = "unpause"
    /\ \/ DockerOk(Paused(c), UnpauseEffect(c))
       \/ DockerErr(Paused(c), UnpauseEffect(c))
    /\ connPc' = [connPc EXCEPT ![k] = "forget"]
    /\ UNCHANGED <<table, connTo, fresh, loop, prefs>>

(* sleeping.remove, whatever the command answered; the guard is returned.  *)
ForgetSleeping(k) ==
    /\ connPc[k] = "forget"
    /\ sleeping' = sleeping \ {connTo[k]}
    /\ connPc' = [connPc EXCEPT ![k] = "open"]
    /\ UNCHANGED <<env, known, tracked, conns, idle, connTo, fresh, loop, prefs>>

(* The relay ends: ConnGuard::drop spawns a task.                          *)
Close(k) ==
    /\ connPc[k] = "open"
    /\ connPc' = [connPc EXCEPT ![k] = "dropped"]
    /\ UNCHANGED <<env, table, connTo, fresh, loop, prefs>>

(* Mutant: a count that is never taken back.                               *)
DropGuardKeepsCount(k) ==
    /\ connPc[k] = "dropped"
    /\ connPc' = [connPc EXCEPT ![k] = "none"]
    /\ idle' = idle \ {connTo[k]}
    /\ UNCHANGED <<env, known, tracked, conns, sleeping, connTo, fresh, loop, prefs>>

(* The spawned task: saturating_sub and a new `last', if the entry exists. *)
DropGuard(k) ==
    LET c == connTo[k] IN
    /\ connPc[k] = "dropped"
    /\ IF c \in tracked
         THEN /\ conns' = [conns EXCEPT ![c] = IF @ = 0 THEN 0 ELSE @ - 1]
              /\ idle' = idle \ {c}
         ELSE UNCHANGED <<conns, idle>>
    /\ connPc' = [connPc EXCEPT ![k] = "none"]
    /\ UNCHANGED <<env, known, tracked, sleeping, connTo, fresh, loop, prefs>>

-----------------------------------------------------------------------------
IdleIgnoringConns(c) == c \in tracked /\ c \in idle \* mutant: open connections ignored
Idle(c) == c \in tracked /\ conns[c] = 0 /\ c \in idle

(* Start of a round, every 15 s: the candidates.                           *)
LoopCandidates ==
    /\ loopPc = "asleep"
    /\ enabled /\ agent
    /\ todo' = {c \in tracked : Idle(c) /\ c \notin sleeping /\ c \notin never}
    /\ loopPc' = "next"
    /\ UNCHANGED <<env, table, conn, cur, prefs>>

(* The next candidate in the map's order, or the end of the round.         *)
LoopNext ==
    /\ loopPc = "next"
    /\ \/ /\ todo = {}
          /\ loopPc' = "asleep"
          /\ UNCHANGED <<cur, todo>>
       \/ /\ \E c \in todo : cur' = c /\ todo' = todo \ {c}
          /\ loopPc' = "lock"
    /\ UNCHANGED <<env, table, conn, prefs>>

(* The op lock is taken and the idleness checked again; `continue' frees   *)
(* the lock.                                                               *)
LoopRecheck ==
    /\ loopPc = "lock"
    /\ ~Locked(cur)
    /\ loopPc' = IF Idle(cur) THEN "inspect" ELSE "next"
    /\ UNCHANGED <<env, table, conn, cur, todo, prefs>>

LoopInspect ==
    /\ loopPc = "inspect"
    /\ \/ /\ DockerOk(TRUE, UNCHANGED <<docker, events>>)
          /\ loopPc' = IF docker[cur] = "running" THEN "pause" ELSE "next"
       \/ /\ DockerErr(TRUE, UNCHANGED <<docker, events>>)
          /\ loopPc' = "next"
    /\ UNCHANGED <<table, conn, cur, todo, prefs>>

LoopPause ==
    /\ loopPc = "pause"
    /\ \/ /\ DockerOk(docker[cur] = "running", PauseEffect(cur))
          /\ loopPc' = "late"
       \/ /\ DockerErr(docker[cur] = "running", PauseEffect(cur))
          /\ loopPc' = "next"
    /\ UNCHANGED <<table, conn, cur, todo, prefs>>

(* Mutant: the late connection is seen but the pause not undone.           *)
LoopCheckLateNoUndo ==
    /\ loopPc = "late"
    /\ loopPc' = IF cur \in tracked /\ conns[cur] > 0 THEN "next" ELSE "insert"
    /\ UNCHANGED <<env, table, conn, cur, todo, prefs>>

(* `late': did a connection come between the check and the pause?          *)
LoopCheckLate ==
    /\ loopPc = "late"
    /\ loopPc' = IF cur \in tracked /\ conns[cur] > 0 THEN "undo" ELSE "insert"
    /\ UNCHANGED <<env, table, conn, cur, todo, prefs>>

(* Mutant: no `continue' after the undo.                                   *)
LoopUndoThenInsert ==
    /\ loopPc = "undo"
    /\ \/ DockerOk(Paused(cur), UnpauseEffect(cur))
       \/ DockerErr(Paused(cur), UnpauseEffect(cur))
    /\ loopPc' = "insert"
    /\ UNCHANGED <<table, conn, cur, todo, prefs>>

LoopUndo ==
    /\ loopPc = "undo"
    /\ \/ DockerOk(Paused(cur), UnpauseEffect(cur))
       \/ DockerErr(Paused(cur), UnpauseEffect(cur))
    /\ loopPc' = "next"
    /\ UNCHANGED <<table, conn, cur, todo, prefs>>

(* A critical section of its own, after the one that computed `late'.      *)
LoopInsert ==
    /\ loopPc = "insert"
    /\ sleeping' = sleeping \cup {cur}
    /\ loopPc' = "next"
    /\ UNCHANGED <<env, known, tracked, conns, idle, conn, cur, todo, prefs>>

-----------------------------------------------------------------------------
(* Drops the activity entries outside `keep'.                              *)
RetainActivity(keep) ==
    /\ tracked' = tracked \cap keep
    /\ idle' = idle \cap keep
    /\ conns' = [c \in Container |-> IF c \in keep THEN conns[c] ELSE 0]

(* on_container_event: "unpause" only takes the container off `sleeping',  *)
(* an event of a container's end or start also drops its activity.         *)
OnContainerEvent ==
    /\ loopPc # "aborted"
    /\ events # <<>> /\ Head(events).what # "endpoints"
    /\ LET e == Head(events) IN
       /\ sleeping' = IF e.what = "pause" THEN sleeping ELSE sleeping \ {e.id}
       /\ IF e.what \in {"die", "start"}
            THEN RetainActivity(Container \ {e.id})
            ELSE UNCHANGED <<tracked, idle, conns>>
    /\ events' = Tail(events)
    /\ UNCHANGED <<docker, failures, known, conn, loop, prefs>>

UpdateEndpoints ==
    /\ loopPc # "aborted"
    /\ events # <<>> /\ Head(events).what = "endpoints"
    /\ known' = Head(events).alive
    /\ RetainActivity(Head(events).alive)
    /\ sleeping' = sleeping \cap Head(events).alive
    /\ events' = Tail(events)
    /\ UNCHANGED <<docker, failures, conn, loop, prefs>>

(* set_settings: read by the loop at the start of its next round.          *)
SetSettings ==
    /\ SettingsChange
    /\ enabled' \in BOOLEAN
    /\ \E c \in Container : never' \in {never \cup {c}, never \ {c}}
    /\ UNCHANGED <<env, table, conn, loop, agent>>

(* Engine::stop aborts the pause loop, wherever it is, and the event loop; *)
(* the op lock the loop held is released.                                  *)
AbortTasks ==
    /\ ContainersDie /\ agent /\ loopPc # "aborted"
    /\ loopPc' = "aborted"
    /\ UNCHANGED <<env, table, conn, cur, todo, prefs>>

(* Then the machine ends with all its containers, and set_agent(None)      *)
(* resets the state.                                                       *)
ResetTables ==
    /\ known' = {} /\ tracked' = {} /\ idle' = {} /\ sleeping' = {}
    /\ conns' = [c \in Container |-> 0]
    /\ events' = <<>>
    /\ agent' = FALSE
    /\ loopPc' = "aborted" /\ todo' = {}

SetAgentNone ==
    /\ ContainersDie /\ agent /\ loopPc = "aborted"
    /\ ResetTables
    /\ docker' = [c \in Container |-> "exited"]
    /\ fresh' = {}
    /\ UNCHANGED <<failures, connPc, connTo, cur, never, enabled>>

(* set_agent(Some): Engine::attach, on a machine new or found running.     *)
SetAgent ==
    /\ ~agent /\ agent' = TRUE
    /\ loopPc' = "asleep"
    /\ UNCHANGED <<env, table, conn, cur, todo, never, enabled>>

(* The service dies; the machine and its containers go on.                 *)
Crash ==
    /\ ServiceCrashes /\ agent
    /\ ResetTables
    /\ connPc' = [k \in Conn |-> "none"]
    /\ UNCHANGED <<docker, failures, connTo, fresh, cur, never, enabled>>

-----------------------------------------------------------------------------
(* Outside the service.  The idle delay is at least 60 s (sleep_settings), *)
(* a docker command answers within 40 s: the delay runs out neither during *)
(* an operation on the container nor while docker events are on their way. *)
Tick(c) ==
    /\ events = <<>> /\ ~Locked(c)
    /\ c \in tracked \ idle
    /\ idle' = idle \cup {c}
    /\ UNCHANGED <<env, known, tracked, conns, sleeping, conn, loop, prefs>>

Room == agent /\ Len(events) < MaxEvents

UserPause(c) ==
    /\ UserPauses /\ Room
    /\ docker[c] = "running"
    /\ docker' = [docker EXCEPT ![c] = "userPaused"]
    /\ Emit([what |-> "pause", id |-> c])
    /\ UNCHANGED <<failures, table, conn, loop, prefs>>

UserUnpause(c) ==
    /\ UserPauses /\ Room
    /\ Paused(c)
    /\ UnpauseEffect(c)
    /\ UNCHANGED <<failures, table, conn, loop, prefs>>

(* The agent follows each such event by the list of running containers.    *)
Alive(d) == [what |-> "endpoints", alive |-> {c \in Container : d[c] # "exited"}]

ContainerStop(c) ==
    /\ ContainersDie /\ Room
    /\ docker[c] # "exited"
    /\ docker' = [docker EXCEPT ![c] = "exited"]
    /\ Emit2([what |-> "die", id |-> c], Alive(docker'))
    /\ fresh' = {k \in fresh : connTo[k] # c}
    /\ UNCHANGED <<failures, table, connPc, connTo, loop, prefs>>

(* A container takes longer to start than a spawned task to run.           *)
ContainerStart(c) ==
    /\ ContainersDie /\ Room
    /\ docker[c] = "exited"
    /\ ~\E k \in Conn : connTo[k] = c /\ connPc[k] = "dropped"
    /\ docker' = [docker EXCEPT ![c] = "running"]
    /\ Emit2([what |-> "start", id |-> c], Alive(docker'))
    /\ UNCHANGED <<failures, table, conn, loop, prefs>>

-----------------------------------------------------------------------------
ConnStep(k) == \/ OnConnection(k) \/ TakeOpLock(k) \/ Unpause(k)
               \/ ForgetSleeping(k) \/ DropGuard(k)
LoopStep == \/ LoopCandidates \/ LoopNext \/ LoopRecheck \/ LoopInspect
            \/ LoopPause \/ LoopCheckLate \/ LoopUndo \/ LoopInsert
EventStep == OnContainerEvent \/ UpdateEndpoints
EnvStep(c) == \/ UserPause(c) \/ UserUnpause(c)
              \/ ContainerStop(c) \/ ContainerStart(c)

Next ==
    \/ \E k \in Conn : Arrive(k) \/ ConnStep(k) \/ Close(k)
    \/ LoopStep
    \/ EventStep
    \/ SetSettings \/ AbortTasks \/ SetAgentNone \/ SetAgent \/ Crash
    \/ \E c \in Container : Tick(c) \/ EnvStep(c)

Spec == Init /\ [][Next]_vars

(* The runtime schedules every ready task; a docker command answers or     *)
(* times out; tokio's mutex is first come, first served, so a task waiting *)
(* for the op lock gets it (strong fairness).  Time passes.  Nothing is    *)
(* assumed of the user, of the peers of a connection or of crashes.        *)
Fairness ==
    /\ \A k \in Conn : WF_vars(ConnStep(k)) /\ SF_vars(TakeOpLock(k))
    /\ WF_vars(LoopStep) /\ SF_vars(LoopRecheck)
    /\ WF_vars(EventStep)
    /\ \A c \in Container : WF_vars(Tick(c))

FairSpec == Spec /\ Fairness
-----------------------------------------------------------------------------
(* Locked is the op lock of a container: the loop and the connections that *)
(* are past it never have it together.  A lemma for the proofs of what     *)
(* follows.                                                                *)
OpExclusive ==
    \A c \in Container :
        /\ LoopHolds(c) => \A k \in Conn : ~ConnHolds(k, c)
        /\ \A k, l \in Conn : ConnHolds(k, c) /\ ConnHolds(l, c) => k = l

(* `sleeping' is what dockerd says, once no operation on the container and *)
(* no event about it is under way: a container listed as asleep is one     *)
(* Solon paused and nobody woke.                                           *)
Announced(c) ==
    \E i \in 1..Len(events) :
        events[i].what \in {"unpause", "die", "start"} /\ events[i].id = c
SleepingIsAccurate ==
    \A c \in sleeping :
        ~Locked(c) /\ ~Announced(c) => docker[c] = "solonPaused"

(* And conversely: a container Solon paused stays on the list, without     *)
(* which no connection would ever wake it (on_connection looks nowhere     *)
(* else).                                                                  *)
PauseRemembered ==
    \A c \in Container :
        docker[c] = "solonPaused" /\ ~Locked(c) => c \in sleeping

(* Whatever happens around it, the service loses track of a pause of its   *)
(* own only when a docker command fails, when the engine stops, when the   *)
(* service dies, or by an event of docker from before that pause, whose    *)
(* own event is still on its way (`sleeping' is kept in memory only).      *)
Remembered(c) ==
    \/ docker[c] # "solonPaused"
    \/ c \in sleeping /\ \A k \in Conn : connTo[k] = c => connPc[k] # "forget"
    \/ cur = c /\ loopPc \in {"late", "undo", "insert"}
PauseLostOnlyTo ==
    [][\A c \in Container :
        Remembered(c) /\ ~Remembered(c)' =>
            \/ failures' # failures \/ loopPc' = "aborted"
            \/ \E i \in DOMAIN events' : events'[i] = [what |-> "pause", id |-> c]]_vars

(* When two connections reach a sleeping container, or the loop and a      *)
(* connection cross, `docker unpause' is only run on a container that is   *)
(* paused: the second check under the op lock sees the first wake-up.      *)
WakerFindsPaused ==
    \A k \in Conn : connPc[k] = "unpause" => docker[connTo[k]] = "solonPaused"

(* A connection that found its container asleep is relayed only once the   *)
(* container runs again: by its own unpause, or by another connection's.   *)
WokenBeforeRelayed ==
    [][\A k \in Conn :
          connPc[k] \in {"waitOp", "forget"} /\ connPc'[k] = "open"
              => docker[connTo[k]] # "solonPaused"]_vars

(* The loop decides that a container is idle (the check under the op lock) *)
(* only when no connection opened since the container last started is      *)
(* still relayed: "tant qu'elle vit, le conteneur ne s'endort pas".        *)
IdleDecisionSound ==
    [][loopPc = "lock" /\ loopPc' = "inspect"
          => ~\E k \in fresh : Guards(k, cur)]_vars

(* No relayed connection stays frozen: outside of an operation on its      *)
(* container, a connection that was let through talks to a container that  *)
(* Solon has not paused.                                                   *)
NoFrozenRelay ==
    \A k \in Conn :
        connPc[k] = "open" /\ ~Locked(connTo[k])
            => docker[connTo[k]] # "solonPaused"

(* Every connection is let through in the end: no wait for the op lock     *)
(* lasts for ever, whatever fails (a crash ends the connection itself).    *)
ConnectionsRelayed ==
    \A k \in Conn : []<>(connPc[k] \in {"open", "none"})

(* Once connections stop coming, every container that received one is put  *)
(* to sleep and stays so.                                                  *)
IdleContainersSleep ==
    <>[](\A k \in Conn : connPc[k] = "none")
        => <>[](tracked \subseteq sleeping)
=============================================================================
