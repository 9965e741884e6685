--------------------------- MODULE SleeperProofs ---------------------------
(***************************************************************************)
(* Proofs about wake on demand, for any sets of containers and of          *)
(* connections.                                                            *)
(***************************************************************************)
EXTENDS Sleeper, FiniteSetTheorems, TLAPS

(* The events the model emits are events.                                  *)
LEMMA EventTypes ==
    /\ \A c \in Container : [what |-> "pause", id |-> c] \in Event
    /\ \A c \in Container : [what |-> "unpause", id |-> c] \in Event
    /\ \A c \in Container : [what |-> "die", id |-> c] \in Event
    /\ \A c \in Container : [what |-> "start", id |-> c] \in Event
    /\ \A e \in Event : e.what = "endpoints" => e.alive \subseteq Container
  BY DEF Event

(* The list that follows a container's end or start is an event.           *)
LEMMA AliveType == ASSUME NEW d PROVE Alive(d) \in Event
  BY DEF Event, Alive

(* The queue of events stays a queue of events.                            *)
LEMMA QueueTypes ==
    /\ <<>> \in Seq(Event)
    /\ \A s \in Seq(Event), e \in Event : Append(s, e) \in Seq(Event)
    /\ \A s \in Seq(Event) : s # <<>> => Tail(s) \in Seq(Event) /\ Head(s) \in Event
  OBVIOUS

(* What a docker command may change, whatever it answers.                  *)
LEMMA UnpauseTypes ==
    ASSUME TypeOK, NEW c \in Container, NEW STATE P,
           DockerOk(P, UnpauseEffect(c)) \/ DockerErr(P, UnpauseEffect(c))
    PROVE  /\ docker' \in [Container -> Statuses]
           /\ events' \in Seq(Event)
           /\ failures' \in Nat
<1>1. CASE UnpauseEffect(c)
  BY <1>1, EventTypes, QueueTypes
     DEF TypeOK, Statuses, UnpauseEffect, Emit, DockerOk, DockerErr, env
<1>2. CASE UNCHANGED <<docker, events>>
  BY <1>2 DEF TypeOK, DockerOk, DockerErr, env
<1> QED
  BY <1>1, <1>2 DEF DockerOk, DockerErr, env

(* The events of a pause and of an unpause are events.                     *)
LEMMA PauseTypes ==
    ASSUME TypeOK, NEW c \in Container, NEW STATE P,
           DockerOk(P, PauseEffect(c)) \/ DockerErr(P, PauseEffect(c))
    PROVE  /\ docker' \in [Container -> Statuses]
           /\ events' \in Seq(Event)
           /\ failures' \in Nat
<1>1. CASE PauseEffect(c)
  BY <1>1, EventTypes, QueueTypes
     DEF TypeOK, Statuses, PauseEffect, Emit, DockerOk, DockerErr, env
<1>2. CASE UNCHANGED <<docker, events>>
  BY <1>2 DEF TypeOK, DockerOk, DockerErr, env
<1> QED
  BY <1>1, <1>2 DEF DockerOk, DockerErr, env

(* One step of the service or of its surroundings keeps every variable in  *)
(* its type.                                                               *)
LEMMA TypeStep == TypeOK /\ [Next]_vars => TypeOK'
<1> SUFFICES ASSUME TypeOK, [Next]_vars PROVE TypeOK'
  OBVIOUS
<1> USE SleeperAssumption DEF TypeOK, Statuses, ConnPcs, LoopPcs
<1>1. ASSUME NEW k \in Conn, Arrive(k) PROVE TypeOK'
  BY <1>1 DEF Arrive, env, table, loop, prefs
<1>2. ASSUME NEW k \in Conn, Close(k) PROVE TypeOK'
  BY <1>2 DEF Close, env, table, loop, prefs
<1>3. ASSUME NEW k \in Conn, OnConnection(k) PROVE TypeOK'
  BY <1>3 DEF OnConnection, env, loop, prefs
<1>4. ASSUME NEW k \in Conn, TakeOpLock(k) PROVE TypeOK'
  BY <1>4 DEF TakeOpLock, env, table, loop, prefs
<1>5. ASSUME NEW k \in Conn, Unpause(k) PROVE TypeOK'
  <2>1. connTo[k] \in Container
    OBVIOUS
  <2> QED
    BY <1>5, <2>1, UnpauseTypes DEF Unpause, table, loop, prefs
<1>6. ASSUME NEW k \in Conn, ForgetSleeping(k) PROVE TypeOK'
  BY <1>6 DEF ForgetSleeping, env, loop, prefs
<1>7. ASSUME NEW k \in Conn, DropGuard(k) PROVE TypeOK'
  <2>1. PICK c \in Container : c = connTo[k]
    OBVIOUS
  <2>2. conns' \in [Container -> Nat] /\ idle' \subseteq Container
    BY <1>7, <2>1, SMTT(30) DEF DropGuard
  <2>3. connPc' \in [Conn -> ConnPcs]
    BY <1>7 DEF DropGuard
  <2> QED
    BY <1>7, <2>2, <2>3 DEF DropGuard, env, loop, prefs
<1>8. ASSUME LoopStep PROVE TypeOK'
  <2>1. CASE LoopCandidates
    BY <2>1 DEF LoopCandidates, env, table, conn, prefs
  <2>2. CASE LoopNext
    BY <2>2 DEF LoopNext, env, table, conn, prefs
  <2>3. CASE LoopRecheck
    BY <2>3 DEF LoopRecheck, env, table, conn, prefs
  <2>4. CASE LoopInspect
    BY <2>4 DEF LoopInspect, DockerOk, DockerErr, env, table, conn, prefs
  <2>5. CASE LoopPause
    BY <2>5, PauseTypes DEF LoopPause, table, conn, prefs
  <2>6. CASE LoopCheckLate
    BY <2>6 DEF LoopCheckLate, env, table, conn, prefs
  <2>7. CASE LoopUndo
    BY <2>7, UnpauseTypes DEF LoopUndo, table, conn, prefs
  <2>8. CASE LoopInsert
    BY <2>8 DEF LoopInsert, env, conn, prefs
  <2> QED
    BY <1>8, <2>1, <2>2, <2>3, <2>4, <2>5, <2>6, <2>7, <2>8, SMTT(30) DEF LoopStep
<1>9. CASE OnContainerEvent
  <2>1. events' \in Seq(Event)
    BY <1>9, QueueTypes DEF OnContainerEvent
  <2>2. tracked' \subseteq Container /\ idle' \subseteq Container
          /\ conns' \in [Container -> Nat]
    BY <1>9 DEF OnContainerEvent, RetainActivity
  <2> QED
    BY <1>9, <2>1, <2>2 DEF OnContainerEvent, conn, loop, prefs
<1>10. CASE UpdateEndpoints
  BY <1>10, EventTypes, QueueTypes, SMTT(30) DEF UpdateEndpoints, RetainActivity, conn, loop,
     prefs
<1>11. CASE SetSettings
  BY <1>11 DEF SetSettings, env, table, conn, loop
<1>12. CASE SetAgentNone
  BY <1>12, QueueTypes, Zenon DEF SetAgentNone, ResetTables
<1>13. CASE SetAgent
  BY <1>13 DEF SetAgent, env, table, conn, loop
<1>14. CASE Crash
  BY <1>14, QueueTypes, Zenon DEF Crash, ResetTables
<1>18. CASE AbortTasks
  BY <1>18 DEF AbortTasks, env, table, conn, prefs
<1>15. ASSUME NEW c \in Container, Tick(c) PROVE TypeOK'
  BY <1>15, SMTT(30) DEF Tick, env, conn, loop, prefs
<1>16. ASSUME NEW c \in Container, EnvStep(c) PROVE TypeOK'
  <2>1. CASE UserPause(c)
    BY <2>1, EventTypes, QueueTypes, SMTT(30) DEF UserPause, Emit, table, conn, loop, prefs
  <2>2. CASE UserUnpause(c)
    BY <2>2, EventTypes, QueueTypes, SMTT(30) DEF UserUnpause, UnpauseEffect, Emit, table,
       conn, loop, prefs
  <2>3. CASE ContainerStop(c)
    BY <2>3, EventTypes, AliveType, QueueTypes, SMTT(30) DEF ContainerStop, Emit2, table,
       loop, prefs
  <2>4. CASE ContainerStart(c)
    BY <2>4, EventTypes, AliveType, QueueTypes, SMTT(30) DEF ContainerStart, Emit2, table,
       conn, loop, prefs
  <2> QED
    BY <1>16, <2>1, <2>2, <2>3, <2>4, SMTT(30) DEF EnvStep
<1>17. CASE UNCHANGED vars
  BY <1>17 DEF vars, env, table, conn, loop, prefs
<1> QED
  BY <1>1, <1>2, <1>3, <1>4, <1>5, <1>6, <1>7, <1>8, <1>9, <1>10, <1>11, <1>12,
     <1>13, <1>14, <1>15, <1>16, <1>17, <1>18, ZenonT(30) DEF Next, ConnStep, EventStep

(* Every variable of the model keeps its type, whatever the constants.     *)
THEOREM Typing == Spec => []TypeOK
<1>1. Init => TypeOK
  BY SleeperAssumption DEF Init, TypeOK, Statuses, ConnPcs, LoopPcs
<1> QED
  BY <1>1, TypeStep, PTL DEF Spec

-----------------------------------------------------------------------------
(* The op lock: LoopHolds and ConnHolds read only the program counters.    *)
pcs == <<connPc, connTo, loopPc, cur>>

(* OpExclusive only depends on the program counters.                       *)
LEMMA ExclusiveFrame == OpExclusive /\ UNCHANGED pcs => OpExclusive'
  BY DEF OpExclusive, LoopHolds, ConnHolds, pcs

(* A connection's step that takes no lock keeps OpExclusive.               *)
LEMMA ExclusiveShrinks ==
    ASSUME OpExclusive, UNCHANGED <<loopPc, cur>>,
           \A l \in Conn, c \in Container : ConnHolds(l, c)' => ConnHolds(l, c)
    PROVE  OpExclusive'
<1>1. \A c \in Container : LoopHolds(c)' = LoopHolds(c)
  BY SMTT(30) DEF LoopHolds
<1> QED
  BY <1>1 DEF OpExclusive

(* Every step preserves OpExclusive.                                       *)
LEMMA ExclusiveStep == TypeOK /\ OpExclusive /\ [Next]_vars => OpExclusive'
<1> SUFFICES ASSUME TypeOK, OpExclusive, [Next]_vars PROVE OpExclusive'
  OBVIOUS
<1> USE DEF OpExclusive, LoopHolds, ConnHolds
<1>1. ASSUME NEW k \in Conn, Arrive(k) \/ Close(k) PROVE OpExclusive'
  <2>1. CASE Arrive(k)
    BY <2>1 DEF TypeOK, Arrive, loop
  <2>2. CASE Close(k)
    BY <2>2 DEF TypeOK, Close, loop
  <2> QED
    BY <1>1, <2>1, <2>2
<1>2. ASSUME NEW k \in Conn,
             OnConnection(k) \/ DropGuard(k) \/ Unpause(k) \/ ForgetSleeping(k)
      PROVE  OpExclusive'
  <2>1. /\ connTo' = connTo /\ loopPc' = loopPc /\ cur' = cur
        /\ \A l \in Conn : l # k => connPc'[l] = connPc[l]
        /\ connPc'[k] \in {"unpause", "forget"} => connPc[k] = "unpause"
    BY <1>2, SMTT(30) DEF OnConnection, DropGuard, Unpause, ForgetSleeping, loop, TypeOK
  <2>2. \A l \in Conn, c \in Container : ConnHolds(l, c)' => ConnHolds(l, c)
    BY <2>1
  <2> QED
    BY <2>1, <2>2, ExclusiveShrinks, SMTT(30)
<1>3. ASSUME NEW k \in Conn, TakeOpLock(k) PROVE OpExclusive'
  BY <1>3, SMTT(30) DEF TypeOK, TakeOpLock, Locked, loop
<1>5. CASE LoopCandidates \/ LoopNext \/ LoopUndo \/ LoopInsert
  BY <1>5, ZenonT(30) DEF LoopCandidates, LoopNext, LoopUndo, LoopInsert, conn
<1>6. CASE LoopRecheck
  BY <1>6 DEF LoopRecheck, Locked, conn
<1>7. CASE LoopInspect \/ LoopPause \/ LoopCheckLate
  BY <1>7, ZenonT(30) DEF LoopInspect, LoopPause, LoopCheckLate, conn
<1>8. CASE AbortTasks \/ SetAgentNone \/ SetAgent \/ Crash
  BY <1>8 DEF TypeOK, AbortTasks, SetAgentNone, SetAgent, Crash, ResetTables, conn
<1>9. CASE EventStep \/ SetSettings
  <2>1. UNCHANGED pcs
    BY <1>9, SMTT(30) DEF EventStep, OnContainerEvent, UpdateEndpoints, SetSettings, conn, loop, pcs
  <2> QED
    BY <2>1, ExclusiveFrame, SMTT(30)
<1>10. ASSUME NEW c \in Container, Tick(c) \/ EnvStep(c) PROVE OpExclusive'
  <2>1. UNCHANGED pcs
    BY <1>10, SMTT(30) DEF Tick, EnvStep, UserPause, UserUnpause, ContainerStop, ContainerStart,
       conn, loop, pcs
  <2> QED
    BY <2>1, ExclusiveFrame, SMTT(30)
<1>11. CASE UNCHANGED vars
  BY <1>11, ExclusiveFrame DEF vars, conn, loop, pcs
<1> QED
  BY <1>1, <1>2, <1>3, <1>5, <1>6, <1>7, <1>8, <1>9, <1>10, <1>11, ZenonT(30)
     DEF Next, ConnStep, LoopStep

(* Locked excludes as op_lock does, for any number of containers and       *)
(* connections and whatever fails around them.                             *)
LEMMA Exclusion == Spec => []OpExclusive
<1>1. Init => OpExclusive
  BY DEF Init, OpExclusive, LoopHolds, ConnHolds
<1> QED
  BY <1>1, Typing, ExclusiveStep, PTL DEF Spec
-----------------------------------------------------------------------------
(***************************************************************************)
(* The count of relayed connections.  As long as no container dies, the    *)
(* activity entry of an eligible container counts exactly the connections  *)
(* whose guard is owed or alive.                                           *)
(***************************************************************************)
Counted(c) ==
    {k \in Conn : /\ connTo[k] = c
                  /\ connPc[k] \in {"waitOp", "unpause", "forget", "open", "dropped"}}

NoDeaths == \A i \in 1..Len(events) : events[i].what \in {"pause", "unpause"}

CountInv ==
    /\ NoDeaths
    /\ known = Container
    /\ tracked \subseteq Eligible
    /\ \A c \in Eligible : conns[c] = Cardinality(Counted(c))
    /\ \A c \in Eligible : Counted(c) # {} => c \in tracked

(* Appending an event, or taking the oldest, in the terms of the indices.  *)
LEMMA AppendIndex ==
    ASSUME NEW s \in Seq(Event), NEW e \in Event, NEW i \in 1..Len(Append(s, e))
    PROVE  \/ i \in 1..Len(s) /\ Append(s, e)[i] = s[i]
           \/ i = Len(s) + 1 /\ Append(s, e)[i] = e
  OBVIOUS

(* What the indices of a shortened queue hold.                             *)
LEMMA TailIndex ==
    ASSUME NEW s \in Seq(Event), s # <<>>, NEW i \in 1..Len(Tail(s))
    PROVE  i + 1 \in 1..Len(s) /\ Tail(s)[i] = s[i + 1]
  OBVIOUS

(* The only ways the queue changes when no container dies.                 *)
QueueSteps ==
    \/ events' = events
    \/ events # <<>> /\ events' = Tail(events)
    \/ \E c \in Container :
          \/ events' = Append(events, [what |-> "pause", id |-> c])
          \/ events' = Append(events, [what |-> "unpause", id |-> c])

(* How the docker event queue may change while no container dies.          *)
LEMMA QueueStep ==
    ASSUME TypeOK, [Next]_vars, ContainersDie = FALSE, ServiceCrashes = FALSE
    PROVE  QueueSteps
<1> USE DEF QueueSteps
<1>1. ASSUME NEW k \in Conn, Unpause(k) PROVE QueueSteps
  <2>1. connTo[k] \in Container
    BY DEF TypeOK
  <2> QED
    BY <1>1, <2>1 DEF Unpause, DockerOk, DockerErr, UnpauseEffect, Emit, env
<1>2. CASE LoopPause
  BY <1>2 DEF TypeOK, LoopPause, DockerOk, DockerErr, PauseEffect, Emit, env
<1>3. CASE LoopUndo
  BY <1>3 DEF TypeOK, LoopUndo, DockerOk, DockerErr, UnpauseEffect, Emit, env
<1>4. CASE EventStep
  BY <1>4, SMTT(30) DEF EventStep, OnContainerEvent, UpdateEndpoints
<1>5. ASSUME NEW c \in Container, EnvStep(c) PROVE QueueSteps
  BY <1>5, SMTT(30) DEF EnvStep, UserPause, UserUnpause, UnpauseEffect, Emit, ContainerStop,
     ContainerStart
<1>6. ASSUME NEW k \in Conn,
             Arrive(k) \/ OnConnection(k) \/ TakeOpLock(k) \/ ForgetSleeping(k)
               \/ Close(k) \/ DropGuard(k)
      PROVE  QueueSteps
  BY <1>6, SMTT(30) DEF Arrive, OnConnection, TakeOpLock, ForgetSleeping, Close, DropGuard, env
<1>7. CASE LoopCandidates \/ LoopNext \/ LoopRecheck \/ LoopInspect \/ LoopCheckLate
             \/ LoopInsert
  BY <1>7 DEF LoopCandidates, LoopNext, LoopRecheck, LoopInspect, LoopCheckLate,
     LoopInsert, DockerOk, DockerErr, env
<1>8. CASE SetSettings \/ SetAgent \/ \E c \in Container : Tick(c)
  BY <1>8 DEF SetSettings, SetAgent, Tick, env
<1>9. CASE UNCHANGED vars
  BY <1>9 DEF vars, env
<1> QED
  BY <1>1, <1>2, <1>3, <1>4, <1>5, <1>6, <1>7, <1>8, <1>9, ZenonT(30)
     DEF Next, ConnStep, LoopStep, AbortTasks, SetAgentNone, Crash

(* The queue then never holds an event that drops activity entries.        *)
LEMMA NoDeathsStep == TypeOK /\ NoDeaths /\ QueueSteps => NoDeaths'
<1> SUFFICES ASSUME TypeOK, NoDeaths, QueueSteps, NEW i \in 1..Len(events')
             PROVE  events'[i].what \in {"pause", "unpause"}
  BY DEF NoDeaths
<1> USE DEF NoDeaths
<1>1. CASE events' = events
  BY <1>1
<1>2. CASE events # <<>> /\ events' = Tail(events)
  BY <1>2, TailIndex DEF TypeOK
<1>3. ASSUME NEW c \in Container, events' = Append(events, [what |-> "pause", id |-> c])
      PROVE  events'[i].what \in {"pause", "unpause"}
  BY <1>3, AppendIndex, EventTypes, SMTT(30) DEF TypeOK
<1>4. ASSUME NEW c \in Container, events' = Append(events, [what |-> "unpause", id |-> c])
      PROVE  events'[i].what \in {"pause", "unpause"}
  BY <1>4, AppendIndex, EventTypes DEF TypeOK
<1> QED
  BY <1>1, <1>2, <1>3, <1>4, Zenon DEF QueueSteps
(* The connections counted for a container are finitely many.              *)
LEMMA CountedFinite == ASSUME NEW c PROVE IsFiniteSet(Counted(c))
  BY SleeperAssumption, FS_Subset DEF Counted

(* The part of CountInv a step can disturb besides the queue.              *)
Counts ==
    /\ known = Container
    /\ tracked \subseteq Eligible
    /\ \A c \in Eligible : conns[c] = Cardinality(Counted(c))
    /\ \A c \in Eligible : Counted(c) # {} => c \in tracked

(* Steps that touch neither the counts nor the connections keep them equal. *)
LEMMA CountsFrame ==
    ASSUME Counts, UNCHANGED <<known, tracked, conns>>,
           \A c \in Container : Counted(c)' = Counted(c)
    PROVE  Counts'
  BY SleeperAssumption DEF Counts

(* on_connection adds one to the count of its container and to no other.   *)
LEMMA CountsOnConnection ==
    ASSUME TypeOK, Counts, NEW k \in Conn, OnConnection(k)
    PROVE  Counts'
<1>0. PICK c \in Container : c = connTo[k]
  BY DEF TypeOK
<1>1. c \in Container /\ k \notin Counted(c)
  BY <1>0 DEF TypeOK, OnConnection, Counted
<1>2. Counted(c)' = Counted(c) \cup {k}
  BY <1>0 DEF TypeOK, OnConnection, Counted
<1>3. \A d \in Container : d # c => Counted(d)' = Counted(d)
  BY <1>0 DEF TypeOK, OnConnection, Counted
<1>4. Cardinality(Counted(c) \cup {k}) = Cardinality(Counted(c)) + 1
  BY <1>1, CountedFinite, FS_AddElement, Zenon
<1>5. CASE c \in Eligible
  <2>1. /\ tracked' = tracked \cup {c}
        /\ conns' = [conns EXCEPT ![c] = @ + 1]
        /\ known' = known
    BY <1>0, <1>1, <1>5 DEF OnConnection, Counts
  <2>2. ASSUME NEW d \in Eligible PROVE conns'[d] = Cardinality(Counted(d)')
    <3>1. CASE d = c
      <4>1. Counted(d)' = Counted(c) \cup {k}
        BY <1>2, <3>1
      <4>2. conns'[d] = conns[c] + 1 /\ conns[c] = Cardinality(Counted(c))
        BY <1>1, <1>5, <2>1, <3>1, SMTT(30) DEF TypeOK, Counts
      <4> QED
        BY <1>4, <4>1, <4>2
    <3>2. CASE d # c
      BY <1>3, <2>1, <2>2, <3>2, SleeperAssumption, SMTT(30) DEF TypeOK, Counts
    <3> QED
      BY <3>1, <3>2
  <2>3. ASSUME NEW d \in Eligible, Counted(d)' # {} PROVE d \in tracked'
    BY <1>3, <2>1, <2>3, SleeperAssumption, SMTT(30) DEF Counts
  <2> QED
    BY <1>5, <2>1, <2>2, <2>3, SMTT(30) DEF Counts
<1>6. CASE c \notin Eligible
  <2>1. UNCHANGED <<known, tracked, conns>>
    BY <1>0, <1>6 DEF OnConnection
  <2> QED
    BY <1>3, <1>6, <2>1, SleeperAssumption DEF Counts
<1> QED
  BY <1>5, <1>6

(* ConnGuard's drop takes back the one its connection added.               *)
LEMMA CountsDropGuard ==
    ASSUME TypeOK, Counts, NEW k \in Conn, DropGuard(k)
    PROVE  Counts'
<1>0. PICK c \in Container : c = connTo[k]
  BY DEF TypeOK
<1>1. c \in Container /\ k \in Counted(c)
  BY <1>0 DEF TypeOK, DropGuard, Counted
<1>2. Counted(c)' = Counted(c) \ {k}
  BY <1>0 DEF TypeOK, DropGuard, Counted
<1>3. \A d \in Container : d # c => Counted(d)' = Counted(d)
  BY <1>0 DEF TypeOK, DropGuard, Counted
<1>4. /\ Cardinality(Counted(c) \ {k}) = Cardinality(Counted(c)) - 1
      /\ Cardinality(Counted(c)) \in Nat
  BY <1>1, CountedFinite, FS_RemoveElement, FS_CardinalityType, Zenon
<1>5. Cardinality(Counted(c)) # 0
  BY <1>1, CountedFinite, FS_EmptySet, SMTT(30)
<1>6. CASE c \in Eligible
  <2>1. /\ tracked' = tracked /\ known' = known
        /\ conns' = [conns EXCEPT ![c] = IF @ = 0 THEN 0 ELSE @ - 1]
    BY <1>0, <1>1, <1>6 DEF DropGuard, Counts
  <2>2. ASSUME NEW d \in Eligible PROVE conns'[d] = Cardinality(Counted(d)')
    <3>1. CASE d = c
      <4>1. Counted(d)' = Counted(c) \ {k}
        BY <1>2, <3>1
      <4>2. conns'[d] = (IF conns[c] = 0 THEN 0 ELSE conns[c] - 1)
              /\ conns[c] = Cardinality(Counted(c))
        BY <1>1, <1>6, <2>1, <3>1, SMTT(30) DEF TypeOK, Counts
      <4> QED
        BY <1>4, <1>5, <4>1, <4>2
    <3>2. CASE d # c
      BY <1>3, <2>1, <2>2, <3>2, SleeperAssumption, SMTT(30) DEF TypeOK, Counts
    <3> QED
      BY <3>1, <3>2
  <2>3. ASSUME NEW d \in Eligible, Counted(d)' # {} PROVE d \in tracked'
    BY <1>2, <1>3, <2>1, <2>3, SleeperAssumption, ZenonT(30) DEF Counts
  <2>4. known' = Container /\ tracked' \subseteq Eligible
    BY <2>1, SMTT(30) DEF Counts
  <2> QED
    BY <2>2, <2>3, <2>4, SMTT(30) DEF Counts
<1>7. CASE c \notin Eligible
  <2>1. UNCHANGED <<known, tracked, conns>>
    BY <1>0, <1>7 DEF DropGuard, Counts
  <2> QED
    BY <1>3, <1>7, <2>1, SleeperAssumption DEF Counts
<1> QED
  BY <1>6, <1>7
(* Every step keeps Activity.conns equal to the number of live guards.     *)
LEMMA CountsStep ==
    ASSUME TypeOK, CountInv, [Next]_vars, ContainersDie = FALSE, ServiceCrashes = FALSE
    PROVE  Counts'
<1>0. Counts
  BY DEF CountInv, Counts
<1>1. ASSUME NEW k \in Conn,
             Arrive(k) \/ TakeOpLock(k) \/ Unpause(k) \/ ForgetSleeping(k) \/ Close(k)
      PROVE  Counts'
  <2>1. UNCHANGED <<known, tracked, conns>>
    BY <1>1 DEF Arrive, TakeOpLock, Unpause, ForgetSleeping, Close, table
  <2>2. ASSUME NEW c \in Container PROVE Counted(c)' = Counted(c)
    <3>1. CASE Arrive(k)
      BY <3>1 DEF TypeOK, Arrive, Counted
    <3>2. CASE TakeOpLock(k) \/ Unpause(k) \/ ForgetSleeping(k) \/ Close(k)
      <4>1. /\ connTo' = connTo
            /\ connPc[k] \in {"waitOp", "unpause", "forget", "open"}
            /\ \E p \in {"unpause", "open", "forget", "dropped"} :
                   connPc' = [connPc EXCEPT ![k] = p]
        BY <3>2 DEF TakeOpLock, Unpause, ForgetSleeping, Close
      <4> QED
        BY <4>1, SMTT(30) DEF TypeOK, Counted
    <3> QED
      BY <1>1, <3>1, <3>2
  <2> QED
    BY <1>0, <2>1, <2>2, CountsFrame, SMTT(30)
<1>2. ASSUME NEW k \in Conn, OnConnection(k) PROVE Counts'
  BY <1>0, <1>2, CountsOnConnection
<1>3. ASSUME NEW k \in Conn, DropGuard(k) PROVE Counts'
  BY <1>0, <1>3, CountsDropGuard
<1>4. ASSUME UNCHANGED <<known, tracked, conns, connPc, connTo>> PROVE Counts'
  BY <1>0, <1>4, CountsFrame DEF Counted
<1>5. CASE LoopStep
  BY <1>4, <1>5, Zenon DEF LoopStep, LoopCandidates, LoopNext, LoopRecheck, LoopInspect,
     LoopPause, LoopCheckLate, LoopUndo, LoopInsert, table, conn
<1>6. CASE EventStep
  <2>1. events # <<>> => Head(events).what \in {"pause", "unpause"}
    BY DEF CountInv, NoDeaths, TypeOK
  <2> QED
    BY <1>4, <1>6, <2>1, Zenon DEF EventStep, OnContainerEvent, UpdateEndpoints, conn
<1>7. CASE SetSettings \/ SetAgent \/ UNCHANGED vars
  BY <1>4, <1>7, SMTT(30) DEF SetSettings, SetAgent, vars, table, conn
<1>8. ASSUME NEW c \in Container, Tick(c) \/ EnvStep(c) PROVE Counts'
  BY <1>4, <1>8, ZenonT(30) DEF Tick, EnvStep, UserPause, UserUnpause, ContainerStop,
     ContainerStart, table, conn
<1> QED
  BY <1>1, <1>2, <1>3, <1>5, <1>6, <1>7, <1>8 DEF Next, ConnStep, AbortTasks,
     SetAgentNone, Crash

(* CountInv is inductive while no container dies and the service lives.    *)
LEMMA CountStep ==
    ASSUME ContainersDie = FALSE, ServiceCrashes = FALSE
    PROVE  TypeOK /\ CountInv /\ [Next]_vars => CountInv'
<1> SUFFICES ASSUME TypeOK, CountInv, [Next]_vars PROVE CountInv'
  OBVIOUS
<1>1. NoDeaths'
  BY QueueStep, NoDeathsStep, Zenon DEF CountInv
<1>2. Counts'
  BY CountsStep, Zenon
<1> QED
  BY <1>1, <1>2 DEF CountInv, Counts

(* CountInv holds before the first connection.                             *)
LEMMA CountInit == Init => CountInv
<1> SUFFICES ASSUME Init PROVE CountInv
  OBVIOUS
<1>1. \A c : Counted(c) = {}
  BY DEF Init, Counted
<1>2. NoDeaths
  BY SMTT(30) DEF Init, NoDeaths
<1> QED
  BY <1>1, <1>2, FS_EmptySet, SleeperAssumption, Zenon DEF Init, CountInv

(* While no container dies and the service does not crash, the pause loop  *)
(* never takes a container for idle while a relayed connection to it is    *)
(* open: whatever the user pauses and whatever docker commands fail.       *)
THEOREM IdleDecision ==
    ASSUME ContainersDie = FALSE, ServiceCrashes = FALSE
    PROVE  Spec => IdleDecisionSound
<1>1. TypeOK /\ CountInv /\ [Next]_vars
        => [loopPc = "lock" /\ loopPc' = "inspect"
              => ~\E k \in fresh : Guards(k, cur)]_vars
  <2> SUFFICES ASSUME TypeOK, CountInv, [Next]_vars, loopPc = "lock", loopPc' = "inspect",
                      NEW k \in fresh, Guards(k, cur)
               PROVE  FALSE
    OBVIOUS
  <2>1. LoopRecheck
    BY Zenon DEF Next, ConnStep, LoopStep, EventStep, EnvStep, vars, Arrive, OnConnection,
       TakeOpLock, Unpause, ForgetSleeping, Close, DropGuard, LoopCandidates, LoopNext,
       LoopInspect, LoopPause, LoopCheckLate, LoopUndo, LoopInsert, OnContainerEvent,
       UpdateEndpoints, SetSettings, AbortTasks, SetAgentNone, SetAgent, Crash, Tick, UserPause,
       UserUnpause, ContainerStop, ContainerStart, loop
  <2>2. cur \in Eligible /\ conns[cur] = 0
    BY <2>1 DEF LoopRecheck, Idle, CountInv
  <2>3. Counted(cur) = {}
    BY <2>2, CountedFinite, FS_EmptySet DEF CountInv
  <2> QED
    BY <2>3 DEF TypeOK, Guards, Counted
<1> QED
  BY <1>1, CountInit, CountStep, Typing, PTL DEF Spec, IdleDecisionSound

(***************************************************************************)
(* The list `sleeping' against dockerd's state, when nobody else pauses or *)
(* stops containers and no command fails.                                  *)
(***************************************************************************)
Quiet ==
    /\ MaxFailures = 0 /\ UserPauses = FALSE
    /\ ContainersDie = FALSE /\ ServiceCrashes = FALSE

QuietBase ==
    /\ agent = TRUE
    /\ docker \in [Container -> {"running", "solonPaused"}]
    /\ sleeping \subseteq Eligible
    /\ todo \cap sleeping = {}
    /\ loopPc \notin {"asleep", "next"} => cur \notin todo /\ cur \notin sleeping
    /\ loopPc = "undo" => ~Idle(cur)

QuietLoop ==
    loopPc \in {"inspect", "pause", "late", "undo", "insert"} =>
        /\ cur \in Eligible
        /\ loopPc \in {"inspect", "pause"} => docker[cur] = "running"
        /\ loopPc \notin {"inspect", "pause"} => docker[cur] = "solonPaused"

QuietConn ==
    \A k \in Conn :
        /\ connPc[k] = "unpause" =>
              docker[connTo[k]] = "solonPaused" /\ connTo[k] \in sleeping
        /\ connPc[k] = "forget" => docker[connTo[k]] = "running"

QuietList ==
    \A c \in Container : ~Locked(c) => (c \in sleeping <=> docker[c] = "solonPaused")

(* A wake-up not yet announced to the service keeps the loop away from the *)
(* container: it cannot be paused again before.                            *)
QuietQueue ==
    \A c \in Container :
        Announced(c) => docker[c] = "running" /\ ~Idle(c) /\ ~LoopHolds(c)

QuietInv == QuietBase /\ QuietLoop /\ QuietConn /\ QuietList /\ QuietQueue

(* QuietInv holds before the first connection.                             *)
LEMMA QuietInit == Init => QuietInv
<1> SUFFICES ASSUME Init PROVE QuietInv
  OBVIOUS
<1>1. QuietBase /\ QuietLoop
  BY SleeperAssumption DEF Init, QuietBase, QuietLoop
<1>2. QuietConn /\ QuietList
  BY DEF Init, QuietConn, QuietList
<1>3. QuietQueue
  BY DEF Init, QuietQueue, Announced
<1> QED
  BY <1>1, <1>2, <1>3, SMTT(30) DEF QuietInv

(* Which wake-ups are announced after the queue changes.                   *)
LEMMA AnnouncedAfter ==
    ASSUME TypeOK, NEW c \in Container, Announced(c)'
    PROVE  /\ events' = events => Announced(c)
           /\ events # <<>> /\ events' = Tail(events) => Announced(c)
           /\ \A d \in Container :
                 events' = Append(events, [what |-> "pause", id |-> d]) => Announced(c)
           /\ \A d \in Container :
                 events' = Append(events, [what |-> "unpause", id |-> d])
                     => Announced(c) \/ c = d
<1>1. PICK i \in 1..Len(events') :
          events'[i].what \in {"unpause", "die", "start"} /\ events'[i].id = c
  BY DEF Announced
<1>2. CASE events # <<>> /\ events' = Tail(events)
  BY <1>1, <1>2, TailIndex, SMTT(30) DEF Announced, TypeOK
<1>3. ASSUME NEW d \in Container, events' = Append(events, [what |-> "pause", id |-> d])
      PROVE  Announced(c)
  <2>1. PICK e \in Event : e = [what |-> "pause", id |-> d]
    BY EventTypes, Zenon
  <2>2. i \in 1..Len(events) /\ events'[i] = events[i]
    <3>1. events \in Seq(Event) /\ events' = Append(events, e) /\ e.what = "pause"
      BY <1>3, <2>1, SMTT(30) DEF TypeOK
    <3> QED
      BY <1>1, <3>1, AppendIndex
  <2> QED
    BY <1>1, <2>2 DEF Announced
<1>4. ASSUME NEW d \in Container, events' = Append(events, [what |-> "unpause", id |-> d])
      PROVE  Announced(c) \/ c = d
  <2>1. PICK e \in Event : e = [what |-> "unpause", id |-> d]
    BY EventTypes, Zenon
  <2>2. (i \in 1..Len(events) /\ events'[i] = events[i]) \/ events'[i].id = d
    <3>1. events \in Seq(Event) /\ events' = Append(events, e) /\ e.id = d
      BY <1>4, <2>1, SMTT(30) DEF TypeOK
    <3> QED
      BY <1>1, <3>1, AppendIndex
  <2> QED
    BY <1>1, <2>2 DEF Announced
<1>5. events' = events => Announced(c)
  BY DEF Announced
<1> QED
  BY <1>2, <1>3, <1>4, <1>5, SMTT(30)

(* A docker command in the quiet case: it answers, and is carried out when *)
(* it can be.                                                              *)
LEMMA QuietUnpause ==
    ASSUME Quiet, TypeOK, QuietBase, NEW c \in Container, docker[c] = "solonPaused",
           DockerOk(Paused(c), UnpauseEffect(c)) \/ DockerErr(Paused(c), UnpauseEffect(c))
    PROVE  UnpauseEffect(c)
  BY DEF Quiet, TypeOK, QuietBase, DockerOk, DockerErr, Paused
(* Steps of a connection.                                                  *)
LEMMA QuietConnStep ==
    ASSUME Quiet, TypeOK, OpExclusive, CountInv, QuietInv, NEW k \in Conn,
           Arrive(k) \/ Close(k) \/ ConnStep(k)
    PROVE  QuietInv'
<1> USE DEF QuietInv
<1>1. CASE Arrive(k)
  <2>1. UNCHANGED <<env, table, loop, prefs>> /\ connPc[k] = "none"
          /\ connPc' = [connPc EXCEPT ![k] = "found"]
          /\ \E c \in Container : connTo' = [connTo EXCEPT ![k] = c]
    BY <1>1, Zenon DEF Arrive, TypeOK
  <2>2. \A c \in Container : Locked(c)' = Locked(c)
    BY <2>1, SMTT(30) DEF Locked, LoopHolds, ConnHolds, TypeOK, loop
  <2>3. QuietBase' /\ QuietLoop' /\ QuietConn'
    BY <2>1 DEF QuietBase, QuietLoop, QuietConn, Idle, TypeOK, env, table, loop, prefs
  <2>4. QuietList'
    BY <2>1, <2>2 DEF QuietList, env, table
  <2>5. QuietQueue'
    BY <2>1, AnnouncedAfter, Zenon DEF QuietQueue, Idle, LoopHolds, env, table, loop
  <2> QED
    BY <2>3, <2>4, <2>5
<1>2. CASE Close(k)
  <2>1. UNCHANGED <<env, table, connTo, loop, prefs>> /\ connPc[k] = "open"
          /\ connPc' = [connPc EXCEPT ![k] = "dropped"]
    BY <1>2 DEF Close
  <2>2. \A c \in Container : Locked(c)' = Locked(c)
    BY <2>1, SMTT(30) DEF Locked, LoopHolds, ConnHolds, TypeOK, loop
  <2>3. QuietBase' /\ QuietLoop' /\ QuietConn'
    BY <2>1 DEF QuietBase, QuietLoop, QuietConn, Idle, TypeOK, env, table, loop, prefs
  <2>4. QuietList'
    BY <2>1, <2>2 DEF QuietList, env, table
  <2>5. QuietQueue'
    BY <2>1, AnnouncedAfter, Zenon DEF QuietQueue, Idle, LoopHolds, env, table, loop
  <2> QED
    BY <2>3, <2>4, <2>5
<1>3. CASE OnConnection(k) \/ DropGuard(k)
  <2>1. /\ UNCHANGED <<env, known, sleeping, connTo, loop, prefs>>
        /\ connPc[k] \in {"found", "dropped"}
        /\ \E p \in {"waitOp", "open", "none"} : connPc' = [connPc EXCEPT ![k] = p]
    BY <1>3 DEF OnConnection, DropGuard
  <2>2. \A c \in Container : Locked(c)' = Locked(c)
    BY <2>1 DEF Locked, LoopHolds, ConnHolds, TypeOK, loop
  <2>3. \A c \in Container : ~Idle(c) => ~Idle(c)'
    <3>1. CASE OnConnection(k)
      BY <3>1 DEF OnConnection, Idle, TypeOK
    <3>2. CASE DropGuard(k)
      BY <3>2, SMTT(30) DEF DropGuard, Idle, TypeOK
    <3> QED
      BY <1>3, <3>1, <3>2, SMTT(30)
  <2>4. QuietBase' /\ QuietLoop' /\ QuietConn'
    BY <2>1, <2>3 DEF QuietBase, QuietLoop, QuietConn, TypeOK, env, loop, prefs
  <2>5. QuietList'
    BY <2>1, <2>2, SMTT(30) DEF QuietList, env
  <2>6. QuietQueue'
    BY <2>1, <2>3, AnnouncedAfter DEF QuietQueue, LoopHolds, env, loop
  <2> QED
    BY <2>4, <2>5, <2>6
<1>4. CASE TakeOpLock(k)
  <2>1. /\ UNCHANGED <<env, table, connTo, loop, prefs>>
        /\ ~Locked(connTo[k]) /\ connPc[k] = "waitOp"
        /\ connPc' = [connPc EXCEPT ![k] =
                         IF connTo[k] \in sleeping THEN "unpause" ELSE "open"]
    BY <1>4, SMTT(30) DEF TakeOpLock
  <2>2. \A c \in Container : Locked(c) => Locked(c)'
    BY <2>1 DEF Locked, LoopHolds, ConnHolds, TypeOK, loop
  <2>3. QuietBase' /\ QuietLoop'
    BY <2>1, ZenonT(30) DEF QuietBase, QuietLoop, Idle, env, table, loop, prefs
  <2>4. QuietConn'
    BY <2>1 DEF QuietConn, QuietList, TypeOK, env, table
  <2>5. QuietList'
    BY <2>1, <2>2, Zenon DEF QuietList, env, table
  <2>6. QuietQueue'
    BY <2>1, AnnouncedAfter, Zenon DEF QuietQueue, Idle, LoopHolds, env, table, loop
  <2> QED
    BY <2>3, <2>4, <2>5, <2>6
<1>5. CASE Unpause(k)
  <2>0. PICK c \in Container : c = connTo[k]
    BY DEF TypeOK
  <2>1. /\ UNCHANGED <<table, connTo, loop, prefs>> /\ connPc[k] = "unpause"
        /\ connPc' = [connPc EXCEPT ![k] = "forget"]
        /\ docker[c] = "solonPaused" /\ c \in sleeping
    BY <1>5, <2>0, Zenon DEF Unpause, QuietConn
  <2>2. UnpauseEffect(c)
    BY <1>5, <2>0, <2>1, QuietUnpause, Zenon DEF Unpause
  <2>3. ~LoopHolds(c) /\ \A l \in Conn : l # k => ~ConnHolds(l, c)
    BY <2>0, <2>1, Zenon DEF OpExclusive, ConnHolds
  <2>4. \A d \in Container : Locked(d)' = Locked(d)
    BY <2>1, SMTT(30) DEF Locked, LoopHolds, ConnHolds, TypeOK, loop
  <2>5. QuietBase'
    BY <2>1, <2>2, SMTT(30) DEF QuietBase, UnpauseEffect, Idle, table, loop, prefs
  <2>6. QuietLoop'
    BY <2>1, <2>2, <2>3, SMTT(30) DEF QuietLoop, LoopHolds, UnpauseEffect, TypeOK, loop
  <2>7. QuietConn'
    BY <2>0, <2>1, <2>2, <2>3, SMTT(30) DEF QuietConn, ConnHolds, UnpauseEffect, TypeOK, table
  <2>8. QuietList'
    <3>1. Locked(c)'
      BY <2>0, <2>1 DEF Locked, ConnHolds, TypeOK
    <3> QED
      BY <2>1, <2>2, <2>4, <3>1, SMTT(30) DEF QuietList, UnpauseEffect, TypeOK, table
  <2>9. QuietQueue'
    <3>1. ~Idle(c)
      <4>1. c \in Eligible /\ k \in Counted(c)
        BY <2>0, <2>1 DEF QuietBase, Counted
      <4>2. conns[c] # 0
        BY <4>1, CountedFinite, FS_EmptySet, SMTT(30) DEF CountInv
      <4> QED
        BY <4>2 DEF Idle
    <3>2. ASSUME NEW d \in Container, Announced(d)'
          PROVE  docker'[d] = "running" /\ ~Idle(d)' /\ ~LoopHolds(d)'
      <4>1. Announced(d) \/ d = c
        BY <2>2, <3>2, AnnouncedAfter, SMTT(30) DEF UnpauseEffect, Emit
      <4>2. docker'[d] = "running"
        BY <2>2, <4>1 DEF QuietQueue, UnpauseEffect, TypeOK
      <4>3. ~Idle(d) /\ ~LoopHolds(d)
        BY <2>3, <3>1, <4>1 DEF QuietQueue
      <4> QED
        BY <2>1, <4>2, <4>3 DEF Idle, LoopHolds, table, loop
    <3> QED
      BY <3>2, Zenon DEF QuietQueue
  <2> QED
    BY <2>5, <2>6, <2>7, <2>8, <2>9, SMTT(30)
<1>6. CASE ForgetSleeping(k)
  <2>0. PICK c \in Container : c = connTo[k]
    BY DEF TypeOK
  <2>1. /\ UNCHANGED <<env, known, tracked, conns, idle, connTo, loop, prefs>>
        /\ sleeping' = sleeping \ {c} /\ connPc[k] = "forget"
        /\ connPc' = [connPc EXCEPT ![k] = "open"]
        /\ docker[c] = "running"
    BY <1>6, <2>0, Zenon DEF ForgetSleeping, QuietConn
  <2>2. \A d \in Container : d # c => Locked(d)' = Locked(d)
    BY <2>0, <2>1 DEF Locked, LoopHolds, ConnHolds, TypeOK, loop
  <2>3. QuietBase' /\ QuietLoop'
    BY <2>1, ZenonT(30) DEF QuietBase, QuietLoop, Idle, env, loop, prefs
  <2>4. QuietConn'
    BY <2>0, <2>1, SMTT(30) DEF QuietConn, TypeOK, env
  <2>5. QuietList'
    BY <2>1, <2>2 DEF QuietList, env
  <2>6. QuietQueue'
    BY <2>1, AnnouncedAfter, Zenon DEF QuietQueue, Idle, LoopHolds, env, loop
  <2> QED
    BY <2>3, <2>4, <2>5, <2>6
<1> QED
  BY <1>1, <1>2, <1>3, <1>4, <1>5, <1>6 DEF ConnStep
(* Steps of the pause loop.                                                *)
LEMMA QuietLoopStep ==
    ASSUME Quiet, TypeOK, OpExclusive, CountInv, QuietInv, LoopStep
    PROVE  QuietInv'
<1> USE DEF QuietInv
<1>1. CASE LoopCandidates \/ LoopNext
  <2>1. /\ UNCHANGED <<env, table, conn, prefs>>
        /\ loopPc \in {"asleep", "next"} /\ loopPc' \in {"asleep", "next", "lock"}
    BY <1>1 DEF LoopCandidates, LoopNext
  <2>2. \A c \in Container : Locked(c)' = Locked(c)
    BY <2>1 DEF Locked, LoopHolds, ConnHolds, conn
  <2>3. /\ todo' \cap sleeping' = {}
        /\ loopPc' = "lock" => cur' \notin todo' /\ cur' \notin sleeping'
    BY <1>1, <2>1, SMTT(30) DEF LoopCandidates, LoopNext, QuietBase, table
  <2>4. QuietBase' /\ QuietLoop' /\ QuietConn'
    BY <2>1, <2>3 DEF QuietBase, QuietLoop, QuietConn, env, table, conn, prefs
  <2>5. QuietList'
    BY <2>1, <2>2 DEF QuietList, env, table
  <2>6. QuietQueue'
    BY <2>1, AnnouncedAfter DEF QuietQueue, Idle, LoopHolds, env, table
  <2> QED
    BY <2>4, <2>5, <2>6
<1>2. CASE LoopRecheck
  <2>1. /\ UNCHANGED <<env, table, conn, cur, todo, prefs>> /\ loopPc = "lock"
        /\ ~Locked(cur)
        /\ loopPc' = IF Idle(cur) THEN "inspect" ELSE "next"
    BY <1>2, SMTT(30) DEF LoopRecheck
  <2>2. \A c \in Container : Locked(c) => Locked(c)'
    BY <2>1 DEF Locked, LoopHolds, ConnHolds, conn
  <2>3. QuietBase' /\ QuietConn'
    BY <2>1, Zenon DEF QuietBase, QuietConn, env, table, conn, prefs
  <2>4. QuietLoop'
    <3>1. cur \notin sleeping /\ cur \in Container
      BY <2>1 DEF QuietBase, TypeOK
    <3>2. docker[cur] = "running"
      BY <2>1, <3>1 DEF QuietList, QuietBase
    <3>3. Idle(cur) => cur \in Eligible
      BY DEF Idle, CountInv
    <3> QED
      BY <2>1, <3>2, <3>3, SMTT(30) DEF QuietLoop, env
  <2>5. QuietList'
    BY <2>1, <2>2, SMTT(30) DEF QuietList, env, table
  <2>6. QuietQueue'
    BY <2>1, AnnouncedAfter, ZenonT(30) DEF QuietQueue, Idle, LoopHolds, env, table
  <2> QED
    BY <2>3, <2>4, <2>5, <2>6, SMTT(30)
<1>3. CASE LoopInspect
  <2>1. /\ UNCHANGED <<docker, events, table, conn, cur, todo, prefs>>
        /\ loopPc = "inspect" /\ loopPc' = "pause"
    BY <1>3 DEF LoopInspect, DockerOk, DockerErr, Quiet, QuietBase, QuietLoop, TypeOK, env
  <2>2. \A c \in Container : Locked(c)' = Locked(c)
    BY <2>1, SMTT(30) DEF Locked, LoopHolds, ConnHolds, conn
  <2>3. QuietBase' /\ QuietLoop' /\ QuietConn'
    BY <2>1 DEF QuietBase, QuietLoop, QuietConn, table, conn, prefs
  <2>4. QuietList'
    BY <2>1, <2>2, SMTT(30) DEF QuietList, table
  <2>5. QuietQueue'
    BY <2>1, AnnouncedAfter DEF QuietQueue, Idle, LoopHolds, table
  <2> QED
    BY <2>3, <2>4, <2>5
<1>4. CASE LoopPause
  <2>1. /\ UNCHANGED <<table, conn, cur, todo, prefs>>
        /\ PauseEffect(cur)
        /\ loopPc = "pause" /\ loopPc' = "late"
    <3>1. ~DockerErr(docker[cur] = "running", PauseEffect(cur))
      BY <1>4, SMTT(30) DEF LoopPause, DockerErr, Quiet, QuietBase, QuietLoop, TypeOK
    <3> QED
      BY <1>4, <3>1, SMTT(30) DEF LoopPause, DockerOk
  <2>2. \A c \in Container : Locked(c)' = Locked(c)
    BY <2>1 DEF Locked, LoopHolds, ConnHolds, conn
  <2>3. cur \in Container /\ LoopHolds(cur) /\ Locked(cur)
    BY <2>1 DEF LoopHolds, Locked, TypeOK
  <2>4. \A k \in Conn : ~ConnHolds(k, cur)
    BY <2>3, SMTT(30) DEF OpExclusive
  <2>5. QuietBase' /\ QuietLoop'
    BY <2>1, <2>3, ZenonT(30) DEF QuietBase, QuietLoop, PauseEffect, TypeOK, table, prefs
  <2>6. QuietConn'
    BY <2>1, <2>4, ZenonT(30) DEF QuietConn, PauseEffect, ConnHolds, TypeOK, table, conn
  <2>7. QuietList'
    BY <2>1, <2>2, <2>3, ZenonT(30) DEF QuietList, PauseEffect, TypeOK, table
  <2>8. QuietQueue'
    <3>1. ASSUME NEW c \in Container, Announced(c)' PROVE Announced(c) /\ c # cur
      BY <2>1, <2>3, <3>1, AnnouncedAfter DEF PauseEffect, Emit, QuietQueue
    <3> QED
      BY <2>1, <3>1 DEF QuietQueue, PauseEffect, Idle, LoopHolds, TypeOK, table
  <2> QED
    BY <2>5, <2>6, <2>7, <2>8
<1>5. CASE LoopCheckLate
  <2>1. /\ UNCHANGED <<env, table, conn, cur, todo, prefs>> /\ loopPc = "late"
        /\ loopPc' = IF cur \in tracked /\ conns[cur] > 0 THEN "undo" ELSE "insert"
    BY <1>5 DEF LoopCheckLate
  <2>2. \A c \in Container : Locked(c)' = Locked(c)
    BY <2>1 DEF Locked, LoopHolds, ConnHolds, conn
  <2>3. QuietBase' /\ QuietLoop' /\ QuietConn'
    <3>1. QuietConn'
      BY <2>1 DEF QuietConn, env, table, conn
    <3>2. QuietLoop'
      BY <2>1 DEF QuietLoop, env
    <3>3. cur \in tracked /\ conns[cur] > 0 => ~Idle(cur)
      BY DEF Idle
    <3> QED
      BY <2>1, <3>1, <3>2, <3>3, SMTT(30) DEF QuietBase, Idle, env, table, prefs
  <2>4. QuietList'
    BY <2>1, <2>2, SMTT(30) DEF QuietList, env, table
  <2>5. QuietQueue'
    BY <2>1, AnnouncedAfter, ZenonT(30) DEF QuietQueue, Idle, LoopHolds, env, table
  <2> QED
    BY <2>3, <2>4, <2>5
<1>6. CASE LoopUndo
  <2>1. /\ UNCHANGED <<table, conn, cur, todo, prefs>>
        /\ loopPc = "undo" /\ loopPc' = "next" /\ docker[cur] = "solonPaused"
        /\ cur \in Container
    BY <1>6 DEF LoopUndo, QuietLoop, TypeOK
  <2>2. UnpauseEffect(cur)
    BY <1>6, <2>1, QuietUnpause DEF LoopUndo
  <2>3. LoopHolds(cur) /\ \A k \in Conn : ~ConnHolds(k, cur)
    BY <2>1 DEF LoopHolds, OpExclusive
  <2>4. \A c \in Container : c # cur => Locked(c)' = Locked(c)
    BY <2>1, ZenonT(30) DEF Locked, LoopHolds, ConnHolds, conn
  <2>5. QuietBase' /\ QuietLoop'
    BY <2>1, <2>2, ZenonT(30) DEF QuietBase, QuietLoop, UnpauseEffect, TypeOK, table, prefs
  <2>6. QuietConn'
    BY <2>1, <2>2, <2>3, ZenonT(30) DEF QuietConn, UnpauseEffect, ConnHolds, TypeOK, table, conn
  <2>7. QuietList'
    BY <2>1, <2>2, <2>4, ZenonT(30) DEF QuietList, QuietBase, UnpauseEffect, TypeOK, table
  <2>8. QuietQueue'
    <3>1. ASSUME NEW c \in Container, Announced(c)'
          PROVE  docker'[c] = "running" /\ ~Idle(c)' /\ ~LoopHolds(c)'
      <4>1. Announced(c) \/ c = cur
        BY <2>1, <2>2, <3>1, AnnouncedAfter DEF UnpauseEffect, Emit
      <4>2. docker'[c] = "running"
        BY <2>2, <4>1 DEF QuietQueue, UnpauseEffect, TypeOK
      <4>3. ~Idle(c)
        BY <2>1, <4>1 DEF QuietQueue, QuietBase
      <4> QED
        BY <2>1, <4>2, <4>3, SMTT(30) DEF Idle, LoopHolds, table
    <3> QED
      BY <3>1 DEF QuietQueue
  <2> QED
    BY <2>5, <2>6, <2>7, <2>8
<1>7. CASE LoopInsert
  <2>1. /\ UNCHANGED <<env, known, tracked, conns, idle, conn, cur, todo, prefs>>
        /\ sleeping' = sleeping \cup {cur}
        /\ loopPc = "insert" /\ loopPc' = "next"
        /\ docker[cur] = "solonPaused" /\ cur \in Eligible
    BY <1>7 DEF LoopInsert, QuietLoop
  <2>2. \A c \in Container : c # cur => Locked(c)' = Locked(c)
    BY <2>1 DEF Locked, LoopHolds, ConnHolds, conn
  <2>3. QuietBase' /\ QuietLoop'
    BY <2>1 DEF QuietBase, QuietLoop, env, prefs
  <2>4. QuietConn'
    BY <2>1, Zenon DEF QuietConn, env, conn
  <2>5. QuietList'
    BY <2>1, <2>2, SMTT(30) DEF QuietList, env
  <2>6. QuietQueue'
    BY <2>1, AnnouncedAfter DEF QuietQueue, Idle, LoopHolds, env
  <2> QED
    BY <2>3, <2>4, <2>5, <2>6
<1> QED
  BY <1>1, <1>2, <1>3, <1>4, <1>5, <1>6, <1>7 DEF LoopStep
(* Every other step: the engine's event loop, the settings, time.          *)
LEMMA QuietOtherStep ==
    ASSUME Quiet, TypeOK, CountInv, QuietInv,
           EventStep \/ SetSettings \/ SetAgent \/ UNCHANGED vars
             \/ \E c \in Container : Tick(c)
    PROVE  QuietInv'
<1> USE DEF QuietInv
<1>1. CASE EventStep
  <2>1. PICK e \in Event : events # <<>> /\ e = Head(events)
    BY <1>1, QueueTypes, Zenon DEF EventStep, OnContainerEvent, UpdateEndpoints, TypeOK
  <2>2. e.what \in {"pause", "unpause"} /\ e = events[1] /\ 1 \in 1..Len(events)
    <3>1. events \in Seq(Event)
      BY DEF TypeOK
    <3>2. e = events[1] /\ 1 \in 1..Len(events)
      BY <2>1, <3>1, SMTT(30)
    <3> QED
      BY <3>2 DEF CountInv, NoDeaths
  <2>3. /\ UNCHANGED <<docker, known, tracked, conns, idle, conn, loop, prefs>>
        /\ events' = Tail(events)
        /\ sleeping' = IF e.what = "pause" THEN sleeping ELSE sleeping \ {e.id}
    BY <1>1, <2>1, <2>2, ZenonT(30) DEF EventStep, OnContainerEvent, UpdateEndpoints
  <2>4. e.what = "unpause" => e.id \in Container /\ Announced(e.id)
    BY <2>2 DEF Announced, Event
  <2>5. e.what = "unpause" => docker[e.id] = "running"
    BY <2>4, ZenonT(30) DEF QuietQueue
  <2>6. \A c \in Container : Locked(c)' = Locked(c)
    BY <2>3, ZenonT(30) DEF Locked, LoopHolds, ConnHolds, conn, loop
  <2>7. QuietBase' /\ QuietLoop'
    BY <2>3 DEF QuietBase, QuietLoop, Idle, loop, prefs
  <2>8. QuietConn'
    BY <2>2, <2>3, <2>5, Zenon DEF QuietConn, TypeOK, conn
  <2>9. QuietList'
    BY <2>2, <2>3, <2>5, <2>6, Zenon DEF QuietList
  <2>10. QuietQueue'
    BY <2>1, <2>3, AnnouncedAfter, Zenon DEF QuietQueue, Idle, LoopHolds, loop
  <2> QED
    BY <2>7, <2>8, <2>9, <2>10
<1>2. CASE SetSettings \/ SetAgent \/ UNCHANGED vars
  <2>1. UNCHANGED <<env, table, conn, loop, agent>>
    BY <1>2, ZenonT(30) DEF SetSettings, SetAgent, QuietBase, vars, prefs
  <2>2. \A c \in Container : Locked(c)' = Locked(c)
    BY <2>1 DEF Locked, LoopHolds, ConnHolds, conn, loop
  <2>3. QuietBase' /\ QuietLoop' /\ QuietConn'
    BY <2>1, Zenon DEF QuietBase, QuietLoop, QuietConn, Idle, env, table, conn, loop
  <2>4. QuietList'
    BY <2>1, <2>2, SMTT(30) DEF QuietList, env, table
  <2>5. QuietQueue'
    BY <2>1, AnnouncedAfter, Zenon DEF QuietQueue, Idle, LoopHolds, env, table, loop
  <2> QED
    BY <2>3, <2>4, <2>5
<1>3. ASSUME NEW d \in Container, Tick(d) PROVE QuietInv'
  <2>1. /\ UNCHANGED <<env, known, tracked, conns, sleeping, conn, loop, prefs>>
        /\ events = <<>> /\ ~Locked(d) /\ idle' = idle \cup {d}
    BY <1>3 DEF Tick
  <2>2. \A c \in Container : Locked(c)' = Locked(c)
    BY <2>1, Zenon DEF Locked, LoopHolds, ConnHolds, conn, loop
  <2>3. QuietBase' /\ QuietLoop' /\ QuietConn'
    <3>1. loopPc = "undo" => cur # d
      BY <2>1, SMTT(30) DEF Locked, LoopHolds
    <3>2. QuietLoop' /\ QuietConn'
      BY <2>1 DEF QuietLoop, QuietConn, env, conn, loop
    <3> QED
      BY <2>1, <3>1, <3>2 DEF QuietBase, Idle, env, loop, prefs
  <2>4. QuietList'
    BY <2>1, <2>2, SMTT(30) DEF QuietList, env
  <2>5. QuietQueue'
    <3>1. \A c \in Container : ~Announced(c)'
      BY <2>1 DEF Announced, env
    <3> QED
      BY <3>1 DEF QuietQueue
  <2> QED
    BY <2>3, <2>4, <2>5
<1> QED
  BY <1>1, <1>2, <1>3

(* QuietInv is inductive, one lemma per actor.                             *)
LEMMA QuietStep ==
    ASSUME Quiet
    PROVE  TypeOK /\ OpExclusive /\ CountInv /\ QuietInv /\ [Next]_vars => QuietInv'
<1> SUFFICES ASSUME TypeOK, OpExclusive, CountInv, QuietInv, [Next]_vars PROVE QuietInv'
  OBVIOUS
<1>1. ASSUME NEW c \in Container, EnvStep(c) PROVE FALSE
  BY <1>1, Zenon DEF Quiet, EnvStep, UserPause, UserUnpause, ContainerStop, ContainerStart
<1>2. ~AbortTasks /\ ~SetAgentNone /\ ~Crash
  BY DEF Quiet, AbortTasks, SetAgentNone, Crash
<1> QED
  BY <1>1, <1>2, QuietConnStep, QuietLoopStep, QuietOtherStep DEF Next

(* CountInv needs no container to die, which is part of Quiet.             *)
LEMMA QuietCounts == ASSUME Quiet PROVE TypeOK /\ CountInv /\ [Next]_vars => CountInv'
  BY CountStep, Zenon DEF Quiet

(* Of every reachable state, with nobody else pausing or stopping          *)
(* containers and no command failing.                                      *)
LEMMA QuietHolds == ASSUME Quiet PROVE Spec => [](QuietInv /\ TypeOK)
  BY QuietCounts, Typing, Exclusion, CountInit, QuietInit, QuietStep, PTL DEF Spec

(* In these conditions a container in `sleeping' is one that Solon paused, *)
(* once no operation on it and no event about it is under way (sleep.rs).  *)
THEOREM SleepingList == ASSUME Quiet PROVE Spec => []SleepingIsAccurate
<1>1. QuietInv /\ TypeOK => SleepingIsAccurate
  BY DEF QuietInv, QuietList, SleepingIsAccurate, TypeOK
<1> QED
  BY <1>1, QuietHolds, PTL

(* And a container that Solon has paused is in `sleeping', so that the     *)
(* next connection wakes it.                                               *)
THEOREM PausedIsListed == ASSUME Quiet PROVE Spec => []PauseRemembered
<1>1. QuietInv /\ TypeOK => PauseRemembered
  BY DEF QuietInv, QuietList, PauseRemembered, TypeOK
<1> QED
  BY <1>1, QuietHolds, PTL

(* And `docker unpause' is only run on a container that is paused          *)
(* (on_connection).                                                        *)
THEOREM WakesPaused == ASSUME Quiet PROVE Spec => []WakerFindsPaused
<1>1. QuietInv /\ TypeOK => WakerFindsPaused
  BY DEF QuietInv, QuietConn, WakerFindsPaused, TypeOK
<1> QED
  BY <1>1, QuietHolds, PTL

(* In the same conditions, no connection that found its container asleep   *)
(* is relayed to a container still paused (on_connection's second check).  *)
THEOREM WokenFirst ==
    ASSUME Quiet
    PROVE  Spec => WokenBeforeRelayed
<1>1. TypeOK /\ QuietInv /\ [Next]_vars
        => [\A k \in Conn :
              connPc[k] \in {"waitOp", "forget"} /\ connPc'[k] = "open"
                 => docker[connTo[k]] # "solonPaused"]_vars
  <2> SUFFICES ASSUME TypeOK, QuietInv, [Next]_vars, NEW k \in Conn,
                      connPc[k] \in {"waitOp", "forget"}, connPc'[k] = "open"
               PROVE  docker[connTo[k]] # "solonPaused"
    OBVIOUS
  <2>1. CASE connPc[k] = "forget"
    BY <2>1 DEF QuietInv, QuietConn
  <2>2. CASE connPc[k] = "waitOp"
    <3>1. ASSUME NEW l \in Conn, ConnStep(l) \/ Arrive(l) \/ Close(l) PROVE TakeOpLock(k)
      BY <2>2, <3>1, Zenon DEF ConnStep, Arrive, Close, OnConnection, TakeOpLock, Unpause,
         ForgetSleeping, DropGuard, TypeOK
    <3>2. connPc' = connPc \/ Crash \/ \E l \in Conn : ConnStep(l) \/ Arrive(l) \/ Close(l)
      BY Zenon DEF Next, LoopStep, EventStep, EnvStep, vars, LoopCandidates, LoopNext,
         LoopRecheck, LoopInspect, LoopPause, LoopCheckLate, LoopUndo, LoopInsert,
         OnContainerEvent, UpdateEndpoints, SetSettings, AbortTasks, SetAgentNone, SetAgent, Tick,
         UserPause, UserUnpause, ContainerStop, ContainerStart, conn
    <3>3. TakeOpLock(k)
      BY <2>2, <3>1, <3>2, SMTT(30) DEF Crash, TypeOK
    <3>4. ~Locked(connTo[k]) /\ connTo[k] \notin sleeping
      BY <3>3 DEF TakeOpLock, TypeOK
    <3> QED
      BY <3>4 DEF QuietInv, QuietList, TypeOK
  <2> QED
    BY <2>1, <2>2
<1> QED
  BY <1>1, QuietHolds, PTL DEF Spec, WokenBeforeRelayed
=============================================================================
