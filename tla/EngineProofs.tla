---------------------------- MODULE EngineProofs ----------------------------
(***************************************************************************)
(* Proofs about the engine's lifecycle, for any number of boots, any number*)
(* of pending events, whatever goes wrong.                                 *)
(***************************************************************************)
EXTENDS Engine, TLAPS

(* The stream of events stays a sequence of events.                        *)
LEMMA StreamTypes ==
    /\ <<>> \in Seq(AgentEvent) /\ <<"ready">> \in Seq(AgentEvent)
    /\ \A s \in Seq(AgentEvent) :
          /\ Append(s, "ready") \in Seq(AgentEvent)
          /\ Append(s, "down") \in Seq(AgentEvent)
          /\ Append(s, "eof") \in Seq(AgentEvent)
          /\ s # <<>> => Tail(s) \in Seq(AgentEvent) /\ Head(s) \in AgentEvent
<1>1. "ready" \in AgentEvent /\ "down" \in AgentEvent /\ "eof" \in AgentEvent
  BY DEF AgentEvent
<1> QED
  BY <1>1

(* What went wrong is not forgotten.                                       *)
LEMMA Mishaps ==
    [EngineNext]_engineVars => \E m \in SUBSET Mishap : mishaps' = mishaps \cup m
<1> DEFINE More == \E m \in SUBSET Mishap : mishaps' = mishaps \cup m
<1> SUFFICES ASSUME [EngineNext]_engineVars PROVE More
  OBVIOUS
<1>0. UNCHANGED mishaps => More
  <2>1. {} \in SUBSET Mishap /\ mishaps = mishaps \cup {}
    OBVIOUS
  <2> QED
    BY <2>1, Zenon
<1>1. TerminateOrphans \/ TerminateFails \/ NoteDeath => More
  <2>1. {"terminate"} \in SUBSET Mishap /\ {"beforeReady"} \in SUBSET Mishap
    BY DEF Mishap
  <2> QED
    BY <1>0, <2>1, Zenon DEF TerminateOrphans, TerminateFails, NoteDeath
<1>2. ServiceKilled => More
  <2>1. {"killed"} \in SUBSET Mishap
    BY DEF Mishap
  <2> QED
    BY <2>1, Zenon DEF ServiceKilled
<1> HIDE DEF More
<1>3. CASE StartStep
  BY <1>0, <1>1, <1>3
     DEF StartStep, ProvisionFails, Reattach, NoReattach, CleanOrphans, CreateMachine,
         SaveState, Boot, ReachAgent, AttachEvent, AttachTimeout, SpawnTasks, Publish,
         SetReady, StartFails, log
<1>4. CASE StopStep
  BY <1>0, <1>1, <1>4
     DEF StopStep, StopIdle, StopMark, AskGuest, KillMachine, StopSave, StopEnd, log
<1>5. CASE TaskStep \/ StartBegin \/ StopBegin
  BY <1>0, <1>5
     DEF TaskStep, HandleEvent, WatcherSeesExit, WatcherGivesUp, StartBegin, StopBegin, log
<1>6. CASE Outside
  BY <1>0, <1>1, <1>2, <1>6
     DEF Outside, MachineDies, DockerdStarts, DockerdDies, PowerCut, log
<1> QED
  BY <1>0, <1>3, <1>4, <1>5, <1>6 DEF EngineNext, engineVars, log, More

(* Every step of the service or of its surroundings keeps every variable   *)
(* in its type: a machine's number is one wherever it is used.             *)
LEMMA TypeStep == OwnerInv /\ [EngineNext]_engineVars => EngineTypeOK'
<1> SUFFICES ASSUME EngineTypeOK, Numbered, Ownership, [EngineNext]_engineVars PROVE EngineTypeOK'
  BY DEF OwnerInv
<1>0. mishaps' \subseteq Mishap
  BY Mishaps DEF EngineTypeOK
<1> USE EngineAssumption, <1>0 DEF Vm, log
<1>1. CASE StartBegin \/ StopBegin
  <2> USE DEF EngineTypeOK, guest, tasks, StartPcs, StopPcs
  <2>1. CASE StartBegin
    BY <2>1, Zenon DEF StartBegin
  <2>2. CASE StopBegin
    BY <2>2 DEF StopBegin
  <2> QED
    BY <1>1, <2>1, <2>2
<1>2. CASE StartStep
  <2> USE DEF EngineTypeOK, guest, tasks, StartPcs, StopPcs, Goto
  <2>1. CASE ProvisionFails \/ Reattach \/ NoReattach
    BY <2>1, ZenonT(30) DEF ProvisionFails, Reattach, NoReattach, On
  <2>2. CASE CleanOrphans \/ StartFails
    BY <2>2, Zenon DEF CleanOrphans, StartFails, TerminateOrphans, TerminateFails
  <2>3. CASE CreateMachine
    <3>1. boots + 1 \in Vm
      BY <2>3 DEF CreateMachine, Numbered
    <3> QED
      BY <2>3, <3>1 DEF CreateMachine
  <2>4. CASE SaveState \/ Boot
    <3>1. CASE SaveState
      BY <3>1 DEF SaveState
    <3>2. CASE Boot
      BY <3>2, Zenon DEF Boot
    <3> QED
      BY <2>4, <3>1, <3>2
  <2>5. CASE ReachAgent
    BY <2>5, StreamTypes, Zenon DEF ReachAgent
  <2>6. CASE AttachEvent
    BY <2>6, StreamTypes DEF AttachEvent
  <2>7. CASE AttachTimeout \/ Publish \/ SetReady
    <3>1. CASE AttachTimeout \/ SetReady
      BY <3>1, Zenon DEF AttachTimeout, SetReady
    <3>2. CASE Publish
      BY <3>2 DEF Publish
    <3> QED
      BY <2>7, <3>1, <3>2
  <2>8. CASE SpawnTasks
    <3>1. cur \in Vm
      BY <2>8 DEF SpawnTasks, Ownership, HasMachine, OnlyCur
    <3> QED
      BY <2>8, <3>1 DEF SpawnTasks
  <2> QED
    BY <1>2, <2>1, <2>2, <2>3, <2>4, <2>5, <2>6, <2>7, <2>8 DEF StartStep
<1>3. CASE StopStep
  <2> USE DEF EngineTypeOK, guest, tasks, StartPcs, StopPcs, Goto
  <2>1. CASE StopIdle
    BY <2>1, Zenon DEF StopIdle, TerminateOrphans, TerminateFails
  <2>2. CASE StopMark \/ StopSave \/ StopEnd
    BY <2>2, ZenonT(30) DEF StopMark, StopSave, StopEnd
  <2>3. CASE AskGuest
    BY <2>3, StreamTypes, Zenon DEF AskGuest
  <2>4. CASE KillMachine
    BY <2>4, StreamTypes, Zenon DEF KillMachine, TerminateFails
  <2> QED
    BY <1>3, <2>1, <2>2, <2>3, <2>4 DEF StopStep
<1>4. CASE TaskStep
  <2>1. CASE HandleEvent
    BY <2>1, StreamTypes DEF HandleEvent, Announced, EngineTypeOK, guest, op
  <2>2. ASSUME NEW i \in Vm, WatcherSeesExit(i) \/ WatcherGivesUp(i) PROVE EngineTypeOK'
    BY <2>2, Zenon DEF WatcherSeesExit, WatcherGivesUp, EngineTypeOK, guest, op
  <2> QED
    BY <1>4, <2>1, <2>2 DEF TaskStep
<1>5. CASE Outside
  <2>1. ASSUME NEW i \in Vm, MachineDies(i) PROVE EngineTypeOK'
    BY <2>1, StreamTypes, Zenon DEF MachineDies, Send, EngineTypeOK, op, tasks
  <2>2. CASE DockerdStarts \/ DockerdDies
    <3>1. stream' \in Seq(AgentEvent)
      <4>1. stream \in Seq(AgentEvent)
        BY DEF EngineTypeOK
      <4>2. \E e \in {"ready", "down"} : Send(e)
        BY <2>2 DEF DockerdStarts, DockerdDies
      <4> QED
        BY <4>1, <4>2, StreamTypes DEF Send
    <3> QED
      <4>1. /\ UNCHANGED <<vm, boots, disk, pc, cur, running, stopping, state>>
            /\ UNCHANGED <<recovered, evTask, watchers>>
            /\ dockerUp' \in BOOLEAN
        BY <2>2, Zenon DEF DockerdStarts, DockerdDies, op, tasks
      <4> QED
        BY <3>1, <4>1 DEF EngineTypeOK
  <2>3. CASE ServiceKilled \/ PowerCut
    <3>1. stream' \in Seq(AgentEvent)
      BY <2>3, StreamTypes, Zenon DEF ServiceKilled, PowerCut, ServiceEnds
    <3>2. vm' \in [Vm -> {"absent", "created", "on", "off", "killed"}]
      BY <2>3 DEF ServiceKilled, PowerCut, TerminateOrphans, EngineTypeOK, guest
    <3>3. /\ boots' = boots /\ dockerUp' \in BOOLEAN /\ disk' = disk
          /\ ServiceEnds
      BY <2>3, Zenon DEF ServiceKilled, PowerCut, TerminateOrphans, EngineTypeOK, guest
    <3> QED
      <4>1. /\ pc' = "idle" /\ cur' = 0 /\ running' = 0 /\ stopping' = FALSE
            /\ state' = "Stopped" /\ recovered' = FALSE
            /\ evTask' = FALSE /\ watchers' = {}
        BY <3>3 DEF ServiceEnds
      <4>2. boots' \in 0..MaxBoots /\ disk' \in [vm : 0..MaxBoots, clean : BOOLEAN]
        BY <3>3 DEF EngineTypeOK
      <4>3. 0 \in 0..MaxBoots
        OBVIOUS
      <4> QED
        BY <3>1, <3>2, <3>3, <4>1, <4>2, <4>3, Zenon DEF EngineTypeOK
  <2> QED
    BY <1>5, <2>1, <2>2, <2>3 DEF Outside
<1>6. CASE UNCHANGED engineVars
  BY <1>6 DEF engineVars, guest, op, tasks, EngineTypeOK
<1> QED
  BY <1>1, <1>2, <1>3, <1>4, <1>5, <1>6 DEF EngineNext
(* What is known of the machines beside their types.                       *)
Known == OneMachine /\ Numbered /\ Creation /\ Ownership

(* The steps of start keep it.                                             *)
LEMMA StartKeepsOwner == OwnerInv /\ StartStep => Known'
<1> SUFFICES ASSUME EngineTypeOK, OneMachine, Numbered, Creation, Ownership, StartStep
             PROVE  Known'
  BY DEF OwnerInv
<1> USE EngineAssumption
    DEF EngineTypeOK, Known, OneMachine, Numbered, Creation, Ownership, NoneAlive, OnlyCur,
        HasMachine, Alive, Vm, Goto, guest
<1>1. CASE ProvisionFails
  BY <1>1 DEF ProvisionFails
<1>2. CASE Reattach
  BY <1>2 DEF Reattach, On
<1>3. CASE NoReattach
  BY <1>3 DEF NoReattach
<1>4. CASE CleanOrphans
  <2>1. CASE TerminateOrphans /\ Goto("create")
    BY <1>4, <2>1 DEF CleanOrphans, TerminateOrphans
  <2>2. CASE TerminateFails /\ Goto("fail")
    BY <1>4, <2>2 DEF CleanOrphans, TerminateFails
  <2> QED
    BY <1>4, <2>1, <2>2 DEF CleanOrphans
<1>5. CASE CreateMachine
  BY <1>5 DEF CreateMachine
<1>6. CASE SaveState
  BY <1>6 DEF SaveState
<1>7. CASE Boot
  BY <1>7 DEF Boot
<1>8. CASE ReachAgent
  BY <1>8 DEF ReachAgent, On
<1>9. CASE AttachEvent
  BY <1>9 DEF AttachEvent
<1>10. CASE AttachTimeout
  BY <1>10 DEF AttachTimeout
<1>11. CASE SpawnTasks
  BY <1>11 DEF SpawnTasks
<1>12. CASE Publish
  BY <1>12 DEF Publish
<1>13. CASE SetReady
  BY <1>13 DEF SetReady
<1>14. CASE StartFails
  BY <1>14, SMTT(30) DEF StartFails, TerminateOrphans, TerminateFails
<1> QED
  BY <1>1, <1>2, <1>3, <1>4, <1>5, <1>6, <1>7, <1>8, <1>9, <1>10, <1>11, <1>12, <1>13,
     <1>14, Zenon DEF StartStep

(* The steps of stop keep it, and the two that begin an operation.         *)
LEMMA StopKeepsOwner == OwnerInv /\ (StartBegin \/ StopBegin \/ StopStep) => Known'
<1> SUFFICES ASSUME EngineTypeOK, OneMachine, Numbered, Creation, Ownership,
                    StartBegin \/ StopBegin \/ StopStep
             PROVE  Known'
  BY DEF OwnerInv
<1> USE EngineAssumption
    DEF EngineTypeOK, Known, OneMachine, Numbered, Creation, Ownership, NoneAlive, OnlyCur,
        HasMachine, Alive, Vm, Goto, guest
<1>1. CASE StartBegin
  BY <1>1 DEF StartBegin
<1>2. CASE StopBegin
  BY <1>2 DEF StopBegin
<1>3. CASE StopIdle
  BY <1>3, SMTT(30) DEF StopIdle, TerminateOrphans, TerminateFails
<1>4. CASE StopMark
  BY <1>4 DEF StopMark
<1>5. CASE AskGuest
  BY <1>5 DEF AskGuest, On
<1>6. CASE KillMachine
  BY <1>6, SMTT(30) DEF KillMachine, TerminateFails
<1>7. CASE StopSave
  BY <1>7 DEF StopSave
<1>8. CASE StopEnd
  BY <1>8 DEF StopEnd
<1> QED
  BY <1>1, <1>2, <1>3, <1>4, <1>5, <1>6, <1>7, <1>8 DEF StopStep

(* So do the supervision tasks and the outside.                            *)
LEMMA OthersKeepOwner == OwnerInv /\ (TaskStep \/ Outside \/ UNCHANGED engineVars) => Known'
<1> SUFFICES ASSUME EngineTypeOK, OneMachine, Numbered, Creation, Ownership,
                    TaskStep \/ Outside \/ UNCHANGED engineVars
             PROVE  Known'
  BY DEF OwnerInv
<1> USE EngineAssumption
    DEF EngineTypeOK, Known, OneMachine, Numbered, Creation, Ownership, NoneAlive, OnlyCur,
        HasMachine, Alive, Vm
<1>1. CASE UNCHANGED <<vm, boots, disk, pc, cur, running>>
  BY <1>1, SMTT(30)
<1>2. CASE TaskStep \/ DockerdStarts \/ DockerdDies \/ UNCHANGED engineVars
  BY <1>1, <1>2 DEF TaskStep, HandleEvent, WatcherSeesExit, WatcherGivesUp, DockerdStarts,
                    DockerdDies, engineVars, guest, op
<1>3. ASSUME NEW i \in Vm, MachineDies(i) PROVE Known'
  BY <1>3 DEF MachineDies, op
<1>4. CASE ServiceKilled
  BY <1>4 DEF ServiceKilled, ServiceEnds, guest
<1>5. CASE PowerCut
  BY <1>5 DEF PowerCut, ServiceEnds, TerminateOrphans
<1> QED
  BY <1>2, <1>3, <1>4, <1>5 DEF Outside

(* OwnerInv holds before the first start.                                  *)
LEMMA OwnerInit == EngineInit => OwnerInv
<1> SUFFICES ASSUME EngineInit PROVE OwnerInv
  OBVIOUS
<1>1. EngineTypeOK
  <2>1. stream \in Seq(AgentEvent)
    BY StreamTypes DEF EngineInit
  <2>2. 0 \in 0..MaxBoots
    BY EngineAssumption
  <2>3. /\ vm \in [Vm -> {"absent", "created", "on", "off", "killed"}]
        /\ disk \in [vm : 0..MaxBoots, clean : BOOLEAN]
    BY <2>2 DEF EngineInit
  <2> QED
    BY <2>1, <2>2, <2>3, Zenon DEF EngineInit, EngineTypeOK
<1>2. OneMachine /\ Numbered /\ Creation /\ Ownership
  BY DEF EngineInit, OneMachine, Numbered, Creation, Ownership, HasMachine, Alive
<1> QED
  BY <1>1, <1>2 DEF OwnerInv

(* And every step keeps it.                                                *)
LEMMA OwnerStep == OwnerInv /\ [EngineNext]_engineVars => OwnerInv'
  BY TypeStep, StartKeepsOwner, StopKeepsOwner, OthersKeepOwner DEF OwnerInv, Known, EngineNext

(* So it holds for ever.                                                   *)
LEMMA Owner == EngineSpec => []OwnerInv
  BY OwnerInit, OwnerStep, PTL DEF EngineSpec

(* Every variable keeps its type (start, stop and the supervision tasks).  *)
THEOREM Typing == EngineSpec => []EngineTypeOK
<1>1. OwnerInv => EngineTypeOK
  BY DEF OwnerInv
<1> QED
  BY Owner, <1>1, PTL

(* At most one machine is created or on at any moment, whatever fails and  *)
(* whenever the service or the host goes down (provision, stop).           *)
THEOREM SingleMachine == EngineSpec => []OneMachine
<1>1. OwnerInv => OneMachine
  BY DEF OwnerInv
<1> QED
  BY Owner, <1>1, PTL

(* The machine in `running' is the one state.json names, the one a service *)
(* started afresh would find again.                                        *)
THEOREM Recorded == EngineSpec => []RunningIsRecorded
<1>1. OwnerInv => RunningIsRecorded
  BY DEF OwnerInv, Ownership, HasMachine, RunningIsRecorded
<1> QED
  BY Owner, <1>1, PTL
-----------------------------------------------------------------------------
(* CleanInv is inductive.                                                  *)
LEMMA CleanStep ==
    ASSUME OwnerInv, CleanInv, [EngineNext]_engineVars
    PROVE  CleanInv'
<1> SUFFICES ASSUME "terminate" \notin mishaps' PROVE CleanInv'
  BY DEF CleanInv
<1>0. "terminate" \notin mishaps /\ ~TerminateFails
  BY Mishaps DEF TerminateFails
<1> USE <1>0 DEF OwnerInv, EngineTypeOK, CleanInv, NoneAlive, Alive, On
<1>1. CASE StartBegin \/ StopBegin
  BY <1>1 DEF StartBegin, StopBegin, guest
<1>2. CASE StartStep
  <2> USE DEF Goto, guest
  <2>1. CASE CleanOrphans \/ StartFails
    BY <2>1 DEF CleanOrphans, StartFails, TerminateOrphans
  <2>2. CASE CreateMachine
    BY <2>2 DEF CreateMachine
  <2>3. CASE SaveState
    BY <2>3 DEF SaveState
  <2>4. CASE Boot
    BY <2>4 DEF Boot, Creation
  <2>5. CASE ReachAgent
    BY <2>5 DEF ReachAgent
  <2>6. CASE AttachEvent
    BY <2>6 DEF AttachEvent
  <2>7. CASE \/ ProvisionFails \/ Reattach \/ NoReattach \/ AttachTimeout
             \/ SpawnTasks \/ Publish \/ SetReady
    BY <2>7 DEF ProvisionFails, Reattach, NoReattach, AttachTimeout, SpawnTasks, Publish,
                SetReady
  <2> QED
    BY <1>2, <2>1, <2>2, <2>3, <2>4, <2>5, <2>6, <2>7 DEF StartStep
<1>3. CASE StopStep
  <2> USE DEF Goto, guest
  <2>1. CASE StopIdle
    BY <2>1 DEF StopIdle, TerminateOrphans
  <2>2. CASE StopMark
    BY <2>2 DEF StopMark
  <2>3. CASE AskGuest
    BY <2>3 DEF AskGuest, Ownership, HasMachine, OnlyCur
  <2>4. CASE KillMachine
    BY <2>4 DEF KillMachine, Ownership, HasMachine, OnlyCur
  <2>5. CASE StopSave \/ StopEnd
    BY <2>5 DEF StopSave, StopEnd
  <2> QED
    BY <1>3, <2>1, <2>2, <2>3, <2>4, <2>5 DEF StopStep
<1>4. CASE TaskStep \/ DockerdStarts \/ DockerdDies \/ UNCHANGED engineVars
  BY <1>4 DEF TaskStep, HandleEvent, WatcherSeesExit, WatcherGivesUp, DockerdStarts,
              DockerdDies, engineVars, guest, op
<1>5. ASSUME NEW i \in Vm, MachineDies(i) PROVE CleanInv'
  BY <1>5 DEF MachineDies, op
<1>6. CASE ServiceKilled \/ PowerCut
  BY <1>6 DEF ServiceKilled, PowerCut, ServiceEnds, TerminateOrphans, guest
<1> QED
  BY <1>1, <1>2, <1>3, <1>4, <1>5, <1>6 DEF EngineNext, Outside

(* Both invariants hold for ever.                                          *)
LEMMA Clean == EngineSpec => [](OwnerInv /\ CleanInv)
<1>1. EngineInit => CleanInv
  BY DEF EngineInit, CleanInv, On
<1>2. OwnerInv /\ CleanInv /\ [EngineNext]_engineVars => CleanInv'
  BY CleanStep
<1> QED
  BY Owner, <1>1, <1>2, PTL DEF EngineSpec
(* Only start and stop write state.json.                                   *)
LEMMA DiskKept == [EngineNext]_engineVars => SaveState \/ StopSave \/ UNCHANGED disk
<1> SUFFICES ASSUME [EngineNext]_engineVars, ~SaveState, ~StopSave PROVE UNCHANGED disk
  OBVIOUS
<1>1. StartStep => UNCHANGED disk
  BY DEF StartStep, ProvisionFails, Reattach, NoReattach, CleanOrphans, CreateMachine, Boot,
         ReachAgent, AttachEvent, AttachTimeout, SpawnTasks, Publish, SetReady, StartFails
<1>2. StopStep => UNCHANGED disk
  BY DEF StopStep, StopIdle, StopMark, AskGuest, KillMachine, StopEnd
<1>3. TaskStep \/ Outside \/ StartBegin \/ StopBegin => UNCHANGED disk
  BY DEF TaskStep, HandleEvent, WatcherSeesExit, WatcherGivesUp, Outside, MachineDies,
         DockerdStarts, DockerdDies, ServiceKilled, PowerCut, StartBegin, StopBegin
<1> QED
  BY <1>1, <1>2, <1>3 DEF EngineNext, engineVars

(* Which steps change the machines that are on, while terminate works.     *)
LEMMA OnStep ==
    ASSUME OwnerInv, CleanInv, [EngineNext]_engineVars, ~TerminateFails
    PROVE  \/ Boot /\ On = {} /\ (\E m \in Vm : On' = {m})
           \/ ~SaveState /\ ~StopSave /\ On' = {}
           \/ UNCHANGED On
<1> USE DEF OwnerInv, EngineTypeOK
<1>0. UNCHANGED vm => UNCHANGED On
  BY DEF On
<1>1. TerminateOrphans => On' = {}
  BY DEF TerminateOrphans, On, Alive
<1>2. CASE CreateMachine
  <2>1. vm[boots + 1] = "absent" /\ vm' = [vm EXCEPT ![boots + 1] = "created"]
    BY <1>2, EngineAssumption DEF CreateMachine, Numbered, Vm
  <2> QED
    BY <2>1 DEF On
<1>3. CASE SaveState \/ StopSave
  BY <1>0, <1>3 DEF SaveState, StopSave, guest
<1>4. CASE Boot
  BY <1>4 DEF Boot, Creation, OnlyCur, On, Alive
<1>5. CASE CleanOrphans \/ StartFails \/ StopIdle \/ PowerCut
  <2>1. ~SaveState /\ ~StopSave
    BY <1>5 DEF CleanOrphans, StartFails, StopIdle, PowerCut, ServiceEnds, SaveState,
                StopSave, Goto
  <2> QED
    BY <1>1, <1>5, <2>1 DEF CleanOrphans, StartFails, StopIdle, PowerCut
<1>6. CASE AskGuest
  <2>1. \A i \in Vm : Alive(i) => i = cur
    BY <1>6 DEF AskGuest, Ownership, HasMachine, OnlyCur
  <2>2. UNCHANGED vm \/ On' = {}
    BY <1>6, <2>1 DEF AskGuest, On, Alive
  <2> QED
    BY <1>0, <1>6, <2>2 DEF AskGuest, SaveState, StopSave
<1>7. CASE KillMachine
  <2>1. \A i \in Vm : Alive(i) => i = cur
    BY <1>7 DEF KillMachine, Ownership, HasMachine, OnlyCur
  <2>2. On' = {}
    BY <1>7, <2>1 DEF KillMachine, On, Alive
  <2> QED
    BY <1>7, <2>2 DEF KillMachine, SaveState, StopSave
<1>8. ASSUME NEW i \in Vm, MachineDies(i) PROVE On' = {} /\ UNCHANGED pc
  BY <1>8 DEF MachineDies, OneMachine, Alive, On, op
<1>9. SaveState \/ StopSave => pc' # pc
  BY DEF SaveState, StopSave, Goto
<1>10. CASE \/ ProvisionFails \/ Reattach \/ NoReattach \/ ReachAgent \/ AttachEvent
            \/ AttachTimeout \/ SpawnTasks \/ Publish \/ SetReady
  BY <1>0, <1>10, SMTT(30)
     DEF ProvisionFails, Reattach, NoReattach, ReachAgent, AttachEvent, AttachTimeout,
         SpawnTasks, Publish, SetReady, guest
<1>11. CASE \/ StartBegin \/ StopBegin \/ StopMark \/ StopEnd \/ TaskStep
            \/ DockerdStarts \/ DockerdDies \/ ServiceKilled \/ UNCHANGED engineVars
  BY <1>0, <1>11
     DEF StartBegin, StopBegin, StopMark, StopEnd, TaskStep, HandleEvent, WatcherSeesExit,
         WatcherGivesUp, DockerdStarts, DockerdDies, ServiceKilled, engineVars, guest
<1> QED
  BY <1>2, <1>3, <1>4, <1>5, <1>6, <1>7, <1>8, <1>9, <1>10, <1>11
     DEF EngineNext, StartStep, StopStep, Outside

(* Every step of the engine is a step of DataDisk or changes neither its   *)
(* writers nor the clean mark.                                             *)
LEMMA DataStep ==
    ASSUME OwnerInv, CleanInv, [EngineNext]_engineVars
    PROVE  [Data!Next]_<<Writers, disk.clean>>
<1>1. CASE SaveState
  <2>1. disk'.clean = FALSE /\ UNCHANGED <<vm, mishaps>>
    BY <1>1, SMTT(30) DEF SaveState, guest, log
  <2> QED
    BY <2>1 DEF Data!MarkDirty, Data!Next, Writers, On
<1>2. CASE StopSave
  <2>1. disk'.clean = TRUE /\ UNCHANGED <<vm, mishaps>>
    BY <1>2 DEF StopSave, guest, log, OwnerInv, EngineTypeOK
  <2>2. Writers = {}
    BY <1>2 DEF StopSave, CleanInv, NoneAlive, Alive, Writers, On
  <2> QED
    BY <2>1, <2>2 DEF Data!MarkClean, Data!Next, Writers, On
<1>3. CASE UNCHANGED disk /\ "terminate" \in mishaps'
  BY <1>3 DEF Data!Close, Data!Next, Writers
<1>4. CASE UNCHANGED disk /\ "terminate" \notin mishaps'
  <2>1. Writers = On /\ Writers' = On' /\ ~TerminateFails
    BY <1>4, Mishaps DEF Writers, TerminateFails
  <2>2. CASE Boot /\ On = {} /\ (\E m \in Vm : On' = {m})
    <3>1. ~disk.clean
      BY <2>2 DEF Boot, OwnerInv, Creation
    <3> QED
      BY <1>4, <2>1, <2>2, <3>1 DEF Data!Open, Data!Next
  <2>3. CASE On' = {}
    BY <1>4, <2>1, <2>3 DEF Data!Close, Data!Next
  <2> QED
    BY <1>4, <2>1, <2>2, <2>3, OnStep
<1> QED
  BY <1>1, <1>2, <1>3, <1>4, DiskKept

(* The engine implements DataDisk: a machine writes to the data disk       *)
(* alone, and clean_shutdown is false for as long as it does, through      *)
(* every failure, service crash and power cut, until a terminate fails.    *)
THEOREM DataDiskRefinement == EngineSpec => DataDiskContract
<1>1. EngineInit => Data!Init
  BY DEF EngineInit, Data!Init, Writers, On
<1>2. OwnerInv /\ CleanInv /\ [EngineNext]_engineVars => [Data!Next]_<<Writers, disk.clean>>
  BY DataStep
<1> QED
  BY Clean, <1>1, <1>2, PTL DEF EngineSpec, DataDiskContract, Data!Spec

(* While the service lives and terminate works, no operation leaves a      *)
(* machine alive that `running' does not know (start's error path, stop).  *)
THEOREM NoOrphan == EngineSpec => []NothingLeftBehind
<1>1. EngineInit => NothingLeftBehind
  BY DEF EngineInit, NothingLeftBehind, Alive
<1>2. OwnerInv /\ CleanInv /\ NothingLeftBehind /\ [EngineNext]_engineVars => NothingLeftBehind'
  <2> SUFFICES ASSUME OwnerInv, CleanInv, NothingLeftBehind, [EngineNext]_engineVars, pc' = "idle",
                      "terminate" \notin mishaps', "killed" \notin mishaps'
               PROVE  (\A i \in Vm : Alive(i) => i = running)'
    BY DEF NothingLeftBehind
  <2>0. /\ mishaps \cap {"terminate", "killed"} = {} /\ "terminate" \notin mishaps
        /\ ~TerminateFails /\ ~ServiceKilled
    BY Mishaps DEF TerminateFails, ServiceKilled
  <2> USE <2>0 DEF OwnerInv, EngineTypeOK, NothingLeftBehind, Alive
  <2>1. CASE StartFails \/ StopIdle \/ PowerCut
    BY <2>1 DEF StartFails, StopIdle, PowerCut, TerminateOrphans
  <2>2. CASE SetReady
    BY <2>2 DEF SetReady, Goto, Ownership, HasMachine, OnlyCur, guest
  <2>3. CASE StopEnd
    BY <2>3, SMTT(30) DEF StopEnd, Goto, CleanInv, NoneAlive, guest
  <2>4. CASE TaskStep \/ DockerdStarts \/ DockerdDies \/ UNCHANGED engineVars
    BY <2>4 DEF TaskStep, HandleEvent, WatcherSeesExit, WatcherGivesUp, DockerdStarts,
                DockerdDies, engineVars, guest, op
  <2>5. ASSUME NEW i \in Vm, MachineDies(i)
        PROVE  (\A j \in Vm : Alive(j) => j = running)'
    BY <2>5 DEF MachineDies, op
  <2>6. ~StartBegin /\ ~StopBegin
    BY DEF StartBegin, StopBegin
  <2>7. StartStep => StartFails \/ SetReady
    BY DEF StartStep, ProvisionFails, Reattach, NoReattach, CleanOrphans, CreateMachine,
           SaveState, Boot, ReachAgent, AttachEvent, AttachTimeout, SpawnTasks, Publish, Goto
  <2>8. StopStep => StopIdle \/ StopEnd
    BY DEF StopStep, StopMark, AskGuest, KillMachine, StopSave, Goto
  <2> QED
    BY <2>1, <2>2, <2>3, <2>4, <2>5, <2>6, <2>7, <2>8 DEF EngineNext, Outside
<1> QED
  BY Clean, <1>1, <1>2, PTL DEF EngineSpec

(* Where the end of the stream is, as events come and go.                  *)
LEMMA Ends ==
    /\ ~EndIn(<<>>) /\ ~EndIn(<<"ready">>)
    /\ \A s \in Seq(AgentEvent) :
          /\ EndIn(Append(s, "eof"))
          /\ EndIn(Append(s, "ready")) <=> EndIn(s)
          /\ EndIn(Append(s, "down")) <=> EndIn(s)
          /\ EndIn(s) => s # <<>>
          /\ s # <<>> /\ Head(s) = "eof" => EndIn(s)
          /\ s # <<>> /\ Head(s) # "eof" => (EndIn(Tail(s)) <=> EndIn(s))
<1>1. ~EndIn(<<>>) /\ ~EndIn(<<"ready">>)
  BY DEF EndIn
<1> SUFFICES ASSUME NEW s \in Seq(AgentEvent)
             PROVE  /\ EndIn(Append(s, "eof"))
                    /\ EndIn(Append(s, "ready")) <=> EndIn(s)
                    /\ EndIn(Append(s, "down")) <=> EndIn(s)
                    /\ EndIn(s) => s # <<>>
                    /\ s # <<>> /\ Head(s) = "eof" => EndIn(s)
                    /\ s # <<>> /\ Head(s) # "eof" => (EndIn(Tail(s)) <=> EndIn(s))
  BY <1>1
<1>2. ASSUME NEW e \in AgentEvent
      PROVE  EndIn(Append(s, e)) <=> EndIn(s) \/ e = "eof"
  <2>1. Len(Append(s, e)) = Len(s) + 1 /\ Append(s, e)[Len(s) + 1] = e
    OBVIOUS
  <2>2. \A k \in 1..Len(s) : Append(s, e)[k] = s[k]
    OBVIOUS
  <2>3. 1..(Len(s) + 1) = (1..Len(s)) \cup {Len(s) + 1}
    OBVIOUS
  <2> QED
    BY <2>1, <2>2, <2>3 DEF EndIn
<1>3. "eof" \in AgentEvent /\ "ready" \in AgentEvent /\ "down" \in AgentEvent
  BY DEF AgentEvent
<1>4. EndIn(s) => s # <<>>
  BY DEF EndIn
<1>5. ASSUME s # <<>> PROVE EndIn(s) <=> Head(s) = "eof" \/ EndIn(Tail(s))
  <2>1. /\ Len(s) \in Nat \ {0} /\ Head(s) = s[1] /\ Len(Tail(s)) = Len(s) - 1
        /\ \A k \in 1..(Len(s) - 1) : Tail(s)[k] = s[k + 1]
    BY <1>5
  <2>2. ASSUME NEW k \in 1..Len(s), s[k] = "eof" PROVE Head(s) = "eof" \/ EndIn(Tail(s))
    <3>1. CASE k = 1
      BY <2>1, <2>2, <3>1
    <3>2. CASE k # 1
      <4>1. k - 1 \in 1..(Len(s) - 1) /\ Tail(s)[k - 1] = "eof"
        BY <2>1, <2>2, <3>2
      <4> QED
        BY <2>1, <4>1 DEF EndIn
    <3> QED
      BY <3>1, <3>2
  <2>3. ASSUME NEW k \in 1..(Len(s) - 1), Tail(s)[k] = "eof" PROVE EndIn(s)
    <3>1. k + 1 \in 1..Len(s) /\ s[k + 1] = "eof"
      BY <2>1, <2>3
    <3> QED
      BY <3>1, Zenon DEF EndIn
  <2>4. Head(s) = "eof" => EndIn(s)
    <3>1. 1 \in 1..Len(s)
      BY <2>1, SMTT(30)
    <3> QED
      BY <2>1, <3>1, Zenon DEF EndIn
  <2> QED
    BY <2>1, <2>2, <2>3, <2>4 DEF EndIn
<1> QED
  BY <1>2, <1>3, <1>4, <1>5, Zenon

(* What is announced follows start and stop.                               *)
LEMMA AnnouncingStep ==
    ASSUME OwnerInv, Announcing, Living, [EngineNext]_engineVars
    PROVE  Announcing'
<1> USE DEF OwnerInv, EngineTypeOK, Announcing, StartPcs
<1>1. CASE StartBegin \/ StopBegin
  BY <1>1 DEF StartBegin, StopBegin, tasks
<1>2. CASE StartStep
  <2> USE DEF Goto, tasks
  <2>1. CASE SetReady
    BY <2>1 DEF SetReady, Ownership, HasMachine, OnlyCur, Vm
  <2>2. CASE StartFails
    BY <2>2 DEF StartFails
  <2>3. CASE SpawnTasks \/ Publish
    BY <2>3 DEF SpawnTasks, Publish
  <2>4. CASE AttachEvent
    BY <2>4, SMTT(30) DEF AttachEvent
  <2>5. CASE ProvisionFails \/ Reattach \/ NoReattach \/ CleanOrphans \/ CreateMachine
    BY <2>5 DEF ProvisionFails, Reattach, NoReattach, CleanOrphans, CreateMachine
  <2>6. CASE SaveState \/ Boot \/ ReachAgent \/ AttachTimeout
    BY <2>6 DEF SaveState, Boot, ReachAgent, AttachTimeout
  <2> QED
    BY <1>2, <2>1, <2>2, <2>3, <2>4, <2>5, <2>6 DEF StartStep
<1>3. CASE StopStep
  BY <1>3 DEF StopStep, StopIdle, StopMark, AskGuest, KillMachine, StopSave, StopEnd, Goto,
              tasks, Ownership
<1>4. CASE HandleEvent
  BY <1>4 DEF HandleEvent, op
<1>5. ASSUME NEW i \in Vm, WatcherSeesExit(i) \/ WatcherGivesUp(i) PROVE Announcing'
  BY <1>5, SMTT(30) DEF WatcherSeesExit, WatcherGivesUp, op
<1>6. CASE Outside
  BY <1>6 DEF Outside, MachineDies, DockerdStarts, DockerdDies, ServiceKilled, PowerCut,
              ServiceEnds, op, tasks
<1>7. CASE UNCHANGED engineVars
  BY <1>7, ZenonT(30) DEF engineVars, op, tasks
<1> QED
  BY <1>1, <1>2, <1>3, <1>4, <1>5, <1>6, <1>7, ZenonT(30) DEF EngineNext, TaskStep

(* A death is on its way to the event loop, or announced.                  *)
LEMMA LivingStep ==
    ASSUME OwnerInv, Announcing, Living, [EngineNext]_engineVars
    PROVE  Living'
<1> SUFFICES ASSUME "beforeReady" \notin mishaps' PROVE Living'
  BY DEF Living
<1>0. "beforeReady" \notin mishaps
  BY Mishaps
<1> DEFINE Open    == pc \in {"attach", "spawn", "publish", "ready"}
           Settled == pc = "idle" /\ running # 0
<1>types. /\ stream \in Seq(AgentEvent) /\ evTask \in BOOLEAN /\ stopping \in BOOLEAN
          /\ vm \in [Vm -> {"absent", "created", "on", "off", "killed"}]
  BY DEF OwnerInv, EngineTypeOK
<1>own. (running # 0 => running = cur /\ ~stopping) /\ (pc = "ready" => running = cur)
  BY DEF OwnerInv, Ownership, Announcing
<1> USE <1>0 DEF Living, On
<1>1. CASE StartBegin \/ StopBegin
  BY <1>1, SMTT(30) DEF StartBegin, StopBegin, guest, tasks
<1>2. CASE StartStep
  <2> USE DEF Goto, tasks, guest, log
  <2>1. CASE ReachAgent
    BY <2>1, Ends DEF ReachAgent
  <2>2. CASE AttachEvent
    <3>1. stream # <<>> /\ Head(stream) # "eof" /\ ~EndIn(stream) /\ stream' = Tail(stream)
      BY <2>2, <1>types, Ends DEF AttachEvent
    <3>2. ~EndIn(stream')
      BY <3>1, <1>types, Ends
    <3>3. pc' \in {"attach", "spawn"} /\ cur' = cur /\ vm' = vm /\ cur \in On
      BY <2>2, <3>1 DEF AttachEvent
    <3> QED
      BY <3>2, <3>3
  <2>3. CASE SpawnTasks
    BY <2>3 DEF SpawnTasks
  <2>4. CASE Publish
    BY <2>4 DEF Publish
  <2>5. CASE SetReady
    BY <2>5, <1>own DEF SetReady
  <2>6. CASE StartFails
    <3>1. running = 0
      BY <2>6 DEF StartFails, OwnerInv, Ownership
    <3> QED
      BY <2>6, <3>1 DEF StartFails
  <2>7. CASE \/ ProvisionFails \/ Reattach \/ NoReattach \/ CleanOrphans \/ CreateMachine
             \/ SaveState \/ Boot \/ AttachTimeout
    <3>1. ~Open' /\ pc' # "idle"
      BY <2>7 DEF ProvisionFails, Reattach, NoReattach, CleanOrphans, CreateMachine,
                  SaveState, Boot, AttachTimeout
    <3> QED
      BY <3>1, SMTT(30)
  <2> QED
    BY <1>2, <2>1, <2>2, <2>3, <2>4, <2>5, <2>6, <2>7 DEF StartStep
<1>3. CASE StopStep
  <2>1. running = 0 /\ running' = running /\ ~Open'
    BY <1>3 DEF StopStep, StopIdle, StopMark, AskGuest, KillMachine, StopSave, StopEnd, Goto,
                OwnerInv, Ownership
  <2> QED
    BY <2>1
<1>4. CASE HandleEvent
  <2>1. /\ pc' = pc /\ cur' = cur /\ running' = running /\ vm' = vm
        /\ evTask = TRUE /\ stream # <<>> /\ stream' = Tail(stream)
        /\ state' = Announced(Head(stream))
    BY <1>4, <1>types DEF HandleEvent, op, guest
  <2>2. CASE Head(stream) = "eof"
    <3>1. EndIn(stream) /\ evTask' = FALSE
      BY <1>4, <2>1, <2>2, <1>types, Ends, Zenon DEF HandleEvent
    <3>2. Settled => state' = "Failed"
      BY <2>1, <2>2, <1>own DEF Announced
    <3>3. ~Open /\ ~(running' \in On' /\ evTask')
      BY <2>1, <3>1
    <3> QED
      BY <2>1, <3>1, <3>2, <3>3
  <2>3. CASE Head(stream) # "eof"
    <3>1. evTask' = TRUE
      BY <1>4, <2>3, Zenon DEF HandleEvent
    <3>2. EndIn(stream') <=> EndIn(stream)
      BY <2>1, <2>3, <1>types, Ends, Zenon
    <3> QED
      BY <2>1, <3>1, <3>2
  <2> QED
    BY <2>2, <2>3
<1>5. ASSUME NEW i \in Vm, WatcherSeesExit(i) \/ WatcherGivesUp(i) PROVE Living'
  <2>1. /\ UNCHANGED <<pc, cur, running, vm, evTask, stream>>
        /\ Settled => state' \in {state, "Failed"}
    BY <1>5 DEF WatcherSeesExit, WatcherGivesUp, op, guest
  <2> QED
    BY <2>1
<1>6. ASSUME NEW i \in Vm, MachineDies(i) PROVE Living'
  <2>1. UNCHANGED <<pc, cur, running, evTask, state>> /\ ~Open
    BY <1>6 DEF MachineDies, NoteDeath, op, tasks
  <2>2. evTask => EndIn(stream')
    BY <1>6, <1>types, Ends DEF MachineDies, Send, Connected
  <2>3. ~evTask => ~evTask' /\ (Settled => state' = "Failed")
    BY <2>1
  <2> QED
    BY <2>1, <2>2, <2>3
<1>7. CASE DockerdStarts \/ DockerdDies
  <2>1. /\ UNCHANGED <<pc, cur, running, evTask, state, vm>>
        /\ \/ UNCHANGED stream
           \/ stream' = Append(stream, "ready")
           \/ stream' = Append(stream, "down")
    BY <1>7 DEF DockerdStarts, DockerdDies, Send, op, tasks
  <2>2. EndIn(stream') <=> EndIn(stream)
    <3>1. CASE UNCHANGED stream
      BY <3>1, Zenon
    <3>2. CASE stream' = Append(stream, "ready")
      BY <3>2, <1>types, Ends, Zenon
    <3>3. CASE stream' = Append(stream, "down")
      BY <3>3, <1>types, Ends, Zenon
    <3> QED
      BY <2>1, <3>1, <3>2, <3>3, Zenon
  <2> QED
    BY <2>1, <2>2
<1>8. CASE ServiceKilled \/ PowerCut
  BY <1>8 DEF ServiceKilled, PowerCut, ServiceEnds
<1>9. CASE UNCHANGED engineVars
  BY <1>9 DEF engineVars, guest, op, tasks
<1> QED
  BY <1>1, <1>2, <1>3, <1>4, <1>5, <1>6, <1>7, <1>8, <1>9, Zenon DEF EngineNext, TaskStep, Outside

(* What is announced and what lives hold for ever.                         *)
LEMMA Announced0 == EngineSpec => [](OwnerInv /\ Announcing /\ Living)
<1>1. EngineInit => Announcing /\ Living
  BY DEF EngineInit, Announcing, Living, StartPcs
<1>2. OwnerInv /\ Announcing /\ Living /\ [EngineNext]_engineVars => Announcing' /\ Living'
  BY AnnouncingStep, LivingStep
<1> QED
  BY Owner, <1>1, <1>2, PTL DEF EngineSpec

(* A dead machine is not left announced `Ready', unless it died in the     *)
(* last steps of start: the end of the stream is still to be handled       *)
(* (spawn_event_loop, spawn_exit_watcher).                                 *)
THEOREM ReadyAlive == EngineSpec => []ReadyStaysAlive
<1>1. OwnerInv /\ Announcing /\ Living => ReadyStaysAlive
  BY Ends DEF OwnerInv, EngineTypeOK, Announcing, Living, ReadyStaysAlive, ReadyIsAlive
<1> QED
  BY Announced0, <1>1, PTL
=============================================================================
