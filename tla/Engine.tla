------------------------------- MODULE Engine -------------------------------
(***************************************************************************)
(* The engine's lifecycle (crates/solon-service/src/engine.rs): start,     *)
(* stop and restart of the virtual machine, reattachment to a machine that *)
(* outlived the service, the two supervision tasks (event loop and exit    *)
(* watcher) and what state.json keeps of it.                               *)
(*                                                                         *)
(* start and stop hold the lock `op': `pc' is the one operation under way. *)
(* A step is what happens between two waits for the outside (the host      *)
(* compute service, the agent, a file).                                    *)
(***************************************************************************)
EXTENDS Naturals, Sequences, FiniteSets

CONSTANTS
    MaxBoots,  \* bound: machines created
    MaxEvents  \* bound: agent events on their way

ASSUME EngineAssumption == MaxBoots \in Nat /\ MaxEvents \in Nat

Vm == 1..MaxBoots
(* "terminate" failed, the service was "killed", the machine or dockerd died *)
(* after attach connected to the events and "beforeReady".                   *)
Mishap == {"terminate", "killed", "beforeReady"}
AgentEvent == {"ready", "down", "eof"} \* EngineReady, EngineDown, end of the stream

VARIABLES
    vm,       \* every machine created so far
    boots,    \* how many there are
    dockerUp, \* dockerd answers in the machine
    stream,   \* events sent by the agent and not yet read
    disk,     \* state.json: vm_id (0: none) and clean_shutdown
    pc,       \* the step of the operation that holds `op'
    cur,      \* the machine the operation, or the supervision, is about
    running,  \* Inner.running: the machine's number, 0 when None
    stopping, \* Inner.stopping
    state,    \* EngineSnapshot.state
    recovered,\* EngineSnapshot.recovered_from_crash
    mishaps,  \* what went wrong so far (history variable, see Mishap)
    evTask,   \* the event loop is alive
    watchers  \* the machines whose exit watcher is alive

guest == <<vm, boots, dockerUp>>
tasks == <<evTask, watchers>>
op    == <<pc, cur, running, stopping>>
log   == <<recovered, mishaps>>
engineVars  == <<guest, stream, disk, op, state, log, tasks>>

StartPcs == {"clean", "orphans", "create", "save", "boot", "agent", "attach",
             "spawn", "publish", "ready", "fail"}
StopPcs  == {"stopIdle", "stopMark", "ask", "kill", "stopSave", "stopEnd"}

EngineTypeOK ==
    /\ vm \in [Vm -> {"absent", "created", "on", "off", "killed"}]
    /\ boots \in 0..MaxBoots
    /\ dockerUp \in BOOLEAN
    /\ stream \in Seq(AgentEvent)
    /\ disk \in [vm : 0..MaxBoots, clean : BOOLEAN]
    /\ pc \in {"idle"} \cup StartPcs \cup StopPcs
    /\ cur \in 0..MaxBoots
    /\ running \in 0..MaxBoots
    /\ stopping \in BOOLEAN
    /\ state \in {"Stopped", "Starting", "Ready", "Degraded", "Stopping", "Failed"}
    /\ recovered \in BOOLEAN /\ mishaps \subseteq Mishap
    /\ evTask \in BOOLEAN
    /\ watchers \subseteq Vm

EngineInit ==
    /\ vm = [i \in Vm |-> "absent"] /\ boots = 0 /\ dockerUp = FALSE
    /\ stream = <<>>
    /\ disk = [vm |-> 0, clean |-> FALSE]
    /\ pc = "idle" /\ cur = 0 /\ running = 0 /\ stopping = FALSE
    /\ state = "Stopped"
    /\ recovered = FALSE /\ mishaps = {}
    /\ evTask = FALSE /\ watchers = {}

-----------------------------------------------------------------------------
Alive(i) == vm[i] \in {"created", "on"}
On == {i \in Vm : vm[i] = "on"}
Goto(l) == pc' = l /\ UNCHANGED <<cur, running, stopping>>

(* The agent's side of the event stream.                                   *)
Connected == pc \in {"attach", "spawn"} \/ evTask
Send(e) == stream' = IF Connected THEN Append(stream, e) ELSE stream

(* HcsVm::terminate_orphans(None): every machine of Solon is terminated.   *)
TerminateOrphans ==
    /\ vm' = [i \in Vm |-> IF Alive(i) THEN "killed" ELSE vm[i]]
    /\ dockerUp' = FALSE
    /\ UNCHANGED <<boots, mishaps>>
TerminateFails ==
    /\ \E i \in Vm : Alive(i)
    /\ mishaps' = mishaps \cup {"terminate"}
    /\ UNCHANGED guest

(* Mutant: `stopping' is not reset.                                        *)
StartBeginStillStopping ==
    /\ pc = "idle" /\ running = 0 /\ boots < MaxBoots
    /\ state' = "Starting"
    /\ Goto("clean")
    /\ UNCHANGED <<guest, stream, disk, log, tasks>>

-----------------------------------------------------------------------------
(* start.  It returns at once when a machine is running.                   *)
StartBegin ==
    /\ pc = "idle" /\ running = 0 /\ boots < MaxBoots
    /\ stopping' = FALSE
    /\ state' = "Starting"
    /\ pc' = "clean"
    /\ UNCHANGED <<guest, stream, disk, cur, running, log, tasks>>

(* A step of the provisioning fails, up to the boot of the machine.        *)
ProvisionFails ==
    /\ pc \in {"clean", "orphans", "create", "save", "boot"}
    /\ Goto("fail")
    /\ UNCHANGED <<guest, stream, disk, state, log, tasks>>

(* Reattachment: the machine of state.json still runs and its agent        *)
(* answers.                                                                *)
Reattach ==
    /\ pc = "clean"
    /\ disk.vm \in On
    /\ cur' = disk.vm
    /\ pc' = "agent"
    /\ state' = "Starting"
    /\ UNCHANGED <<guest, stream, disk, running, stopping, log, tasks>>

(* Otherwise a new machine; the last stop is reported if it was not clean. *)
NoReattach ==
    /\ pc = "clean"
    /\ recovered' = (recovered \/ (disk.vm # 0 /\ ~disk.clean))
    /\ state' = "Starting"
    /\ Goto("orphans")
    /\ UNCHANGED <<guest, stream, disk, mishaps, tasks>>

(* Mutant: the error is ignored, as it is elsewhere.                       *)
CleanOrphansIgnoreError ==
    /\ pc = "orphans"
    /\ TerminateOrphans \/ TerminateFails
    /\ Goto("create")
    /\ state' = "Starting"
    /\ UNCHANGED <<stream, disk, recovered, tasks>>

(* Mutant: state.json is not written before the boot.                      *)
CreateMachineUnsaved ==
    /\ pc = "create"
    /\ boots' = boots + 1
    /\ vm' = [vm EXCEPT ![boots + 1] = "created"]
    /\ cur' = boots + 1
    /\ pc' = "boot"
    /\ UNCHANGED <<dockerUp, stream, disk, running, stopping, state, log, tasks>>

(* Orphans are terminated before a machine is created.                     *)
CleanOrphans ==
    /\ pc = "orphans"
    /\ \/ TerminateOrphans /\ Goto("create")
       \/ TerminateFails /\ Goto("fail")
    /\ state' = "Starting"
    /\ UNCHANGED <<stream, disk, recovered, tasks>>

(* Mutant: the machine's identifier is left as it was.                     *)
SaveStateOldId ==
    /\ pc = "save"
    /\ disk' = [disk EXCEPT !.clean = FALSE]
    /\ Goto("boot")
    /\ UNCHANGED <<guest, stream, state, log, tasks>>

CreateMachine ==
    /\ pc = "create"
    /\ boots' = boots + 1
    /\ vm' = [vm EXCEPT ![boots + 1] = "created"]
    /\ cur' = boots + 1
    /\ pc' = "save"
    /\ UNCHANGED <<dockerUp, stream, disk, running, stopping, state, log, tasks>>

SaveState ==
    /\ pc = "save"
    /\ disk' = [vm |-> cur, clean |-> FALSE]
    /\ Goto("boot")
    /\ UNCHANGED <<guest, stream, state, log, tasks>>

(* The machine takes seconds to boot: by then the exit watchers of earlier *)
(* machines have run.                                                      *)
Boot ==
    /\ pc = "boot"
    /\ watchers = {}
    /\ vm' = [vm EXCEPT ![cur] = "on"]
    /\ state' = "Starting"
    /\ Goto("agent")
    /\ UNCHANGED <<boots, dockerUp, stream, disk, log, tasks>>

(* Connection to the agent, Health, ConfigureNetwork (on a new machine),   *)
(* then the event connection, which tells a new subscriber of a dockerd    *)
(* that is up.                                                             *)
ReachAgent ==
    /\ pc = "agent"
    /\ \/ /\ cur \in On
          /\ stream' = IF dockerUp THEN <<"ready">> ELSE <<>>
          /\ Goto("attach")
       \/ /\ UNCHANGED stream
          /\ Goto("fail")
    /\ state' = "Starting"
    /\ UNCHANGED <<guest, disk, log, tasks>>

(* Mutant: only the loss of the machine ends the wait.                     *)
AttachTimeoutIfLost ==
    /\ pc = "attach" /\ stream = <<>> /\ cur \notin On
    /\ Goto("fail")
    /\ UNCHANGED <<guest, stream, disk, state, log, tasks>>

(* attach reads events until EngineReady, the end of the stream or the 90 s*)
(* deadline; every other event is dropped.                                 *)
AttachEvent ==
    /\ pc = "attach" /\ stream # <<>>
    /\ Goto(CASE Head(stream) = "ready" -> "spawn"
              [] Head(stream) = "eof"   -> "fail"
              [] OTHER                  -> "attach")
    /\ stream' = Tail(stream)
    /\ UNCHANGED <<guest, disk, state, log, tasks>>

AttachTimeout ==
    /\ pc = "attach" /\ stream = <<>> /\ ~dockerUp
    /\ Goto("fail")
    /\ UNCHANGED <<guest, stream, disk, state, log, tasks>>

(* The end of attach: ports, domains, then the supervision tasks.          *)
SpawnTasks ==
    /\ pc = "spawn"
    /\ evTask' = TRUE
    /\ watchers' = watchers \cup {cur}
    /\ Goto("publish")
    /\ UNCHANGED <<guest, stream, disk, state, log>>

(* After the route is set, start stores `running' and only then `Ready'.   *)
Publish ==
    /\ pc = "publish"
    /\ running' = cur /\ pc' = "ready"
    /\ UNCHANGED <<guest, stream, disk, cur, stopping, state, log, tasks>>

SetReady ==
    /\ pc = "ready"
    /\ state' = "Ready"
    /\ Goto("idle")
    /\ UNCHANGED <<guest, stream, disk, log, tasks>>

(* Mutant: nothing is cleaned up.                                          *)
StartFailsNoCleanup ==
    /\ pc = "fail"
    /\ state' = "Failed"
    /\ Goto("idle")
    /\ UNCHANGED <<guest, stream, disk, log, tasks>>

(* start's error path: what was created is terminated, as far as possible. *)
StartFails ==
    /\ pc = "fail"
    /\ TerminateOrphans \/ TerminateFails
    /\ state' = "Failed"
    /\ Goto("idle")
    /\ UNCHANGED <<stream, disk, recovered, tasks>>

-----------------------------------------------------------------------------
(* stop(force).  `stopping' is set and `running' taken first.              *)
StopBegin ==
    /\ pc = "idle"
    /\ stopping' = TRUE
    /\ running' = 0
    /\ pc' = IF running = 0 THEN "stopIdle" ELSE "stopMark"
    /\ UNCHANGED <<guest, stream, disk, cur, state, log, tasks>>

StopIdle ==
    /\ pc = "stopIdle"
    /\ TerminateOrphans \/ TerminateFails
    /\ state' = "Stopped"
    /\ Goto("idle")
    /\ UNCHANGED <<stream, disk, recovered, tasks>>

(* The tasks are aborted: the event loop ends at its next await, so that   *)
(* it may still handle an event before `ask' or `kill'; the exit watcher,  *)
(* a blocking task, is not interrupted.                                    *)
StopMark ==
    /\ pc = "stopMark"
    /\ state' = "Stopping"
    /\ \E force \in BOOLEAN : Goto(IF force THEN "kill" ELSE "ask")
    /\ UNCHANGED <<guest, stream, disk, log, tasks>>

(* The guest is asked to power off; without an answer or an exit within    *)
(* the delays it is terminated.                                            *)
AskGuest ==
    /\ pc = "ask"
    /\ \/ /\ cur \in On
          /\ vm' = [vm EXCEPT ![cur] = "off"] /\ dockerUp' = FALSE
          /\ Goto("stopSave")
       \/ /\ UNCHANGED <<vm, dockerUp>>
          /\ Goto("kill")
    /\ evTask' = FALSE /\ stream' = <<>>
    /\ UNCHANGED <<boots, disk, state, log, watchers>>

(* The error of terminate is ignored.                                      *)
KillMachine ==
    /\ pc = "kill"
    /\ \/ /\ vm' = [vm EXCEPT ![cur] = IF Alive(cur) THEN "killed" ELSE @]
          /\ dockerUp' = FALSE /\ UNCHANGED <<boots, mishaps>>
       \/ TerminateFails
    /\ evTask' = FALSE /\ stream' = <<>>
    /\ Goto("stopSave")
    /\ UNCHANGED <<disk, state, recovered, watchers>>

StopSave ==
    /\ pc = "stopSave"
    /\ disk' = [disk EXCEPT !.clean = TRUE]
    /\ Goto("stopEnd")
    /\ UNCHANGED <<guest, stream, state, log, tasks>>

StopEnd ==
    /\ pc = "stopEnd"
    /\ state' = "Stopped"
    /\ Goto("idle")
    /\ UNCHANGED <<guest, stream, disk, log, tasks>>

-----------------------------------------------------------------------------
(* Mutant: the end of the stream is taken for the end of dockerd.          *)
AnnouncedEndAsDown(e) ==
    CASE e = "down" \/ (e = "eof" /\ ~stopping) -> "Degraded"
      [] e = "ready" /\ state = "Degraded" -> "Ready"
      [] OTHER -> state

(* The engine state after an event.                                        *)
Announced(e) ==
    CASE e = "down" -> "Degraded"
      [] e = "ready" /\ state = "Degraded" -> "Ready"
      [] e = "eof" /\ ~stopping -> "Failed"
      [] OTHER -> state

(* spawn_event_loop: one event; the loop ends with the stream.             *)
HandleEvent ==
    /\ evTask /\ stream # <<>>
    /\ state' = Announced(Head(stream))
    /\ evTask' = (Head(stream) # "eof")
    /\ stream' = Tail(stream)
    /\ UNCHANGED <<guest, disk, op, log, watchers>>

(* spawn_exit_watcher: the machine's exit is seen.                         *)
WatcherSeesExit(i) ==
    /\ i \in watchers /\ ~Alive(i)
    /\ state' = IF stopping THEN state ELSE "Failed"
    /\ watchers' = watchers \ {i}
    /\ UNCHANGED <<guest, stream, disk, op, log, evTask>>

(* Its wait times out every second, and it looks at `stopping'.            *)
WatcherGivesUp(i) ==
    /\ i \in watchers /\ stopping
    /\ watchers' = watchers \ {i}
    /\ UNCHANGED <<guest, stream, disk, op, state, log, evTask>>

-----------------------------------------------------------------------------
(* Outside the service.                                                    *)
NoteDeath ==
    mishaps' = IF pc \in {"attach", "spawn", "publish", "ready"}
                 THEN mishaps \cup {"beforeReady"} ELSE mishaps

MachineDies(i) ==
    /\ vm[i] = "on"
    /\ vm' = [vm EXCEPT ![i] = "killed"]
    /\ dockerUp' = FALSE
    /\ Send("eof")
    /\ NoteDeath
    /\ UNCHANGED <<boots, disk, op, state, recovered, tasks>>

DockerdStarts ==
    /\ On # {} /\ ~dockerUp /\ Len(stream) < MaxEvents
    /\ dockerUp' = TRUE
    /\ Send("ready")
    /\ UNCHANGED <<vm, boots, disk, op, state, log, tasks>>

DockerdDies ==
    /\ dockerUp /\ Len(stream) < MaxEvents
    /\ dockerUp' = FALSE
    /\ Send("down")
    /\ NoteDeath
    /\ UNCHANGED <<vm, boots, disk, op, state, recovered, tasks>>

(* The service's memory is lost.                                           *)
ServiceEnds ==
    /\ pc' = "idle" /\ cur' = 0 /\ running' = 0 /\ stopping' = FALSE
    /\ state' = "Stopped"
    /\ recovered' = FALSE
    /\ evTask' = FALSE /\ watchers' = {} /\ stream' = <<>>

ServiceKilled ==
    /\ pc # "idle" \/ running # 0
    /\ ServiceEnds
    /\ mishaps' = mishaps \cup {"killed"}
    /\ UNCHANGED <<guest, disk>>

PowerCut ==
    /\ pc # "idle" \/ On # {}
    /\ ServiceEnds
    /\ TerminateOrphans
    /\ UNCHANGED disk

-----------------------------------------------------------------------------
StartStep ==
    \/ ProvisionFails \/ Reattach \/ NoReattach \/ CleanOrphans \/ CreateMachine
    \/ SaveState \/ Boot \/ ReachAgent \/ AttachEvent \/ AttachTimeout
    \/ SpawnTasks \/ Publish \/ SetReady \/ StartFails
StopStep ==
    \/ StopIdle \/ StopMark \/ AskGuest \/ KillMachine \/ StopSave \/ StopEnd
TaskStep ==
    HandleEvent \/ \E i \in Vm : WatcherSeesExit(i) \/ WatcherGivesUp(i)
Outside ==
    \/ \E i \in Vm : MachineDies(i)
    \/ DockerdStarts \/ DockerdDies \/ ServiceKilled \/ PowerCut

EngineNext == StartBegin \/ StopBegin \/ StartStep \/ StopStep \/ TaskStep \/ Outside

EngineSpec == EngineInit /\ [][EngineNext]_engineVars

(* Every wait of start and stop has a deadline, and the runtime schedules  *)
(* every ready task.  Nothing is assumed of users, faults or dockerd.      *)
EngineFairness ==
    /\ WF_engineVars(StartStep) /\ WF_engineVars(StopStep)
    /\ WF_engineVars(HandleEvent)
    /\ \A i \in Vm : WF_engineVars(WatcherSeesExit(i) \/ WatcherGivesUp(i))

EngineFairSpec == EngineSpec /\ EngineFairness
-----------------------------------------------------------------------------
(* A start or a stop always returns: no wait for the agent, the machine or *)
(* a supervision task is without end.                                      *)
OperationsEnd == []<>(pc = "idle")

(* The engine implements the contract on the data disk (DataDisk): one     *)
(* writer at a time, and clean_shutdown false for as long as it writes,    *)
(* until a terminate fails.                                                *)
Writers == IF "terminate" \in mishaps THEN {} ELSE On
Data == INSTANCE DataDisk WITH Machine <- Vm, writers <- Writers, clean <- disk.clean
DataDiskContract == Data!Spec

(* At most one machine has the data disk open, whatever fails: an orphan   *)
(* is terminated, or reattached, before another machine is created.        *)
OneMachine == \A i, j \in Vm : Alive(i) /\ Alive(j) => i = j

(* While no operation is under way, a machine that is alive is the one in  *)
(* `running', unless the service was killed or a terminate failed: every   *)
(* error path of start and both paths of stop leave nothing behind.        *)
NothingLeftBehind ==
    pc = "idle" /\ mishaps \cap {"terminate", "killed"} = {} =>
        \A i \in Vm : Alive(i) => i = running

(* The machine in `running' is the one state.json names, the one a service *)
(* started afresh would find again.                                        *)
RunningIsRecorded == running # 0 => disk.vm = running

(* The announced state is not `Ready' on a dead machine, unless a task is  *)
(* about to correct it.                                                    *)
ReadyIsAlive ==
    pc = "idle" /\ state = "Ready" =>
        running \in On \/ running \in watchers \/ (evTask /\ stream # <<>>)

(* So it is when no machine dies while start is about to announce it.      *)
ReadyStaysAlive == "beforeReady" \notin mishaps => ReadyIsAlive

(* No operation runs, and no machine ever died before it was announced.    *)
Calm == pc = "idle" /\ "beforeReady" \notin mishaps

(* A machine that died once announced, and that nobody stops, ends up      *)
(* `Failed', whatever events were still on their way.                      *)
DeathAnnounced ==
    \A i \in Vm :
        <>[](Calm /\ running = i /\ vm[i] = "killed") => <>[](state = "Failed")

(* A dockerd that stays down in a running machine ends up announced as     *)
(* `Degraded', one that stays up as `Ready'.                               *)
DockerdAnnounced ==
    /\ <>[](Calm /\ running \in On /\ ~dockerUp) => <>[](state = "Degraded")
    /\ <>[](Calm /\ running \in On /\ dockerUp) => <>[](state = "Ready")

(* What is announced ends up true: the end of the machine and the moves of *)
(* dockerd (spawn_event_loop, spawn_exit_watcher).                         *)
Announcements == DeathAnnounced /\ DockerdAnnounced

-----------------------------------------------------------------------------
(* Why they hold: what the steps of start and stop know of the machines.   *)
NoneAlive == \A i \in Vm : ~Alive(i)
OnlyCur   == cur \in Vm /\ \A i \in Vm : Alive(i) => i = cur

HasMachine ==
    running # 0 \/ pc \in {"agent", "attach", "spawn", "publish", "ready",
                           "stopMark", "ask", "kill"}

(* Machines are numbered in order, and there is room for the next one.     *)
Numbered ==
    /\ \A i \in Vm : i > boots => vm[i] = "absent"
    /\ pc \in {"clean", "orphans", "create"} => boots < MaxBoots

(* A machine is created alone, and recorded before it boots.               *)
Creation ==
    /\ pc = "create" => NoneAlive
    /\ pc \in {"save", "boot"} => OnlyCur /\ vm[cur] = "created"
    /\ pc = "boot" => disk.vm = cur /\ ~disk.clean

(* The machine that is attached, running or being stopped is the only one, *)
(* and the one on record.                                                  *)
Ownership ==
    /\ HasMachine => OnlyCur /\ disk.vm = cur
    /\ running # 0 => running = cur /\ pc \in {"idle", "ready"}
    /\ pc = "ready" => running = cur

OwnerInv == EngineTypeOK /\ OneMachine /\ Numbered /\ Creation /\ Ownership

(* Until a terminate fails, the clean mark is only on disk while no        *)
(* machine is on.                                                          *)
CleanInv ==
    "terminate" \notin mishaps =>
        /\ On # {} => ~disk.clean
        /\ pc \in {"stopSave", "stopEnd"} => NoneAlive

(* Until a stop begins, `stopping' is not set; the event loop belongs to a *)
(* machine that is being published, running or being stopped; a service    *)
(* without a machine does not say `Ready'.                                 *)
Announcing ==
    /\ pc \in StartPcs \/ running # 0 => ~stopping
    /\ evTask => pc \in {"publish", "ready", "idle", "stopMark", "ask", "kill"}
    /\ pc = "idle" /\ running = 0 => state # "Ready" /\ ~evTask

(* When no machine died while start was about to announce it: the machine  *)
(* is on and its stream open, or the end of the stream is on its way to    *)
(* the event loop, or it has been announced.                               *)
EndIn(s) == \E k \in 1..Len(s) : s[k] = "eof"
Living ==
    "beforeReady" \notin mishaps =>
        /\ pc \in {"attach", "spawn", "publish", "ready"} => cur \in On /\ ~EndIn(stream)
        /\ pc \in {"publish", "ready"} => evTask
        /\ pc = "idle" /\ running # 0 =>
              \/ running \in On /\ evTask /\ ~EndIn(stream)
              \/ evTask /\ EndIn(stream)
              \/ ~evTask /\ state = "Failed"
=============================================================================
