-------------------------------- MODULE Pid1 --------------------------------
(***************************************************************************)
(* Process 1 of the machine (crates/solon-agent/src/system.rs, main.rs):   *)
(* the preparation of the data disk, the supervisor of containerd and      *)
(* dockerd, the commands the agent runs, the reaper of zombies, and the    *)
(* shutdown.  They are threads that share the table of processes and the   *)
(* set `tracked' of the children that somebody waits for.                  *)
(*                                                                         *)
(* A process is named after what it runs: there is one of each at a time,  *)
(* and a pid is not given again while the agent still remembers it.        *)
(***************************************************************************)
EXTENDS Naturals, Functions

CONSTANT MaxCommands  \* bound: commands run once the disk is prepared
ASSUME CommandsAssumption == MaxCommands \in Nat

VARIABLES
    boot,     \* prepare_data_disk: the step it is at
    proc,     \* the table of processes
    tracked,  \* State.tracked
    sup,      \* the supervisor: its step, `announced'
    up,       \* dockerd answers on its socket
    ready,    \* the last of EngineReady and EngineDown that was broadcast
    job,      \* a thread that runs commands: its step, the kind of command
    reaper,   \* the reaper: its step, its zombie, why it takes it, `stuck'
    down,     \* how far the shutdown is
    commands,
    stolen,   \* history: a status that the agent waits for was reaped
    hasty     \* history: the shutdown met a start, or its deadline passed

vars == <<boot, proc, tracked, sup, up, ready, job, reaper, down, commands,
          stolen, hasty>>

(* In the order in which waitid shows them: the agent's own come first.    *)
Process == <<"containerd", "dockerd", "command", "orphan">>
Pid == Range(Process)
None == "none"
NoZombie == [pc |-> "look", pid |-> None, why |-> "none", stuck |-> None]
(* A status that the agent waits for was reaped: never, because the pid was *)
(* not tracked or its thread was elsewhere, because its thread was late, or *)
(* for no such reason.  The worst is kept.                                  *)
Theft == <<"none", "excused", "stalled", "unexcused">>
Worse(t, u) == LET rank(x) == CHOOSE i \in DOMAIN Theft : Theft[i] = x
               IN IF rank(u) > rank(t) THEN u ELSE t

TypeOK ==
    /\ boot \in {"mkfs", "fsck", "over"}
    /\ proc \in [Pid -> {"free", "alive", "zombie"}]
    /\ tracked \subseteq Pid
    /\ sup \in [pc : {"top", "forkC", "insertC", "socket", "forkD", "dropC", "insertD", "watch",
                      "untrack", "killC", "waitC", "backoff", "ended"},
                announced : {"no", "yes", "gaveUp"}]
    /\ up \in BOOLEAN /\ ready \in BOOLEAN
    /\ job \in [pc : {"idle", "insert", "wait", "untrack"}, kind : {"plain", "tracked"}]
    /\ reaper \in [pc : {"look", "reap"}, pid : Pid \cup {None},
                   why : Range(Theft), stuck : Pid \cup {None}]
    /\ down \in {"no", "asked", "signalled", "waited", "off"}
    /\ commands \in 0..MaxCommands
    /\ stolen \in Range(Theft)
    /\ hasty \in BOOLEAN

(* A first start finds a blank disk, a later one a formatted disk.         *)
Init ==
    /\ boot \in {"mkfs", "fsck"}
    /\ proc = [p \in Pid |-> "free"] /\ tracked = {}
    /\ sup = [pc |-> "top", announced |-> "no"]
    /\ up = FALSE /\ ready = FALSE
    /\ job = [pc |-> "idle", kind |-> "plain"]
    /\ reaper = NoZombie
    /\ down = "no" /\ commands = 0 /\ stolen = "none" /\ hasty = FALSE

Powered == down # "off"
Booted == boot = "over"

(* waitid shows the reaper one zombie and leaves it where it is.           *)
Zombies == {i \in DOMAIN Process : proc[Process[i]] = "zombie"}
Shown == Process[CHOOSE i \in Zombies : \A j \in Zombies : i <= j]

(* The agent waited for the processes in ps: a reaper that is after one    *)
(* of them finds nothing.                                                  *)
Free(ps) ==
    /\ proc' = [p \in Pid |-> IF p \in ps THEN "free" ELSE proc[p]]
    /\ reaper' = IF {reaper.pid, reaper.stuck} \cap ps # {} THEN NoZombie ELSE reaper
Fork(p) ==
    /\ proc[p] = "free" /\ proc' = [proc EXCEPT ![p] = "alive"]

-----------------------------------------------------------------------------
(* The kernel and the programs.                                            *)
Exit(p) ==
    /\ Powered /\ proc[p] = "alive"
    /\ proc' = [proc EXCEPT ![p] = "zombie"]
    /\ up' = (up /\ p # "dockerd")
    /\ UNCHANGED <<commands, boot, tracked, sup, ready, job, reaper, down, stolen, hasty>>

(* A process whose parent died is process 1's, and already a zombie.       *)
Orphan ==
    /\ Powered /\ proc["orphan"] = "free"
    /\ proc' = [proc EXCEPT !["orphan"] = "zombie"]
    /\ UNCHANGED <<commands, boot, tracked, sup, up, ready, job, reaper, down, stolen, hasty>>

DockerAnswers ==
    /\ Powered /\ proc["dockerd"] = "alive" /\ ~up
    /\ up' = TRUE
    /\ UNCHANGED <<commands, boot, proc, tracked, sup, ready, job, reaper, down, stolen, hasty>>

-----------------------------------------------------------------------------
(* supervise.  Every step is one critical section or one system call.      *)
SupStep(from, to) ==
    /\ Powered /\ Booted /\ sup.pc = from
    /\ sup' = [pc |-> to, announced |-> "no"]
    /\ UNCHANGED <<commands, boot, job, down, stolen>>

(* Mutant: the next round starts without a look at shutting_down.          *)
CheckShutdownNever ==
    /\ SupStep("top", "forkC")
    /\ UNCHANGED <<proc, tracked, up, ready, reaper, hasty>>
(* The lock of shutting_down is released before anything is started.       *)
CheckShutdown ==
    /\ SupStep("top", IF down = "no" THEN "forkC" ELSE "ended")
    /\ UNCHANGED <<proc, tracked, up, ready, reaper, hasty>>

(* A fork that fails is tried again, two seconds later.                    *)
SpawnContainerd ==
    /\ \/ SupStep("forkC", "backoff") /\ UNCHANGED proc
       \/ SupStep("forkC", "insertC") /\ Fork("containerd")
    /\ UNCHANGED <<tracked, up, ready, reaper, hasty>>

(* spawn_tracked inserts the pid once the child runs.                      *)
TrackContainerd ==
    /\ SupStep("insertC", "socket")
    /\ tracked' = tracked \cup {"containerd"}
    /\ UNCHANGED <<proc, up, ready, reaper, hasty>>

(* wait_for_socket: containerd answers, or twenty seconds pass.            *)
WaitForSocket ==
    /\ SupStep("socket", "forkD")
    /\ UNCHANGED <<proc, tracked, up, ready, reaper, hasty>>

SpawnDockerd ==
    /\ \/ SupStep("forkD", "dropC") /\ UNCHANGED proc
       \/ SupStep("forkD", "insertD") /\ Fork("dockerd")
    /\ UNCHANGED <<tracked, up, ready, reaper, hasty>>

DropContainerd ==
    /\ SupStep("dropC", "backoff")
    /\ Free({"containerd"})
    /\ tracked' = tracked \ {"containerd"}
    /\ UNCHANGED <<up, ready, hasty>>

TrackDockerd ==
    /\ Powered /\ sup.pc = "insertD"
    /\ tracked' = tracked \cup {"dockerd"}
    /\ sup' = [pc |-> "watch", announced |-> "no"]
    /\ UNCHANGED <<commands, boot, proc, up, ready, job, reaper, down, stolen, hasty>>

(* The watch, one round every 200 ms.                                      *)
Announce ==
    /\ Powered /\ sup.pc = "watch" /\ sup.announced = "no" /\ up
    /\ sup' = [sup EXCEPT !.announced = "yes"]
    /\ ready' = TRUE
    /\ UNCHANGED <<commands, boot, proc, tracked, up, job, reaper, down, stolen, hasty>>

(* After sixty seconds a dockerd that answers is not announced any more.   *)
GiveUpAnnouncing ==
    /\ Powered /\ sup.pc = "watch" /\ sup.announced = "no"
    /\ sup' = [sup EXCEPT !.announced = "gaveUp"]
    /\ UNCHANGED <<commands, boot, proc, tracked, up, ready, job, reaper, down, stolen, hasty>>

(* try_wait on dockerd: its status, or the error of one reaped already,    *)
(* for which no event is sent.                                             *)
DockerdEnded ==
    /\ proc["dockerd"] # "alive"
    /\ SupStep("watch", "untrack")
    /\ ready' = (ready /\ proc["dockerd"] = "free")
    /\ Free({"dockerd"})
    /\ UNCHANGED <<tracked, up, hasty>>

(* Mutant: EngineDown is only sent for dockerd.                            *)
ContainerdEndedSilently ==
    /\ proc["dockerd"] = "alive" /\ proc["containerd"] = "zombie"
    /\ SupStep("watch", "untrack")
    /\ Free({"containerd", "dockerd"})
    /\ up' = FALSE
    /\ UNCHANGED <<tracked, ready, hasty>>
ContainerdEnded ==
    /\ proc["dockerd"] = "alive" /\ proc["containerd"] = "zombie"
    /\ SupStep("watch", "untrack")
    /\ Free({"containerd", "dockerd"})
    /\ up' = FALSE /\ ready' = FALSE
    /\ UNCHANGED <<tracked, hasty>>

(* The supervisor leaves its children to themselves.                       *)
LeaveOnShutdown ==
    /\ down # "no"
    /\ proc["dockerd"] = "alive" /\ proc["containerd"] # "zombie"
    /\ SupStep("watch", "ended")
    /\ UNCHANGED <<proc, tracked, up, ready, reaper, hasty>>

Untrack ==
    /\ SupStep("untrack", "killC")
    /\ tracked' = tracked \ {"containerd", "dockerd"}
    /\ UNCHANGED <<proc, up, ready, reaper, hasty>>

KillContainerd ==
    /\ SupStep("killC", "waitC")
    /\ proc' = [proc EXCEPT !["containerd"] = IF @ = "alive" THEN "zombie" ELSE @]
    /\ UNCHANGED <<tracked, up, ready, reaper, hasty>>

WaitContainerd ==
    /\ SupStep("waitC", "backoff")
    /\ Free({"containerd"})
    /\ UNCHANGED <<tracked, up, ready, hasty>>

(* Two seconds or more, twenty looks of the reaper.                        *)
Backoff ==
    /\ reaper.pc = "look" /\ (Zombies # {} => Shown \in tracked)
    /\ SupStep("backoff", "top")
    /\ UNCHANGED <<proc, tracked, up, ready, reaper, hasty>>

Supervise ==
    \/ CheckShutdown \/ SpawnContainerd \/ TrackContainerd \/ WaitForSocket \/ SpawnDockerd
    \/ DropContainerd \/ TrackDockerd \/ DockerdEnded \/ ContainerdEnded
    \/ LeaveOnShutdown \/ Untrack \/ KillContainerd \/ WaitContainerd \/ Backoff

-----------------------------------------------------------------------------
(* Commands: with run_tracked or exec ("tracked"), or with output() as     *)
(* they come ("plain": mkfs.ext4, e2fsck, ip, iptables).                   *)
JobFork(kind) ==
    /\ Powered /\ job.pc = "idle"
    /\ IF Booted THEN commands < MaxCommands /\ commands' = commands + 1
                 ELSE kind = "plain" /\ UNCHANGED commands
    /\ Fork("command")
    /\ job' = [pc |-> IF kind = "plain" THEN "wait" ELSE "insert", kind |-> kind]
    /\ UNCHANGED <<boot, tracked, sup, up, ready, reaper, down, stolen, hasty>>

JobInsert ==
    /\ Powered /\ job.pc = "insert"
    /\ tracked' = tracked \cup {"command"}
    /\ job' = [job EXCEPT !.pc = "wait"]
    /\ UNCHANGED <<commands, boot, proc, sup, up, ready, reaper, down, stolen, hasty>>

(* prepare_data_disk: after the format the check, after the check the      *)
(* mounts; an exit status that is bad, or lost, is the end of it.  The     *)
(* engine is started in any case.                                          *)
BootAfter(good) == IF boot = "mkfs" /\ good THEN "fsck" ELSE "over"

JobDone(good) ==
    /\ boot' = BootAfter(good)
    /\ Free({"command"})
    /\ job' = [job EXCEPT !.pc = IF job.kind = "plain" THEN "idle" ELSE "untrack"]
    /\ UNCHANGED <<commands, tracked, sup, up, ready, down, stolen, hasty>>

JobWait ==
    /\ Powered /\ job.pc = "wait"
    /\ \/ proc["command"] = "zombie" /\ \E good \in BOOLEAN : JobDone(good)
       \/ proc["command"] = "free" /\ JobDone(FALSE)

(* exec kills a command that is over its time.                             *)
JobTimeout ==
    /\ Powered /\ job.pc = "wait" /\ job.kind = "tracked" /\ proc["command"] = "alive"
    /\ JobDone(FALSE)

JobUntrack ==
    /\ Powered /\ job.pc = "untrack"
    /\ tracked' = tracked \ {"command"}
    /\ job' = [pc |-> "idle", kind |-> "plain"]
    /\ UNCHANGED <<commands, boot, proc, sup, up, ready, reaper, down, stolen, hasty>>

-----------------------------------------------------------------------------
(* start_reaper.                                                           *)

(* Somebody waits for p, now or when they get to it.  The supervisor has   *)
(* no use for the status of a containerd that it kills.                    *)
Waited(p) ==
    \/ p = "command" /\ job.pc \in {"insert", "wait"}
    \/ p = "containerd" /\ sup.pc \in {"insertC", "socket", "forkD", "insertD", "watch"}
    \/ p = "dockerd" /\ sup.pc \in {"insertD", "watch"}
Attended(p) ==
    \/ p = "command" /\ job.pc = "wait"
    \/ p \in {"containerd", "dockerd"} /\ sup.pc = "watch"
NotTracked(p) ==
    \/ p = "command" /\ (job.pc = "insert" \/ job.kind = "plain")
    \/ p = "containerd" /\ sup.pc = "insertC"
    \/ p = "dockerd" /\ sup.pc = "insertD"

Take(p, why) == reaper' = [pc |-> "reap", pid |-> p, why |-> why, stuck |-> None]

(* Mutant: a zombie is taken whoever waits for it.                         *)
LookTakesAll ==
    /\ Powered /\ reaper.pc = "look"
    /\ IF Zombies = {} THEN reaper.stuck # None /\ reaper' = NoZombie
                         ELSE Take(Shown, "unexcused")
    /\ UNCHANGED <<commands, boot, proc, tracked, sup, up, ready, job, down, stolen, hasty>>
Look ==
    /\ Powered /\ reaper.pc = "look"
    /\ IF Zombies = {} THEN reaper.stuck # None /\ reaper' = NoZombie
       ELSE IF Shown \in tracked
         THEN reaper.stuck # Shown /\ reaper' = [reaper EXCEPT !.stuck = Shown]
         ELSE Take(Shown, IF NotTracked(Shown) THEN "excused" ELSE "unexcused")
    /\ UNCHANGED <<commands, boot, proc, tracked, sup, up, ready, job, down, stolen, hasty>>

(* Mutant: patience without end.                                           *)
LookAbandonedNever == FALSE /\ UNCHANGED vars
(* The same zombie for five seconds: nobody will wait for it, or the       *)
(* thread that should is late.                                             *)
LookAbandoned ==
    /\ Powered /\ reaper.pc = "look" /\ Zombies # {}
    /\ Shown \in tracked /\ reaper.stuck = Shown
    /\ tracked' = tracked \ {Shown}
    /\ Take(Shown, IF Attended(Shown) THEN "stalled" ELSE "excused")
    /\ UNCHANGED <<commands, boot, proc, sup, up, ready, job, down, stolen, hasty>>

Reap ==
    /\ Powered /\ reaper.pc = "reap"
    /\ proc' = [proc EXCEPT ![reaper.pid] = IF @ = "zombie" THEN "free" ELSE @]
    /\ stolen' = IF proc[reaper.pid] = "zombie" /\ Waited(reaper.pid)
                   THEN Worse(stolen, reaper.why) ELSE stolen
    /\ reaper' = NoZombie
    /\ UNCHANGED <<commands, boot, tracked, sup, up, ready, job, down, hasty>>

-----------------------------------------------------------------------------
(* shutdown: the flag, `docker ps' and `docker stop', SIGTERM to the pids  *)
(* of State.engine, ten seconds for the socket to close, the unmounts and  *)
(* the power.                                                              *)
DownStep(from, to) ==
    /\ down = from /\ down' = to
    /\ UNCHANGED <<commands, boot, proc, tracked, sup, up, ready, job, reaper, stolen>>

(* The supervisor has passed its check of shutting_down, and dockerd does  *)
(* not serve yet.                                                          *)
Starting == \/ sup.pc \in {"forkC", "insertC", "socket", "forkD", "insertD"}
            \/ sup.pc = "watch" /\ ~up

Shutdown ==
    /\ Booted /\ job.pc = "idle"
    /\ DownStep("no", "asked")
    /\ hasty' = Starting

Terminate ==
    /\ job.pc = "idle"
    /\ DownStep("asked", "signalled")
    /\ UNCHANGED hasty

SocketClosed ==
    /\ DownStep("signalled", "waited")
    /\ hasty' = (hasty \/ up)

PowerOff ==
    /\ DownStep("waited", "off")
    /\ UNCHANGED hasty

-----------------------------------------------------------------------------
Next ==
    \/ Supervise \/ Announce \/ GiveUpAnnouncing \/ DockerAnswers
    \/ JobInsert \/ JobWait \/ JobTimeout \/ JobUntrack
    \/ \E kind \in {"plain", "tracked"} : JobFork(kind)
    \/ Look \/ LookAbandoned \/ Reap
    \/ Shutdown \/ Terminate \/ SocketClosed \/ PowerOff
    \/ Orphan \/ \E p \in Pid : Exit(p)

(* The reaper looks again and again, the watch of the supervisor goes on,  *)
(* and so does the wait for a command; the threads may be stuck elsewhere. *)
Fairness ==
    /\ WF_vars(Announce) /\ WF_vars(JobWait)
    /\ WF_vars(Look) /\ WF_vars(LookAbandoned) /\ WF_vars(Reap)

Spec == Init /\ [][Next]_vars /\ Fairness

-----------------------------------------------------------------------------

(* It keeps the promise to every child in `tracked' whose thread gets to   *)
(* its wait within five seconds: a status is only lost by a command run    *)
(* with output(), between a fork and the insertion of its pid, or when the *)
(* thread is elsewhere (wait_for_socket) for longer.                       *)
TrackedNotStolen == stolen # "unexcused"

(* Outside its watch the supervisor has told everyone that dockerd is      *)
(* down, unless the status of dockerd was taken from a thread that was     *)
(* late: the engine_ready of the hub is never left over from a dockerd     *)
(* that has ended.                                                         *)
ReadyIsWatched ==
    ready /\ stolen \notin {"stalled", "unexcused"} => sup.pc \in {"watch", "ended"}

(* The machine is powered off once dockerd no longer serves, and no other  *)
(* one is started meanwhile (shutdown, supervise), with two exceptions:    *)
(* dockerd took longer to end than the deadline of ten seconds, or the     *)
(* supervisor had passed its look at shutting_down when the flag was set   *)
(* and dockerd did not serve yet.  A supervisor in that window goes on to  *)
(* start both programs, whose pids the shutdown does not know.             *)
QuietPowerOff == down = "off" /\ ~hasty => ~up

(* A zombie never stays, be it tracked by a thread that has left.          *)
ZombiesReaped ==
    \A p \in Pid : []<>(proc[p] # "zombie" \/ down = "off")

(* A dockerd that answers in time is announced, and again after every      *)
(* restart.                                                                *)
AnswersAnnounced ==
    []<>(ready \/ ~up \/ sup.pc # "watch" \/ sup.announced = "gaveUp" \/ down # "no")

(* The agent goes on: the ended processes are reaped (reap_zombies) and a  *)
(* dockerd that answers is announced (supervise).                          *)
Pid1Progress == ZombiesReaped /\ AnswersAnnounced
=============================================================================
