---------------------------- MODULE Pid1Proofs ----------------------------
(***************************************************************************)
(* What process 1 keeps, for any number of commands.                       *)
(***************************************************************************)
EXTENDS Pid1, TLAPS

-----------------------------------------------------------------------------
(* The processes and the thefts, one by one.                               *)
LEMMA Pids == Pid = {"containerd", "dockerd", "command", "orphan"}
BY DEF Pid, Process, Range

(* The grades of a theft, one by one.                                      *)
LEMMA Thefts == Range(Theft) = {"none", "excused", "stalled", "unexcused"}
BY DEF Theft, Range

(* The zombie that waitid shows is one.                                    *)
LEMMA ShownIsZombie ==
    ASSUME Zombies # {} PROVE Shown \in Pid /\ proc[Shown] = "zombie"
<1>1. Zombies \subseteq 1..4
  BY DEF Zombies, Process
<1>2. \E i \in Zombies : \A j \in Zombies : i <= j
  <2>1. \A j \in Zombies : j = 1 \/ j = 2 \/ j = 3 \/ j = 4
    BY <1>1
  <2>2. CASE 1 \in Zombies
    BY <2>1, <2>2
  <2>3. CASE 1 \notin Zombies /\ 2 \in Zombies
    BY <2>1, <2>3
  <2>4. CASE 1 \notin Zombies /\ 2 \notin Zombies /\ 3 \in Zombies
    BY <2>1, <2>4
  <2>5. CASE 1 \notin Zombies /\ 2 \notin Zombies /\ 3 \notin Zombies
    BY <2>1, <2>5
  <2> QED BY <2>2, <2>3, <2>4, <2>5
<1> DEFINE i == CHOOSE i \in Zombies : \A j \in Zombies : i <= j
<1>3. i \in Zombies
  BY <1>2
<1>4. i \in DOMAIN Process /\ proc[Process[i]] = "zombie"
  BY <1>3 DEF Zombies
<1>5. Shown = Process[i]
  BY DEF Shown
<1> QED BY <1>4, <1>5, Zenon DEF Pid, Range

(* Worse is one of its two arguments, and never milder than a theft from a *)
(* late thread.                                                            *)
LEMMA WorseOf ==
    ASSUME NEW t \in Range(Theft), NEW u \in Range(Theft)
    PROVE  /\ Worse(t, u) \in {t, u}
           /\ "stalled" \in {t, u} \/ "unexcused" \in {t, u}
                => Worse(t, u) \in {"stalled", "unexcused"}
<1> DEFINE rank(x) == CHOOSE i \in DOMAIN Theft : Theft[i] = x
<1>1. DOMAIN Theft = 1..4
  BY DEF Theft
<1>2. /\ Theft[1] = "none" /\ Theft[2] = "excused"
      /\ Theft[3] = "stalled" /\ Theft[4] = "unexcused"
  BY DEF Theft
<1>3. \A i \in DOMAIN Theft : i = 1 \/ i = 2 \/ i = 3 \/ i = 4
  BY <1>1
<1>4. rank("none") = 1
  BY <1>1, <1>2, <1>3
<1>5. rank("excused") = 2
  BY <1>1, <1>2, <1>3
<1>6. rank("stalled") = 3
  BY <1>1, <1>2, <1>3
<1>7. rank("unexcused") = 4
  BY <1>1, <1>2, <1>3
<1>8. Worse(t, u) = IF rank(u) > rank(t) THEN u ELSE t
  BY DEF Worse
<1> HIDE DEF rank
<1> QED BY <1>4, <1>5, <1>6, <1>7, <1>8, Thefts

-----------------------------------------------------------------------------
Types == TypeOK

(* What the reaper is after is a zombie, and one that nobody waits for     *)
(* when it has no reason.                                                  *)
ReaperHolds ==
    reaper.pc = "reap" =>
        /\ reaper.pid \in Pid
        /\ proc[reaper.pid] = "zombie"
        /\ reaper.why = "unexcused" => ~Waited(reaper.pid)

(* A child that a thread waits for is tracked from the insertion of its    *)
(* pid until its status is read or reaped.                                 *)
WaitedIsTracked ==
    \A p \in Pid :
        Waited(p) /\ ~NotTracked(p) =>
            p \in tracked \/ proc[p] = "free" \/ (reaper.pc = "reap" /\ reaper.pid = p)

(* While it is announced and watched, the status of dockerd is there to be *)
(* read, or taken from a thread that is late.                              *)
Mild == stolen \notin {"stalled", "unexcused"}
WatchedIsThere ==
    ready /\ Mild /\ sup.pc = "watch" =>
        /\ proc["dockerd"] # "free"
        /\ reaper.pc = "reap" /\ reaper.pid = "dockerd" => reaper.why \in {"stalled", "unexcused"}

(* dockerd runs under the supervisor; once the shutdown has begun while no *)
(* start was past its look at shutting_down, none is started, and the one  *)
(* that runs is heard.                                                     *)
Served ==
    /\ up => proc["dockerd"] = "alive"
    /\ proc["dockerd"] = "alive" => sup.pc \in {"insertD", "watch", "ended"}
    /\ down = "no" => sup.pc # "ended"
    /\ down # "no" /\ ~hasty =>
          /\ proc["dockerd"] = "alive" => up
          /\ sup.pc \notin {"forkC", "insertC", "socket", "forkD", "insertD"}
    /\ down \in {"waited", "off"} /\ ~hasty => ~up

IInv ==
    /\ Types /\ ReaperHolds /\ WaitedIsTracked /\ TrackedNotStolen
    /\ WatchedIsThere /\ ReadyIsWatched /\ Served
-----------------------------------------------------------------------------
(* Every step of process 1 keeps the types.                                *)
LEMMA TypesStep == TypeOK /\ [Next]_vars => TypeOK'
<1> SUFFICES ASSUME TypeOK, [Next]_vars PROVE TypeOK'
  OBVIOUS
<1> USE Pids, Thefts
<1>0. CASE CheckShutdown
  BY <1>0 DEF TypeOK, CheckShutdown, SupStep
<1>1. CASE SpawnContainerd
  BY <1>1 DEF TypeOK, SpawnContainerd, SupStep, Fork
<1>2. CASE TrackContainerd
  BY <1>2 DEF TypeOK, TrackContainerd, SupStep
<1>3. CASE WaitForSocket
  BY <1>3 DEF TypeOK, WaitForSocket, SupStep
<1>4. CASE SpawnDockerd
  BY <1>4 DEF TypeOK, SpawnDockerd, SupStep, Fork
<1>5. CASE DropContainerd
  BY <1>5 DEF TypeOK, DropContainerd, SupStep, Free
<1>6. CASE TrackDockerd
  BY <1>6 DEF TypeOK, TrackDockerd
<1>7. CASE DockerdEnded
  BY <1>7 DEF TypeOK, DockerdEnded, SupStep, Free
<1>8. CASE ContainerdEnded
  BY <1>8, Zenon DEF TypeOK, None, NoZombie, ContainerdEnded, SupStep, Free
<1>9. CASE LeaveOnShutdown
  BY <1>9 DEF TypeOK, LeaveOnShutdown, SupStep
<1>10. CASE Untrack
  BY <1>10 DEF TypeOK, Untrack, SupStep
<1>11. CASE KillContainerd
  BY <1>11 DEF TypeOK, KillContainerd, SupStep
<1>12. CASE WaitContainerd
  BY <1>12 DEF TypeOK, WaitContainerd, SupStep, Free
<1>13. CASE Backoff
  BY <1>13 DEF TypeOK, Backoff, SupStep
<1>14. ASSUME NEW kind \in {"plain", "tracked"}, JobFork(kind) PROVE TypeOK'
  BY <1>14, CommandsAssumption DEF TypeOK, JobFork, Fork
<1>15. CASE Look
  BY <1>15, ShownIsZombie DEF TypeOK, NoZombie, Look, Take
<1>16. CASE LookAbandoned
  BY <1>16, ShownIsZombie DEF TypeOK, LookAbandoned, Take
<1>17. CASE Reap
  <2>1. reaper.why \in Range(Theft) /\ stolen \in Range(Theft)
    BY DEF TypeOK
  <2>2. Worse(stolen, reaper.why) \in {stolen, reaper.why}
    BY <2>1, WorseOf
  <2>3. stolen' \in Range(Theft)
    BY <1>17, <2>1, <2>2 DEF Reap
  <2>4. proc' \in [Pid -> {"free", "alive", "zombie"}]
    BY <1>17, Zenon DEF TypeOK, Reap
  <2>5. reaper' \in [pc : {"look", "reap"}, pid : Pid \cup {None},
                    why : Range(Theft), stuck : Pid \cup {None}]
    BY <1>17 DEF NoZombie, Reap
  <2> QED BY <1>17, <2>3, <2>4, <2>5 DEF TypeOK, Reap
<1>18. CASE Orphan
  BY <1>18 DEF TypeOK, Orphan
<1>19. ASSUME NEW p \in Pid, Exit(p) PROVE TypeOK'
  BY <1>19 DEF TypeOK, Exit
<1>20. CASE Announce \/ GiveUpAnnouncing \/ DockerAnswers
  <2>1. CASE Announce
    BY <2>1 DEF TypeOK, Announce
  <2>2. CASE GiveUpAnnouncing
    BY <2>2 DEF TypeOK, GiveUpAnnouncing
  <2>3. CASE DockerAnswers
    BY <2>3 DEF TypeOK, DockerAnswers
  <2> QED BY <1>20, <2>1, <2>2, <2>3
<1>21. CASE JobInsert \/ JobUntrack
  BY <1>21 DEF TypeOK, JobInsert, JobUntrack
<1>22. CASE JobWait \/ JobTimeout
  BY <1>22 DEF TypeOK, JobWait, JobDone, Free, BootAfter, JobTimeout
<1>23. CASE Shutdown \/ Terminate \/ SocketClosed \/ PowerOff
  BY <1>23, ZenonT(30) DEF TypeOK, None, NoZombie, Shutdown, DownStep, Starting, Terminate,
     SocketClosed, PowerOff
<1>24. CASE UNCHANGED <<boot, commands, down, hasty, job, proc, ready, reaper, stolen, sup,
                         tracked, up>>
  BY <1>24 DEF TypeOK
<1>25. CASE UNCHANGED vars
  BY <1>25, <1>24 DEF vars
<1> QED BY <1>0, <1>1, <1>2, <1>3, <1>4, <1>5, <1>6, <1>7, <1>8, <1>9, <1>10, <1>11, <1>12,
       <1>13, <1>14, <1>15, <1>16, <1>17, <1>18, <1>19, <1>20, <1>21, <1>22, <1>23,
       <1>24, <1>25 DEF Next, Supervise

(* What waitid showed stays there until waitpid takes it: the others only  *)
(* read the status of a child of theirs.                                   *)
LEMMA HoldsStep == IInv /\ [Next]_vars => ReaperHolds'
<1> SUFFICES ASSUME TypeOK, ReaperHolds, WaitedIsTracked, TrackedNotStolen, WatchedIsThere,
                    ReadyIsWatched, Served, [Next]_vars PROVE ReaperHolds'
  BY DEF IInv, Types
<1> USE Pids
<1>0. CASE CheckShutdown
  BY <1>0 DEF ReaperHolds, Waited, CheckShutdown, SupStep
<1>1. CASE SpawnContainerd
  BY <1>1 DEF TypeOK, ReaperHolds, Waited, SpawnContainerd, SupStep, Fork
<1>2. CASE TrackContainerd
  BY <1>2 DEF ReaperHolds, Waited, TrackContainerd, SupStep
<1>3. CASE WaitForSocket
  BY <1>3 DEF ReaperHolds, Waited, WaitForSocket, SupStep
<1>4. CASE SpawnDockerd
  BY <1>4 DEF TypeOK, ReaperHolds, Waited, SpawnDockerd, SupStep, Fork
<1>5. CASE DropContainerd
  BY <1>5, Zenon DEF TypeOK, None, NoZombie, ReaperHolds, Waited, NotTracked, WaitedIsTracked,
     DropContainerd, SupStep, Free
<1>6. CASE TrackDockerd
  BY <1>6 DEF ReaperHolds, Waited, TrackDockerd
<1>7. CASE DockerdEnded
  BY <1>7, Zenon DEF TypeOK, None, NoZombie, ReaperHolds, Waited, NotTracked, WaitedIsTracked,
     DockerdEnded, SupStep, Free
<1>8. CASE ContainerdEnded
  BY <1>8, Zenon DEF TypeOK, None, NoZombie, ReaperHolds, Waited, NotTracked, WaitedIsTracked,
     ContainerdEnded, SupStep, Free
<1>9. CASE LeaveOnShutdown
  BY <1>9 DEF ReaperHolds, Waited, LeaveOnShutdown, SupStep
<1>10. CASE Untrack
  BY <1>10 DEF ReaperHolds, Waited, Untrack, SupStep
<1>11. CASE KillContainerd
  BY <1>11 DEF ReaperHolds, Waited, KillContainerd, SupStep
<1>12. CASE WaitContainerd
  BY <1>12, Zenon DEF TypeOK, None, NoZombie, ReaperHolds, Waited, NotTracked, WaitedIsTracked,
     WaitContainerd, SupStep, Free
<1>13. CASE Backoff
  BY <1>13 DEF ReaperHolds, Backoff
<1>14. CASE Announce
  BY <1>14 DEF ReaperHolds, Waited, Announce
<1>15. CASE GiveUpAnnouncing
  BY <1>15 DEF ReaperHolds, Waited, GiveUpAnnouncing
<1>16. CASE JobInsert
  BY <1>16 DEF ReaperHolds, Waited, JobInsert
<1>17. CASE JobWait
  <2>1. PICK good \in BOOLEAN : JobDone(good)
    BY <1>17, Zenon DEF JobWait
  <2> QED BY <1>17, <2>1, Zenon DEF TypeOK, NoZombie, ReaperHolds, Waited, JobWait, JobDone, Free
<1>18. CASE JobTimeout
  BY <1>18 DEF ReaperHolds, Waited, JobTimeout, JobDone, Free
<1>19. CASE JobUntrack
  BY <1>19 DEF ReaperHolds, Waited, JobUntrack
<1>20. ASSUME NEW kind \in {"plain", "tracked"}, JobFork(kind) PROVE ReaperHolds'
  BY <1>20 DEF ReaperHolds, Waited, JobFork, Fork
<1>21. CASE Look
  BY <1>21, ShownIsZombie DEF TypeOK, NoZombie, ReaperHolds, Waited, WaitedIsTracked,
     Look, Take
<1>22. CASE LookAbandoned
  BY <1>22, ShownIsZombie DEF ReaperHolds, LookAbandoned, Take
<1>23. CASE Reap
  BY <1>23 DEF NoZombie, ReaperHolds, Reap
<1>24. CASE Orphan
  BY <1>24 DEF ReaperHolds, Waited, Orphan
<1>25. ASSUME NEW p \in Pid, Exit(p) PROVE ReaperHolds'
  BY <1>25 DEF ReaperHolds, Waited, Exit
<1>26. CASE UNCHANGED <<job, proc, reaper, sup>>
  BY <1>26 DEF ReaperHolds, Waited
<1>27. ASSUME DockerAnswers \/ Shutdown \/ Terminate \/ SocketClosed \/ PowerOff
       PROVE  UNCHANGED <<job, proc, reaper, sup>>
  BY <1>27 DEF DockerAnswers, Shutdown, DownStep, Terminate, SocketClosed, PowerOff
<1>28. CASE UNCHANGED vars
  BY <1>28, <1>26 DEF vars
<1> QED BY <1>0, <1>1, <1>2, <1>3, <1>4, <1>5, <1>6, <1>7, <1>8, <1>9, <1>10, <1>11, <1>12,
       <1>13, <1>14, <1>15, <1>16, <1>17, <1>18, <1>19, <1>20, <1>21, <1>22, <1>23,
       <1>24, <1>25, <1>26, <1>27, <1>28 DEF Next, Supervise

(* A waited child stays tracked: only its own thread removes it, after the *)
(* status is read.                                                         *)
LEMMA TrackedStep == IInv /\ [Next]_vars => WaitedIsTracked'
<1> SUFFICES ASSUME TypeOK, ReaperHolds, WaitedIsTracked, TrackedNotStolen, WatchedIsThere,
                    ReadyIsWatched, Served, [Next]_vars PROVE WaitedIsTracked'
  BY DEF IInv, Types
<1> USE Pids
<1>0. CASE CheckShutdown
  BY <1>0 DEF Waited, NotTracked, WaitedIsTracked, CheckShutdown, SupStep
<1>1. CASE SpawnContainerd
  BY <1>1 DEF TypeOK, Waited, NotTracked, WaitedIsTracked, SpawnContainerd, SupStep, Fork
<1>2. CASE TrackContainerd
  BY <1>2 DEF Waited, NotTracked, WaitedIsTracked, TrackContainerd, SupStep
<1>3. CASE WaitForSocket
  BY <1>3 DEF Waited, NotTracked, WaitedIsTracked, WaitForSocket, SupStep
<1>4. CASE SpawnDockerd
  BY <1>4 DEF TypeOK, Waited, NotTracked, WaitedIsTracked, SpawnDockerd, SupStep, Fork
<1>5. CASE DropContainerd
  BY <1>5 DEF Waited, NotTracked, WaitedIsTracked, DropContainerd, SupStep, Free
<1>6. CASE TrackDockerd
  BY <1>6 DEF Waited, NotTracked, WaitedIsTracked, TrackDockerd
<1>7. CASE DockerdEnded
  BY <1>7 DEF Waited, NotTracked, WaitedIsTracked, DockerdEnded, SupStep, Free
<1>8. CASE ContainerdEnded
  BY <1>8 DEF Waited, NotTracked, WaitedIsTracked, ContainerdEnded, SupStep, Free
<1>9. CASE LeaveOnShutdown
  BY <1>9 DEF Waited, NotTracked, WaitedIsTracked, LeaveOnShutdown, SupStep
<1>10. CASE Untrack
  BY <1>10 DEF Waited, NotTracked, WaitedIsTracked, Untrack, SupStep
<1>11. CASE KillContainerd
  BY <1>11 DEF Waited, NotTracked, WaitedIsTracked, KillContainerd, SupStep
<1>12. CASE WaitContainerd
  BY <1>12 DEF Waited, NotTracked, WaitedIsTracked, WaitContainerd, SupStep, Free
<1>13. CASE Backoff
  BY <1>13 DEF Waited, NotTracked, WaitedIsTracked, Backoff, SupStep
<1>14. CASE Announce
  BY <1>14 DEF Waited, NotTracked, WaitedIsTracked, Announce
<1>15. CASE GiveUpAnnouncing
  BY <1>15 DEF Waited, NotTracked, WaitedIsTracked, GiveUpAnnouncing
<1>16. CASE JobInsert
  BY <1>16 DEF Waited, NotTracked, WaitedIsTracked, JobInsert
<1>17. CASE JobWait
  <2>1. PICK good \in BOOLEAN : JobDone(good)
    BY <1>17, Zenon DEF JobWait
  <2> QED BY <1>17, <2>1 DEF WaitedIsTracked, Waited, NotTracked, JobDone, Free
<1>18. CASE JobTimeout
  BY <1>18 DEF Waited, NotTracked, WaitedIsTracked, JobTimeout, JobDone, Free
<1>19. CASE JobUntrack
  BY <1>19 DEF Waited, NotTracked, WaitedIsTracked, JobUntrack
<1>20. ASSUME NEW kind \in {"plain", "tracked"}, JobFork(kind) PROVE WaitedIsTracked'
  BY <1>20 DEF Waited, NotTracked, WaitedIsTracked, JobFork, Fork
<1>21. CASE Look
  BY <1>21, ShownIsZombie DEF Waited, NotTracked, WaitedIsTracked, Look
<1>22. CASE LookAbandoned
  BY <1>22, ShownIsZombie DEF Waited, NotTracked, WaitedIsTracked, LookAbandoned, Take
<1>23. CASE Reap
  BY <1>23 DEF TypeOK, ReaperHolds, Waited, NotTracked, WaitedIsTracked, Reap
<1>24. CASE Orphan
  BY <1>24 DEF Waited, NotTracked, WaitedIsTracked, Orphan
<1>25. ASSUME NEW p \in Pid, Exit(p) PROVE WaitedIsTracked'
  BY <1>25 DEF Waited, NotTracked, WaitedIsTracked, Exit
<1>26. CASE UNCHANGED <<job, proc, reaper, sup, tracked>>
  BY <1>26 DEF Waited, NotTracked, WaitedIsTracked
<1>27. ASSUME DockerAnswers \/ Shutdown \/ Terminate \/ SocketClosed \/ PowerOff
       PROVE  UNCHANGED <<job, proc, reaper, sup, tracked>>
  BY <1>27 DEF DockerAnswers, Shutdown, DownStep, Terminate, SocketClosed, PowerOff
<1>28. CASE UNCHANGED vars
  BY <1>28, <1>26 DEF vars
<1> QED BY <1>0, <1>1, <1>2, <1>3, <1>4, <1>5, <1>6, <1>7, <1>8, <1>9, <1>10, <1>11, <1>12,
       <1>13, <1>14, <1>15, <1>16, <1>17, <1>18, <1>19, <1>20, <1>21, <1>22, <1>23,
       <1>24, <1>25, <1>26, <1>27, <1>28 DEF Next, Supervise

(* Only Reap takes a status, and by ReaperHolds it is excused.             *)
LEMMA StolenStep == IInv /\ [Next]_vars => TrackedNotStolen'
<1> SUFFICES ASSUME TypeOK, ReaperHolds, WaitedIsTracked, TrackedNotStolen, WatchedIsThere,
                    ReadyIsWatched, Served, [Next]_vars PROVE TrackedNotStolen'
  BY DEF IInv, Types
<1> USE Pids
<1>1. CASE Reap
  <2>1. reaper.why \in Range(Theft) /\ stolen \in Range(Theft)
    BY DEF TypeOK
  <2>2. Worse(stolen, reaper.why) \in {stolen, reaper.why}
    BY <2>1, WorseOf
  <2> QED BY <1>1, <2>2 DEF ReaperHolds, TrackedNotStolen, Reap
<1>2. CASE UNCHANGED stolen
  BY <1>2, SMTT(30) DEF TrackedNotStolen
<1>3. ASSUME CheckShutdown \/ SpawnContainerd \/ TrackContainerd \/ WaitForSocket
             \/ SpawnDockerd \/ DropContainerd \/ TrackDockerd \/ DockerdEnded \/ ContainerdEnded
             \/ LeaveOnShutdown \/ Untrack \/ KillContainerd \/ WaitContainerd \/ Backoff
             \/ Announce \/ GiveUpAnnouncing \/ DockerAnswers \/ JobInsert \/ JobWait
             \/ JobTimeout \/ JobUntrack
             \/ (\E kind \in {"plain", "tracked"} : JobFork(kind)) \/ Look \/ LookAbandoned
             \/ Shutdown \/ Terminate \/ SocketClosed \/ PowerOff \/ Orphan
             \/ (\E p \in Pid : Exit(p))
       PROVE  UNCHANGED stolen
  BY <1>3, Zenon DEF CheckShutdown, SpawnContainerd, SupStep, Fork, TrackContainerd, WaitForSocket,
     SpawnDockerd, DropContainerd, Free, TrackDockerd, DockerdEnded, ContainerdEnded,
     LeaveOnShutdown, Untrack, KillContainerd, WaitContainerd, Backoff, Announce,
     GiveUpAnnouncing, DockerAnswers, JobInsert, JobWait, JobDone, JobTimeout,
     JobUntrack, JobFork, Look, Take, LookAbandoned, Shutdown, DownStep, Terminate,
     SocketClosed, PowerOff, Orphan, Exit
<1>4. CASE UNCHANGED vars
  BY <1>4, <1>2 DEF vars
<1> QED BY <1>1, <1>2, <1>3, <1>4 DEF Next, Supervise

(* dockerd is there to be read as long as it is watched.                   *)
LEMMA WatchedStep == IInv /\ [Next]_vars => WatchedIsThere'
<1> SUFFICES ASSUME TypeOK, ReaperHolds, WaitedIsTracked, TrackedNotStolen, WatchedIsThere,
                    ReadyIsWatched, Served, [Next]_vars PROVE WatchedIsThere'
  BY DEF IInv, Types
<1> USE Pids
<1>0. CASE CheckShutdown
  BY <1>0 DEF WatchedIsThere, CheckShutdown, SupStep
<1>1. CASE SpawnContainerd
  BY <1>1 DEF WatchedIsThere, SpawnContainerd, SupStep
<1>2. CASE TrackContainerd
  BY <1>2 DEF WatchedIsThere, TrackContainerd, SupStep
<1>3. CASE WaitForSocket
  BY <1>3 DEF WatchedIsThere, WaitForSocket, SupStep
<1>4. CASE SpawnDockerd
  BY <1>4 DEF WatchedIsThere, SpawnDockerd, SupStep
<1>5. CASE DropContainerd
  BY <1>5 DEF WatchedIsThere, DropContainerd, SupStep
<1>6. CASE TrackDockerd
  BY <1>6 DEF WatchedIsThere, ReadyIsWatched, Mild, TrackDockerd
<1>7. CASE DockerdEnded
  BY <1>7 DEF WatchedIsThere, DockerdEnded, SupStep
<1>8. CASE ContainerdEnded
  BY <1>8 DEF WatchedIsThere, ContainerdEnded
<1>9. CASE LeaveOnShutdown
  BY <1>9 DEF WatchedIsThere, LeaveOnShutdown, SupStep
<1>10. CASE Untrack
  BY <1>10 DEF WatchedIsThere, Untrack, SupStep
<1>11. CASE KillContainerd
  BY <1>11 DEF WatchedIsThere, KillContainerd, SupStep
<1>12. CASE WaitContainerd
  BY <1>12 DEF WatchedIsThere, WaitContainerd, SupStep
<1>13. CASE Backoff
  BY <1>13 DEF WatchedIsThere, Backoff, SupStep
<1>14. CASE Announce
  BY <1>14 DEF WatchedIsThere, ReaperHolds, Served, Announce
<1>15. CASE GiveUpAnnouncing
  BY <1>15 DEF WatchedIsThere, Mild, GiveUpAnnouncing
<1>16. CASE JobWait
  <2>1. PICK good \in BOOLEAN : JobDone(good)
    BY <1>16, Zenon DEF JobWait
  <2> QED BY <1>16, <2>1 DEF WatchedIsThere, Mild, JobDone, Free
<1>17. CASE JobTimeout
  BY <1>17 DEF WatchedIsThere, Mild, JobTimeout, JobDone, Free
<1>18. ASSUME NEW kind \in {"plain", "tracked"}, JobFork(kind) PROVE WatchedIsThere'
  BY <1>18 DEF WatchedIsThere, Mild, JobFork, Fork
<1>19. CASE Look
  BY <1>19, ShownIsZombie DEF TypeOK, NoZombie, WatchedIsThere, Mild, NotTracked, Look,
     Take
<1>20. CASE LookAbandoned
  BY <1>20, ShownIsZombie DEF Attended, WatchedIsThere, Mild, LookAbandoned, Take
<1>21. CASE Reap
  <2>1. reaper.why \in Range(Theft) /\ stolen \in Range(Theft)
    BY DEF TypeOK
  <2>2. \/ Worse(stolen, reaper.why) \in {"stalled", "unexcused"}
        \/ stolen \notin {"stalled", "unexcused"} /\ reaper.why \notin {"stalled", "unexcused"}
    BY <2>1, WorseOf
  <2> QED BY <1>21, <2>2 DEF WatchedIsThere, Mild, Waited, NoZombie, Reap
<1>22. CASE Orphan
  BY <1>22 DEF WatchedIsThere, Mild, Orphan
<1>23. ASSUME NEW p \in Pid, Exit(p) PROVE WatchedIsThere'
  BY <1>23 DEF WatchedIsThere, Mild, Exit
<1>24. CASE UNCHANGED <<proc, ready, reaper, stolen, sup>>
  BY <1>24 DEF WatchedIsThere, Mild
<1>25. ASSUME DockerAnswers \/ JobInsert \/ JobUntrack \/ Shutdown \/ Terminate
              \/ SocketClosed \/ PowerOff
       PROVE  UNCHANGED <<proc, ready, reaper, stolen, sup>>
  BY <1>25 DEF DockerAnswers, JobInsert, JobUntrack, Shutdown, DownStep, Terminate,
     SocketClosed, PowerOff
<1>26. CASE UNCHANGED vars
  BY <1>26, <1>24 DEF vars
<1> QED BY <1>0, <1>1, <1>2, <1>3, <1>4, <1>5, <1>6, <1>7, <1>8, <1>9, <1>10, <1>11, <1>12,
       <1>13, <1>14, <1>15, <1>16, <1>17, <1>18, <1>19, <1>20, <1>21, <1>22, <1>23,
       <1>24, <1>25, <1>26 DEF Next, Supervise

(* Only the supervisor leaves its watch.                                   *)
LEMMA ReadyStep == IInv /\ [Next]_vars => ReadyIsWatched'
<1> SUFFICES ASSUME TypeOK, ReaperHolds, WaitedIsTracked, TrackedNotStolen, WatchedIsThere,
                    ReadyIsWatched, Served, [Next]_vars PROVE ReadyIsWatched'
  BY DEF IInv, Types
<1> USE Pids
<1>0. CASE CheckShutdown
  BY <1>0 DEF ReadyIsWatched, CheckShutdown, SupStep
<1>1. CASE SpawnContainerd
  BY <1>1 DEF ReadyIsWatched, SpawnContainerd, SupStep
<1>2. CASE TrackContainerd
  BY <1>2 DEF ReadyIsWatched, TrackContainerd, SupStep
<1>3. CASE WaitForSocket
  BY <1>3 DEF ReadyIsWatched, WaitForSocket, SupStep
<1>4. CASE SpawnDockerd
  BY <1>4 DEF ReadyIsWatched, SpawnDockerd, SupStep
<1>5. CASE DropContainerd
  BY <1>5 DEF ReadyIsWatched, DropContainerd, SupStep
<1>6. CASE TrackDockerd
  BY <1>6 DEF ReadyIsWatched, TrackDockerd
<1>7. CASE DockerdEnded
  BY <1>7, Zenon DEF TypeOK, ReadyIsWatched, WatchedIsThere, Mild, DockerdEnded, SupStep, Free
<1>8. CASE ContainerdEnded
  BY <1>8 DEF ReadyIsWatched, ContainerdEnded
<1>9. CASE LeaveOnShutdown
  BY <1>9 DEF ReadyIsWatched, LeaveOnShutdown, SupStep
<1>10. CASE Untrack
  BY <1>10 DEF ReadyIsWatched, Untrack, SupStep
<1>11. CASE KillContainerd
  BY <1>11 DEF ReadyIsWatched, KillContainerd, SupStep
<1>12. CASE WaitContainerd
  BY <1>12 DEF ReadyIsWatched, WaitContainerd, SupStep
<1>13. CASE Backoff
  BY <1>13 DEF ReadyIsWatched, Backoff, SupStep
<1>14. CASE Announce
  BY <1>14 DEF ReadyIsWatched, Announce
<1>15. CASE GiveUpAnnouncing
  BY <1>15 DEF ReadyIsWatched, GiveUpAnnouncing
<1>16. CASE Reap
  <2>1. reaper.why \in Range(Theft) /\ stolen \in Range(Theft)
    BY DEF TypeOK
  <2>2. stolen \in {"stalled", "unexcused"}
          => Worse(stolen, reaper.why) \in {"stalled", "unexcused"}
    BY <2>1, WorseOf, Zenon
  <2> QED BY <1>16, <2>2 DEF ReadyIsWatched, Reap
<1>17. CASE UNCHANGED <<ready, stolen, sup>>
  BY <1>17 DEF ReadyIsWatched
<1>18. ASSUME DockerAnswers \/ JobInsert \/ JobWait \/ JobTimeout \/ JobUntrack
              \/ (\E kind \in {"plain", "tracked"} : JobFork(kind)) \/ Look \/ LookAbandoned
              \/ Shutdown \/ Terminate \/ SocketClosed \/ PowerOff \/ Orphan
              \/ (\E p \in Pid : Exit(p))
       PROVE  UNCHANGED <<ready, stolen, sup>>
  BY <1>18, Zenon DEF DockerAnswers, JobInsert, JobWait, JobDone, Free, JobTimeout, JobUntrack,
     JobFork, Fork, Look, Take, LookAbandoned, Shutdown, DownStep, Terminate,
     SocketClosed, PowerOff, Orphan, Exit
<1>19. CASE UNCHANGED vars
  BY <1>19, <1>17 DEF vars
<1> QED BY <1>0, <1>1, <1>2, <1>3, <1>4, <1>5, <1>6, <1>7, <1>8, <1>9, <1>10, <1>11, <1>12,
       <1>13, <1>14, <1>15, <1>16, <1>17, <1>18, <1>19 DEF Next, Supervise

(* The shutdown against the starts of dockerd.                             *)
LEMMA ServedStep == IInv /\ [Next]_vars => Served'
<1> SUFFICES ASSUME TypeOK, ReaperHolds, WaitedIsTracked, TrackedNotStolen, WatchedIsThere,
                    ReadyIsWatched, Served, [Next]_vars PROVE Served'
  BY DEF IInv, Types
<1> USE Pids
<1>0. CASE CheckShutdown
  BY <1>0 DEF TypeOK, Served, CheckShutdown, SupStep
<1>1. CASE SpawnContainerd
  BY <1>1 DEF TypeOK, Served, SpawnContainerd, SupStep, Fork
<1>2. CASE TrackContainerd
  BY <1>2 DEF Served, TrackContainerd, SupStep
<1>3. CASE WaitForSocket
  BY <1>3 DEF Served, WaitForSocket, SupStep
<1>4. CASE SpawnDockerd
  BY <1>4 DEF Served, SpawnDockerd, SupStep
<1>5. CASE DropContainerd
  BY <1>5 DEF Served, DropContainerd, SupStep, Free
<1>6. CASE TrackDockerd
  BY <1>6 DEF TypeOK, Served, TrackDockerd
<1>7. CASE DockerdEnded
  BY <1>7 DEF Served, DockerdEnded, SupStep, Free
<1>8. CASE ContainerdEnded
  BY <1>8 DEF Served, ContainerdEnded, SupStep, Free
<1>9. CASE LeaveOnShutdown
  BY <1>9 DEF Served, LeaveOnShutdown, SupStep
<1>10. CASE Untrack
  BY <1>10 DEF Served, Untrack, SupStep
<1>11. CASE KillContainerd
  BY <1>11 DEF Served, KillContainerd, SupStep
<1>12. CASE WaitContainerd
  BY <1>12 DEF Served, WaitContainerd, SupStep, Free
<1>13. CASE Backoff
  BY <1>13 DEF Served, Backoff, SupStep
<1>14. CASE Announce
  BY <1>14 DEF TypeOK, Served, Announce
<1>15. CASE GiveUpAnnouncing
  BY <1>15 DEF TypeOK, Served, GiveUpAnnouncing
<1>16. CASE DockerAnswers
  BY <1>16 DEF TypeOK, Served, DockerAnswers
<1>17. CASE JobWait
  BY <1>17 DEF Served, JobWait, JobDone, Free, BootAfter
<1>18. CASE JobTimeout
  BY <1>18 DEF Served, JobTimeout, JobDone, Free
<1>19. ASSUME NEW kind \in {"plain", "tracked"}, JobFork(kind) PROVE Served'
  BY <1>19 DEF Served, JobFork, Fork
<1>20. CASE Reap
  BY <1>20 DEF Served, Reap
<1>21. CASE Shutdown
  BY <1>21 DEF Served, Shutdown, DownStep, Starting
<1>22. CASE Terminate
  BY <1>22 DEF Served, Terminate, DownStep
<1>23. CASE SocketClosed
  BY <1>23 DEF TypeOK, Served, SocketClosed, DownStep
<1>24. CASE PowerOff
  BY <1>24 DEF Served, PowerOff, DownStep
<1>25. CASE Orphan
  BY <1>25 DEF TypeOK, Served, Orphan
<1>26. ASSUME NEW p \in Pid, Exit(p) PROVE Served'
  BY <1>26, Zenon DEF TypeOK, Served, Exit
<1>27. CASE UNCHANGED <<down, hasty, proc, sup, up>>
  BY <1>27 DEF TypeOK, Served
<1>28. ASSUME JobInsert \/ JobUntrack \/ Look \/ LookAbandoned
       PROVE  UNCHANGED <<down, hasty, proc, sup, up>>
  BY <1>28 DEF JobInsert, JobUntrack, Look, LookAbandoned
<1>29. CASE UNCHANGED vars
  BY <1>29, <1>27 DEF vars
<1> QED BY <1>0, <1>1, <1>2, <1>3, <1>4, <1>5, <1>6, <1>7, <1>8, <1>9, <1>10, <1>11, <1>12,
       <1>13, <1>14, <1>15, <1>16, <1>17, <1>18, <1>19, <1>20, <1>21, <1>22, <1>23,
       <1>24, <1>25, <1>26, <1>27, <1>28, <1>29 DEF Next, Supervise

-----------------------------------------------------------------------------
(* The invariant holds when the machine boots.                             *)
LEMMA Start == Init => IInv
<1> SUFFICES ASSUME Init PROVE IInv
  OBVIOUS
<1>1. TypeOK
  <2>1. commands \in 0..MaxCommands
    BY CommandsAssumption DEF Init
  <2>2. proc \in [Pid -> {"free", "alive", "zombie"}]
    BY DEF Init
  <2>3. reaper \in [pc : {"look", "reap"}, pid : Pid \cup {None},
                   why : Range(Theft), stuck : Pid \cup {None}]
    BY Thefts DEF Init, NoZombie
  <2> QED BY <2>1, <2>2, <2>3, Thefts, Zenon DEF Init, TypeOK
<1>2. ReaperHolds /\ WaitedIsTracked
  BY DEF Init, ReaperHolds, WaitedIsTracked, NoZombie
<1>3. TrackedNotStolen /\ WatchedIsThere /\ ReadyIsWatched
  BY DEF Init, TrackedNotStolen, WatchedIsThere, ReadyIsWatched
<1>4. Served
  BY Pids DEF Init, Served
<1> QED BY <1>1, <1>2, <1>3, <1>4 DEF IInv, Types

(* The invariant holds always.                                             *)
LEMMA Holds == Spec => []IInv
<1>1. IInv /\ [Next]_vars => IInv'
  BY TypesStep, HoldsStep, TrackedStep, StolenStep, WatchedStep, ReadyStep, ServedStep
     DEF IInv, Types
<1> QED BY Start, <1>1, PTL DEF Spec

(* The reaper (start_reaper) never takes the status of a child that is     *)
(* tracked and whose thread is there to read it (run_tracked, exec,        *)
(* supervise), whatever ends when.                                         *)
THEOREM NothingStolen == Spec => []TrackedNotStolen
<1>1. IInv => TrackedNotStolen
  BY DEF IInv
<1> QED BY <1>1, Holds, PTL

(* supervise leaves its watch only after it has broadcast EngineDown, or   *)
(* when the status of dockerd was taken from it late.                      *)
THEOREM AnnouncementsHold == Spec => []ReadyIsWatched
<1>1. IInv => ReadyIsWatched
  BY DEF IInv
<1> QED BY <1>1, Holds, PTL

(* A shutdown (system.rs) ends with dockerd silent, and with none started  *)
(* behind its back, unless its flag was set between the supervisor's look  *)
(* at it and the first answer of dockerd, or the deadline passed.          *)
THEOREM PoweredOffQuietly == Spec => []QuietPowerOff
<1>1. IInv => QuietPowerOff
  BY DEF IInv, Served, QuietPowerOff
<1> QED BY <1>1, Holds, PTL
=============================================================================
