------------------------------- MODULE FsPool -------------------------------
(***************************************************************************)
(* The connections that carry the file system: the service opens a fixed   *)
(* number of them and serves each (serve, connect and serve_connection of  *)
(* crates/solon-service/src/fileserver.rs); the agent keeps them in a pool *)
(* and takes one for each request (Pool, serve_pool and call of            *)
(* crates/solon-agent/src/solonfs.rs).                                     *)
(*                                                                         *)
(* A connection is the number of the life of the service that opened it;   *)
(* it is dead when that life is over.  A loop of the service belongs to    *)
(* the machine it was started for, and asks whether the engine is stopped  *)
(* only between two connections.                                           *)
(***************************************************************************)
EXTENDS Naturals, Sequences, FiniteSets

CONSTANTS Mount,        \* drives that are mounted, each with its own session
          Connections,  \* FS_CONNECTIONS
          MaxLives      \* bound: lives of the service, and machines

VARIABLES
    life,     \* the life of the service
    alive,    \* it lives
    machine,  \* the machine that runs; 0 when the engine is stopped
    machines, \* machines so far
    loops,    \* the loops of the service, per machine: their step
    pool,     \* Pool.free, the last one is taken first
    call      \* per mount: its step and its connection

vars == <<life, alive, machine, machines, loops, pool, call>>

Loop == 1..Connections
Step == {"none", "connect", "serve", "check"}
Idle == [pc |-> "idle", conn |-> 0]

TypeOK ==
    /\ life \in 1..MaxLives /\ alive \in BOOLEAN
    /\ machine \in 0..MaxLives /\ machines \in 1..MaxLives
    /\ loops \in [1..MaxLives -> [Loop -> Step]]
    /\ \A i \in DOMAIN pool : pool[i] \in 1..MaxLives
    /\ call \in [Mount -> [pc : {"idle", "take", "wait"}, conn : 0..MaxLives]]

(* attach starts the loops of a machine.                                   *)
Started(m) == [loops EXCEPT ![m] = [l \in Loop |-> "connect"]]

Init ==
    /\ life = 1 /\ alive = TRUE /\ machine = 1 /\ machines = 1
    /\ loops = [m \in 1..MaxLives |-> [l \in Loop |-> IF m = 1 THEN "connect" ELSE "none"]]
    /\ pool = <<>> /\ call = [t \in Mount |-> Idle]

Live(c) == alive /\ c = life

(* Pool::give, for serve_pool and for call.                                *)
Give(c) == Append(pool, c)

-----------------------------------------------------------------------------
(* serve: connect, serve until the connection fails, look whether the      *)
(* engine is stopped, try again.                                           *)
Connect(m, l) ==
    /\ alive /\ loops[m][l] = "connect"
    /\ \/ m = machine /\ pool' = Give(life) /\ loops' = [loops EXCEPT ![m][l] = "serve"]
       \/ UNCHANGED pool /\ loops' = [loops EXCEPT ![m][l] = "check"]
    /\ UNCHANGED <<life, alive, machine, machines, call>>
Check(m, l) ==
    /\ alive /\ loops[m][l] = "check"
    /\ loops' = [loops EXCEPT ![m][l] = IF machine = 0 THEN "none" ELSE "connect"]
    /\ UNCHANGED <<life, alive, machine, machines, pool, call>>

(* The engine stops: the machine is gone with the agent and its pool.      *)
EngineStops ==
    /\ alive /\ machine # 0 /\ machine' = 0
    /\ pool' = <<>> /\ call' = [t \in Mount |-> Idle]
    /\ loops' = [loops EXCEPT ![machine] = [l \in Loop |-> IF @[l] = "serve" THEN "check" ELSE @[l]]]
    /\ UNCHANGED <<life, alive, machines>>
EngineStarts ==
    /\ alive /\ machine = 0 /\ machines < MaxLives
    /\ machine' = machines + 1 /\ machines' = machines + 1
    /\ loops' = Started(machines + 1)
    /\ UNCHANGED <<life, alive, pool, call>>

(* The service dies with its loops and comes back to the same machine.     *)
ServiceDies ==
    /\ alive /\ life < MaxLives /\ alive' = FALSE
    /\ loops' = [m \in 1..MaxLives |-> [l \in Loop |-> "none"]]
    /\ UNCHANGED <<life, machine, machines, pool, call>>
ServiceReturns ==
    /\ ~alive /\ alive' = TRUE /\ life' = life + 1
    /\ loops' = IF machine = 0 THEN loops ELSE Started(machine)
    /\ UNCHANGED <<machine, machines, pool, call>>

-----------------------------------------------------------------------------
(* An operation of the container, through call: take, waiting thirty       *)
(* seconds for a connection, send, read the answer, give back; a           *)
(* connection that failed is dropped.                                      *)
Request(t) ==
    /\ machine # 0 /\ call[t] = Idle
    /\ call' = [call EXCEPT ![t].pc = "take"]
    /\ UNCHANGED <<life, alive, machine, machines, loops, pool>>
Take(t) ==
    /\ call[t].pc = "take" /\ pool # <<>>
    /\ call' = [call EXCEPT ![t] = [pc |-> "wait", conn |-> pool[Len(pool)]]]
    /\ pool' = SubSeq(pool, 1, Len(pool) - 1)
    /\ UNCHANGED <<life, alive, machine, machines, loops>>
(* Mutant: a request waits for a connection as long as it takes.           *)
TakeWaits(t) == call[t].pc = "take" /\ pool = <<>> /\ UNCHANGED vars
TakeTimesOut(t) ==
    /\ call[t].pc = "take" /\ pool = <<>>
    /\ call' = [call EXCEPT ![t] = Idle]
    /\ UNCHANGED <<life, alive, machine, machines, loops, pool>>
(* Mutant: the connection is not given back.                               *)
AnsweredKept(t) ==
    /\ call[t].pc = "wait" /\ Live(call[t].conn)
    /\ call' = [call EXCEPT ![t] = Idle]
    /\ UNCHANGED <<life, alive, machine, machines, loops, pool>>
Answered(t) ==
    /\ call[t].pc = "wait" /\ Live(call[t].conn)
    /\ pool' = Give(call[t].conn) /\ call' = [call EXCEPT ![t] = Idle]
    /\ UNCHANGED <<life, alive, machine, machines, loops>>
(* Mutant: a connection that failed goes back to the pool.                 *)
BrokenKept(t) ==
    /\ call[t].pc = "wait" /\ ~Live(call[t].conn)
    /\ pool' = Append(pool, call[t].conn) /\ call' = [call EXCEPT ![t] = Idle]
    /\ UNCHANGED <<life, alive, machine, machines, loops>>
(* The connection is lost with its service.                                *)
Broken(t) ==
    /\ call[t].pc = "wait" /\ ~Live(call[t].conn)
    /\ call' = [call EXCEPT ![t] = Idle]
    /\ UNCHANGED <<life, alive, machine, machines, loops, pool>>
(* The answer is refused (an absurd header, an answer that cannot be read, *)
(* more than sixteen megabytes): the agent closes, the loop opens another. *)
Aberrant(t) ==
    /\ call[t].pc = "wait" /\ Live(call[t].conn)
    /\ call' = [call EXCEPT ![t] = Idle]
    /\ \E l \in Loop : /\ loops[machine][l] = "serve"
                      /\ loops' = [loops EXCEPT ![machine][l] = "check"]
    /\ UNCHANGED <<life, alive, machine, machines, pool>>

-----------------------------------------------------------------------------
CallStep(t) == Take(t) \/ TakeTimesOut(t) \/ Answered(t) \/ Broken(t)
Next ==
    \/ EngineStops \/ EngineStarts \/ ServiceDies \/ ServiceReturns
    \/ \E m \in 1..MaxLives, l \in Loop : Connect(m, l) \/ Check(m, l)
    \/ \E t \in Mount : Request(t) \/ CallStep(t) \/ Aberrant(t)

Spec == Init /\ [][Next]_vars /\ \A t \in Mount : WF_vars(CallStep(t))

-----------------------------------------------------------------------------
(* The connections of a dead service lie below the living ones: a call     *)
(* takes one of them only when every living one is in use, so that at most *)
(* FS_CONNECTIONS calls fail after the service came back.                  *)
DeadBelowLive ==
    \A i, j \in DOMAIN pool : i < j /\ Live(pool[i]) => Live(pool[j])

Waiting == {i \in DOMAIN pool : Live(pool[i])}
Using == {t \in Mount : call[t].pc = "wait" /\ Live(call[t].conn)}
Served == {l \in Loop : loops[machine][l] = "serve"}

(* No connection is lost or used twice: the living ones in the pool and in *)
(* use are those that a loop serves.                                       *)
ConnectionsConserved ==
    alive /\ machine # 0 =>
        Cardinality(Waiting) + Cardinality(Using) = Cardinality(Served)

(* A request is answered or refused, whatever happens to the service.      *)
CallsEnd == \A t \in Mount : []<>(call[t].pc = "idle")
=============================================================================
