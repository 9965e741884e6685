------------------------------- MODULE Probe -------------------------------
(***************************************************************************)
(* What the kernel of the machine tells of a TCP connection, and the name  *)
(* that the agent puts on its caller: the eBPF program                     *)
(* (crates/solon-trace-ebpf/src/main.rs), its table of sockets and its     *)
(* ring, and translate and Names of crates/solon-agent/src/trace.rs.       *)
(*                                                                         *)
(* A container is a number, which is its cgroup and its id as well; an     *)
(* address passes from a container to the next.  The kernel gives the      *)
(* address of a socket to another one when the first is freed.             *)
(***************************************************************************)
EXTENDS Naturals, Sequences, Functions, FiniteSets

CONSTANTS Socket,        \* addresses of sockets in the kernel
          Ip,            \* addresses of containers
          Ring,          \* events that the ring holds
          MaxContainers, \* bound: containers started
          MaxOpens       \* bound: connections, incoming ones included

VARIABLES
    running,    \* per address: the container that has it; 0: none
    conn,       \* per socket: its TCP state, its opener and the opener's address
    sockets,    \* SOCKETS: per socket, the cgroup noted at its opening; 0: none
    ring,       \* EVENTS
    endpoints,  \* the containers that the watcher of dockerd knows of, by address
    names,      \* by_cgroup and by_ip as last scanned
    told,       \* the last fact that was named
    started, opens,
    vanished    \* history: a socket was freed without a transition

vars == <<running, conn, sockets, ring, endpoints, names, told, started, opens, vanished>>

NoConn == [state |-> "none", by |-> 0, ip |-> CHOOSE i \in Ip : TRUE]
NoNames == [cgroups |-> {}, ips |-> [i \in Ip |-> 0], scanned |-> FALSE]
NoFact == [by |-> 0, cgroup |-> 0, src |-> 0, known |-> FALSE]
Kind == {"connect", "failed", "close"}

TypeOK ==
    /\ running \in [Ip -> 0..MaxContainers] /\ endpoints \in [Ip -> 0..MaxContainers]
    /\ \A s \in Socket : conn[s].state \in {"none", "syn", "est", "in"}
    /\ \A s \in Socket : sockets[s] \in 0..started
    /\ Len(ring) <= Ring /\ \A e \in Range(ring) : e.kind \in Kind
    /\ names.cgroups \subseteq 1..started
    /\ started \in 0..MaxContainers /\ opens \in 0..MaxOpens

Init ==
    /\ running = [i \in Ip |-> 0] /\ endpoints = [i \in Ip |-> 0]
    /\ conn = [s \in Socket |-> NoConn] /\ sockets = [s \in Socket |-> 0]
    /\ ring = <<>> /\ names = NoNames /\ told = NoFact
    /\ started = 0 /\ opens = 0 /\ vanished = FALSE

-----------------------------------------------------------------------------
(* dockerd, and the list that events.rs keeps of it.                       *)
ContainerStarts(i) ==
    /\ running[i] = 0 /\ started < MaxContainers /\ started' = started + 1
    /\ running' = [running EXCEPT ![i] = started + 1]
    /\ UNCHANGED <<conn, sockets, ring, endpoints, names, told, opens, vanished>>
ContainerStops(i) ==
    /\ running[i] # 0 /\ running' = [running EXCEPT ![i] = 0]
    /\ UNCHANGED <<conn, sockets, ring, endpoints, names, told, started, opens, vanished>>
Refresh ==
    /\ endpoints # running /\ endpoints' = running
    /\ UNCHANGED <<running, conn, sockets, ring, names, told, started, opens, vanished>>

-----------------------------------------------------------------------------
(* handle, at each transition of a socket.  The opening notes who calls;   *)
(* the table forgets some other socket when it is full.                    *)
KernelRest == UNCHANGED <<running, endpoints, names, told, started>>

Open(s, i) ==
    /\ conn[s] = NoConn /\ running[i] # 0 /\ opens < MaxOpens /\ opens' = opens + 1
    /\ conn' = [conn EXCEPT ![s] = [state |-> "syn", by |-> running[i], ip |-> i]]
    /\ \E evicted \in {{}} \cup {{t} : t \in Socket \ {s}} :
          sockets' = [t \in Socket |-> IF t = s THEN running[i]
                                       ELSE IF t \in evicted THEN 0 ELSE sockets[t]]
    /\ UNCHANGED <<ring, vanished>> /\ KernelRest

(* A connection that comes from elsewhere is not noted.                    *)
Accept(s) ==
    /\ conn[s] = NoConn /\ opens < MaxOpens /\ opens' = opens + 1
    /\ conn' = [conn EXCEPT ![s] = [NoConn EXCEPT !.state = "in"]]
    /\ UNCHANGED <<sockets, ring, vanished>> /\ KernelRest

(* emit: lost without a noise when the ring is full, or when the socket    *)
(* was not noted.                                                          *)
Emit(s, kind) ==
    ring' = IF sockets[s] = 0 \/ Len(ring) = Ring THEN ring
            ELSE Append(ring, [kind |-> kind, cgroup |-> sockets[s], ip |-> conn[s].ip,
                               by |-> conn[s].by])

Establish(s) ==
    /\ conn[s].state = "syn" /\ conn' = [conn EXCEPT ![s].state = "est"]
    /\ Emit(s, "connect")
    /\ UNCHANGED <<sockets, opens, vanished>> /\ KernelRest
(* Mutant: the end of a connection leaves its note behind.                 *)
CloseKeeps(s) ==
    /\ conn[s] # NoConn /\ conn' = [conn EXCEPT ![s] = NoConn]
    /\ Emit(s, IF conn[s].state = "syn" THEN "failed" ELSE "close")
    /\ UNCHANGED <<sockets, opens, vanished>> /\ KernelRest
Close(s) ==
    /\ conn[s] # NoConn /\ conn' = [conn EXCEPT ![s] = NoConn]
    /\ Emit(s, IF conn[s].state = "syn" THEN "failed" ELSE "close")
    /\ sockets' = [sockets EXCEPT ![s] = 0]
    /\ UNCHANGED <<opens, vanished>> /\ KernelRest

(* "A socket freed without a transition that is seen" (main.rs).           *)
Vanish(s) ==
    /\ conn[s].state \in {"syn", "est"} /\ conn' = [conn EXCEPT ![s] = NoConn]
    /\ vanished' = TRUE
    /\ UNCHANGED <<sockets, ring, opens>> /\ KernelRest

-----------------------------------------------------------------------------
(* Names::rescan.                                                          *)
Scan == [cgroups |-> Range(running) \ {0}, ips |-> endpoints, scanned |-> TRUE]

(* Names::peer for the caller: its address gives the record of a           *)
(* container, unless the cgroup is known and says otherwise.               *)
(* Mutant: the address wins.                                               *)
PeerByAddress(t, ip, cgroup) ==
    IF t.ips[ip] # 0 THEN t.ips[ip] ELSE IF cgroup \in t.cgroups THEN cgroup ELSE 0
Peer(t, ip, cgroup) ==
    LET known == IF cgroup \in t.cgroups THEN cgroup ELSE 0 IN
    IF t.ips[ip] # 0 /\ known \in {0, t.ips[ip]} THEN t.ips[ip] ELSE known

(* The ring is read; the tables are two seconds old at most.               *)
Drain ==
    /\ ring # <<>> /\ ring' = Tail(ring)
    /\ \E t \in {Scan} \cup (IF names.scanned THEN {names} ELSE {}) :
          LET e == Head(ring) IN
          /\ names' = t
          /\ told' = [by |-> e.by, cgroup |-> e.cgroup, src |-> Peer(t, e.ip, e.cgroup),
                       known |-> e.cgroup \in t.cgroups]
    /\ UNCHANGED <<running, conn, sockets, endpoints, started, opens, vanished>>

Next ==
    \/ Refresh \/ Drain
    \/ \E i \in Ip : ContainerStarts(i) \/ ContainerStops(i)
    \/ \E s \in Socket : Accept(s) \/ Establish(s) \/ Close(s) \/ Vanish(s)
    \/ \E s \in Socket, i \in Ip : Open(s, i)

Spec == Init /\ [][Next]_vars

-----------------------------------------------------------------------------
(* As long as no socket vanishes, a fact is about a connection that a      *)
(* container opened, and carries the cgroup of the container that did; an  *)
(* address of a socket that served an earlier connection, and incoming     *)
(* connections, included.                                                  *)
FactsFromOpener == ~vanished /\ told # NoFact => told.by # 0 /\ told.cgroup = told.by

(* "The address first, but only if it does not contradict the cgroup,      *)
(* which is never wrong" (trace.rs): a caller whose cgroup the scan found  *)
(* is named for what it is, though its address was another container's.    *)
CallerNamedRight == told.known => told.src = told.cgroup
=============================================================================
