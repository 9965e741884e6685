------------------------------- MODULE Ports -------------------------------
(***************************************************************************)
(* How a published port of a container gets its listener on the host:      *)
(* dockerd's events, the watcher and the hub of the agent                  *)
(* (crates/solon-agent/src/events.rs), the stream of agent events, attach  *)
(* and the event loop of the engine (crates/solon-service/src/engine.rs),  *)
(* and the table of relays (crates/solon-service/src/ports.rs).            *)
(*                                                                         *)
(* A host port is published by at most one container, which is a record of *)
(* its id, its address and its name; the protocol is tcp.                  *)
(***************************************************************************)
EXTENDS Naturals, Sequences

CONSTANTS
    HostPort,    \* ports published on the host
    Ip,          \* addresses of containers
    MaxChanges,  \* bound: containers started, stopped and renamed
    MaxLives,    \* bound: lives of the service beside the same machine
    MaxEvents    \* bound: changes and lives together

VARIABLES
    docker,   \* dockerd: it answers, and what it publishes
    stream,   \* the /events stream: closed, or the number of events to read
    watch,    \* watch_docker: its step, the ids of docker ps, what comes next
    hub,      \* the hub of the agent: ports, engine_ready
    accept,   \* the greeting of a new subscriber: its step; "in": it is a client
    sock,     \* the events on their way to the service
    service,  \* "off", "attach", "loop": the event loop runs, "running": so does start
    initial,  \* initial_ports of attach
    snapshot, \* published_ports of the snapshot
    active,   \* PortRelays.active: the binding that each listener was made for
    socket,   \* the listener: none, trying to bind, open, or given up
    held,     \* ports whose aborted listener is not closed yet
    changes, lives,
    missed,   \* history: a change went unseen, or a listener was given up
    unrelayed \* history: the last list came before start was over

agent == <<docker, stream, watch, hub>>
relays == <<active, socket, held>>
vars == <<agent, accept, sock, service, initial, snapshot, relays, changes, lives, missed, unrelayed>>

Target == [id : 0..MaxChanges, ip : Ip, name : 0..MaxChanges]
NoTarget == [id |-> 0, ip |-> CHOOSE i \in Ip : TRUE, name |-> 0]
Bindings == [HostPort -> Target]
Nothing == [p \in HostPort |-> NoTarget]
Closed == MaxChanges + 1

TypeOK ==
    /\ docker \in [up : BOOLEAN, ports : Bindings]
    /\ stream \in 0..Closed
    /\ watch \in [pc : {"ping", "ps", "inspect", "open", "stream"}, ids : Bindings,
                  then : {"open", "stream"}]
    /\ hub \in [ports : Bindings, ready : BOOLEAN]
    /\ accept \in {"no", "hello", "ports", "push", "in"}
    /\ \A i \in DOMAIN sock : sock[i].event \in {"ready", "down", "ports"}
    /\ service \in {"off", "attach", "loop", "running"}
    /\ initial \in Bindings /\ snapshot \in Bindings /\ active \in Bindings
    /\ socket \in [HostPort -> {"none", "trying", "open", "gaveUp"}]
    /\ held \subseteq HostPort
    /\ changes \in 0..MaxChanges /\ lives \in 0..MaxLives
    /\ missed \in BOOLEAN /\ unrelayed \in BOOLEAN

Init ==
    /\ docker = [up |-> FALSE, ports |-> Nothing]
    /\ stream = Closed
    /\ watch = [pc |-> "ping", ids |-> Nothing, then |-> "open"]
    /\ hub = [ports |-> Nothing, ready |-> FALSE]
    /\ accept = "no" /\ sock = <<>>
    /\ service = "off" /\ initial = Nothing /\ snapshot = Nothing
    /\ active = Nothing /\ socket = [p \in HostPort |-> "none"] /\ held = {}
    /\ changes = 0 /\ lives = 0 /\ missed = FALSE /\ unrelayed = FALSE

Event(kind, ports) == [event |-> kind, ports |-> ports]
Missed(b) == missed' = (missed \/ b)

(* broadcast writes to the clients of the hub; a service that greets only  *)
(* is not one of them yet.                                                 *)
Broadcast(kind, ports) ==
    sock' = IF accept = "in" THEN Append(sock, Event(kind, ports)) ELSE sock

-----------------------------------------------------------------------------
(* Bound: the later lives of the service see fewer changes.                *)
MayChange == changes < MaxChanges /\ changes + lives < MaxEvents

(* Between docker ps and the stream nobody hears of a change.              *)
Unwatched == watch.pc \in {"inspect", "open"} /\ watch.then = "open"

(* dockerd.  A container starts, stops or is renamed: an event goes to the *)
(* readers of the stream.                                                  *)
Change(p, t) ==
    /\ docker.up /\ MayChange /\ changes' = changes + 1
    /\ docker' = [docker EXCEPT !.ports[p] = t]
    /\ stream' = IF stream = Closed THEN Closed ELSE stream + 1
    /\ Missed(Unwatched)
    /\ UNCHANGED <<watch, hub, accept, sock, service, initial, snapshot, relays, lives, unrelayed>>

(* Bound: addresses are alike, so that the one of the first start is fixed. *)
ContainerStarts(p, ip) ==
    /\ docker.ports[p].id = 0 /\ (changes = 0 => ip = NoTarget.ip)
    /\ Change(p, [id |-> changes + 1, ip |-> ip, name |-> changes + 1])
ContainerStops(p) == docker.ports[p].id # 0 /\ Change(p, NoTarget)
ContainerRenamed(p) ==
    docker.ports[p].id # 0 /\ Change(p, [docker.ports[p] EXCEPT !.name = changes + 1])

(* dockerd answers, and the supervisor announces it; it ends, with its     *)
(* containers and its streams, and that is announced too.                  *)
DockerUp ==
    /\ ~docker.up /\ docker' = [docker EXCEPT !.up = TRUE]
    /\ hub' = [hub EXCEPT !.ready = TRUE]
    /\ Broadcast("ready", Nothing)
    /\ Missed(accept = "ports" \/ accept = "push")
    /\ UNCHANGED <<stream, watch, accept, service, initial, snapshot, relays, changes, lives,
                   unrelayed>>
DockerDown ==
    /\ docker.up /\ MayChange /\ changes' = changes + 1
    /\ docker' = [up |-> FALSE, ports |-> Nothing]
    /\ stream' = Closed
    /\ hub' = [hub EXCEPT !.ready = FALSE]
    /\ Broadcast("down", Nothing)
    /\ Missed(Unwatched)
    /\ UNCHANGED <<watch, accept, service, initial, snapshot, relays, lives, unrelayed>>

-----------------------------------------------------------------------------
(* watch_docker: ping, refresh, open the stream, refresh at every event.   *)
WatchRest ==
    UNCHANGED <<docker, accept, service, initial, snapshot, relays, changes, lives, unrelayed>>

Ping ==
    /\ watch.pc = "ping" /\ docker.up
    /\ watch' = [watch EXCEPT !.pc = "ps", !.then = "open"]
    /\ UNCHANGED <<stream, hub, sock, missed>> /\ WatchRest

(* refresh_ports: docker ps, then docker inspect of what it named.         *)
Ps ==
    /\ watch.pc = "ps"
    /\ \/ docker.up /\ watch' = [watch EXCEPT !.pc = "inspect", !.ids = docker.ports]
                    /\ UNCHANGED missed
       \/ watch' = [watch EXCEPT !.pc = watch.then] /\ Missed(TRUE)
    /\ UNCHANGED <<stream, hub, sock>> /\ WatchRest

(* The containers of ps that are still there, as they are now.             *)
Inspected ==
    [p \in HostPort |-> IF docker.ports[p].id = watch.ids[p].id THEN docker.ports[p]
                                                                ELSE NoTarget]

(* Without a readable answer the list is empty.                            *)
Inspect ==
    /\ watch.pc = "inspect"
    /\ \E found \in {Inspected, Nothing} :
          /\ hub' = [hub EXCEPT !.ports = found]
          /\ IF found # hub.ports THEN Broadcast("ports", found) ELSE UNCHANGED sock
          /\ Missed(found # Inspected \/ (found # hub.ports /\ accept = "push"))
    /\ watch' = [watch EXCEPT !.pc = watch.then, !.ids = Nothing]
    /\ UNCHANGED stream /\ WatchRest

OpenStream ==
    /\ watch.pc = "open"
    /\ IF docker.up THEN stream' = 0 /\ watch' = [watch EXCEPT !.pc = "stream"]
                    ELSE UNCHANGED stream /\ watch' = [watch EXCEPT !.pc = "ping"]
    /\ UNCHANGED <<hub, sock, missed>> /\ WatchRest

(* Mutant: only the start of a container refreshes the list.               *)
ReadStreamStartsOnly ==
    /\ watch.pc = "stream"
    /\ \/ /\ stream \in 1..MaxChanges /\ stream' = stream - 1
          /\ watch' = IF \E p \in HostPort : docker.ports[p].id > hub.ports[p].id
                        THEN [watch EXCEPT !.pc = "ps", !.then = "stream"] ELSE watch
       \/ /\ stream = Closed /\ UNCHANGED stream
          /\ watch' = [watch EXCEPT !.pc = "ping"]
    /\ UNCHANGED <<hub, sock, missed>> /\ WatchRest
ReadStream ==
    /\ watch.pc = "stream"
    /\ \/ /\ stream \in 1..MaxChanges /\ stream' = stream - 1
          /\ watch' = [watch EXCEPT !.pc = "ps", !.then = "stream"]
       \/ /\ stream = Closed /\ UNCHANGED stream
          /\ watch' = [watch EXCEPT !.pc = "ping"]
    /\ UNCHANGED <<hub, sock, missed>> /\ WatchRest

-----------------------------------------------------------------------------
(* serve: the greeting of a subscriber, the last line of which registers   *)
(* it among the clients.                                                   *)
AcceptRest ==
    UNCHANGED <<agent, service, initial, snapshot, relays, changes, lives, missed, unrelayed>>

Greet ==
    /\ accept = "hello" /\ accept' = "ports"
    /\ sock' = IF hub.ready THEN Append(sock, Event("ready", Nothing)) ELSE sock
    /\ AcceptRest
GreetPorts ==
    /\ accept = "ports" /\ accept' = "push"
    /\ sock' = Append(sock, Event("ports", hub.ports))
    /\ AcceptRest
Register ==
    /\ accept = "push" /\ accept' = "in"
    /\ UNCHANGED sock /\ AcceptRest

-----------------------------------------------------------------------------
(* PortRelays::apply.  A listener is replaced when the address of its      *)
(* container changes.                                                      *)
(* Mutant: it never is.                                                    *)
StaleGoneOnly(b) == {p \in HostPort : active[p].id # 0 /\ b[p].id = 0}
Stale(b) == {p \in HostPort : active[p].id # 0 /\ (b[p].id = 0 \/ b[p].ip # active[p].ip)}

Apply(b) ==
    LET stale == Stale(b)
        new == {p \in HostPort : b[p].id # 0 /\ (active[p].id = 0 \/ p \in stale)} IN
    /\ active' = [p \in HostPort |-> IF p \in new THEN b[p]
                                     ELSE IF p \in stale THEN NoTarget ELSE active[p]]
    /\ socket' = [p \in HostPort |-> IF p \in new THEN "trying"
                                     ELSE IF p \in stale THEN "none" ELSE socket[p]]
    /\ held' = held \cup {p \in stale : socket[p] = "open"}

Renamed(b) == \E p \in HostPort : active[p].id # 0 /\ p \notin Stale(b) /\ active[p] # b[p]

ServiceRest == UNCHANGED <<agent, accept, changes, lives>>

Connect ==
    /\ service = "off" /\ service' = "attach"
    /\ lives < MaxLives /\ lives' = lives + 1
    /\ accept' = "hello" /\ sock' = <<>> /\ initial' = Nothing
    /\ UNCHANGED <<agent, snapshot, relays, changes, missed, unrelayed>>

(* attach reads until dockerd is ready, and relays what it knows by then.  *)
Attach ==
    /\ service = "attach" /\ sock # <<>> /\ sock' = Tail(sock)
    /\ LET e == Head(sock) IN
       CASE e.event = "ports" -> /\ initial' = e.ports
                                 /\ UNCHANGED <<service, snapshot, relays>>
         [] e.event = "down" -> UNCHANGED <<service, initial, snapshot, relays>>
         [] e.event = "ready" -> /\ service' = "loop" /\ snapshot' = initial
                                 /\ Apply(initial) /\ initial' = Nothing
    /\ ServiceRest /\ UNCHANGED <<missed, unrelayed>>

(* start has the relays in `running' only after attach has returned.       *)
Started ==
    /\ service = "loop" /\ service' = "running"
    /\ UNCHANGED <<sock, initial, snapshot, relays, missed, unrelayed>> /\ ServiceRest

(* The event loop.                                                         *)
(* Mutant: the bindings are published and not applied.                     *)
EventLoopPublish ==
    /\ service \in {"loop", "running"} /\ sock # <<>> /\ sock' = Tail(sock)
    /\ snapshot' = IF Head(sock).event = "ports" THEN Head(sock).ports ELSE snapshot
    /\ UNCHANGED <<service, initial, relays, missed, unrelayed>> /\ ServiceRest
EventLoop ==
    /\ service \in {"loop", "running"} /\ sock # <<>> /\ sock' = Tail(sock)
    /\ IF Head(sock).event # "ports" THEN UNCHANGED <<snapshot, relays, missed, unrelayed>>
       ELSE /\ snapshot' = Head(sock).ports
            /\ IF service = "running"
                 THEN Apply(Head(sock).ports) /\ Missed(Renamed(Head(sock).ports))
                 ELSE Missed(TRUE) /\ UNCHANGED relays
            /\ unrelayed' = (service # "running")
    /\ UNCHANGED <<service, initial>> /\ ServiceRest

(* listen: fifteen attempts while the port is taken.                       *)
Bind(p) ==
    /\ socket[p] = "trying" /\ p \notin held
    /\ socket' = [socket EXCEPT ![p] = "open"]
    /\ UNCHANGED <<sock, service, initial, snapshot, active, held, missed, unrelayed>> /\ ServiceRest
GiveUp(p) ==
    /\ socket[p] = "trying"
    /\ socket' = [socket EXCEPT ![p] = "gaveUp"] /\ Missed(TRUE)
    /\ UNCHANGED <<sock, service, initial, snapshot, active, held, unrelayed>> /\ ServiceRest
Release(p) ==
    /\ p \in held /\ held' = held \ {p}
    /\ UNCHANGED <<sock, service, initial, snapshot, active, socket, missed, unrelayed>> /\ ServiceRest

(* The service dies, its machine stays: the relays are gone.               *)
ServiceDies ==
    /\ service # "off" /\ service' = "off"
    /\ lives < MaxLives /\ changes + lives < MaxEvents
    /\ accept' = "no" /\ sock' = <<>> /\ initial' = Nothing /\ snapshot' = Nothing
    /\ active' = Nothing /\ socket' = [p \in HostPort |-> "none"] /\ held' = {}
    /\ unrelayed' = FALSE
    /\ UNCHANGED <<agent, changes, lives, missed>>

-----------------------------------------------------------------------------
Watcher == Ping \/ Ps \/ Inspect \/ OpenStream \/ ReadStream
Serve == Greet \/ GreetPorts \/ Register
Service == Attach \/ Started \/ EventLoop

Next ==
    \/ DockerUp \/ DockerDown \/ Watcher \/ Serve \/ Connect \/ Service \/ ServiceDies
    \/ \E p \in HostPort :
          \/ ContainerStops(p) \/ ContainerRenamed(p) \/ Bind(p) \/ GiveUp(p) \/ Release(p)
          \/ \E ip \in Ip : ContainerStarts(p, ip)

Fairness ==
    /\ WF_vars(Watcher) /\ WF_vars(Serve) /\ WF_vars(Service)
    /\ \A p \in HostPort : WF_vars(Bind(p)) /\ WF_vars(Release(p))

Spec == Init /\ [][Next]_vars /\ Fairness

-----------------------------------------------------------------------------
(* "For each binding announced by the agent, a TCP listener on the host"   *)
(* (ports.rs): a running engine that has read everything the agent sent    *)
(* relays what it publishes.                                               *)
AnnouncedRelayed ==
    service = "running" /\ sock = <<>> /\ accept = "in" =>
        \A p \in HostPort : (active[p].id = 0) = (snapshot[p].id = 0)

(* It does unless the last list came before start was over; the next one   *)
(* repairs that.                                                           *)
AnnouncedRelayedLater == ~unrelayed => AnnouncedRelayed

(* A listener that is open leads to the address that the last list gave    *)
(* for its port: it is replaced with the container behind it.              *)
RelayTargetsCurrent ==
    service = "running" /\ ~unrelayed =>
        \A p \in HostPort :
            socket[p] = "open" => snapshot[p].id # 0 /\ active[p].ip = snapshot[p].ip

(* With no list lost on the way, the listeners end up as dockerd's         *)
(* containers are, names included, once these stop changing.               *)
RelaysFollow ==
    <>[](service = "running" /\ docker.up /\ ~missed) =>
        <>[](active = docker.ports /\ \A p \in HostPort :
                (socket[p] = "open") = (docker.ports[p].id # 0))
=============================================================================
