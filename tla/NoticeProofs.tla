--------------------------- MODULE NoticeProofs ----------------------------
(***************************************************************************)
(* Proofs about the published ports, the control pipe and the names on the *)
(* host, for any number of ports, addresses, containers, setters, lines,   *)
(* threads and starts.                                                     *)
(***************************************************************************)
EXTENDS Notices, Sequences, FiniteSets, TLAPS

PortEvent == [event : {"ready", "down", "ports"}, ports : P!Bindings]
Watching == [pc : {"ping", "ps", "inspect", "open", "stream"}, ids : P!Bindings,
             then : {"open", "stream"}]

(* TypeOK, with the set of the events named; the stream holds no more than *)
(* the changes so far.                                                     *)
DockerTypes ==
    /\ docker \in [up : BOOLEAN, ports : P!Bindings]
    /\ stream = P!Closed \/ stream \in 0..changes
    /\ changes \in 0..MaxChanges /\ lives \in 0..MaxLives
AgentTypes ==
    /\ watch \in Watching /\ hub \in [ports : P!Bindings, ready : BOOLEAN]
    /\ accept \in {"no", "hello", "ports", "push", "in"}
    /\ sock \in Seq(PortEvent)
    /\ missed \in BOOLEAN /\ unrelayed \in BOOLEAN
RelayTypes ==
    /\ service \in {"off", "attach", "loop", "running"}
    /\ initial \in P!Bindings /\ snapshot \in P!Bindings /\ active \in P!Bindings
    /\ socket \in [HostPort -> {"none", "trying", "open", "gaveUp"}]
    /\ held \subseteq HostPort
PortTypes == DockerTypes /\ AgentTypes /\ RelayTypes

(* The listeners are those of a list: one for each port that it has, to    *)
(* the address that it has.                                                *)
Follows(b) ==
    \A p \in HostPort : /\ active[p].id = 0 <=> b[p].id = 0
                        /\ active[p].id # 0 => active[p].ip = b[p].ip
Listening ==
    /\ \A p \in HostPort : socket[p] # "none" => active[p].id # 0
    /\ service \in {"loop", "running"} /\ ~unrelayed => Follows(snapshot)

PortsInv == PortTypes /\ Listening

(* Bindings without any container, and with one more.                      *)
LEMMA Targets ==
           /\ P!NoTarget \in P!Target /\ P!NoTarget.id = 0 /\ P!Nothing \in P!Bindings
           /\ \A b \in P!Bindings, p \in HostPort : b[p] \in P!Target
<1>1. (CHOOSE i \in Ip : TRUE) \in Ip
  BY PortsAssumption
<1>2. P!NoTarget \in P!Target /\ P!NoTarget.id = 0
  BY <1>1, PortsAssumption DEF P!NoTarget, P!Target
<1> QED
  BY <1>2 DEF P!Nothing, P!Bindings

(* A queue of events, when one joins it and when one is read.              *)
LEMMA Events ==
    ASSUME NEW q \in Seq(PortEvent)
    PROVE  /\ \A e \in PortEvent : Append(q, e) \in Seq(PortEvent)
           /\ q # <<>> => Tail(q) \in Seq(PortEvent) /\ Head(q) \in PortEvent
  OBVIOUS
(* The events of the agent.                                                *)
LEMMA EventType ==
    ASSUME NEW k \in {"ready", "down", "ports"}, NEW b \in P!Bindings
    PROVE  P!Event(k, b) \in PortEvent
  BY DEF P!Event, PortEvent

(* An event that is broadcast joins those on their way.                    *)
LEMMA BroadcastType ==
    ASSUME AgentTypes, NEW k \in {"ready", "down", "ports"}, NEW b \in P!Bindings, P!Broadcast(k, b)
    PROVE  sock' \in Seq(PortEvent)
  BY EventType, Events DEF AgentTypes, P!Broadcast

(* PortRelays::apply makes the listeners those of the list, whatever they  *)
(* were before.                                                            *)
LEMMA ApplyFollows ==
    ASSUME RelayTypes, Listening, NEW b \in P!Bindings, P!Apply(b)
    PROVE  /\ active' \in P!Bindings /\ held' \subseteq HostPort
           /\ socket' \in [HostPort -> {"none", "trying", "open", "gaveUp"}]
           /\ \A p \in HostPort : socket'[p] # "none" => active'[p].id # 0
           /\ \A p \in HostPort : /\ active'[p].id = 0 <=> b[p].id = 0
                                  /\ active'[p].id # 0 => active'[p].ip = b[p].ip
<1> DEFINE stale == P!Stale(b)
           new == {p \in HostPort : b[p].id # 0 /\ (active[p].id = 0 \/ p \in stale)}
<1>1. /\ active' = [p \in HostPort |-> IF p \in new THEN b[p]
                                       ELSE IF p \in stale THEN P!NoTarget ELSE active[p]]
      /\ socket' = [p \in HostPort |-> IF p \in new THEN "trying"
                                       ELSE IF p \in stale THEN "none" ELSE socket[p]]
      /\ held' = held \cup {p \in stale : socket[p] = "open"}
  BY DEF P!Apply
<1>2. stale \subseteq HostPort
  BY DEF P!Stale
<1>3. \A p \in HostPort : p \in stale <=> active[p].id # 0 /\ (b[p].id = 0 \/ b[p].ip # active[p].ip)
  BY DEF P!Stale
<1>4. \A p \in HostPort : p \in new <=> b[p].id # 0 /\ (active[p].id = 0 \/ p \in stale)
  OBVIOUS
<1> HIDE DEF stale, new
<1>5. P!NoTarget \in P!Target /\ P!NoTarget.id = 0 /\ \A p \in HostPort : b[p] \in P!Target /\ active[p] \in P!Target
  BY Targets DEF RelayTypes
<1>6. active' \in P!Bindings
  BY <1>1, <1>5 DEF P!Bindings
<1>7. socket' \in [HostPort -> {"none", "trying", "open", "gaveUp"}] /\ held' \subseteq HostPort
  BY <1>1, <1>2 DEF RelayTypes
<1>8. ASSUME NEW p \in HostPort
      PROVE  /\ socket'[p] # "none" => active'[p].id # 0
             /\ active'[p].id = 0 <=> b[p].id = 0
             /\ active'[p].id # 0 => active'[p].ip = b[p].ip
  <2>1. CASE p \in new
    BY <1>1, <1>4, <2>1
  <2>2. CASE p \notin new /\ p \in stale
    BY <1>1, <1>3, <1>4, <1>5, <2>2
  <2>3. CASE p \notin new /\ p \notin stale
    BY <1>1, <1>3, <1>4, <2>3 DEF Listening
  <2> QED
    BY <2>1, <2>2, <2>3
<1> QED
  BY <1>6, <1>7, <1>8

(* A change of the containers.                                             *)
LEMMA ChangeTypes ==
    ASSUME DockerTypes, NEW p \in HostPort, NEW t \in P!Target, P!Change(p, t)
    PROVE  DockerTypes'
<1>1. changes' \in 0..MaxChanges /\ UNCHANGED lives
  BY PortsAssumption DEF DockerTypes, P!Change, P!MayChange
<1>2. docker' \in [up : BOOLEAN, ports : P!Bindings]
  BY DEF DockerTypes, P!Change, P!Bindings
<1>3. stream' = P!Closed \/ stream' \in 0..changes'
  BY PortsAssumption DEF DockerTypes, P!Change, P!MayChange, P!Closed
<1> QED
  BY <1>1, <1>2, <1>3 DEF DockerTypes, P!Closed

(* Every step keeps the types of the containers and of their events.       *)
LEMMA DockerTypesStep == ASSUME DockerTypes, [P!Next]_ports PROVE DockerTypes'
<1>0. \A p \in HostPort : docker.ports[p] \in P!Target
  BY Targets DEF DockerTypes
<1>1. ASSUME NEW p \in HostPort, NEW ip \in Ip, P!ContainerStarts(p, ip) PROVE DockerTypes'
  <2>1. changes + 1 \in 0..MaxChanges
    BY <1>1, PortsAssumption DEF P!ContainerStarts, P!Change, P!MayChange, DockerTypes
  <2>2. [id |-> changes + 1, ip |-> ip, name |-> changes + 1] \in P!Target
    BY <2>1 DEF P!Target
  <2> QED
    BY <1>1, <2>2, ChangeTypes DEF P!ContainerStarts
<1>2. ASSUME NEW p \in HostPort, P!ContainerStops(p) PROVE DockerTypes'
  BY <1>2, Targets, ChangeTypes DEF P!ContainerStops
<1>3. ASSUME NEW p \in HostPort, P!ContainerRenamed(p) PROVE DockerTypes'
  <2>1. changes + 1 \in 0..MaxChanges
    BY <1>3, PortsAssumption DEF P!ContainerRenamed, P!Change, P!MayChange, DockerTypes
  <2>2. [docker.ports[p] EXCEPT !.name = changes + 1] \in P!Target
    BY <1>0, <2>1 DEF P!Target
  <2> QED
    BY <1>3, <2>2, ChangeTypes DEF P!ContainerRenamed
<1>4. CASE P!DockerUp
  BY <1>4, Zenon DEF P!DockerUp, DockerTypes, P!Closed
<1>5. CASE P!DockerDown
  <2>1. changes' \in 0..MaxChanges /\ UNCHANGED lives /\ stream' = P!Closed
    BY <1>5, PortsAssumption DEF P!DockerDown, P!MayChange, DockerTypes
  <2>2. docker' \in [up : BOOLEAN, ports : P!Bindings]
    BY <1>5, Targets DEF P!DockerDown
  <2> QED
    BY <2>1, <2>2 DEF DockerTypes, P!Closed
<1>6. CASE P!Connect
  BY <1>6, PortsAssumption DEF P!Connect, DockerTypes, P!agent, P!Closed
<1>7. CASE P!Watcher
  <2>1. UNCHANGED <<docker, changes, lives>>
    BY <1>7, Zenon DEF P!Watcher, P!Ping, P!Ps, P!Inspect, P!OpenStream, P!ReadStream, P!WatchRest
  <2>2. stream' = P!Closed \/ stream' \in 0..changes
    <3>1. CASE UNCHANGED stream
      BY <3>1 DEF DockerTypes
    <3>2. CASE stream' = 0
      BY <3>2 DEF DockerTypes
    <3>3. CASE stream \in 1..MaxChanges /\ stream' = stream - 1
      BY <3>3, PortsAssumption DEF DockerTypes, P!Closed
    <3> QED
      BY <1>7, <3>1, <3>2, <3>3, Zenon DEF P!Watcher, P!Ping, P!Ps, P!Inspect,
         P!OpenStream, P!ReadStream
  <2> QED
    BY <2>1, <2>2 DEF DockerTypes, P!Closed
<1>8. CASE \/ P!Serve \/ P!Service \/ P!ServiceDies \/ UNCHANGED ports
           \/ \E p \in HostPort : P!Bind(p) \/ P!GiveUp(p) \/ P!Release(p)
  <2>1. UNCHANGED <<docker, stream, changes, lives>>
    BY <1>8, Zenon DEF P!Serve, P!Greet, P!GreetPorts, P!Register, P!AcceptRest, P!Service,
       P!Attach, P!Started,
                P!EventLoop, P!ServiceRest, P!ServiceDies, P!Bind, P!GiveUp, P!Release, P!agent, ports
  <2> QED
    BY <2>1 DEF DockerTypes, P!Closed
<1> QED
  BY <1>1, <1>2, <1>3, <1>4, <1>5, <1>6, <1>7, <1>8 DEF P!Next

(* Every step keeps the types of the agent.                                *)
LEMMA AgentTypesStep == ASSUME PortTypes, [P!Next]_ports PROVE AgentTypes'
<1>0. /\ AgentTypes /\ P!Nothing \in P!Bindings /\ docker.ports \in P!Bindings /\ hub.ports \in P!Bindings
      /\ sock \in Seq(PortEvent) /\ docker \in [up : BOOLEAN, ports : P!Bindings]
  BY Targets DEF PortTypes, DockerTypes, AgentTypes
<1>m. missed' \in BOOLEAN
  BY <1>0, ZenonT(30) DEF AgentTypes, P!Next, P!DockerUp, P!DockerDown, P!Watcher, P!Ping,
     P!Ps, P!Inspect, P!OpenStream,
              P!ReadStream, P!Serve, P!Greet, P!GreetPorts, P!Register, P!AcceptRest, P!Connect, P!Service,
              P!Attach, P!Started, P!EventLoop, P!ServiceDies, P!ContainerStops, P!ContainerRenamed, P!Bind,
              P!GiveUp, P!Release, P!ContainerStarts, P!Change, P!Missed, ports
<1>u. unrelayed' \in BOOLEAN
  BY <1>0, ZenonT(30) DEF AgentTypes, P!Next, P!DockerUp, P!DockerDown, P!Watcher, P!Ping,
     P!Ps, P!Inspect, P!OpenStream,
              P!ReadStream, P!WatchRest, P!Serve, P!Greet, P!GreetPorts, P!Register, P!AcceptRest, P!Connect,
              P!Service, P!Attach, P!Started, P!EventLoop, P!ServiceDies, P!ContainerStops,
              P!ContainerRenamed, P!Bind, P!GiveUp, P!Release, P!ContainerStarts, P!Change, ports
<1>a. accept' \in {"no", "hello", "ports", "push", "in"}
  BY <1>0, ZenonT(30) DEF AgentTypes, P!Next, P!DockerUp, P!DockerDown, P!Watcher, P!Ping,
     P!Ps, P!Inspect, P!OpenStream,
              P!ReadStream, P!WatchRest, P!Serve, P!Greet, P!GreetPorts, P!Register, P!Connect, P!Service,
              P!Attach, P!Started, P!EventLoop, P!ServiceRest, P!ServiceDies, P!ContainerStops,
              P!ContainerRenamed, P!Bind, P!GiveUp, P!Release, P!ContainerStarts, P!Change, ports
<1>w. watch' \in Watching
  <2>1. CASE P!Ps
    <3>1. \/ watch' = [watch EXCEPT !.pc = "inspect", !.ids = docker.ports]
          \/ watch' = [watch EXCEPT !.pc = watch.then]
      BY <2>1, Zenon DEF P!Ps
    <3> QED
      BY <1>0, <3>1, ZenonT(30) DEF AgentTypes, Watching
  <2>2. CASE P!Inspect
    BY <1>0, <2>2, Zenon DEF P!Inspect, AgentTypes, Watching
  <2>3. CASE P!Ping \/ P!OpenStream \/ P!ReadStream
    <3>1. \/ UNCHANGED watch
          \/ watch' = [watch EXCEPT !.pc = "ps", !.then = "open"]
          \/ watch' = [watch EXCEPT !.pc = "ps", !.then = "stream"]
          \/ watch' = [watch EXCEPT !.pc = "stream"]
          \/ watch' = [watch EXCEPT !.pc = "ping"]
      BY <2>3 DEF P!Ping, P!OpenStream, P!ReadStream
    <3> QED
      BY <1>0, <3>1, ZenonT(30) DEF AgentTypes, Watching
  <2>4. CASE ~P!Watcher
    <3>1. UNCHANGED watch
      BY <2>4, Zenon DEF P!Next, P!DockerUp, P!DockerDown, P!Serve, P!Greet, P!GreetPorts,
         P!Register, P!AcceptRest,
                  P!Connect, P!Service, P!Attach, P!Started, P!EventLoop, P!ServiceRest, P!ServiceDies,
                  P!ContainerStops, P!ContainerRenamed, P!Bind, P!GiveUp, P!Release, P!ContainerStarts,
                  P!Change, P!agent, ports
    <3> QED
      BY <1>0, <3>1 DEF AgentTypes
  <2> QED
    BY <2>1, <2>2, <2>3, <2>4 DEF P!Watcher
<1>i. P!Inspected \in P!Bindings
  BY Targets, <1>0 DEF P!Inspected, P!Bindings
<1>h. hub' \in [ports : P!Bindings, ready : BOOLEAN]
  <2>1. CASE P!Inspect
    <3>1. PICK found \in {P!Inspected, P!Nothing} : hub' = [hub EXCEPT !.ports = found]
      BY <2>1 DEF P!Inspect
    <3> QED
      BY <1>0, <1>i, <3>1 DEF AgentTypes
  <2>2. CASE P!DockerUp \/ P!DockerDown
    BY <1>0, <2>2, Zenon DEF P!DockerUp, P!DockerDown, AgentTypes
  <2>3. CASE ~P!Inspect /\ ~P!DockerUp /\ ~P!DockerDown
    <3>1. UNCHANGED hub
      BY <2>3, Zenon DEF P!Next, P!Watcher, P!Ping, P!Ps, P!OpenStream, P!ReadStream,
         P!Serve, P!Greet, P!GreetPorts,
                  P!Register, P!AcceptRest, P!Connect, P!Service, P!Attach, P!Started, P!EventLoop,
                  P!ServiceRest, P!ServiceDies, P!ContainerStops, P!ContainerRenamed, P!Bind, P!GiveUp,
                  P!Release, P!ContainerStarts, P!Change, P!agent, ports
    <3> QED
      BY <1>0, <3>1 DEF AgentTypes
  <2> QED
    BY <2>1, <2>2, <2>3
<1>s. sock' \in Seq(PortEvent)
  <2>1. CASE P!Inspect
    <3>1. PICK found \in {P!Inspected, P!Nothing} :
              IF found # hub.ports THEN P!Broadcast("ports", found) ELSE UNCHANGED sock
      BY <2>1 DEF P!Inspect
    <3> QED
      BY <1>0, <1>i, <3>1, BroadcastType
  <2>2. CASE P!DockerUp \/ P!DockerDown
    <3>1. P!Broadcast("ready", P!Nothing) \/ P!Broadcast("down", P!Nothing)
      BY <2>2 DEF P!DockerUp, P!DockerDown
    <3> QED
      BY <1>0, <3>1, BroadcastType
  <2>3. CASE P!Greet
    <3>1. UNCHANGED sock \/ sock' = Append(sock, P!Event("ready", P!Nothing))
      BY <2>3 DEF P!Greet
    <3> QED
      BY <1>0, <3>1, EventType, Events
  <2>4. CASE P!GreetPorts
    BY <1>0, <2>4, EventType, Events DEF P!GreetPorts
  <2>5. CASE P!Connect \/ P!ServiceDies
    <3>1. sock' = <<>>
      BY <2>5 DEF P!Connect, P!ServiceDies
    <3> QED
      BY <3>1
  <2>6. CASE P!Attach \/ P!EventLoop
    BY <1>0, <2>6, Events, Zenon DEF P!Attach, P!EventLoop
  <2>7. CASE \/ P!Ping \/ P!Ps \/ P!OpenStream \/ P!ReadStream \/ P!Register \/ P!Started \/ UNCHANGED ports
             \/ \E p \in HostPort : \/ P!ContainerStops(p) \/ P!ContainerRenamed(p)
                                    \/ P!Bind(p) \/ P!GiveUp(p) \/ P!Release(p)
                                    \/ \E ip \in Ip : P!ContainerStarts(p, ip)
    <3>1. UNCHANGED sock
      BY <2>7, Zenon DEF P!Ping, P!Ps, P!OpenStream, P!ReadStream, P!Register, P!Started,
         P!ContainerStops,
                  P!ContainerRenamed, P!ContainerStarts, P!Change, P!Bind, P!GiveUp, P!Release, ports
    <3> QED
      BY <1>0, <3>1
  <2> QED
    BY <2>1, <2>2, <2>3, <2>4, <2>5, <2>6, <2>7 DEF P!Next, P!Watcher, P!Serve, P!Service
<1> QED
  BY <1>m, <1>u, <1>a, <1>w, <1>h, <1>s DEF AgentTypes

(* The host listens for what the last list it has read announces.          *)
LEMMA RelaysStep ==
    ASSUME PortTypes, Listening, [P!Next]_ports PROVE RelayTypes' /\ Listening'
<1>0. /\ RelayTypes /\ P!Nothing \in P!Bindings /\ sock \in Seq(PortEvent)
      /\ P!NoTarget.id = 0 /\ initial \in P!Bindings
  BY Targets DEF PortTypes, AgentTypes, RelayTypes
<1>1. CASE P!Attach
  <2>1. Head(sock) \in PortEvent
    BY <1>0, <1>1, Events DEF P!Attach
  <2>2. CASE Head(sock).event = "ports"
    <3>1. initial' = Head(sock).ports /\ UNCHANGED <<service, snapshot, P!relays, unrelayed>>
      BY <1>1, <2>2, Zenon DEF P!Attach
    <3>2. Head(sock).ports \in P!Bindings
      BY <2>1 DEF PortEvent
    <3> QED
      BY <1>0, <3>1, <3>2 DEF RelayTypes, Listening, Follows, P!relays
  <2>3. CASE Head(sock).event = "down"
    <3>1. UNCHANGED <<service, initial, snapshot, P!relays, unrelayed>>
      BY <1>1, <2>3, Zenon DEF P!Attach
    <3> QED
      BY <1>0, <3>1 DEF RelayTypes, Listening, Follows, P!relays
  <2>4. CASE Head(sock).event = "ready"
    <3>1. /\ service' = "loop" /\ snapshot' = initial /\ P!Apply(initial) /\ initial' = P!Nothing
      BY <1>1, <2>4, Zenon DEF P!Attach
    <3> QED
      BY <1>0, <3>1, ApplyFollows DEF RelayTypes, Listening, Follows
  <2> QED
    BY <2>1, <2>2, <2>3, <2>4 DEF PortEvent
<1>2. CASE P!EventLoop
  <2>1. Head(sock) \in PortEvent /\ UNCHANGED <<service, initial>>
    BY <1>0, <1>2, Events DEF P!EventLoop
  <2>2. CASE Head(sock).event # "ports"
    <3>1. UNCHANGED <<snapshot, P!relays, unrelayed>>
      BY <1>2, <2>2 DEF P!EventLoop
    <3> QED
      BY <1>0, <2>1, <3>1 DEF RelayTypes, Listening, Follows, P!relays
  <2>3. CASE Head(sock).event = "ports" /\ service = "running"
    <3>1. snapshot' = Head(sock).ports /\ P!Apply(Head(sock).ports)
      BY <1>2, <2>3 DEF P!EventLoop
    <3>2. Head(sock).ports \in P!Bindings
      BY <2>1 DEF PortEvent
    <3> QED
      BY <1>0, <2>1, <3>1, <3>2, ApplyFollows DEF RelayTypes, Listening, Follows
  <2>4. CASE Head(sock).event = "ports" /\ service # "running"
    <3>1. snapshot' = Head(sock).ports /\ UNCHANGED P!relays /\ unrelayed'
      BY <1>2, <2>4, Zenon DEF P!EventLoop
    <3>2. Head(sock).ports \in P!Bindings
      BY <2>1 DEF PortEvent
    <3> QED
      BY <1>0, <2>1, <3>1, <3>2 DEF RelayTypes, Listening, P!relays
  <2> QED
    BY <2>2, <2>3, <2>4
<1>3. ASSUME NEW p \in HostPort, P!Bind(p) \/ P!GiveUp(p) PROVE RelayTypes' /\ Listening'
  <2>1. /\ socket[p] = "trying" /\ UNCHANGED <<service, initial, snapshot, active, held, unrelayed>>
        /\ socket' = [socket EXCEPT ![p] = "open"] \/ socket' = [socket EXCEPT ![p] = "gaveUp"]
    BY <1>3, ZenonT(30) DEF P!Bind, P!GiveUp
  <2>2. socket' \in [HostPort -> {"none", "trying", "open", "gaveUp"}]
    BY <1>0, <2>1 DEF RelayTypes
  <2>3. \A q \in HostPort : socket'[q] # "none" => socket[q] # "none"
    BY <1>0, <2>1 DEF RelayTypes
  <2> QED
    BY <1>0, <2>1, <2>2, <2>3 DEF RelayTypes, Listening, Follows
<1>4. ASSUME NEW p \in HostPort, P!Release(p) PROVE RelayTypes' /\ Listening'
  BY <1>0, <1>4 DEF P!Release, RelayTypes, Listening, Follows
<1>5. CASE P!ServiceDies
  <2>1. /\ service' = "off" /\ initial' = P!Nothing /\ snapshot' = P!Nothing /\ active' = P!Nothing
        /\ socket' = [p \in HostPort |-> "none"] /\ held' = {}
    BY <1>5 DEF P!ServiceDies
  <2>2. \A p \in HostPort : socket'[p] = "none"
    BY <2>1
  <2> QED
    BY <1>0, <2>1, <2>2 DEF RelayTypes, Listening
<1>6. CASE P!Connect
  <2>1. service' = "attach" /\ initial' = P!Nothing /\ UNCHANGED <<snapshot, P!relays>>
    BY <1>6 DEF P!Connect
  <2> QED
    BY <1>0, <2>1 DEF RelayTypes, Listening, P!relays
<1>7. CASE P!Started
  BY <1>0, <1>7 DEF P!Started, RelayTypes, Listening, Follows, P!relays
<1>8. CASE \/ P!DockerUp \/ P!DockerDown \/ P!Watcher \/ P!Serve \/ UNCHANGED ports
           \/ \E p \in HostPort : \/ P!ContainerStops(p) \/ P!ContainerRenamed(p)
                                  \/ \E ip \in Ip : P!ContainerStarts(p, ip)
  <2> DEFINE Same == UNCHANGED <<service, initial, snapshot, P!relays, unrelayed>>
  <2>1. P!DockerUp \/ P!DockerDown => Same
    BY Zenon DEF P!DockerUp, P!DockerDown
  <2>2. P!WatchRest \/ P!AcceptRest => Same
    BY Zenon DEF P!WatchRest, P!AcceptRest
  <2>3. P!Watcher => Same
    BY <2>2, Zenon DEF P!Watcher, P!Ping, P!Ps, P!Inspect, P!OpenStream, P!ReadStream
  <2>4. P!Serve => Same
    BY <2>2, Zenon DEF P!Serve, P!Greet, P!GreetPorts, P!Register
  <2>5. ASSUME NEW p, NEW t, P!Change(p, t) PROVE Same
    BY <2>5, Zenon DEF P!Change
  <2>6. \A p \in HostPort : P!ContainerStops(p) \/ P!ContainerRenamed(p) \/ (\E ip \in Ip : P!ContainerStarts(p, ip)) => Same
    BY <2>5, Zenon DEF P!ContainerStops, P!ContainerRenamed, P!ContainerStarts
  <2>7. UNCHANGED ports => Same
    BY Zenon DEF ports, P!relays
  <2>8. Same
    BY <1>8, <2>1, <2>3, <2>4, <2>6, <2>7, Zenon
  <2> QED
    BY <1>0, <2>8 DEF RelayTypes, Listening, Follows, P!relays
<1> QED
  BY <1>1, <1>2, <1>3, <1>4, <1>5, <1>6, <1>7, <1>8 DEF P!Next, P!Service

(* The invariant of the ports is inductive.                                *)
LEMMA PortsStep == ASSUME PortsInv, [P!Next]_ports PROVE PortsInv'
  BY DockerTypesStep, AgentTypesStep, RelaysStep DEF PortsInv, PortTypes

(* Before the agent and the service start.                                 *)
LEMMA PortsInit == ASSUME P!Init PROVE PortsInv
<1>1. P!Nothing \in P!Bindings
  BY Targets
<1>2. DockerTypes
  BY <1>1, PortsAssumption DEF P!Init, DockerTypes
<1>3. AgentTypes
  <2>1. watch \in Watching /\ hub \in [ports : P!Bindings, ready : BOOLEAN]
    BY <1>1 DEF P!Init, Watching
  <2>2. sock \in Seq(PortEvent)
    BY DEF P!Init
  <2> QED
    BY <2>1, <2>2, Zenon DEF P!Init, AgentTypes
<1>4. RelayTypes /\ Listening
  BY <1>1 DEF P!Init, RelayTypes, Listening
<1> QED
  BY <1>2, <1>3, <1>4 DEF PortsInv, PortTypes

(* What the invariant says of the listeners.                               *)
LEMMA PortsSound ==
    ASSUME PortsInv
    PROVE  P!TypeOK /\ P!AnnouncedRelayedLater /\ P!RelayTargetsCurrent
<1>1. P!TypeOK
  <2>1. stream \in 0..P!Closed
    BY PortsAssumption DEF PortsInv, PortTypes, DockerTypes, P!Closed
  <2>2. \A i \in DOMAIN sock : sock[i].event \in {"ready", "down", "ports"}
    <3>1. \A i \in DOMAIN sock : sock[i] \in PortEvent
      BY DEF PortsInv, PortTypes, AgentTypes
    <3> QED
      BY <3>1 DEF PortEvent
  <2> QED
    BY <2>1, <2>2, Zenon
       DEF PortsInv, PortTypes, DockerTypes, AgentTypes, RelayTypes, Watching, P!TypeOK
<1>2. service = "running" /\ ~unrelayed =>
          \A p \in HostPort : /\ active[p].id = 0 <=> snapshot[p].id = 0
                              /\ active[p].id # 0 => active[p].ip = snapshot[p].ip
                              /\ socket[p] # "none" => active[p].id # 0
  BY Zenon DEF PortsInv, Listening, Follows
<1>3. P!AnnouncedRelayedLater
  BY <1>2, Zenon DEF P!AnnouncedRelayedLater, P!AnnouncedRelayed
<1>4. P!RelayTargetsCurrent
  BY <1>2 DEF P!RelayTargetsCurrent
<1> QED
  BY <1>1, <1>3, <1>4

-----------------------------------------------------------------------------
State == 0..MaxStates
Setting == [pc : {"idle", "read", "send"}, snap : State]

(* TypeOK, with the sets that sequences are made of named; a line that was *)
(* taken and not answered yet is still owed its answer.                    *)
ControlTypes ==
    /\ state \in State /\ newest \in State /\ shown \in State /\ current \in State
    /\ set \in [Setter -> Setting] /\ rx \in Seq(State) /\ lines \in Seq(C!Line)
    /\ free \in BOOLEAN /\ caller \in {"out", "busy", "in", "gaveUp"}
    /\ handler \in {"none", "read", "answer", "left"}
    /\ task \in {"none", "rx", "initial", "stream"}
    /\ crossed \in BOOLEAN
ControlQueues ==
    /\ Len(rx) <= Channel /\ asked \in 0..MaxLines /\ answered \in Nat
    /\ answered + Len(lines) + (IF handler = "answer" THEN 1 ELSE 0) <= asked

(* Every snapshot is of a state that was, and the state of now was sent or *)
(* somebody is about to.                                                   *)
Announcing ==
    /\ newest <= state /\ current <= state
    /\ \A s \in Setter : set[s].pc = "send" => set[s].snap <= state
    /\ \/ newest = state
       \/ \E s \in Setter : \/ set[s].pc = "read"
                            \/ set[s].pc = "send" /\ set[s].snap = state

(* What a subscriber has read or will read last is the newest snapshot,    *)
(* unless the last two were sent in the opposite order.                    *)
Newest ==
    /\ task = "none" => rx = <<>>
    /\ rx # <<>> /\ ~crossed => rx[Len(rx)] = newest
    /\ task = "initial" /\ rx = <<>> => newest <= current
    /\ task = "stream" /\ rx = <<>> /\ ~crossed => newest <= shown /\ shown <= state

ControlInv == ControlTypes /\ ControlQueues /\ Announcing /\ Newest

(* A queue, when something joins it and when its head leaves.              *)
LEMMA Channels ==
    ASSUME NEW T, NEW q \in Seq(T)
    PROVE  /\ \A x \in T : /\ Append(q, x) \in Seq(T) /\ Len(Append(q, x)) = Len(q) + 1
                           /\ Append(q, x)[Len(q) + 1] = x
           /\ q # <<>> => /\ Tail(q) \in Seq(T) /\ Len(Tail(q)) = Len(q) - 1
                          /\ Len(q) \in Nat \ {0} /\ Head(q) \in T /\ Head(q) = q[1]
                          /\ \A k \in 1..Len(Tail(q)) : Tail(q)[k] = q[k + 1]
           /\ \A k \in 1..Len(q) : q[k] \in T
  OBVIOUS
(* Only the empty channel has length zero.                                 *)
LEMMA EmptyChannel ==
    ASSUME NEW T, NEW q \in Seq(T) PROVE Len(q) \in Nat /\ (q = <<>> <=> Len(q) = 0)
  OBVIOUS

(* Every step keeps the types.                                             *)
LEMMA ControlTypesStep == ASSUME ControlTypes, [C!Next]_control PROVE ControlTypes'
<1> USE ControlAssumption
<1>1. ASSUME NEW s \in Setter, C!Modify(s) PROVE ControlTypes'
  <2>1. state' \in State
    BY <1>1 DEF C!Modify, ControlTypes, State
  <2>2. set' \in [Setter -> Setting]
    BY <1>1 DEF C!Modify, ControlTypes, Setting
  <2> QED
    BY <1>1, <2>1, <2>2 DEF C!Modify, ControlTypes, C!SetRest, C!pipe
<1>2. ASSUME NEW s \in Setter, C!Snapshot(s) PROVE ControlTypes'
  <2>1. set' \in [Setter -> Setting]
    BY <1>2 DEF C!Snapshot, ControlTypes, Setting
  <2> QED
    BY <1>2, <2>1 DEF C!Snapshot, ControlTypes, C!SetRest, C!pipe
<1>3. ASSUME NEW s \in Setter, C!SendState(s) PROVE ControlTypes'
  <2>1. set' \in [Setter -> Setting] /\ set[s].snap \in State
    BY <1>3 DEF C!SendState, ControlTypes, Setting, C!Idle, State
  <2>2. newest' \in State /\ crossed' \in BOOLEAN
    BY <1>3, <2>1 DEF C!SendState, ControlTypes
  <2>3. rx' \in Seq(State)
    <3>1. rx \in Seq(State)
      BY DEF ControlTypes
    <3>2. CASE task = "none"
      BY <1>3, <3>1, <3>2 DEF C!SendState
    <3>3. CASE task # "none" /\ Len(rx) = Channel
      <4>1. Tail(rx) \in Seq(State)
        BY <3>1, <3>3, Channels, EmptyChannel
      <4> QED
        BY <1>3, <3>3, <4>1, <2>1, Channels, SMTT(30) DEF C!SendState
    <3>4. CASE task # "none" /\ Len(rx) # Channel
      BY <1>3, <3>1, <3>4, <2>1, Channels DEF C!SendState
    <3> QED
      BY <3>2, <3>3, <3>4
  <2> QED
    BY <1>3, <2>1, <2>2, <2>3 DEF C!SendState, ControlTypes, C!SetRest, C!pipe
<1>4. CASE C!Open \/ C!GiveUp \/ C!NewInstance
  BY <1>4, Zenon DEF C!Open, C!GiveUp, C!NewInstance, C!PipeRest, ControlTypes, C!engine
<1>5. ASSUME NEW l \in C!Line, C!Write(l) PROVE ControlTypes'
  BY <1>5 DEF C!Write, C!PipeRest, ControlTypes, C!engine, C!pipe
<1>6. CASE C!ReadLine
  BY <1>6 DEF C!ReadLine, C!HandleRest, ControlTypes, C!engine, C!pipe
<1>7. CASE C!ReadInitial \/ C!Answer
  BY <1>7 DEF C!ReadInitial, C!Answer, C!HandleRest, ControlTypes, C!engine, C!pipe
<1>8. CASE C!Hangup
  BY <1>8 DEF C!Hangup, ControlTypes, State, C!engine
<1>9. CASE C!SendInitial
  BY <1>9 DEF C!SendInitial, C!TaskRest, ControlTypes, C!engine, C!pipe
<1>10. CASE C!SendEvent
  BY <1>10 DEF C!SendEvent, C!TaskRest, ControlTypes, C!engine, C!pipe
<1>11. CASE UNCHANGED control
  BY <1>11 DEF control, ControlTypes, C!engine, C!pipe
<1> QED
  BY <1>1, <1>2, <1>3, <1>4, <1>5, <1>6, <1>7, <1>8, <1>9, <1>10, <1>11
     DEF C!Next, C!Handle, C!Subscription

(* Every step keeps the bounds of the channel and of the lines.            *)
LEMMA ControlQueuesStep ==
    ASSUME ControlTypes, ControlQueues, [C!Next]_control PROVE ControlQueues'
<1> USE ControlAssumption
<1>0. /\ rx \in Seq(State) /\ lines \in Seq(C!Line) /\ Len(rx) \in Nat /\ Len(lines) \in Nat
      /\ asked \in Nat /\ answered \in Nat
  BY EmptyChannel DEF ControlTypes, ControlQueues
<1>1. ASSUME NEW s \in Setter, C!SendState(s) PROVE ControlQueues'
  <2>1. set[s].snap \in State
    BY DEF ControlTypes, Setting
  <2>2. Len(rx') <= Channel
    <3>1. CASE task = "none"
      BY <1>1, <3>1 DEF C!SendState, ControlQueues
    <3>2. CASE task # "none" /\ Len(rx) = Channel
      <4>1. Tail(rx) \in Seq(State) /\ Len(Tail(rx)) = Len(rx) - 1
        BY <1>0, <3>2, Channels, EmptyChannel
      <4>2. Len(rx') = Len(Tail(rx)) + 1
        BY <1>1, <2>1, <3>2, <4>1, Channels DEF C!SendState
      <4> QED
        BY <1>0, <3>2, <4>1, <4>2
    <3>3. CASE task # "none" /\ Len(rx) # Channel
      <4>1. Len(rx') = Len(rx) + 1
        BY <1>0, <1>1, <2>1, <3>3, Channels DEF C!SendState
      <4> QED
        BY <1>0, <3>3, <4>1 DEF ControlQueues
    <3> QED
      BY <3>1, <3>2, <3>3
  <2> QED
    BY <1>1, <2>2 DEF C!SendState, C!SetRest, ControlQueues
<1>2. CASE \/ \E s \in Setter : C!Modify(s) \/ C!Snapshot(s)
           \/ C!GiveUp \/ C!NewInstance \/ C!ReadInitial \/ C!SendInitial \/ UNCHANGED control
  BY <1>2 DEF C!Modify, C!Snapshot, C!SetRest, C!GiveUp, C!NewInstance, C!PipeRest, C!ReadInitial,
              C!HandleRest, C!SendInitial, C!TaskRest, ControlQueues, control
<1>3. CASE C!Open
  <2>1. UNCHANGED <<rx, lines, asked, answered>> /\ (handler' = "read" \/ UNCHANGED handler)
    BY <1>3 DEF C!Open, C!PipeRest
  <2> QED
    BY <1>0, <2>1 DEF ControlQueues
<1>4. ASSUME NEW l \in C!Line, C!Write(l) PROVE ControlQueues'
  <2>1. Len(lines') = Len(lines) + 1
    BY <1>0, <1>4, Channels DEF C!Write
  <2>2. asked < MaxLines /\ asked' = asked + 1 /\ UNCHANGED <<rx, answered, handler>>
    BY <1>4 DEF C!Write, C!PipeRest
  <2> QED
    BY <1>0, <2>1, <2>2 DEF ControlQueues
<1>5. CASE C!ReadLine
  <2>1. Len(lines') = Len(lines) - 1 /\ handler = "read"
    BY <1>0, <1>5, Channels DEF C!ReadLine
  <2>2. UNCHANGED <<rx, asked, answered>>
    BY <1>5 DEF C!ReadLine, C!HandleRest
  <2> QED
    BY <1>0, <2>1, <2>2 DEF ControlQueues
<1>6. CASE C!Answer
  <2>1. /\ handler = "answer" /\ handler' = "read" /\ answered' = answered + 1
        /\ UNCHANGED <<lines, rx, asked>>
    BY <1>6 DEF C!Answer, C!HandleRest
  <2> QED
    BY <1>0, <2>1 DEF ControlQueues
<1>7. CASE C!Hangup
  BY <1>7 DEF C!Hangup, ControlQueues
<1>8. CASE C!SendEvent
  <2>1. Len(rx') = Len(rx) - 1 /\ UNCHANGED <<lines, asked, answered, handler>>
    BY <1>0, <1>8, Channels DEF C!SendEvent, C!TaskRest
  <2> QED
    BY <1>0, <2>1 DEF ControlQueues
<1> QED
  BY <1>1, <1>2, <1>3, <1>4, <1>5, <1>6, <1>7, <1>8 DEF C!Next, C!Handle, C!Subscription

(* A state is announced after it is set, and a copy of it is never newer   *)
(* than the state.                                                         *)
LEMMA AnnouncingStep ==
    ASSUME ControlTypes, Announcing, [C!Next]_control PROVE Announcing'
<1>0. /\ state \in Nat /\ newest \in Nat /\ current \in Nat
      /\ \A s \in Setter : set[s].snap \in Nat
  BY DEF ControlTypes, State, Setting
<1>1. ASSUME NEW s \in Setter, C!Modify(s) PROVE Announcing'
  <2>1. /\ state' = state + 1 /\ UNCHANGED <<newest, current>> /\ set'[s].pc = "read"
        /\ \A t \in Setter : set'[t].pc = "send" => set[t].pc = "send" /\ set'[t] = set[t]
    BY <1>1, SMTT(30) DEF C!Modify, C!SetRest, ControlTypes
  <2> QED
    BY <1>0, <2>1 DEF Announcing
<1>2. ASSUME NEW s \in Setter, C!Snapshot(s) PROVE Announcing'
  <2>1. /\ UNCHANGED <<state, newest, current>> /\ set'[s] = [pc |-> "send", snap |-> state]
        /\ \A t \in Setter \ {s} : set'[t] = set[t]
    BY <1>2 DEF C!Snapshot, C!SetRest, ControlTypes
  <2>2. set'[s].pc = "send" /\ set'[s].snap = state'
    BY <2>1, SMTT(30)
  <2>3. state' <= state'
    BY <1>0, <2>1
  <2>4. \A t \in Setter : set'[t].pc = "send" => set'[t].snap <= state'
    BY <2>1, <2>2, <2>3, Zenon DEF Announcing
  <2> QED
    BY <2>1, <2>2, <2>4, Zenon DEF Announcing
<1>3. ASSUME NEW s \in Setter, C!SendState(s) PROVE Announcing'
  <2>1. /\ UNCHANGED <<state, current>> /\ set'[s].pc = "idle" /\ set[s].pc = "send"
        /\ \A t \in Setter \ {s} : set'[t] = set[t]
        /\ newest' = IF set[s].snap > newest THEN set[s].snap ELSE newest
    BY <1>3 DEF C!SendState, C!SetRest, ControlTypes, C!Idle
  <2>2. set[s].snap \in Nat /\ set[s].snap <= state /\ newest <= state
    BY <1>0, <2>1 DEF Announcing
  <2>3. newest' <= state /\ (newest = state \/ set[s].snap = state => newest' = state)
    BY <1>0, <2>1, <2>2
  <2>4. \A t \in Setter : set'[t].pc = "send" => set'[t].snap <= state
    BY <2>1 DEF Announcing
  <2>5. current <= state
    BY DEF Announcing
  <2>6. CASE newest = state
    BY <2>1, <2>3, <2>4, <2>5, <2>6 DEF Announcing
  <2>7. ASSUME NEW t \in Setter, \/ set[t].pc = "read"
                                 \/ set[t].pc = "send" /\ set[t].snap = state
        PROVE Announcing'
    <3>1. CASE t = s
      BY <2>1, <2>3, <2>4, <2>5, <2>7, <3>1, ZenonT(30) DEF Announcing
    <3>2. CASE t # s
      BY <2>1, <2>3, <2>4, <2>5, <2>7, <3>2, ZenonT(30) DEF Announcing
    <3> QED
      BY <3>1, <3>2, ZenonT(30)
  <2> QED
    BY <2>6, <2>7 DEF Announcing
<1>4. CASE C!ReadInitial
  <2>1. UNCHANGED <<state, set, newest>> /\ current' = state
    BY <1>4 DEF C!ReadInitial, C!HandleRest, C!engine
  <2>2. current' <= state'
    BY <1>0, <2>1
  <2> QED
    BY <2>1, <2>2, Zenon DEF Announcing
<1>5. CASE C!Hangup
  BY <1>0, <1>5 DEF C!Hangup, Announcing, C!engine
<1>6. CASE \/ C!Open \/ C!GiveUp \/ C!NewInstance \/ \E l \in C!Line : C!Write(l)
           \/ C!ReadLine \/ C!Answer \/ C!SendInitial \/ C!SendEvent \/ UNCHANGED control
  <2>1. UNCHANGED <<C!engine, current>>
    BY <1>6 DEF C!Open, C!GiveUp, C!NewInstance, C!Write, C!PipeRest, C!ReadLine, C!Answer,
       C!HandleRest,
                C!SendInitial, C!SendEvent, C!TaskRest, C!engine, control
  <2> QED
    BY <2>1, SMTT(30) DEF Announcing, C!engine
<1> QED
  BY <1>1, <1>2, <1>3, <1>4, <1>5, <1>6 DEF C!Next, C!Handle, C!Subscription

(* The last state that was sent is on its way to the subscriber, or is     *)
(* shown.                                                                  *)
LEMMA NewestStep ==
    ASSUME ControlInv, [C!Next]_control PROVE Newest'
<1>0. /\ state \in Nat /\ newest \in Nat /\ current \in Nat /\ shown \in Nat /\ rx \in Seq(State)
      /\ \A s \in Setter : set[s].snap \in State /\ set[s].snap \in Nat
      /\ newest <= state /\ current <= state /\ crossed \in BOOLEAN
  BY DEF ControlInv, ControlTypes, State, Setting, Announcing
<1>n. Newest
  BY DEF ControlInv
<1>1. ASSUME NEW s \in Setter, C!Modify(s) PROVE Newest'
  <2>1. state' = state + 1 /\ UNCHANGED <<newest, task, rx, current, shown, crossed>>
    BY <1>1 DEF C!Modify, C!SetRest
  <2> QED
    BY <1>0, <1>n, <2>1 DEF Newest
<1>2. ASSUME NEW s \in Setter, C!SendState(s) PROVE Newest'
  <2>1. /\ UNCHANGED <<state, task, current, shown>> /\ crossed' = (set[s].snap < newest)
        /\ newest' = IF set[s].snap > newest THEN set[s].snap ELSE newest
    BY <1>2 DEF C!SendState, C!SetRest
  <2>2. CASE task = "none"
    <3>1. rx = <<>> /\ rx' = <<>>
      BY <1>2, <1>n, <2>2, SMTT(30) DEF C!SendState, Newest
    <3> QED
      BY <2>1, <2>2, <3>1 DEF Newest
  <2>3. CASE task # "none"
    <3> DEFINE q == IF Len(rx) = Channel THEN Tail(rx) ELSE rx
    <3>1. q \in Seq(State)
      BY <1>0, Channels, EmptyChannel, ControlAssumption
    <3>2. rx' = Append(q, set[s].snap)
      BY <1>2, <2>3, SMTT(30) DEF C!SendState
    <3> HIDE DEF q
    <3>3. rx' \in Seq(State) /\ Len(rx') = Len(q) + 1 /\ rx'[Len(q) + 1] = set[s].snap
      BY <1>0, <3>1, <3>2, Channels
    <3>4. rx' # <<>> /\ rx'[Len(rx')] = set[s].snap
      BY <3>1, <3>3, EmptyChannel
    <3>5. ~crossed' => set[s].snap = newest'
      <4>1. set[s].snap < newest \/ set[s].snap = newest'
        BY <1>0, <2>1
      <4> QED
        BY <2>1, <4>1, ZenonT(30)
    <3> QED
      BY <2>1, <2>3, <3>4, <3>5, SMTT(30) DEF Newest
  <2> QED
    BY <2>2, <2>3
<1>3. CASE C!ReadLine
  <2>1. /\ UNCHANGED <<newest, state, rx, current, shown, crossed>>
        /\ task' = task \/ (task = "none" /\ task' = "rx")
    BY <1>3 DEF C!ReadLine, C!HandleRest, C!engine
  <2> QED
    BY <1>n, <2>1 DEF Newest
<1>4. CASE C!ReadInitial
  <2>1. /\ UNCHANGED <<newest, state, rx, shown, crossed>>
        /\ task' = "initial" /\ current' = state
    BY <1>4 DEF C!ReadInitial, C!HandleRest, C!engine
  <2> QED
    BY <1>0, <1>n, <2>1 DEF Newest
<1>5. CASE C!Hangup
  BY <1>5 DEF C!Hangup, Newest
<1>6. CASE C!SendInitial
  <2>1. /\ UNCHANGED <<newest, state, rx, current, crossed>>
        /\ task = "initial" /\ task' = "stream" /\ shown' = current
    BY <1>6 DEF C!SendInitial, C!TaskRest, C!engine
  <2> QED
    BY <1>0, <1>n, <2>1 DEF Newest
<1>7. CASE C!SendEvent
  <2>1. /\ UNCHANGED <<newest, state, task, current, crossed>>
        /\ task = "stream" /\ rx # <<>> /\ rx' = Tail(rx) /\ shown' = Head(rx)
    BY <1>7, SMTT(30) DEF C!SendEvent, C!TaskRest, C!engine
  <2>2. /\ rx' \in Seq(State) /\ Len(rx') = Len(rx) - 1 /\ Len(rx) \in Nat \ {0}
        /\ Head(rx) = rx[1] /\ \A k \in 1..Len(rx') : rx'[k] = rx[k + 1]
    BY <1>0, <2>1, Channels
  <2>3. rx' # <<>> => rx'[Len(rx')] = rx[Len(rx)]
    <3>1. rx' # <<>> => Len(rx') \in 1..Len(rx')
      BY <2>2, EmptyChannel
    <3> QED
      BY <2>2, <3>1
  <2>4. rx' = <<>> => shown' = rx[Len(rx)]
    <3>1. rx' = <<>> => Len(rx') = 0
      BY <2>2, EmptyChannel, Zenon
    <3>2. Len(rx') = 0 => Len(rx) = 1
      BY <2>2
    <3> QED
      BY <2>1, <2>2, <3>1, <3>2, Zenon
  <2> QED
    BY <1>0, <1>n, <2>1, <2>3, <2>4 DEF Newest
<1>8. CASE \/ \E s \in Setter : C!Snapshot(s)
           \/ C!Open \/ C!GiveUp \/ C!NewInstance \/ \E l \in C!Line : C!Write(l)
           \/ C!Answer \/ UNCHANGED control
  <2>1. UNCHANGED <<newest, state, task, rx, current, shown, crossed>>
    BY <1>8, Zenon DEF C!Snapshot, C!SetRest, C!Open, C!GiveUp, C!NewInstance, C!Write,
       C!PipeRest, C!Answer,
                C!HandleRest, control, C!engine
  <2> QED
    BY <1>n, <2>1 DEF Newest
<1> QED
  BY <1>1, <1>2, <1>3, <1>4, <1>5, <1>6, <1>7, <1>8 DEF C!Next, C!Handle, C!Subscription

(* The invariant of the control server is inductive.                       *)
LEMMA ControlStep == ASSUME ControlInv, [C!Next]_control PROVE ControlInv'
  BY ControlTypesStep, ControlQueuesStep, AnnouncingStep, NewestStep DEF ControlInv

(* A service that nobody has asked anything.                               *)
LEMMA ControlInit == ASSUME C!Init PROVE ControlInv
<1>1. ControlTypes
  <2>1. 0 \in State
    BY ControlAssumption DEF State
  <2>2. set \in [Setter -> Setting]
    BY <2>1 DEF C!Init, Setting, C!Idle
  <2>3. rx \in Seq(State) /\ lines \in Seq(C!Line)
    BY DEF C!Init
  <2> QED
    BY <2>1, <2>2, <2>3, Zenon DEF C!Init, ControlTypes
<1>2. ControlQueues
  BY ControlAssumption DEF C!Init, ControlQueues
<1>3. Announcing
  BY DEF C!Init, Announcing, C!Idle
<1>4. Newest
  BY DEF C!Init, Newest
<1> QED
  BY <1>1, <1>2, <1>3, <1>4 DEF ControlInv

(* What the invariant says of the state that a subscriber shows.           *)
LEMMA ControlSound == ASSUME ControlInv PROVE C!TypeOK /\ C!ShowsStateElse
<1>1. C!TypeOK
  <2>1. Len(lines) \in Nat
    BY EmptyChannel DEF ControlInv, ControlTypes
  <2>2. answered <= asked /\ asked <= MaxLines
    BY <2>1, ControlAssumption DEF ControlInv, ControlQueues
  <2>3. Len(rx) <= Channel
    BY DEF ControlInv, ControlQueues
  <2> QED
    BY <2>2, <2>3 DEF ControlInv, ControlTypes, C!TypeOK, State, Setting
<1>2. ASSUME ~crossed, task = "stream", C!Still PROVE shown = state
  <2>1. newest <= shown /\ shown <= state
    BY <1>2 DEF ControlInv, Newest, C!Still
  <2>2. \A s \in Setter : set[s].pc = "idle"
    <3>1. \A s \in Setter : set[s] = C!Idle
      BY <1>2 DEF C!Still
    <3>2. C!Idle.pc = "idle"
      BY DEF C!Idle
    <3> QED
      BY <3>1, <3>2
  <2>3. newest = state
    BY <2>2 DEF ControlInv, Announcing
  <2>4. newest \in Nat /\ shown \in Nat /\ state \in Nat
    BY DEF ControlInv, ControlTypes, State
  <2> QED
    BY <2>1, <2>3, <2>4
<1> QED
  BY <1>1, <1>2 DEF C!ShowsStateElse, C!ShowsState

-----------------------------------------------------------------------------
LocalName == {N!Sanitize(c) : c \in Container}
Steps == {"free", "read", "open", "write"}
Hosts == [lines : SUBSET UserLine, names : SUBSET LocalName]
HostsTypes ==
    /\ job \in [Job -> [at : Steps, names : SUBSET LocalName, lines : SUBSET UserLine]]
    /\ file \in Hosts /\ mine \in SUBSET UserLine
    /\ mixed \in BOOLEAN /\ harmed \in BOOLEAN

(* The names of a table are those of containers.                           *)
LEMMA TableNames ==
    ASSUME NEW s \in UNION {[1..n -> Container] : n \in 0..2}
    PROVE  DOMAIN N!DomainsFor(s) \subseteq LocalName
  BY SMTT(30) DEF N!DomainsFor, LocalName

(* A thread that is started has its types.                                 *)
LEMMA SpawnTypes ==
    ASSUME HostsTypes, NEW j \in Job, NEW t, N!Spawn(j, t), DOMAIN t \subseteq LocalName
    PROVE  /\ job' \in [Job -> [at : Steps, names : SUBSET LocalName, lines : SUBSET UserLine]]
           /\ mixed' \in BOOLEAN
  BY DEF HostsTypes, N!Spawn, Steps, N!Working

(* One step keeps the file and the threads in their types.                 *)
LEMMA HostsTypeStep == HostsTypes /\ [N!Next]_domains => HostsTypes'
<1> SUFFICES ASSUME HostsTypes, [N!Next]_domains PROVE HostsTypes'
  OBVIOUS
<1>1. ASSUME NEW j \in Job, N!ReadHosts(j) PROVE HostsTypes'
  <2>1. CASE job' = [job EXCEPT ![j].at = "open", ![j].lines = file.lines]
    BY <1>1, <2>1, ZenonT(30) DEF HostsTypes, N!ReadHosts, Steps, Hosts
  <2>2. CASE N!Ends(j)
    BY <1>1, <2>2, Zenon DEF HostsTypes, N!ReadHosts, N!Ends, N!NoJob, Steps
  <2> QED
    BY <1>1, <2>1, <2>2 DEF N!ReadHosts, N!HostsWithoutBlock
<1>2. ASSUME NEW j \in Job, N!Open(j) PROVE HostsTypes'
  <2>0. file' \in Hosts /\ UNCHANGED <<mine, harmed>> /\ mixed' \in BOOLEAN
    <3>1. [lines |-> {}, names |-> {}] \in Hosts
      BY DEF Hosts
    <3>2. file \in Hosts /\ mixed \in BOOLEAN
      BY DEF HostsTypes
    <3> QED
      BY <1>2, <3>1, <3>2, Zenon DEF N!Open
  <2>1. CASE job' = [job EXCEPT ![j].at = "write"]
    BY <2>0, <2>1, SMTT(30) DEF HostsTypes, Steps
  <2>2. CASE N!Ends(j)
    BY <2>0, <2>2, ZenonT(30) DEF HostsTypes, N!Ends, N!NoJob, Steps
  <2> QED
    BY <1>2, <2>1, <2>2 DEF N!Open
<1>3. ASSUME NEW j \in Job, N!Write(j) PROVE HostsTypes'
  BY <1>3 DEF HostsTypes, N!Write, N!Ends, N!NoJob, Steps, Hosts
<1>4. CASE N!UserEdits
  <2>1. PICK l \in UserLine :
            LET Edited(S) == IF l \in S THEN S \ {l} ELSE S \cup {l}
            IN file' = [file EXCEPT !.lines = Edited(@)] /\ mine' = Edited(mine)
    BY <1>4, Zenon DEF N!UserEdits
  <2>2. file' \in Hosts /\ mine' \in SUBSET UserLine
    BY <2>1 DEF HostsTypes, Hosts
  <2> QED
    BY <1>4, <2>2 DEF HostsTypes, N!UserEdits
<1>5. CASE N!OpSpawns
  <2>1. PICK j \in Job : N!Spawn(j, << >>)
    BY <1>5 DEF N!OpSpawns
  <2>2. DOMAIN << >> \subseteq LocalName
    BY SMTT(30)
  <2> QED
    BY <1>5, <2>1, <2>2, SpawnTypes DEF N!OpSpawns, HostsTypes
<1>6. CASE N!Endpoints
  <2>1. PICK s \in UNION {[1..n -> Container] : n \in 0..2}, j \in Job : N!Spawn(j, N!DomainsFor(s))
    BY <1>6, ZenonT(30) DEF N!Endpoints
  <2> QED
    BY <1>6, <2>1, TableNames, SpawnTypes, Zenon DEF N!Endpoints, HostsTypes
<1>7. CASE N!Crash
  BY <1>7 DEF HostsTypes, N!Crash, N!NoJob, Steps
<1>8. CASE N!Start \/ N!Attached \/ N!EnsureRoute \/ N!LoopGoesOn \/ N!Stop \/ N!StopEnds
           \/ N!LoadCa
  BY <1>8, ZenonT(30) DEF HostsTypes, N!Start, N!Attached, N!EnsureRoute, N!LoopGoesOn, N!Stop,
     N!StopEnds, N!LoadCa, N!hosts
<1>9. CASE UNCHANGED domains
  BY <1>9 DEF HostsTypes, domains
<1> QED
  BY <1>1, <1>2, <1>3, <1>4, <1>5, <1>6, <1>7, <1>8, <1>9 DEF N!Next

-----------------------------------------------------------------------------
(* As long as no thread outlived its task and nothing cut or crossed a     *)
(* rewrite: one thread works at a time; the file has the user's lines      *)
(* unless that thread has emptied it, and then the thread has them; the    *)
(* thread has the names of the table, and so has the file once there is no *)
(* thread, from the first update of a start on.                            *)
HostsInv ==
    ~mixed /\ ~harmed =>
        /\ \A j, k \in N!Working : j = k
        /\ (\A j \in Job : job[j].at # "write") => file.lines = mine
        /\ \A j \in Job : job[j].at \in {"open", "write"} => job[j].lines = mine
        /\ \A j \in N!Working : job[j].names = N!Named
        /\ N!Working = {} /\ (loop # "off" \/ op \in Job \/ op = "route") => file.names = N!Named

(* Every step of the names keeps the hosts file as HostsInv says.          *)
LEMMA HostsStep == ASSUME HostsTypes, HostsInv, [N!Next]_domains PROVE HostsInv'
<1> SUFFICES ASSUME ~mixed', ~harmed'
             PROVE  /\ (\A j, k \in N!Working : j = k)'
                    /\ ((\A j \in Job : job[j].at # "write") => file.lines = mine)'
                    /\ (\A j \in Job : job[j].at \in {"open", "write"} => job[j].lines = mine)'
                    /\ (\A j \in N!Working : job[j].names = N!Named)'
                    /\ (N!Working = {} /\ (loop # "off" \/ op \in Job \/ op = "route")
                          => file.names = N!Named)'
  BY Zenon DEF HostsInv
<1> DEFINE Goal ==
        /\ (\A j, k \in N!Working : j = k)'
        /\ ((\A j \in Job : job[j].at # "write") => file.lines = mine)'
        /\ (\A j \in Job : job[j].at \in {"open", "write"} => job[j].lines = mine)'
        /\ (\A j \in N!Working : job[j].names = N!Named)'
        /\ (N!Working = {} /\ (loop # "off" \/ op \in Job \/ op = "route")
              => file.names = N!Named)'
<1>1. ASSUME NEW j \in Job, N!ReadHosts(j) PROVE Goal
  BY <1>1 DEF HostsTypes, HostsInv, N!ReadHosts, N!Ends, N!NoJob, N!HostsWithoutBlock,
     Steps, Hosts, N!Working, N!Named
<1>2. ASSUME NEW j \in Job, N!Open(j) PROVE Goal
  BY <1>2, SMTT(30) DEF HostsTypes, HostsInv, N!Open, N!Ends, N!NoJob, Steps, Hosts,
     N!Working, N!Named
<1>3. ASSUME NEW j \in Job, N!Write(j) PROVE Goal
  BY <1>3, ZenonT(30) DEF HostsTypes, HostsInv, N!Write, N!Ends, N!NoJob, Steps, Hosts,
     N!Working, N!Named
<1>4. CASE N!UserEdits
  <2>1. PICK l \in UserLine :
            LET Edited(S) == IF l \in S THEN S \ {l} ELSE S \cup {l}
            IN file' = [file EXCEPT !.lines = Edited(@)] /\ mine' = Edited(mine)
    BY <1>4, Zenon DEF N!UserEdits
  <2>2. ~harmed /\ \A j \in Job : job[j].at \notin {"open", "write"}
    BY <1>4, Zenon DEF N!UserEdits
  <2>3. UNCHANGED <<mixed, job, table, loop, op>>
    BY <1>4, SMTT(30) DEF N!UserEdits
  <2>4. file.lines = mine
    BY <2>2, <2>3 DEF HostsInv
  <2>5. file'.names = file.names /\ file'.lines = mine'
    BY <2>1, <2>4 DEF HostsTypes, Hosts
  <2> QED
    BY <2>2, <2>3, <2>5 DEF HostsInv, N!Working, N!Named
<1>5. ASSUME NEW j \in Job, NEW t, N!Spawn(j, t), UNCHANGED <<file, mine, harmed>> PROVE Goal
  BY <1>5, ZenonT(30) DEF HostsTypes, HostsInv, N!Spawn, Steps, Hosts, N!Working, N!Named
<1>6. CASE N!OpSpawns \/ N!Endpoints
  BY <1>5, <1>6, ZenonT(30) DEF N!OpSpawns, N!Endpoints
<1>7. CASE N!Crash
  <2>1. \A j \in Job : job'[j].at = "free"
    BY <1>7, ZenonT(30) DEF N!Crash, N!NoJob
  <2>2. loop' = "off" /\ op' = "none" /\ op' \notin Job
    BY <1>7, StartsAssumption, JobAssumption DEF N!Crash
  <2>3. file' = file /\ mine' = mine /\ ~mixed /\ ~harmed /\ \A j \in Job : job[j].at # "write"
    BY <1>7, ZenonT(30) DEF N!Crash
  <2>4. file.lines = mine
    BY <2>3, ZenonT(30) DEF HostsInv
  <2> QED
    BY <2>1, <2>2, <2>3, <2>4, ZenonT(30) DEF N!Working
<1>8. ASSUME UNCHANGED <<table, job, file, mine, mixed, harmed>>,
             loop' # "off" \/ op' \in Job \/ op' = "route" =>
                 loop # "off" \/ op \in Job \/ op = "route"
      PROVE  Goal
  BY <1>8, ZenonT(30) DEF HostsInv, N!Working, N!Named
<1>10. CASE N!Start \/ N!Attached \/ N!EnsureRoute
  BY <1>8, <1>10, StartsAssumption, JobAssumption, Zenon DEF N!Start, N!Attached, N!EnsureRoute
<1>11. CASE N!LoopGoesOn \/ N!Stop \/ N!StopEnds \/ N!LoadCa
  <2>1. loop \in Job => loop # "off"
    BY StartsAssumption, JobAssumption, SMTT(30)
  <2> QED
    BY <1>8, <1>11, <2>1, StartsAssumption, JobAssumption, Zenon DEF N!LoopGoesOn, N!Stop,
       N!StopEnds, N!LoadCa, N!hosts
<1>9. CASE UNCHANGED domains
  BY <1>9 DEF HostsInv, domains, N!Working, N!Named
<1> QED
  BY <1>1, <1>2, <1>3, <1>4, <1>6, <1>7, <1>9, <1>10, <1>11, ZenonT(30) DEF N!Next

(* The hosts file at first.                                                *)
LEMMA HostsInit == ASSUME N!Init PROVE HostsTypes /\ HostsInv
  BY StartsAssumption, JobAssumption, ZenonT(30) DEF N!Init, HostsTypes, HostsInv, N!NoJob, Steps,
     Hosts, N!Working, N!Named

-----------------------------------------------------------------------------
(* The authority is made within a start, one file after the other; its     *)
(* certificate appears after its key is whole, and Windows is told of it   *)
(* after both are, so that a cut creation is begun anew and one that       *)
(* Windows trusts never is.                                                *)
AuthorityInv ==
    /\ power \in {"stopped", "starting", "running", "stopping"}
    /\ op \in {"none", "todo", "route"} \cup Job
    /\ ca \in [key : 0..N!Torn, cert : 0..N!Torn, trusted : 0..MaxStarts]
    /\ loading \in {"no", "key", "cert", "store", "loaded"} /\ starts \in 0..MaxStarts
    /\ power \in {"stopped", "stopping"} => loading = "no"
    /\ power = "starting" => starts \in 1..MaxStarts
    /\ loading \in {"key", "cert", "store"} => power = "starting" /\ op \in Job /\ ca.trusted = 0
    /\ loading = "key" => ca.cert = 0
    /\ loading = "cert" => ca.key = starts
    /\ loading = "store" => ca.key = starts /\ ca.cert = starts
    /\ loading = "loaded" => ca.cert # 0
    /\ ca.cert # 0 => ca.key \in 1..MaxStarts
    /\ ca.trusted # 0 => ca.key = ca.trusted /\ ca.cert # 0

(* Every step keeps the order in which the authority is made.              *)
LEMMA AuthorityStep ==
    ASSUME AuthorityInv, [N!Next]_domains
    PROVE  AuthorityInv'
<1> USE StartsAssumption, JobAssumption DEF AuthorityInv, N!Torn
<1>1. CASE N!LoadCa
  <2> UNCHANGED <<power, starts, op>> /\ power = "starting" /\ op \in Job
    BY <1>1, SMTT(30) DEF N!LoadCa, N!hosts
  <2>1. CASE loading = "no" /\ N!Exists /\ loading' = "loaded" /\ UNCHANGED ca
    BY <2>1 DEF N!Exists
  <2>2. CASE loading = "no" /\ ~N!Exists /\ loading' = "key" /\ ca' = [ca EXCEPT !.key = N!Torn]
    BY <2>2 DEF N!Exists
  <2>3. CASE /\ loading = "key" /\ loading' = "cert"
             /\ ca' = [ca EXCEPT !.key = starts, !.cert = N!Torn]
    <3>1. ca' = [key |-> starts, cert |-> N!Torn, trusted |-> 0]
      BY <2>3, Zenon
    <3> QED
      BY <2>3, <3>1
  <2>4. CASE loading = "cert" /\ loading' = "store" /\ ca' = [ca EXCEPT !.cert = starts]
    BY <2>4
  <2>5. CASE /\ loading = "store" /\ loading' = "loaded"
             /\ ca' = [ca EXCEPT !.trusted = starts] \/ UNCHANGED ca
    BY <2>5, SMTT(30)
  <2> QED
    BY <1>1, <2>1, <2>2, <2>3, <2>4, <2>5 DEF N!LoadCa
<1>2. CASE N!Start
  <2>1. /\ power = "stopped" /\ power' = "starting" /\ op' = "todo"
        /\ starts < MaxStarts /\ starts' = starts + 1 /\ UNCHANGED <<ca, loading>>
    BY <1>2, Zenon DEF N!Start, N!authority
  <2>2. starts' \in 0..MaxStarts /\ starts' \in 1..MaxStarts /\ loading = "no"
    BY <2>1
  <2> QED
    BY <2>1, <2>2, SMTT(30)
<1>3. CASE N!Attached
  BY <1>3, ZenonT(30) DEF N!Attached
<1>4. CASE N!EnsureRoute
  BY <1>4, ZenonT(30) DEF N!EnsureRoute, N!authority
<1>5. CASE N!OpSpawns
  BY <1>5 DEF N!OpSpawns, N!authority
<1>6. CASE N!Stop \/ N!StopEnds
  BY <1>6, ZenonT(30) DEF N!Stop, N!StopEnds, N!authority
<1>7. CASE N!Crash
  BY <1>7 DEF N!Crash
<1>8. ASSUME NEW j \in Job, N!ReadHosts(j) \/ N!Open(j) \/ N!Write(j) PROVE AuthorityInv'
  BY <1>8 DEF N!ReadHosts, N!Open, N!Write, N!authority
<1>9. CASE N!UserEdits \/ N!Endpoints \/ N!LoopGoesOn
  BY <1>9, SMTT(30) DEF N!UserEdits, N!Endpoints, N!LoopGoesOn, N!authority
<1>10. CASE UNCHANGED domains
  BY <1>10 DEF domains
<1> QED
  BY <1>1, <1>2, <1>3, <1>4, <1>5, <1>6, <1>7, <1>8, <1>9, <1>10, ZenonT(30) DEF N!Next

(* The event loop and the route have their types.                          *)
Loops == loop \in {"off", "idle"} \cup Job /\ route \in BOOLEAN
(* Every step keeps the types of the loop and of the route.                *)
LEMMA LoopsStep == ASSUME Loops, [N!Next]_domains PROVE Loops'
<1>1. loop' \in {"off", "idle"} \cup Job
  BY ZenonT(30)
     DEF Loops, N!Next, N!Start, N!OpSpawns, N!Attached, N!EnsureRoute, N!LoadCa, N!Endpoints,
         N!LoopGoesOn, N!Stop, N!StopEnds, N!Crash, N!UserEdits, N!ReadHosts, N!Open, N!Write,
         N!hosts, domains
<1>2. route' \in BOOLEAN
  BY Zenon DEF Loops, N!Next, N!Start, N!OpSpawns, N!Attached, N!EnsureRoute, N!LoadCa,
         N!Endpoints, N!LoopGoesOn, N!Stop, N!StopEnds, N!Crash, N!UserEdits, N!ReadHosts,
         N!Open, N!Write, domains
<1> QED
  BY <1>1, <1>2 DEF Loops

-----------------------------------------------------------------------------
(* A step is a step of one part, or leaves it alone.                       *)
LEMMA NoticesParts ==
    [NoticesNext]_notices => [P!Next]_ports /\ [C!Next]_control /\ [N!Next]_domains
  BY Zenon DEF NoticesNext, NoticesStep, notices

(* Every port of the agent's last list has a listener, and it relays to    *)
(* the address of the list, whatever containers start and stop meanwhile   *)
(* and however often the service or docker goes away, with one exception:  *)
(* the last list came to the event loop before start had set running       *)
(* (engine.rs and ports.rs of the service, events.rs of the agent).        *)
THEOREM ListenersFollow == NoticesSpec => []ListenersCurrent
<1>1. NoticesInit => PortsInv
  BY PortsInit DEF NoticesInit
<1>2. PortsInv /\ [NoticesNext]_notices => PortsInv'
  BY PortsStep, NoticesParts
<1>3. PortsInv => ListenersCurrent
  BY PortsSound DEF ListenersCurrent
<1> QED
  BY <1>1, <1>2, <1>3, PTL DEF NoticesSpec

(* A subscriber of the control pipe that has read all that was sent shows  *)
(* the state of the service, unless two setters crossed between the change *)
(* and the announcement (engine.rs set_state, ipc.rs), for any number of   *)
(* setters and any length of the channel.                                  *)
THEOREM SubscriberShows == NoticesSpec => []ShowsStateElse
<1>1. NoticesInit => ControlInv
  BY ControlInit DEF NoticesInit
<1>2. ControlInv /\ [NoticesNext]_notices => ControlInv'
  BY ControlStep, NoticesParts
<1>3. ControlInv => ShowsStateElse
  BY ControlSound DEF ShowsStateElse
<1> QED
  BY <1>1, <1>2, <1>3, PTL DEF NoticesSpec

(* The names that the containers have on the host (write_hosts_block,      *)
(* update_domains, LocalCa::load_or_create): the hosts file keeps the      *)
(* lines of the user and has the names of the table that the proxy routes  *)
(* by, as long as no thread outlived the task that awaited it and nothing  *)
(* cut or crossed a rewrite; a loaded authority has a whole key, and the   *)
(* one that Windows trusts is the one on disk, whenever the service is     *)
(* killed.                                                                 *)
THEOREM NamesOnHost == NoticesSpec => []DomainsSound
<1>1. NoticesInit => HostsTypes /\ HostsInv /\ AuthorityInv /\ Loops
  <2>1. NoticesInit => N!Init
    BY SMTT(30) DEF NoticesInit
  <2>2. N!Init => AuthorityInv
    <3>1. 0 \in 0..N!Torn /\ 0 \in 0..MaxStarts
      BY StartsAssumption DEF N!Torn
    <3> QED
      BY <3>1, SMTT(30) DEF N!Init, AuthorityInv
  <2>3. N!Init => Loops
    BY Zenon DEF N!Init, Loops
  <2> QED
    BY <2>1, <2>2, <2>3, HostsInit
<1>2. HostsTypes /\ HostsInv /\ AuthorityInv /\ Loops /\ [NoticesNext]_notices
      => HostsTypes' /\ HostsInv' /\ AuthorityInv' /\ Loops'
  BY LoopsStep, NoticesParts, HostsTypeStep, HostsStep, AuthorityStep
<1>3. HostsTypes /\ HostsInv /\ AuthorityInv /\ Loops => DomainsSound
  <2>1. HostsTypes /\ AuthorityInv /\ Loops => N!TypeOK
    BY ZenonT(30) DEF Loops, HostsTypes, AuthorityInv, N!TypeOK, Hosts, Steps
  <2>2. HostsInv => N!UserLinesKeptElse /\ N!HostsFollowElse
    BY DEF HostsInv, N!UserLinesKeptElse, N!UserLinesKept, N!HostsFollowElse
  <2>3. AuthorityInv => N!AuthorityWhole
    BY DEF AuthorityInv, N!AuthorityWhole
  <2> QED
    BY <2>1, <2>2, <2>3, SMTT(30) DEF DomainsSound
<1> QED
  BY <1>1, <1>2, <1>3, PTL DEF NoticesSpec
=============================================================================
