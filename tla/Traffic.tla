------------------------------ MODULE Traffic ------------------------------
(***************************************************************************)
(* What passes between the host and the machine while the engine runs: the *)
(* notices, the streams, the agent's answers, its pools, and the requests  *)
(* that the Docker proxy rewrites.  They share no state, so that a         *)
(* behaviour of this module is a behaviour of one of their parts, beside   *)
(* which the others stay in an initial state.                              *)
(***************************************************************************)
EXTENDS Notices, Streams, Answers, Pools

VARIABLES
    part,   \* the one that runs
    first, second, wire, buf, pc, head, need, out, shared, denied

Q == INSTANCE DockerProxy

requests == <<first, second, wire, buf, pc, head, need, out, shared, denied>>
vars == <<part, notices, streams, answers, pools, requests>>

Init ==
    /\ part \in {"ports", "control", "domains", "relay", "pipe", "requests",
                 "session", "calls", "dns", "fs"}
    /\ NoticesInit /\ StreamsInit /\ AnswersInit /\ PoolsInit /\ Q!Init
    /\ part = "relay" \/ kind = "pipe"
    /\ part = "session" \/ sKind = "exec"
    /\ part = "requests" \/ (first = Q!Get /\ second = <<>> /\ wire = first)

Next ==
    /\ UNCHANGED part
    /\ \/ NoticesStep(part) /\ UNCHANGED <<streams, answers, pools, requests>>
       \/ StreamsStep(part) /\ UNCHANGED <<notices, answers, pools, requests>>
       \/ AnswersStep(part) /\ UNCHANGED <<notices, streams, pools, requests>>
       \/ PoolsStep(part) /\ UNCHANGED <<notices, streams, answers, requests>>
       \/ part = "requests" /\ Q!Next /\ UNCHANGED <<notices, streams, answers, pools>>

(* The fairness of the modules that have liveness properties.              *)
In(p, Step) == part = p /\ Step
Fairness ==
    /\ WF_ports(In("ports", P!Watcher)) /\ WF_ports(In("ports", P!Serve))
    /\ WF_ports(In("ports", P!Service))
    /\ \A p \in HostPort : /\ WF_ports(In("ports", P!Bind(p)))
                           /\ WF_ports(In("ports", P!Release(p)))
    /\ WF_relay(In("relay", R!HostConnects \/ R!ReadAck))
    /\ WF_relay(In("relay", R!HostUp)) /\ WF_relay(In("relay", R!HostDown))
    /\ WF_relay(In("relay", R!GuestAnswers))
    /\ WF_relay(In("relay", R!PumpUp)) /\ WF_relay(In("relay", R!PumpDown))
    /\ \A i \in Instance : WF_pipe(In("pipe", I!Threads(i)))
    /\ WF_control(In("control", C!NewInstance)) /\ WF_control(In("control", C!Handle))
    /\ WF_control(In("control", C!Subscription))
    /\ \A s \in Setter : WF_control(In("control", C!Snapshot(s) \/ C!SendState(s)))
    /\ WF_session(In("session", S!Agent)) /\ WF_session(In("session", S!Watch))
    /\ WF_session(In("session", S!Reaped))
    /\ \A s \in S!Stream : WF_session(In("session", S!PumpStarts(s) \/ S!Pump(s)))
    /\ \A c \in Caller : WF_calls(In("calls", A!CallStep(c)))
    /\ \A w \in Worker : WF_dns(In("dns", D!Serve(w)))
    /\ \A t \in Mount : WF_fs(In("fs", F!CallStep(t)))

Spec == Init /\ [][Next]_vars /\ Fairness

-----------------------------------------------------------------------------
(* Ports: what docker publishes for good is relayed in the end, and what   *)
(* it withdraws for good is released.                                      *)
RelaysFollow == P!RelaysFollow

(* DockerProxy: requests are forwarded whole, none is kept back, and a     *)
(* container is created with mounts that the machine has (docker_proxy.rs). *)
ProxyForwards == Q!TypeOK /\ Q!ForwardsRequests /\ Q!ForwardsAll /\ Q!MountsReachable

(* Relay: the end of one side reaches the other, except that dockerd's end *)
(* does not reach a docker client that has not ended itself.  DockerPipe:  *)
(* an instance of the pipe whose client and proxy have ended is released.  *)
(* Control: every line is answered.                                        *)
ConnectionsEnd ==
    /\ R!ServerEndReachesElse /\ R!ClientEndReaches /\ I!InstancesReleased /\ C!Answered

(* Nobody waits for ever: a program is told that its host has left         *)
(* (execstream.rs, shell.rs), a question gives its place back (dns.rs), a  *)
(* call of the file system and a call of the agent end.                    *)
WaitsEnd == S!HangupTold /\ S!EndedEnds /\ D!PlacesReturn /\ F!CallsEnd /\ A!CallsEnd
=============================================================================
