------------------------------- MODULE Trace -------------------------------
(***************************************************************************)
(* The way of an observed fact to the interface: the hub of the agent      *)
(* (crates/solon-agent/src/trace.rs), the collector and the hub of the     *)
(* service (crates/solon-service/src/trace.rs), which the HTTPS proxy      *)
(* feeds too, and a subscriber (TraceSubscribe of                          *)
(* crates/solon-service/src/ipc.rs).                                       *)
(*                                                                         *)
(* A fact is a number; even and odd ones are of two projects.              *)
(***************************************************************************)
EXTENDS Naturals, Sequences, Functions

CONSTANTS History,   \* HISTORY: facts that the hub keeps
          Channel,   \* CHANNEL: events that wait for a subscriber
          MaxFacts,  \* bound: facts observed
          MaxLives   \* bound: lives of the machine

VARIABLES
    machine,  \* it is up
    loader,   \* collect: "load", "stored": its status is not told yet, "run", "ended"
    status,   \* the status in the agent's hub
    accept,   \* "no", "greet", "push", "in": the collector is among the clients
    wire,     \* events on their way to the service
    collector,\* "off", "connect", "read", "done"
    hub,      \* the hub of the service: its status and its recent facts
    pend,     \* per task that pushes: the event stored and not sent yet
    sub,      \* the subscriber: its step, and what it was told
    rx,       \* its receiver
    facts, lives,
    forgotten,\* history: facts that left `recent'
    raced     \* history: a status was told between the greeting and its end

agent == <<machine, loader, status, accept>>
vars == <<agent, wire, collector, hub, pend, sub, rx, facts, lives, forgotten, raced>>

Task == {"collector", "proxy"}
Status(s) == [status |-> s, fact |-> 0]
Fact(n) == [status |-> "none", fact |-> n]
Nothing == Fact(0)
Event == {Status(s) : s \in {"active", "inactive"}} \cup {Fact(n) : n \in 0..MaxFacts}
Absent == [pc |-> "none", status |-> "none", seen |-> {}, skipped |-> {}, lagged |-> FALSE]

TypeOK ==
    /\ machine \in BOOLEAN
    /\ loader \in {"load", "stored", "run", "ended"}
    /\ status \in {"active", "inactive"} /\ accept \in {"no", "greet", "push", "in"}
    /\ wire \in Seq(Event) /\ collector \in {"off", "connect", "read", "done"}
    /\ hub.status \in {"active", "inactive"} /\ hub.recent \in Seq(1..MaxFacts)
    /\ Len(hub.recent) <= History /\ Len(rx) <= Channel
    /\ pend \in [Task -> Event]
    /\ sub.pc \in {"none", "rx", "status", "live"} /\ sub.seen \subseteq 1..MaxFacts
    /\ facts \in 0..MaxFacts /\ lives \in 0..MaxLives

Init ==
    /\ machine = FALSE /\ loader = "load" /\ status = "inactive" /\ accept = "no"
    /\ wire = <<>> /\ collector = "off"
    /\ hub = [status |-> "inactive", recent |-> <<>>]
    /\ pend = [t \in Task |-> Nothing]
    /\ sub = Absent /\ rx = <<>>
    /\ facts = 0 /\ lives = 0 /\ forgotten = {} /\ raced = FALSE

-----------------------------------------------------------------------------
(* TraceHub::push: the status or the history first, the subscribers then.  *)
Evicted == IF Len(hub.recent) = History THEN {Head(hub.recent)} ELSE {}
Store(t, e) ==
    /\ pend[t] = Nothing /\ pend' = [pend EXCEPT ![t] = e]
    /\ IF e.fact = 0 THEN hub' = [hub EXCEPT !.status = e.status] /\ UNCHANGED forgotten
       ELSE /\ hub' = [hub EXCEPT !.recent =
                         Append(IF Evicted = {} THEN @ ELSE Tail(@), e.fact)]
            /\ forgotten' = forgotten \cup Evicted

(* A receiver that is full loses its oldest event (Lagged).                *)
Send(t) ==
    /\ pend[t] # Nothing /\ pend' = [pend EXCEPT ![t] = Nothing]
    /\ LET full == Len(rx) = Channel IN
       IF sub.pc = "none" THEN UNCHANGED <<rx, sub>>
       ELSE /\ rx' = Append(IF full THEN Tail(rx) ELSE rx, pend[t])
            /\ sub' = IF full THEN [sub EXCEPT !.skipped = @ \cup {Head(rx).fact},
                                               !.lagged = @ \/ Head(rx).fact = 0]
                              ELSE sub
    /\ UNCHANGED <<agent, wire, collector, hub, facts, lives, forgotten, raced>>

-----------------------------------------------------------------------------
(* The agent.  collect loads the probes, then follows their ring; whatever *)
(* ends it is a status.                                                    *)
Broadcast(e) == wire' = IF accept = "in" THEN Append(wire, e) ELSE wire

Boot ==
    /\ ~machine /\ machine' = TRUE /\ lives < MaxLives /\ lives' = lives + 1
    /\ collector \in {"off", "done"} /\ collector' = "connect"
    /\ loader' = "load" /\ status' = "inactive" /\ accept' = "no" /\ wire' = <<>>
    /\ raced' = FALSE
    /\ UNCHANGED <<hub, pend, sub, rx, facts, forgotten>>
Load ==
    /\ machine /\ loader = "load" /\ loader' = "stored" /\ status' \in {"active", "inactive"}
    /\ UNCHANGED <<machine, accept, wire, collector, hub, pend, sub, rx, facts, lives,
                   forgotten, raced>>
Tell ==
    /\ machine /\ loader = "stored"
    /\ loader' = IF status = "active" THEN "run" ELSE "ended"
    /\ Broadcast(Status(status)) /\ raced' = (raced \/ accept = "push")
    /\ UNCHANGED <<machine, status, accept, collector, hub, pend, sub, rx, facts, lives, forgotten>>
Observe ==
    /\ machine /\ loader = "run" /\ facts < MaxFacts /\ facts' = facts + 1
    /\ Broadcast(Fact(facts + 1))
    /\ UNCHANGED <<agent, collector, hub, pend, sub, rx, lives, forgotten, raced>>
(* Mutant: the thread ends without a status.                               *)
PollFailsSilently ==
    /\ machine /\ loader = "run" /\ loader' = "ended" /\ status' = "inactive"
    /\ UNCHANGED <<machine, accept, wire, collector, hub, pend, sub, rx, facts, lives,
                   forgotten, raced>>
PollFails ==
    /\ machine /\ loader = "run" /\ loader' = "stored" /\ status' = "inactive"
    /\ UNCHANGED <<machine, accept, wire, collector, hub, pend, sub, rx, facts, lives,
                   forgotten, raced>>

(* serve: the status of now, then a place among the clients.               *)
Greet ==
    /\ machine /\ accept = "greet" /\ accept' = "push" /\ wire' = Append(wire, Status(status))
    /\ UNCHANGED <<machine, loader, status, collector, hub, pend, sub, rx, facts, lives,
                   forgotten, raced>>
Register ==
    /\ machine /\ accept = "push" /\ accept' = "in"
    /\ UNCHANGED <<machine, loader, status, wire, collector, hub, pend, sub, rx, facts, lives,
                   forgotten, raced>>

(* The machine ends by itself, and with it the connection.                 *)
Crash ==
    /\ machine /\ machine' = FALSE
    /\ UNCHANGED <<loader, status, accept, wire, collector, hub, pend, sub, rx, facts, lives,
                   forgotten, raced>>

-----------------------------------------------------------------------------
(* spawn_collector.                                                        *)
Connect ==
    /\ collector = "connect" /\ machine /\ accept = "no"
    /\ collector' = "read" /\ accept' = "greet"
    /\ UNCHANGED <<machine, loader, status, wire, hub, pend, sub, rx, facts, lives, forgotten, raced>>
ConnectFails ==
    /\ collector = "connect" /\ Store("collector", Status("inactive")) /\ collector' = "done"
    /\ UNCHANGED <<agent, wire, sub, rx, facts, lives, raced>>
Collect ==
    /\ collector = "read" /\ wire # <<>>
    /\ Store("collector", Head(wire)) /\ wire' = Tail(wire)
    /\ UNCHANGED <<agent, collector, sub, rx, facts, lives, raced>>
StreamEnds ==
    /\ collector = "read" /\ wire = <<>> /\ ~machine
    /\ Store("collector", Status("inactive")) /\ collector' = "done"
    /\ UNCHANGED <<agent, wire, sub, rx, facts, lives, raced>>

(* Engine::stop aborts the collector, then stops the machine.              *)
Stop ==
    /\ collector # "off" /\ collector' = "off" /\ machine' = FALSE /\ wire' = <<>>
    /\ UNCHANGED <<loader, status, accept, hub, pend, sub, rx, facts, lives, forgotten, raced>>

(* The HTTPS proxy tells an exchange of its own.                           *)
Exchange ==
    /\ facts < MaxFacts /\ facts' = facts + 1 /\ Store("proxy", Fact(facts + 1))
    /\ UNCHANGED <<agent, wire, collector, sub, rx, lives, raced>>

(* TraceHub::clear: everything, or what belongs to a project.              *)
Clear(gone) ==
    /\ hub.recent # <<>>
    /\ hub' = [hub EXCEPT !.recent = SelectSeq(@, LAMBDA n : n % 2 \notin gone)]
    /\ forgotten' = forgotten \cup {n \in Range(hub.recent) : n % 2 \in gone}
    /\ UNCHANGED <<agent, wire, collector, pend, sub, rx, facts, lives, raced>>

-----------------------------------------------------------------------------
(* TraceSubscribe: the receiver, the status, the history, then the stream. *)
SubRest == UNCHANGED <<agent, wire, collector, hub, pend, facts, lives, forgotten, raced>>

Subscribe ==
    /\ sub = Absent /\ sub' = [sub EXCEPT !.pc = "rx"] /\ UNCHANGED rx /\ SubRest
BacklogStatus ==
    /\ sub.pc = "rx" /\ sub' = [sub EXCEPT !.pc = "status", !.status = hub.status]
    /\ UNCHANGED rx /\ SubRest
(* Mutant: the receiver is opened after the history was read.              *)
BacklogFirst ==
    /\ sub.pc = "status" /\ rx' = <<>>
    /\ sub' = [sub EXCEPT !.pc = "live", !.seen = Range(hub.recent), !.skipped = forgotten]
    /\ SubRest
Backlog ==
    /\ sub.pc = "status" /\ UNCHANGED rx
    /\ sub' = [sub EXCEPT !.pc = "live", !.seen = Range(hub.recent), !.skipped = @ \cup forgotten]
    /\ SubRest
(* Mutant: a status of the stream is not told.                             *)
RecvFacts ==
    /\ sub.pc = "live" /\ rx # <<>> /\ rx' = Tail(rx)
    /\ sub' = IF Head(rx).fact = 0 THEN sub ELSE [sub EXCEPT !.seen = @ \cup {Head(rx).fact}]
    /\ SubRest
Recv ==
    /\ sub.pc = "live" /\ rx # <<>> /\ rx' = Tail(rx)
    /\ sub' = IF Head(rx).fact = 0 THEN [sub EXCEPT !.status = Head(rx).status, !.lagged = FALSE]
              ELSE [sub EXCEPT !.seen = @ \cup {Head(rx).fact}]
    /\ SubRest
Leave == sub.pc # "none" /\ sub' = Absent /\ rx' = <<>> /\ SubRest

-----------------------------------------------------------------------------
Next ==
    \/ Boot \/ Load \/ Tell \/ Observe \/ PollFails \/ Greet \/ Register \/ Crash
    \/ Connect \/ ConnectFails \/ Collect \/ StreamEnds \/ Stop \/ Exchange
    \/ \E t \in Task : Send(t)
    \/ \E gone \in {{0, 1}, {0}, {1}} : Clear(gone)
    \/ Subscribe \/ BacklogStatus \/ Backlog \/ Recv \/ Leave

Spec == Init /\ [][Next]_vars

-----------------------------------------------------------------------------
Stored == UNION {Range(hub.recent), forgotten}
Queued == {e.fact : e \in Range(rx) \cup Range(pend)}

(* "The receiver is opened before the history is read, so that nothing is  *)
(* lost between the two" (ipc.rs): a subscriber is told of every fact that *)
(* the history held when it came and of every later one, unless it is too  *)
(* slow; tasks that push at the same moment included.                      *)
NothingLostBetween ==
    sub.pc = "live" => Stored \subseteq sub.seen \cup Queued \cup sub.skipped

(* A subscriber that has read everything has the status of the hub,        *)
(* though it may have been told an older one after a newer one.            *)
SubscriberKnows ==
    sub.pc = "live" /\ rx = <<>> /\ pend["collector"] = Nothing /\ ~sub.lagged =>
        sub.status = hub.status

(* The status that the agent has told has come to the hub of the service   *)
(* when all is read, unless it was told between the greeting of the        *)
(* service and its registration.                                           *)
Settled == collector = "read" /\ machine /\ accept = "in" /\ wire = <<>> /\ loader # "stored"
ProbesKnownElse == Settled /\ ~raced => hub.status = status
=============================================================================
