------------------------------ MODULE Control ------------------------------
(***************************************************************************)
(* The control channel: serve and handle of                                *)
(* crates/solon-service/src/ipc.rs, Engine::set, snapshot and subscribe of *)
(* engine.rs, and a client (crates/solon-client/src/control.rs) that gives *)
(* commands and may subscribe to the state of the engine.                  *)
(*                                                                         *)
(* The states of the engine are numbered in the order in which they        *)
(* happen.                                                                 *)
(***************************************************************************)
EXTENDS Naturals, Sequences

CONSTANTS Setter,     \* tasks of the engine that change its state
          Channel,    \* events that wait for a subscriber
          MaxStates,  \* bound: changes of state
          MaxLines    \* bound: lines that the client writes

VARIABLES
    state,    \* the snapshot of the engine
    set,      \* per task in Engine::set: its step and the snapshot it sends
    sent,     \* the newest snapshot that was sent
    free,     \* the instance of the pipe that awaits a client exists
    client,   \* "out", "busy": no instance was free, "in", "gaveUp"
    lines,    \* what the client wrote and handle has not read
    handler,  \* handle: "none", "read", "answer", "left": after an error
    task,     \* the subscription: "none", "rx", "initial", "stream"
    initial,  \* the snapshot it starts with
    rx,       \* its receiver
    shown,    \* the last state that the client was told
    asked, answered, \* how many lines the client wrote, how many answers it got
    lagged,   \* history: the receiver lost its oldest event
    crossed   \* history: an older snapshot was sent after a newer one

engine == <<state, set, sent>>
pipe == <<free, client>>
vars == <<engine, pipe, lines, handler, task, initial, rx, shown, asked, answered, lagged, crossed>>

Line == {"command", "subscribe", "unreadable", "endless"}
Idle == [pc |-> "idle", snap |-> 0]

TypeOK ==
    /\ state \in 0..MaxStates /\ sent \in 0..MaxStates
    /\ set \in [Setter -> [pc : {"idle", "read", "send"}, snap : 0..MaxStates]]
    /\ free \in BOOLEAN /\ client \in {"out", "busy", "in", "gaveUp"}
    /\ lines \in Seq(Line) /\ handler \in {"none", "read", "answer", "left"}
    /\ task \in {"none", "rx", "initial", "stream"}
    /\ Len(rx) <= Channel /\ shown \in 0..MaxStates /\ initial \in 0..MaxStates
    /\ answered <= asked /\ asked <= MaxLines

Init ==
    /\ state = 0 /\ set = [s \in Setter |-> Idle] /\ sent = 0
    /\ free = TRUE /\ client = "out" /\ lines = <<>> /\ handler = "none"
    /\ task = "none" /\ initial = 0 /\ rx = <<>> /\ shown = 0
    /\ asked = 0 /\ answered = 0 /\ lagged = FALSE /\ crossed = FALSE

-----------------------------------------------------------------------------
(* Engine::set: send_modify, then snapshot, then the event; the three are  *)
(* not one.                                                                *)
SetRest == UNCHANGED <<pipe, lines, handler, initial, shown, asked, answered>>

(* Mutant: the event carries the snapshot of before the change.            *)
ModifyLate(s) ==
    /\ set[s] = Idle /\ state < MaxStates /\ state' = state + 1
    /\ set' = [set EXCEPT ![s] = [pc |-> "send", snap |-> state]]
    /\ UNCHANGED <<sent, task, rx, lagged, crossed>> /\ SetRest
Modify(s) ==
    /\ set[s] = Idle /\ state < MaxStates /\ state' = state + 1
    /\ set' = [set EXCEPT ![s].pc = "read"]
    /\ UNCHANGED <<sent, task, rx, lagged, crossed>> /\ SetRest
Snapshot(s) ==
    /\ set[s].pc = "read" /\ set' = [set EXCEPT ![s] = [pc |-> "send", snap |-> state]]
    /\ UNCHANGED <<state, sent, task, rx, lagged, crossed>> /\ SetRest
SendState(s) ==
    /\ set[s].pc = "send" /\ set' = [set EXCEPT ![s] = Idle]
    /\ sent' = IF set[s].snap > sent THEN set[s].snap ELSE sent
    /\ crossed' = (set[s].snap < sent)
    /\ IF task = "none" THEN UNCHANGED <<rx, lagged>>
       ELSE LET full == Len(rx) = Channel IN
            /\ rx' = Append(IF full THEN Tail(rx) ELSE rx, set[s].snap)
            /\ lagged' = (lagged \/ full)
    /\ UNCHANGED <<state, task>> /\ SetRest

-----------------------------------------------------------------------------
(* serve and open: the next instance is made after a client has taken the  *)
(* last one; a client that finds none free tries again for five seconds.   *)
PipeRest == UNCHANGED <<engine, task, initial, rx, shown, answered, lagged, crossed>>

Open ==
    /\ client \in {"out", "busy"}
    /\ IF free THEN client' = "in" /\ free' = FALSE /\ handler' = "read"
               ELSE client' = "busy" /\ UNCHANGED <<free, handler>>
    /\ UNCHANGED <<lines, asked>> /\ PipeRest
GiveUp ==
    /\ client = "busy" /\ client' = "gaveUp"
    /\ UNCHANGED <<free, lines, handler, asked>> /\ PipeRest
NewInstance ==
    /\ ~free /\ free' = TRUE
    /\ UNCHANGED <<client, lines, handler, asked>> /\ PipeRest
Write(l) ==
    /\ client = "in" /\ asked < MaxLines /\ asked' = asked + 1
    /\ lines' = Append(lines, l)
    /\ UNCHANGED <<pipe, handler>> /\ PipeRest

-----------------------------------------------------------------------------
(* handle: one command after the other.                                    *)
HandleRest == UNCHANGED <<engine, pipe, rx, shown, asked, lagged, crossed>>

ReadLine ==
    /\ handler = "read" /\ lines # <<>> /\ lines' = Tail(lines)
    /\ handler' = IF Head(lines) = "endless" THEN "left" ELSE "answer"
    /\ task' = IF Head(lines) = "subscribe" /\ task = "none" THEN "rx" ELSE task
    /\ UNCHANGED <<initial, answered>> /\ HandleRest

(* Subscribe: the receiver is open, then the state of now is read.         *)
ReadInitial ==
    /\ task = "rx" /\ task' = "initial" /\ initial' = state
    /\ UNCHANGED <<lines, handler, answered>> /\ HandleRest
Answer ==
    /\ handler = "answer" /\ task # "rx" /\ handler' = "read" /\ answered' = answered + 1
    /\ UNCHANGED <<lines, task, initial>> /\ HandleRest

(* The client leaves: handle aborts the subscription, or the write of its  *)
(* next event fails.                                                       *)
Hangup ==
    /\ client = "in" /\ client' = "out"
    /\ handler' = "none" /\ lines' = <<>> /\ task' = "none" /\ rx' = <<>>
    /\ initial' = 0 /\ shown' = 0 /\ asked' = 0 /\ answered' = 0 /\ lagged' = FALSE
    /\ UNCHANGED <<engine, free, crossed>>

(* The task of the subscription.                                           *)
TaskRest == UNCHANGED <<engine, pipe, lines, handler, initial, asked, answered, lagged, crossed>>

SendInitial ==
    /\ task = "initial" /\ task' = "stream" /\ shown' = initial
    /\ UNCHANGED rx /\ TaskRest
SendEvent ==
    /\ task = "stream" /\ rx # <<>> /\ rx' = Tail(rx) /\ shown' = Head(rx)
    /\ UNCHANGED task /\ TaskRest

-----------------------------------------------------------------------------
Handle == ReadLine \/ ReadInitial \/ Answer
Subscription == SendInitial \/ SendEvent
Next ==
    \/ \E s \in Setter : Modify(s) \/ Snapshot(s) \/ SendState(s)
    \/ Open \/ GiveUp \/ NewInstance \/ Handle \/ Hangup \/ Subscription
    \/ \E l \in Line : Write(l)

Fairness ==
    /\ WF_vars(NewInstance) /\ WF_vars(Handle) /\ WF_vars(Subscription)
    /\ \A s \in Setter : WF_vars(Snapshot(s) \/ SendState(s))
Spec == Init /\ [][Next]_vars /\ Fairness

-----------------------------------------------------------------------------
Still == rx = <<>> /\ \A s \in Setter : set[s] = Idle

(* "The current state first, then the stream" (ipc.rs): a subscriber that  *)
(* has read everything shows the state of the engine.                      *)
ShowsState == task = "stream" /\ Still => shown = state

(* It does unless the last two tasks that changed the state sent it in the *)
(* opposite order; a slow subscriber loses old states and not the last.    *)
ShowsStateElse == crossed \/ ShowsState

(* Every line that the client writes is answered, those that cannot be     *)
(* read included, unless one of them has no end or the client leaves.      *)
Answered ==
    []<>(answered = asked \/ handler = "left" \/ client # "in")
=============================================================================
