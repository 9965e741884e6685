----------------------------- MODULE DockerPipe -----------------------------
(***************************************************************************)
(* The instances of the Docker pipe (crates/solon-service/src/             *)
(* docker_pipe.rs): the accept loop makes one, waits for a client, gives   *)
(* the proxy a stream and starts two threads for it, and makes the next.   *)
(* The name of the pipe exists as long as it has an instance.              *)
(*                                                                         *)
(* What is written to the client is counted, not told apart; the empty     *)
(* message that ends an answer is the last one.  The thread that writes    *)
(* flushes, which returns when the client has read everything or is gone,  *)
(* waits for the reader at most five seconds, and disconnects.             *)
(***************************************************************************)
EXTENDS Naturals

CONSTANTS Instance,   \* instances of the pipe, each used once
          MaxAnswer   \* bound: messages of an answer

VARIABLES
    accept,   \* the accept loop: "create", "wait", and the instance it waits on
    inst,     \* per instance: its state and the client's
    reader,   \* per instance, pipe to stream: "none", "read", "done"
    writer,   \* per instance, stream to pipe: "none", "copy", "flush", "grace", "done"
    proxy,    \* per instance, the stream: open, ended by the proxy, ended by both
    unread,   \* per instance: messages that the client has not read
    told      \* per instance: messages written to the client

vars == <<accept, inst, reader, writer, proxy, unread, told>>

TypeOK ==
    /\ accept \in [pc : {"create", "wait"}, on : Instance \cup {0}]
    /\ inst \in [Instance -> [pipe : {"none", "listens", "connected", "cut", "closed"},
                              client : {"none", "open", "ended", "gone"}]]
    /\ reader \in [Instance -> {"none", "read", "done"}]
    /\ writer \in [Instance -> {"none", "copy", "flush", "grace", "done"}]
    /\ proxy \in [Instance -> {"none", "open", "ended"}]
    /\ unread \in [Instance -> 0..(MaxAnswer + 1)] /\ told \in [Instance -> 0..(MaxAnswer + 1)]

Init ==
    /\ accept = [pc |-> "create", on |-> 0]
    /\ inst = [i \in Instance |-> [pipe |-> "none", client |-> "none"]]
    /\ reader = [i \in Instance |-> "none"] /\ writer = [i \in Instance |-> "none"]
    /\ proxy = [i \in Instance |-> "none"]
    /\ unread = [i \in Instance |-> 0] /\ told = [i \in Instance |-> 0]

Conn == <<reader, writer, proxy, unread, told>>
Free == {i \in Instance : inst[i].pipe = "none"}

(* ConnectNamedPipe returns: a client is there, or was.                    *)
WaitClient(i) == inst[i].client # "none"
(* A read gives an empty message, the client's end, or an error.           *)
ReadOverlapped(i) == inst[i].client # "open" \/ inst[i].pipe # "connected"
(* A write fails when the client is gone.                                  *)
WriteFails(i) == inst[i].client = "gone"

-----------------------------------------------------------------------------
(* accept_loop: create_instance, wait_client.                              *)
Create ==
    /\ accept.pc = "create" /\ Free # {}
    /\ LET i == CHOOSE k \in Free : TRUE IN
       /\ accept' = [pc |-> "wait", on |-> i]
       /\ inst' = [inst EXCEPT ![i].pipe = "listens"]
    /\ UNCHANGED Conn

(* A client may be gone before ConnectNamedPipe looks: the instance is     *)
(* dropped.  Otherwise the two threads start.                              *)
Accept ==
    /\ accept.pc = "wait" /\ WaitClient(accept.on)
    /\ accept' = [accept EXCEPT !.pc = "create"]
    /\ LET i == accept.on IN
       \/ /\ inst[i].client = "gone"
          /\ inst' = [inst EXCEPT ![i].pipe = "closed"] /\ UNCHANGED Conn
       \/ /\ inst' = [inst EXCEPT ![i].pipe = "connected"]
          /\ reader' = [reader EXCEPT ![i] = "read"] /\ writer' = [writer EXCEPT ![i] = "copy"]
          /\ proxy' = [proxy EXCEPT ![i] = "open"] /\ UNCHANGED <<unread, told>>

(* The client opens the name, ends its request with an empty message,      *)
(* reads, closes.                                                          *)
ClientOpens(i) ==
    /\ inst[i] = [pipe |-> "listens", client |-> "none"]
    /\ inst' = [inst EXCEPT ![i].client = "open"]
    /\ UNCHANGED <<accept, Conn>>
ClientEnds(i) ==
    /\ inst[i].client = "open" /\ inst' = [inst EXCEPT ![i].client = "ended"]
    /\ UNCHANGED <<accept, Conn>>
ClientReads(i) ==
    /\ inst[i].client \in {"open", "ended"} /\ inst[i].pipe = "connected" /\ unread[i] > 0
    /\ unread' = [unread EXCEPT ![i] = @ - 1]
    /\ UNCHANGED <<accept, inst, reader, writer, proxy, told>>
ClientCloses(i) ==
    /\ inst[i].client \in {"open", "ended"} /\ inst' = [inst EXCEPT ![i].client = "gone"]
    /\ unread' = [unread EXCEPT ![i] = 0]
    /\ UNCHANGED <<accept, reader, writer, proxy, told>>

(* The thread that reads ends with an empty message or an error, and shuts *)
(* its half of the stream down.  It also ends when nobody takes what it    *)
(* has read, but for that the client has to send something.                *)
ReaderEnds(i) ==
    /\ reader[i] = "read" /\ ReadOverlapped(i)
    /\ reader' = [reader EXCEPT ![i] = "done"]
    /\ UNCHANGED <<accept, inst, writer, proxy, unread, told>>
ReaderFails(i) ==
    /\ reader[i] = "read" /\ ~ReadOverlapped(i) /\ proxy[i] = "ended"
    /\ reader' = [reader EXCEPT ![i] = "done"]
    /\ UNCHANGED <<accept, inst, writer, proxy, unread, told>>

(* The proxy answers, and drops the stream.                                *)
ProxyEnds(i) ==
    /\ proxy[i] = "open" /\ proxy' = [proxy EXCEPT ![i] = "ended"]
    /\ UNCHANGED <<accept, inst, reader, writer, unread, told>>

(* The thread that writes.                                                 *)
WriterCopies(i) ==
    /\ writer[i] = "copy" /\ proxy[i] = "open" /\ told[i] < MaxAnswer
    /\ IF WriteFails(i) THEN writer' = [writer EXCEPT ![i] = "flush"] /\ UNCHANGED <<unread, told>>
       ELSE /\ unread' = [unread EXCEPT ![i] = @ + 1] /\ told' = [told EXCEPT ![i] = @ + 1]
            /\ UNCHANGED writer
    /\ UNCHANGED <<accept, inst, reader, proxy>>
(* The end of the stream: an empty message.                                *)
WriterEnds(i) ==
    /\ writer[i] = "copy" /\ proxy[i] = "ended"
    /\ writer' = [writer EXCEPT ![i] = "flush"]
    /\ IF WriteFails(i) THEN UNCHANGED <<unread, told>>
       ELSE unread' = [unread EXCEPT ![i] = @ + 1] /\ told' = [told EXCEPT ![i] = @ + 1]
    /\ UNCHANGED <<accept, inst, reader, proxy>>
(* Mutant: it is disconnected without a flush.                             *)
WriterFlushesNot(i) ==
    /\ writer[i] = "flush" /\ writer' = [writer EXCEPT ![i] = "grace"]
    /\ UNCHANGED <<accept, inst, reader, proxy, unread, told>>
WriterFlushes(i) ==
    /\ writer[i] = "flush" /\ unread[i] = 0
    /\ writer' = [writer EXCEPT ![i] = "grace"]
    /\ UNCHANGED <<accept, inst, reader, proxy, unread, told>>
(* Mutant: the instance is not disconnected.                               *)
WriterLeavesConnected(i) ==
    /\ writer[i] = "grace" /\ writer' = [writer EXCEPT ![i] = "done"]
    /\ UNCHANGED <<accept, inst, reader, proxy, unread, told>>
WriterDisconnects(i) ==
    /\ writer[i] = "grace" /\ writer' = [writer EXCEPT ![i] = "done"]
    /\ inst' = [inst EXCEPT ![i].pipe = "cut"]
    /\ UNCHANGED <<accept, reader, proxy, unread, told>>

(* The handle is closed with the last of the two threads.                  *)
Close(i) ==
    /\ reader[i] = "done" /\ writer[i] = "done" /\ inst[i].pipe # "closed"
    /\ inst' = [inst EXCEPT ![i].pipe = "closed"]
    /\ UNCHANGED <<accept, Conn>>

-----------------------------------------------------------------------------
Threads(i) ==
    ReaderEnds(i) \/ WriterEnds(i) \/ WriterFlushes(i) \/ WriterDisconnects(i) \/ Close(i)
Client(i) == ClientOpens(i) \/ ClientEnds(i) \/ ClientReads(i) \/ ClientCloses(i)
Next ==
    \/ Create \/ Accept
    \/ \E i \in Instance : Client(i) \/ ProxyEnds(i) \/ WriterCopies(i) \/ ReaderFails(i) \/ Threads(i)

(* The threads run.                                                        *)
Spec == Init /\ [][Next]_vars /\ \A i \in Instance : WF_vars(Threads(i))

-----------------------------------------------------------------------------
(* A client that is there when its instance is disconnected has read the   *)
(* whole answer and its end.                                               *)
AnswerNotCut ==
    \A i \in Instance : inst[i].pipe = "cut" /\ inst[i].client # "gone" => unread[i] = 0

(* Once the proxy is done with a stream and its client reads what is left, *)
(* the instance is closed, though the client may never close its end.      *)
InstancesReleased ==
    \A i \in Instance :
        []<>(proxy[i] # "ended" \/ inst[i].pipe = "closed" \/ unread[i] # 0)
=============================================================================
