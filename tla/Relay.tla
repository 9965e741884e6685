------------------------------- MODULE Relay -------------------------------
(***************************************************************************)
(* One connection of the host carried into the machine: a published port   *)
(* (crates/solon-service/src/ports.rs to crates/solon-agent/src/ports.rs), *)
(* a client of the Docker pipe (docker_pipe.rs and docker_proxy.rs to      *)
(* forward.rs), or a client of the shell and exec pipes                    *)
(* (crates/solon-hvsock/src/relay.rs).                                     *)
(*                                                                         *)
(* Each way is a queue of numbered messages that ends with Eof.  The       *)
(* client talks to the host's end, the host's end to the agent's over a    *)
(* Hyper-V socket, the agent's to the server: a container, dockerd, or the *)
(* shell.                                                                  *)
(***************************************************************************)
EXTENDS Naturals, Sequences

CONSTANT MaxSent   \* bound: messages that each end sends

VARIABLES
    kind,    \* "port", "docker", "pipe"
    engine,  \* the state of the engine that wait_for_engine looks at
    host,    \* step of the host's end: "wait", "ack", "copy", "closed"
    guest,   \* step of the agent's end: "none", "header" (it has accepted the
             \* connection), "pump", "closed"
    up, down,            \* on the Hyper-V socket
    fromClient, fromServer,  \* sent, not read by the relay yet
    atClient, atServer,      \* received by the two ends
    hostUp, hostDown, guestUp, guestDown,  \* copiers that are not over
    client, server,      \* "open", "half": sends no more, "gone": nor reads
    sent,                \* how many messages each end sent
    loss                 \* history: "ack": bytes read with the ack were dropped,
                         \* "cut": a write failed before all was read

links == <<up, down, fromClient, fromServer, atClient, atServer>>
copiers == <<hostUp, hostDown, guestUp, guestDown>>
ends == <<client, server, sent>>
vars == <<kind, engine, host, guest, links, copiers, ends, loss>>

Eof == 0
Ack == MaxSent + 1
Refusal == MaxSent + 2
Message == 0..(MaxSent + 2)
End == {"open", "half", "gone"}

TypeOK ==
    /\ kind \in {"port", "docker", "pipe"}
    /\ engine \in {"Stopped", "Starting", "Ready", "Failed"}
    /\ host \in {"wait", "ack", "copy", "closed"}
    /\ guest \in {"none", "header", "pump", "closed"}
    /\ \A q \in {up, down, fromClient, fromServer, atClient, atServer} : q \in Seq(Message)
    /\ \A b \in {hostUp, hostDown, guestUp, guestDown} : b \in BOOLEAN
    /\ loss \in {"no", "ack", "cut"}
    /\ client \in End /\ server \in End
    /\ sent \in [up : 0..MaxSent, down : 0..MaxSent]

Init ==
    /\ kind \in {"port", "docker", "pipe"}
    /\ engine \in IF kind = "docker" THEN {"Stopped", "Starting", "Ready"} ELSE {"Ready"}
    /\ host = "wait" /\ guest = "none"
    /\ up = <<>> /\ down = <<>> /\ fromClient = <<>> /\ fromServer = <<>>
    /\ atClient = <<>> /\ atServer = <<>>
    /\ hostUp = TRUE /\ hostDown = TRUE /\ guestUp = TRUE /\ guestDown = TRUE
    /\ client = "open" /\ server = "open"
    /\ sent = [up |-> 0, down |-> 0] /\ loss = "no"

Ended(q) == q # <<>> /\ q[Len(q)] = Eof
End1(q) == IF Ended(q) THEN q ELSE Append(q, Eof)

-----------------------------------------------------------------------------
(* The two ends.  A named pipe in byte mode has no half-close.             *)
ClientSends ==
    /\ client = "open" /\ sent.up < MaxSent
    /\ sent' = [sent EXCEPT !.up = @ + 1]
    /\ fromClient' = Append(fromClient, sent.up + 1)
    /\ UNCHANGED <<kind, engine, host, guest, up, down, fromServer, atClient, atServer,
                   copiers, client, server, loss>>
ClientEnds ==
    /\ client = "open" /\ kind # "pipe" /\ client' = "half"
    /\ fromClient' = End1(fromClient)
    /\ UNCHANGED <<kind, engine, host, guest, up, down, fromServer, atClient, atServer,
                   copiers, server, sent, loss>>
ClientGone ==
    /\ client # "gone" /\ client' = "gone"
    /\ fromClient' = End1(fromClient)
    /\ UNCHANGED <<kind, engine, host, guest, up, down, fromServer, atClient, atServer,
                   copiers, server, sent, loss>>
ServerSends ==
    /\ server = "open" /\ guest = "pump" /\ sent.down < MaxSent
    /\ sent' = [sent EXCEPT !.down = @ + 1]
    /\ fromServer' = Append(fromServer, sent.down + 1)
    /\ UNCHANGED <<kind, engine, host, guest, up, down, fromClient, atClient, atServer,
                   copiers, client, server, loss>>
ServerEnds ==
    /\ server = "open" /\ guest = "pump" /\ server' \in {"half", "gone"}
    /\ fromServer' = End1(fromServer)
    /\ UNCHANGED <<kind, engine, host, guest, up, down, fromClient, atClient, atServer,
                   copiers, client, sent, loss>>

-----------------------------------------------------------------------------
(* The host's end.  Closing it drops both of its sockets.                  *)
CloseHost ==
    /\ host' = "closed"
    /\ up' = End1(up) /\ atClient' = End1(atClient)
    /\ hostUp' = FALSE /\ hostDown' = FALSE

(* connect_with_retry, and for a port the header that names the container. *)
HostConnects ==
    /\ host = "wait" /\ engine = "Ready"
    /\ \/ /\ host' = IF kind = "port" THEN "ack" ELSE "copy"
          /\ guest' = IF kind = "pipe" THEN "pump" ELSE "header"
          /\ UNCHANGED <<links, hostUp, hostDown>>
       \/ kind # "docker" /\ CloseHost /\ UNCHANGED <<guest, down, fromClient, fromServer, atServer>>
    /\ UNCHANGED <<kind, engine, guestUp, guestDown, ends, loss>>

(* wait_for_engine: a request waits for an engine that starts, and is      *)
(* answered 503 when the engine is stopped, failed, or still starting      *)
(* after five minutes.                                                     *)
HostRefuses ==
    /\ kind = "docker" /\ host = "wait"
    /\ host' = "closed" /\ hostUp' = FALSE /\ hostDown' = FALSE
    /\ atClient' = atClient \o <<Refusal, Eof>>
    /\ UNCHANGED <<kind, engine, guest, up, down, fromClient, fromServer, atServer,
                   guestUp, guestDown, ends, loss>>
EngineMoves ==
    /\ kind = "docker" /\ host = "wait"
    /\ engine' \in CASE engine = "Stopped" -> {"Starting"}
                     [] engine = "Starting" -> {"Ready", "Failed"}
                     [] OTHER -> {}
    /\ UNCHANGED <<kind, host, guest, links, copiers, ends, loss>>

(* relay_connection reads a line through a BufReader: it takes whatever    *)
(* has come with the acknowledgement, and into_inner drops that.           *)
ReadAck ==
    /\ host = "ack" /\ down # <<>>
    /\ \E n \in {k \in 1..Len(down) : down[k] # Eof} :
          /\ down' = SubSeq(down, n + 1, Len(down))
          /\ IF Head(down) = Ack
               THEN /\ host' = "copy" /\ UNCHANGED <<up, atClient, hostUp, hostDown>>
                    /\ loss' = IF n > 1 THEN "ack" ELSE loss
               ELSE CloseHost /\ UNCHANGED loss
    /\ UNCHANGED <<kind, engine, guest, fromClient, fromServer, atServer,
                   guestUp, guestDown, ends>>

(* A copier reads a message and writes it on; at the end of its input it   *)
(* shuts the other side down; so it does, or closes everything, when a     *)
(* write fails.  copy_bidirectional of a port, the two halves of the       *)
(* Docker proxy, the select of the shell and exec pipes.                   *)
(* Mutant: the end of the client is not passed on.                         *)
HostUpSilent ==
    /\ host = "copy" /\ hostUp /\ fromClient # <<>>
    /\ fromClient' = Tail(fromClient)
    /\ IF Head(fromClient) # Eof THEN up' = Append(up, Head(fromClient)) /\ UNCHANGED hostUp
                                 ELSE hostUp' = FALSE /\ UNCHANGED up
    /\ UNCHANGED <<kind, engine, host, guest, down, fromServer, atClient, atServer, hostDown,
                   guestUp, guestDown, ends, loss>>
HostUp ==
    /\ host = "copy" /\ hostUp /\ fromClient # <<>>
    /\ fromClient' = Tail(fromClient)
    /\ IF Head(fromClient) # Eof /\ guest # "closed"
         THEN up' = Append(up, Head(fromClient)) /\ UNCHANGED <<host, atClient, hostUp, hostDown>>
       ELSE IF kind = "pipe" \/ ~hostDown \/ (kind = "port" /\ Head(fromClient) # Eof)
         THEN CloseHost
       ELSE up' = End1(up) /\ hostUp' = FALSE /\ UNCHANGED <<host, atClient, hostDown>>
    /\ loss' = IF loss = "no" /\ Head(fromClient) # Eof /\ guest = "closed" THEN "cut" ELSE loss
    /\ UNCHANGED <<kind, engine, guest, down, fromServer, atServer,
                   guestUp, guestDown, ends>>

(* The proxy's half towards the client flushes and does not shut down.     *)
(* Mutant: neither does the copy of a port.                                *)
HostDownSilent ==
    /\ host = "copy" /\ hostDown /\ down # <<>>
    /\ down' = Tail(down)
    /\ IF Head(down) # Eof
         THEN /\ atClient' = IF client = "gone" THEN atClient ELSE Append(atClient, Head(down))
              /\ UNCHANGED <<host, up, hostUp, hostDown>>
       ELSE IF kind = "pipe" \/ ~hostUp THEN CloseHost
       ELSE hostDown' = FALSE /\ UNCHANGED <<host, up, hostUp, atClient>>
    /\ UNCHANGED <<kind, engine, guest, fromClient, fromServer, atServer,
                   guestUp, guestDown, ends, loss>>
(* Mutant: a write that takes only a part is not repeated.                 *)
HostDownShort ==
    /\ host = "copy" /\ hostDown /\ down # <<>> /\ Head(down) # Eof
    /\ down' = Tail(down) /\ atClient' \in {atClient, Append(atClient, Head(down))}
    /\ UNCHANGED <<kind, engine, host, guest, up, fromClient, fromServer, atServer,
                   copiers, ends, loss>>
HostDown ==
    /\ host = "copy" /\ hostDown /\ down # <<>>
    /\ down' = Tail(down)
    /\ IF Head(down) # Eof /\ client = "gone" /\ (kind # "docker" \/ ~hostUp) THEN CloseHost
       ELSE IF Head(down) # Eof
         THEN /\ atClient' = IF client = "gone" THEN atClient ELSE Append(atClient, Head(down))
              /\ UNCHANGED <<host, up, hostUp, hostDown>>
       ELSE IF kind = "pipe" \/ ~hostUp THEN CloseHost
       ELSE /\ hostDown' = FALSE /\ UNCHANGED <<host, up, hostUp>>
            /\ atClient' = IF kind = "port" THEN End1(atClient) ELSE atClient
    /\ UNCHANGED <<kind, engine, guest, fromClient, fromServer, atServer,
                   guestUp, guestDown, ends, loss>>

-----------------------------------------------------------------------------
(* The agent's end.  For a port it connects to the container first and     *)
(* answers the header; for docker it connects to dockerd, and closes the   *)
(* connection without a word when dockerd is not there.                    *)
GuestAnswers ==
    /\ guest = "header"
    /\ \/ guest' = "pump" /\ down' = IF kind = "port" THEN Append(down, Ack) ELSE down
       \/ /\ guest' = "closed"
          /\ down' = down \o IF kind = "port" THEN <<Refusal, Eof>> ELSE <<Eof>>
    /\ UNCHANGED <<kind, engine, host, up, fromClient, fromServer, atClient, atServer,
                   copiers, ends, loss>>

(* pump_fds: two threads, each of which propagates its own end.            *)
(* Mutant: the end of the client closes both ways.                         *)
PumpUpBoth ==
    /\ guest = "pump" /\ guestUp /\ up # <<>>
    /\ up' = Tail(up) /\ atServer' = Append(atServer, Head(up))
    /\ guestUp' = (Head(up) # Eof)
    /\ guestDown' = (guestDown /\ Head(up) # Eof)
    /\ down' = IF Head(up) = Eof THEN End1(down) ELSE down
    /\ UNCHANGED <<kind, engine, host, guest, fromClient, fromServer, atClient,
                   hostUp, hostDown, ends, loss>>
(* Mutant: a write that takes only a part is not repeated.                 *)
PumpUpShort ==
    /\ guest = "pump" /\ guestUp /\ up # <<>> /\ Head(up) # Eof
    /\ up' = Tail(up) /\ atServer' \in {atServer, Append(atServer, Head(up))}
    /\ UNCHANGED <<kind, engine, host, guest, down, fromClient, fromServer, atClient,
                   copiers, ends, loss>>
PumpUp ==
    /\ guest = "pump" /\ guestUp /\ up # <<>>
    /\ up' = Tail(up)
    /\ IF server = "gone" THEN guestUp' = FALSE /\ UNCHANGED atServer
       ELSE atServer' = Append(atServer, Head(up)) /\ guestUp' = (Head(up) # Eof)
    /\ UNCHANGED <<kind, engine, host, guest, down, fromClient, fromServer, atClient,
                   hostUp, hostDown, guestDown, ends, loss>>
PumpDown ==
    /\ guest = "pump" /\ guestDown /\ fromServer # <<>>
    /\ fromServer' = Tail(fromServer)
    /\ IF host = "closed" THEN guestDown' = FALSE /\ UNCHANGED down
       ELSE down' = Append(down, Head(fromServer)) /\ guestDown' = (Head(fromServer) # Eof)
    /\ UNCHANGED <<kind, engine, host, guest, up, fromClient, atClient, atServer,
                   hostUp, hostDown, guestUp, ends, loss>>
PumpOver ==
    /\ guest = "pump" /\ ~guestUp /\ ~guestDown /\ guest' = "closed"
    /\ UNCHANGED <<kind, engine, host, links, copiers, ends, loss>>

-----------------------------------------------------------------------------
Host == HostConnects \/ ReadAck \/ HostUp \/ HostDown
Guest == GuestAnswers \/ PumpUp \/ PumpDown \/ PumpOver
Next ==
    \/ ClientSends \/ ClientEnds \/ ClientGone \/ ServerSends \/ ServerEnds
    \/ HostRefuses \/ EngineMoves \/ Host \/ Guest

Fairness ==
    /\ WF_vars(HostConnects \/ ReadAck) /\ WF_vars(HostUp) /\ WF_vars(HostDown)
    /\ WF_vars(GuestAnswers) /\ WF_vars(PumpUp) /\ WF_vars(PumpDown)

Spec == Init /\ [][Next]_vars /\ Fairness

-----------------------------------------------------------------------------
Upto(n) == [i \in 1..n |-> i]
Told(q, n) == q = Upto(n) \/ q = Append(Upto(n), Eof)

(* Nothing is lost, repeated or reordered on the way to the server.        *)
ServerHearsPrefix == \E n \in 0..sent.up : Told(atServer, n)

(* Nor on the way to the client: "the BufReader has read nothing beyond    *)
(* the acknowledgement: the agent waits for our bytes before it sends      *)
(* any" (ports.rs).                                                        *)
ClientHearsPrefix == atClient = <<Refusal, Eof>> \/ \E n \in 0..sent.down : Told(atClient, n)

(* It holds as long as nothing came along with the acknowledgement: the    *)
(* agent pumps at once, and what the BufReader has read beyond the line is *)
(* lost with it.                                                           *)
ClientHearsPrefixElse == loss # "ack" => ClientHearsPrefix

(* A client that is there is told the end of the stream after all that the *)
(* server sent before it.  If the server has not ended, it was never       *)
(* reached.                                                                *)
EndComesLast ==
    Ended(atClient) /\ client # "gone" /\ loss = "no" =>
        IF server = "open" THEN sent.down = 0 ELSE Told(atClient, sent.down)

(* The end of what the server sends reaches the client; that of the docker *)
(* pipe only once it has ended as well: the proxy flushes its half towards *)
(* the client and goes on waiting for requests (forward_requests, join!),  *)
(* although "the end of the stream (dockerd has closed) disconnects the    *)
(* client" (docker_pipe.rs).                                               *)
ServerEndReachesElse ==
    []<>(\/ server = "open" \/ Ended(atClient) \/ client = "gone"
         \/ kind = "docker" /\ client = "open")

(* The end of what the client sends reaches the server, whatever the       *)
(* server still has to say.                                                *)
ClientEndReaches ==
    []<>(client = "half" /\ host \in {"copy", "closed"} /\ guest = "pump"
            => Ended(atServer) \/ server = "gone")
=============================================================================
