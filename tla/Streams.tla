------------------------------ MODULE Streams ------------------------------
(***************************************************************************)
(* What carries bytes between the host and the machine: a relayed          *)
(* connection, and the instances of the named pipe on which the Docker     *)
(* proxy answers.  They share no state.                                    *)
(***************************************************************************)
EXTENDS Naturals

CONSTANTS MaxSent, Instance, MaxAnswer

ASSUME RelayAssumption == MaxSent \in Nat
ASSUME PipeAssumption == MaxAnswer \in Nat

VARIABLES
    kind, engine, host, guest, up, down, fromClient, fromServer, atClient, atServer,
    hostUp, hostDown, guestUp, guestDown, client, server, sent, loss,
    acceptor, inst, reader, writer, proxy, unread, told

R == INSTANCE Relay
I == INSTANCE DockerPipe WITH accept <- acceptor

relay == <<kind, engine, host, guest, up, down, fromClient, fromServer, atClient, atServer,
           hostUp, hostDown, guestUp, guestDown, client, server, sent, loss>>
pipe == <<acceptor, inst, reader, writer, proxy, unread, told>>
streams == <<relay, pipe>>

StreamsInit == R!Init /\ I!Init
StreamsStep(part) ==
    \/ part = "relay" /\ R!Next /\ UNCHANGED pipe
    \/ part = "pipe" /\ I!Next /\ UNCHANGED relay
StreamsNext == \E part \in {"relay", "pipe"} : StreamsStep(part)
StreamsSpec == StreamsInit /\ [][StreamsNext]_streams

-----------------------------------------------------------------------------
(* Relay: what one end sends arrives at the other in order, before its     *)
(* end, except for what a container sends along with the acknowledgement   *)
(* of its port, which relay drops (ports.rs, docker_proxy.rs, relay.rs,    *)
(* forward.rs); DockerPipe: the client of the pipe has read an answer      *)
(* before it is disconnected.                                              *)
StreamsWhole ==
    /\ R!TypeOK /\ R!ServerHearsPrefix /\ R!ClientHearsPrefixElse /\ R!EndComesLast
    /\ I!TypeOK /\ I!AnswerNotCut
=============================================================================
