---------------------------- MODULE StreamProofs ---------------------------
(***************************************************************************)
(* Proofs about a relayed connection and the instances of the Docker pipe. *)
(***************************************************************************)
EXTENDS Streams, Sequences, TLAPS

(* One relayed connection.                                                 *)
Queue == Seq(R!Message)

(* A queue carries the messages after a up to b, in order, and perhaps the *)
(* end.                                                                    *)
Run(q, a, n) == \A i \in 1..n : q[i] = a + i
Carries(q, a, b) ==
    /\ q \in Queue /\ a \in Nat /\ b \in Nat /\ a <= b
    /\ \/ Len(q) = b - a
       \/ Len(q) = b - a + 1 /\ q[Len(q)] = R!Eof
    /\ Run(q, a, b - a)

Endless(q) == \A i \in 1..Len(q) : q[i] # R!Eof

StreamTypes ==
    /\ kind \in {"port", "docker", "pipe"}
    /\ engine \in {"Stopped", "Starting", "Ready", "Failed"}
    /\ host \in {"wait", "ack", "copy", "closed"}
    /\ guest \in {"none", "header", "pump", "closed"}
    /\ loss \in {"no", "ack", "cut"} /\ client \in R!End /\ server \in R!End
    /\ sent \in [up : 0..MaxSent, down : 0..MaxSent]
RelayCopiers ==
    hostUp \in BOOLEAN /\ hostDown \in BOOLEAN /\ guestUp \in BOOLEAN /\ guestDown \in BOOLEAN
RelayQueues ==
    /\ up \in Queue /\ down \in Queue /\ fromClient \in Queue /\ fromServer \in Queue
    /\ atClient \in Queue /\ atServer \in Queue

(* Where the host's end and the agent's are together, and what an end that *)
(* still sends has not done.                                               *)
Phases ==
    /\ host = "wait" => guest = "none" /\ atClient = <<>>
    /\ host = "ack" => atClient = <<>>
    /\ host \in {"wait", "ack"} => hostDown
    /\ host = "closed" => ~hostDown /\ ~hostUp
    /\ guest = "none" => host \in {"wait", "closed"}
    /\ guest = "header" => \/ kind = "port" /\ host = "ack"
                           \/ kind = "docker" /\ host = "copy" /\ hostDown /\ atClient = <<>>
    /\ guest \in {"none", "header"} =>
          down = <<>> /\ fromServer = <<>> /\ server = "open" /\ sent.down = 0 /\ guestDown
    /\ guest = "closed" => \/ ~guestUp /\ ~guestDown
                           \/ /\ host = "ack" => down # <<>> /\ Head(down) # R!Ack
                              /\ server = "open" /\ sent.down = 0
    /\ client = "open" => Endless(fromClient)
    /\ kind = "pipe" => client # "half"
    /\ server = "open" => ~R!Ended(fromServer)

(* The way to the server: it has the messages up to a, the Hyper-V socket  *)
(* those up to b, the relay has yet to read the rest.                      *)
Upward(a, b) ==
    /\ Carries(atServer, 0, a) /\ a <= b /\ b <= sent.up
    /\ guestUp => ~R!Ended(atServer) /\ Carries(up, a, b)
    /\ guestUp /\ hostUp => ~R!Ended(up) /\ Carries(fromClient, b, sent.up)

(* The way back, as long as nothing was lost with the acknowledgement.     *)
Heard(c) == (atClient = <<R!Refusal, R!Eof>> /\ host = "closed") \/ Carries(atClient, 0, c)
Acknowledged(d) ==
    \/ guest = "header"
    \/ /\ guest = "closed" /\ down = <<R!Refusal, R!Eof>>
       /\ guestDown /\ server = "open" /\ sent.down = 0
    \/ guest # "none" /\ down # <<>> /\ Head(down) = R!Ack /\ Carries(Tail(down), 0, d)
Downward(c, d) ==
    /\ Heard(c) /\ c \in Nat /\ c <= d /\ d \in 0..sent.down
    /\ host = "ack" => c = 0 /\ Acknowledged(d)
    /\ host = "copy" /\ hostDown /\ client # "gone" => ~R!Ended(atClient) /\ Carries(down, c, d)
    /\ hostDown /\ guestDown /\ guest = "pump" => ~R!Ended(down) /\ Carries(fromServer, d, sent.down)
    /\ hostDown /\ ~guestDown => server # "open" /\ d = sent.down
    /\ loss = "no" /\ client # "gone" /\ ~hostDown =>
          IF server = "open" THEN guest \in {"none", "closed"} /\ sent.down = 0
                             ELSE Carries(atClient, 0, sent.down)

UpInv == \E a, b \in Nat : Upward(a, b)
DownInv == loss # "ack" => \E c, d \in Nat : Downward(c, d)
RelayInv == StreamTypes /\ RelayCopiers /\ RelayQueues /\ Phases /\ UpInv /\ DownInv

-----------------------------------------------------------------------------
(* Only the empty queue has length zero.                                   *)
LEMMA EmptyQueue == ASSUME NEW q \in Queue PROVE q = <<>> <=> Len(q) = 0
  BY DEF Queue

(* What Append, Tail and End1 make of a queue.                             *)
LEMMA QueueTypes ==
    ASSUME NEW q \in Queue
    PROVE  /\ Len(q) \in Nat /\ R!End1(q) \in Queue /\ R!Ended(R!End1(q))
           /\ \A m \in R!Message : Append(q, m) \in Queue
           /\ q # <<>> => Tail(q) \in Queue /\ Head(q) \in R!Message
           /\ q # <<>> /\ R!Ended(Tail(q)) => R!Ended(q)
<1>1. R!Eof \in R!Message
  BY RelayAssumption DEF R!Message, R!Eof
<1>2. Len(q) \in Nat /\ \A m \in R!Message : Append(q, m) \in Queue
  BY DEF Queue
<1>3. q # <<>> => Tail(q) \in Queue /\ Head(q) \in R!Message
  BY DEF Queue
<1>4. R!End1(q) \in Queue
  BY <1>1, <1>2 DEF R!End1
<1>5. R!Ended(R!End1(q))
  <2>1. /\ Append(q, R!Eof) \in Seq(R!Message) /\ Len(Append(q, R!Eof)) = Len(q) + 1
        /\ Append(q, R!Eof)[Len(q) + 1] = R!Eof
    BY <1>1 DEF Queue
  <2>2. Append(q, R!Eof) # <<>>
    BY <1>2, <2>1
  <2> QED
    BY <2>1, <2>2 DEF R!End1, R!Ended
<1>6. q # <<>> /\ R!Ended(Tail(q)) => R!Ended(q)
  BY DEF R!Ended, Queue
<1> QED
  BY <1>2, <1>3, <1>4, <1>5, <1>6

(* The next message follows the ones that a queue carries.                 *)
LEMMA CarriesNext ==
    ASSUME NEW q, NEW a, NEW b, Carries(q, a, b), ~R!Ended(q), b + 1 \in R!Message
    PROVE  Carries(Append(q, b + 1), a, b + 1) /\ ~R!Ended(Append(q, b + 1))
<1>1. Len(q) = b - a /\ q \in Queue /\ a \in Nat /\ b \in Nat /\ a <= b
  BY DEF Carries, R!Ended, Queue
<1>2. Append(q, b + 1) \in Queue /\ Len(Append(q, b + 1)) = b + 1 - a
  BY <1>1 DEF Queue
<1>3. \A i \in 1..(b + 1 - a) : Append(q, b + 1)[i] = a + i
  BY <1>1, SMTT(30) DEF Queue, Carries, Run
<1> QED
  BY <1>1, <1>2, <1>3 DEF Carries, Run, R!Ended, R!Eof

(* An end of stream changes nothing of what a queue carries.               *)
LEMMA CarriesEnd ==
    ASSUME NEW q, NEW a, NEW b, Carries(q, a, b)
    PROVE  Carries(R!End1(q), a, b)
<1>1. CASE R!Ended(q)
  BY <1>1 DEF R!End1
<1>2. CASE ~R!Ended(q)
  <2>1. Len(q) = b - a /\ q \in Queue /\ a \in Nat /\ b \in Nat /\ a <= b /\ R!Eof \in R!Message
    BY <1>2, RelayAssumption DEF Carries, R!Ended, Queue, R!Message, R!Eof
  <2>2. /\ Append(q, R!Eof) \in Queue /\ Len(Append(q, R!Eof)) = b - a + 1
        /\ Append(q, R!Eof)[b - a + 1] = R!Eof
    BY <2>1 DEF Queue
  <2>3. \A i \in 1..(b - a) : Append(q, R!Eof)[i] = a + i
    BY <2>1 DEF Queue, Carries, Run
  <2> QED
    BY <1>2, <2>1, <2>2, <2>3 DEF R!End1, Carries, Run
<1> QED
  BY <1>1, <1>2

(* What is read from a queue is the next message, or the end after the     *)
(* last one.                                                               *)
LEMMA CarriesHead ==
    ASSUME NEW q, NEW a, NEW b, Carries(q, a, b), q # <<>>
    PROVE  /\ Head(q) # R!Eof => Head(q) = a + 1 /\ a < b /\ Carries(Tail(q), a + 1, b)
           /\ Head(q) = R!Eof => a = b /\ R!Ended(q) /\ Tail(q) = <<>>
<1>1. /\ q \in Queue /\ a \in Nat /\ b \in Nat /\ a <= b /\ Len(q) \in Nat \ {0}
      /\ Len(q) = b - a \/ (Len(q) = b - a + 1 /\ q[Len(q)] = R!Eof)
      /\ \A i \in 1..(b - a) : q[i] = a + i
  BY DEF Carries, Queue, Run
<1>2. CASE a = b
  <2>1. Len(q) = 1 /\ q[1] = R!Eof
    BY <1>1, <1>2
  <2>2. Tail(q) \in Queue /\ Len(Tail(q)) = 0 /\ Head(q) = R!Eof
    BY <1>1, <2>1 DEF Queue
  <2>3. Tail(q) = <<>>
    BY <2>2, EmptyQueue, Zenon
  <2> QED
    BY <1>2, <2>1, <2>2, <2>3 DEF R!Ended
<1>3. CASE a < b
  <2>1. Head(q) = a + 1
    BY <1>1, <1>3 DEF Queue
  <2>2. Tail(q) \in Queue /\ Len(Tail(q)) = Len(q) - 1
    BY <1>1 DEF Queue
  <2>3. \A i \in 1..Len(Tail(q)) : Tail(q)[i] = q[i + 1]
    BY <1>1 DEF Queue
  <2>4. \A i \in 1..(b - (a + 1)) : Tail(q)[i] = a + 1 + i
    BY <1>1, <1>3, <2>2, <2>3
  <2>5. Len(Tail(q)) = b - (a + 1) \/ (Len(Tail(q)) = b - (a + 1) + 1 /\ Tail(q)[Len(Tail(q))] = R!Eof)
    BY <1>1, <1>3, <2>2, <2>3
  <2>6. Carries(Tail(q), a + 1, b)
    BY <1>1, <1>3, <2>2, <2>4, <2>5 DEF Carries, Run
  <2> QED
    BY <1>1, <1>3, <2>1, <2>6 DEF R!Eof
<1> QED
  BY <1>1, <1>2, <1>3

(* A queue that carries the messages up to n is told them.                 *)
LEMMA CarriesTold ==
    ASSUME NEW q, NEW n, Carries(q, 0, n)
    PROVE  R!Told(q, n)
<1>1. q \in Queue /\ n \in Nat /\ \A i \in 1..n : q[i] = i
  BY DEF Carries, Run
<1>2. CASE Len(q) = n
  <2>1. q = R!Upto(n)
    BY <1>1, <1>2 DEF R!Upto, Queue
  <2> QED
    BY <2>1 DEF R!Told
<1>3. CASE Len(q) = n + 1 /\ q[n + 1] = R!Eof
  <2>1. R!Upto(n) \in Seq(Nat) /\ Len(R!Upto(n)) = n
    BY <1>1 DEF R!Upto
  <2>2. /\ Append(R!Upto(n), R!Eof) \in Seq(Nat) /\ Len(Append(R!Upto(n), R!Eof)) = n + 1
        /\ Append(R!Upto(n), R!Eof)[n + 1] = R!Eof
    BY <2>1 DEF R!Eof
  <2>3. \A i \in 1..n : Append(R!Upto(n), R!Eof)[i] = i
    BY <1>1, <2>1 DEF R!Upto
  <2>4. q \in Seq(Nat)
    BY <1>1, RelayAssumption DEF Queue, R!Message
  <2>5. \A i \in 1..(n + 1) : q[i] = Append(R!Upto(n), R!Eof)[i]
    BY <1>1, <1>3, <2>2, <2>3
  <2>6. q = Append(R!Upto(n), R!Eof)
    BY <1>3, <2>2, <2>4, <2>5
  <2> QED
    BY <2>6 DEF R!Told
<1> QED
  BY <1>1, <1>2, <1>3 DEF Carries

-----------------------------------------------------------------------------
(* CloseHost ends both of the host's queues.                               *)
LEMMA RelayTypesStep == ASSUME StreamTypes, [R!Next]_relay PROVE StreamTypes'
<1> USE RelayAssumption
<1>1. CASE R!ClientSends \/ R!ServerSends
  BY <1>1, SMTT(30) DEF R!ClientSends, R!ServerSends, StreamTypes, R!End
<1>2. CASE R!ClientEnds \/ R!ClientGone \/ R!ServerEnds
  BY <1>2 DEF R!ClientEnds, R!ClientGone, R!ServerEnds, StreamTypes, R!End
<1>3. CASE R!HostRefuses \/ R!EngineMoves
  BY <1>3 DEF R!HostRefuses, R!EngineMoves, StreamTypes, R!ends
<1>4. CASE R!HostConnects \/ R!ReadAck
  BY <1>4 DEF R!HostConnects, R!ReadAck, R!CloseHost, StreamTypes, R!ends
<1>5. CASE R!HostUp \/ R!HostDown
  BY <1>5 DEF R!HostUp, R!HostDown, R!CloseHost, StreamTypes, R!ends
<1>6. CASE R!Guest
  BY <1>6 DEF R!Guest, R!GuestAnswers, R!PumpUp, R!PumpDown, R!PumpOver, StreamTypes, R!ends
<1>7. CASE UNCHANGED relay
  BY <1>7 DEF relay, StreamTypes, R!ends
<1> QED
  BY <1>1, <1>2, <1>3, <1>4, <1>5, <1>6, <1>7 DEF R!Next, R!Host

(* Every step keeps the types of the copying threads.                      *)
LEMMA RelayCopiersStep ==
    ASSUME RelayCopiers, [R!Next]_relay PROVE RelayCopiers'
<1>1. CASE R!ClientSends \/ R!ServerSends \/ R!ClientEnds \/ R!ClientGone \/ R!ServerEnds
           \/ R!EngineMoves
  BY <1>1 DEF R!ClientSends, R!ServerSends, R!ClientEnds, R!ClientGone, R!ServerEnds,
     R!EngineMoves,
              RelayCopiers, R!copiers
<1>2. CASE R!HostRefuses \/ R!HostConnects \/ R!ReadAck
  BY <1>2, Zenon DEF R!HostRefuses, R!HostConnects, R!ReadAck, R!CloseHost, RelayCopiers
<1>3. CASE R!HostUp \/ R!HostDown
  BY <1>3, Zenon DEF R!HostUp, R!HostDown, R!CloseHost, RelayCopiers
<1>4. CASE R!Guest
  BY <1>4, Zenon DEF R!Guest, R!GuestAnswers, R!PumpUp, R!PumpDown, R!PumpOver,
     RelayCopiers, R!copiers
<1>5. CASE UNCHANGED relay
  BY <1>5 DEF relay, RelayCopiers, R!copiers
<1> QED
  BY <1>1, <1>2, <1>3, <1>4, <1>5 DEF R!Next, R!Host

(* Every step keeps the types of the queues.                               *)
LEMMA RelayQueuesStep ==
    ASSUME StreamTypes, RelayQueues, [R!Next]_relay PROVE RelayQueues'
<1>0. /\ sent.up + 1 \in R!Message \/ ~(sent.up < MaxSent)
      /\ sent.down + 1 \in R!Message \/ ~(sent.down < MaxSent)
      /\ R!Eof \in R!Message /\ R!Ack \in R!Message /\ R!Refusal \in R!Message
  BY RelayAssumption DEF StreamTypes, R!Message, R!Eof, R!Ack, R!Refusal
<1>q. \A q \in Queue : /\ R!End1(q) \in Queue /\ \A m \in R!Message : Append(q, m) \in Queue
                       /\ q # <<>> => Tail(q) \in Queue /\ Head(q) \in R!Message
  BY QueueTypes
<1>r. \A q \in Queue : q \o <<R!Refusal, R!Eof>> \in Queue /\ q \o <<R!Eof>> \in Queue
  BY <1>0 DEF Queue
<1>1. CASE R!ClientSends \/ R!ServerSends
  BY <1>0, <1>1, <1>q, Zenon DEF R!ClientSends, R!ServerSends, RelayQueues
<1>2. CASE R!ClientEnds \/ R!ClientGone \/ R!ServerEnds
  BY <1>2, <1>q DEF R!ClientEnds, R!ClientGone, R!ServerEnds, RelayQueues
<1>3. CASE R!HostRefuses
  BY <1>3, <1>r DEF R!HostRefuses, RelayQueues
<1>4. CASE R!EngineMoves \/ R!HostConnects
  BY <1>4, <1>q DEF R!EngineMoves, R!HostConnects, R!CloseHost, RelayQueues, R!links
<1>5. CASE R!ReadAck
  <2>1. \A n \in 1..Len(down) : SubSeq(down, n + 1, Len(down)) \in Queue
    BY DEF RelayQueues, Queue
  <2> QED
    BY <1>5, <1>q, <2>1 DEF R!ReadAck, R!CloseHost, RelayQueues
<1>6. CASE R!HostUp
  BY <1>6, <1>q, Zenon DEF R!HostUp, R!CloseHost, RelayQueues
<1>7. CASE R!HostDown
  BY <1>7, <1>q, Zenon DEF R!HostDown, R!CloseHost, RelayQueues
<1>8. CASE R!GuestAnswers
  BY <1>0, <1>8, <1>q, <1>r, Zenon DEF R!GuestAnswers, RelayQueues
<1>9. CASE R!PumpUp \/ R!PumpDown
  BY <1>9, <1>q, Zenon DEF R!PumpUp, R!PumpDown, RelayQueues
<1>10. CASE R!PumpOver \/ UNCHANGED relay
  BY <1>10 DEF R!PumpOver, relay, R!links, RelayQueues
<1> QED
  BY <1>1, <1>2, <1>3, <1>4, <1>5, <1>6, <1>7, <1>8, <1>9, <1>10 DEF R!Next, R!Host, R!Guest

(* The two ends of the relay go through their phases together.             *)
LEMMA PhasesStep ==
    ASSUME StreamTypes, RelayCopiers, RelayQueues, Phases, [R!Next]_relay
    PROVE  Phases'
<1>0. /\ ~R!Ended(<<>>) /\ R!Ended(fromServer) => fromServer # <<>>
      /\ fromServer # <<>> /\ R!Ended(Tail(fromServer)) => R!Ended(fromServer)
  BY QueueTypes DEF R!Ended, RelayQueues
<1>n. \A q \in Queue, n \in Nat : ~R!Ended(Append(q, n + 1))
  BY DEF R!Ended, Queue, R!Eof
<1>e. /\ \A n \in Nat : Endless(fromClient) => Endless(Append(fromClient, n + 1))
      /\ Endless(fromClient) /\ fromClient # <<>> => Endless(Tail(fromClient))
  BY DEF Endless, RelayQueues, Queue, R!Eof
<1>1. CASE R!ClientSends
  BY <1>1, <1>e DEF R!ClientSends, Phases, R!copiers, RelayQueues, StreamTypes
<1>2. CASE R!ServerSends
  BY <1>2, <1>n DEF R!ServerSends, Phases, R!copiers, RelayQueues, StreamTypes
<1>3. CASE R!ClientEnds \/ R!ClientGone \/ R!ServerEnds
  BY <1>3 DEF R!ClientEnds, R!ClientGone, R!ServerEnds, Phases, R!copiers
<1>4. CASE R!HostRefuses \/ R!EngineMoves
  BY <1>4 DEF R!HostRefuses, R!EngineMoves, Phases, R!copiers, R!links, R!ends
<1>5. CASE R!HostConnects
  BY <1>5, Zenon DEF R!HostConnects, R!CloseHost, Phases, R!links, R!ends, StreamTypes
<1>6. CASE R!ReadAck
  <2>1. guest \notin {"none", "header"} /\ host = "ack" /\ UNCHANGED <<guest, guestUp, guestDown>>
    BY <1>6 DEF R!ReadAck, Phases
  <2>2. \/ Head(down) = R!Ack /\ host' = "copy" /\ UNCHANGED <<atClient, hostUp, hostDown>>
        \/ host' = "closed" /\ ~hostUp' /\ ~hostDown'
    BY <1>6 DEF R!ReadAck, R!CloseHost
  <2>3. UNCHANGED <<kind, client, server, sent, fromClient, fromServer>>
    BY <1>6 DEF R!ReadAck, R!ends
  <2> QED
    BY <2>1, <2>2, <2>3, Zenon DEF Phases
<1>7. CASE R!HostUp
  BY <1>7, <1>e, Zenon DEF R!HostUp, R!CloseHost, Phases, R!ends
<1>8. CASE R!HostDown
  BY <1>8, Zenon DEF R!HostDown, R!CloseHost, Phases, R!ends
<1>9. CASE R!GuestAnswers
  <2>1. down = <<>>
    BY <1>9 DEF R!GuestAnswers, Phases
  <2>2. <<>> \o <<R!Refusal, R!Eof>> = <<R!Refusal, R!Eof>> /\ Head(<<R!Refusal, R!Eof>>) # R!Ack
    BY RelayAssumption DEF R!Refusal, R!Ack
  <2> QED
    BY <1>9, <2>1, <2>2 DEF R!GuestAnswers, Phases, R!ends, R!copiers
<1>10. CASE R!PumpUp
  BY <1>10 DEF R!PumpUp, Phases, R!ends
<1>11. CASE R!PumpDown
  BY <1>0, <1>11 DEF R!PumpDown, Phases, R!ends
<1>12. CASE R!PumpOver \/ UNCHANGED relay
  BY <1>12 DEF R!PumpOver, Phases, relay, R!links, R!ends, R!copiers
<1> QED
  BY <1>1, <1>2, <1>3, <1>4, <1>5, <1>6, <1>7, <1>8, <1>9, <1>10, <1>11, <1>12
     DEF R!Next, R!Host, R!Guest

(* Every step keeps the order of what goes to the server.                  *)
LEMMA UpwardStep ==
    ASSUME StreamTypes, RelayCopiers, RelayQueues, Phases, UpInv, [R!Next]_relay
    PROVE  UpInv'
<1> PICK a \in Nat, b \in Nat : Upward(a, b)
  BY DEF UpInv
<1>0. sent.up \in Nat /\ sent.up <= MaxSent /\ \A n \in Nat : n < MaxSent => n + 1 \in R!Message
  BY RelayAssumption DEF StreamTypes, R!Message
<1>1. CASE R!ClientSends
  <2>1. sent'.up = sent.up + 1 /\ sent.up + 1 \in R!Message /\ ~R!Ended(fromClient)
    <3>0. ~R!Ended(fromClient)
      <4>1. fromClient # <<>> => Len(fromClient) \in 1..Len(fromClient)
        BY EmptyQueue, QueueTypes DEF RelayQueues
      <4> QED
        BY <1>1, <4>1 DEF R!ClientSends, Phases, Endless, R!Ended
    <3>1. sent.up < MaxSent /\ sent'.up = sent.up + 1
      BY <1>1 DEF R!ClientSends, StreamTypes
    <3> QED
      BY <1>0, <3>0, <3>1
  <2>2. guestUp /\ hostUp => Carries(fromClient', b, sent'.up)
    BY <1>1, <2>1, CarriesNext DEF R!ClientSends, Upward
  <2> QED
    BY <1>0, <1>1, <2>1, <2>2 DEF R!ClientSends, Upward, UpInv, R!copiers
<1>2. CASE R!ClientEnds \/ R!ClientGone
  <2>1. guestUp /\ hostUp => Carries(fromClient', b, sent.up)
    BY <1>2, CarriesEnd DEF R!ClientEnds, R!ClientGone, Upward
  <2> QED
    BY <1>2, <2>1 DEF R!ClientEnds, R!ClientGone, Upward, UpInv, R!copiers
<1>3. CASE up' = R!End1(up) /\ ~hostUp' /\ UNCHANGED <<atServer, sent, guestUp>>
  <2>1. guestUp => Carries(up', a, b)
    BY <1>3, CarriesEnd DEF Upward
  <2> QED
    BY <1>3, <2>1 DEF Upward, UpInv
<1>4. CASE R!HostUp
  <2>1. CASE Head(fromClient) # R!Eof /\ guest # "closed"
    <3>1. /\ fromClient # <<>> /\ hostUp /\ fromClient' = Tail(fromClient)
          /\ up' = Append(up, Head(fromClient)) /\ UNCHANGED <<hostUp, guestUp, atServer, sent>>
      BY <1>4, <2>1 DEF R!HostUp, R!ends
    <3>2. CASE guestUp
      <4>1. Head(fromClient) = b + 1 /\ b < sent.up /\ Carries(Tail(fromClient), b + 1, sent.up)
        BY <2>1, <3>1, <3>2, CarriesHead, Zenon DEF Upward
      <4>2. Carries(up', a, b + 1) /\ ~R!Ended(up')
        <5>1. b + 1 \in R!Message
          BY <1>0, <4>1, RelayAssumption
        <5> QED
          BY <3>1, <3>2, <4>1, <5>1, CarriesNext, Zenon DEF Upward
      <4>3. Upward(a, b + 1)'
        BY <1>0, <3>1, <3>2, <4>1, <4>2 DEF Upward
      <4> QED
        BY <4>3 DEF UpInv
    <3>3. CASE ~guestUp
      BY <3>1, <3>3 DEF Upward, UpInv
    <3> QED
      BY <3>2, <3>3
  <2>2. CASE ~(Head(fromClient) # R!Eof /\ guest # "closed")
    BY <1>3, <1>4, <2>2, Zenon DEF R!HostUp, R!CloseHost, R!ends
  <2> QED
    BY <2>1, <2>2
<1>5. CASE R!PumpUp
  <2>1. guestUp /\ up # <<>> /\ up' = Tail(up) /\ UNCHANGED <<hostUp, sent, fromClient>>
    BY <1>5 DEF R!PumpUp, R!ends
  <2>2. CASE server = "gone"
    BY <1>5, <2>1, <2>2 DEF R!PumpUp, Upward, UpInv
  <2>3. CASE server # "gone" /\ Head(up) # R!Eof
    <3>0. Head(up) = a + 1 /\ a < b /\ Carries(Tail(up), a + 1, b)
      BY <2>1, <2>3, CarriesHead, Zenon DEF Upward
    <3>1. Head(up) = a + 1 /\ a < b /\ Carries(Tail(up), a + 1, b) /\ a + 1 \in R!Message
      BY <1>0, <3>0, RelayAssumption DEF Upward
    <3>2. atServer' = Append(atServer, a + 1) /\ guestUp'
      BY <1>5, <2>3, <3>1, Zenon DEF R!PumpUp
    <3>3. Carries(atServer', 0, a + 1) /\ ~R!Ended(atServer')
      BY <2>1, <3>1, <3>2, CarriesNext, Zenon DEF Upward
    <3>4. hostUp => ~R!Ended(up')
      BY <2>1, QueueTypes DEF Upward, RelayQueues
    <3>5. Upward(a + 1, b)'
      BY <2>1, <3>1, <3>2, <3>3, <3>4 DEF Upward
    <3> QED
      BY <3>5 DEF UpInv
  <2>4. CASE server # "gone" /\ Head(up) = R!Eof
    <3>1. atServer' = R!End1(atServer) /\ ~guestUp'
      BY <1>5, <2>1, <2>4, Zenon DEF R!PumpUp, R!End1, Upward
    <3>2. Carries(atServer', 0, a)
      BY <3>1, CarriesEnd DEF Upward
    <3> QED
      BY <2>1, <3>1, <3>2 DEF Upward, UpInv
  <2> QED
    BY <2>2, <2>3, <2>4
<1>6. CASE /\ UNCHANGED <<up, atServer, fromClient, guestUp>> /\ sent'.up = sent.up
           /\ UNCHANGED hostUp \/ ~hostUp'
  BY <1>6 DEF Upward, UpInv
<1>7. CASE R!ServerSends \/ R!ServerEnds \/ R!HostRefuses \/ R!EngineMoves
  BY <1>6, <1>7 DEF R!ServerSends, R!ServerEnds, R!HostRefuses, R!EngineMoves, R!links,
     R!ends, R!copiers, StreamTypes
<1>8. CASE R!HostConnects
  BY <1>3, <1>6, <1>8 DEF R!HostConnects, R!CloseHost, R!links, R!ends
<1>9. CASE R!ReadAck
  BY <1>3, <1>6, <1>9 DEF R!ReadAck, R!CloseHost, R!links, R!ends
<1>10. CASE R!HostDown
  BY <1>3, <1>6, <1>10, Zenon DEF R!HostDown, R!CloseHost, R!links, R!ends
<1>11. CASE R!GuestAnswers \/ R!PumpDown \/ R!PumpOver \/ UNCHANGED relay
  BY <1>6, <1>11 DEF R!GuestAnswers, R!PumpDown, R!PumpOver, relay, R!links, R!ends, R!copiers
<1> QED
  BY <1>1, <1>2, <1>4, <1>5, <1>7, <1>8, <1>9, <1>10, <1>11 DEF R!Next, R!Host, R!Guest

(* An empty queue carries nothing, and has no end.                         *)
LEMMA NothingCarried == Carries(<<>>, 0, 0) /\ ~R!Ended(<<>>)
  BY DEF Carries, Run, Queue, R!Ended

(* A queue that is not empty keeps its head when it grows.                 *)
LEMMA QueueAppend ==
    ASSUME NEW q \in Queue, q # <<>>, NEW m \in R!Message
    PROVE  /\ Append(q, m) # <<>> /\ Head(Append(q, m)) = Head(q)
           /\ Tail(Append(q, m)) = Append(Tail(q), m)
  BY DEF Queue

(* Every step keeps the order of what goes back to the client.             *)
LEMMA DownwardStep ==
    ASSUME StreamTypes, RelayCopiers, RelayQueues, Phases, DownInv, [R!Next]_relay
    PROVE  DownInv'
<1> SUFFICES ASSUME loss' # "ack" PROVE DownInv'
  BY DEF DownInv
<1>l. loss # "ack" /\ (loss' = "no" => loss = "no")
  BY DEF R!Next, R!Host, R!Guest, R!ClientSends, R!ClientEnds, R!ClientGone, R!ServerSends,
     R!ServerEnds, R!HostRefuses,
         R!EngineMoves, R!HostConnects, R!ReadAck, R!HostUp, R!HostDown, R!GuestAnswers, R!PumpUp, R!PumpDown, R!PumpOver,
         relay
<1> PICK c \in Nat, d \in Nat : Downward(c, d)
  BY <1>l DEF DownInv
<1>0. /\ sent.down \in Nat /\ sent.down <= MaxSent /\ \A n \in Nat : n < MaxSent => n + 1 \in R!Message
      /\ c <= d /\ d <= sent.down
  BY RelayAssumption DEF StreamTypes, R!Message, Downward
<1>1. CASE /\ UNCHANGED <<host, guest, down, fromServer, atClient, hostDown, guestDown, server>>
           /\ sent'.down = sent.down /\ (client # "gone" \/ client' = "gone")
  BY <1>l, <1>1 DEF Downward, DownInv, Heard, Acknowledged
<1>2. CASE R!ClientSends \/ R!ClientEnds \/ R!ClientGone \/ R!EngineMoves \/ R!PumpUp
           \/ UNCHANGED relay
  BY <1>1, <1>2 DEF R!ClientSends, R!ClientEnds, R!ClientGone, R!EngineMoves, R!PumpUp,
     relay, R!links, R!ends, R!copiers, StreamTypes
<1>3. CASE R!ServerSends
  <2>1. /\ sent.down < MaxSent /\ sent'.down = sent.down + 1 /\ guest = "pump" /\ server = "open"
        /\ fromServer' = Append(fromServer, sent.down + 1)
        /\ UNCHANGED <<host, guest, down, atClient, hostDown, guestDown, client, server, loss>>
    BY <1>3 DEF R!ServerSends, StreamTypes, R!copiers
  <2>2. hostDown /\ guestDown => Carries(fromServer', d, sent'.down)
    <3>1. sent.down + 1 \in R!Message /\ ~R!Ended(fromServer)
      BY <1>0, <2>1 DEF Phases
    <3> QED
      BY <2>1, <3>1, CarriesNext DEF Downward
  <2> QED
    BY <1>0, <2>1, <2>2 DEF Downward, DownInv, Heard, Acknowledged
<1>4. CASE R!ServerEnds
  <2>1. /\ guest = "pump" /\ server = "open" /\ server' # "open" /\ fromServer' = R!End1(fromServer)
        /\ UNCHANGED <<host, guest, down, atClient, hostDown, guestDown, client, sent, loss>>
    BY <1>4 DEF R!ServerEnds, R!copiers
  <2>2. hostDown /\ guestDown => Carries(fromServer', d, sent.down)
    BY <2>1, CarriesEnd DEF Downward
  <2> QED
    BY <2>1, <2>2 DEF Downward, DownInv, Heard, Acknowledged
<1>5. CASE R!HostConnects
  <2>1. /\ down = <<>> /\ atClient = <<>> /\ fromServer = <<>> /\ server = "open"
        /\ sent.down = 0 /\ guestDown /\ hostDown
    BY <1>5 DEF R!HostConnects, Phases
  <2>2. UNCHANGED <<down, fromServer, server, sent, guestDown>>
    BY <1>5 DEF R!HostConnects, R!links, R!ends
  <2>3. CASE /\ host' \in {"ack", "copy"} /\ UNCHANGED <<atClient, hostDown>>
             /\ guest' \in {"header", "pump"} /\ (host' = "ack" => guest' = "header")
    <3>1. Downward(0, 0)'
      BY <2>1, <2>2, <2>3, NothingCarried DEF Downward, Heard, Acknowledged
    <3> QED
      BY <3>1 DEF DownInv
  <2>4. CASE host' = "closed" /\ atClient' = R!End1(atClient) /\ ~hostDown' /\ guest' = guest
    <3>1. Carries(atClient', 0, 0) /\ guest = "none"
      BY <1>5, <2>1, <2>4, NothingCarried, CarriesEnd DEF R!HostConnects, Phases
    <3>2. Downward(0, 0)'
      BY <2>1, <2>2, <2>4, <3>1 DEF Downward, Heard, Acknowledged
    <3> QED
      BY <3>2 DEF DownInv
  <2> QED
    BY <1>5, <2>3, <2>4 DEF R!HostConnects, R!CloseHost, R!links
<1>6. CASE R!HostRefuses
  <2>1. /\ atClient = <<>> /\ server = "open" /\ sent.down = 0 /\ guest = "none"
    BY <1>6 DEF R!HostRefuses, Phases
  <2>2. <<>> \o <<R!Refusal, R!Eof>> = <<R!Refusal, R!Eof>>
    OBVIOUS
  <2>3. Downward(c, d)'
    BY <1>6, <2>1, <2>2 DEF R!HostRefuses, Downward, Heard, Acknowledged, R!ends
  <2> QED
    BY <2>3 DEF DownInv
<1>7. CASE R!ReadAck
  <2>1. /\ host = "ack" /\ down # <<>> /\ atClient = <<>> /\ hostDown /\ c = 0
        /\ guest # "header" /\ UNCHANGED <<guest, guestDown, fromServer, server, sent, client>>
    BY <1>7 DEF R!ReadAck, Phases, Downward, R!ends
  <2>2. CASE Head(down) = R!Ack
    <3>1. Carries(Tail(down), 0, d)
      BY <2>1, <2>2, RelayAssumption DEF Downward, Acknowledged, R!Ack, R!Refusal
    <3>2. down' = SubSeq(down, 2, Len(down)) /\ host' = "copy" /\ UNCHANGED <<atClient, hostDown>>
      BY <1>7, <2>2 DEF R!ReadAck
    <3>3. down' = Tail(down)
      BY <2>1, <3>2 DEF RelayQueues, Queue
    <3>4. guestDown /\ guest = "pump" => ~R!Ended(down')
      BY <2>1, <3>3, QueueTypes DEF Downward, RelayQueues
    <3>5. Downward(0, d)'
      BY <1>l, <2>1, <3>1, <3>2, <3>3, <3>4, NothingCarried, Zenon DEF Downward, Heard,
         Acknowledged
    <3> QED
      BY <3>5 DEF DownInv
  <2>3. CASE Head(down) # R!Ack
    <3>1. guest = "closed" /\ server = "open" /\ sent.down = 0
      BY <2>1, <2>3 DEF Downward, Acknowledged
    <3>2. host' = "closed" /\ atClient' = R!End1(atClient) /\ ~hostDown'
      BY <1>7, <2>3 DEF R!ReadAck, R!CloseHost
    <3>3. Carries(atClient', 0, 0)
      BY <2>1, <3>2, NothingCarried, CarriesEnd
    <3>4. Downward(0, 0)'
      BY <2>1, <3>1, <3>2, <3>3 DEF Downward, Heard, Acknowledged
    <3> QED
      BY <3>4 DEF DownInv
  <2> QED
    BY <2>2, <2>3
<1>8. CASE R!HostUp
  <2>1. /\ host = "copy" /\ fromClient # <<>> /\ Carries(atClient, 0, c)
        /\ UNCHANGED <<guest, guestDown, down, fromServer, server, sent, client>>
    BY <1>8 DEF R!HostUp, R!ends, Downward, Heard
  <2>2. CASE UNCHANGED <<host, atClient, hostDown>>
    BY <1>1, <2>1, <2>2
  <2>3. CASE host' = "closed" /\ atClient' = R!End1(atClient) /\ ~hostDown'
    <3>1. loss' = "no" /\ client # "gone" =>
            IF server = "open" THEN guest \in {"none", "closed"} /\ sent.down = 0
                               ELSE Carries(atClient, 0, sent.down)
      <4> SUFFICES ASSUME loss' = "no", client # "gone" PROVE ~hostDown
        BY <1>l DEF Downward
      <4>1. Head(fromClient) = R!Eof \/ guest # "closed"
        BY <1>8 DEF R!HostUp
      <4>2. kind = "pipe" => Head(fromClient) # R!Eof
        <5>1. kind = "pipe" => client = "open"
          BY DEF Phases, StreamTypes, R!End
        <5>2. Endless(fromClient) => Head(fromClient) # R!Eof
          BY <2>1 DEF Endless, RelayQueues, Queue
        <5> QED
          BY <5>1, <5>2 DEF Phases
      <4>3. ~(Head(fromClient) # R!Eof /\ guest # "closed")
        BY <1>8, <2>1, <2>3 DEF R!HostUp
      <4> QED
        BY <1>8, <2>1, <2>3, <4>1, <4>2, <4>3 DEF R!HostUp
    <3>2. Carries(atClient', 0, c) /\ (Carries(atClient, 0, sent.down) => Carries(atClient', 0, sent.down))
      BY <2>1, <2>3, CarriesEnd, SMTT(30)
    <3>3. Downward(c, d)'
      BY <1>0, <2>1, <2>3, <3>1, <3>2 DEF Downward, Heard, Acknowledged
    <3> QED
      BY <3>3 DEF DownInv
  <2> QED
    BY <1>8, <2>2, <2>3, Zenon DEF R!HostUp, R!CloseHost
<1>9. CASE R!HostDown
  <2>1. /\ host = "copy" /\ hostDown /\ down # <<>> /\ down' = Tail(down) /\ Carries(atClient, 0, c)
        /\ UNCHANGED <<guest, guestDown, fromServer, server, sent, client, loss>>
    BY <1>9 DEF R!HostDown, R!ends, Downward, Heard
  <2>2. R!Ended(down') => R!Ended(down)
    BY <2>1, QueueTypes, SMTT(30) DEF RelayQueues
  <2>3. CASE host' = "copy" /\ hostDown' /\ atClient' = atClient /\ client = "gone"
    BY <1>0, <2>1, <2>2, <2>3 DEF Downward, DownInv, Heard, Acknowledged
  <2>4. CASE /\ host' = "copy" /\ hostDown' /\ client # "gone" /\ Head(down) # R!Eof
             /\ atClient' = Append(atClient, Head(down))
    <3>1. Head(down) = c + 1 /\ c < d /\ Carries(Tail(down), c + 1, d)
      BY <2>1, <2>4, CarriesHead, Zenon DEF Downward
    <3>2. c + 1 \in R!Message
      BY <1>0, <3>1, RelayAssumption
    <3>3. Carries(atClient', 0, c + 1) /\ ~R!Ended(atClient')
      BY <2>1, <2>4, <3>1, <3>2, CarriesNext DEF Downward
    <3>4. Downward(c + 1, d)'
      BY <1>0, <2>1, <2>2, <2>4, <3>1, <3>3 DEF Downward, Heard, Acknowledged
    <3> QED
      BY <3>4, SMTT(30) DEF DownInv
  <2>5. CASE ~hostDown' /\ host' # "ack" /\ atClient' \in {atClient, R!End1(atClient)} /\ (client = "gone" \/ Head(down) = R!Eof)
    <3>1. client # "gone" => IF server = "open" THEN guest = "closed" /\ sent.down = 0
                             ELSE c = sent.down
      <4> SUFFICES ASSUME client # "gone"
                   PROVE  IF server = "open" THEN guest = "closed" /\ sent.down = 0
                          ELSE c = sent.down
        OBVIOUS
      <4>1. c = d /\ R!Ended(down)
        BY <2>1, <2>5, CarriesHead, Zenon DEF Downward
      <4>2. ~guestDown \/ (guest = "closed" /\ server = "open" /\ sent.down = 0)
        BY <2>1, <4>1 DEF Downward, Phases, StreamTypes
      <4> QED
        BY <2>1, <4>1, <4>2 DEF Downward
    <3>2. Carries(atClient', 0, c)
      BY <2>1, <2>5, CarriesEnd
    <3>3. Downward(c, d)'
      BY <1>0, <2>1, <2>5, <3>1, <3>2 DEF Downward, Heard, Acknowledged
    <3> QED
      BY <3>3 DEF DownInv
  <2>6. CASE Head(down) # R!Eof
    BY <1>9, <2>1, <2>3, <2>4, <2>5, <2>6, Zenon DEF R!HostDown, R!CloseHost
  <2>7. CASE Head(down) = R!Eof
    BY <1>9, <2>1, <2>5, <2>7, Zenon DEF R!HostDown, R!CloseHost
  <2> QED
    BY <2>6, <2>7
<1>10. CASE R!GuestAnswers
  <2>1. /\ guest = "header" /\ down = <<>> /\ fromServer = <<>> /\ server = "open"
        /\ sent.down = 0 /\ guestDown /\ atClient = <<>> /\ hostDown
        /\ (kind = "port" /\ host = "ack") \/ (kind = "docker" /\ host = "copy")
        /\ UNCHANGED <<host, hostDown, guestDown, fromServer, server, sent, client, atClient>>
    BY <1>10 DEF R!GuestAnswers, Phases, R!copiers, R!ends
  <2>2. /\ Append(<<>>, R!Ack) = <<R!Ack>> /\ <<>> \o <<R!Refusal, R!Eof>> = <<R!Refusal, R!Eof>>
        /\ Head(<<R!Ack>>) = R!Ack /\ Tail(<<R!Ack>>) = <<>> /\ <<R!Ack>> # <<>> /\ ~R!Ended(<<R!Ack>>)
    BY RelayAssumption DEF R!Ended, R!Ack, R!Eof
  <2>3. Carries(<<>> \o <<R!Eof>>, 0, 0)
    <3>1. <<>> \o <<R!Eof>> = R!End1(<<>>)
      BY DEF R!End1, R!Ended, R!Eof
    <3> QED
      BY <3>1, NothingCarried, CarriesEnd, Zenon
  <2>4. Downward(0, 0)'
    <3>1. CASE host = "ack" /\ guest' = "pump" /\ down' = <<R!Ack>>
      BY <2>1, <2>2, <3>1, NothingCarried, SMTT(30) DEF Downward, Heard, Acknowledged
    <3>2. CASE host = "ack" /\ guest' = "closed" /\ down' = <<R!Refusal, R!Eof>>
      BY <2>1, <3>2, NothingCarried, SMTT(30) DEF Downward, Heard, Acknowledged
    <3>3. CASE host = "copy" /\ guest' = "pump" /\ down' = <<>>
      BY <2>1, <3>3, NothingCarried DEF Downward, Heard
    <3>4. CASE host = "copy" /\ guest' = "closed" /\ down' = <<>> \o <<R!Eof>>
      BY <2>1, <2>3, <3>4, NothingCarried DEF Downward, Heard
    <3> QED
      BY <1>10, <2>1, <2>2, <3>1, <3>2, <3>3, <3>4, Zenon DEF R!GuestAnswers
  <2> QED
    BY <2>4 DEF DownInv
<1>11. CASE R!PumpOver
  BY <1>0, <1>11 DEF R!PumpOver, Downward, DownInv, Heard, Acknowledged, R!links,
     R!copiers, R!ends
<1>12. CASE R!PumpDown
  <2>1. /\ guest = "pump" /\ guestDown /\ fromServer # <<>> /\ fromServer' = Tail(fromServer)
        /\ UNCHANGED <<host, guest, atClient, hostDown, server, sent, client, loss>>
    BY <1>12, SMTT(30) DEF R!PumpDown, R!ends
  <2>2. CASE ~hostDown
    BY <1>0, <2>1, <2>2 DEF Downward, DownInv, Heard, Acknowledged, Phases
  <2>3. CASE hostDown /\ Head(fromServer) # R!Eof
    <3>1. Head(fromServer) = d + 1 /\ d < sent.down /\ Carries(Tail(fromServer), d + 1, sent.down)
      BY <2>1, <2>3, CarriesHead DEF Downward
    <3>2. d + 1 \in R!Message /\ down \in Queue /\ ~R!Ended(down)
      BY <1>0, <2>1, <2>3, <3>1, RelayAssumption DEF RelayQueues, Downward
    <3>3. down' = Append(down, d + 1) /\ guestDown'
      BY <1>12, <2>3, <3>1, Zenon DEF R!PumpDown, Phases
    <3>4. ~R!Ended(down')
      BY <3>2, <3>3 DEF R!Ended, Queue, R!Eof
    <3>5. host = "copy" /\ client # "gone" => Carries(down', c, d + 1)
      BY <2>3, <3>2, <3>3, CarriesNext DEF Downward
    <3>6. host = "ack" => down' # <<>> /\ Head(down') = R!Ack /\ Carries(Tail(down'), 0, d + 1)
      <4> SUFFICES ASSUME host = "ack"
                   PROVE  down' # <<>> /\ Head(down') = R!Ack /\ Carries(Tail(down'), 0, d + 1)
        OBVIOUS
      <4>1. down # <<>> /\ Head(down) = R!Ack /\ Carries(Tail(down), 0, d)
        BY <2>1 DEF Downward, Acknowledged
      <4>2. ~R!Ended(Tail(down))
        BY <3>2, <4>1, QueueTypes
      <4>3. Carries(Append(Tail(down), d + 1), 0, d + 1)
        BY <3>2, <4>1, <4>2, CarriesNext
      <4> QED
        BY <3>2, <3>3, <4>1, <4>3, QueueAppend, Zenon
    <3>7. Downward(c, d + 1)'
      BY <1>0, <2>1, <2>3, <3>1, <3>3, <3>4, <3>5, <3>6, SMTT(30) DEF Downward, Heard,
         Acknowledged
    <3> QED
      BY <3>7, SMTT(30) DEF DownInv
  <2>4. CASE hostDown /\ Head(fromServer) = R!Eof
    <3>1. d = sent.down /\ R!Ended(fromServer) /\ server # "open" /\ ~R!Ended(down) /\ down \in Queue
      BY <2>1, <2>4, CarriesHead, Zenon DEF Downward, Phases, RelayQueues
    <3>2. down' = Append(down, R!Eof) /\ ~guestDown'
      BY <1>12, <2>4, Zenon DEF R!PumpDown, Phases
    <3>3. host = "copy" /\ client # "gone" => Carries(down', c, d)
      BY <2>4, <3>1, <3>2, CarriesEnd DEF Downward, R!End1
    <3>4. host = "ack" => down' # <<>> /\ Head(down') = R!Ack /\ Carries(Tail(down'), 0, d)
      <4> SUFFICES ASSUME host = "ack"
                   PROVE  down' # <<>> /\ Head(down') = R!Ack /\ Carries(Tail(down'), 0, d)
        OBVIOUS
      <4>1. down # <<>> /\ Head(down) = R!Ack /\ Carries(Tail(down), 0, d)
        BY <2>1 DEF Downward, Acknowledged
      <4>2. ~R!Ended(Tail(down))
        BY <3>1, <4>1, QueueTypes
      <4>3. Carries(Append(Tail(down), R!Eof), 0, d)
        BY <4>1, <4>2, CarriesEnd DEF R!End1
      <4>4. R!Eof \in R!Message
        BY RelayAssumption DEF R!Eof, R!Message
      <4> QED
        BY <3>1, <3>2, <4>1, <4>3, <4>4, QueueAppend, Zenon
    <3>5. Downward(c, d)'
      BY <1>0, <2>1, <2>4, <3>1, <3>2, <3>3, <3>4 DEF Downward, Heard, Acknowledged
    <3> QED
      BY <3>5 DEF DownInv
  <2> QED
    BY <2>2, <2>3, <2>4
<1> QED
  BY <1>2, <1>3, <1>4, <1>5, <1>6, <1>7, <1>8, <1>9, <1>10, <1>11, <1>12 DEF R!Next,
     R!Host, R!Guest

(* The invariant of the relay is inductive.                                *)
LEMMA RelayStep == ASSUME RelayInv, [R!Next]_relay PROVE RelayInv'
  BY RelayTypesStep, RelayCopiersStep, RelayQueuesStep, PhasesStep, UpwardStep,
     DownwardStep DEF RelayInv

(* A connection that nobody has used.                                      *)
LEMMA RelayInit == ASSUME R!Init PROVE RelayInv
<1>1. StreamTypes
  BY RelayAssumption DEF R!Init, StreamTypes, R!End
<1>2. RelayCopiers
  BY DEF R!Init, RelayCopiers
<1>3. RelayQueues
  BY DEF R!Init, RelayQueues, Queue
<1>4. Phases
  BY DEF R!Init, Phases, Endless, R!Ended
<1>5. Upward(0, 0) /\ Downward(0, 0)
  BY NothingCarried DEF R!Init, Upward, Downward, Heard
<1> QED
  BY <1>1, <1>2, <1>3, <1>4, <1>5 DEF RelayInv, UpInv, DownInv

(* What the invariant says of the messages at both ends.                   *)
LEMMA RelaySound ==
    ASSUME RelayInv
    PROVE  R!TypeOK /\ R!ServerHearsPrefix /\ R!ClientHearsPrefixElse /\ R!EndComesLast
<1>1. R!TypeOK
  BY DEF RelayInv, StreamTypes, RelayCopiers, RelayQueues, Queue, R!TypeOK
<1>2. R!ServerHearsPrefix
  <2>1. PICK a \in Nat, b \in Nat : Upward(a, b)
    BY DEF RelayInv, UpInv
  <2>2. a \in 0..sent.up /\ Carries(atServer, 0, a)
    BY <2>1 DEF Upward, RelayInv, StreamTypes
  <2> QED
    BY <2>2, CarriesTold DEF R!ServerHearsPrefix
<1>3. ASSUME loss # "ack" PROVE R!ClientHearsPrefix /\ R!EndComesLast
  <2>1. PICK c \in Nat, d \in Nat : Downward(c, d)
    BY <1>3 DEF RelayInv, DownInv
  <2>2. c \in 0..sent.down
    BY <2>1 DEF Downward, RelayInv, StreamTypes
  <2>3. R!ClientHearsPrefix
    BY <2>1, <2>2, CarriesTold DEF R!ClientHearsPrefix, Downward, Heard
  <2>4. ASSUME R!Ended(atClient), client # "gone", loss = "no"
        PROVE  IF server = "open" THEN sent.down = 0 ELSE R!Told(atClient, sent.down)
    <3>1. ~hostDown
      BY <2>1, <2>4, NothingCarried DEF Downward, RelayInv, Phases, StreamTypes
    <3> QED
      BY <2>1, <2>4, <3>1, CarriesTold DEF Downward
  <2> QED
    BY <2>3, <2>4 DEF R!EndComesLast
<1>4. loss = "ack" => R!EndComesLast
  BY DEF R!EndComesLast
<1> QED
  BY <1>1, <1>2, <1>3, <1>4 DEF R!ClientHearsPrefixElse

-----------------------------------------------------------------------------
(* The named pipe of docker.                                               *)
PipeOf == {"none", "listens", "connected", "cut", "closed"}
ClientOf == {"none", "open", "ended", "gone"}

(* TypeOK; the end of the answer is written once, after at most MaxAnswer  *)
(* messages, and what the client has not read was written.                 *)
PipeTypes ==
    /\ acceptor \in [pc : {"create", "wait"}, on : Instance \cup {0}]
    /\ inst \in [Instance -> [pipe : PipeOf, client : ClientOf]]
    /\ reader \in [Instance -> {"none", "read", "done"}]
    /\ writer \in [Instance -> {"none", "copy", "flush", "grace", "done"}]
    /\ proxy \in [Instance -> {"none", "open", "ended"}]
    /\ unread \in [Instance -> Nat] /\ told \in [Instance -> Nat]

(* An instance that no client was accepted on has no threads.  An instance *)
(* is disconnected by the thread that writes, which has flushed before.    *)
PipeFlow ==
    /\ acceptor.pc = "wait" => acceptor.on \in Instance /\ inst[acceptor.on].pipe = "listens"
    /\ \A i \in Instance :
          /\ inst[i].pipe \in {"none", "listens"} => writer[i] = "none"
          /\ writer[i] = "none" => told[i] = 0
          /\ writer[i] = "copy" => told[i] <= MaxAnswer
          /\ writer[i] \in {"grace", "done"} => unread[i] = 0
          /\ inst[i].pipe = "cut" => writer[i] = "done"
          /\ unread[i] <= told[i] /\ told[i] <= MaxAnswer + 1

PipeInv == PipeTypes /\ PipeFlow

(* An instance with another state, and with another state of its client.   *)
LEMMA InstanceTypes ==
    ASSUME inst \in [Instance -> [pipe : PipeOf, client : ClientOf]], NEW i \in Instance
    PROVE  /\ \A p \in PipeOf :
                [inst EXCEPT ![i].pipe = p] \in [Instance -> [pipe : PipeOf, client : ClientOf]]
           /\ \A c \in ClientOf :
                [inst EXCEPT ![i].client = c] \in [Instance -> [pipe : PipeOf, client : ClientOf]]
  OBVIOUS

(* Every step keeps the types of the instances.                            *)
LEMMA PipeTypesStep == ASSUME PipeInv, [I!Next]_pipe PROVE PipeTypes'
<1>0. /\ PipeTypes /\ "listens" \in PipeOf /\ "connected" \in PipeOf
      /\ "cut" \in PipeOf /\ "closed" \in PipeOf
      /\ "open" \in ClientOf /\ "ended" \in ClientOf /\ "gone" \in ClientOf
  BY DEF PipeInv, PipeOf, ClientOf
<1>1. CASE I!Create
  <2>1. PICK i \in Instance : /\ acceptor' = [pc |-> "wait", on |-> i]
                              /\ inst' = [inst EXCEPT ![i].pipe = "listens"]
    BY <1>1, Zenon DEF I!Create, I!Free
  <2>2. inst' \in [Instance -> [pipe : PipeOf, client : ClientOf]]
    BY <1>0, <2>1, InstanceTypes DEF PipeTypes
  <2> QED
    BY <1>0, <1>1, <2>1, <2>2 DEF PipeTypes, I!Create, I!Conn
<1>2. CASE I!Accept
  <2>1. acceptor.on \in Instance
    BY <1>2 DEF I!Accept, PipeInv, PipeFlow
  <2>2. inst' \in [Instance -> [pipe : PipeOf, client : ClientOf]]
    <3>1. \/ inst' = [inst EXCEPT ![acceptor.on].pipe = "closed"]
          \/ inst' = [inst EXCEPT ![acceptor.on].pipe = "connected"]
      BY <1>2, Zenon DEF I!Accept
    <3>2. \A p \in PipeOf : [inst EXCEPT ![acceptor.on].pipe = p]
                              \in [Instance -> [pipe : PipeOf, client : ClientOf]]
      BY <1>0, <2>1, InstanceTypes DEF PipeTypes
    <3> QED
      BY <1>0, <3>1, <3>2
  <2>3. acceptor' \in [pc : {"create", "wait"}, on : Instance \cup {0}]
    BY <1>0, <1>2 DEF PipeTypes, I!Accept
  <2> QED
    BY <1>0, <1>2, <2>1, <2>2, <2>3, Zenon DEF PipeTypes, I!Accept, I!Conn
<1>3. ASSUME NEW i \in Instance, I!Client(i) PROVE PipeTypes'
  <2>1. CASE I!ClientReads(i)
    BY <1>0, <2>1 DEF PipeTypes, I!ClientReads
  <2>2. CASE I!ClientOpens(i) \/ I!ClientEnds(i) \/ I!ClientCloses(i)
    <3>1. inst' \in [Instance -> [pipe : PipeOf, client : ClientOf]]
      BY <1>0, <2>2, InstanceTypes, SMTT(30) DEF PipeTypes, I!ClientOpens, I!ClientEnds,
         I!ClientCloses
    <3> QED
      BY <1>0, <2>2, <3>1 DEF PipeTypes, I!ClientOpens, I!ClientEnds, I!ClientCloses, I!Conn
  <2> QED
    BY <1>3, <2>1, <2>2 DEF I!Client
<1>4. ASSUME NEW i \in Instance, I!ProxyEnds(i) \/ I!WriterCopies(i) \/ I!ReaderFails(i)
      PROVE  PipeTypes'
  <2>1. CASE I!WriterCopies(i)
    BY <1>0, <2>1 DEF PipeTypes, I!WriterCopies
  <2> QED
    BY <1>0, <1>4, <2>1, Zenon DEF PipeTypes, I!ProxyEnds, I!ReaderFails
<1>5. ASSUME NEW i \in Instance, I!Threads(i) PROVE PipeTypes'
  BY <1>5, SMTT(30) DEF PipeInv, PipeTypes, PipeOf, I!Threads, I!ReaderEnds, I!WriterEnds,
     I!WriterFlushes,
              I!WriterDisconnects, I!Close, I!Conn
<1>6. CASE UNCHANGED pipe
  BY <1>6 DEF PipeInv, PipeTypes, pipe
<1> QED
  BY <1>1, <1>2, <1>3, <1>4, <1>5, <1>6 DEF I!Next

(* A writer leaves its instance alone until the client has read            *)
(* everything, or is gone.                                                 *)
LEMMA PipeFlowStep == ASSUME PipeInv, [I!Next]_pipe PROVE PipeFlow'
<1> USE PipeAssumption
<1>1. CASE I!Create
  <2>1. \E i \in I!Free : acceptor' = [pc |-> "wait", on |-> i] /\ inst' = [inst EXCEPT ![i].pipe = "listens"]
    BY <1>1, Zenon DEF I!Create
  <2> QED
    BY <1>1, <2>1 DEF PipeInv, PipeTypes, PipeFlow, I!Free, I!Create, I!Conn
<1>2. CASE I!Accept
  <2>1. acceptor.on \in Instance /\ inst[acceptor.on].pipe = "listens" /\ acceptor'.pc = "create"
    BY <1>2 DEF I!Accept, PipeInv, PipeFlow, PipeTypes
  <2> QED
    BY <1>2, <2>1 DEF PipeInv, PipeTypes, PipeFlow, I!Accept, I!Conn
<1>3. ASSUME NEW i \in Instance, I!Client(i) PROVE PipeFlow'
  <2>1. CASE I!ClientReads(i)
    BY <2>1 DEF PipeInv, PipeTypes, PipeFlow, I!ClientReads
  <2>2. CASE I!ClientCloses(i)
    BY <2>2 DEF PipeInv, PipeTypes, PipeFlow, I!ClientCloses
  <2>3. CASE I!ClientOpens(i)
    BY <2>3 DEF PipeInv, PipeTypes, PipeFlow, I!ClientOpens, I!Conn
  <2>4. CASE I!ClientEnds(i)
    BY <2>4 DEF PipeInv, PipeTypes, PipeFlow, I!ClientEnds, I!Conn
  <2> QED
    BY <1>3, <2>1, <2>2, <2>3, <2>4 DEF I!Client
<1>4. ASSUME NEW i \in Instance, I!ProxyEnds(i) \/ I!WriterCopies(i)
             \/ I!ReaderFails(i) PROVE PipeFlow'
  <2>1. CASE I!ProxyEnds(i) \/ I!ReaderFails(i)
    BY <2>1 DEF PipeInv, PipeTypes, PipeFlow, I!ProxyEnds, I!ReaderFails
  <2>2. CASE I!WriterCopies(i)
    BY <2>2 DEF PipeInv, PipeTypes, PipeFlow, I!WriterCopies
  <2> QED
    BY <1>4, <2>1, <2>2
<1>5. ASSUME NEW i \in Instance, I!Threads(i) PROVE PipeFlow'
  <2>1. CASE I!WriterEnds(i)
    BY <2>1 DEF PipeInv, PipeTypes, PipeFlow, I!WriterEnds
  <2>2. CASE I!Close(i)
    BY <2>2 DEF PipeInv, PipeTypes, PipeFlow, I!Close, I!Conn
  <2>3. CASE I!ReaderEnds(i) \/ I!WriterFlushes(i) \/ I!WriterDisconnects(i)
    BY <2>3, SMTT(30) DEF PipeInv, PipeTypes, PipeFlow, I!ReaderEnds, I!WriterFlushes,
       I!WriterDisconnects
  <2> QED
    BY <1>5, <2>1, <2>2, <2>3 DEF I!Threads
<1>6. CASE UNCHANGED pipe
  BY <1>6 DEF PipeInv, PipeFlow, pipe
<1> QED
  BY <1>1, <1>2, <1>3, <1>4, <1>5, <1>6 DEF I!Next

(* No instance exists before the accept loop makes one.                    *)
LEMMA PipeInit == ASSUME I!Init PROVE PipeInv
  BY PipeAssumption DEF I!Init, PipeInv, PipeTypes, PipeFlow, PipeOf, ClientOf

(* What the invariant says of the answers.                                 *)
LEMMA PipeSound == ASSUME PipeInv PROVE I!TypeOK /\ I!AnswerNotCut
<1>1. I!TypeOK
  BY PipeAssumption DEF PipeInv, PipeTypes, PipeFlow, PipeOf, ClientOf, I!TypeOK
<1>2. I!AnswerNotCut
  BY DEF PipeInv, PipeTypes, PipeFlow, I!AnswerNotCut
<1> QED
  BY <1>1, <1>2

-----------------------------------------------------------------------------
(* A step is a step of one part, or leaves it alone.                       *)
LEMMA StreamsParts == [StreamsNext]_streams => [R!Next]_relay /\ [I!Next]_pipe
  BY Zenon DEF StreamsNext, StreamsStep, streams

(* What one end of a relayed connection sends arrives at the other in      *)
(* order and before its end, whichever end closes first and whether or not *)
(* the agent reaches the server, for any amount of data; the one exception *)
(* is what came along with the acknowledgement of a port, which is lost    *)
(* (ports.rs, docker_proxy.rs, relay.rs, forward.rs).  And no answer on    *)
(* the named pipe is cut, for any number of instances (docker_pipe.rs).    *)
THEOREM StreamsArriveWhole == StreamsSpec => []StreamsWhole
<1>1. StreamsInit => RelayInv /\ PipeInv
  BY RelayInit, PipeInit DEF StreamsInit
<1>2. RelayInv /\ PipeInv /\ [StreamsNext]_streams => RelayInv' /\ PipeInv'
  BY RelayStep, PipeTypesStep, PipeFlowStep, StreamsParts DEF PipeInv
<1>3. RelayInv /\ PipeInv => StreamsWhole
  BY RelaySound, PipeSound DEF StreamsWhole
<1> QED
  BY <1>1, <1>2, <1>3, PTL DEF StreamsSpec
=============================================================================
