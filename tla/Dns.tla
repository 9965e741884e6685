-------------------------------- MODULE Dns --------------------------------
(***************************************************************************)
(* The DNS relay of the machine: crates/solon-agent/src/dns.rs.  It puts a *)
(* container's question to the upstream servers in turn, passes the first  *)
(* answer back, and remembers which name each address was resolved from,   *)
(* so that the trace can say "api.stripe.com" instead of an address.       *)
(*                                                                         *)
(* Answers come late or never.  A question's socket has a port that later  *)
(* questions may get again.                                                *)
(***************************************************************************)
EXTENDS Naturals, Sequences, FiniteSets

CONSTANTS Worker,        \* the threads a question can be given, model values
          Id,            \* identifiers of questions
          Name, Ip,      \* names and addresses, model values
          Port,          \* the ephemeral ports of the upstream sockets
          Servers,       \* how many upstream servers there are
          MAX_IN_FLIGHT, MAX_NAMES,
          MaxQuestions,  \* bound: questions that are asked
          MaxIps         \* bound: addresses in an answer

VARIABLES
    asked,    \* questions asked so far
    worker,   \* per thread: Free, or its question, its server and its socket
    flight,   \* IN_FLIGHT
    net,      \* answers on their way: port, server, id, the name and the addresses
    names,    \* NAMES: addresses with their names, the one seen longest ago first
    told      \* history: the last answer passed on, with its question

vars == <<asked, worker, flight, net, names, told>>

Question == [id : Id, name : Name]
Answer == [port : Port, server : 1..Servers, id : Id, name : Name, ips : SUBSET Ip]
NoQuestion == [id |-> 0, name |-> 0]
NoAnswer == [id |-> 0, name |-> 0, ips |-> {}]
Idle == [at |-> "free", q |-> NoQuestion, server |-> 0, port |-> 0, got |-> NoAnswer]
Busy == {w \in Worker : worker[w].at # "free"}
Bound(p) == \E w \in Busy : worker[w].at = "wait" /\ worker[w].port = p

TypeOK ==
    /\ flight \in 0..MAX_IN_FLIGHT /\ asked \in 0..MaxQuestions
    /\ \A w \in Busy : worker[w].q \in Question /\ worker[w].at \in {"ask", "wait", "learn"}
    /\ net \subseteq Answer /\ names \in Seq([ip : Ip, name : Name])

Init == asked = 0 /\ worker = [w \in Worker |-> Idle] /\ flight = 0 /\ net = {}
        /\ names = <<>> /\ told = <<>>

-----------------------------------------------------------------------------
(* serve: a question, dropped when too many are served, or when no thread  *)
(* can be made, which gives its place back.                                *)
(* Mutant: the place is not given back.                                    *)
ReceiveLeaks(q) ==
    /\ asked < MaxQuestions /\ asked' = asked + 1
    /\ IF flight >= MAX_IN_FLIGHT THEN UNCHANGED <<worker, flight>>
       ELSE /\ flight' = flight + 1
            /\ \/ \E w \in Worker \ Busy : worker' = [worker EXCEPT ![w] = [Idle EXCEPT !.at = "ask", !.q = q]]
               \/ UNCHANGED worker
    /\ UNCHANGED <<net, names, told>>
Receive(q) ==
    /\ asked < MaxQuestions /\ asked' = asked + 1
    /\ IF flight >= MAX_IN_FLIGHT THEN UNCHANGED <<worker, flight>>
       ELSE \/ /\ flight' = flight + 1
               /\ \E w \in Worker \ Busy :
                     worker' = [worker EXCEPT ![w] = [Idle EXCEPT !.at = "ask", !.q = q]]
            \/ UNCHANGED <<worker, flight>>
    /\ UNCHANGED <<net, names, told>>

(* resolve: the next server, on a socket of its own.  The server may       *)
(* answer, whenever it likes; the question may be lost.                    *)
Ask(w) ==
    /\ worker[w].at = "ask" /\ worker[w].server < Servers
    /\ LET s == worker[w].server + 1 IN
       \/ worker' = [worker EXCEPT ![w].server = s] /\ UNCHANGED net
       \/ \E p \in {p \in Port : ~Bound(p)} :
             /\ worker' = [worker EXCEPT ![w].server = s, ![w].port = p, ![w].at = "wait"]
             /\ \/ UNCHANGED net
                \/ \E ips \in {S \in SUBSET Ip : Cardinality(S) <= MaxIps} :
                      net' = net \cup {[port |-> p, server |-> s, id |-> worker[w].q.id,
                                        name |-> worker[w].q.name, ips |-> ips]}
    /\ UNCHANGED <<asked, flight, names, told>>

(* The socket is connected, so only its server's answers reach it.         *)
Reaches(a, w) == a.port = worker[w].port /\ a.server = worker[w].server
(* Mutant: any answer will do.                                             *)
CarriesAny(a, w) == TRUE
Carries(a, w) == a.id = worker[w].q.id

(* remember: the older half goes when the table is full and the address is *)
(* new, and the entry of an address that is not moves to the end; name_of  *)
(* reads the entry.                                                        *)
Known(i) == \E k \in DOMAIN names : names[k].ip = i
Without(p) == [k \in 1..(Len(names) - 1) |-> names[IF k < p THEN k ELSE k + 1]]
Kept(i) ==
    CASE Known(i) -> Without(CHOOSE k \in DOMAIN names : names[k].ip = i)
      [] ~Known(i) /\ Len(names) >= MAX_NAMES -> SubSeq(names, MAX_NAMES \div 2 + 1, Len(names))
      [] OTHER -> names
Remember(i, n) == names' = Append(Kept(i), [ip |-> i, name |-> n])

(* An answer without addresses teaches nothing.                            *)
Learn(w) ==
    /\ worker[w].at = "learn"
    /\ LET a == worker[w].got IN
       IF a.ips # {}
         THEN \E i \in a.ips : /\ Remember(i, a.name)
                               /\ worker' = [worker EXCEPT ![w].got.ips = @ \ {i}]
                               /\ UNCHANGED <<flight, told>>
         ELSE /\ told' = <<worker[w].q.id, a.id>> /\ worker' = [worker EXCEPT ![w] = Idle]
              /\ flight' = flight - 1 /\ UNCHANGED <<names>>
    /\ UNCHANGED <<asked, net>>

(* parse_answers: the addresses, and the name that was asked, be they the  *)
(* addresses of another name that it leads to.                             *)
ParseAnswers(a) == [id |-> a.id, name |-> a.name, ips |-> a.ips]
Recv(w) ==
    /\ worker[w].at = "wait"
    /\ \E a \in net :
          /\ Reaches(a, w) /\ net' = net \ {a}
          /\ worker' = IF Carries(a, w)
                         THEN [worker EXCEPT ![w].at = "learn", ![w].port = 0,
                                             ![w].got = ParseAnswers(a)]
                         ELSE worker
    /\ UNCHANGED <<asked, flight, names, told>>
Timeout(w) ==
    /\ worker[w].at = "wait" /\ worker' = [worker EXCEPT ![w].at = "ask", ![w].port = 0]
    /\ UNCHANGED <<asked, flight, net, names, told>>
GiveUp(w) ==
    /\ worker[w].at = "ask" /\ worker[w].server = Servers
    /\ worker' = [worker EXCEPT ![w] = Idle] /\ flight' = flight - 1
    /\ UNCHANGED <<asked, net, names, told>>
Lose == \E a \in net : ~Bound(a.port) /\ net' = net \ {a} /\ UNCHANGED <<asked, worker, flight, names, told>>

-----------------------------------------------------------------------------
Serve(w) == Ask(w) \/ Recv(w) \/ Timeout(w) \/ Learn(w) \/ GiveUp(w)
Next == (\E q \in Question : Receive(q)) \/ (\E w \in Worker : Serve(w)) \/ Lose
Spec == Init /\ [][Next]_vars /\ \A w \in Worker : WF_vars(Serve(w))

-----------------------------------------------------------------------------
(* Every place that IN_FLIGHT counts is a thread at work: none leaks, so   *)
(* the relay never ends up dropping every question.                        *)
PlacesConserved == flight = Cardinality(Busy)

(* A container is told the answer to what it asked, whatever answers come  *)
(* late to a port that was reused, as long as the two questions differ in  *)
(* their identifier.                                                       *)
AnswersQuestion == told # <<>> => told[1] = told[2]

(* The table of names stays within its bound, one entry per address.       *)
TableBounded == Len(names) <= MAX_NAMES /\ \A k, l \in DOMAIN names : names[k].ip = names[l].ip => k = l

(* Every question that was taken is answered or given up.                  *)
PlacesReturn == \A w \in Worker : []<>(w \notin Busy)
=============================================================================
