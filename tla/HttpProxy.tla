----------------------------- MODULE HttpProxy -----------------------------
(***************************************************************************)
(* One connection of a browser to a local domain, http or https: handle of *)
(* crates/solon-service/src/domains.rs, on which serve_proxy and           *)
(* serve_tls_proxy spawn a task per client.  It routes by the first Host,  *)
(* then relays requests and responses in two tasks, finding the bounds of  *)
(* each message, and reports every exchange to the trace.                  *)
(*                                                                         *)
(* A message is a head and, where it has one, a body of one part.          *)
(***************************************************************************)
EXTENDS Naturals, Sequences, Functions

CONSTANT MaxRequests   \* bound: requests that the client sends

VARIABLES
    routed,   \* "asking", "found", "unknown", "refused": 404 and 502 pages
    reqs,     \* what the client asked: "get", "head", "post", "upgrade"
    owes,     \* it has not sent the body of the last one
    client,   \* "open", "half": it sends nothing more, "gone"
    cq,       \* parts of requests that handle has not read
    main,     \* the loop of requests: "head", "body", "tunnel", "ended", "failed"
    pendq,    \* pending_tx: requests whose response is awaited
    uq,       \* parts of requests on their way to the container
    server,   \* "open", "closed"
    answered, \* the last request that it answered
    due,      \* the request whose body it owes its reader, or 0
    switched, \* it answered 101
    dq,       \* parts of responses that the pump has not read
    pump,     \* the task of responses: "off", "head", "body", "copy", "done", "aborted"
    current,  \* its request that still waits for its final response, or 0
    fact,     \* the exchange that it will report: request and response
    facts,    \* history: the exchanges reported
    garbled   \* history: a body was read as a head, or a head as a body

conn == <<reqs, owes, client, cq>>
far == <<uq, server, answered, due, switched>>
near == <<pump, current, fact, facts, garbled>>
vars == <<routed, conn, main, pendq, far, dq, near>>

Kind == {"get", "head", "post", "upgrade"}
Part == [n : 1..MaxRequests, part : {"head", "body"}, code : {"", "interim", "length", "empty", "close", "switch"}]
Request(n, p) == [n |-> n, part |-> p, code |-> ""]
Response(n, p, c) == [n |-> n, part |-> p, code |-> c]

TypeOK ==
    /\ routed \in {"asking", "found", "unknown", "refused"} /\ reqs \in Seq(Kind)
    /\ client \in {"open", "half", "gone"} /\ server \in {"open", "closed"}
    /\ main \in {"head", "body", "tunnel", "ended", "failed"}
    /\ cq \in Seq(Part) /\ uq \in Seq(Part) /\ dq \in Seq(Part) /\ pendq \in Seq(1..MaxRequests)
    /\ pump \in {"off", "head", "body", "copy", "done", "aborted"} /\ current \in 0..MaxRequests
    /\ fact \in (0..MaxRequests) \X (0..MaxRequests) /\ garbled \in BOOLEAN

Init ==
    /\ routed = "asking" /\ reqs = <<>> /\ owes = FALSE /\ client = "open" /\ cq = <<>> /\ main = "head" /\ pendq = <<>>
    /\ uq = <<>> /\ server = "open" /\ answered = 0 /\ due = 0 /\ switched = FALSE /\ dq = <<>>
    /\ pump = "off" /\ current = 0 /\ fact = <<0, 0>> /\ facts = {} /\ garbled = FALSE

-----------------------------------------------------------------------------
(* The client: pipelined requests, the body of a post after its head.      *)
Asks ==
    /\ client = "open" /\ ~owes /\ Len(reqs) < MaxRequests
    /\ \E k \in Kind : reqs' = Append(reqs, k) /\ owes' = (k = "post")
    /\ cq' = Append(cq, Request(Len(reqs) + 1, "head"))
    /\ UNCHANGED <<routed, client, main, pendq, far, dq, near>>
SendsBody ==
    /\ client = "open" /\ owes /\ owes' = FALSE
    /\ cq' = Append(cq, Request(Len(reqs), "body"))
    /\ UNCHANGED <<routed, reqs, client, main, pendq, far, dq, near>>
Leaves ==
    /\ \/ client = "open" /\ client' \in {"half", "gone"}
       \/ client = "half" /\ client' = "gone"
    /\ UNCHANGED <<routed, reqs, owes, cq, main, pendq, far, dq, near>>

(* The container: it answers requests in order, a head request and some    *)
(* codes without a body, may answer before it has the body of the request, *)
(* and closes when it likes.                                               *)
Serves ==
    /\ server = "open" /\ uq # <<>> /\ due = 0 /\ ~switched
    /\ IF Head(uq).part = "body" THEN UNCHANGED <<answered, due>>
       ELSE answered' = Head(uq).n /\ due' = Head(uq).n
    /\ uq' = Tail(uq) /\ UNCHANGED <<routed, conn, main, pendq, server, switched, dq, near>>
Codes(k) == CASE k = "upgrade" -> {"switch", "length"}
              [] k = "head" -> {"length"}
              [] OTHER -> {"length", "empty", "close"}
Answers ==
    /\ server = "open" /\ due # 0
    /\ \/ /\ Response(due, "head", "interim") \notin Range(dq) /\ reqs[due] = "post"
          /\ dq' = Append(dq, Response(due, "head", "interim")) /\ UNCHANGED <<server, due, switched>>
       \/ \E c \in Codes(reqs[due]) :
             /\ dq' = dq \o IF reqs[due] = "head" \/ c \in {"empty", "switch"}
                              THEN <<Response(due, "head", c)>>
                              ELSE <<Response(due, "head", c), Response(due, "body", c)>>
             /\ due' = 0 /\ switched' = (c = "switch")
             /\ server' = IF c = "close" THEN "closed" ELSE server
    /\ UNCHANGED <<routed, conn, main, pendq, uq, answered, near>>
Closes ==
    /\ server = "open" /\ routed = "found" /\ server' = "closed"
    /\ UNCHANGED <<routed, conn, main, pendq, uq, answered, due, switched, dq, near>>

-----------------------------------------------------------------------------
(* read_head waits for a whole head; the end of the stream gives none.     *)
ReadHead(q) == q # <<>>
(* rewrite_head: what follows the head of a request.                       *)
Body(k) == CASE k = "post" -> "body" [] k = "upgrade" -> "tunnel" [] OTHER -> "head"
(* forward_exact and forward_chunked relay a body from r to w.             *)
Forwarded(r, w) == Append(w, Head(r))

(* handle: the first head names the container; its connection follows.     *)
Route ==
    /\ routed = "asking" /\ ReadHead(cq) /\ routed' \in {"found", "unknown", "refused"}
    /\ pump' = IF routed' = "found" THEN "head" ELSE "off"
    /\ UNCHANGED <<conn, main, pendq, far, dq, current, fact, facts, garbled>>

(* The loop of requests.  The request is queued before it is relayed.      *)
(* A write to a container that closed may fail: that, or a body that stops, *)
(* aborts the pump.                                                        *)
Fails == main' = "failed" /\ pump' = IF pump = "done" THEN "done" ELSE "aborted"
MainHead ==
    /\ routed = "found" /\ main = "head" /\ ReadHead(cq)
    /\ LET r == Head(cq) k == reqs[r.n] IN
       /\ cq' = Tail(cq) /\ pendq' = Append(pendq, r.n)
       /\ \/ server = "closed" /\ Fails /\ UNCHANGED uq
          \/ /\ uq' = Append(uq, r) /\ UNCHANGED pump
             /\ main' = Body(k)
    /\ UNCHANGED <<routed, reqs, owes, client, server, answered, due, switched, dq, current, fact, facts, garbled>>
MainBody ==
    /\ main = "body" /\ cq # <<>> /\ cq' = Tail(cq)
    /\ \/ server = "closed" /\ Fails /\ UNCHANGED uq
       \/ uq' = Forwarded(cq, uq) /\ main' = "head" /\ UNCHANGED pump
    /\ UNCHANGED <<routed, reqs, owes, client, pendq, server, answered, due, switched, dq, current, fact, facts, garbled>>
MainTunnel ==
    /\ main = "tunnel" /\ cq # <<>> /\ cq' = Tail(cq)
    /\ \/ server = "closed" /\ main' = "ended" /\ UNCHANGED uq
       \/ uq' = Append(uq, Head(cq)) /\ UNCHANGED main
    /\ UNCHANGED <<routed, reqs, owes, client, pendq, server, answered, due, switched, dq, near>>
MainEof ==
    /\ routed = "found" /\ main \in {"head", "body", "tunnel"} /\ cq = <<>> /\ client # "open"
    /\ IF main = "body" THEN Fails ELSE main' = "ended" /\ UNCHANGED pump
    /\ UNCHANGED <<routed, conn, pendq, far, dq, current, fact, facts, garbled>>
Main == Route \/ MainHead \/ MainBody \/ MainTunnel \/ MainEof

-----------------------------------------------------------------------------
(* parse_response_head: whether a body follows, from the code and from the *)
(* method of the request.                                                  *)
(* Mutant: the method is not asked for.                                    *)
RespBodyAnyMethod(code, method) ==
    CASE code = "switch" -> "copy" [] code \in {"interim", "empty"} -> "head"
      [] code = "close" -> "copy" [] OTHER -> "body"
RespBody(code, method) ==
    CASE code = "switch" -> "copy"
      [] method = "head" \/ code \in {"interim", "empty"} -> "head"
      [] code = "close" -> "copy"
      [] OTHER -> "body"

(* An interim response leaves its request waiting.                         *)
(* Mutant: it takes the request.                                           *)
WaitsNever(code) == FALSE
Waits(code) == code = "interim"

(* parse_request_head kept the method; without a request it is GET.        *)
Method(c) == IF c = 0 THEN "get" ELSE reqs[c]
Reports(f) == facts' = IF f[1] = 0 THEN facts ELSE facts \cup {f}
PumpHead ==
    /\ pump = "head" /\ ReadHead(dq)
    /\ LET m == Head(dq)
           c == IF current # 0 THEN current ELSE IF pendq # <<>> THEN Head(pendq) ELSE 0
           next == RespBody(m.code, Method(c))
           f == <<IF Waits(m.code) THEN 0 ELSE c, m.n>>
       IN /\ dq' = Tail(dq)
          /\ garbled' = (garbled \/ m.part = "body")
          /\ pendq' = IF current = 0 /\ c # 0 THEN Tail(pendq) ELSE pendq
          /\ current' = IF Waits(m.code) THEN c ELSE 0
          /\ IF client = "gone" THEN pump' = "done" /\ UNCHANGED <<fact, facts>>
             ELSE /\ pump' = next
                  /\ IF next = "head" THEN Reports(f) /\ UNCHANGED fact ELSE fact' = f /\ UNCHANGED facts
    /\ UNCHANGED <<routed, conn, main, far>>
PumpBody ==
    /\ pump \in {"body", "copy"} /\ dq # <<>>
    /\ dq' = Tail(dq) /\ garbled' = (garbled \/ (pump = "body" /\ Head(dq).part = "head"))
    /\ IF client = "gone" THEN pump' = "done" /\ Reports(fact)
       ELSE IF pump = "body" THEN pump' = "head" /\ Reports(fact) ELSE UNCHANGED <<pump, facts>>
    /\ UNCHANGED <<routed, conn, main, pendq, far, current, fact>>
PumpEof ==
    /\ pump \in {"head", "body", "copy"} /\ dq = <<>> /\ server = "closed" /\ pump' = "done"
    /\ IF pump = "head" THEN UNCHANGED facts ELSE Reports(fact)
    /\ UNCHANGED <<routed, conn, main, pendq, far, dq, current, fact, garbled>>
Pump == PumpHead \/ PumpBody \/ PumpEof

-----------------------------------------------------------------------------
Next == Asks \/ SendsBody \/ Leaves \/ Serves \/ Answers \/ Closes \/ Main \/ Pump
Spec == Init /\ [][Next]_vars

-----------------------------------------------------------------------------
(* Every exchange that the trace shows joins a request with its own        *)
(* response, over pipelined requests, interim responses, heads without     *)
(* body and early answers.                                                 *)
ExchangesPaired == \A f \in facts : f[1] = f[2]

(* The pump never takes a body for a head nor a head for a body, unless an *)
(* upgrade was refused: the requests that follow it are not queued.        *)
FramedElse == garbled => \E n \in 1..Len(reqs) : reqs[n] = "upgrade" /\ n < Len(reqs)
=============================================================================
