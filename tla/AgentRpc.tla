------------------------------ MODULE AgentRpc ------------------------------
(***************************************************************************)
(* The control connection to the agent: AgentClient::call of               *)
(* crates/solon-service/src/agent_client.rs, which tasks of the service    *)
(* call concurrently, and serve_client of crates/solon-agent/src/rpc.rs,   *)
(* which answers one request after the other.                              *)
(*                                                                         *)
(* A line of the agent arrives in two pieces.  read_line is dropped with   *)
(* what it has read when the delay of a call is over.                      *)
(***************************************************************************)
EXTENDS Naturals, Sequences

CONSTANTS Caller,    \* tasks of the service
          MaxCalls   \* bound: calls on the connection

VARIABLES
    next_id,
    call,     \* per task: its step and its id
    waiting,  \* the lock of the connection: tasks in the order of their lock()
    toAgent,  \* ids of requests on their way
    agent,    \* the piece that the agent sends next, of the request it runs
    toHost,   \* pieces of answers on their way
    partial,  \* the id whose first piece the call has read; 0: none
    up,       \* the agent has not closed the connection
    answered, \* history: pairs of a call and the answer it returned
    failed,   \* history: how calls have failed
    last,     \* history: the number that was sent last
    shifted   \* history: a delay cut a line in two, or a number was sent after a greater one

vars == <<next_id, call, waiting, toAgent, agent, toHost, partial, up, answered, failed, last, shifted>>

CallId == 1..MaxCalls
Idle == [pc |-> "idle", id |-> 0]
Piece(i, n) == [id |-> i, part |-> n]
Nobody == Piece(0, 1)

TypeOK ==
    /\ next_id \in 1..(MaxCalls + 1)
    /\ call \in [Caller -> [pc : {"idle", "lock", "queued", "read"}, id : 0..MaxCalls]]
    /\ waiting \in Seq(Caller) /\ toAgent \in Seq(CallId) /\ agent \in [id : 0..MaxCalls, part : {1, 2}]
    /\ toHost \in Seq([id : CallId, part : {1, 2}]) /\ partial \in 0..MaxCalls
    /\ up \in BOOLEAN
    /\ answered \subseteq CallId \X CallId
    /\ failed \subseteq {"closed", "timeout", "unreadable", "other"}
    /\ last \in 0..MaxCalls /\ shifted \in BOOLEAN

Init ==
    /\ next_id = 1 /\ call = [c \in Caller |-> Idle] /\ waiting = <<>>
    /\ toAgent = <<>> /\ agent = Nobody /\ toHost = <<>> /\ partial = 0 /\ up = TRUE
    /\ answered = {} /\ failed = {} /\ last = 0 /\ shifted = FALSE

-----------------------------------------------------------------------------
(* call takes its number before it asks for the lock.                      *)
Number(c) ==
    /\ call[c] = Idle /\ next_id <= MaxCalls
    /\ call' = [call EXCEPT ![c] = [pc |-> "lock", id |-> next_id]]
    /\ next_id' = next_id + 1
    /\ UNCHANGED <<waiting, toAgent, agent, toHost, partial, up, answered, failed, last, shifted>>
Lock(c) ==
    /\ call[c].pc = "lock"
    /\ call' = [call EXCEPT ![c].pc = "queued"] /\ waiting' = Append(waiting, c)
    /\ UNCHANGED <<next_id, toAgent, agent, toHost, partial, up, answered, failed, last, shifted>>

(* The call is over, and with it the lock.                                 *)
Return(c) == call' = [call EXCEPT ![c] = Idle] /\ waiting' = Tail(waiting) /\ partial' = 0
Fails(c, why) == Return(c) /\ failed' = failed \cup {why} /\ UNCHANGED answered

Send(c) ==
    /\ call[c].pc = "queued" /\ Head(waiting) = c
    /\ IF up THEN /\ toAgent' = Append(toAgent, call[c].id)
                  /\ call' = [call EXCEPT ![c].pc = "read"]
                  /\ last' = call[c].id /\ shifted' = (shifted \/ call[c].id < last)
                  /\ UNCHANGED <<waiting, partial, answered, failed>>
             ELSE Fails(c, "closed") /\ UNCHANGED <<toAgent, last, shifted>>
    /\ UNCHANGED <<next_id, agent, toHost, up>>

(* A whole line: an older answer is thrown away, another one is an error.  *)
(* Mutant: the next answer is taken for the one that is awaited.           *)
AnswerAny(c, i) ==
    Return(c) /\ answered' = answered \cup {<<call[c].id, i>>} /\ UNCHANGED failed
(* Mutant: an older answer is an error.                                    *)
AnswerStrict(c, i) ==
    IF i # call[c].id THEN Fails(c, "other")
    ELSE Return(c) /\ answered' = answered \cup {<<call[c].id, i>>} /\ UNCHANGED failed
Answer(c, i) ==
    CASE i < call[c].id -> partial' = 0 /\ UNCHANGED <<call, waiting, answered, failed>>
      [] i > call[c].id -> Fails(c, "other")
      [] OTHER -> Return(c) /\ answered' = answered \cup {<<call[c].id, i>>} /\ UNCHANGED failed

Read(c) ==
    /\ call[c].pc = "read" /\ toHost # <<>> /\ toHost' = Tail(toHost)
    /\ LET p == Head(toHost) IN
       IF p.part = 1 THEN partial' = p.id /\ UNCHANGED <<call, waiting, answered, failed>>
       ELSE IF partial = 0 THEN Fails(c, "unreadable")
       ELSE Answer(c, p.id)
    /\ UNCHANGED <<next_id, toAgent, agent, up, last, shifted>>
ReadEnd(c) ==
    /\ call[c].pc = "read" /\ toHost = <<>> /\ ~up /\ Fails(c, "closed")
    /\ UNCHANGED <<next_id, toAgent, agent, toHost, up, last, shifted>>
Timeout(c) ==
    /\ call[c].pc = "read" /\ Fails(c, "timeout") /\ shifted' = (shifted \/ partial # 0)
    /\ UNCHANGED <<next_id, toAgent, agent, toHost, up, last>>

-----------------------------------------------------------------------------
(* serve_client: one request after the other.                              *)
Run ==
    /\ up /\ agent = Nobody /\ toAgent # <<>>
    /\ agent' = Piece(Head(toAgent), 1) /\ toAgent' = Tail(toAgent)
    /\ UNCHANGED <<next_id, call, waiting, toHost, partial, up, answered, failed, last, shifted>>
Reply ==
    /\ up /\ agent.id # 0 /\ toHost' = Append(toHost, agent)
    /\ agent' = IF agent.part = 1 THEN Piece(agent.id, 2) ELSE Nobody
    /\ UNCHANGED <<next_id, call, waiting, toAgent, partial, up, answered, failed, last, shifted>>
AgentCloses ==
    /\ up /\ up' = FALSE
    /\ UNCHANGED <<next_id, call, waiting, toAgent, agent, toHost, partial, answered, failed, last, shifted>>

-----------------------------------------------------------------------------
CallStep(c) == Lock(c) \/ Send(c) \/ Read(c) \/ ReadEnd(c) \/ Timeout(c)
Next ==
    \/ Run \/ Reply \/ AgentCloses
    \/ \E c \in Caller : Number(c) \/ CallStep(c)

Spec == Init /\ [][Next]_vars /\ \A c \in Caller : WF_vars(CallStep(c))

-----------------------------------------------------------------------------
(* A call returns the answer to its own request.                           *)
AnswersMatch == \A p \in answered : p[1] = p[2]

(* As long as no delay ran out, every call gets its answer, whatever the   *)
(* order in which the tasks come.                                          *)
FailsOnlyLate == failed \subseteq {"closed"} \/ "timeout" \in failed

(* "An older answer is that of a call whose delay is over: it is thrown    *)
(* away, instead of shifting all the calls that follow" (agent_client.rs): *)
(* no call fails because another one timed out, unless the delay cut a     *)
(* line, of which the next call reads the rest, or the numbers were sent   *)
(* in another order than they were taken.                                  *)
LateAnswersHarmlessElse == ~shifted => failed \subseteq {"closed", "timeout"}

(* A call ends, though the agent may never answer.                         *)
CallsEnd == \A c \in Caller : []<>(call[c].pc = "idle")
=============================================================================
