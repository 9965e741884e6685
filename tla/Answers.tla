------------------------------ MODULE Answers ------------------------------
(***************************************************************************)
(* What the agent answers to the service: the output and the exit code of  *)
(* a command or a terminal, and the answers to its calls.  They share no   *)
(* state.                                                                  *)
(***************************************************************************)
EXTENDS Naturals

CONSTANTS MaxWrites, MaxFrames, Terminal, Caller, MaxCalls

ASSUME SessionAssumption == MaxWrites \in Nat /\ Terminal \in Nat
ASSUME CallsAssumption == MaxCalls \in Nat

VARIABLES
    sKind, sHost, inbox, main, child, heir, pending, pump, wrote, frames, input, watcher,
    pid, fd, sSent, signalled, strays,
    next_id, rpc, waiting, toAgent, agent, toHost, partial, link, rAnswered, failed, last, shifted

S == INSTANCE Session WITH kind <- sKind, host <- sHost, sent <- sSent
A == INSTANCE AgentRpc WITH call <- rpc, up <- link, answered <- rAnswered

session == <<sKind, sHost, inbox, main, child, heir, pending, pump, wrote, frames, input, watcher,
             pid, fd, sSent, signalled, strays>>
calls == <<next_id, rpc, waiting, toAgent, agent, toHost, partial, link, rAnswered, failed, last, shifted>>
answers == <<session, calls>>

AnswersInit == S!Init /\ A!Init
AnswersStep(part) ==
    \/ part = "session" /\ S!Next /\ UNCHANGED calls
    \/ part = "calls" /\ A!Next /\ UNCHANGED session
AnswersNext == \E part \in {"session", "calls"} : AnswersStep(part)
AnswersSpec == AnswersInit /\ [][AnswersNext]_answers

-----------------------------------------------------------------------------
(* Session: the exit code follows all that the command wrote               *)
(* (execstream.rs).  AgentRpc: every answer of the agent goes to its       *)
(* caller, a call fails only for a reason, and an answer that comes too    *)
(* late harms no later call (agent_client.rs).                             *)
AnswersInOrder ==
    /\ S!TypeOK /\ S!ExitComesLast
    /\ A!TypeOK /\ A!AnswersMatch /\ A!FailsOnlyLate /\ A!LateAnswersHarmlessElse
=============================================================================
