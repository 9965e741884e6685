--------------------------- MODULE AnswerProofs ----------------------------
(***************************************************************************)
(* Proofs about sessions and about the calls of the service, for any       *)
(* amount of output, and any number of callers and of calls.               *)
(***************************************************************************)
EXTENDS Answers, Integers, Sequences, TLAPS

Frame == S!Stream \cup {"exit"}
Sent == {"header", "bad", "input"}
Pumping == [S!Stream -> {"off", "start", "run", "broken", "done"}]

SessTypes ==
    /\ sKind \in {"exec", "shell"} /\ sHost \in {"open", "gone"}
    /\ main \in {"header", "spawn", "run", "write", "join", "over"}
    /\ child \in {"none", "run", "zombie", "reaped"} /\ heir \in BOOLEAN
    /\ pump \in Pumping /\ watcher \in {"off", "run", "done"}
    /\ pid \in {"own", "free", "other"} /\ fd \in {"own", "free", "other"}
    /\ strays \subseteq {"signal", "shutdown", "output"}
    /\ inbox \in Seq(Sent) /\ frames \in Seq(Frame)

(* Where handle and the program are.                                       *)
SessPlaces ==
    /\ child = "none" => main \in {"header", "spawn", "over"} /\ \A s \in S!Stream : pump[s] = "off"
    /\ child # "none" => main \in {"run", "write", "join", "over"}
    /\ main \in {"header", "spawn"} => frames = <<>>
    /\ main = "write" => sKind = "shell"
    /\ sKind = "exec" /\ child \in {"run", "zombie"} => main = "run"
    /\ sKind = "exec" /\ child = "reaped" => main \in {"join", "over"}
    /\ main = "join" => sKind = "exec" /\ child = "reaped"
    /\ sKind = "exec" /\ child # "none" => \A s \in S!Stream : pump[s] \in {"run", "done", "broken"}
    /\ sKind = "exec" /\ child # "none" /\ main = "over" => \A s \in S!Stream : pump[s] \in {"done", "broken"}

(* What is in the pipes.                                                   *)
SessPipes ==
    /\ pending \in [S!Stream -> 0..MaxWrites] /\ wrote \in [S!Stream -> 0..MaxWrites]
    /\ \A s \in S!Stream : pending[s] <= wrote[s]
    /\ \A s \in S!Stream : pump[s] = "off" => wrote[s] = 0
    /\ \A s \in S!Stream : pump[s] = "done" => pending[s] = 0

(* Every step keeps the types.                                             *)
LEMMA SessTypesStep == ASSUME SessTypes, [S!Next]_session PROVE SessTypes'
<1>1. sKind' \in {"exec", "shell"} /\ sHost' \in {"open", "gone"}
  BY ZenonT(30) DEF SessTypes, S!Next, S!Agent, S!HostSends, S!HostLeaves, S!ProgramWrites,
     S!ProgramReads, S!ProgramEnds, S!HeirEnds, S!Reuse, S!Stray, S!Signal, S!Closes,
     S!Refuses, S!Received, S!ReadRequest, S!Spawn, S!ReadShellHeader, S!OpenPty,
     S!PumpStarts, S!Pump, S!Reaped, S!Exit, S!Watch, S!ShellReads, S!ShellWrites, S!io,
     session
<1>2. main' \in {"header", "spawn", "run", "write", "join", "over"}
  BY ZenonT(30) DEF SessTypes, S!Next, S!Agent, S!HostSends, S!HostLeaves, S!ProgramWrites,
     S!ProgramReads, S!ProgramEnds, S!HeirEnds, S!Reuse, S!Stray, S!Signal, S!Closes,
     S!Refuses, S!Received, S!ReadRequest, S!Spawn, S!ReadShellHeader, S!OpenPty,
     S!PumpStarts, S!Pump, S!Reaped, S!Exit, S!Watch, S!ShellReads, S!ShellWrites, S!io,
     session
<1>3. child' \in {"none", "run", "zombie", "reaped"}
  BY ZenonT(30) DEF SessTypes, S!Next, S!Agent, S!HostSends, S!HostLeaves, S!ProgramWrites,
     S!ProgramReads, S!ProgramEnds, S!HeirEnds, S!Reuse, S!Stray, S!Signal, S!Closes,
     S!Refuses, S!Received, S!ReadRequest, S!Spawn, S!ReadShellHeader, S!OpenPty,
     S!PumpStarts, S!Pump, S!Reaped, S!Exit, S!Watch, S!ShellReads, S!ShellWrites, S!io,
     session
<1>4. heir' \in BOOLEAN
  BY ZenonT(30) DEF SessTypes, S!Next, S!Agent, S!HostSends, S!HostLeaves, S!ProgramWrites,
     S!ProgramReads, S!ProgramEnds, S!HeirEnds, S!Reuse, S!Stray, S!Signal, S!Closes,
     S!Refuses, S!Received, S!ReadRequest, S!Spawn, S!ReadShellHeader, S!OpenPty,
     S!PumpStarts, S!Pump, S!Reaped, S!Exit, S!Watch, S!ShellReads, S!ShellWrites, S!io,
     session
<1>5. watcher' \in {"off", "run", "done"}
  BY ZenonT(30) DEF SessTypes, S!Next, S!Agent, S!HostSends, S!HostLeaves, S!ProgramWrites,
     S!ProgramReads, S!ProgramEnds, S!HeirEnds, S!Reuse, S!Stray, S!Signal, S!Closes,
     S!Refuses, S!Received, S!ReadRequest, S!Spawn, S!ReadShellHeader, S!OpenPty,
     S!PumpStarts, S!Pump, S!Reaped, S!Exit, S!Watch, S!ShellReads, S!ShellWrites, S!io,
     session
<1>6. pid' \in {"own", "free", "other"} /\ fd' \in {"own", "free", "other"}
  BY ZenonT(30) DEF SessTypes, S!Next, S!Agent, S!HostSends, S!HostLeaves, S!ProgramWrites,
     S!ProgramReads, S!ProgramEnds, S!HeirEnds, S!Reuse, S!Stray, S!Signal, S!Closes,
     S!Refuses, S!Received, S!ReadRequest, S!Spawn, S!ReadShellHeader, S!OpenPty,
     S!PumpStarts, S!Pump, S!Reaped, S!Exit, S!Watch, S!ShellReads, S!ShellWrites, S!io,
     session
<1>7. strays' \subseteq {"signal", "shutdown", "output"}
  BY ZenonT(30) DEF SessTypes, S!Next, S!Agent, S!HostSends, S!HostLeaves, S!ProgramWrites,
     S!ProgramReads, S!ProgramEnds, S!HeirEnds, S!Reuse, S!Stray, S!Signal, S!Closes,
     S!Refuses, S!Received, S!ReadRequest, S!Spawn, S!ReadShellHeader, S!OpenPty,
     S!PumpStarts, S!Pump, S!Reaped, S!Exit, S!Watch, S!ShellReads, S!ShellWrites, S!io,
     session
<1>8. pump' \in Pumping
  <2>1. CASE S!Spawn \/ S!OpenPty
    BY <2>1 DEF Pumping, SessTypes, S!Spawn, S!OpenPty, S!Refuses, S!Closes, S!Stream
  <2>2. ASSUME NEW s \in S!Stream, S!PumpStarts(s) \/ S!Pump(s) PROVE pump' \in Pumping
    BY <2>2 DEF Pumping, SessTypes, S!PumpStarts, S!Pump
  <2>3. CASE ~S!Spawn /\ ~S!OpenPty /\ ~\E s \in S!Stream : S!PumpStarts(s) \/ S!Pump(s)
    <3>1. UNCHANGED pump
      BY <2>3, ZenonT(30) DEF S!Next, S!Agent, S!HostSends, S!HostLeaves, S!ProgramWrites,
         S!ProgramReads, S!ProgramEnds, S!HeirEnds, S!Reuse, S!ReadRequest, S!ReadShellHeader,
         S!Reaped, S!Exit, S!Watch, S!ShellReads, S!ShellWrites, S!io, session
    <3> QED
      BY <3>1 DEF SessTypes
  <2> QED
    BY <2>1, <2>2, <2>3
<1>9. \/ UNCHANGED inbox
      \/ inbox # <<>> /\ inbox' = Tail(inbox)
      \/ \E f \in Sent : inbox' = Append(inbox, f)
  <2>1. S!HostSends => \E f \in Sent : inbox' = Append(inbox, f)
    BY DEF S!HostSends, Sent
  <2>2. UNCHANGED inbox \/ (inbox # <<>> /\ inbox' = Tail(inbox)) \/ S!HostSends
    BY DEF S!Next, S!Agent, S!HostLeaves, S!ProgramWrites, S!ProgramReads, S!ProgramEnds,
       S!HeirEnds, S!Reuse, S!Stray, S!Signal, S!Closes, S!Refuses, S!Received,
       S!ReadRequest, S!Spawn, S!ReadShellHeader, S!OpenPty, S!PumpStarts, S!Pump, S!Reaped,
       S!Exit, S!Watch, S!ShellReads, S!ShellWrites, S!io, session
  <2> QED
    BY <2>1, <2>2, Zenon
<1>10. \/ UNCHANGED frames \/ frames' = <<"stderr", "exit">>
       \/ \E f \in Frame : frames' = Append(frames, f)
  <2>1. "exit" \in Frame /\ S!Stream \subseteq Frame
    BY DEF Frame
  <2>2. \/ UNCHANGED frames \/ frames' = <<"stderr", "exit">> \/ frames' = Append(frames, "exit")
        \/ \E f \in S!Stream : frames' = Append(frames, f)
    BY Zenon DEF S!Next, S!Agent, S!HostSends, S!HostLeaves, S!ProgramWrites,
       S!ProgramReads, S!ProgramEnds, S!HeirEnds, S!Reuse, S!Stray, S!Signal, S!Closes,
       S!Refuses, S!Received, S!ReadRequest, S!Spawn, S!ReadShellHeader, S!OpenPty,
       S!PumpStarts, S!Pump, S!Reaped, S!Exit, S!Watch, S!ShellReads, S!ShellWrites, S!io,
       session
  <2> QED
    BY <2>1, <2>2, Zenon
<1>11. inbox' \in Seq(Sent)
  <2>1. /\ inbox \in Seq(Sent) /\ \A f \in Sent : Append(inbox, f) \in Seq(Sent)
        /\ inbox # <<>> => Tail(inbox) \in Seq(Sent)
    BY DEF SessTypes
  <2> QED
    BY <1>9, <2>1, Zenon
<1>12. frames' \in Seq(Frame)
  <2>1. "stderr" \in Frame /\ "exit" \in Frame
    BY DEF Frame, S!Stream
  <2>2. <<"stderr", "exit">> \in Seq(Frame)
    BY <2>1
  <2>3. \A f \in Frame : Append(frames, f) \in Seq(Frame)
    BY DEF SessTypes
  <2> QED
    BY <1>10, <2>2, <2>3, Zenon DEF SessTypes
<1> QED
  BY <1>1, <1>2, <1>3, <1>4, <1>5, <1>6, <1>7, <1>8, <1>11, <1>12, SMTT(30) DEF SessTypes

(* Every step keeps the program and the threads of its session together.   *)
LEMMA SessPlacesStep == ASSUME SessTypes, SessPlaces, [S!Next]_session PROVE SessPlaces'
<1>0. sKind' = sKind
  BY ZenonT(30) DEF S!Next, S!Agent, S!HostSends, S!HostLeaves, S!ProgramWrites,
     S!ProgramReads, S!ProgramEnds, S!HeirEnds, S!Reuse, S!Stray, S!Signal, S!Closes,
     S!Refuses, S!Received, S!ReadRequest, S!Spawn, S!ReadShellHeader, S!OpenPty,
     S!PumpStarts, S!Pump, S!Reaped, S!Exit, S!Watch, S!ShellReads, S!ShellWrites, S!io,
     session
<1>1. child' = "none" => main' \in {"header", "spawn", "over"} /\ \A s \in S!Stream : pump'[s] = "off"
  BY ZenonT(30) DEF SessTypes, SessPlaces, Pumping, S!Next, S!Agent, S!HostSends,
     S!HostLeaves, S!ProgramWrites, S!ProgramReads, S!ProgramEnds, S!HeirEnds, S!Reuse,
     S!Stray, S!Signal, S!Closes, S!Refuses, S!Received, S!ReadRequest, S!Spawn,
     S!ReadShellHeader, S!OpenPty, S!PumpStarts, S!Pump, S!Reaped, S!Exit, S!Watch,
     S!ShellReads, S!ShellWrites, S!io, session
<1>2. child' # "none" => main' \in {"run", "write", "join", "over"}
  BY ZenonT(30) DEF SessTypes, SessPlaces, S!Next, S!Agent, S!HostSends, S!HostLeaves,
     S!ProgramWrites, S!ProgramReads, S!ProgramEnds, S!HeirEnds, S!Reuse, S!Stray, S!Signal,
     S!Closes, S!Refuses, S!Received, S!ReadRequest, S!Spawn, S!ReadShellHeader, S!OpenPty,
     S!PumpStarts, S!Pump, S!Reaped, S!Exit, S!Watch, S!ShellReads, S!ShellWrites, S!io,
     session
<1>3. main' \in {"header", "spawn"} => frames' = <<>>
  BY ZenonT(30) DEF SessTypes, SessPlaces, Pumping, S!Next, S!Agent, S!HostSends,
     S!HostLeaves, S!ProgramWrites, S!ProgramReads, S!ProgramEnds, S!HeirEnds, S!Reuse,
     S!Stray, S!Signal, S!Closes, S!Refuses, S!Received, S!ReadRequest, S!Spawn,
     S!ReadShellHeader, S!OpenPty, S!PumpStarts, S!Pump, S!Reaped, S!Exit, S!Watch,
     S!ShellReads, S!ShellWrites, S!io, session
<1>4. main' = "write" => sKind = "shell"
  BY ZenonT(30) DEF SessTypes, SessPlaces, S!Next, S!Agent, S!HostSends, S!HostLeaves,
     S!ProgramWrites, S!ProgramReads, S!ProgramEnds, S!HeirEnds, S!Reuse, S!Stray, S!Signal,
     S!Closes, S!Refuses, S!Received, S!ReadRequest, S!Spawn, S!ReadShellHeader, S!OpenPty,
     S!PumpStarts, S!Pump, S!Reaped, S!Exit, S!Watch, S!ShellReads, S!ShellWrites, S!io,
     session
<1>5. sKind = "exec" /\ child' \in {"run", "zombie"} => main' = "run"
  BY ZenonT(30) DEF SessTypes, SessPlaces, S!Next, S!Agent, S!HostSends, S!HostLeaves,
     S!ProgramWrites, S!ProgramReads, S!ProgramEnds, S!HeirEnds, S!Reuse, S!Stray, S!Signal,
     S!Closes, S!Refuses, S!Received, S!ReadRequest, S!Spawn, S!ReadShellHeader, S!OpenPty,
     S!PumpStarts, S!Pump, S!Reaped, S!Exit, S!Watch, S!ShellReads, S!ShellWrites, S!io,
     session
<1>6. sKind = "exec" /\ child' = "reaped" => main' \in {"join", "over"}
  BY ZenonT(30) DEF SessTypes, SessPlaces, S!Next, S!Agent, S!HostSends, S!HostLeaves,
     S!ProgramWrites, S!ProgramReads, S!ProgramEnds, S!HeirEnds, S!Reuse, S!Stray, S!Signal,
     S!Closes, S!Refuses, S!Received, S!ReadRequest, S!Spawn, S!ReadShellHeader, S!OpenPty,
     S!PumpStarts, S!Pump, S!Reaped, S!Exit, S!Watch, S!ShellReads, S!ShellWrites, S!io,
     session
<1>7. main' = "join" => sKind = "exec" /\ child' = "reaped"
  BY ZenonT(30) DEF SessTypes, SessPlaces, S!Next, S!Agent, S!HostSends, S!HostLeaves,
     S!ProgramWrites, S!ProgramReads, S!ProgramEnds, S!HeirEnds, S!Reuse, S!Stray, S!Signal,
     S!Closes, S!Refuses, S!Received, S!ReadRequest, S!Spawn, S!ReadShellHeader, S!OpenPty,
     S!PumpStarts, S!Pump, S!Reaped, S!Exit, S!Watch, S!ShellReads, S!ShellWrites, S!io,
     session
<1>8. sKind = "exec" /\ child' # "none" => \A s \in S!Stream : pump'[s] \in {"run", "done", "broken"}
  BY ZenonT(30) DEF SessTypes, SessPlaces, Pumping, S!Next, S!Agent, S!HostSends,
     S!HostLeaves, S!ProgramWrites, S!ProgramReads, S!ProgramEnds, S!HeirEnds, S!Reuse,
     S!Stray, S!Signal, S!Closes, S!Refuses, S!Received, S!ReadRequest, S!Spawn,
     S!ReadShellHeader, S!OpenPty, S!PumpStarts, S!Pump, S!Reaped, S!Exit, S!Watch,
     S!ShellReads, S!ShellWrites, S!io, session
<1>9. sKind = "exec" /\ child' # "none" /\ main' = "over" => \A s \in S!Stream : pump'[s] \in {"done", "broken"}
  BY DEF SessTypes, SessPlaces, Pumping, S!Next, S!Agent, S!HostSends, S!HostLeaves,
     S!ProgramWrites, S!ProgramReads, S!ProgramEnds, S!HeirEnds, S!Reuse, S!Stray, S!Signal,
     S!Closes, S!Refuses, S!Received, S!ReadRequest, S!Spawn, S!ReadShellHeader, S!OpenPty,
     S!PumpStarts, S!Pump, S!Reaped, S!Exit, S!Watch, S!ShellReads, S!ShellWrites, S!io,
     session
<1> QED
  BY <1>0, <1>1, <1>2, <1>3, <1>4, <1>5, <1>6, <1>7, <1>8, <1>9, SMTT(30) DEF SessPlaces

(* What a step does to the pipes: a write, a pump that goes on, or less.   *)
LEMMA PipesCases ==
    ASSUME SessTypes, [S!Next]_session
    PROVE  \/ \E s \in S!Stream : S!ProgramWrites(s) \/ S!Pump(s)
           \/ UNCHANGED <<pending, wrote>> /\ (UNCHANGED pump \/ \A s \in S!Stream :
                 pump'[s] = pump[s] \/ pump'[s] \in {"start", "run", "broken"})
<1>1. CASE S!Spawn \/ S!OpenPty
  BY <1>1 DEF S!Spawn, S!OpenPty, S!Refuses, S!Closes, SessTypes, Pumping
<1>2. ASSUME NEW s \in S!Stream, S!PumpStarts(s)
      PROVE  UNCHANGED <<pending, wrote>> /\ \A t \in S!Stream : pump'[t] = pump[t] \/ pump'[t] \in {"start", "run", "broken"}
  BY <1>2, SMTT(30) DEF S!PumpStarts, SessTypes, Pumping
<1>3. CASE S!HostSends \/ S!HostLeaves \/ S!ProgramReads \/ S!ProgramEnds \/ S!HeirEnds
           \/ S!Reuse \/ S!Watch \/ S!Reaped
           \/ S!ReadRequest \/ S!ReadShellHeader \/ S!Exit \/ S!ShellReads \/ S!ShellWrites \/ UNCHANGED session
  BY <1>3 DEF S!HostSends, S!HostLeaves, S!ProgramReads, S!ProgramEnds, S!HeirEnds,
     S!Reuse, S!Watch, S!Reaped,
              S!ReadRequest, S!ReadShellHeader, S!Exit, S!ShellReads, S!ShellWrites, S!io, session
<1> QED
  BY <1>1, <1>2, <1>3 DEF S!Next, S!Agent

(* A pump is done when its pipe is empty, and nothing is written           *)
(* afterwards.                                                             *)
LEMMA SessPipesStep == ASSUME SessTypes, SessPipes, [S!Next]_session PROVE SessPipes'
<1>p. \A s \in S!Stream : pending[s] \in 0..MaxWrites /\ wrote[s] \in 0..MaxWrites /\ pending[s] <= wrote[s]
  BY DEF SessPipes
<1>1. ASSUME NEW s \in S!Stream, S!ProgramWrites(s) PROVE SessPipes'
  <2>1. wrote[s] < MaxWrites /\ pump[s] \in {"start", "run"} /\ UNCHANGED pump
        /\ wrote' = [wrote EXCEPT ![s] = @ + 1] /\ pending' = [pending EXCEPT ![s] = @ + 1]
    BY <1>1 DEF S!ProgramWrites
  <2>2. wrote[s] + 1 \in 0..MaxWrites /\ pending[s] + 1 \in 0..MaxWrites /\ pending[s] + 1 <= wrote[s] + 1
    BY <1>p, <2>1, SessionAssumption
  <2>3. pending' \in [S!Stream -> 0..MaxWrites] /\ wrote' \in [S!Stream -> 0..MaxWrites]
    BY <2>1, <2>2 DEF SessPipes
  <2>4. \A t \in S!Stream : t # s => pending'[t] = pending[t] /\ wrote'[t] = wrote[t]
    BY <2>1 DEF SessPipes
  <2>5. pending'[s] = pending[s] + 1 /\ wrote'[s] = wrote[s] + 1
    BY <2>1 DEF SessPipes
  <2> QED
    BY <2>1, <2>2, <2>3, <2>4, <2>5, SMTT(30) DEF SessPipes
<1>2. ASSUME NEW s \in S!Stream, S!Pump(s) PROVE SessPipes'
  <2>1. UNCHANGED wrote /\ pump[s] = "run"
    BY <1>2 DEF S!Pump
  <2>2. CASE pending[s] > 0
    <3>1. pending' = [pending EXCEPT ![s] = @ - 1] /\ (UNCHANGED pump \/ pump' = [pump EXCEPT ![s] = "broken"])
      BY <1>2, <2>2 DEF S!Pump
    <3>2. pending[s] - 1 \in 0..MaxWrites /\ pending[s] - 1 <= wrote[s]
      BY <1>p, <2>2, SessionAssumption
    <3>3. pending' \in [S!Stream -> 0..MaxWrites] /\ pending'[s] = pending[s] - 1
      BY <3>1, <3>2 DEF SessPipes
    <3>4. \A t \in S!Stream : t # s => pending'[t] = pending[t]
      BY <3>1 DEF SessPipes
    <3>5. \A t \in S!Stream : pump'[t] \in {"off", "done"} => pump[t] = pump'[t] /\ t # s
      BY <2>1, <3>1 DEF SessTypes, Pumping
    <3> QED
      BY <2>1, <3>2, <3>3, <3>4, <3>5 DEF SessPipes
  <2>3. CASE ~(pending[s] > 0)
    <3>1. UNCHANGED pending /\ pump' = [pump EXCEPT ![s] = "done"]
      BY <1>2, <2>3 DEF S!Pump
    <3>2. pending[s] = 0
      BY <1>p, <2>3, SessionAssumption
    <3>3. \A t \in S!Stream : pump'[t] = pump[t] \/ (t = s /\ pump'[t] = "done")
      BY <3>1 DEF SessTypes, Pumping
    <3> QED
      BY <2>1, <3>1, <3>2, <3>3 DEF SessPipes
  <2> QED
    BY <2>2, <2>3
<1>3. CASE UNCHANGED <<pending, wrote>> /\ (UNCHANGED pump \/ \A s \in S!Stream :
                 pump'[s] = pump[s] \/ pump'[s] \in {"start", "run", "broken"})
  BY <1>3 DEF SessPipes
<1> QED
  BY <1>1, <1>2, <1>3, PipesCases

-----------------------------------------------------------------------------
(* The calls of the service.                                               *)
LEMMA SameSequence ==
    ASSUME NEW X, NEW s \in Seq(X), NEW t \in Seq(X), Len(s) = Len(t), \A i \in 1..Len(s) : s[i] = t[i]
    PROVE  s = t
  OBVIOUS

LinePart == [id : A!CallId, part : {1, 2}]
Rpc == [pc : {"idle", "lock", "queued", "read"}, id : 0..MaxCalls]

(* What TypeOK says of the connection, with the sets that sequences are    *)
(* made of named.                                                          *)
CallPlain ==
    /\ next_id \in 1..(MaxCalls + 1) /\ toAgent \in Seq(A!CallId) /\ toHost \in Seq(LinePart)
    /\ agent \in [id : 0..MaxCalls, part : {1, 2}] /\ partial \in 0..MaxCalls
    /\ link \in BOOLEAN /\ rAnswered \subseteq A!CallId \X A!CallId
    /\ failed \subseteq {"closed", "timeout", "unreadable", "other"}
    /\ last \in 0..MaxCalls /\ shifted \in BOOLEAN

(* The tasks that wait for the lock are in its queue; the one that reads   *)
(* is its head.                                                            *)
CallQueue ==
    /\ rpc \in [Caller -> Rpc] /\ waiting \in Seq(Caller)
    /\ \A c \in Caller : rpc[c].pc # "idle" => rpc[c].id \in A!CallId
    /\ \A c \in Caller : rpc[c].pc \in {"queued", "read"} => \E k \in 1..Len(waiting) : waiting[k] = c
    /\ \A c \in Caller : rpc[c].pc = "read" => Head(waiting) = c

CallTypes == CallPlain /\ CallQueue

(* The queue for the lock, when a task joins it and when its head leaves.  *)
LEMMA Queues ==
    ASSUME NEW T, NEW s \in Seq(T)
    PROVE  /\ \A x \in T : /\ Append(s, x) \in Seq(T) /\ Len(Append(s, x)) = Len(s) + 1
                           /\ Append(s, x)[Len(s) + 1] = x
                           /\ \A k \in 1..Len(s) : Append(s, x)[k] = s[k]
           /\ s # <<>> => /\ Tail(s) \in Seq(T) /\ Len(Tail(s)) = Len(s) - 1 /\ Len(s) \in Nat \ {0}
                          /\ Head(s) \in T /\ Head(s) = s[1]
                          /\ \A k \in 1..Len(Tail(s)) : Tail(s)[k] = s[k + 1]
           /\ \A k \in 1..Len(s) : s[k] \in T
  OBVIOUS

(* Only the empty sequence has length zero.                                *)
LEMMA EmptyQueue == ASSUME NEW T, NEW s \in Seq(T) PROVE s = <<>> <=> Len(s) = 0
  OBVIOUS

(* The records of calls and of pieces.                                     *)
LEMMA CallRecords ==
           /\ A!Idle \in Rpc /\ A!Idle.pc = "idle"
           /\ \A i \in A!CallId : [pc |-> "lock", id |-> i] \in Rpc
           /\ \A r \in Rpc, p \in {"queued", "read"} :
                  [r EXCEPT !.pc = p] \in Rpc /\ [r EXCEPT !.pc = p].pc = p /\ [r EXCEPT !.pc = p].id = r.id
           /\ \A i \in A!CallId, n \in {1, 2} : A!Piece(i, n) \in [id : 0..MaxCalls, part : {1, 2}]
           /\ A!Nobody \in [id : 0..MaxCalls, part : {1, 2}]
           /\ \A a \in [id : 0..MaxCalls, part : {1, 2}] : a.id # 0 => a \in LinePart
           /\ \A p \in LinePart : p.id \in A!CallId /\ p.id \in 1..MaxCalls /\ p.part \in {1, 2}
           /\ A!CallId \subseteq 0..MaxCalls
  BY CallsAssumption DEF A!Idle, Rpc, A!CallId, A!Piece, A!Nobody, LinePart

(* The end of a call, however it ends.                                     *)
LEMMA ReturnQueue ==
    ASSUME CallQueue, NEW c \in Caller, rpc[c].pc \in {"queued", "read"},
           Head(waiting) = c, A!Return(c)
    PROVE  CallQueue' /\ \A d \in Caller : rpc'[d].pc # "read"
<1>0. rpc \in [Caller -> Rpc] /\ waiting \in Seq(Caller)
  BY DEF CallQueue
<1>1. waiting # <<>>
  BY DEF CallQueue
<1>2. waiting' \in Seq(Caller) /\ Len(waiting') = Len(waiting) - 1 /\ Len(waiting) \in Nat \ {0}
      /\ waiting[1] = c /\ \A k \in 1..Len(waiting') : waiting'[k] = waiting[k + 1]
  BY <1>0, <1>1, Queues DEF A!Return
<1>3. rpc' \in [Caller -> Rpc] /\ rpc'[c].pc = "idle" /\ \A d \in Caller \ {c} : rpc'[d] = rpc[d]
  <2>1. A!Idle \in Rpc /\ A!Idle.pc = "idle"
    BY CallRecords
  <2>2. rpc' = [rpc EXCEPT ![c] = A!Idle]
    BY DEF A!Return
  <2> QED
    BY <1>0, <2>1, <2>2
<1>4. ASSUME NEW d \in Caller, rpc'[d].pc \in {"queued", "read"}
      PROVE  \E k \in 1..Len(waiting') : waiting'[k] = d
  <2>1. d # c /\ rpc[d].pc \in {"queued", "read"}
    BY <1>3, <1>4
  <2>2. PICK k \in 1..Len(waiting) : waiting[k] = d
    BY <2>1 DEF CallQueue
  <2>3. k - 1 \in 1..Len(waiting') /\ waiting'[k - 1] = d
    BY <1>2, <2>1, <2>2
  <2> QED
    BY <2>3
<1>5. \A d \in Caller : rpc'[d].pc # "read"
  BY <1>3 DEF CallQueue
<1>7. \A d \in Caller : rpc'[d].pc # "idle" => rpc'[d].id \in A!CallId
  BY <1>3 DEF CallQueue
<1> QED
  BY <1>2, <1>3, <1>4, <1>5, <1>7 DEF CallQueue

(* Which calls the branches of Answer lead to.                             *)
LEMMA AnswerCases ==
    ASSUME CallTypes, NEW c \in Caller, rpc[c].pc = "read", NEW i \in A!CallId, A!Answer(c, i)
    PROVE  \/ i < rpc[c].id /\ partial' = 0 /\ UNCHANGED <<rpc, waiting, rAnswered, failed>>
           \/ i > rpc[c].id /\ A!Fails(c, "other")
           \/ i = rpc[c].id /\ A!Return(c) /\ rAnswered' = rAnswered \cup {<<i, i>>} /\ UNCHANGED failed
<1>1. rpc[c].id \in A!CallId
  BY DEF CallTypes, CallQueue
<1> QED
  BY <1>1, CallsAssumption DEF A!Answer, A!CallId

(* The answer that a call waits for ends it.                               *)
LEMMA OwnAnswer ==
    ASSUME CallTypes, NEW c \in Caller, rpc[c].pc = "read", A!Answer(c, rpc[c].id)
    PROVE  A!Return(c) /\ UNCHANGED failed
<1>1. rpc[c].id \in A!CallId
  BY DEF CallTypes, CallQueue
<1>2. ~(rpc[c].id < rpc[c].id) /\ ~(rpc[c].id > rpc[c].id)
  BY <1>1 DEF A!CallId
<1> QED
  BY <1>2 DEF A!Answer

(* What Read does with the piece at the head of the queue.                 *)
LEMMA ReadCases ==
    ASSUME CallTypes, NEW c \in Caller, A!Read(c)
    PROVE  /\ toHost \in Seq(LinePart) /\ toHost # <<>> /\ toHost' = Tail(toHost)
           /\ Head(toHost) \in LinePart /\ toHost' \in Seq(LinePart)
           /\ rpc[c].pc = "read" /\ Head(waiting) = c /\ rpc[c].id \in A!CallId
           /\ UNCHANGED <<next_id, toAgent, agent, link, last, shifted>>
           /\ Head(toHost).part = 1 =>
                  partial' = Head(toHost).id /\ UNCHANGED <<rpc, waiting, rAnswered, failed>>
           /\ Head(toHost).part # 1 /\ partial = 0 => A!Fails(c, "unreadable")
           /\ Head(toHost).part # 1 /\ partial # 0 => A!Answer(c, Head(toHost).id)
<1>1. toHost \in Seq(LinePart) /\ toHost # <<>> /\ toHost' = Tail(toHost) /\ rpc[c].pc = "read"
  BY DEF CallTypes, CallPlain, A!Read
<1>2. Head(toHost) \in LinePart /\ toHost' \in Seq(LinePart)
  BY <1>1, Queues
<1>3. Head(waiting) = c /\ rpc[c].id \in A!CallId
  BY <1>1 DEF CallTypes, CallQueue
<1>4. UNCHANGED <<next_id, toAgent, agent, link, last, shifted>>
  BY DEF A!Read
<1>5. /\ Head(toHost).part = 1 =>
             partial' = Head(toHost).id /\ UNCHANGED <<rpc, waiting, rAnswered, failed>>
      /\ Head(toHost).part # 1 /\ partial = 0 => A!Fails(c, "unreadable")
      /\ Head(toHost).part # 1 /\ partial # 0 => A!Answer(c, Head(toHost).id)
  BY Zenon DEF A!Read
<1> QED
  BY <1>1, <1>2, <1>3, <1>4, <1>5

(* What a step does to the tasks and to the queue of the lock.             *)
LEMMA QueueCases ==
    ASSUME CallTypes, [A!Next]_calls
    PROVE  \/ UNCHANGED <<rpc, waiting>>
           \/ \E c \in Caller : A!Number(c) \/ A!Lock(c)
           \/ \E c \in Caller : /\ rpc[c].pc = "queued" /\ Head(waiting) = c /\ UNCHANGED waiting
                                /\ rpc' = [rpc EXCEPT ![c].pc = "read"]
           \/ \E c \in Caller : rpc[c].pc \in {"queued", "read"} /\ Head(waiting) = c /\ A!Return(c)
<1>1. ASSUME NEW c \in Caller, A!Read(c)
      PROVE  UNCHANGED <<rpc, waiting>> \/ (rpc[c].pc = "read" /\ Head(waiting) = c /\ A!Return(c))
  <2>1. /\ rpc[c].pc = "read" /\ Head(waiting) = c /\ Head(toHost).id \in A!CallId
        /\ \/ UNCHANGED <<rpc, waiting>> \/ A!Fails(c, "unreadable") \/ A!Answer(c, Head(toHost).id)
    BY <1>1, ReadCases, CallRecords, Zenon
  <2>2. A!Answer(c, Head(toHost).id) => UNCHANGED <<rpc, waiting>> \/ A!Return(c)
    BY <2>1, AnswerCases DEF A!Fails
  <2> QED
    BY <2>1, <2>2 DEF A!Fails
<1>2. ASSUME NEW c \in Caller, A!ReadEnd(c) \/ A!Timeout(c)
      PROVE  rpc[c].pc = "read" /\ Head(waiting) = c /\ A!Return(c)
  BY <1>2 DEF A!ReadEnd, A!Timeout, A!Fails, CallTypes, CallQueue
<1>3. ASSUME NEW c \in Caller, A!Send(c)
      PROVE  /\ rpc[c].pc = "queued" /\ Head(waiting) = c
             /\ A!Return(c) \/ (rpc' = [rpc EXCEPT ![c].pc = "read"] /\ UNCHANGED waiting)
  BY <1>3 DEF A!Send, A!Fails
<1>4. A!Run \/ A!Reply \/ A!AgentCloses \/ UNCHANGED calls => UNCHANGED <<rpc, waiting>>
  BY Zenon DEF A!Run, A!Reply, A!AgentCloses, calls
<1> QED
  BY <1>1, <1>2, <1>3, <1>4 DEF A!Next, A!CallStep

(* Every step keeps the queue of the lock.                                 *)
LEMMA CallQueueStep == ASSUME CallTypes, [A!Next]_calls PROVE CallQueue'
<1> USE CallsAssumption
<1>0. /\ CallQueue /\ rpc \in [Caller -> Rpc] /\ waiting \in Seq(Caller)
      /\ \A c \in Caller : rpc[c].pc # "idle" => rpc[c].id \in A!CallId
  BY DEF CallTypes, CallQueue
<1>1. ASSUME NEW c \in Caller, A!Number(c) PROVE CallQueue'
  <2>1. next_id \in A!CallId
    BY <1>1 DEF A!Number, A!CallId, CallTypes, CallPlain
  <2>2. rpc' = [rpc EXCEPT ![c] = [pc |-> "lock", id |-> next_id]] /\ UNCHANGED waiting
    BY <1>1 DEF A!Number
  <2>3. rpc' \in [Caller -> Rpc]
    BY <1>0, <2>1, <2>2, CallRecords
  <2>4. rpc'[c] = [pc |-> "lock", id |-> next_id] /\ \A d \in Caller \ {c} : rpc'[d] = rpc[d]
    BY <1>0, <2>2
  <2> QED
    BY <1>0, <2>1, <2>2, <2>3, <2>4 DEF CallQueue
<1>2. ASSUME NEW c \in Caller, A!Lock(c) PROVE CallQueue'
  <2>0. /\ rpc[c].pc = "lock" /\ rpc' = [rpc EXCEPT ![c] = [rpc[c] EXCEPT !.pc = "queued"]]
        /\ waiting' = Append(waiting, c)
    BY <1>2 DEF A!Lock
  <2>1. waiting' \in Seq(Caller) /\ Len(waiting') = Len(waiting) + 1 /\ waiting'[Len(waiting) + 1] = c
        /\ \A k \in 1..Len(waiting) : waiting'[k] = waiting[k]
    BY <1>0, <2>0, Queues
  <2>2. \A d \in Caller : d # c => rpc'[d] = rpc[d]
    BY <1>0, <2>0
  <2>3. rpc' \in [Caller -> Rpc] /\ rpc'[c].pc = "queued" /\ rpc'[c].id = rpc[c].id
    BY <1>0, <2>0, CallRecords, Zenon
  <2>4. ASSUME NEW d \in Caller, rpc'[d].pc \in {"queued", "read"}
        PROVE  \E k \in 1..Len(waiting') : waiting'[k] = d
    <3>1. CASE d = c
      <4>1. Len(waiting) + 1 \in 1..Len(waiting')
        BY <1>0, <2>1
      <4> QED
        BY <2>1, <3>1, <4>1
    <3>2. CASE d # c
      <4>1. PICK k \in 1..Len(waiting) : waiting[k] = d
        BY <1>0, <2>2, <2>4, <3>2 DEF CallQueue
      <4>2. k \in 1..Len(waiting') /\ waiting'[k] = d
        BY <1>0, <2>1, <4>1
      <4> QED
        BY <4>2
    <3> QED
      BY <3>1, <3>2
  <2>5. ASSUME NEW d \in Caller, rpc'[d].pc = "read" PROVE Head(waiting') = d
    <3>1. d # c /\ rpc[d].pc = "read"
      BY <2>2, <2>3, <2>5
    <3>2. Head(waiting) = d /\ waiting # <<>>
      BY <1>0, <3>1 DEF CallQueue
    <3> QED
      BY <1>0, <2>0, <3>2
  <2>6. ASSUME NEW d \in Caller, rpc'[d].pc # "idle" PROVE rpc'[d].id \in A!CallId
    BY <1>0, <2>0, <2>2, <2>3, <2>6
  <2> QED
    BY <2>1, <2>3, <2>4, <2>5, <2>6 DEF CallQueue
<1>3. ASSUME NEW c \in Caller, rpc[c].pc = "queued", Head(waiting) = c, UNCHANGED waiting,
             rpc' = [rpc EXCEPT ![c].pc = "read"]
      PROVE  CallQueue'
  <2>1. rpc' = [rpc EXCEPT ![c] = [rpc[c] EXCEPT !.pc = "read"]]
    BY <1>3
  <2>2. rpc' \in [Caller -> Rpc] /\ rpc'[c].id = rpc[c].id
    BY <1>0, <2>1, CallRecords, Zenon
  <2>3. \A d \in Caller : d # c => rpc'[d] = rpc[d]
    BY <1>0, <2>1
  <2>4. \A d \in Caller : rpc'[d].pc = "read" => Head(waiting') = d
    BY <1>0, <1>3, <2>3 DEF CallQueue
  <2>5. \A d \in Caller : rpc'[d].pc # "idle" => rpc'[d].id \in A!CallId
    BY <1>0, <1>3, <2>2, <2>3
  <2>6. \A d \in Caller : rpc'[d].pc \in {"queued", "read"} => rpc[d].pc \in {"queued", "read"}
    BY <1>3, <2>3
  <2>7. \A d \in Caller : rpc'[d].pc \in {"queued", "read"} =>
            \E k \in 1..Len(waiting') : waiting'[k] = d
    BY <1>0, <1>3, <2>6 DEF CallQueue
  <2> QED
    BY <1>0, <1>3, <2>2, <2>4, <2>5, <2>7 DEF CallQueue
<1>4. CASE UNCHANGED <<rpc, waiting>>
  BY <1>0, <1>4 DEF CallQueue
<1> QED
  BY <1>0, <1>1, <1>2, <1>3, <1>4, QueueCases, ReturnQueue

(* Every step keeps the types of the connection.                           *)
LEMMA CallPlainStep == ASSUME CallTypes, [A!Next]_calls PROVE CallPlain'
<1> USE CallsAssumption
<1> DEFINE Why == {"closed", "timeout", "unreadable", "other"}
<1>0. /\ next_id \in 1..(MaxCalls + 1) /\ toAgent \in Seq(A!CallId) /\ toHost \in Seq(LinePart)
      /\ agent \in [id : 0..MaxCalls, part : {1, 2}] /\ partial \in 0..MaxCalls
      /\ link \in BOOLEAN /\ rAnswered \subseteq A!CallId \X A!CallId /\ failed \subseteq Why
      /\ last \in 0..MaxCalls /\ shifted \in BOOLEAN
  BY DEF CallTypes, CallPlain
<1>f. ASSUME NEW c \in Caller, NEW why \in Why, A!Fails(c, why)
      PROVE  partial' \in 0..MaxCalls /\ rAnswered' = rAnswered /\ failed' \subseteq Why
  BY <1>0, <1>f DEF A!Fails, A!Return
<1>1. ASSUME NEW c \in Caller, A!Number(c) \/ A!Lock(c) PROVE CallPlain'
  <2>1. next_id' \in 1..(MaxCalls + 1)
    BY <1>0, <1>1 DEF A!Number, A!Lock
  <2>2. UNCHANGED <<toAgent, agent, toHost, partial, link, rAnswered, failed, last, shifted>>
    BY <1>1, Zenon DEF A!Number, A!Lock
  <2> QED
    BY <1>0, <2>1, <2>2, Zenon DEF CallPlain
<1>2. ASSUME NEW c \in Caller, A!Send(c), link PROVE CallPlain'
  <2>1. rpc[c].id \in A!CallId
    BY <1>2 DEF A!Send, CallTypes, CallQueue
  <2>2. /\ toAgent' = Append(toAgent, rpc[c].id) /\ last' = rpc[c].id
        /\ shifted' = (shifted \/ rpc[c].id < last)
        /\ UNCHANGED <<next_id, agent, toHost, partial, link, rAnswered, failed>>
    BY <1>2, Zenon DEF A!Send
  <2>3. toAgent' \in Seq(A!CallId) /\ last' \in 0..MaxCalls /\ shifted' \in BOOLEAN
    BY <1>0, <2>1, <2>2, Queues, CallRecords
  <2> QED
    BY <1>0, <2>2, <2>3, Zenon DEF CallPlain
<1>3. ASSUME NEW c \in Caller, A!Send(c), ~link PROVE CallPlain'
  <2>1. A!Fails(c, "closed") /\ UNCHANGED <<next_id, toAgent, agent, toHost, link, last, shifted>>
    BY <1>3, Zenon DEF A!Send
  <2> QED
    BY <1>0, <1>f, <2>1, Zenon DEF CallPlain
<1>4. ASSUME NEW c \in Caller, A!Read(c) PROVE CallPlain'
  <2>1. /\ toHost' \in Seq(LinePart) /\ UNCHANGED <<next_id, toAgent, agent, link, last, shifted>>
        /\ rpc[c].pc = "read" /\ Head(toHost).id \in A!CallId /\ A!CallId \subseteq 0..MaxCalls
    BY <1>4, ReadCases, CallRecords
  <2>2. partial' \in 0..MaxCalls /\ rAnswered' \subseteq A!CallId \X A!CallId /\ failed' \subseteq Why
    <3>1. CASE Head(toHost).part = 1
      BY <1>0, <1>4, <2>1, <3>1, ReadCases, Zenon
    <3>2. CASE A!Fails(c, "unreadable") \/ A!Fails(c, "other")
      BY <1>0, <1>f, <3>2, Zenon
    <3>3. CASE A!Answer(c, Head(toHost).id)
      <4>1. CASE partial' = 0 /\ UNCHANGED <<rAnswered, failed>>
        BY <1>0, <4>1
      <4>2. CASE A!Return(c) /\ rAnswered' = rAnswered \cup {<<Head(toHost).id, Head(toHost).id>>}
                 /\ UNCHANGED failed
        BY <1>0, <2>1, <4>2 DEF A!Return
      <4> QED
        BY <2>1, <3>2, <3>3, <4>1, <4>2, AnswerCases, Zenon
    <3> QED
      BY <1>4, <3>1, <3>2, <3>3, ReadCases
  <2> QED
    BY <1>0, <2>1, <2>2, Zenon DEF CallPlain
<1>5. ASSUME NEW c \in Caller, A!ReadEnd(c) \/ A!Timeout(c) PROVE CallPlain'
  <2>1. /\ A!Fails(c, "closed") \/ A!Fails(c, "timeout")
        /\ UNCHANGED <<next_id, toAgent, agent, toHost, link, last>>
    BY <1>5, Zenon DEF A!ReadEnd, A!Timeout
  <2>2. shifted' \in BOOLEAN
    BY <1>0, <1>5, Zenon DEF A!ReadEnd, A!Timeout
  <2> QED
    BY <1>0, <1>f, <2>1, <2>2, Zenon DEF CallPlain
<1>6. CASE A!Run
  <2>1. /\ toAgent # <<>> /\ agent' = A!Piece(Head(toAgent), 1) /\ toAgent' = Tail(toAgent)
        /\ UNCHANGED <<next_id, toHost, partial, link, rAnswered, failed, last, shifted>>
    BY <1>6, Zenon DEF A!Run
  <2>2. Head(toAgent) \in A!CallId /\ toAgent' \in Seq(A!CallId)
    BY <1>0, <2>1, Queues
  <2>3. agent' \in [id : 0..MaxCalls, part : {1, 2}]
    BY <2>1, <2>2, CallRecords
  <2> QED
    BY <1>0, <2>1, <2>2, <2>3, Zenon DEF CallPlain
<1>7. CASE A!Reply
  <2>1. /\ agent.id # 0 /\ toHost' = Append(toHost, agent)
        /\ agent' = IF agent.part = 1 THEN A!Piece(agent.id, 2) ELSE A!Nobody
        /\ UNCHANGED <<next_id, toAgent, partial, link, rAnswered, failed, last, shifted>>
    BY <1>7, Zenon DEF A!Reply
  <2>2. agent \in LinePart
    BY <1>0, <2>1, CallRecords
  <2>3. toHost' \in Seq(LinePart) /\ agent' \in [id : 0..MaxCalls, part : {1, 2}]
    BY <1>0, <2>1, <2>2, Queues, CallRecords
  <2> QED
    BY <1>0, <2>1, <2>3, Zenon DEF CallPlain
<1>8. CASE A!AgentCloses \/ UNCHANGED calls
  <2>1. UNCHANGED <<next_id, toAgent, agent, toHost, partial, rAnswered, failed, last, shifted>>
        /\ link' \in BOOLEAN
    BY <1>0, <1>8, Zenon DEF A!AgentCloses, calls
  <2> QED
    BY <1>0, <2>1, Zenon DEF CallPlain
<1> QED
  BY <1>1, <1>2, <1>3, <1>4, <1>5, <1>6, <1>7, <1>8 DEF A!Next, A!CallStep

(* Both together.                                                          *)
LEMMA CallTypesStep == ASSUME CallTypes, [A!Next]_calls PROVE CallTypes'
  BY CallPlainStep, CallQueueStep DEF CallTypes

(* A connection that nobody has used.                                      *)
LEMMA CallTypesInit == ASSUME A!Init PROVE CallTypes
<1> USE CallsAssumption
<1>1. rpc \in [Caller -> Rpc] /\ \A c \in Caller : rpc[c].pc = "idle"
  BY CallRecords DEF A!Init
<1>2. /\ waiting \in Seq(Caller) /\ toAgent \in Seq(A!CallId) /\ toHost \in Seq(LinePart)
      /\ agent \in [id : 0..MaxCalls, part : {1, 2}]
  BY CallRecords DEF A!Init
<1>3. next_id \in 1..(MaxCalls + 1) /\ partial \in 0..MaxCalls /\ last \in 0..MaxCalls
  BY DEF A!Init
<1>4. link \in BOOLEAN /\ shifted \in BOOLEAN /\ rAnswered = {} /\ failed = {}
  BY Zenon DEF A!Init
<1> QED
  BY <1>1, <1>2, <1>3, <1>4 DEF CallTypes, CallPlain, CallQueue

(***************************************************************************)
(* The pairs in `rAnswered': call compares the number of an answer with    *)
(* its own before it returns it.                                           *)
(***************************************************************************)
LEMMA MatchStep ==
    ASSUME CallTypes, A!AnswersMatch, [A!Next]_calls
    PROVE  A!AnswersMatch'
<1> USE CallsAssumption
<1>1. ASSUME NEW c \in Caller, A!Read(c), rAnswered' # rAnswered PROVE A!AnswersMatch'
  <2>1. A!Answer(c, Head(toHost).id) /\ Head(toHost).id \in A!CallId /\ rpc[c].pc = "read"
    <3>1. ~A!Fails(c, "unreadable")
      BY <1>1 DEF A!Fails
    <3> QED
      BY <1>1, <3>1, ReadCases, CallRecords
  <2>2. rAnswered' = rAnswered \cup {<<Head(toHost).id, Head(toHost).id>>}
    BY <1>1, <2>1, AnswerCases DEF A!Fails
  <2> QED
    BY <2>2 DEF A!AnswersMatch
<1>2. rAnswered' = rAnswered \/ \E c \in Caller : A!Read(c)
  BY Zenon DEF A!Next, A!CallStep, A!Number, A!Lock, A!Send, A!ReadEnd, A!Timeout, A!Run,
     A!Reply, A!AgentCloses, A!Fails, calls
<1> QED
  BY <1>1, <1>2, Zenon DEF A!AnswersMatch

(***************************************************************************)
(* Late answers.  The numbers grow along the connection, and the pieces of *)
(* lines alternate on it, as long as nothing was shifted.                  *)
(***************************************************************************)
Reading(c) == rpc[c].pc = "read"

Ordered ==
    /\ \A c \in Caller : Reading(c) => rpc[c].id = last
    /\ \A k \in 1..Len(toAgent) : toAgent[k] <= last
    /\ agent.id <= last
    /\ \A k \in 1..Len(toHost) : toHost[k].id <= last

Halves ==
    /\ \A k \in 1..Len(toHost) :
          (toHost[k].part = 2) <=> (IF k = 1 THEN partial # 0 ELSE toHost[k - 1].part = 1)
    /\ link => ((agent.part = 2) <=> (IF toHost = <<>> THEN partial # 0 ELSE toHost[Len(toHost)].part = 1))
    /\ partial # 0 => \E c \in Caller : Reading(c)

Calm == ~shifted => Ordered /\ Halves /\ failed \subseteq {"closed", "timeout"}

(* Only the head of the queue reads.                                       *)
LEMMA OneReader ==
    ASSUME CallTypes, NEW c \in Caller, NEW d \in Caller, Reading(c), Reading(d)
    PROVE  c = d
  BY DEF CallTypes, CallPlain, CallQueue, Reading

(* A task that takes its number or asks for the lock reads nothing.        *)
LEMMA JoinsReads ==
    ASSUME CallTypes, NEW c \in Caller, A!Number(c) \/ A!Lock(c)
    PROVE  \A d \in Caller : (Reading(d)' <=> Reading(d)) /\ (Reading(d) => rpc'[d].id = rpc[d].id)
<1>1. CASE A!Number(c)
  <2>1. rpc \in [Caller -> Rpc] /\ rpc[c].pc = "idle"
        /\ rpc' = [rpc EXCEPT ![c] = [pc |-> "lock", id |-> next_id]]
    BY <1>1 DEF A!Number, CallTypes, CallPlain, CallQueue, A!Idle
  <2> QED
    BY <2>1 DEF Reading
<1>2. CASE A!Lock(c)
  <2>1. rpc \in [Caller -> Rpc] /\ rpc[c].pc = "lock"
        /\ rpc' = [rpc EXCEPT ![c] = [rpc[c] EXCEPT !.pc = "queued"]]
    BY <1>2 DEF A!Lock, CallTypes, CallPlain, CallQueue
  <2>2. rpc'[c].pc = "queued" /\ \A d \in Caller \ {c} : rpc'[d] = rpc[d]
    BY <2>1 DEF Rpc
  <2> QED
    BY <2>1, <2>2 DEF Reading
<1> QED
  BY <1>1, <1>2

(* The call at the head of the queue begins to read: it alone does.        *)
LEMMA SendReads ==
    ASSUME CallTypes, NEW c \in Caller, rpc[c].pc = "queued", Head(waiting) = c,
           rpc' = [rpc EXCEPT ![c].pc = "read"]
    PROVE  /\ \A d \in Caller : ~Reading(d)
           /\ Reading(c)' /\ rpc'[c].id = rpc[c].id /\ \A d \in Caller \ {c} : ~Reading(d)'
<1>1. \A d \in Caller : ~Reading(d)
  BY DEF CallTypes, CallPlain, CallQueue, Reading
<1>2. rpc \in [Caller -> Rpc] /\ rpc' = [rpc EXCEPT ![c] = [rpc[c] EXCEPT !.pc = "read"]]
  BY DEF CallTypes, CallPlain, CallQueue
<1>3. rpc'[c] = [rpc[c] EXCEPT !.pc = "read"] /\ \A d \in Caller \ {c} : rpc'[d] = rpc[d]
  BY <1>2
<1>4. rpc'[c].pc = "read" /\ rpc'[c].id = rpc[c].id
  BY <1>2, <1>3, CallRecords
<1> QED
  BY <1>1, <1>3, <1>4 DEF Reading

(* A step that leaves the readers and the connection alone.                *)
LEMMA CalmFrame ==
    ASSUME Calm, UNCHANGED <<toAgent, agent, toHost, partial, link, last, shifted>>,
           failed' \subseteq failed \cup {"closed", "timeout"},
           \A c \in Caller : Reading(c)' => Reading(c) /\ rpc'[c].id = rpc[c].id,
           partial # 0 => \A c \in Caller : Reading(c) => Reading(c)'
    PROVE  Calm'
<1> SUFFICES ASSUME ~shifted PROVE Ordered' /\ Halves' /\ failed' \subseteq {"closed", "timeout"}
  BY DEF Calm
<1>1. Ordered /\ Halves /\ failed \subseteq {"closed", "timeout"}
  BY DEF Calm
<1>2. Ordered'
  BY <1>1 DEF Ordered
<1>3. partial # 0 => \E c \in Caller : Reading(c)'
  BY <1>1, Zenon DEF Halves
<1>4. Halves'
  BY <1>1, <1>3 DEF Halves
<1> QED
  BY <1>1, <1>2, <1>4

(* After the first piece of the queue is read, or thrown away.             *)
LEMMA CalmTail ==
    ASSUME CallTypes, Ordered, Halves, toHost # <<>>, toHost' = Tail(toHost),
           (partial' # 0) <=> (toHost[1].part = 1),
           UNCHANGED <<toAgent, agent, link, last>>,
           \A c \in Caller : Reading(c)' => Reading(c) /\ rpc'[c].id = rpc[c].id,
           partial' # 0 => \E c \in Caller : Reading(c)'
    PROVE  Ordered' /\ Halves'
<1>t. toHost \in Seq(LinePart)
  BY DEF CallTypes, CallPlain, CallQueue
<1>1. /\ Len(toHost) \in Nat \ {0} /\ Len(toHost') = Len(toHost) - 1
      /\ \A k \in 1..Len(toHost') : toHost'[k] = toHost[k + 1]
  BY <1>t, Queues
<1>0. toHost' = <<>> <=> Len(toHost) = 1
  <2>1. toHost' \in Seq(LinePart)
    BY <1>t, Queues
  <2>2. toHost' = <<>> <=> Len(toHost') = 0
    BY <2>1, EmptyQueue, Zenon
  <2> QED
    BY <1>1, <2>2
<1>2. \A k \in 1..Len(toHost') : k + 1 \in 1..Len(toHost) /\ k + 1 # 1 /\ (k + 1) - 1 = k
  BY <1>1
<1>3. Ordered'
  BY <1>1, <1>2 DEF Ordered
<1>4. ASSUME NEW k \in 1..Len(toHost')
      PROVE  (toHost'[k].part = 2) <=> (IF k = 1 THEN partial' # 0 ELSE toHost'[k - 1].part = 1)
  <2>1. (toHost[k + 1].part = 2) <=> toHost[k].part = 1
    BY <1>2 DEF Halves
  <2>2. CASE k = 1
    BY <1>1, <2>1, <2>2
  <2>3. CASE k # 1
    <3>1. k - 1 \in 1..Len(toHost') /\ (k - 1) + 1 = k
      BY <1>1, <2>3
    <3> QED
      BY <1>1, <2>1, <2>3, <3>1
  <2> QED
    BY <2>2, <2>3
<1>5. link' => ((agent'.part = 2)
              <=> (IF toHost' = <<>> THEN partial' # 0 ELSE toHost'[Len(toHost')].part = 1))
  <2>1. link => ((agent.part = 2) <=> toHost[Len(toHost)].part = 1)
    BY DEF Halves
  <2>2. CASE Len(toHost) = 1
    BY <1>0, <2>1, <2>2
  <2>3. CASE Len(toHost) # 1
    <3>1. Len(toHost') \in 1..Len(toHost') /\ Len(toHost') + 1 = Len(toHost)
      BY <1>1, <2>3
    <3>2. toHost'[Len(toHost')] = toHost[Len(toHost)] /\ toHost' # <<>>
      BY <1>0, <1>1, <2>3, <3>1
    <3> QED
      BY <2>1, <3>2
  <2> QED
    BY <2>2, <2>3
<1> QED
  BY <1>3, <1>4, <1>5 DEF Halves

(* The end of a call: its task reads no more, the others do as before.     *)
LEMMA CalmReturn ==
    ASSUME CallTypes, NEW c \in Caller, A!Return(c)
    PROVE  /\ ~Reading(c)'
           /\ \A d \in Caller : Reading(d)' => Reading(d) /\ rpc'[d].id = rpc[d].id
           /\ partial' = 0
  BY DEF A!Return, CallTypes, CallPlain, CallQueue, Reading, A!Idle

(* While nothing is shifted, the head of the queue is never a stray half   *)
(* nor an answer to a later call.                                          *)
LEMMA CalmStep ==
    ASSUME CallTypes, Calm, [A!Next]_calls
    PROVE  Calm'
<1> USE CallsAssumption
<1> DEFINE Fine == failed \subseteq {"closed", "timeout"}
<1> SUFFICES ASSUME ~shifted' PROVE Ordered' /\ Halves' /\ Fine'
  BY DEF Calm
<1>0. ~shifted /\ Ordered /\ Halves /\ Fine
  <2>1. ~shifted
    BY ZenonT(30) DEF A!Next, A!CallStep, A!Number, A!Lock, A!Send, A!Read, A!ReadEnd,
       A!Timeout, A!Run, A!Reply, A!AgentCloses, calls
  <2> QED
    BY <2>1 DEF Calm
<1>1. ASSUME NEW c \in Caller, A!Number(c) \/ A!Lock(c) PROVE Calm'
  <2>1. UNCHANGED <<toAgent, agent, toHost, partial, link, last, shifted, failed>>
    BY <1>1 DEF A!Number, A!Lock
  <2>2. \A d \in Caller : (Reading(d)' <=> Reading(d)) /\ (Reading(d) => rpc'[d].id = rpc[d].id)
    BY <1>1, JoinsReads
  <2> QED
    BY <2>1, <2>2, CalmFrame
<1>2. ASSUME NEW c \in Caller, A!Send(c), link PROVE Ordered' /\ Halves' /\ Fine'
  <2>1. /\ toAgent' = Append(toAgent, rpc[c].id) /\ rpc[c].id \in A!CallId
        /\ last' = rpc[c].id /\ last <= last' /\ rpc[c].pc = "queued" /\ Head(waiting) = c
        /\ UNCHANGED <<agent, toHost, partial, link, failed>>
        /\ rpc' = [rpc EXCEPT ![c].pc = "read"]
    <3>1. /\ toAgent' = Append(toAgent, rpc[c].id) /\ last' = rpc[c].id
          /\ rpc[c].pc = "queued" /\ Head(waiting) = c
          /\ UNCHANGED <<agent, toHost, partial, link, failed>>
          /\ rpc' = [rpc EXCEPT ![c].pc = "read"]
          /\ shifted' = (shifted \/ rpc[c].id < last)
      BY <1>2 DEF A!Send
    <3>2. rpc[c].id \in A!CallId /\ last \in 0..MaxCalls
      BY <3>1 DEF CallTypes, CallPlain, CallQueue
    <3>3. ~(rpc[c].id < last)
      BY <3>1, Zenon
    <3> QED
      BY <3>1, <3>2, <3>3 DEF A!CallId
  <2>2. rpc'[c].id = rpc[c].id /\ \A d \in Caller \ {c} : ~Reading(d)'
    BY <2>1, SendReads, Zenon
  <2>3. \A d \in Caller : ~Reading(d)
    BY <2>1, SendReads, Zenon
  <2>4. Ordered'
    <3>1. \A d \in Caller : Reading(d)' => rpc'[d].id = last'
      BY <2>1, <2>2
    <3>2. \A k \in 1..Len(toAgent') : toAgent'[k] <= last'
      <4>1. /\ Len(toAgent') = Len(toAgent) + 1 /\ toAgent'[Len(toAgent) + 1] = last'
            /\ \A k \in 1..Len(toAgent) : toAgent'[k] = toAgent[k] /\ toAgent[k] \in A!CallId
            /\ Len(toAgent) \in Nat
        BY <2>1, Queues DEF CallTypes, CallPlain, CallQueue
      <4>2. last \in Nat /\ last' \in Nat
        BY <2>1 DEF CallTypes, CallPlain, CallQueue, A!CallId
      <4> QED
        BY <1>0, <2>1, <4>1, <4>2 DEF Ordered, A!CallId
    <3>3. agent'.id <= last'
      <4>1. agent.id \in Nat /\ last \in Nat /\ last' \in Nat /\ agent.id <= last
        BY <1>0, <2>1, SMTT(30) DEF Ordered, CallTypes, CallPlain, CallQueue, A!CallId
      <4> QED
        BY <2>1, <4>1
    <3>4. \A k \in 1..Len(toHost') : toHost'[k].id <= last'
      <4>1. \A k \in 1..Len(toHost) : toHost[k].id \in Nat
        <5>1. \A k \in 1..Len(toHost) : toHost[k] \in LinePart
          BY Queues DEF CallTypes, CallPlain, CallQueue
        <5> QED
          BY <5>1, CallRecords DEF A!CallId
      <4> QED
        <5>1. last \in Nat /\ last' \in Nat
          BY <2>1 DEF CallTypes, CallPlain, CallQueue, A!CallId
        <5>2. \A k \in 1..Len(toHost) : toHost[k].id <= last
          BY <1>0 DEF Ordered
        <5> QED
          BY <2>1, <4>1, <5>1, <5>2
    <3> QED
      BY <3>1, <3>2, <3>3, <3>4 DEF Ordered
  <2>5. Halves'
    <3>1. partial = 0
      BY <1>0, <2>3 DEF Halves
    <3> QED
      BY <1>0, <2>1, <3>1 DEF Halves
  <2> QED
    BY <1>0, <2>1, <2>4, <2>5
<1>3. ASSUME NEW c \in Caller, A!Send(c), ~link PROVE Calm'
  <2>1. A!Return(c) /\ failed' = failed \cup {"closed"} /\ rpc[c].pc = "queued" /\ Head(waiting) = c
        /\ UNCHANGED <<toAgent, agent, toHost, link, last, shifted>>
    BY <1>3 DEF A!Send, A!Fails
  <2>2. partial = 0
    <3>1. \A d \in Caller : ~Reading(d)
      BY <2>1 DEF CallTypes, CallPlain, CallQueue, Reading
    <3> QED
      BY <1>0, <3>1 DEF Halves
  <2> QED
    BY <2>1, <2>2, CalmReturn, CalmFrame
<1>4. ASSUME NEW c \in Caller, A!Read(c) PROVE Ordered' /\ Halves' /\ Fine'
  <2> DEFINE p == toHost[1]
  <2>1. /\ toHost # <<>> /\ toHost' = Tail(toHost) /\ p \in LinePart /\ Head(toHost) = p
        /\ 1 \in 1..Len(toHost) /\ Reading(c)
        /\ UNCHANGED <<toAgent, agent, link, last>>
    BY <1>4, Queues DEF A!Read, CallTypes, CallPlain, CallQueue, Reading
  <2>2. p.id <= rpc[c].id /\ p.id \in A!CallId /\ rpc[c].id \in A!CallId
    BY <1>0, <2>1 DEF Ordered, CallTypes, CallPlain, CallQueue, LinePart, Reading
  <2>3. (p.part = 2) <=> partial # 0
    BY <1>0, <2>1 DEF Halves
  <2>4. CASE p.part = 1
    <3>1. partial' = p.id /\ UNCHANGED <<rpc, failed>>
      BY <1>4, <2>1, <2>4 DEF A!Read
    <3>2. partial' # 0
      BY <2>2, <3>1 DEF A!CallId
    <3>3. \A d \in Caller : Reading(d)' <=> Reading(d)
      BY <3>1, SMTT(30) DEF Reading
    <3> QED
      BY <1>0, <2>1, <2>4, <3>1, <3>2, <3>3, CalmTail, SMTT(30)
  <2>5. CASE p.part # 1
    <3>1. p.part = 2 /\ partial # 0 /\ A!Answer(c, p.id)
      BY <1>4, <2>1, <2>3, <2>5, SMTT(30) DEF A!Read, LinePart
    <3>2. partial' = 0 /\ failed' = failed
          /\ \A d \in Caller : Reading(d)' => Reading(d) /\ rpc'[d].id = rpc[d].id
      <4>1. CASE partial' = 0 /\ UNCHANGED <<rpc, waiting, rAnswered, failed>>
        BY <4>1, SMTT(30) DEF Reading
      <4>2. CASE A!Return(c) /\ UNCHANGED failed
        BY <4>2, CalmReturn
      <4>3. ~(p.id > rpc[c].id)
        BY <2>2, SMTT(30) DEF A!CallId
      <4>4. rpc[c].pc = "read"
        BY <2>1 DEF Reading
      <4> QED
        BY <2>2, <3>1, <4>1, <4>2, <4>3, <4>4, AnswerCases
    <3> QED
      BY <1>0, <2>1, <3>1, <3>2, CalmTail
  <2> QED
    BY <2>4, <2>5
<1>5. ASSUME NEW c \in Caller, A!ReadEnd(c) PROVE Ordered' /\ Halves' /\ Fine'
  <2>1. A!Return(c) /\ failed' = failed \cup {"closed"} /\ toHost = <<>> /\ ~link
        /\ UNCHANGED <<toAgent, agent, toHost, link, last>>
    BY <1>5, ZenonT(30) DEF A!ReadEnd, A!Fails
  <2>2. partial' = 0 /\ \A d \in Caller : Reading(d)' => Reading(d) /\ rpc'[d].id = rpc[d].id
    BY <2>1, CalmReturn
  <2>3. Ordered'
    BY <1>0, <2>1, <2>2 DEF Ordered
  <2>4. Halves'
    BY <1>0, <2>1, <2>2, SMTT(30) DEF Halves
  <2> QED
    BY <1>0, <2>1, <2>3, <2>4, SMTT(30)
<1>6. ASSUME NEW c \in Caller, A!Timeout(c) PROVE Calm'
  <2>1. A!Return(c) /\ failed' = failed \cup {"timeout"} /\ partial = 0 /\ UNCHANGED shifted
        /\ UNCHANGED <<toAgent, agent, toHost, link, last>>
    <3>1. shifted' = (shifted \/ partial # 0)
      BY <1>6 DEF A!Timeout
    <3>2. partial = 0 /\ shifted' = shifted
      BY <1>0, <3>1, Zenon DEF CallTypes, CallPlain, CallQueue
    <3> QED
      BY <1>6, <3>2 DEF A!Timeout, A!Fails
  <2> QED
    BY <2>1, CalmReturn, CalmFrame
<1>7. CASE A!Run
  <2>1. /\ agent' = A!Piece(Head(toAgent), 1) /\ toAgent' = Tail(toAgent) /\ toAgent # <<>> /\ link
        /\ agent.part = 1 /\ UNCHANGED <<rpc, toHost, partial, link, last, failed>>
    BY <1>7 DEF A!Run, A!Nobody, A!Piece
  <2>2. agent'.part = 1 /\ agent'.id = toAgent[1] /\ 1 \in 1..Len(toAgent)
    BY <2>1, Queues DEF A!Piece, CallTypes, CallPlain, CallQueue
  <2>3. Ordered'
    <3>1. \A k \in 1..Len(toAgent') : toAgent'[k] = toAgent[k + 1] /\ k + 1 \in 1..Len(toAgent)
      BY <2>1, Queues DEF CallTypes, CallPlain, CallQueue
    <3> QED
      BY <1>0, <2>1, <2>2, <3>1 DEF Ordered, Reading
  <2>4. Halves'
    BY <1>0, <2>1, <2>2 DEF Halves, Reading
  <2> QED
    BY <1>0, <2>1, <2>3, <2>4
<1>8. CASE A!Reply
  <2>1. /\ toHost' = Append(toHost, agent) /\ link /\ agent \in LinePart
        /\ UNCHANGED <<rpc, toAgent, partial, link, last, failed>>
        /\ agent' = IF agent.part = 1 THEN A!Piece(agent.id, 2) ELSE A!Nobody
    BY <1>8, CallRecords DEF A!Reply, CallTypes, CallPlain, CallQueue
  <2>2. /\ Len(toHost') = Len(toHost) + 1 /\ toHost'[Len(toHost) + 1] = agent
        /\ Len(toHost) \in Nat /\ toHost' # <<>>
        /\ \A k \in 1..Len(toHost) : toHost'[k] = toHost[k]
    <3>1. toHost \in Seq(LinePart)
      BY DEF CallTypes, CallPlain, CallQueue
    <3>2. /\ Len(toHost') = Len(toHost) + 1 /\ toHost'[Len(toHost) + 1] = agent
          /\ \A k \in 1..Len(toHost) : toHost'[k] = toHost[k]
          /\ toHost' \in Seq(LinePart) /\ Len(toHost) \in Nat
      BY <2>1, <3>1, Queues
    <3> QED
      BY <3>2, EmptyQueue
  <2>3. agent'.id \in {agent.id, 0} /\ agent.part \in {1, 2} /\ (agent'.part = 2 <=> agent.part = 1)
    BY <2>1, SMTT(30) DEF A!Piece, A!Nobody, LinePart
  <2>4. Ordered'
    <3>1. agent.id <= last /\ 0 <= last /\ \A d \in Caller : Reading(d)' <=> Reading(d)
      BY <1>0, <2>1 DEF Ordered, CallTypes, CallPlain, CallQueue, Reading
    <3>2. \A k \in 1..Len(toHost') : toHost'[k].id <= last
      BY <1>0, <2>2, <3>1 DEF Ordered
    <3>3. agent'.id <= last
      BY <2>3, <3>1
    <3> QED
      BY <1>0, <2>1, <3>1, <3>2, <3>3, ZenonT(30) DEF Ordered
  <2>5. (toHost'[Len(toHost')].part = 1) <=> (agent'.part = 2)
    BY <2>2, <2>3
  <2>6. ASSUME NEW k \in 1..Len(toHost')
        PROVE  (toHost'[k].part = 2) <=> (IF k = 1 THEN partial' # 0 ELSE toHost'[k - 1].part = 1)
    <3>1. CASE k \in 1..Len(toHost)
      <4>1. k # 1 => k - 1 \in 1..Len(toHost)
        BY <3>1
      <4>2. toHost'[k] = toHost[k] /\ (k # 1 => toHost'[k - 1] = toHost[k - 1])
        BY <2>2, <3>1, <4>1
      <4> QED
        BY <1>0, <2>1, <3>1, <4>2 DEF Halves
    <3>2. CASE k = Len(toHost) + 1
      <4>1. (agent.part = 2) <=> (IF toHost = <<>> THEN partial # 0 ELSE toHost[Len(toHost)].part = 1)
        BY <1>0, <2>1 DEF Halves
      <4>2. CASE toHost = <<>>
        BY <2>1, <2>2, <3>2, <4>1, <4>2
      <4>3. CASE toHost # <<>>
        <5>1. Len(toHost) \in 1..Len(toHost) /\ k # 1 /\ k - 1 = Len(toHost)
          BY <3>2, <4>3, Queues DEF CallTypes, CallPlain, CallQueue
        <5> QED
          BY <2>2, <3>2, <4>1, <4>3, <5>1, SMTT(30)
      <4> QED
        BY <4>2, <4>3
    <3> QED
      BY <2>2, <3>1, <3>2, SMTT(30)
  <2>7. partial' # 0 => \E d \in Caller : Reading(d)'
    BY <1>0, <2>1, SMTT(30) DEF Halves, Reading
  <2> QED
    BY <1>0, <2>1, <2>2, <2>4, <2>5, <2>6, <2>7 DEF Halves
<1>9. CASE A!AgentCloses \/ UNCHANGED calls
  <2>1. UNCHANGED <<rpc, toAgent, agent, toHost, partial, last, failed>> /\ (link' => link)
    BY <1>9 DEF A!AgentCloses, calls
  <2>2. \A d \in Caller : Reading(d)' <=> Reading(d)
    BY <2>1 DEF Reading
  <2> QED
    BY <1>0, <2>1, <2>2 DEF Ordered, Halves
<1> QED
  BY <1>1, <1>2, <1>3, <1>4, <1>5, <1>6, <1>7, <1>8, <1>9 DEF A!Next, A!CallStep, Calm

(***************************************************************************)
(* Without a delay that ran out, there is one request on the connection,   *)
(* that of the call which reads.                                           *)
(***************************************************************************)
OnWay(i) == toAgent = <<i>> /\ agent = A!Nobody
Runs(i, n) == toAgent = <<>> /\ agent = A!Piece(i, n)
Rests == toAgent = <<>> /\ agent = A!Nobody

Alone(i) ==
    \/ partial = 0 /\ toHost = <<>> /\ (link => OnWay(i) \/ Runs(i, 1))
    \/ partial = 0 /\ toHost = <<A!Piece(i, 1)>> /\ (link => Runs(i, 2))
    \/ partial = i /\ toHost = <<>> /\ (link => Runs(i, 2))
    \/ partial = 0 /\ toHost = <<A!Piece(i, 1), A!Piece(i, 2)>> /\ (link => Rests)
    \/ partial = i /\ toHost = <<A!Piece(i, 2)>> /\ (link => Rests)
Silent == toHost = <<>> /\ partial = 0 /\ (link => Rests)

Punctual ==
    "timeout" \notin failed =>
        /\ failed \subseteq {"closed"}
        /\ \A c \in Caller : Reading(c) => Alone(rpc[c].id)
        /\ (\A c \in Caller : ~Reading(c)) => Silent

(* Sequences of one and of two.                                            *)
LEMMA Tuples ==
    ASSUME NEW x, NEW y
    PROVE  /\ <<x>> # <<>> /\ Head(<<x>>) = x /\ Tail(<<x>>) = <<>>
           /\ <<x, y>> # <<>> /\ Head(<<x, y>>) = x /\ Tail(<<x, y>>) = <<y>>
           /\ Append(<<>>, x) = <<x>> /\ Append(<<x>>, y) = <<x, y>>
<1>1. Append(<<x>>, y) = <<x, y>>
  <2>1. <<x>> \in Seq({x, y}) /\ <<x, y>> \in Seq({x, y})
    OBVIOUS
  <2>2. /\ Append(<<x>>, y) \in Seq({x, y}) /\ Len(Append(<<x>>, y)) = 2
        /\ Append(<<x>>, y)[1] = x /\ Append(<<x>>, y)[2] = y
    BY <2>1
  <2>3. Len(<<x, y>>) = 2 /\ <<x, y>>[1] = x /\ <<x, y>>[2] = y
    OBVIOUS
  <2>4. \A k \in 1..2 : Append(<<x>>, y)[k] = <<x, y>>[k]
    BY <2>2, <2>3
  <2> QED
    BY <2>1, <2>2, <2>3, <2>4, SameSequence, Zenon
<1> QED
  BY <1>1

(* Pieces are told apart by their call and their part.                     *)
LEMMA Pieces ==
    ASSUME NEW i \in A!CallId, MaxCalls \in Nat
    PROVE  /\ A!Piece(i, 1).id = i /\ A!Piece(i, 1).part = 1 /\ A!Piece(i, 2).id = i /\ A!Piece(i, 2).part = 2
           /\ A!Piece(i, 1) # A!Nobody /\ A!Piece(i, 2) # A!Nobody /\ A!Nobody.id = 0 /\ i # 0
  BY DEF A!Piece, A!Nobody, A!CallId

(* As long as no delay ran out, the answer that is read is the one that is *)
(* awaited.                                                                *)
LEMMA PunctualStep ==
    ASSUME CallTypes, Punctual, [A!Next]_calls
    PROVE  Punctual'
<1> USE CallsAssumption
<1> DEFINE Readers == {d \in Caller : Reading(d)}
<1> SUFFICES ASSUME "timeout" \notin failed' PROVE Punctual'
  BY DEF Punctual
<1>0. "timeout" \notin failed
  BY Zenon
     DEF A!Next, A!CallStep, A!Number, A!Lock, A!Send, A!Read, A!ReadEnd, A!Timeout, A!Run, A!Reply, A!AgentCloses, calls,
         A!Fails, A!Answer
<1>e. /\ failed \subseteq {"closed"} /\ \A c \in Caller : Reading(c) => Alone(rpc[c].id)
      /\ (\A c \in Caller : ~Reading(c)) => Silent
  BY <1>0 DEF Punctual
<1>i. \A c \in Caller : Reading(c) => rpc[c].id \in A!CallId
  BY DEF CallTypes, CallPlain, CallQueue, Reading
<1>1. ASSUME NEW c \in Caller, A!Number(c) \/ A!Lock(c) PROVE Punctual'
  <2>1. UNCHANGED <<toAgent, agent, toHost, partial, link, failed>>
    BY <1>1 DEF A!Number, A!Lock
  <2>2. \A d \in Caller : (Reading(d)' <=> Reading(d)) /\ (Reading(d) => rpc'[d].id = rpc[d].id)
    BY <1>1, JoinsReads
  <2>3. \A i : (Alone(i)' <=> Alone(i)) /\ (Silent' <=> Silent)
    BY <2>1, Zenon DEF Alone, Silent, OnWay, Runs, Rests
  <2> QED
    BY <1>e, <2>1, <2>2, <2>3 DEF Punctual
<1>2. ASSUME NEW c \in Caller, A!Send(c), link PROVE Punctual'
  <2>1. /\ toAgent' = Append(toAgent, rpc[c].id) /\ rpc[c].pc = "queued" /\ Head(waiting) = c
        /\ UNCHANGED <<agent, toHost, partial, link, failed>>
        /\ rpc' = [rpc EXCEPT ![c].pc = "read"]
    BY <1>2 DEF A!Send
  <2>2. rpc'[c].id = rpc[c].id /\ \A d \in Caller \ {c} : ~Reading(d)'
    BY <2>1, SendReads, Zenon
  <2>3. Reading(c)'
    BY <2>1, SendReads, Zenon
  <2>4. Silent
    <3>1. \A d \in Caller : ~Reading(d)
      BY <2>1, SendReads, ZenonT(30)
    <3> QED
      BY <1>e, <3>1
  <2>5. Alone(rpc[c].id)'
    <3>1. toAgent' = <<rpc[c].id>>
      BY <1>2, <2>1, <2>4, Tuples DEF Silent, Rests
    <3> QED
      BY <1>2, <2>1, <2>2, <2>4, <3>1, Zenon DEF Silent, Rests, Alone, OnWay
  <2> QED
    BY <1>e, <2>1, <2>2, <2>3, <2>5 DEF Punctual
<1>3. ASSUME NEW c \in Caller, (A!Send(c) /\ ~link) \/ A!ReadEnd(c) PROVE Punctual'
  <2>1. A!Return(c) /\ failed' = failed \cup {"closed"} /\ Head(waiting) = c /\ ~link
        /\ UNCHANGED <<toAgent, agent, toHost, link>> /\ rpc[c].pc \in {"queued", "read"}
    <3>1. CASE A!Send(c) /\ ~link
      BY <3>1 DEF A!Send, A!Fails
    <3>2. CASE A!ReadEnd(c)
      <4>1. Head(waiting) = c
        BY <3>2, SMTT(30) DEF A!ReadEnd, CallTypes, CallQueue
      <4> QED
        BY <3>2, <4>1 DEF A!ReadEnd, A!Fails
    <3> QED
      BY <1>3, <3>1, <3>2
  <2>2. \A d \in Caller : ~Reading(d)'
    BY <2>1, ReturnQueue DEF Reading, CallTypes
  <2>3. toHost = <<>> /\ partial' = 0
    <3>1. CASE A!ReadEnd(c)
      BY <2>1, <3>1 DEF A!ReadEnd, A!Return
    <3>2. CASE A!Send(c)
      <4>1. \A d \in Caller : ~Reading(d)
        BY <3>2, SMTT(30) DEF CallTypes, CallPlain, CallQueue, Reading, A!Send
      <4> QED
        BY <1>e, <2>1, <4>1 DEF Silent, A!Return
    <3> QED
      BY <1>3, <3>1, <3>2
  <2> QED
    BY <1>e, <2>1, <2>2, <2>3 DEF Punctual, Silent
<1>4. ASSUME NEW c \in Caller, A!Read(c) PROVE Punctual'
  <2> DEFINE i == rpc[c].id
  <2>1. /\ toHost # <<>> /\ toHost' = Tail(toHost) /\ Reading(c) /\ Alone(i) /\ i \in A!CallId
        /\ UNCHANGED <<toAgent, agent, link>>
    BY <1>4, <1>e, <1>i DEF A!Read, Reading
  <2>2. \A d \in Caller \ {c} : ~Reading(d)
    BY <2>1, OneReader
  <2>3. CASE partial = 0
    <3>1. \/ toHost = <<A!Piece(i, 1)>> /\ (link => Runs(i, 2))
          \/ toHost = <<A!Piece(i, 1), A!Piece(i, 2)>> /\ (link => Rests)
      BY <2>1, <2>3, Pieces, Zenon DEF Alone
    <3>2. Head(toHost) = A!Piece(i, 1) /\ toHost' = IF toHost = <<A!Piece(i, 1)>> THEN <<>> ELSE <<A!Piece(i, 2)>>
      BY <2>1, <3>1, Tuples, Zenon
    <3>3. partial' = i /\ UNCHANGED <<rpc, failed>>
      BY <1>4, <2>1, <3>2, Pieces, ZenonT(30) DEF A!Read
    <3>4. \A d \in Caller : Reading(d)' <=> Reading(d)
      BY <3>3, SMTT(30) DEF Reading
    <3>5. Alone(i)'
      <4>1. CASE toHost = <<A!Piece(i, 1)>> /\ (link => Runs(i, 2))
        BY <2>1, <3>2, <3>3, <4>1, Zenon DEF Alone, Runs
      <4>2. CASE toHost # <<A!Piece(i, 1)>> /\ (link => Rests)
        BY <2>1, <3>2, <3>3, <4>2, ZenonT(30) DEF Alone, Rests
      <4> QED
        BY <3>1, <4>1, <4>2, Tuples
    <3> QED
      BY <1>e, <2>1, <2>2, <3>3, <3>4, <3>5 DEF Punctual
  <2>4. CASE partial # 0
    <3>1. toHost = <<A!Piece(i, 2)>> /\ (link => Rests)
      BY <2>1, <2>4, Zenon DEF Alone
    <3>2. Head(toHost) = A!Piece(i, 2) /\ toHost' = <<>>
      BY <2>1, <3>1, Tuples, SMTT(30)
    <3>3. A!Answer(c, i)
      <4>1. Head(toHost).part = 2 /\ Head(toHost).id = i
        BY <2>1, <3>2, Pieces, ZenonT(30)
      <4> QED
        BY <1>4, <2>4, <4>1, ReadCases
    <3>4. A!Return(c) /\ UNCHANGED failed
      BY <1>4, <3>3, OwnAnswer DEF A!Read
    <3>5. partial' = 0 /\ \A d \in Caller : ~Reading(d)'
      BY <2>2, <3>4, CalmReturn
    <3> QED
      BY <1>e, <2>1, <3>1, <3>2, <3>4, <3>5, Zenon DEF Punctual, Silent, Rests
  <2> QED
    BY <2>3, <2>4
<1>5. ASSUME NEW c \in Caller, A!Timeout(c) PROVE FALSE
  BY <1>5 DEF A!Timeout, A!Fails
<1>6. CASE A!Run
  <2>1. /\ agent' = A!Piece(Head(toAgent), 1) /\ toAgent' = Tail(toAgent) /\ toAgent # <<>> /\ link
        /\ agent = A!Nobody /\ UNCHANGED <<rpc, toHost, partial, link, failed>>
    BY <1>6 DEF A!Run
  <2>2. ~Silent
    BY <2>1 DEF Silent, Rests
  <2>3. PICK c \in Caller : Reading(c)
    BY <1>e, <2>2
  <2>4. \A d \in Caller : (Reading(d)' <=> Reading(d)) /\ (Reading(d) => d = c)
    BY <2>1, <2>3, OneReader DEF Reading
  <2>5. partial = 0 /\ toHost = <<>> /\ OnWay(rpc[c].id)
    BY <1>e, <1>i, <2>1, <2>3, Pieces, Zenon DEF Alone, Runs, Rests
  <2>6. Alone(rpc[c].id)'
    <3>1. agent' = A!Piece(rpc[c].id, 1) /\ toAgent' = <<>>
      BY <2>1, <2>5, Tuples DEF OnWay
    <3>2. Runs(rpc[c].id, 1)'
      BY <2>1, <3>1 DEF Runs
    <3> QED
      BY <2>1, <2>5, <3>2, Zenon DEF Alone
  <2> QED
    BY <1>e, <2>1, <2>3, <2>4, <2>6 DEF Punctual
<1>7. CASE A!Reply
  <2>1. /\ toHost' = Append(toHost, agent) /\ link /\ agent.id # 0
        /\ UNCHANGED <<rpc, toAgent, partial, link, failed>>
        /\ agent' = IF agent.part = 1 THEN A!Piece(agent.id, 2) ELSE A!Nobody
    BY <1>7 DEF A!Reply
  <2>2. ~Silent /\ agent # A!Nobody
    BY <2>1 DEF Silent, Rests, A!Nobody, A!Piece
  <2>3. PICK c \in Caller : Reading(c)
    BY <1>e, <2>2
  <2> DEFINE i == rpc[c].id
  <2>4. \A d \in Caller : (Reading(d)' <=> Reading(d)) /\ (Reading(d) => d = c)
    BY <2>1, <2>3, OneReader DEF Reading
  <2>5. i \in A!CallId /\ Alone(i)
    BY <1>e, <1>i, <2>3
  <2>6. \/ partial = 0 /\ toHost = <<>> /\ Runs(i, 1)
        \/ partial = 0 /\ toHost = <<A!Piece(i, 1)>> /\ Runs(i, 2)
        \/ partial = i /\ toHost = <<>> /\ Runs(i, 2)
    BY <2>1, <2>2, <2>5, Zenon DEF Alone, OnWay, Rests
  <2>7. Alone(i)'
    <3>1. CASE partial = 0 /\ toHost = <<>> /\ Runs(i, 1)
      <4>1. toHost' = <<A!Piece(i, 1)>> /\ agent' = A!Piece(i, 2) /\ toAgent' = <<>>
        BY <2>1, <2>5, <3>1, Tuples, Pieces, Zenon DEF Runs
      <4>2. Runs(i, 2)'
        BY <2>1, <4>1 DEF Runs
      <4> QED
        BY <2>1, <3>1, <4>1, <4>2, ZenonT(30) DEF Alone
    <3>2. CASE partial = 0 /\ toHost = <<A!Piece(i, 1)>> /\ Runs(i, 2)
      <4>1. agent = A!Piece(i, 2) /\ toAgent' = <<>>
        BY <2>1, <3>2 DEF Runs
      <4>2. Append(<<A!Piece(i, 1)>>, A!Piece(i, 2)) = <<A!Piece(i, 1), A!Piece(i, 2)>>
        BY Tuples, Zenon
      <4>3. toHost' = <<A!Piece(i, 1), A!Piece(i, 2)>>
        BY <2>1, <3>2, <4>1, <4>2, Zenon
      <4>4. agent' = A!Nobody
        BY <2>1, <2>5, <4>1, Pieces
      <4>5. Rests'
        BY <4>1, <4>4 DEF Rests
      <4> QED
        BY <2>1, <3>2, <4>3, <4>5, Zenon DEF Alone
    <3>3. CASE partial = i /\ toHost = <<>> /\ Runs(i, 2)
      <4>1. agent = A!Piece(i, 2) /\ toAgent' = <<>>
        BY <2>1, <3>3 DEF Runs
      <4>2. Append(<<>>, A!Piece(i, 2)) = <<A!Piece(i, 2)>>
        BY Tuples
      <4>3. toHost' = <<A!Piece(i, 2)>>
        BY <2>1, <3>3, <4>1, <4>2, Zenon
      <4>4. agent' = A!Nobody
        BY <2>1, <2>5, <4>1, Pieces
      <4>5. Rests'
        BY <4>1, <4>4 DEF Rests
      <4> QED
        BY <2>1, <3>3, <4>3, <4>5, Zenon DEF Alone
    <3> QED
      BY <2>6, <3>1, <3>2, <3>3
  <2> QED
    BY <1>e, <2>1, <2>3, <2>4, <2>7 DEF Punctual
<1>8. CASE A!AgentCloses \/ UNCHANGED calls
  <2>1. UNCHANGED <<rpc, toAgent, agent, toHost, partial, failed>> /\ (link' => link)
    BY <1>8 DEF A!AgentCloses, calls
  <2>2. \A d \in Caller : Reading(d)' <=> Reading(d)
    BY <2>1 DEF Reading
  <2>3. \A i : (Alone(i) => Alone(i)') /\ (Silent => Silent')
    BY <2>1, Zenon DEF Alone, Silent, OnWay, Runs, Rests
  <2> QED
    BY <1>e, <2>1, <2>2, <2>3 DEF Punctual
<1> QED
  BY <1>1, <1>2, <1>3, <1>4, <1>5, <1>6, <1>7, <1>8 DEF A!Next, A!CallStep

CallsInv == CallTypes /\ A!AnswersMatch /\ Calm /\ Punctual

(* What holds of the calls at first.                                       *)
LEMMA CallsInit == ASSUME A!Init PROVE CallsInv
<1> USE CallsAssumption
<1>1. CallTypes
  BY CallTypesInit
<1>2. A!AnswersMatch
  BY DEF A!Init, A!AnswersMatch
<1>3. \A c \in Caller : ~Reading(c)
  BY DEF A!Init, Reading, A!Idle
<1>4. Calm
  BY <1>3 DEF A!Init, Calm, Ordered, Halves, A!Nobody, A!Piece
<1>5. Punctual
  BY <1>3 DEF A!Init, Punctual, Silent, Rests
<1> QED
  BY <1>1, <1>2, <1>4, <1>5 DEF CallsInv

(* The invariant of the calls is inductive.                                *)
LEMMA CallsStep == ASSUME CallsInv, [A!Next]_calls PROVE CallsInv'
<1> USE CallsAssumption
<1>1. CallTypes /\ A!AnswersMatch /\ Calm /\ Punctual
  BY DEF CallsInv
<1>2. CallTypes' /\ A!AnswersMatch' /\ Calm' /\ Punctual'
  BY <1>1, CallTypesStep, MatchStep, CalmStep, PunctualStep
<1> QED
  BY <1>2 DEF CallsInv

(* What the invariant says of the answers.                                 *)
LEMMA CallsSound ==
    ASSUME CallsInv
    PROVE  A!TypeOK /\ A!AnswersMatch /\ A!FailsOnlyLate /\ A!LateAnswersHarmlessElse
<1>1. A!TypeOK
  BY Zenon DEF CallsInv, CallTypes, CallPlain, CallQueue, A!TypeOK, Rpc, LinePart
<1>2. A!FailsOnlyLate
  BY DEF CallsInv, Punctual, A!FailsOnlyLate
<1>3. A!LateAnswersHarmlessElse
  BY DEF CallsInv, Calm, A!LateAnswersHarmlessElse
<1> QED
  BY <1>1, <1>2, <1>3 DEF CallsInv

-----------------------------------------------------------------------------
(* The output of a session, counted.                                       *)
INSTANCE FiniteSetTheorems

(* The size of a set, by the name that the session has for it.             *)
LEMMA SessionCount == \A X : S!Cardinality(X) = Cardinality(X)
  BY Zenon DEF S!Cardinality, Cardinality

(* Frames, when one more is sent.                                          *)
LEMMA MoreFrames ==
    ASSUME frames \in Seq(Frame), NEW f \in Frame, frames' = Append(frames, f)
    PROVE  /\ S!Range(frames') = S!Range(frames) \cup {f} /\ frames'[Len(frames')] = f
           /\ \A s : S!Count(s) \in Nat /\ S!Count(s)' = IF f = s THEN S!Count(s) + 1 ELSE S!Count(s)
<1> DEFINE n == Len(frames)
           At(s) == {k \in DOMAIN frames : frames[k] = s}
<1>1. n \in Nat /\ DOMAIN frames = 1..n
  OBVIOUS
<1>2. /\ Len(frames') = n + 1 /\ DOMAIN frames' = 1..(n + 1) /\ frames'[n + 1] = f
      /\ \A k \in 1..n : frames'[k] = frames[k]
  OBVIOUS
<1>3. n + 1 \notin DOMAIN frames /\ DOMAIN frames' = DOMAIN frames \cup {n + 1}
  BY <1>1, <1>2, SMTT(30)
<1>4. S!Range(frames') = S!Range(frames) \cup {f}
  BY <1>1, <1>2, <1>3, SMTT(30) DEF S!Range
<1>5. ASSUME NEW s PROVE S!Count(s) \in Nat /\ S!Count(s)' = IF f = s THEN S!Count(s) + 1 ELSE S!Count(s)
  <2>1. IsFiniteSet(DOMAIN frames)
    BY <1>1, FS_Interval
  <2>2. IsFiniteSet(At(s)) /\ Cardinality(At(s)) \in Nat /\ n + 1 \notin At(s)
    BY <1>3, <2>1, FS_Subset, FS_CardinalityType
  <2>3. {k \in DOMAIN frames' : frames'[k] = s} = IF f = s THEN At(s) \cup {n + 1} ELSE At(s)
    BY <1>1, <1>2, <1>3, SMTT(30)
  <2>4. Cardinality({k \in DOMAIN frames' : frames'[k] = s})
            = IF f = s THEN Cardinality(At(s)) + 1 ELSE Cardinality(At(s))
    BY <2>2, <2>3, FS_AddElement, Zenon
  <2> QED
    BY <2>2, <2>4, SessionCount, Zenon DEF S!Count
<1> QED
  BY <1>2, <1>4, <1>5

(* The frames of a stream are counted by a number.                         *)
LEMMA CountNat == ASSUME frames \in Seq(Frame) PROVE \A s : S!Count(s) \in Nat
<1>1. DOMAIN frames = 1..Len(frames) /\ Len(frames) \in Nat
  OBVIOUS
<1>2. IsFiniteSet(DOMAIN frames)
  BY <1>1, FS_Interval
<1> QED
  BY <1>2, FS_Subset, FS_CardinalityType, SessionCount DEF S!Count

(* The exit code comes last, after what was written.                       *)
SessExit ==
    sKind = "exec" /\ child # "none" =>
        /\ \A s \in S!Stream : pump[s] = "broken" \/ wrote[s] = pending[s] + S!Count(s)
        /\ "exit" \in S!Range(frames) => main = "over" /\ frames[Len(frames)] = "exit"

(* The exit is sent when the pumps are joined, and by then every write is  *)
(* a frame.                                                                *)
LEMMA SessExitStep ==
    ASSUME SessTypes, SessPlaces, SessPipes, SessExit, [S!Next]_session
    PROVE  SessExit'
<1>k. sKind' = sKind
  BY Zenon DEF S!Next, S!Agent, S!HostSends, S!HostLeaves, S!ProgramWrites, S!ProgramReads,
     S!ProgramEnds, S!HeirEnds, S!Reuse, S!Stray, S!Signal, S!Closes, S!Refuses, S!Received,
     S!ReadRequest, S!Spawn, S!ReadShellHeader, S!OpenPty, S!PumpStarts, S!Pump, S!Reaped,
     S!Exit, S!Watch, S!ShellReads, S!ShellWrites, S!io, session
<1> SUFFICES ASSUME sKind = "exec", child' # "none" PROVE SessExit'
  BY <1>k DEF SessExit
<1>p. \A s \in S!Stream : pending[s] \in Nat /\ wrote[s] \in Nat
  BY SessionAssumption DEF SessPipes
<1>f. frames \in Seq(Frame) /\ \A s \in S!Stream : s \in Frame /\ s # "exit"
  BY SMTT(30) DEF SessTypes, Frame, S!Stream
<1>1. CASE child = "none"
  <2>1. S!Spawn /\ UNCHANGED <<frames, pending, wrote>> /\ main = "spawn"
    BY <1>1, Zenon DEF SessPlaces, S!Next, S!Agent, S!HostSends, S!HostLeaves,
       S!ProgramWrites, S!ProgramReads, S!ProgramEnds, S!HeirEnds, S!Reuse, S!Stray,
       S!Signal, S!Closes, S!Refuses, S!Received, S!ReadRequest, S!Spawn, S!ReadShellHeader,
       S!OpenPty, S!PumpStarts, S!Pump, S!Reaped, S!Exit, S!Watch, S!ShellReads,
       S!ShellWrites, S!io, session
  <2>2. frames' = <<>> /\ \A s \in S!Stream : pump[s] = "off" /\ wrote[s] = 0 /\ pending[s] = 0
    BY <1>1, <1>p, <2>1, SMTT(30) DEF SessPlaces, SessPipes
  <2>3. S!Range(frames') = {} /\ \A s : {k \in DOMAIN frames' : frames'[k] = s} = {}
    BY <2>2 DEF S!Range
  <2>4. \A s : S!Count(s)' = 0
    BY <2>3, FS_EmptySet, SessionCount, SMTT(30) DEF S!Count
  <2>5. \A s \in S!Stream : wrote'[s] = pending'[s] + S!Count(s)'
    BY <2>1, <2>2, <2>4, SMTT(30)
  <2> QED
    BY <2>3, <2>5, ZenonT(30) DEF SessExit
<1>2. ASSUME child # "none" PROVE SessExit'
  <2>e. /\ \A s \in S!Stream : pump[s] = "broken" \/ wrote[s] = pending[s] + S!Count(s)
        /\ "exit" \in S!Range(frames) => main = "over" /\ frames[Len(frames)] = "exit"
    BY <1>2, SMTT(30) DEF SessExit
  <2>r. main \in {"run", "join", "over"} /\ \A s \in S!Stream : pump[s] \in {"run", "done", "broken"}
    BY <1>2, SMTT(30) DEF SessPlaces
  <2>1. ASSUME NEW s \in S!Stream, S!ProgramWrites(s) PROVE SessExit'
    <3>1. /\ wrote' = [wrote EXCEPT ![s] = @ + 1] /\ pending' = [pending EXCEPT ![s] = @ + 1]
          /\ UNCHANGED <<frames, pump, main>>
      BY <2>1 DEF S!ProgramWrites
    <3>2. \A t : S!Count(t)' = S!Count(t)
      BY <3>1, SMTT(30) DEF S!Count
    <3>3. \A t \in S!Stream : t # s => pending'[t] = pending[t] /\ wrote'[t] = wrote[t]
      BY <3>1, SMTT(30) DEF SessPipes
    <3>4. pending'[s] = pending[s] + 1 /\ wrote'[s] = wrote[s] + 1
      BY <3>1 DEF SessPipes
    <3>5. S!Count(s) \in Nat
      BY <1>f, CountNat, SMTT(30)
    <3>6. pump'[s] = "broken" \/ wrote'[s] = pending'[s] + S!Count(s)'
      BY <1>p, <2>e, <3>1, <3>2, <3>4, <3>5, SMTT(30)
    <3>7. \A t \in S!Stream : pump'[t] = "broken" \/ wrote'[t] = pending'[t] + S!Count(t)'
      BY <2>e, <3>1, <3>2, <3>3, <3>6, SMTT(30)
    <3> QED
      BY <2>e, <3>1, <3>7, ZenonT(30) DEF SessExit
  <2>2. ASSUME NEW s \in S!Stream, S!Pump(s) PROVE SessExit'
    <3>0. pump[s] = "run" /\ UNCHANGED <<main, wrote>>
      BY <2>2, SMTT(30) DEF S!Pump
    <3>1. "exit" \notin S!Range(frames)
      BY <1>2, <2>e, <3>0, SMTT(30) DEF SessPlaces
    <3>2. CASE pending' = [pending EXCEPT ![s] = @ - 1] /\ frames' = Append(frames, s) /\ UNCHANGED pump
      <4>1. "exit" \notin S!Range(frames')
        BY <1>f, <3>1, <3>2, MoreFrames, SMTT(30)
      <4>2. \A t \in S!Stream : S!Count(t) \in Nat /\ S!Count(t)' = IF t = s THEN S!Count(t) + 1 ELSE S!Count(t)
        BY <1>f, <3>2, MoreFrames, SMTT(30)
      <4>3. \A t \in S!Stream : pending'[t] = IF t = s THEN pending[t] - 1 ELSE pending[t]
        BY <3>2, SMTT(30) DEF SessPipes
      <4>4. ASSUME NEW t \in S!Stream PROVE pump'[t] = "broken" \/ wrote'[t] = pending'[t] + S!Count(t)'
        <5>1. pump[t] = "broken" \/ wrote[t] = pending[t] + S!Count(t)
          BY <2>e
        <5>2. pending[t] \in Nat /\ S!Count(t) \in Nat /\ UNCHANGED <<wrote, pump>>
          BY <1>p, <3>0, <3>2, <4>2, SMTT(30)
        <5>3. pending'[t] + S!Count(t)' = pending[t] + S!Count(t)
          BY <4>2, <4>3, <5>2, SMTT(30)
        <5> QED
          BY <5>1, <5>2, <5>3, Zenon
      <4> QED
        BY <4>1, <4>4, Zenon DEF SessExit
    <3>3. CASE UNCHANGED frames /\ pump' = [pump EXCEPT ![s] = "broken"] /\ pending' = [pending EXCEPT ![s] = @ - 1]
      <4>1. \A t : S!Count(t)' = S!Count(t)
        BY <3>3, SMTT(30) DEF S!Count
      <4>2. \A t \in S!Stream : IF t = s THEN pump'[t] = "broken" ELSE pump'[t] = pump[t] /\ pending'[t] = pending[t]
        BY <3>3, SMTT(30) DEF SessPipes, SessTypes, Pumping
      <4>3. ASSUME NEW t \in S!Stream PROVE pump'[t] = "broken" \/ wrote'[t] = pending'[t] + S!Count(t)'
        BY <2>e, <3>0, <4>1, <4>2, Zenon
      <4> QED
        BY <3>1, <3>3, <4>3, Zenon DEF SessExit
    <3>4. CASE UNCHANGED <<frames, pending>> /\ pump' = [pump EXCEPT ![s] = "done"]
      <4>1. \A t : S!Count(t)' = S!Count(t)
        BY <3>4 DEF S!Count
      <4>2. \A t \in S!Stream : pump'[t] = pump[t] \/ (t = s /\ pump[t] # "broken")
        BY <3>0, <3>4, SMTT(30) DEF SessTypes, Pumping
      <4>3. ASSUME NEW t \in S!Stream PROVE pump'[t] = "broken" \/ wrote'[t] = pending'[t] + S!Count(t)'
        BY <2>e, <3>0, <3>4, <4>1, <4>2, Zenon
      <4> QED
        BY <3>1, <3>4, <4>3, Zenon DEF SessExit
    <3> QED
      BY <2>2, <3>2, <3>3, <3>4, SMTT(30) DEF S!Pump
  <2>3. CASE S!Exit
    <3>1. /\ main = "join" /\ main' = "over" /\ frames' = Append(frames, "exit") /\ "exit" \in Frame
          /\ UNCHANGED <<pending, pump, wrote>>
      BY <2>3, SMTT(30) DEF S!Exit, S!Closes, Frame
    <3>2. frames'[Len(frames')] = "exit" /\ \A t \in S!Stream : S!Count(t)' = S!Count(t)
      BY <1>f, <3>1, MoreFrames, SMTT(30)
    <3> QED
      BY <2>e, <3>1, <3>2 DEF SessExit
  <2>4. CASE UNCHANGED <<frames, pending, wrote, pump>> /\ (main = "over" => main' = "over")
    <3>1. \A t : S!Count(t)' = S!Count(t)
      BY <2>4 DEF S!Count
    <3> QED
      BY <2>e, <2>4, <3>1 DEF SessExit
  <2>5. \/ \E s \in S!Stream : S!ProgramWrites(s) \/ S!Pump(s)
        \/ S!Exit
        \/ UNCHANGED <<frames, pending, wrote, pump>> /\ (main = "over" => main' = "over")
    <3>1. ASSUME NEW s \in S!Stream, S!PumpStarts(s) PROVE FALSE
      BY <2>r, <3>1, SMTT(30) DEF S!PumpStarts
    <3>2. ~S!ReadRequest /\ ~S!Spawn /\ ~S!ReadShellHeader /\ ~S!OpenPty /\ ~S!ShellReads /\ ~S!ShellWrites
      BY <2>r DEF S!ReadRequest, S!Spawn, S!ReadShellHeader, S!OpenPty, S!ShellReads,
         S!ShellWrites
    <3>3. CASE S!Reaped
      <4>1. main = "run"
        BY <3>3, SMTT(30) DEF S!Reaped, SessPlaces
      <4> QED
        BY <3>3, <4>1, SMTT(30) DEF S!Reaped, S!io
    <3>4. CASE S!HostSends \/ S!HostLeaves \/ S!ProgramReads \/ S!ProgramEnds \/ S!HeirEnds \/ S!Reuse \/ S!Watch \/ UNCHANGED session
      BY <3>4, Zenon DEF S!HostSends, S!HostLeaves, S!ProgramReads, S!ProgramEnds,
         S!HeirEnds, S!Reuse, S!Watch, S!io, session
    <3> QED
      BY <3>1, <3>2, <3>3, <3>4, SMTT(30) DEF S!Next, S!Agent
  <2> QED
    BY <2>1, <2>2, <2>3, <2>4, <2>5, SMTT(30)
<1> QED
  BY <1>1, <1>2, SMTT(30)

(* The input of a terminal keeps to its bound.                             *)
LEMMA SessInputStep == ASSUME input \in 0..Terminal, [S!Next]_session PROVE input' \in 0..Terminal
<1>1. CASE S!ProgramReads
  BY <1>1, SessionAssumption DEF S!ProgramReads
<1>2. CASE S!ShellWrites
  <2>1. UNCHANGED input \/ (input < Terminal /\ input' = input + 1)
    BY <1>2 DEF S!ShellWrites
  <2> QED
    BY <2>1, SessionAssumption, SMTT(30)
<1>3. CASE UNCHANGED input
  BY <1>3, SMTT(30)
<1>4. S!ProgramReads \/ S!ShellWrites \/ UNCHANGED input
  BY Zenon DEF S!Next, S!Agent, S!HostSends, S!HostLeaves, S!ProgramWrites, S!ProgramEnds,
     S!HeirEnds, S!Reuse, S!ReadRequest, S!Spawn, S!ReadShellHeader, S!OpenPty,
     S!PumpStarts, S!Pump, S!Reaped, S!Exit, S!Watch, S!ShellReads, session
<1> QED
  BY <1>1, <1>2, <1>3, <1>4, SMTT(30)

SessInv == SessTypes /\ SessPlaces /\ SessPipes /\ SessExit /\ input \in 0..Terminal

(* A session whose header is not read yet.                                 *)
LEMMA SessInit == ASSUME S!Init PROVE SessInv
<1>1. SessTypes
  <2>1. pump \in Pumping
    BY DEF S!Init, Pumping
  <2>2. inbox \in Seq(Sent) /\ frames \in Seq(Frame)
    BY DEF S!Init
  <2> QED
    BY <2>1, <2>2, Zenon DEF S!Init, SessTypes
<1>2. SessPlaces /\ SessExit
  BY DEF S!Init, SessPlaces, SessExit
<1>3. SessPipes /\ input \in 0..Terminal
  BY SessionAssumption DEF S!Init, SessPipes
<1> QED
  BY <1>1, <1>2, <1>3, SMTT(30) DEF SessInv

(* The invariant of the session is inductive.                              *)
LEMMA SessStep == ASSUME SessInv, [S!Next]_session PROVE SessInv'
<1>1. SessTypes /\ SessPlaces /\ SessPipes /\ SessExit /\ input \in 0..Terminal
  BY DEF SessInv
<1>2. SessTypes' /\ SessPlaces' /\ SessPipes' /\ SessExit' /\ input' \in 0..Terminal
  BY <1>1, SessTypesStep, SessPlacesStep, SessPipesStep, SessExitStep, SessInputStep, SMTT(30)
<1> QED
  BY <1>2 DEF SessInv

(* What the invariant says of the frames.                                  *)
LEMMA SessSound == ASSUME SessInv PROVE S!TypeOK /\ S!ExitComesLast
<1>1. S!TypeOK
  BY DEF SessInv, SessTypes, SessPipes, S!TypeOK, Pumping, Sent, Frame
<1>2. ASSUME sKind = "exec", child # "none", "exit" \in S!Range(frames)
      PROVE  frames[Len(frames)] = "exit" /\ \A s \in S!Stream : pump[s] = "broken" \/ S!Count(s) = wrote[s]
  <2>1. /\ \A s \in S!Stream : pump[s] = "broken" \/ wrote[s] = pending[s] + S!Count(s)
        /\ main = "over" /\ frames[Len(frames)] = "exit"
    BY <1>2, SMTT(30) DEF SessInv, SessExit
  <2>2. \A s \in S!Stream : pump[s] \in {"done", "broken"}
    BY <1>2, <2>1 DEF SessInv, SessPlaces
  <2>3. \A s \in S!Stream : pump[s] = "broken" \/ pending[s] = 0
    BY <2>2 DEF SessInv, SessPipes
  <2>4. \A s \in S!Stream : S!Count(s) \in Nat
    BY CountNat DEF SessInv, SessTypes
  <2> QED
    BY <2>1, <2>3, <2>4, SMTT(30)
<1> QED
  BY <1>1, <1>2, SMTT(30) DEF S!ExitComesLast

-----------------------------------------------------------------------------
(* A step is a step of one part, or leaves it alone.                       *)
LEMMA AnswersParts == [AnswersNext]_answers => [S!Next]_session /\ [A!Next]_calls
  BY Zenon DEF AnswersNext, AnswersStep, answers

(* A client that is told the exit code of its command was told before all  *)
(* that the command wrote, for any amount of output (execstream.rs: the    *)
(* pumps are joined before the exit is sent); and a call of the agent      *)
(* returns its own answer, or fails for a reason that the code allows      *)
(* (agent_client.rs), for any number of callers and of calls.              *)
THEOREM AnswersKeepOrder == AnswersSpec => []AnswersInOrder
<1>1. AnswersInit => SessInv /\ CallsInv
  BY SessInit, CallsInit DEF AnswersInit
<1>2. SessInv /\ CallsInv /\ [AnswersNext]_answers => SessInv' /\ CallsInv'
  BY SessStep, CallsStep, AnswersParts
<1>3. SessInv /\ CallsInv => AnswersInOrder
  BY SessSound, CallsSound DEF AnswersInOrder
<1> QED
  BY <1>1, <1>2, <1>3, PTL DEF AnswersSpec
=============================================================================
