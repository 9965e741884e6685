------------------------------ MODULE Session ------------------------------
(***************************************************************************)
(* A command or a terminal in the machine, for a client of the exec or of  *)
(* the shell pipe: handle of crates/solon-agent/src/execstream.rs and of   *)
(* crates/solon-agent/src/shell.rs.                                        *)
(*                                                                         *)
(* The program writes, may leave a child that keeps its output open, and   *)
(* ends when it likes.  A pid that was reaped, and a descriptor that was   *)
(* closed, belong to whoever gets them next.                               *)
(***************************************************************************)
EXTENDS Naturals, Sequences, FiniteSets, Functions

CONSTANTS MaxWrites,  \* bound: pieces that the program writes to each stream
          MaxFrames,  \* bound: frames that the host sends
          Terminal    \* frames of input that the terminal holds unread

VARIABLES
    kind,      \* "exec", "shell"
    host,      \* "open", "gone"
    inbox,     \* frames of the host that were not read
    main,      \* handle: "header", "spawn", "run", "write", "join", "over"
    child,     \* "none", "run", "zombie", "reaped"
    heir,      \* a process that the program left holds its output open
    pending,   \* per stream: pieces written and not read by its pump
    pump,      \* per stream: "off", "start", "run", "broken": a write failed, "done"
    wrote,     \* per stream: how many pieces the program wrote
    frames,    \* what the host was sent
    input,     \* frames of input in the terminal
    watcher,   \* exec: the thread that awaits the hangup: "off", "run", "done"
    pid, fd,   \* whose the pid and the descriptor client_fd are: "own", "free", "other"
    sent,      \* frames that the host sent
    signalled, \* the program was told of the hangup
    strays     \* history: what was done to somebody else's pid or descriptor

io == <<pending, pump, wrote, frames>>
vars == <<kind, host, inbox, main, child, heir, io, input, watcher, pid, fd, sent, signalled, strays>>

Stream == {"stdout", "stderr"}
Streams == IF kind = "exec" THEN Stream ELSE {"stdout"}
Writing == child = "run" \/ heir

TypeOK ==
    /\ kind \in {"exec", "shell"} /\ host \in {"open", "gone"}
    /\ inbox \in Seq({"header", "bad", "input"})
    /\ main \in {"header", "spawn", "run", "write", "join", "over"}
    /\ child \in {"none", "run", "zombie", "reaped"} /\ heir \in BOOLEAN
    /\ pending \in [Stream -> 0..MaxWrites] /\ wrote \in [Stream -> 0..MaxWrites]
    /\ pump \in [Stream -> {"off", "start", "run", "broken", "done"}]
    /\ frames \in Seq(Stream \cup {"exit"}) /\ input \in 0..Terminal
    /\ watcher \in {"off", "run", "done"}
    /\ pid \in {"own", "free", "other"} /\ fd \in {"own", "free", "other"}
    /\ strays \subseteq {"signal", "shutdown", "output"}

Init ==
    /\ kind \in {"exec", "shell"} /\ host = "open" /\ inbox = <<>> /\ main = "header"
    /\ child = "none" /\ heir = FALSE
    /\ pending = [s \in Stream |-> 0] /\ wrote = [s \in Stream |-> 0]
    /\ pump = [s \in Stream |-> "off"] /\ frames = <<>> /\ input = 0 /\ watcher = "off"
    /\ pid = "own" /\ fd = "own" /\ sent = 0 /\ signalled = FALSE /\ strays = {}

-----------------------------------------------------------------------------
(* The host, the program, and the rest of the machine.                     *)
HostSends ==
    /\ host = "open" /\ sent <= MaxFrames /\ sent' = sent + 1
    /\ \E f \in IF sent = 0 THEN {"header", "bad"} ELSE {"input"} : inbox' = Append(inbox, f)
    /\ UNCHANGED <<kind, host, main, child, heir, io, input, watcher, pid, fd, signalled, strays>>
HostLeaves ==
    /\ host = "open" /\ host' = "gone"
    /\ UNCHANGED <<kind, inbox, main, child, heir, io, input, watcher, pid, fd, sent, signalled, strays>>
ProgramWrites(s) ==
    /\ Writing /\ s \in Streams /\ wrote[s] < MaxWrites /\ pump[s] \in {"start", "run"}
    /\ wrote' = [wrote EXCEPT ![s] = @ + 1] /\ pending' = [pending EXCEPT ![s] = @ + 1]
    /\ UNCHANGED <<kind, host, inbox, main, child, heir, pump, frames, input, watcher, pid, fd,
                   sent, signalled, strays>>
ProgramReads ==
    /\ child = "run" /\ input > 0 /\ input' = input - 1
    /\ UNCHANGED <<kind, host, inbox, main, child, heir, io, watcher, pid, fd, sent, signalled, strays>>
ProgramEnds ==
    /\ child = "run" /\ child' = "zombie" /\ heir' \in BOOLEAN
    /\ UNCHANGED <<kind, host, inbox, main, io, input, watcher, pid, fd, sent, signalled, strays>>
HeirEnds ==
    /\ heir /\ child # "run" /\ heir' = FALSE
    /\ UNCHANGED <<kind, host, inbox, main, child, io, input, watcher, pid, fd, sent, signalled, strays>>
Reuse ==
    /\ \/ pid = "free" /\ pid' = "other" /\ UNCHANGED fd
       \/ fd = "free" /\ fd' = "other" /\ UNCHANGED pid
    /\ UNCHANGED <<kind, host, inbox, main, child, heir, io, input, watcher, sent, signalled, strays>>

-----------------------------------------------------------------------------
Stray(what, whose) == strays' = IF whose = "other" THEN strays \cup {what} ELSE strays
Signal == Stray("signal", pid) /\ signalled' = (child \in {"run", "zombie"} \/ signalled)

(* handle: the request, then the program with its pumps.                   *)
Closes == main' = "over" /\ fd' = "free"
Refuses == frames' = <<"stderr", "exit">> /\ Closes
Received == \/ inbox # <<>> /\ inbox' = Tail(inbox)
            \/ inbox = <<>> /\ host = "gone" /\ UNCHANGED inbox
ReadRequest ==
    /\ kind = "exec" /\ main = "header" /\ Received
    /\ IF inbox # <<>> /\ Head(inbox) = "header" THEN main' = "spawn" /\ UNCHANGED <<frames, fd>>
                                               ELSE Refuses
    /\ UNCHANGED <<kind, host, child, heir, pending, pump, wrote, input, watcher, pid, sent,
                   signalled, strays>>
Spawn ==
    /\ kind = "exec" /\ main = "spawn"
    /\ \/ /\ child' = "run" /\ main' = "run" /\ UNCHANGED <<frames, fd>>
          /\ pump' = [s \in Stream |-> "run"] /\ watcher' = "run"
       \/ Refuses /\ UNCHANGED <<child, pump, watcher>>
    /\ UNCHANGED <<kind, host, inbox, heir, pending, wrote, input, pid, sent, signalled, strays>>
(* A terminal has a size whatever the header says; openpty and fork may    *)
(* fail.                                                                   *)
ReadShellHeader ==
    /\ kind = "shell" /\ main = "header" /\ Received /\ main' = "spawn"
    /\ UNCHANGED <<kind, host, child, heir, io, input, watcher, pid, fd, sent, signalled, strays>>
OpenPty ==
    /\ kind = "shell" /\ main = "spawn"
    /\ \/ child' = "run" /\ main' = "run" /\ pump' = [pump EXCEPT !["stdout"] = "start"] /\ UNCHANGED fd
       \/ Closes /\ UNCHANGED <<child, pump>>
    /\ UNCHANGED <<kind, host, inbox, heir, pending, wrote, frames, input, watcher, pid, sent,
                   signalled, strays>>

(* The thread from the terminal to the host duplicates client_fd when it   *)
(* runs: handle may have closed it by then.                                *)
PumpStarts(s) ==
    /\ pump[s] = "start" /\ pump' = [pump EXCEPT ![s] = IF fd = "free" THEN "broken" ELSE "run"]
    /\ Stray("output", fd)
    /\ UNCHANGED <<kind, host, inbox, main, child, heir, pending, wrote, frames, input, watcher, pid,
                   fd, sent, signalled>>
(* A pump of exec, and the thread from the terminal to the host, which at  *)
(* its end shuts client_fd down, whatever that is by then.                 *)
Pump(s) ==
    /\ pump[s] = "run"
    /\ IF pending[s] > 0
         THEN /\ pending' = [pending EXCEPT ![s] = @ - 1]
              /\ \/ frames' = Append(frames, s) /\ UNCHANGED <<pump, strays>>
                 \/ /\ host = "gone" /\ pump' = [pump EXCEPT ![s] = "broken"] /\ UNCHANGED frames
                    /\ IF kind = "shell" THEN Stray("shutdown", fd) ELSE UNCHANGED strays
         ELSE /\ ~Writing /\ pump' = [pump EXCEPT ![s] = "done"] /\ UNCHANGED <<pending, frames>>
              /\ IF kind = "shell" THEN Stray("shutdown", fd) ELSE UNCHANGED strays
    /\ UNCHANGED <<kind, host, inbox, main, child, heir, wrote, input, watcher, pid, fd, sent,
                   signalled>>

(* The end of the program: child.wait of exec, the reaper for a shell.     *)
Reaped ==
    /\ child = "zombie" /\ main # "spawn" /\ child' = "reaped" /\ pid' = "free"
    /\ main' = IF kind = "exec" THEN "join" ELSE main
    /\ UNCHANGED <<kind, host, inbox, heir, io, input, watcher, fd, sent, signalled, strays>>

(* exec: the exit code follows what both pumps have sent.                  *)
(* Mutant: nobody waits for the pumps.                                     *)
ExitUnjoined ==
    /\ main = "join" /\ frames' = Append(frames, "exit") /\ Closes
    /\ UNCHANGED <<kind, host, inbox, child, heir, pending, pump, wrote, input, watcher, pid, sent,
                   signalled, strays>>
Exit ==
    /\ main = "join" /\ \A s \in Stream : pump[s] \in {"done", "broken"}
    /\ frames' = Append(frames, "exit") /\ Closes
    /\ UNCHANGED <<kind, host, inbox, child, heir, pending, pump, wrote, input, watcher, pid, sent,
                   signalled, strays>>

(* exec: the host that hangs up interrupts the command.                    *)
(* Mutant: the thread ends with the first frame.                           *)
WatchOnce ==
    /\ watcher = "run" /\ (inbox # <<>> \/ host = "gone") /\ watcher' = "done"
    /\ IF inbox = <<>> THEN Signal ELSE UNCHANGED <<signalled, strays>>
    /\ inbox' = <<>>
    /\ UNCHANGED <<kind, host, main, child, heir, io, input, pid, fd, sent>>
Watch ==
    /\ watcher = "run"
    /\ \/ inbox # <<>> /\ inbox' = Tail(inbox) /\ UNCHANGED <<watcher, signalled, strays>>
       \/ /\ inbox = <<>> /\ host = "gone" /\ watcher' = "done" /\ Signal /\ UNCHANGED inbox
    /\ UNCHANGED <<kind, host, main, child, heir, io, input, pid, fd, sent>>

(* shell: the frames of the host, which the terminal may refuse to take.   *)
ShellReads ==
    /\ kind = "shell" /\ main = "run"
    /\ \/ inbox # <<>> /\ inbox' = Tail(inbox) /\ main' = "write" /\ UNCHANGED <<fd, signalled, strays>>
       \/ inbox = <<>> /\ host = "gone" /\ UNCHANGED inbox /\ Signal /\ Closes
    /\ UNCHANGED <<kind, host, child, heir, io, input, watcher, pid, sent>>
ShellWrites ==
    /\ main = "write"
    /\ IF Writing THEN input < Terminal /\ input' = input + 1 /\ main' = "run"
                       /\ UNCHANGED <<fd, signalled, strays>>
                  ELSE Signal /\ Closes /\ UNCHANGED input
    /\ UNCHANGED <<kind, host, inbox, child, heir, io, watcher, pid, sent>>

-----------------------------------------------------------------------------
Agent == ReadRequest \/ ReadShellHeader \/ Spawn \/ OpenPty \/ Exit \/ ShellReads \/ ShellWrites
Next ==
    \/ HostSends \/ HostLeaves \/ ProgramReads \/ ProgramEnds \/ HeirEnds \/ Reuse
    \/ Agent \/ Watch \/ Reaped
    \/ \E s \in Stream : ProgramWrites(s) \/ PumpStarts(s) \/ Pump(s)

Fairness == WF_vars(Agent) /\ WF_vars(Watch) /\ WF_vars(Reaped)
            /\ \A s \in Stream : WF_vars(PumpStarts(s) \/ Pump(s))
Spec == Init /\ [][Next]_vars /\ Fairness

-----------------------------------------------------------------------------
Count(s) == Cardinality({k \in DOMAIN frames : frames[k] = s})

(* The exit code is the last frame, and by then the host was sent all that *)
(* the command wrote to both streams, what its heirs wrote included.       *)
ExitComesLast ==
    kind = "exec" /\ child # "none" /\ "exit" \in Range(frames) =>
        /\ frames[Len(frames)] = "exit"
        /\ \A s \in Stream : pump[s] = "broken" \/ Count(s) = wrote[s]

(* "If the host hangs up before the end, the command receives SIGTERM"     *)
(* (execstream.rs), "the end of the connection sends SIGHUP to the shell"  *)
(* (shell.rs); a shell whose terminal is full is not told.                 *)
HangupTold ==
    []<>(host # "gone" \/ child # "run" \/ signalled \/ main = "write")

(* Once the program and its heirs have ended, the session ends, though the *)
(* host may never leave a terminal.                                        *)
EndedEnds == []<>(child = "reaped" /\ ~heir /\ (kind = "exec" \/ host = "gone") => main = "over")
=============================================================================
