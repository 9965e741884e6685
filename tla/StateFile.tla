----------------------------- MODULE StateFile -----------------------------
(***************************************************************************)
(* The drives shared with the machine and the containers to start again,   *)
(* as state.json carries them from one start of the engine to the next     *)
(* (crates/solon-service/src/engine.rs, settings.rs).                      *)
(*                                                                         *)
(* Three tasks load state.json, change it and save it, without a lock on   *)
(* the file: stop, resume_after_start and ensure_share.  The machine has   *)
(* its own idea of its shares, which outlives the service.                 *)
(***************************************************************************)
EXTENDS Naturals, Sequences, Functions, FiniteSets

CONSTANTS
    Drive,     \* the drives of the host
    MaxStarts  \* bound: starts of the engine, each with a list of what ran

ASSUME StateFileAssumption ==
    IsFiniteSet(Drive) /\ Drive # {} /\ MaxStarts \in Nat

VARIABLES
    file,     \* state.json: shares and the list to resume (0: empty)
    engine,   \* "off", "on", "stopping", or "lost": the service was killed
    present,  \* the drives that exist
    ports,    \* Running.shares: the port of each drive, 0 when not shared
    vmPorts,  \* the shares of the machine itself
    share,    \* the ensure_share under way: its step, its drive, its copy of file
    resume,   \* resume_after_start: its step, its copy of file
    stop,     \* stop's copy of file
    resumed,  \* history: how often each list was started again
    mishaps,  \* history: what went wrong
    starts

others == <<engine, present, ports, vmPorts>>
vars == <<file, others, share, resume, stop, resumed, mishaps, starts>>

List == 0..MaxStarts
Port == 0..Cardinality(Drive)
Content == [shares : Seq(Drive), resume : List]
Default == [shares |-> <<>>, resume |-> 0]
Mishap == {"overlap", "unsaved", "killed", "notRemoved"}

TypeOK ==
    /\ file \in Content
    /\ engine \in {"off", "on", "stopping", "lost"}
    /\ present \subseteq Drive
    /\ ports \in [Drive -> Port] /\ vmPorts \in [Drive -> Port]
    /\ share \in [pc : {"idle", "mount", "load", "save"}, drive : Drive, copy : Content]
    /\ resume \in [pc : {"idle", "load", "save", "run"}, copy : Content]
    /\ stop \in Content
    /\ resumed \in [List -> Nat]
    /\ mishaps \subseteq Mishap
    /\ starts \in 0..MaxStarts

NoPorts == [d \in Drive |-> 0]
NoShare == [pc |-> "idle", drive |-> CHOOSE d \in Drive : TRUE, copy |-> Default]
NoResume == [pc |-> "idle", copy |-> Default]

Init ==
    /\ file = Default /\ engine = "off"
    /\ present = Drive
    /\ ports = NoPorts /\ vmPorts = NoPorts
    /\ share = NoShare /\ resume = NoResume
    /\ stop = Default
    /\ resumed = [l \in List |-> 0]
    /\ mishaps = {}
    /\ starts = 0

-----------------------------------------------------------------------------
Present(drives) ==
    LET kept[i \in 0..Len(drives)] ==
            IF i = 0 THEN <<>>
            ELSE IF drives[i] \in present THEN Append(kept[i - 1], drives[i]) ELSE kept[i - 1]
    IN kept[Len(drives)]

(* boot_shares: port 9100 + i, here 1 + i, for the i-th drive present.     *)
BootPorts(drives) ==
    LET found == Present(drives) IN
    [d \in Drive |-> IF d \in Range(found)
                       THEN CHOOSE i \in DOMAIN found : found[i] = d ELSE 0]

(* The first port that no share of the service's table uses.               *)
(* Mutant: the last port in use, for want of one more.                     *)
FreePortByCount(used) ==
    LET n == Cardinality({d \in Drive : used[d] # 0}) IN IF n = 0 THEN 1 ELSE n
FreePort(used) ==
    CHOOSE p \in 1..Cardinality(Drive) :
        /\ \A d \in Drive : used[d] # p
        /\ \A q \in 1..(p - 1) : \E d \in Drive : used[d] = q

(* A task loads the file, while another is between its load and its save   *)
(* or not; a save is atomic (a rename), and its failure is ignored.        *)
Load ==
    mishaps' = IF share.pc = "save" \/ resume.pc = "save" \/ engine = "stopping"
                 THEN mishaps \cup {"overlap"} ELSE mishaps

Save(content) ==
    \/ file' = content /\ UNCHANGED mishaps
    \/ mishaps' = mishaps \cup {"unsaved"} /\ UNCHANGED file

-----------------------------------------------------------------------------
(* start, up to the task that resumes what ran.  That task waits for two   *)
(* seconds: it has used its list before another stop and start go by.      *)
Start ==
    /\ engine = "off" /\ resume.pc = "idle"
    /\ starts < MaxStarts /\ starts' = starts + 1
    /\ ports' = BootPorts(file.shares) /\ vmPorts' = ports'
    /\ file' = [file EXCEPT !.shares = Present(@)]
    /\ engine' = "on"
    /\ resume' = [resume EXCEPT !.pc = "load"]
    /\ UNCHANGED <<present, share, stop, resumed, mishaps>>

(* start after the service was killed: the machine keeps its shares.       *)
Reattach ==
    /\ engine = "lost"
    /\ starts < MaxStarts /\ starts' = starts + 1
    /\ ports' = BootPorts(file.shares)
    /\ engine' = "on"
    /\ resume' = [resume EXCEPT !.pc = "load"]
    /\ UNCHANGED <<file, present, vmPorts, share, stop, resumed, mishaps>>

ResumeLoad ==
    /\ resume.pc = "load" /\ Load
    /\ resume' = IF file.resume = 0 THEN NoResume ELSE [pc |-> "save", copy |-> file]
    /\ UNCHANGED <<file, others, share, stop, resumed, starts>>

(* The list is consumed; the setting decides whether it is started.        *)
(* Mutant: the list is consumed once its containers are started.           *)
ResumeSaveLater ==
    /\ resume.pc = "save"
    /\ resume' \in {NoResume, [resume EXCEPT !.pc = "run"]}
    /\ UNCHANGED <<file, others, share, stop, resumed, mishaps, starts>>
ResumeSave ==
    /\ resume.pc = "save"
    /\ Save([resume.copy EXCEPT !.resume = 0])
    /\ resume' \in {NoResume, [resume EXCEPT !.pc = "run"]}
    /\ UNCHANGED <<others, share, stop, resumed, starts>>

(* Two seconds later; without a running engine, exec is refused.           *)
ResumeRun ==
    /\ resume.pc = "run"
    /\ resumed' = [resumed EXCEPT ![resume.copy.resume] =
                                  IF engine = "on" THEN @ + 1 ELSE @]
    /\ resume' = NoResume
    /\ UNCHANGED <<file, others, share, stop, mishaps, starts>>

-----------------------------------------------------------------------------
(* ensure_share holds the lock on `running' from here to its end.  HCS     *)
(* refuses a second share of the same drive; an error that it reports      *)
(* after it has added the share ends ensure_share at once.                 *)
ShareAdd(d) ==
    /\ engine = "on" /\ share.pc = "idle"
    /\ d \in present /\ ports[d] = 0
    /\ vmPorts[d] = 0
    /\ vmPorts' = [vmPorts EXCEPT ![d] = FreePort(ports)]
    /\ \/ share' = [share EXCEPT !.pc = "mount", !.drive = d] /\ UNCHANGED mishaps
       \/ mishaps' = mishaps \cup {"notRemoved"} /\ UNCHANGED share
    /\ UNCHANGED <<file, engine, present, ports, resume, stop, resumed, starts>>

ShareMounted ==
    /\ share.pc = "mount"
    /\ ports' = [ports EXCEPT ![share.drive] = FreePort(ports)]
    /\ share' = [share EXCEPT !.pc = "load"]
    /\ UNCHANGED <<file, engine, present, vmPorts, resume, stop, resumed, mishaps, starts>>

(* The guest could not mount it, or did not answer: the share is           *)
(* withdrawn, unless HCS refuses, which nobody looks at.                   *)
ShareRefused ==
    /\ share.pc = "mount"
    /\ \/ vmPorts' = [vmPorts EXCEPT ![share.drive] = 0] /\ UNCHANGED mishaps
       \/ mishaps' = mishaps \cup {"notRemoved"} /\ UNCHANGED vmPorts
    /\ share' = NoShare
    /\ UNCHANGED <<file, engine, present, ports, resume, stop, resumed, starts>>

(* Mutant: the drive goes into a new state instead of the one on disk.     *)
ShareLoadNothing ==
    /\ share.pc = "load"
    /\ share' = [share EXCEPT !.pc = "save"]
    /\ UNCHANGED <<file, others, resume, stop, resumed, mishaps, starts>>
ShareLoad ==
    /\ share.pc = "load" /\ Load
    /\ share' = [share EXCEPT !.pc = "save", !.copy = file]
    /\ UNCHANGED <<file, others, resume, stop, resumed, starts>>

ShareSave ==
    /\ share.pc = "save"
    /\ IF share.drive \in Range(share.copy.shares)
         THEN UNCHANGED <<file, mishaps>>
         ELSE Save([share.copy EXCEPT !.shares = Append(@, share.drive)])
    /\ share' = NoShare
    /\ UNCHANGED <<others, resume, stop, resumed, starts>>

-----------------------------------------------------------------------------
(* stop takes `running', hence waits for ensure_share; state.json comes    *)
(* last, once the machine is down.                                         *)
StopLoad ==
    /\ engine = "on" /\ share.pc = "idle" /\ Load
    /\ stop' = file
    /\ engine' = "stopping"
    /\ ports' = NoPorts /\ vmPorts' = NoPorts
    /\ UNCHANGED <<file, present, share, resume, resumed, starts>>

(* The list of what was running; a forced stop leaves none.                *)
StopSave ==
    /\ engine = "stopping"
    /\ \E list \in {0, starts} : Save([stop EXCEPT !.resume = list])
    /\ engine' = "off" /\ stop' = Default
    /\ UNCHANGED <<present, ports, vmPorts, share, resume, resumed, starts>>

-----------------------------------------------------------------------------
ServiceEnds ==
    /\ ports' = NoPorts
    /\ share' = NoShare
    /\ resume' = NoResume
    /\ stop' = Default
    /\ UNCHANGED <<file, present, resumed, starts>>

ServiceKilled ==
    /\ engine = "on"
    /\ ServiceEnds
    /\ engine' = "lost"
    /\ mishaps' = mishaps \cup {"killed"}
    /\ UNCHANGED vmPorts

PowerCut ==
    /\ engine # "off"
    /\ ServiceEnds
    /\ engine' = "off"
    /\ vmPorts' = NoPorts
    /\ UNCHANGED mishaps

PlugOrUnplug(d) ==
    /\ present' = IF d \in present THEN present \ {d} ELSE present \cup {d}
    /\ UNCHANGED <<file, engine, ports, vmPorts, share, resume, stop, resumed,
                   mishaps, starts>>

Next ==
    \/ Start \/ Reattach \/ ResumeLoad \/ ResumeSave \/ ResumeRun
    \/ ShareMounted \/ ShareRefused \/ ShareLoad \/ ShareSave
    \/ StopLoad \/ StopSave \/ ServiceKilled \/ PowerCut
    \/ \E d \in Drive : ShareAdd(d) \/ PlugOrUnplug(d)

Spec == Init /\ [][Next]_vars

-----------------------------------------------------------------------------
FileKept == mishaps \cap {"overlap", "unsaved"} = {}
TableKept == mishaps \cap {"killed", "notRemoved"} = {}

(* A list of what ran is started again once at most, even when the service *)
(* or the host goes down after the start that used it: the list is         *)
(* consumed before it is used (resume_after_start).                        *)
ResumeOnce == FileKept => \A l \in 1..MaxStarts : resumed[l] <= 1

(* A drive shared with the machine is in state.json, to be shared again at *)
(* the next start, as soon as ensure_share is over.                        *)
SharesRemembered ==
    FileKept /\ engine = "on" /\ share.pc = "idle" =>
        \A d \in Drive : ports[d] # 0 => d \in Range(file.shares)

(* Two shares of the machine never use one port, where the second drive    *)
(* would read the first (ensure_share).                                    *)
PortsAlwaysDiffer ==
    \A d, e \in Drive : d # e /\ vmPorts[d] # 0 => vmPorts[d] # vmPorts[e]

(* They do not, as long as the service was not killed beside its machine   *)
(* and HCS kept no share that ensure_share has given up.                   *)
PortsDiffer == TableKept => PortsAlwaysDiffer

(* Except during ensure_share, the service's table of shares is the        *)
(* machine's: a drive that could not be mounted can be tried again.        *)
TableIsExact ==
    TableKept => \A d \in Drive :
        ports[d] # vmPorts[d] => share.pc = "mount" /\ share.drive = d

(* The service's table of shares tells what the machine has: no port is    *)
(* given twice, and nothing is in one and not in the other (ensure_share). *)
SharesExact == PortsDiffer /\ TableIsExact
=============================================================================
