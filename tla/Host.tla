-------------------------------- MODULE Host --------------------------------
(***************************************************************************)
(* What the service keeps and shows on the host: its state file with the   *)
(* shared drives, the trace with its probes in the machine and its HTTP    *)
(* exchanges, the shared folders and the network of the machine; and what  *)
(* the command line does beside it: the copies of volumes and the update.  *)
(* They share no state here, so that a behaviour of this module is a       *)
(* behaviour of one of them, beside which the others stay in an initial    *)
(* state.                                                                  *)
(***************************************************************************)
EXTENDS StateFile

CONSTANTS History, Channel, MaxFacts, MaxLives,
          Socket, Ip, Ring, MaxContainers, MaxOpens, MaxRequests,
          MaxIno

VARIABLES
    part,   \* the one that runs
    machine, loader, status, accept, wire, collector, hub, pend, sub, rx, facts, lives, forgotten, raced,
    running, conn, sockets, ring, endpoints, names, told, started, opens, vanished,
    routed, reqs, owes, browser, cq, main, pendq, uq, server, served, due, switched, dq, pump,
    current, fact, exchanges, garbled,
    tab, attrs, dirs, disk, size, handle, moved, trouble,
    host, net, ends, svc, blind, later,
    source, zip, target, vol, copier, honest, unseen, cut,
    data, partial, path, up, broken, overlap

T == INSTANCE Trace
P == INSTANCE Probe
H == INSTANCE HttpProxy WITH client <- browser, answered <- served, facts <- exchanges
F == INSTANCE SolonFs
W == INSTANCE Network
V == INSTANCE Volumes WITH op <- copier
U == INSTANCE Update WITH part <- partial

trace == <<machine, loader, status, accept, wire, collector, hub, pend, sub, rx, facts, lives, forgotten, raced>>
probe == <<running, conn, sockets, ring, endpoints, names, told, started, opens, vanished>>
http == <<routed, reqs, owes, browser, cq, main, pendq, uq, server, served, due, switched, dq, pump,
          current, fact, exchanges, garbled>>
folders == <<tab, attrs, dirs, disk, size, handle, moved, trouble>>
network == <<host, net, ends, svc, blind, later>>
volumes == <<source, zip, target, vol, copier, honest, unseen, cut>>
update == <<data, partial, path, up, broken, overlap>>
rest == <<network, volumes, update>>
hostVars == <<part, vars, trace, probe, http, folders, rest>>

HostInit ==
    /\ part \in {"state", "trace", "probe", "http", "folders", "network", "volumes", "update"}
    /\ Init /\ T!Init /\ P!Init /\ H!Init /\ F!Init /\ W!Init /\ V!Init /\ U!Init
    /\ part # "volumes" => source = {} /\ \A n \in DOMAIN vol : vol[n] = "none"

HostNext ==
    /\ UNCHANGED part
    /\ \/ part = "state" /\ Next /\ UNCHANGED <<trace, probe, http, folders, rest>>
       \/ part = "trace" /\ T!Next /\ UNCHANGED <<vars, probe, http, folders, rest>>
       \/ part = "probe" /\ P!Next /\ UNCHANGED <<vars, trace, http, folders, rest>>
       \/ part = "http" /\ H!Next /\ UNCHANGED <<vars, trace, probe, folders, rest>>
       \/ part = "folders" /\ F!Next /\ UNCHANGED <<vars, trace, probe, http, rest>>
       \/ /\ \/ part = "network" /\ W!Next /\ UNCHANGED <<volumes, update>>
             \/ part = "volumes" /\ V!Next /\ UNCHANGED <<network, update>>
             \/ part = "update" /\ U!Next /\ UNCHANGED <<network, volumes>>
          /\ UNCHANGED <<vars, trace, probe, http, folders>>

HostSpec == HostInit /\ [][HostNext]_hostVars

-----------------------------------------------------------------------------
(* Trace: a subscriber of the trace misses no fact between the ones it was *)
(* given first and those that follow, and knows whether the probes work,   *)
(* unless their first word crossed its greeting (trace.rs of the service   *)
(* and of the agent, ipc.rs).  Probe: a fact about a socket tells what the *)
(* one that opened it did, unless a socket was freed without a transition  *)
(* that is seen, and names the container that did it (main.rs of the       *)
(* probes, trace.rs).                                                      *)
FactsKept ==
    /\ part = "trace" => T!TypeOK /\ T!NothingLostBetween /\ T!SubscriberKnows /\ T!ProbesKnownElse
    /\ part = "probe" => P!TypeOK /\ P!FactsFromOpener /\ P!CallerNamedRight

(* HttpProxy: an exchange joins a request and its own response, and the    *)
(* proxy finds where each response ends, unless an upgrade was refused     *)
(* (domains.rs).                                                           *)
ExchangesPaired == part = "http" => H!TypeOK /\ H!ExchangesPaired /\ H!FramedElse

(* SolonFs: the tables of the mount agree with each other; an open file is *)
(* still the one that was opened, unless a folder was renamed around it or *)
(* it was removed; and while only the mount writes, nothing fails half way *)
(* and no answer is lost, what the mount answers from its caches is what   *)
(* the disk has (solonfs.rs, fileserver.rs).                               *)
MountSound ==
    part = "folders" =>
        /\ F!TypeOK /\ F!TablesAgree /\ F!OpenFileFollowedElse
        /\ F!CachedSizeCurrent /\ F!FreshListCurrent

(* SolonFs: a file is destroyed only by an unlink of its name or a rename  *)
(* onto it, be it that the rename fails (fileserver.rs).                   *)
FilesSurvive == F!FilesSurvive

(* Network: the network that the machine is told of is there, with its     *)
(* endpoint alone on it, whatever an earlier start left; and none of the   *)
(* networks that HNS listed is written with its prefix (network.rs).       *)
NetworkSound == part = "network" => W!TypeOK /\ W!EndpointAlone /\ W!PrefixUnusedElse

(* Volumes: no copy goes over the data of another volume, unless the       *)
(* volume was made behind its look or the list of the volumes failed; and  *)
(* what is counted as copied is whole, unless the wait for an export       *)
(* failed (backup.rs, volumes.rs, import.rs).                              *)
VolumesSound == part = "volumes" => V!TypeOK /\ V!NothingOverwrittenElse /\ V!ReportsTrueElse

(* Update: what is launched is the whole installer, unless two downloads   *)
(* overlapped (update.rs).                                                 *)
InstallerWholeElse == part = "update" => U!TypeOK /\ U!InstallerWholeElse
=============================================================================
