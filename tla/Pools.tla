------------------------------- MODULE Pools -------------------------------
(***************************************************************************)
(* What the agent hands out and takes back: the places of the DNS relay    *)
(* and the connections of the file system.  They share no state.           *)
(***************************************************************************)
EXTENDS Naturals, FiniteSets

CONSTANTS Worker, Id, Name, Address, Port, Servers, MAX_IN_FLIGHT, MAX_NAMES, MaxQuestions, MaxIps,
          Mount, Connections, MaxMachines

(* MAX_NAMES is at least two: remember drains half of the table.           *)
ASSUME DnsAssumption ==
    /\ IsFiniteSet(Worker) /\ Servers \in Nat /\ MAX_IN_FLIGHT \in Nat /\ MaxQuestions \in Nat
    /\ MAX_NAMES \in Nat /\ MAX_NAMES >= 2
ASSUME FsAssumption == IsFiniteSet(Mount) /\ Connections \in Nat /\ MaxMachines \in Nat \ {0}

VARIABLES
    qAsked, worker, flight, net, names, qTold,
    life, alive, machine, machines, loops, pool, call

D == INSTANCE Dns WITH asked <- qAsked, told <- qTold, Ip <- Address
F == INSTANCE FsPool WITH MaxLives <- MaxMachines

dns == <<qAsked, worker, flight, net, names, qTold>>
fs == <<life, alive, machine, machines, loops, pool, call>>
pools == <<dns, fs>>

PoolsInit == D!Init /\ F!Init
PoolsStep(part) ==
    \/ part = "dns" /\ D!Next /\ UNCHANGED fs
    \/ part = "fs" /\ F!Next /\ UNCHANGED dns
PoolsNext == \E part \in {"dns", "fs"} : PoolsStep(part)
PoolsSpec == PoolsInit /\ [][PoolsNext]_pools

-----------------------------------------------------------------------------
(* Every connection of the file system is in the pool, in a call or dead,  *)
(* and the dead ones are of earlier lives (solonfs.rs, fileserver.rs);     *)
(* every place of the DNS relay is a thread at work, which answers its own *)
(* question (dns.rs).                                                      *)
PoolsSound ==
    /\ F!TypeOK /\ F!DeadBelowLive /\ F!ConnectionsConserved
    /\ D!TypeOK /\ D!PlacesConserved /\ D!AnswersQuestion /\ D!TableBounded
=============================================================================
