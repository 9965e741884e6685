------------------------------ MODULE Notices ------------------------------
(***************************************************************************)
(* What the service shows on the host of what it learns from the machine:  *)
(* the ports that are published, the names of the containers in the hosts  *)
(* file, and the state of the engine on the control pipe.  They share no   *)
(* state.                                                                  *)
(***************************************************************************)
EXTENDS Naturals

CONSTANTS HostPort, Ip, MaxChanges, MaxLives, MaxEvents,
          Setter, Channel, MaxStates, MaxLines,
          Container, UserLine, Job, MaxStarts, MaxEdits

ASSUME PortsAssumption == MaxChanges \in Nat /\ MaxLives \in Nat /\ Ip # {}
ASSUME ControlAssumption == Channel \in Nat \ {0} /\ MaxStates \in Nat /\ MaxLines \in Nat
ASSUME StartsAssumption == MaxStarts \in Nat
(* No thread has the name of a step of start, stop or the event loop.      *)
ASSUME JobAssumption == Job \cap {"none", "todo", "route", "off", "idle"} = {}

VARIABLES
    docker, stream, watch, hub, accept, sock, service, initial, snapshot,
    active, socket, held, changes, lives, missed, unrelayed,
    state, set, newest, free, caller, lines, handler, task, current, rx, shown, asked, answered,
    lagged, crossed,
    power, table, loop, op, job, file, mine, route, ca, loading, starts, edits, mixed, harmed

P == INSTANCE Ports
C == INSTANCE Control WITH sent <- newest, client <- caller, initial <- current
N == INSTANCE Domains WITH engine <- power, lives <- starts, changes <- edits,
                           MaxLives <- MaxStarts, MaxChanges <- MaxEdits

ports == <<docker, stream, watch, hub, accept, sock, service, initial, snapshot,
           active, socket, held, changes, lives, missed, unrelayed>>
control == <<state, set, newest, free, caller, lines, handler, task, current, rx, shown, asked, answered,
             lagged, crossed>>
domains == <<power, table, loop, op, job, file, mine, route, ca, loading, starts, edits, mixed, harmed>>
notices == <<ports, control, domains>>

NoticesInit == P!Init /\ C!Init /\ N!Init
NoticesStep(part) ==
    \/ part = "ports" /\ P!Next /\ UNCHANGED <<control, domains>>
    \/ part = "control" /\ C!Next /\ UNCHANGED <<ports, domains>>
    \/ part = "domains" /\ N!Next /\ UNCHANGED <<ports, control>>
NoticesNext == \E part \in {"ports", "control", "domains"} : NoticesStep(part)
NoticesSpec == NoticesInit /\ [][NoticesNext]_notices

-----------------------------------------------------------------------------
(* Ports: every port of the agent's last list is relayed, and to the       *)
(* address that the list has for it, unless that list came to the event    *)
(* loop before start had set running: such a list is shown and not relayed *)
(* until the next (engine.rs and ports.rs of the service, events.rs of the *)
(* agent).                                                                 *)
ListenersCurrent == P!TypeOK /\ P!AnnouncedRelayedLater /\ P!RelayTargetsCurrent

(* Control: a subscriber that has read everything shows the state of the   *)
(* service, unless two setters crossed (engine.rs, ipc.rs).                *)
ShowsStateElse == C!TypeOK /\ C!ShowsStateElse

(* Domains: the hosts file names the containers of the table and keeps the *)
(* lines of the user, and the authority that was loaded is whole on disk   *)
(* (domains.rs, engine.rs).                                                *)
DomainsSound == N!TypeOK /\ N!HostsFollowElse /\ N!UserLinesKeptElse /\ N!AuthorityWhole
=============================================================================
