------------------------------ MODULE Network -------------------------------
(***************************************************************************)
(* The outgoing network of the machine (crates/solon-service/src/          *)
(* network.rs): one HNS network with a fixed identifier and one endpoint,  *)
(* made anew for every start of the engine, on the first of the candidate  *)
(* ranges that nothing on the host uses.  Other programs make and remove   *)
(* networks of the host at any time; the service may end at any point and  *)
(* what it made stays.                                                     *)
(*                                                                         *)
(* A range is one of three numbers, the candidates in their order; a wide  *)
(* network of the host, a /16, holds the first two of them.                *)
(***************************************************************************)
EXTENDS Naturals

Ranges == 1..3
None == 0

VARIABLES
    host,      \* networks of the host that are not Solon's: ranges and widths
    net,       \* the range of the Solon network, None: there is no such network
    ends,      \* endpoints on the Solon network
    svc,       \* the start: where it is, the range it chose, what it returned
    blind,     \* history: HNS did not list its networks for this start
    later      \* history: a network of the host appeared after the choice

vars == <<host, net, ends, svc, blind, later>>

Networks == {h \in [range : Ranges, wide : BOOLEAN] : h.wide => h.range \in {1, 2}}
(* What a network of the host takes: its /24, or a /16 with two of them.   *)
Takes(h) == IF h.wide THEN {1, 2} ELSE {h.range}

Idle == [pc |-> "idle", range |-> None, end |-> 0]

TypeOK ==
    /\ host \subseteq Networks /\ net \in Ranges \cup {None} /\ ends \subseteq 1..2
    /\ svc \in [pc : {"idle", "choose", "create", "endpoint", "query", "made"},
                range : Ranges \cup {None}, end : 0..2]
    /\ blind \in BOOLEAN /\ later \in BOOLEAN

Init ==
    /\ host = {} /\ net = None /\ ends = {} /\ svc = Idle /\ blind = FALSE /\ later = FALSE

-----------------------------------------------------------------------------
(* delete_network, at the head of ensure_network_and_endpoint.  When the   *)
(* networks cannot be listed, network_exists says no.                      *)
DeleteNetwork ==
    /\ svc.pc = "idle" /\ later' = FALSE
    /\ \/ /\ net' = None /\ ends' = {} /\ blind' = FALSE
          /\ svc' = [Idle EXCEPT !.pc = "choose"]
       \/ /\ svc' = [Idle EXCEPT !.pc = "choose"] /\ blind' = TRUE /\ UNCHANGED <<net, ends>>
       \/ svc' = svc /\ blind' = FALSE /\ UNCHANGED <<net, ends>>
    /\ UNCHANGED host

(* used_prefixes, extract_prefixes: the first three numbers of the address *)
(* of each network, whatever its width.                                    *)
UsedPrefixes == {h.range : h \in host} \cup {net}
(* enumerate_networks and network_properties: a network whose query fails  *)
(* is left out, all of them when the list cannot be had.                   *)
Lists == SUBSET UsedPrefixes
(* Mutant: the first candidate, used or not.                               *)
ChoosePrefixFirst(used) == Ranges
(* choose_prefix.                                                          *)
ChoosePrefix(used) == Ranges \ used

Choose ==
    /\ svc.pc = "choose"
    /\ \E used \in Lists :
          /\ blind' = (blind \/ used # UsedPrefixes)
          /\ LET free == ChoosePrefix(used)
             IN  IF free = {} THEN svc' = Idle
                 ELSE svc' = [svc EXCEPT !.pc = "create",
                              !.range = CHOOSE r \in free : \A q \in free : r <= q]
    /\ UNCHANGED <<host, net, ends, later>>

(* HcnCreateNetwork refuses an identifier that exists.                     *)
CreateNetwork ==
    /\ svc.pc = "create"
    /\ \/ net = None /\ net' = svc.range /\ svc' = [svc EXCEPT !.pc = "endpoint"]
       \/ svc' = Idle /\ UNCHANGED net
    /\ UNCHANGED <<host, ends, blind, later>>
(* HcnCreateEndpoint; on an error the network stays.                       *)
CreateEndpoint ==
    /\ svc.pc = "endpoint"
    /\ \/ \E e \in (1..2) \ ends :
             ends' = ends \cup {e} /\ svc' = [svc EXCEPT !.pc = "query", !.end = e]
       \/ svc' = Idle /\ UNCHANGED ends
    /\ UNCHANGED <<host, net, blind, later>>
(* HcnQueryEndpointProperties; on an error both stay.                      *)
QueryEndpoint ==
    /\ svc.pc = "query" /\ svc' \in {[svc EXCEPT !.pc = "made"], Idle}
    /\ UNCHANGED <<host, net, ends, blind, later>>

(* The machine stops: the network is removed, or that fails.               *)
Stop ==
    /\ svc.pc = "made" /\ svc' = Idle
    /\ \/ net' = None /\ ends' = {}
       \/ UNCHANGED <<net, ends>>
    /\ UNCHANGED <<host, blind, later>>
(* The service ends in the middle of it.                                   *)
Crash ==
    /\ svc.pc # "idle" /\ svc' = Idle
    /\ UNCHANGED <<host, net, ends, blind, later>>

HostAdds(h) ==
    /\ h \notin host /\ host' = host \cup {h}
    /\ later' = (later \/ svc.pc \notin {"idle", "choose"})
    /\ UNCHANGED <<net, ends, svc, blind>>
HostRemoves(h) ==
    /\ h \in host /\ host' = host \ {h}
    /\ UNCHANGED <<net, ends, svc, blind, later>>

Next ==
    \/ DeleteNetwork \/ Choose \/ CreateNetwork \/ CreateEndpoint \/ QueryEndpoint
    \/ Stop \/ Crash
    \/ \E h \in Networks : HostAdds(h) \/ HostRemoves(h)

Spec == Init /\ [][Next]_vars

-----------------------------------------------------------------------------
(* What ensure_network_and_endpoint returns is true: the machine's network *)
(* is there with the range it was given, and its endpoint is the only one  *)
(* on it, whatever an earlier start, a failure or a crash left behind.     *)
EndpointAlone ==
    svc.pc = "made" => net = svc.range /\ ends = {svc.end}

(* The range of the machine's network is the /24 with which none of the    *)
(* networks of the host is written, as long as HNS listed them and none    *)
(* came after the choice.  That is less than the free range the README     *)
(* speaks of: a network that is wider than a /24 is compared by its first  *)
(* three numbers alone, and the range may be a part of it.                 *)
PrefixUnusedElse ==
    svc.pc = "made" /\ ~blind /\ ~later => \A h \in host : h.range # svc.range
=============================================================================
