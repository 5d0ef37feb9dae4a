------------------------------ MODULE Topology ------------------------------
(***************************************************************************)
(* The physical topology of the LAN, read off the forwarding databases of  *)
(* the hosts that answer a scan: the uplink of every access point and      *)
(* switch, remembered across scans, and the access port of every client.   *)
(***************************************************************************)
EXTENDS Integers, FiniteSets, SequencesExt

CONSTANTS
    Gateway, ap_hosts, switch_hosts,    \* the configured hosts: one and two sequences of integers
    Client,         \* cabled devices
    Threshold,      \* FDB_UPLINK_MAC_THRESHOLD
    Imperfect       \* cables are moved, and tables can have lost the gateway

Order == <<Gateway>> \o ap_hosts \o switch_hosts     \* the order of self_macs
Host  == ToSet(Order)
Mac   == Host \cup Client                            \* a device stands for its MAC

ASSUME TopologyAssumption ==
    /\ Mac \subseteq Int /\ IsFiniteSet(Mac) /\ Host \cap Client = {}
    /\ {<<Gateway>>, ap_hosts, switch_hosts} \subseteq Seq(Int) /\ IsInjective(Order)
    /\ Threshold \in Nat \ {0} /\ Imperfect \in BOOLEAN

VARIABLES
    uplink,         \* the cables: what each device is plugged into
    cache,          \* _infra_parent_cache, a set of edges <<host, parent>>
    host_topology,  \* the edges that are published
    infra_parents,  \* the edges resolved by the last scan,
    switch_ports,   \* the access ports it found, a set of <<client, host, port>>,
    heard,          \* and the hosts it heard, {} if a table of theirs lacked an entry
    anchored        \* all of cache was resolved with the gateway, from complete tables

vars == <<uplink, cache, host_topology, infra_parents, switch_ports, heard, anchored>>

-----------------------------------------------------------------------------
(* Edges *)

Parents(p, S) == {e[2] : e \in {e \in p : e[1] \in S}}

\* The devices met by following the edges of p from n.
Above(p, n) ==
    LET up[i \in 0 .. Cardinality(Mac)] ==
            IF i = 0 THEN Parents(p, {n}) ELSE LET S == up[i - 1] IN S \cup Parents(p, S)
    IN  up[Cardinality(Mac)]

IsForest(p) == \A e \in p : e[1] \notin Above(p, e[1])

-----------------------------------------------------------------------------
(* What the hosts have learned *)

Cables(w) == {<<n, w[n]>> : n \in Mac \ {Gateway}}
Wirings   == {w \in [Mac \ {Gateway} -> Host] : IsForest(Cables(w))}

\* The port of h behind which m is, named by the device plugged into it.
Toward(h, m) ==
    LET Path == {m} \cup Above(Cables(uplink), m)
    IN  IF h \in Path THEN CHOOSE n \in Path \ {Gateway} : uplink[n] = h ELSE uplink[h]

\* The forwarding databases of hosts hs: host at has learned mac on port.  One may
\* have forgotten the gateway, by which resolve_infra_parents tells up from down.
Tables(hs) == {[at |-> e[1], mac |-> e[2], port |-> Toward(e[1], e[2])] : e \in {e \in hs \X Mac : e[1] # e[2]}}
Forgetful(all) == IF Imperfect THEN {all \ {f} : f \in {f \in all : f.mac = Gateway}} ELSE {}

-----------------------------------------------------------------------------
(* resolve_infra_parents and _winning_ports *)

\* Where m has been learned, and all that has been learned there.
Learned(fdb, m) == {f \in fdb : f.mac = m}
PortMacs(fdb, f) == {g.mac : g \in {g \in fdb : g.at = f.at /\ g.port = f.port}}

\* Python's order of tuples, and the least element in it.
Less(k, l) == \E i \in DOMAIN k : k[i] < l[i] /\ \A j \in 1 .. i - 1 : k[j] = l[j]
Least(S, Key(_)) == CHOOSE x \in S : \A y \in S \ {x} : Less(Key(x), Key(y))

\* The port with the fewest MACs comes first, and that of a switch on ties.
Plain(h) == IF h \in ToSet(switch_hosts) THEN 0 ELSE 1
PortRank_SwitchFirst(fdb, f) == <<Plain(f.at), Cardinality(PortMacs(fdb, f)), f.at>>    \* a fault
PortRank(fdb, f) == <<Cardinality(PortMacs(fdb, f)), Plain(f.at), f.at>>

\* Of the hosts heard, those on the port f other than the one f is about.
Shared(fdb, hs, f) == (PortMacs(fdb, f) \cap hs) \ {f.mac}

\* Faults: a shared port is never trusted; every port is.
Offers_Dedicated(fdb, hs, h) == {f \in Learned(fdb, h) : Shared(fdb, hs, f) = {}}
Offers_Anywhere(fdb, hs, h) == Learned(fdb, h)

\* The ports offered as uplinks of h.  With the gateway heard, a port that carries
\* its MAC faces it, so that h is above; otherwise only a port that no other host
\* shares is trusted.
Offers(fdb, hs, h) ==
    {f \in Learned(fdb, h) :
        IF Gateway \in hs
        THEN f.at = Gateway \/ Gateway \notin PortMacs(fdb, f)
        ELSE Shared(fdb, hs, f) = {}}

Claimed(fdb, hs) ==
    LET Key(f) == <<Cardinality(Shared(fdb, hs, f))>> \o PortRank(fdb, f)
    IN  {<<h, Least(Offers(fdb, hs, h), Key).at>> : h \in {h \in hs \ {Gateway} : Offers(fdb, hs, h) # {}}}

\* If the walk from start comes to a device twice, the edge of that device goes.
BreakFrom(p, start) ==
    LET Trail == {start} \cup Above(p, start)
        Loop  == {n \in Trail : n \in Above(p, n)}
        Entry == {n \in Loop : n = start \/ \E m \in Trail \ Loop : <<m, n>> \in p}
    IN  {e \in p : e[1] \notin Entry}

BreakCycles_Pairs(p) == {e \in p : <<e[2], e[1]>> \notin p}      \* a fault: longer cycles stay
BreakCycles(p) == FoldLeft(BreakFrom, p, Order)

resolve_infra_parents(fdb, hs) == BreakCycles(Claimed(fdb, hs))

\* For every client the port with the fewest MACs, of those that are no uplinks.
resolve_switch_ports(fdb) ==
    LET Key(f) == PortRank(fdb, f)
        Access(m) == {f \in Learned(fdb, m) : Cardinality(PortMacs(fdb, f)) <= Threshold}
        Winner(m) == Least(Access(m), Key)
    IN  {<<m, Winner(m).at, Winner(m).port>> : m \in {m \in Client : Access(m) # {}}}

-----------------------------------------------------------------------------
(* The coordinator *)

Init ==
    /\ uplink \in Wirings
    /\ cache = {} /\ host_topology = {} /\ infra_parents = {} /\ switch_ports = {}
    /\ heard = {} /\ anchored = TRUE

\* The edges of q, and those of p for other hosts; a fault, and all those of p.
Over_All(q, p) == q \cup p
Over(q, p) == q \cup {e \in p : \A f \in q : f[1] # e[1]}

\* Any host may fail to answer.
Scan ==
    \E hs \in SUBSET Host : \E all \in {Tables(hs)} : \E fdb \in {all} \cup Forgetful(all) :
        /\ infra_parents' = resolve_infra_parents(fdb, hs)
        /\ cache' = Over(infra_parents', cache)
        /\ host_topology' = Over(infra_parents', cache')
        /\ switch_ports' = resolve_switch_ports(fdb)
        /\ heard' = IF fdb = all THEN hs ELSE {}
        /\ anchored' = (anchored /\ (infra_parents' = {} \/ Gateway \in heard'))
        /\ UNCHANGED uplink

\* A device, with all that is plugged into it, moves to another host.
Rewire ==
    /\ Imperfect
    /\ \E n \in Mac \ {Gateway}, h \in Host :
          /\ h \notin {n, uplink[n]} /\ n \notin Above(Cables(uplink), h)
          /\ uplink' = [uplink EXCEPT ![n] = h]
    /\ infra_parents' = {} /\ switch_ports' = {} /\ heard' = {}
    /\ anchored' = (anchored /\ cache = {})
    /\ UNCHANGED <<cache, host_topology>>

\* A reload makes a new coordinator.
Reload ==
    /\ cache' = {} /\ host_topology' = {} /\ infra_parents' = {} /\ switch_ports' = {}
    /\ heard' = {} /\ anchored' = TRUE
    /\ UNCHANGED uplink

Next == Scan \/ Rewire \/ Reload

Spec == Init /\ [][Next]_vars

-----------------------------------------------------------------------------
(* Properties *)

Edge == {e \in (Host \ {Gateway}) \X Host : e[1] # e[2]}

TypeOK ==
    /\ uplink \in Wirings
    /\ \A p \in {cache, host_topology, infra_parents} :
          p \subseteq Edge /\ \A e, f \in p : e[1] = f[1] => e = f
    /\ switch_ports \subseteq Client \X Host \X Mac
    /\ heard \subseteq Host /\ anchored \in BOOLEAN

\* "The result is guaranteed acyclic": whichever hosts answer, and whatever their
\* tables lack, the parents that one scan resolves form a forest.
ResolvedIsForest == IsForest(infra_parents)

Uphill(h) == Above(Cables(uplink), h)

\* With the gateway's answer and complete tables every host that answers is placed
\* below the nearest host above it that answers, in chains and behind silent hosts.
GatewayGivesDirection ==
    Gateway \in heard =>
        \A h \in heard \ {Gateway} : \E p \in Uphill(h) \cap heard :
            /\ Parents(infra_parents, {h}) = {p}
            /\ (Uphill(h) \cap heard) \ {p} \subseteq Uphill(p)

\* Edges remembered from different scans fit together, if the gateway has answered
\* whenever one was resolved and no cable has moved: each leads towards the gateway.
RememberedEdgesLeadUp == anchored => \A e \in host_topology : e[2] \in Uphill(e[1])

\* A client is attributed to the port it is plugged into, if its host answers.
AccessPortIsExact ==
    \A m \in Client : uplink[m] \in heard =>
        \A s \in Client \X Host \X Mac : s[1] = m => (s \in switch_ports <=> s = <<m, uplink[m], m>>)
=============================================================================
