------------------------------- MODULE Roles --------------------------------
(***************************************************************************)
(* Which configured host is the gateway, an access point or a switch: the  *)
(* probes of a set-up, detect.classify with its overrides and its cache of *)
(* earlier roles, the options flow that edits the hosts and writes the     *)
(* same cache, and the registry clean-up that trusts the outcome.          *)
(***************************************************************************)
EXTENDS Integers, Sequences, FiniteSets

CONSTANTS
    Host,           \* integers, in the order of _neg_key: the smaller wins a tie
    Config,         \* values of the "hosts" field: sequences of [host, role]
    Answer,         \* Answer[h]: what a probe of h can report, [wan, hop, wifi]
    Unreachable,    \* the probe failed
    Nobody          \* no gateway, no next hop

NoRole == "none"    \* no override, or nothing cached
Role   == {"gateway", "ap", "switch"}
Roles  == Role \cup {NoRole}

ASSUME HostAssumption == Host \subseteq Int /\ IsFiniteSet(Host) /\ Nobody \notin Host
ASSUME ConfigAssumption ==
    Config \subseteq {c \in Seq([host : Host, role : Roles]) :
                        \A i, j \in DOMAIN c : c[i].host = c[j].host => i = j}
ASSUME AnswerAssumption ==
    /\ Answer \in [Host -> SUBSET [wan : BOOLEAN, hop : Host \cup {Nobody}, wifi : BOOLEAN]]
    /\ \A h \in Host : Unreachable \notin Answer[h]

VARIABLES
    hosts,      \* entry.data["hosts"]
    detected,   \* entry.data["detected_roles"]
    phase,      \* "down", "probing", "probed" or "running"
    endpoints,  \* the coordinator's _all_endpoints and _role_overrides
    cached,     \* the roles _assign_roles read before it awaited the probes
    buckets,    \* _gateway_host, _ap_hosts and _switch_hosts
    devices     \* the hosts with a device in the registry

vars == <<hosts, detected, phase, endpoints, cached, buckets, devices>>

-----------------------------------------------------------------------------
(* detect.py *)

Hosts(c)         == {c[i].host : i \in DOMAIN c}
Overridden(c, R) == {c[i].host : i \in {j \in DOMAIN c : c[j].role \in R}}
Override(c, h)   == c[CHOOSE i \in DOMAIN c : c[i].host = h].role

\* next((h for h in hosts if h in S), None)
First(c, S) ==
    IF Hosts(c) \cap S = {} THEN Nobody
    ELSE c[CHOOSE i \in DOMAIN c : c[i].host \in S /\ \A j \in 1 .. i - 1 : c[j].host \notin S].host

Signals(c)    == {s \in [Hosts(c) -> UNION {Answer[h] : h \in Hosts(c)} \cup {Unreachable}] :
                    \A h \in Hosts(c) : s[h] \in Answer[h] \cup {Unreachable}}
Answers(s, h) == s[h] # Unreachable

Votes(s, h) == Cardinality({o \in DOMAIN s : Answers(s, o) /\ s[o].hop = h})
Elected(s, W) ==
    CHOOSE h \in W : \A g \in W : Votes(s, g) < Votes(s, h) \/ (Votes(s, g) = Votes(s, h) /\ h <= g)

\* A fault: without a wan signal, next-hop votes promote any host that answers.
SelectedGateway_ByVotes(c, s, cache) ==
    LET forced == Overridden(c, {"gateway"})
        free   == {h \in Overridden(c, {NoRole}) : Answers(s, h)}
    IN  IF forced # {} THEN First(c, forced) ELSE IF free # {} THEN Elected(s, free) ELSE Nobody

\* Step 2 of classify: an override, else a host with an up wan interface, else
\* the cached gateway, if it is silent.
SelectedGateway(c, s, cache) ==
    LET forced == Overridden(c, {"gateway"})
        free   == Overridden(c, {NoRole})
        wan    == {h \in free : Answers(s, h) /\ s[h].wan}
        silent == {h \in free : ~Answers(s, h) /\ cache[h] = "gateway"}
    IN  IF forced # {} THEN First(c, forced)
        ELSE IF wan # {} THEN Elected(s, wan) ELSE First(c, silent)

\* Faults: a silent host without a cached role gets none; the gateway is not
\* taken out of the hosts that are left.
RoleOf_NoDefault(c, s, cache, h) ==
    IF Override(c, h) \in {"ap", "switch"} THEN Override(c, h)
    ELSE IF h = SelectedGateway(c, s, cache) THEN "gateway"
    ELSE IF ~Answers(s, h) THEN cache[h] ELSE IF s[h].wifi THEN "ap" ELSE "switch"
RoleOf_GatewayToo(c, s, cache, h) ==
    IF Override(c, h) \in {"ap", "switch"} THEN Override(c, h)
    ELSE IF ~Answers(s, h) THEN IF cache[h] = NoRole THEN "switch" ELSE cache[h]
    ELSE IF s[h].wifi THEN "ap" ELSE "switch"

\* roles[h] at the end of classify.
RoleOf(c, s, cache, h) ==
    IF Override(c, h) \in {"ap", "switch"} THEN Override(c, h)
    ELSE IF h = SelectedGateway(c, s, cache) THEN "gateway"
    ELSE IF ~Answers(s, h) THEN IF cache[h] = NoRole THEN "switch" ELSE cache[h]
    ELSE IF s[h].wifi THEN "ap" ELSE "switch"

classify(c, s, cache) ==
    [gateway  |-> SelectedGateway(c, s, cache),
     aps      |-> {h \in Hosts(c) : RoleOf(c, s, cache, h) = "ap"},
     switches |-> {h \in Hosts(c) : RoleOf(c, s, cache, h) = "switch"}]

\* Overrides and cache only, for the time until the probes are in.
roles_from_cache(c, cache) ==
    LET role(h) == IF Override(c, h) # NoRole THEN Override(c, h) ELSE cache[h]
    IN  [gateway  |-> First(c, {h \in Hosts(c) : role(h) = "gateway"}),
         aps      |-> {h \in Hosts(c) : role(h) = "ap"},
         switches |-> {h \in Hosts(c) : role(h) = "switch"}]

NoRoles == [gateway |-> Nobody, aps |-> {}, switches |-> {}]

\* A fault: the cache holds the buckets only.
CacheOf_NoGateway(b) ==
    [h \in Host |-> IF h \in b.switches THEN "switch" ELSE IF h \in b.aps THEN "ap" ELSE NoRole]

\* The detected-role cache written back after a detection.
CacheOf(b) ==
    [h \in Host |-> IF h \in b.switches THEN "switch" ELSE IF h \in b.aps THEN "ap"
                    ELSE IF h = b.gateway THEN "gateway" ELSE NoRole]

Placed(b) == (b.aps \cup b.switches \cup {b.gateway}) \ {Nobody}

-----------------------------------------------------------------------------
(* Actions *)

\* The config flow has created the entry with a first detection.
Init ==
    /\ hosts \in Config
    /\ \E s \in Signals(hosts) : detected = CacheOf(classify(hosts, s, [h \in Host |-> NoRole]))
    /\ phase = "down"
    /\ endpoints = <<>>
    /\ cached = [h \in Host |-> NoRole]
    /\ buckets = NoRoles
    /\ devices = {}

\* A new coordinator; async_setup reads the cache and awaits the probes.
Load ==
    /\ phase = "down"
    /\ phase' = "probing"
    /\ endpoints' = hosts
    /\ cached' = detected
    /\ buckets' = roles_from_cache(hosts, detected)
    /\ UNCHANGED <<hosts, detected, devices>>

\* The probes are in: the rest of _assign_roles.  The roles are compared with
\* the cache as it was read, and written into the entry as it is by now.
Probed ==
    \E s \in Signals(endpoints) :
        LET b == classify(endpoints, s, cached)
        IN  /\ phase = "probing"
            /\ phase' = "probed"
            /\ buckets' = b
            /\ detected' = IF CacheOf(b) = cached THEN detected ELSE CacheOf(b)
            /\ UNCHANGED <<hosts, endpoints, cached, devices>>

\* The first refresh is done: async_setup_entry prunes the registry.
SetUp ==
    /\ phase = "probed"
    /\ phase' = "running"
    /\ devices' = devices \cap Placed(buckets)
    /\ UNCHANGED <<hosts, detected, endpoints, cached, buckets>>

\* The per-host sensors of a scan's host_stats: every host, or the gateway
\* only when the payload is partial.
HostSensors ==
    /\ phase = "running"
    /\ \E S \in {Placed(buckets), {buckets.gateway} \ {Nobody}} : devices' = devices \cup S
    /\ UNCHANGED <<hosts, detected, phase, endpoints, cached, buckets>>

\* A set-up step raises (it will be retried), or the entry is unloaded.
Stop ==
    /\ phase # "down"
    /\ phase' = "down"
    /\ endpoints' = <<>>
    /\ cached' = [h \in Host |-> NoRole]
    /\ buckets' = NoRoles
    /\ UNCHANGED <<hosts, detected, devices>>

\* Options flow: another list of hosts, with roles detected for it.
Edit ==
    \E c \in Config : \E s \in Signals(c) :
        /\ hosts' = c
        /\ detected' = CacheOf(classify(c, s, detected))
        /\ UNCHANGED <<phase, endpoints, cached, buckets, devices>>

Next == Load \/ Probed \/ SetUp \/ HostSensors \/ Stop \/ Edit

Spec == Init /\ [][Next]_vars

-----------------------------------------------------------------------------
(* Properties *)

\* Types; in particular no host is in two buckets.
TypeOK ==
    /\ hosts \in Config
    /\ detected \in [Host -> Roles] /\ cached \in [Host -> Roles]
    /\ phase \in {"down", "probing", "probed", "running"}
    /\ endpoints \in Config \cup {<<>>}
    /\ buckets \in [gateway : Host \cup {Nobody}, aps : SUBSET Host, switches : SUBSET Host]
    /\ buckets.aps \cap buckets.switches = {}
    /\ buckets.gateway \notin buckets.aps \cup buckets.switches
    /\ devices \subseteq Host

Detected == phase \in {"probed", "running"}

\* "Exactly one gateway at most, and only on a positive signal": no mix of
\* overrides, caches and outages ever makes a gateway of a host that neither has
\* a wan interface nor was declared one.
CanBeGateway(h) == \/ \E a \in Answer[h] : a.wan
                   \/ \E c \in Config : h \in Overridden(c, {"gateway"})
GatewayWasEarned ==
    /\ buckets.gateway # Nobody => CanBeGateway(buckets.gateway)
    /\ \A h \in Host : detected[h] = "gateway" => CanBeGateway(h)

\* A total outage at the next set-up changes no role: classify gives back what
\* the cache recorded of it.
OutageKeepsRoles ==
    Detected =>
        LET again == classify(endpoints, [h \in Hosts(endpoints) |-> Unreachable], CacheOf(buckets))
        IN  /\ again.gateway = buckets.gateway
            /\ buckets.aps \subseteq again.aps
            /\ buckets.switches \subseteq again.switches

\* A configured host is left out of the roles only as the silent former gateway
\* of a network that has another one now.
OnlyFormerGatewayLeftOut ==
    Detected =>
        \A h \in Hosts(endpoints) \ Placed(buckets) :
            /\ cached[h] = "gateway"
            /\ buckets.gateway # Nobody
            /\ Override(endpoints, h) \in {NoRole, "gateway"}

\* "Remove per-host devices for hosts no longer in the configured set": a device
\* that a set-up removes is not that of a configured host.
OnlyRemovedHostsPruned ==
    [][\A h \in devices \ devices' : h \notin Hosts(endpoints)]_vars
=============================================================================
