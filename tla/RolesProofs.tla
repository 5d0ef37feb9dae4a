---------------------------- MODULE RolesProofs -----------------------------
(***************************************************************************)
(* What role detection guarantees for every set of hosts, every list of    *)
(* overrides and everything the probes may answer.                         *)
(***************************************************************************)
EXTENDS Roles, WellFoundedInduction, FiniteSetTheorems, TLAPS

-----------------------------------------------------------------------------
(* Finite sets *)

\* A family of finite sets has a minimal member.
LEMMA MinimalSet ==
    ASSUME NEW F, F # {}, \A S \in F : IsFiniteSet(S)
    PROVE  \E S \in F : \A T \in F : ~(T \subseteq S /\ T # S)
  <1> DEFINE U == UNION F
  <1>1. F \subseteq FiniteSubsetsOf(U)
    BY DEF FiniteSubsetsOf
  <1>2. \E S \in F : \A T \in F : <<T, S>> \notin StrictSubsetOrdering(U)
    BY <1>1, FS_StrictSubsetOrderingWellFounded, WFMin
  <1>3. QED BY <1>2 DEF StrictSubsetOrdering

\* A non-empty set of indices has a first one.
LEMMA FirstIndex ==
    ASSUME NEW T \in SUBSET Nat, T # {}
    PROVE  \E i \in T : \A j \in T : i <= j
  <1> DEFINE F == {0 .. i : i \in T}
  <1>1. F # {}
    OBVIOUS
  <1>2. \A S \in F : IsFiniteSet(S)
    BY FS_Interval
  <1> HIDE DEF F
  <1>3. PICK S \in F : \A R \in F : ~(R \subseteq S /\ R # S)
    BY <1>1, <1>2, MinimalSet
  <1> USE DEF F
  <1>4. PICK i \in T : S = 0 .. i
    BY <1>3
  <1>5. ASSUME NEW j \in T PROVE i <= j
    <2>1. ~((0 .. j) \subseteq (0 .. i) /\ (0 .. j) # (0 .. i))
      BY <1>3, <1>4
    <2>2. j < i => i \in 0 .. i /\ i \notin 0 .. j /\ (0 .. j) \subseteq (0 .. i)
      OBVIOUS
    <2>3. QED BY <2>1, <2>2
  <1>6. QED BY <1>5

-----------------------------------------------------------------------------
(* Lists of hosts *)

LEMMA ElementOfSequence ==
    ASSUME NEW S, NEW s \in Seq(S), NEW i \in DOMAIN s PROVE s[i] \in S
  OBVIOUS

\* Hosts do not occur twice in a list.
LEMMA ConfigHosts ==
    ASSUME NEW c \in Config
    PROVE  /\ c \in Seq([host : Host, role : Roles])
           /\ \A i \in DOMAIN c : c[i] \in [host : Host, role : Roles]
           /\ Hosts(c) \subseteq Host
           /\ \A i, j \in DOMAIN c : c[i].host = c[j].host => i = j
  <1>1. c \in Seq([host : Host, role : Roles]) /\ \A i, j \in DOMAIN c : c[i].host = c[j].host => i = j
    BY ConfigAssumption
  <1>2. \A i \in DOMAIN c : c[i] \in [host : Host, role : Roles]
    BY <1>1, ElementOfSequence
  <1>3. QED BY <1>1, <1>2 DEF Hosts

\* Every host of a list has one override, or none.
LEMMA OverrideOfHost ==
    ASSUME NEW c \in Config, NEW h \in Hosts(c)
    PROVE  /\ Override(c, h) \in Roles
           /\ \A R : h \in Overridden(c, R) <=> Override(c, h) \in R
  <1>1. PICK i \in DOMAIN c : c[i].host = h
    BY DEF Hosts
  <1>2. (CHOOSE j \in DOMAIN c : c[j].host = h) = i
    BY <1>1, ConfigHosts
  <1>3. Override(c, h) = c[i].role
    BY <1>2 DEF Override
  <1>4. c[i] \in [host : Host, role : Roles]
    BY ConfigHosts
  <1>5. ASSUME NEW R PROVE h \in Overridden(c, R) <=> c[i].role \in R
    BY <1>1, ConfigHosts DEF Overridden
  <1>6. QED BY <1>3, <1>4, <1>5

LEMMA OverriddenHosts ==
    ASSUME NEW c, NEW R PROVE Overridden(c, R) \subseteq Hosts(c)
  BY DEF Overridden, Hosts

\* The first host of a set, if the list has one.
LEMMA FirstOfSet ==
    ASSUME NEW c \in Config, NEW S
    PROVE  /\ Hosts(c) \cap S # {} => First(c, S) \in Hosts(c) \cap S
           /\ Hosts(c) \cap S = {} => First(c, S) = Nobody
  <1>1. ASSUME Hosts(c) \cap S # {} PROVE First(c, S) \in Hosts(c) \cap S
    <2> DEFINE T == {i \in DOMAIN c : c[i].host \in S}
    <2>1. T # {} /\ T \subseteq Nat /\ DOMAIN c = 1 .. Len(c) /\ Len(c) \in Nat
      BY <1>1, ConfigHosts DEF Hosts
    <2>2. PICK i \in T : \A j \in T : i <= j
      BY <2>1, FirstIndex
    <2>3. \A j \in 1 .. i - 1 : c[j].host \notin S
      <3> SUFFICES ASSUME NEW j \in 1 .. i - 1, c[j].host \in S PROVE FALSE
        OBVIOUS
      <3>1. i \in 1 .. Len(c)
        BY <2>1
      <3>2. j \in DOMAIN c
        BY <2>1, <3>1
      <3>3. j \in T /\ j < i
        BY <3>1, <3>2
      <3>4. QED BY <2>2, <3>1, <3>3
    <2> DEFINE f == CHOOSE k \in DOMAIN c : c[k].host \in S /\ \A j \in 1 .. k - 1 : c[j].host \notin S
    <2>4. f \in DOMAIN c /\ c[f].host \in S
      BY <2>2, <2>3
    <2>5. First(c, S) = c[f].host
      BY <1>1 DEF First
    <2> HIDE DEF f
    <2>6. QED BY <2>4, <2>5 DEF Hosts
  <1>2. QED BY <1>1 DEF First

-----------------------------------------------------------------------------
(* classify *)

Cache == [Host -> Roles]

LEMMA SignalsOfHosts ==
    ASSUME NEW c \in Config, NEW s \in Signals(c)
    PROVE  /\ DOMAIN s = Hosts(c) /\ IsFiniteSet(Hosts(c))
           /\ \A h \in Hosts(c) : Answers(s, h) => s[h] \in Answer[h]
  <1>1. IsFiniteSet(Hosts(c))
    BY ConfigHosts, HostAssumption, FS_Subset
  <1>2. QED BY <1>1 DEF Signals, Answers

\* An election among some hosts of the list has a winner.
LEMMA ElectedIsCandidate ==
    ASSUME NEW c \in Config, NEW s \in Signals(c), NEW W \in SUBSET Hosts(c), W # {}
    PROVE  Elected(s, W) \in W
  <1> DEFINE beats(g, h) == Votes(s, g) > Votes(s, h) \/ (Votes(s, g) = Votes(s, h) /\ g <= h)
             F == {{g \in W : beats(g, h)} : h \in W}
  <1>1. IsFiniteSet(W) /\ W \subseteq Int
    BY SignalsOfHosts, ConfigHosts, HostAssumption, FS_Subset
  <1>2. \A h \in W : Votes(s, h) \in Nat
    <2>1. \A h : IsFiniteSet({o \in DOMAIN s : Answers(s, o) /\ s[o].hop = h})
      BY SignalsOfHosts, FS_Subset
    <2>2. QED BY <2>1, FS_CardinalityType DEF Votes
  <1>3. F # {}
    OBVIOUS
  <1>4. \A S \in F : IsFiniteSet(S)
    BY <1>1, FS_Subset
  <1> HIDE DEF F
  <1>5. PICK S \in F : \A R \in F : ~(R \subseteq S /\ R # S)
    BY <1>3, <1>4, MinimalSet
  <1> USE DEF F
  <1>6. PICK h \in W : S = {g \in W : beats(g, h)}
    BY <1>5
  <1>7. ASSUME NEW g \in W
        PROVE  Votes(s, g) < Votes(s, h) \/ (Votes(s, g) = Votes(s, h) /\ h <= g)
    <2> SUFFICES ASSUME ~(Votes(s, g) < Votes(s, h) \/ (Votes(s, g) = Votes(s, h) /\ h <= g))
                 PROVE  FALSE
      OBVIOUS
    <2>1. beats(g, h) /\ ~beats(h, g)
      BY <1>1, <1>2
    <2>2. \A x \in W : beats(x, g) => beats(x, h)
      BY <1>1, <1>2, <2>1
    <2>3. {x \in W : beats(x, g)} \subseteq S
      BY <1>6, <2>2
    <2>4. h \in S /\ h \notin {x \in W : beats(x, g)}
      BY <1>1, <1>2, <1>6, <2>1
    <2>5. {x \in W : beats(x, g)} \in F
      OBVIOUS
    <2>6. QED BY <1>5, <2>3, <2>4, <2>5
  <1>8. \E x \in W : \A g \in W : Votes(s, g) < Votes(s, x) \/ (Votes(s, g) = Votes(s, x) /\ x <= g)
    BY <1>7
  <1> HIDE DEF F
  <1>9. QED BY <1>8 DEF Elected

\* The gateway is a host of the list that was declared one, or has an up wan
\* interface, or was the gateway when it fell silent.
LEMMA GatewayGrounds ==
    ASSUME NEW c \in Config, NEW s \in Signals(c), NEW k \in Cache,
           SelectedGateway(c, s, k) # Nobody
    PROVE  LET g == SelectedGateway(c, s, k)
           IN  /\ g \in Hosts(c)
               /\ \/ Override(c, g) = "gateway"
                  \/ Override(c, g) = NoRole /\ Answers(s, g) /\ s[g].wan
                  \/ Override(c, g) = NoRole /\ ~Answers(s, g) /\ k[g] = "gateway"
  <1> DEFINE g      == SelectedGateway(c, s, k)
             forced == Overridden(c, {"gateway"})
             free   == Overridden(c, {NoRole})
             wan    == {h \in free : Answers(s, h) /\ s[h].wan}
             silent == {h \in free : ~Answers(s, h) /\ k[h] = "gateway"}
  <1>1. forced \subseteq Hosts(c) /\ free \subseteq Hosts(c)
    BY OverriddenHosts
  <1>2. CASE forced # {}
    <2>1. g = First(c, forced)
      BY <1>2 DEF SelectedGateway
    <2>2. g \in forced
      BY <1>1, <1>2, <2>1, FirstOfSet
    <2>3. Override(c, g) = "gateway"
      BY <1>1, <2>2, OverrideOfHost
    <2>4. QED BY <1>1, <2>2, <2>3
  <1>3. CASE forced = {} /\ wan # {}
    <2>1. g = Elected(s, wan)
      BY <1>3 DEF SelectedGateway
    <2>2. g \in wan
      <3>1. wan \in SUBSET Hosts(c) /\ wan # {}
        BY <1>1, <1>3
      <3> HIDE DEF wan
      <3>2. Elected(s, wan) \in wan
        BY <3>1, ElectedIsCandidate
      <3>3. QED BY <2>1, <3>2
    <2>3. Override(c, g) = NoRole
      BY <1>1, <2>2, OverrideOfHost
    <2>4. QED BY <1>1, <2>2, <2>3
  <1>4. CASE forced = {} /\ wan = {}
    <2>1. g = First(c, silent)
      BY <1>4 DEF SelectedGateway
    <2>2. g \in silent
      BY <2>1, FirstOfSet
    <2>3. Override(c, g) = NoRole
      BY <1>1, <2>2, OverrideOfHost
    <2>4. QED BY <1>1, <2>2, <2>3
  <1>5. QED BY <1>2, <1>3, <1>4

\* Without a gateway no host of the list was declared one, and none that may be
\* one is silent after having been one.
LEMMA NoGateway ==
    ASSUME NEW c \in Config, NEW s \in Signals(c), NEW k \in Cache,
           SelectedGateway(c, s, k) = Nobody, NEW h \in Hosts(c)
    PROVE  /\ Override(c, h) # "gateway"
           /\ Override(c, h) = NoRole => Answers(s, h) \/ k[h] # "gateway"
  <1> DEFINE forced == Overridden(c, {"gateway"})
             free   == Overridden(c, {NoRole})
             wan    == {x \in free : Answers(s, x) /\ s[x].wan}
             silent == {x \in free : ~Answers(s, x) /\ k[x] = "gateway"}
  <1>1. forced \subseteq Hosts(c) /\ free \subseteq Hosts(c) /\ Nobody \notin Hosts(c)
    BY OverriddenHosts, ConfigHosts, HostAssumption
  <1>2. forced = {}
    <2>1. forced # {} => SelectedGateway(c, s, k) = First(c, forced)
      BY DEF SelectedGateway
    <2>2. forced # {} => First(c, forced) \in Hosts(c)
      BY <1>1, FirstOfSet
    <2>3. QED BY <1>1, <2>1, <2>2
  <1>3. wan = {}
    <2>1. wan # {} => SelectedGateway(c, s, k) = Elected(s, wan)
      BY <1>2 DEF SelectedGateway
    <2>2. wan \in SUBSET Hosts(c)
      BY <1>1
    <2> HIDE DEF wan
    <2>3. wan # {} => Elected(s, wan) \in wan
      BY <2>2, ElectedIsCandidate
    <2>4. QED BY <1>1, <2>1, <2>2, <2>3
  <1>4. First(c, silent) = Nobody
    BY <1>2, <1>3 DEF SelectedGateway
  <1>5. silent = {}
    <2>1. silent \subseteq Hosts(c)
      BY <1>1
    <2> HIDE DEF silent
    <2>2. QED BY <1>1, <1>4, <2>1, FirstOfSet
  <1>6. Override(c, h) # "gateway"
    BY <1>2, OverrideOfHost
  <1>7. Override(c, h) = NoRole => h \in free
    BY OverrideOfHost
  <1>8. QED BY <1>5, <1>6, <1>7

\* Buckets: a gateway or none, and the hosts that are access points and switches, no
\* host in two of them.
Bucket == [gateway : Host \cup {Nobody}, aps : SUBSET Host, switches : SUBSET Host]
Disjoint(b) == b.aps \cap b.switches = {} /\ b.gateway \notin b.aps \cup b.switches

LEMMA ClassifyBuckets ==
    ASSUME NEW c \in Config, NEW s \in Signals(c), NEW k \in Cache
    PROVE  classify(c, s, k) \in Bucket /\ Disjoint(classify(c, s, k))
  <1> DEFINE g == SelectedGateway(c, s, k)
             A == {h \in Hosts(c) : RoleOf(c, s, k, h) = "ap"}
             W == {h \in Hosts(c) : RoleOf(c, s, k, h) = "switch"}
  <1>1. classify(c, s, k) = [gateway |-> g, aps |-> A, switches |-> W]
    BY DEF classify
  <1>2. g \in Host \cup {Nobody}
    BY GatewayGrounds, ConfigHosts
  <1>3. A \subseteq Host /\ W \subseteq Host /\ A \cap W = {}
    BY ConfigHosts
  <1>4. g \notin A \cup W
    <2>1. CASE g = Nobody
      BY <1>3, <2>1, HostAssumption
    <2>2. CASE g # Nobody
      <3>1. Override(c, g) \notin {"ap", "switch"}
        BY <2>2, GatewayGrounds DEF NoRole
      <3>2. RoleOf(c, s, k, g) = "gateway"
        BY <3>1 DEF RoleOf
      <3>3. QED BY <3>2
    <2>3. QED BY <2>1, <2>2
  <1> HIDE DEF g, A, W
  <1>5. QED BY <1>1, <1>2, <1>3, <1>4 DEF Bucket, Disjoint

LEMMA CachedBuckets ==
    ASSUME NEW c \in Config, NEW k \in Cache
    PROVE  roles_from_cache(c, k) \in Bucket /\ Disjoint(roles_from_cache(c, k))
  <1> DEFINE role(h) == IF Override(c, h) # NoRole THEN Override(c, h) ELSE k[h]
             G == {h \in Hosts(c) : role(h) = "gateway"}
             A == {h \in Hosts(c) : role(h) = "ap"}
             W == {h \in Hosts(c) : role(h) = "switch"}
             g == First(c, G)
  <1>1. roles_from_cache(c, k) = [gateway |-> g, aps |-> A, switches |-> W]
    BY DEF roles_from_cache
  <1>2. Hosts(c) \subseteq Host /\ Nobody \notin Host
    BY ConfigHosts, HostAssumption
  <1>3. A \subseteq Host /\ W \subseteq Host /\ A \cap W = {} /\ G \cap (A \cup W) = {}
    BY <1>2
  <1>4. g \in G \/ g = Nobody
    <2> HIDE DEF G
    <2>1. QED BY FirstOfSet
  <1>5. g \in Host \cup {Nobody} /\ g \notin A \cup W
    BY <1>2, <1>3, <1>4
  <1> HIDE DEF g, A, W
  <1>6. QED BY <1>1, <1>3, <1>5 DEF Bucket, Disjoint

LEMMA CacheOfBuckets ==
    ASSUME NEW b \in Bucket
    PROVE  /\ CacheOf(b) \in Cache
           /\ \A h \in Host : CacheOf(b)[h] = "gateway" => h = b.gateway
  BY DEF CacheOf, Cache, Roles, Role, NoRole, Bucket

-----------------------------------------------------------------------------
(* The inductive invariant *)

\* While a coordinator runs it works on a list of the entry, once its probes are in its
\* buckets are what they make of that list, and nothing that is or was recorded
\* as a gateway came from nowhere.
EndpointsLoaded == phase # "down" => endpoints \in Config
Classified      == Detected => \E s \in Signals(endpoints) : buckets = classify(endpoints, s, cached)
Earned(k)       == \A h \in Host : k[h] = "gateway" => CanBeGateway(h)
EarnedBuckets   == buckets.gateway # Nobody => CanBeGateway(buckets.gateway)

RolesInv ==
    /\ TypeOK
    /\ EndpointsLoaded /\ Classified
    /\ Earned(detected) /\ Earned(cached) /\ EarnedBuckets

\* A detection makes a gateway only of a host that may be one.
LEMMA ClassifyEarns ==
    ASSUME NEW c \in Config, NEW s \in Signals(c), NEW k \in Cache, Earned(k)
    PROVE  LET b == classify(c, s, k)
           IN  /\ b.gateway # Nobody => CanBeGateway(b.gateway)
               /\ CacheOf(b) \in Cache /\ Earned(CacheOf(b))
  <1> DEFINE b == classify(c, s, k)
             g == SelectedGateway(c, s, k)
  <1>1. b.gateway = g /\ b \in Bucket
    BY ClassifyBuckets DEF classify
  <1>2. ASSUME g # Nobody PROVE CanBeGateway(g)
    <2>1. g \in Hosts(c) /\ g \in Host
      BY <1>2, GatewayGrounds, ConfigHosts
    <2>2. CASE Override(c, g) = "gateway"
      BY <2>1, <2>2, OverrideOfHost DEF CanBeGateway
    <2>3. CASE Answers(s, g) /\ s[g].wan
      BY <2>1, <2>3, SignalsOfHosts DEF CanBeGateway
    <2>4. CASE k[g] = "gateway"
      BY <2>1, <2>4 DEF Earned
    <2>5. QED BY <1>2, <2>2, <2>3, <2>4, GatewayGrounds
  <1>3. CacheOf(b) \in Cache /\ \A h \in Host : CacheOf(b)[h] = "gateway" => h = g
    BY <1>1, CacheOfBuckets
  <1>4. Earned(CacheOf(b))
    <2> HIDE DEF g, b
    <2>1. QED BY <1>2, <1>3, HostAssumption DEF Earned
  <1>5. QED BY <1>1, <1>2, <1>3, <1>4

LEMMA CachedEarns ==
    ASSUME NEW c \in Config, NEW k \in Cache, Earned(k), roles_from_cache(c, k).gateway # Nobody
    PROVE  CanBeGateway(roles_from_cache(c, k).gateway)
  <1> DEFINE role(h) == IF Override(c, h) # NoRole THEN Override(c, h) ELSE k[h]
             G == {h \in Hosts(c) : role(h) = "gateway"}
             g == First(c, G)
  <1>1. roles_from_cache(c, k).gateway = g
    BY DEF roles_from_cache
  <1>2. g \in G
    <2> HIDE DEF G
    <2>1. QED BY <1>1, FirstOfSet
  <1>3. g \in Hosts(c) /\ g \in Host /\ role(g) = "gateway"
    BY <1>2, ConfigHosts
  <1>4. CASE Override(c, g) = "gateway"
    BY <1>1, <1>3, <1>4, OverrideOfHost DEF CanBeGateway
  <1>5. CASE k[g] = "gateway"
    BY <1>1, <1>3, <1>5 DEF Earned
  <1>6. QED BY <1>3, <1>4, <1>5

LEMMA RolesInit ==
    ASSUME Init PROVE RolesInv
  <1> DEFINE none == [h \in Host |-> NoRole]
  <1>1. none \in Cache /\ Earned(none)
    BY DEF Cache, Roles, Role, NoRole, Earned
  <1>2. NoRoles \in Bucket /\ Disjoint(NoRoles) /\ NoRoles.gateway = Nobody
    BY DEF NoRoles, Bucket, Disjoint
  <1>3. PICK s \in Signals(hosts) : detected = CacheOf(classify(hosts, s, none))
    BY DEF Init
  <1>4. /\ hosts \in Config /\ phase = "down" /\ endpoints = <<>> /\ cached = none
        /\ buckets = NoRoles /\ devices = {}
    BY DEF Init
  <1> HIDE DEF none
  <1>5. detected \in Cache /\ Earned(detected)
    BY <1>1, <1>3, <1>4, ClassifyEarns
  <1>6. TypeOK
    BY <1>1, <1>2, <1>4, <1>5 DEF TypeOK, Cache, Bucket, Disjoint
  <1>7. QED BY <1>1, <1>2, <1>4, <1>5, <1>6 DEF RolesInv, EndpointsLoaded, Classified, Detected, EarnedBuckets

LEMMA RolesStep ==
    ASSUME RolesInv, [Next]_vars PROVE RolesInv'
  <1>1. /\ TypeOK /\ hosts \in Config /\ detected \in Cache /\ cached \in Cache
        /\ Earned(detected) /\ Earned(cached)
    BY DEF RolesInv, TypeOK, Cache
  <1>2. CASE Load
    <2>1. buckets' \in Bucket /\ Disjoint(buckets') /\ EarnedBuckets'
      BY <1>1, <1>2, CachedBuckets, CachedEarns DEF Load, EarnedBuckets
    <2>2. TypeOK'
      BY <1>1, <1>2, <2>1 DEF Load, TypeOK, Bucket, Disjoint
    <2>3. QED BY <1>1, <1>2, <2>1, <2>2
              DEF Load, RolesInv, EndpointsLoaded, Classified, Detected, Earned
  <1>3. CASE Probed
    <2>1. PICK s \in Signals(endpoints) :
              /\ phase = "probing" /\ phase' = "probed" /\ buckets' = classify(endpoints, s, cached)
              /\ detected' = IF CacheOf(classify(endpoints, s, cached)) = cached THEN detected
                             ELSE CacheOf(classify(endpoints, s, cached))
              /\ UNCHANGED <<hosts, endpoints, cached, devices>>
      BY <1>3 DEF Probed
    <2>2. endpoints \in Config
      BY <2>1 DEF RolesInv, EndpointsLoaded
    <2>3. buckets' \in Bucket /\ Disjoint(buckets')
      BY <1>1, <2>1, <2>2, ClassifyBuckets
    <2>4. EarnedBuckets'
      BY <1>1, <2>1, <2>2, ClassifyEarns DEF EarnedBuckets
    <2>5. detected' \in Cache /\ Earned(detected')
      BY <1>1, <2>1, <2>2, ClassifyEarns
    <2>6. TypeOK'
      BY <1>1, <2>1, <2>3, <2>5 DEF TypeOK, Cache, Bucket, Disjoint
    <2>7. EndpointsLoaded' /\ Classified'
      BY <2>1, <2>2 DEF EndpointsLoaded, Classified
    <2>8. QED BY <1>1, <2>1, <2>4, <2>5, <2>6, <2>7 DEF RolesInv
  <1>4. CASE SetUp
    <2>1. TypeOK'
      BY <1>1, <1>4 DEF SetUp, TypeOK
    <2>2. QED BY <1>4, <2>1 DEF SetUp, RolesInv, EndpointsLoaded, Classified, Detected, Earned, EarnedBuckets
  <1>5. CASE HostSensors
    <2>1. TypeOK'
      BY <1>1, <1>5 DEF HostSensors, TypeOK, Placed
    <2>2. QED BY <1>5, <2>1
              DEF HostSensors, RolesInv, EndpointsLoaded, Classified, Detected, Earned, EarnedBuckets
  <1>6. CASE Stop
    <2>1. cached' \in Cache /\ Earned(cached') /\ buckets' \in Bucket /\ Disjoint(buckets')
      BY <1>6 DEF Stop, Cache, Roles, Role, NoRole, Earned, NoRoles, Bucket, Disjoint
    <2>2. TypeOK'
      BY <1>1, <1>6, <2>1 DEF Stop, TypeOK, Cache, Bucket, Disjoint
    <2>3. EarnedBuckets'
      BY <1>6 DEF Stop, NoRoles, EarnedBuckets
    <2>4. QED BY <1>1, <1>6, <2>1, <2>2, <2>3 DEF Stop, RolesInv, EndpointsLoaded, Classified, Detected, Earned
  <1>7. CASE Edit
    <2>1. PICK c \in Config : \E s \in Signals(c) :
              /\ hosts' = c /\ detected' = CacheOf(classify(c, s, detected))
              /\ UNCHANGED <<phase, endpoints, cached, buckets, devices>>
      BY <1>7 DEF Edit
    <2>2. detected' \in Cache /\ Earned(detected')
      BY <1>1, <2>1, ClassifyEarns
    <2>3. TypeOK'
      BY <1>1, <2>1, <2>2 DEF TypeOK, Cache
    <2>4. QED BY <2>1, <2>2, <2>3 DEF RolesInv, EndpointsLoaded, Classified, Detected, Earned, EarnedBuckets
  <1>8. CASE UNCHANGED vars
    BY <1>8 DEF vars, RolesInv, TypeOK, EndpointsLoaded, Classified, Detected, Earned, EarnedBuckets
  <1>9. QED BY <1>2, <1>3, <1>4, <1>5, <1>6, <1>7, <1>8 DEF Next

LEMMA RolesInvariant == Spec => []RolesInv
  BY RolesInit, RolesStep, PTL DEF Spec

\* The entry, the coordinator and the registry keep their types, and no host is
\* ever in two buckets (classify, roles_from_cache).
THEOREM RolesTypeOK == Spec => []TypeOK
  BY RolesInvariant, PTL DEF RolesInv

\* No mix of overrides, cached roles, edits of the list and outages ever makes a gateway
\* of a host that neither has a wan interface nor was declared one (classify).
THEOREM GatewaysAreEarned == Spec => []GatewayWasEarned
  <1>1. RolesInv => GatewayWasEarned
    BY DEF RolesInv, EarnedBuckets, Earned, GatewayWasEarned
  <1>2. QED BY <1>1, RolesInvariant, PTL

-----------------------------------------------------------------------------
(* Outages *)

\* The cache of a detection gives its gateway back when nothing answers.
LEMMA SilentGateway ==
    ASSUME NEW c \in Config, NEW s \in Signals(c), NEW k \in Cache,
           NEW b, b = classify(c, s, k), NEW z, \A h \in Hosts(c) : ~Answers(z, h)
    PROVE  SelectedGateway(c, z, CacheOf(b)) = b.gateway
  <1> DEFINE forced == Overridden(c, {"gateway"})
             free   == Overridden(c, {NoRole})
             wan    == {h \in free : Answers(z, h) /\ z[h].wan}
             silent == {h \in free : ~Answers(z, h) /\ CacheOf(b)[h] = "gateway"}
             g      == b.gateway
  <1>1. forced \subseteq Hosts(c) /\ free \subseteq Hosts(c) /\ Hosts(c) \subseteq Host
    BY OverriddenHosts, ConfigHosts
  <1>2. g = SelectedGateway(c, s, k) /\ b \in Bucket /\ Disjoint(b)
    BY ClassifyBuckets DEF classify
  <1>3. CASE forced # {}
    BY <1>2, <1>3 DEF SelectedGateway
  <1>4. CASE forced = {}
    <2>1. wan = {}
      BY <1>1
    <2>2. SelectedGateway(c, z, CacheOf(b)) = First(c, silent)
      BY <1>4, <2>1 DEF SelectedGateway
    <2>3. \A h \in Host : CacheOf(b)[h] = "gateway" => h = g
      BY <1>2, CacheOfBuckets
    <2>4. silent \subseteq {g} /\ silent \subseteq Hosts(c)
      BY <1>1, <2>3
    <2>5. CASE g = Nobody
      <3>1. silent = {}
        BY <1>1, <2>4, <2>5, HostAssumption
      <3> HIDE DEF silent
      <3>2. QED BY <2>2, <2>5, <3>1, FirstOfSet
    <2>6. CASE g # Nobody
      <3>1. g \in Hosts(c) /\ g \in Host /\ Override(c, g) \in {"gateway", NoRole}
        BY <1>1, <1>2, <2>6, GatewayGrounds
      <3>2. g \in free
        BY <1>4, <3>1, OverrideOfHost
      <3>3. CacheOf(b)[g] = "gateway"
        BY <1>2, <3>1 DEF CacheOf, Disjoint
      <3>4. silent = {g}
        BY <1>1, <2>4, <3>2, <3>3
      <3> HIDE DEF silent
      <3>5. QED BY <2>2, <3>1, <3>4, FirstOfSet
    <2>7. QED BY <2>5, <2>6
  <1>5. QED BY <1>3, <1>4

\* ... and every other host its role.
LEMMA SilentRoles ==
    ASSUME NEW c \in Config, NEW s \in Signals(c), NEW k \in Cache,
           NEW b, b = classify(c, s, k), NEW z, \A h \in Hosts(c) : ~Answers(z, h),
           NEW h \in b.aps \cup b.switches
    PROVE  h \in Hosts(c) /\ RoleOf(c, z, CacheOf(b), h) = RoleOf(c, s, k, h)
  <1>1. h \in Hosts(c) /\ h \in Host /\ RoleOf(c, s, k, h) \in {"ap", "switch"}
    BY ConfigHosts DEF classify
  <1>2. h # b.gateway
    BY ClassifyBuckets DEF Disjoint
  <1>3. SelectedGateway(c, z, CacheOf(b)) = b.gateway
    BY SilentGateway
  <1>4. CacheOf(b)[h] = RoleOf(c, s, k, h)
    <2>1. CASE h \in b.switches
      BY <1>1, <2>1 DEF CacheOf, classify
    <2>2. CASE h \notin b.switches
      <3>1. h \in b.aps
        BY <2>2
      <3>2. RoleOf(c, s, k, h) = "ap"
        BY <3>1 DEF classify
      <3>3. QED BY <1>1, <2>2, <3>1, <3>2 DEF CacheOf
    <2>3. QED BY <2>1, <2>2
  <1>5. CASE Override(c, h) \in {"ap", "switch"}
    BY <1>1, <1>5 DEF RoleOf
  <1>6. CASE Override(c, h) \notin {"ap", "switch"}
    BY <1>1, <1>2, <1>3, <1>4, <1>6 DEF RoleOf, NoRole
  <1>7. QED BY <1>1, <1>5, <1>6

\* A set-up during a total outage leaves every host in the role the last detection
\* found for it (classify with the cache that was written back).
THEOREM OutagesKeepRoles == Spec => []OutageKeepsRoles
  <1>1. ASSUME RolesInv, Detected PROVE OutageKeepsRoles
    <2> DEFINE c == endpoints
               z == [h \in Hosts(c) |-> Unreachable]
               b == buckets
               again == classify(c, z, CacheOf(b))
    <2>1. c \in Config /\ cached \in Cache
      BY <1>1 DEF RolesInv, EndpointsLoaded, Detected, TypeOK, Cache
    <2>2. PICK s \in Signals(c) : b = classify(c, s, cached)
      BY <1>1 DEF RolesInv, Classified
    <2>3. \A h \in Hosts(c) : ~Answers(z, h)
      BY DEF Answers
    <2> HIDE DEF z, c, b
    <2>4. SelectedGateway(c, z, CacheOf(b)) = b.gateway
      BY <2>1, <2>2, <2>3, SilentGateway
    <2>5. again.gateway = b.gateway
      BY <2>4 DEF classify
    <2>6. \A h \in b.aps : h \in Hosts(c) /\ RoleOf(c, z, CacheOf(b), h) = "ap"
      <3>1. \A h \in b.aps : RoleOf(c, s, cached, h) = "ap"
        BY <2>2 DEF classify
      <3>2. QED BY <2>1, <2>2, <2>3, <3>1, SilentRoles
    <2>7. \A h \in b.switches : h \in Hosts(c) /\ RoleOf(c, z, CacheOf(b), h) = "switch"
      <3>1. \A h \in b.switches : RoleOf(c, s, cached, h) = "switch"
        BY <2>2 DEF classify
      <3>2. QED BY <2>1, <2>2, <2>3, <3>1, SilentRoles
    <2>8. b.aps \subseteq again.aps /\ b.switches \subseteq again.switches
      BY <2>6, <2>7 DEF classify
    <2>9. QED BY <2>5, <2>8 DEF OutageKeepsRoles, z, c, b
  <1>2. RolesInv => OutageKeepsRoles
    BY <1>1 DEF OutageKeepsRoles
  <1>3. QED BY <1>2, RolesInvariant, PTL

\* A configured host is in no bucket only as the silent former gateway of a network
\* that has another gateway now (classify).
THEOREM OthersAreNotLeftOut == Spec => []OnlyFormerGatewayLeftOut
  <1>1. ASSUME RolesInv, Detected, NEW h \in Hosts(endpoints) \ Placed(buckets)
        PROVE  /\ cached[h] = "gateway"
               /\ buckets.gateway # Nobody
               /\ Override(endpoints, h) \in {NoRole, "gateway"}
    <2> DEFINE c == endpoints
    <2>1. c \in Config /\ cached \in Cache
      BY <1>1 DEF RolesInv, EndpointsLoaded, Detected, TypeOK, Cache
    <2>2. PICK s \in Signals(c) : buckets = classify(c, s, cached)
      BY <1>1 DEF RolesInv, Classified
    <2>3. h \in Host /\ h # Nobody /\ cached[h] \in Roles /\ Override(c, h) \in Roles
      BY <1>1, <2>1, ConfigHosts, OverrideOfHost, HostAssumption DEF Cache
    <2>4. /\ RoleOf(c, s, cached, h) \notin {"ap", "switch"}
          /\ h # SelectedGateway(c, s, cached)
      BY <1>1, <2>2, <2>3 DEF Placed, classify
    <2>5. Override(c, h) \notin {"ap", "switch"}
      BY <2>4 DEF RoleOf
    <2>6. ~Answers(s, h) /\ cached[h] = "gateway"
      BY <2>3, <2>4, <2>5 DEF RoleOf, Roles, Role
    <2>7. SelectedGateway(c, s, cached) # Nobody
      BY <1>1, <2>1, <2>3, <2>5, <2>6, NoGateway DEF Roles, Role
    <2>8. QED BY <2>2, <2>3, <2>5, <2>6, <2>7 DEF classify, Roles, Role
  <1>2. RolesInv => OnlyFormerGatewayLeftOut
    BY <1>1 DEF OnlyFormerGatewayLeftOut
  <1>3. QED BY <1>2, RolesInvariant, PTL
=============================================================================
