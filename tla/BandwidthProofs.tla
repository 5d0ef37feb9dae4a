-------------------------- MODULE BandwidthProofs ---------------------------
(***************************************************************************)
(* What Bandwidth guarantees for every number of access points and ports,  *)
(* every amount of traffic and every spacing of the samples.               *)
(***************************************************************************)
EXTENDS Bandwidth, TLAPS

-----------------------------------------------------------------------------
(* Samples and credits *)

\* What a scan reads: a station entry, the port the device is plugged into, and
\* the flows, each as it is now or not at all.
LEMMA SampleRead ==
    ASSUME TypeOK, NEW w \in Listed \cup {Nowhere}, NEW c \in Samples(w)
    PROVE  /\ c \in Sample /\ c.elapsed \in Elapsed
           /\ c.wifi # NoCount => w \in Listed /\ c.wifi = station[w]
           /\ c.wifi = NoCount <=> w = Nowhere
           /\ c.src # NoCount => at \in Port /\ c.src = at
           /\ c.port # NoCount => at \in Port /\ c.src = at /\ c.port = port[at]
           /\ c.wired # NoCount => c.wired = flows
  <1>1. PICK p \in ({at} \cap Port) \cup {NoCount}, f \in {flows, NoCount}, dt \in Elapsed :
               c = [wifi |-> IF w = Nowhere THEN NoCount ELSE station[w],
                    src |-> p, port |-> IF p = NoCount THEN NoCount ELSE port[p],
                    wired |-> IF w = Nowhere THEN f ELSE NoCount, elapsed |-> dt]
    BY DEF Samples
  <1>2. p \in Port \cup {NoCount} /\ f \in Nat \cup {NoCount} /\ dt \in Nat
    BY BandwidthAssumption DEF TypeOK
  <1>3. p # NoCount => port[p] \in Nat
    BY <1>2 DEF TypeOK
  <1>4. w # Nowhere => w \in Listed /\ station[w] \in Nat /\ station[w] # NoCount
    BY BandwidthAssumption DEF TypeOK, Listed
  <1>5. c \in Sample
    BY <1>1, <1>2, <1>3, <1>4 DEF Sample
  <1>6. QED BY <1>1, <1>4, <1>5

LEMMA CreditBound ==
    ASSUME NEW d \in Int, NEW dt \in Nat \ {0}
    PROVE  /\ Credit(d, dt) \in Nat
           /\ \A r \in Nat : d <= r => Credit(d, dt) <= r
           /\ d > 0 /\ d \div dt <= MaxRate => Credit(d, dt) = d
  BY DEF Credit

\* A credit is the rise of one counter that both samples have.
LEMMA DeltaIsCredit ==
    ASSUME NEW p \in Sample, NEW c \in Sample, c.elapsed # 0
    PROVE  \/ Delta(p, c) = 0
           \/ \E k \in {"wifi", "port", "wired"} :
                 /\ k = Source(p, c) /\ Usable(k, p, c)
                 /\ c[k] \in Nat /\ p[k] \in Nat
                 /\ Delta(p, c) = Credit(c[k] - p[k], c.elapsed)
  <1> DEFINE k == Source(p, c)
  <1>1. k \in {"wifi", "port", "wired"}
    BY DEF Source
  <1>2. Usable(k, p, c) => c[k] \in Nat /\ p[k] \in Nat
    BY <1>1 DEF Usable, Sample
  <1>3. ~Usable(k, p, c) => Delta(p, c) = 0
    BY DEF Delta
  <1>4. Usable(k, p, c) => Delta(p, c) = 0 \/ Delta(p, c) = Credit(c[k] - p[k], c.elapsed)
    BY DEF Delta
  <1> HIDE DEF k
  <1>5. QED BY <1>1, <1>2, <1>3, <1>4 DEF k

-----------------------------------------------------------------------------
(* Types *)

\* The variables of a running coordinator and network keep their types; a device on
\* Wi-Fi has a station entry, and no total ever shrinks below zero.
THEOREM BandwidthTypeOK == Spec => []TypeOK
  <1>1. Init => TypeOK
    <2>1. NoSample \in Sample
      BY DEF Sample, NoSample
    <2>2. Init => station \in [Ap -> Nat \cup {NoCount}] /\ port \in [Port -> Nat] /\ flows \in Nat
      BY BandwidthAssumption DEF Init
    <2>3. Init => (at \in Ap => station[at] # NoCount)
      BY Zenon DEF Init
    <2>4. Init => /\ at \in Ap \cup Port \cup {Nowhere}
                  /\ real = 0 /\ recent = 0 /\ credited = 0 /\ bw = NoSample
                  /\ steady = FALSE /\ from = Nowhere /\ listed = {}
      BY Zenon DEF Init
    <2>5. NoSample.wifi = NoCount
      BY DEF NoSample
    <2>6. ASSUME Init PROVE TypeOK
      <3>1. bw \in Sample /\ (bw.wifi = NoCount <=> from = Nowhere)
        BY <2>1, <2>4, <2>5, <2>6
      <3>2. steady \in BOOLEAN /\ from \in listed \cup {Nowhere} /\ listed \subseteq Ap
        BY Zenon, <2>4, <2>6
      <3>3. real \in Nat /\ recent \in Nat /\ credited \in Nat
        BY <2>4, <2>6
      <3>4. QED BY Zenon, <2>2, <2>3, <2>4, <2>6, <3>1, <3>2, <3>3 DEF TypeOK
    <2>7. QED BY <2>6
  <1>2. TypeOK /\ [Next]_vars => TypeOK'
    <2> SUFFICES ASSUME TypeOK, [Next]_vars PROVE TypeOK'
      OBVIOUS
    <2>1. CASE Receive
      <3>1. PICK b \in Burst, routed \in BOOLEAN :
                /\ at # Nowhere
                /\ real' = real + b /\ recent' = recent + b
                /\ station' = IF at \in Ap THEN [station EXCEPT ![at] = @ + b] ELSE station
                /\ port' = IF at \in Port THEN [port EXCEPT ![at] = @ + b] ELSE port
                /\ flows' = IF routed THEN flows + b ELSE flows
                /\ bw' = bw /\ credited' = 0 /\ UNCHANGED <<at, history>>
        BY <2>1 DEF Receive, Uncredited
      <3>2. b \in Nat
        BY BandwidthAssumption
      <3>3. station' \in [Ap -> Nat \cup {NoCount}] /\ (at \in Ap => station'[at] # NoCount)
        BY <3>1, <3>2, BandwidthAssumption DEF TypeOK
      <3>4. port' \in [Port -> Nat]
        BY <3>1, <3>2 DEF TypeOK
      <3>5. QED BY <3>1, <3>2, <3>3, <3>4 DEF TypeOK, history
    <2>2. CASE Move
      <3>1. PICK to \in (Ap \cup Port \cup {Nowhere}) \ {at}, kept \in SUBSET Ap :
                /\ at' = to
                /\ station' = [a \in Ap |-> IF a = to THEN 0
                                            ELSE IF a \in kept THEN station[a] ELSE NoCount]
        BY <2>2 DEF Move
      <3>2. station' \in [Ap -> Nat \cup {NoCount}] /\ (at' \in Ap => station'[at'] # NoCount)
        BY <3>1, BandwidthAssumption DEF TypeOK
      <3>3. /\ steady' = FALSE /\ bw' = bw /\ credited' = 0
            /\ UNCHANGED <<port, flows, real, recent, from, listed>>
        BY <2>2 DEF Move, Uncredited
      <3>4. at' \in Ap \cup Port \cup {Nowhere} /\ credited' \in Nat
        BY <3>1, <3>3
      <3>5. QED BY Zenon, <3>2, <3>3, <3>4 DEF TypeOK
    <2>3. CASE Expire
      BY <2>3 DEF Expire, Uncredited, history, TypeOK
    <2>4. CASE Reset
      <3>1. 0 # NoCount
        BY BandwidthAssumption
      <3>2. ASSUME NEW p \in Port, UNCHANGED <<at, station, flows, real, recent, bw, from, listed>>,
                   port' = [port EXCEPT ![p] = 0], steady' = FALSE, credited' = 0
            PROVE  TypeOK'
        BY <3>2 DEF TypeOK
      <3>3. ASSUME NEW a \in Ap, UNCHANGED <<at, port, flows, real, recent, bw, from, listed>>,
                   station' = [station EXCEPT ![a] = IF at = a THEN 0 ELSE NoCount], steady' = FALSE,
                   credited' = 0
            PROVE  TypeOK'
        <4>1. station' \in [Ap -> Nat \cup {NoCount}]
          BY <3>3 DEF TypeOK
        <4>2. at \in Ap => station'[at] # NoCount
          BY <3>1, <3>3 DEF TypeOK
        <4>3. QED BY <3>3, <4>1, <4>2 DEF TypeOK
      <3>4. QED BY <2>4, <3>2, <3>3 DEF Reset, Uncredited
    <2>5. CASE Scan
      <3>1. PICK w \in Listed \cup {Nowhere} : \E c \in Samples(w) :
                /\ credited' = Delta(bw, c) /\ bw' = c
                /\ recent' = 0 /\ steady' = (at # Nowhere) /\ from' = w /\ listed' = Listed
                /\ UNCHANGED <<at, station, port, flows, real>>
        BY <2>5 DEF Scan
      <3>2. PICK c \in Samples(w) :
                /\ credited' = Delta(bw, c) /\ bw' = c
                /\ recent' = 0 /\ steady' = (at # Nowhere) /\ from' = w /\ listed' = Listed
                /\ UNCHANGED <<at, station, port, flows, real>>
        BY <3>1
      <3>3. c \in Sample /\ c.elapsed \in Nat \ {0} /\ (c.wifi = NoCount <=> w = Nowhere)
        BY SampleRead, BandwidthAssumption
      <3>4. Delta(bw, c) \in Nat
        <4>1. bw \in Sample
          BY DEF TypeOK
        <4>2. ASSUME NEW i \in Nat, NEW j \in Nat PROVE Credit(i - j, c.elapsed) \in Nat
          BY <3>3, CreditBound
        <4>3. CASE \E k \in {"wifi", "port", "wired"} :
                     /\ c[k] \in Nat /\ bw[k] \in Nat
                     /\ Delta(bw, c) = Credit(c[k] - bw[k], c.elapsed)
          BY <4>2, <4>3
        <4>4. QED BY <3>3, <4>1, <4>3, DeltaIsCredit
      <3>5. QED BY <3>2, <3>3, <3>4 DEF TypeOK, Listed
    <2>6. CASE UNCHANGED vars
      BY <2>6 DEF vars, history, TypeOK
    <2>7. QED BY <2>1, <2>2, <2>3, <2>4, <2>5, <2>6 DEF Next
  <1>3. QED BY <1>1, <1>2, PTL DEF Spec

-----------------------------------------------------------------------------
(* Traffic.  No counter runs ahead of the device.                            *)

\* The AP that the last sample took its count from, and every AP that did not list
\* the device then, has counted no more since than the device received.
StationsBehind ==
    from \in Ap => \A a \in Ap : station[a] # NoCount =>
        /\ a = from => station[a] - bw.wifi <= recent
        /\ a \notin listed => station[a] <= recent
PortBehind  == bw.port # NoCount => bw.src \in Port /\ port[bw.src] - bw.port <= recent
FlowsBehind == bw.wired # NoCount => flows - bw.wired <= recent
CountersBehind == StationsBehind /\ PortBehind /\ FlowsBehind

\* While there is nothing but traffic, the counter of the place the device is at has
\* risen by exactly that.
SteadyCount ==
    steady =>
        /\ at \in Ap \cup Port
        /\ at \in Ap /\ from = at => station[at] - bw.wifi = recent
        /\ at \in Port /\ bw.port # NoCount => bw.src = at /\ port[at] - bw.port = recent

TrafficInv == TypeOK /\ CountersBehind /\ SteadyCount

\* The numbers among the variables.
LEMMA Numbers ==
    ASSUME TypeOK
    PROVE  /\ recent \in Nat /\ flows \in Nat /\ NoCount \notin Int /\ Ap \cap Port = {}
           /\ \A a \in Ap : station[a] # NoCount => station[a] \in Nat
           /\ \A p \in Port : port[p] \in Nat
           /\ bw.wifi # NoCount => bw.wifi \in Nat
           /\ bw.port # NoCount => bw.port \in Nat
           /\ bw.wired # NoCount => bw.wired \in Nat
           /\ from \in Ap => bw.wifi # NoCount
           /\ at \in Ap => station[at] # NoCount
  BY BandwidthAssumption DEF TypeOK, Sample

\* The condition under which counts of two APs are subtracted that both ran before.
AcrossAps(w) == from \in Ap /\ w \in listed \ {from}

\* A usable source of a new sample has not risen by more than was received.
LEMMA RiseIsReceived ==
    ASSUME TrafficInv, NEW w \in Listed \cup {Nowhere}, ~AcrossAps(w), NEW c \in Samples(w),
           NEW k \in {"wifi", "port", "wired"}, Usable(k, bw, c)
    PROVE  c[k] - bw[k] <= recent
  <1>1. /\ c.wifi # NoCount => w \in Listed /\ c.wifi = station[w]
        /\ c.port # NoCount => at \in Port /\ c.src = at /\ c.port = port[at]
        /\ c.wired # NoCount => c.wired = flows
    BY SampleRead DEF TrafficInv
  <1>2. CASE k = "wifi"
    <2>1. c.wifi # NoCount /\ bw.wifi # NoCount
      BY <1>2 DEF Usable
    <2>2. w \in Ap /\ station[w] # NoCount /\ c.wifi = station[w]
      BY <1>1, <2>1 DEF Listed
    <2>3. from \in Ap
      BY Zenon, <2>1 DEF TrafficInv, TypeOK
    <2>4. w = from \/ w \notin listed
      BY <2>3 DEF AcrossAps
    <2>5. station[w] \in Nat /\ bw.wifi \in Nat /\ recent \in Nat
      BY <2>1, <2>2, Numbers DEF TrafficInv
    <2>6. station[w] - bw.wifi <= recent
      <3>1. CASE w = from
        BY <2>2, <2>3, <3>1 DEF TrafficInv, CountersBehind, StationsBehind
      <3>2. CASE w \notin listed
        <4>1. station[w] <= recent
          BY Zenon, <2>2, <2>3, <3>2 DEF TrafficInv, CountersBehind, StationsBehind
        <4>2. QED BY <2>5, <4>1
      <3>3. QED BY <2>4, <3>1, <3>2
    <2>7. QED BY <1>2, <2>2, <2>6
  <1>3. CASE k = "port"
    BY <1>1, <1>3 DEF TrafficInv, CountersBehind, PortBehind, Usable
  <1>4. CASE k = "wired"
    BY <1>1, <1>4 DEF TrafficInv, CountersBehind, FlowsBehind, Usable
  <1>5. QED BY <1>2, <1>3, <1>4

LEMMA DeltaIsReceived ==
    ASSUME TrafficInv, NEW w \in Listed \cup {Nowhere}, ~AcrossAps(w), NEW c \in Samples(w)
    PROVE  Delta(bw, c) <= recent
  <1>1. c \in Sample /\ bw \in Sample /\ c.elapsed \in Nat \ {0} /\ recent \in Nat
    BY SampleRead, BandwidthAssumption DEF TrafficInv, TypeOK
  <1>2. CASE Delta(bw, c) = 0
    BY <1>1, <1>2
  <1>3. CASE Delta(bw, c) # 0
    <2>1. PICK k \in {"wifi", "port", "wired"} :
              /\ Usable(k, bw, c) /\ c[k] \in Nat /\ bw[k] \in Nat
              /\ Delta(bw, c) = Credit(c[k] - bw[k], c.elapsed)
      BY <1>1, <1>3, DeltaIsCredit
    <2>2. c[k] - bw[k] <= recent
      BY <2>1, RiseIsReceived
    <2> DEFINE d == c[k] - bw[k]
               dt == c.elapsed
    <2>3. d \in Int /\ dt \in Nat \ {0} /\ d <= recent /\ Delta(bw, c) = Credit(d, dt)
      BY <1>1, <2>1, <2>2
    <2> HIDE DEF d, dt
    <2>4. QED BY <1>1, <2>3, CreditBound
  <1>4. QED BY <1>2, <1>3

\* The first sample has nothing to be compared with.
LEMMA TrafficInit ==
    ASSUME Init, TypeOK PROVE TrafficInv
  <1>1. bw = NoSample /\ steady = FALSE /\ from = Nowhere
    BY Zenon DEF Init
  <1>2. CountersBehind
    BY <1>1, BandwidthAssumption
    DEF CountersBehind, StationsBehind, PortBehind, FlowsBehind, NoSample
  <1>3. SteadyCount
    BY <1>1 DEF SteadyCount
  <1>4. QED BY <1>2, <1>3 DEF TrafficInv

\* Traffic raises each counter of the device's place by what the device receives.
LEMMA ReceiveTraffic ==
    ASSUME TrafficInv, TypeOK', Receive PROVE TrafficInv'
  <1>1. PICK b \in Burst, routed \in BOOLEAN :
            /\ recent' = recent + b
            /\ station' = IF at \in Ap THEN [station EXCEPT ![at] = @ + b] ELSE station
            /\ port' = IF at \in Port THEN [port EXCEPT ![at] = @ + b] ELSE port
            /\ flows' = IF routed THEN flows + b ELSE flows
            /\ UNCHANGED <<at, bw, steady, from, listed>>
    BY DEF Receive, Uncredited, history
  <1>2. b \in Nat /\ station \in [Ap -> Nat \cup {NoCount}] /\ port \in [Port -> Nat]
    BY BandwidthAssumption DEF TrafficInv, TypeOK
  <1>3. TypeOK
    BY DEF TrafficInv
  <1>4. \A a \in Ap : /\ station'[a] = NoCount <=> station[a] = NoCount
                      /\ station[a] # NoCount =>
                            station'[a] = IF a = at THEN station[a] + b ELSE station[a]
    BY <1>1, <1>2, <1>3, Numbers
  <1>5. \A p \in Port : port'[p] = IF p = at THEN port[p] + b ELSE port[p]
    BY <1>1, <1>2, <1>3, Numbers
  <1>6. StationsBehind'
    <2>1. SUFFICES ASSUME from \in Ap, NEW a \in Ap, station'[a] # NoCount
                   PROVE  /\ a = from => station'[a] - bw.wifi <= recent'
                          /\ a \notin listed => station'[a] <= recent'
      BY <1>1 DEF StationsBehind
    <2>2. /\ a = from => station[a] - bw.wifi <= recent
          /\ a \notin listed => station[a] <= recent
      BY <1>4, <2>1 DEF TrafficInv, CountersBehind, StationsBehind
    <2>3. station[a] \in Nat /\ bw.wifi \in Nat /\ recent \in Nat
      BY <1>3, <1>4, <2>1, Numbers
    <2>4. station'[a] \in Nat /\ station'[a] <= station[a] + b
      BY <1>2, <1>4, <2>1, <2>3
    <2>5. QED BY <1>1, <1>2, <2>2, <2>3, <2>4
  <1>7. PortBehind'
    BY <1>1, <1>2, <1>3, <1>5, Numbers DEF TrafficInv, CountersBehind, PortBehind
  <1>8. FlowsBehind'
    BY <1>1, <1>2, <1>3, Numbers DEF TrafficInv, CountersBehind, FlowsBehind
  <1>9. SteadyCount'
    <2>1. SUFFICES ASSUME steady PROVE
            /\ at \in Ap \cup Port
            /\ at \in Ap /\ from = at => station'[at] - bw.wifi = recent'
            /\ at \in Port /\ bw.port # NoCount => bw.src = at /\ port'[at] - bw.port = recent'
      BY <1>1 DEF SteadyCount
    <2>2. at \in Ap \cup Port
      BY <2>1 DEF TrafficInv, SteadyCount
    <2>3. at \in Ap /\ from = at => station'[at] - bw.wifi = recent'
      BY <1>1, <1>2, <1>3, <1>4, <2>1, Numbers DEF TrafficInv, SteadyCount
    <2>4. at \in Port /\ bw.port # NoCount => bw.src = at /\ port'[at] - bw.port = recent'
      BY <1>1, <1>2, <1>3, <1>5, <2>1, Numbers DEF TrafficInv, SteadyCount
    <2>5. QED BY <2>2, <2>3, <2>4
  <1>10. QED BY <1>6, <1>7, <1>8, <1>9 DEF TrafficInv, CountersBehind

\* A step that only lowers counters or drops entries keeps them behind.
LEMMA CountersFall ==
    ASSUME TrafficInv, TypeOK', SteadyCount',
           UNCHANGED <<recent, bw, from, listed>>,
           \A a \in Ap : station'[a] # NoCount =>
               station'[a] = 0 \/ (station[a] # NoCount /\ station'[a] <= station[a]),
           \A p \in Port : port'[p] <= port[p],
           flows' <= flows
    PROVE  TrafficInv'
  <1>1. TypeOK /\ NoCount \notin Int
    BY BandwidthAssumption DEF TrafficInv
  <1>2. /\ flows' \in Nat
        /\ \A a \in Ap : station'[a] # NoCount => station'[a] \in Nat
        /\ \A p \in Port : port'[p] \in Nat
    BY DEF TypeOK
  <1>3. StationsBehind'
    <2>1. SUFFICES ASSUME from \in Ap, NEW a \in Ap, station'[a] # NoCount
                   PROVE  /\ a = from => station'[a] - bw.wifi <= recent
                          /\ a \notin listed => station'[a] <= recent
      BY DEF StationsBehind
    <2>2. bw.wifi \in Nat /\ station'[a] \in Nat /\ recent \in Nat
      BY <1>1, <1>2, <2>1, Numbers
    <2>3. CASE station'[a] = 0
      BY <2>2, <2>3
    <2>4. CASE station[a] # NoCount /\ station'[a] <= station[a]
      <3>1. /\ a = from => station[a] - bw.wifi <= recent
            /\ a \notin listed => station[a] <= recent
        BY <2>1, <2>4 DEF TrafficInv, CountersBehind, StationsBehind
      <3>2. station[a] \in Nat
        BY <1>1, <2>4, Numbers
      <3>3. QED BY <2>2, <2>4, <3>1, <3>2
    <2>5. QED BY <2>1, <2>3, <2>4
  <1>4. PortBehind'
    <2>1. SUFFICES ASSUME bw.port # NoCount PROVE bw.src \in Port /\ port'[bw.src] - bw.port <= recent
      BY DEF PortBehind
    <2>2. bw.src \in Port /\ port[bw.src] - bw.port <= recent
      BY <2>1 DEF TrafficInv, CountersBehind, PortBehind
    <2>3. port[bw.src] \in Nat /\ port'[bw.src] \in Nat /\ bw.port \in Nat /\ recent \in Nat
      BY <1>1, <1>2, <2>1, <2>2, Numbers
    <2>4. QED BY <2>2, <2>3
  <1>5. FlowsBehind'
    BY <1>1, <1>2, Numbers DEF TrafficInv, CountersBehind, FlowsBehind
  <1>6. QED BY <1>3, <1>4, <1>5 DEF TrafficInv, CountersBehind

\* A new association starts from zero; the entries left behind stay as they are or go.
LEMMA MoveTraffic ==
    ASSUME TrafficInv, TypeOK', Move PROVE TrafficInv'
  <1>1. PICK to \in (Ap \cup Port \cup {Nowhere}) \ {at}, kept \in SUBSET Ap :
            /\ station' = [a \in Ap |-> IF a = to THEN 0
                                        ELSE IF a \in kept THEN station[a] ELSE NoCount]
            /\ steady' = FALSE
            /\ bw' = bw
            /\ UNCHANGED <<port, flows, recent, from, listed>>
    BY DEF Move, Uncredited
  <1>2. SteadyCount'
    BY <1>1 DEF SteadyCount
  <1>3. flows \in Nat /\ \A p \in Port : port[p] \in Nat
    BY Numbers DEF TrafficInv
  <1>4. \A a \in Ap : station[a] # NoCount => station[a] <= station[a]
    BY Numbers DEF TrafficInv
  <1>5. \A a \in Ap : station'[a] # NoCount =>
               station'[a] = 0 \/ (station[a] # NoCount /\ station'[a] <= station[a])
    BY <1>1, <1>4
  <1>6. (\A p \in Port : port'[p] <= port[p]) /\ flows' <= flows
    BY <1>1, <1>3
  <1>7. QED BY <1>1, <1>2, <1>5, <1>6, CountersFall

LEMMA ExpireTraffic ==
    ASSUME TrafficInv, TypeOK', Expire PROVE TrafficInv'
  <1>1. /\ flows \in Nat /\ station \in [Ap -> Nat \cup {NoCount}] /\ NoCount \notin Int
        /\ \A p \in Port : port[p] \in Nat
    BY Numbers DEF TrafficInv, TypeOK
  <1>2. ASSUME NEW a \in Ap \ {at}, station' = [station EXCEPT ![a] = NoCount], bw' = bw,
               UNCHANGED <<at, port, flows, recent, history>>
        PROVE  TrafficInv'
    <2>1. UNCHANGED <<steady, from, listed>>
      BY <1>2 DEF history
    <2>2. \A e \in Ap : station'[e] # NoCount => station'[e] = station[e] /\ station[e] # NoCount
      BY <1>1, <1>2
    <2>3. at \in Ap => station'[at] = station[at]
      BY <1>1, <1>2
    <2>4. SteadyCount'
      BY <1>2, <2>1, <2>3 DEF TrafficInv, SteadyCount
    <2>5. \A e \in Ap : station'[e] # NoCount =>
               station'[e] = 0 \/ (station[e] # NoCount /\ station'[e] <= station[e])
      BY <1>1, <2>2
    <2>6. (\A p \in Port : port'[p] <= port[p]) /\ flows' <= flows
      BY <1>1, <1>2
    <2>7. QED BY <1>2, <2>1, <2>4, <2>5, <2>6, CountersFall
  <1>3. ASSUME flows' \in 0 .. flows - 1, bw' = bw,
               UNCHANGED <<at, station, port, recent, history>>
        PROVE  TrafficInv'
    <2>1. UNCHANGED <<steady, from, listed>>
      BY <1>3 DEF history
    <2>2. SteadyCount'
      BY <1>3, <2>1 DEF TrafficInv, SteadyCount
    <2>3. \A e \in Ap : station'[e] # NoCount =>
               station'[e] = 0 \/ (station[e] # NoCount /\ station'[e] <= station[e])
      BY <1>1, <1>3
    <2>4. (\A p \in Port : port'[p] <= port[p]) /\ flows' <= flows
      BY <1>1, <1>3
    <2>5. QED BY <1>3, <2>1, <2>2, <2>3, <2>4, CountersFall
  <1>4. QED BY <1>2, <1>3 DEF Expire, Uncredited

LEMMA ResetTraffic ==
    ASSUME TrafficInv, TypeOK', Reset PROVE TrafficInv'
  <1>1. /\ flows \in Nat /\ station \in [Ap -> Nat \cup {NoCount}] /\ port \in [Port -> Nat]
        /\ NoCount \notin Int
    BY Numbers DEF TrafficInv, TypeOK
  <1>2. ASSUME NEW a \in Ap, station[a] # NoCount,
               station' = [station EXCEPT ![a] = IF at = a THEN 0 ELSE NoCount],
               steady' = FALSE, bw' = bw, UNCHANGED <<port, flows, recent, from, listed>>
        PROVE  TrafficInv'
    <2>1. \A e \in Ap : station'[e] # NoCount =>
              station[e] # NoCount /\ (station'[e] = 0 \/ station'[e] = station[e])
      BY <1>1, <1>2
    <2>2. SteadyCount'
      BY <1>2 DEF SteadyCount
    <2>3. \A e \in Ap : station'[e] # NoCount =>
               station'[e] = 0 \/ (station[e] # NoCount /\ station'[e] <= station[e])
      BY <1>1, <2>1
    <2>4. (\A p \in Port : port'[p] <= port[p]) /\ flows' <= flows
      BY <1>1, <1>2
    <2>5. QED BY <1>2, <2>2, <2>3, <2>4, CountersFall
  <1>3. ASSUME NEW p \in Port, port' = [port EXCEPT ![p] = 0], steady' = FALSE, bw' = bw,
               UNCHANGED <<station, flows, recent, from, listed>>
        PROVE  TrafficInv'
    <2>1. SteadyCount'
      BY <1>3 DEF SteadyCount
    <2>2. \A e \in Ap : station'[e] # NoCount =>
               station'[e] = 0 \/ (station[e] # NoCount /\ station'[e] <= station[e])
      BY <1>1, <1>3
    <2>3. (\A q \in Port : port'[q] <= port[q]) /\ flows' <= flows
      BY <1>1, <1>3
    <2>4. QED BY <1>3, <2>1, <2>2, <2>3, CountersFall
  <1>4. QED BY <1>2, <1>3 DEF Reset, Uncredited

\* The sample of a scan is what the counters stand at.
LEMMA ScanTraffic ==
    ASSUME TrafficInv, TypeOK', Scan PROVE TrafficInv'
  <1>1. PICK w \in Listed \cup {Nowhere} : \E c \in Samples(w) :
            /\ bw' = c /\ recent' = 0 /\ steady' = (at # Nowhere) /\ from' = w /\ listed' = Listed
            /\ UNCHANGED <<at, station, port, flows>>
    BY DEF Scan
  <1>2. PICK c \in Samples(w) :
            /\ bw' = c /\ recent' = 0 /\ steady' = (at # Nowhere) /\ from' = w /\ listed' = Listed
            /\ UNCHANGED <<at, station, port, flows>>
    BY <1>1
  <1>3. /\ at \in Ap \cup Port \cup {Nowhere} /\ flows \in Nat /\ Ap \cap Port = {} /\ Nowhere \notin Ap
        /\ \A a \in Ap : station[a] # NoCount => station[a] \in Nat
        /\ \A p \in Port : port[p] \in Nat
    BY Numbers, BandwidthAssumption DEF TrafficInv, TypeOK
  <1>4. /\ c.wifi = NoCount <=> w = Nowhere
        /\ c.wifi # NoCount => w \in Listed /\ c.wifi = station[w]
        /\ c.port # NoCount => at \in Port /\ c.src = at /\ c.port = port[at]
        /\ c.wired # NoCount => c.wired = flows
    BY SampleRead DEF TrafficInv
  <1>5. w \in Ap => station[w] # NoCount /\ c.wifi = station[w]
    BY <1>3, <1>4 DEF Listed
  <1>6. StationsBehind'
    <2>1. SUFFICES ASSUME w \in Ap, NEW a \in Ap, station[a] # NoCount
                   PROVE  /\ a = w => station[a] - c.wifi <= 0
                          /\ a \notin Listed => station[a] <= 0
      BY <1>2 DEF StationsBehind
    <2>2. a \in Listed
      BY <2>1 DEF Listed
    <2>3. QED BY <1>3, <1>5, <2>1, <2>2
  <1>7. PortBehind'
    BY <1>2, <1>3, <1>4 DEF PortBehind
  <1>8. FlowsBehind'
    BY <1>2, <1>3, <1>4 DEF FlowsBehind
  <1>9. SteadyCount'
    <2>1. steady' => at \in Ap \cup Port
      BY <1>2, <1>3
    <2>2. at \in Ap /\ w = at => station[at] - c.wifi = 0
      BY <1>3, <1>5
    <2>3. at \in Port /\ c.port # NoCount => c.src = at /\ port[at] - c.port = 0
      BY <1>3, <1>4
    <2>4. QED BY <1>2, <2>1, <2>2, <2>3 DEF SteadyCount
  <1>10. QED BY <1>6, <1>7, <1>8, <1>9 DEF TrafficInv, CountersBehind

LEMMA TrafficInvariant == Spec => []TrafficInv
  <1>1. Init /\ TypeOK => TrafficInv
    BY TrafficInit
  <1>2. TrafficInv /\ TypeOK' /\ [Next]_vars => TrafficInv'
    <2>1. CASE UNCHANGED vars
      BY <2>1 DEF vars, history, TrafficInv, CountersBehind, StationsBehind, PortBehind, FlowsBehind,
                  SteadyCount
    <2>2. QED BY <2>1, ReceiveTraffic, MoveTraffic, ExpireTraffic, ResetTraffic, ScanTraffic DEF Next
  <1>3. QED BY <1>1, <1>2, BandwidthTypeOK, PTL DEF Spec

\* However a device roams, docks and comes back, however long APs go on listing it,
\* and whatever reboots, outages and gaps there are between samples: a scan credits it
\* with more than it received since the last one only if it subtracts the count of
\* another AP from that of an AP which listed the device at both samples, or again
\* (_compute_device_rates).
THEOREM OvercountsAreAcrossAps == Spec => OvercountOnlyAcrossAps
  <1>1. ASSUME TrafficInv, [Next]_vars PROVE [credited' <= recent \/ AcrossAps(from')]_vars
    <2>1. recent \in Nat
      BY <1>1 DEF TrafficInv, TypeOK
    <2>2. CASE Receive \/ Move \/ Expire \/ Reset
      <3>1. credited' = 0
        BY <2>2 DEF Receive, Move, Expire, Reset, Uncredited
      <3>2. QED BY <2>1, <3>1
    <2>3. CASE Scan
      <3>1. PICK w \in Listed \cup {Nowhere} : \E c \in Samples(w) : credited' = Delta(bw, c) /\ from' = w
        BY <2>3 DEF Scan
      <3>2. QED BY <1>1, <3>1, DeltaIsReceived
    <2>4. QED BY <1>1, <2>2, <2>3 DEF Next
  <1>2. QED BY <1>1, TrafficInvariant, PTL DEF Spec, OvercountOnlyAcrossAps, AcrossAps

\* The sample of a scan that finds the device where it has been since the last one.
LEMMA SteadySample ==
    ASSUME TrafficInv, steady, NEW w \in Listed \cup {Nowhere}, NEW c \in Samples(w),
           NEW k, k = IF at \in Ap THEN "wifi" ELSE "port",
           at \in Ap => from = at /\ w = at, Usable(k, bw, c)
    PROVE  c[k] - bw[k] = recent
  <1>1. Ap \cap Port = {} /\ TypeOK /\ at \in Ap \cup Port
    BY BandwidthAssumption DEF TrafficInv, SteadyCount
  <1>2. CASE at \in Ap
    <2>1. k = "wifi" /\ c.wifi # NoCount
      BY <1>2 DEF Usable
    <2>2. c.wifi = station[at]
      BY <1>1, <1>2, <2>1, SampleRead
    <2>3. QED BY <1>2, <2>1, <2>2 DEF TrafficInv, SteadyCount
  <1>3. CASE at \in Port
    <2>1. k = "port" /\ c.port # NoCount /\ bw.port # NoCount
      BY <1>1, <1>3 DEF Usable
    <2>2. c.port = port[at]
      BY <1>1, <2>1, SampleRead
    <2>3. QED BY <1>3, <2>1, <2>2 DEF TrafficInv, SteadyCount
  <1>4. QED BY <1>1, <1>2, <1>3

\* A device that stays where it is, with the counter of that place in both samples, is
\* credited with exactly what it received in between.
THEOREM SteadyTrafficExact == Spec => SteadyIsExact
  <1>1. ASSUME TrafficInv, [Next]_vars, steady, recent > 0, recent' = 0, NEW k,
               k = IF at \in Ap THEN "wifi" ELSE "port",
               at \in Ap => from = at /\ from' = at,
               WellSpaced(bw'), recent \div bw'.elapsed <= MaxRate,
               Source(bw, bw') = k, Usable(k, bw, bw')
        PROVE  credited' = recent
    <2>1. recent \in Nat
      BY <1>1 DEF TrafficInv, TypeOK
    <2>2. Scan
      <3>1. Receive => recent' # 0
        <4>1. \A b \in Burst : recent + b # 0
          BY <1>1, <2>1, BandwidthAssumption
        <4>2. QED BY <4>1 DEF Receive
      <3>2. Move \/ Expire \/ Reset \/ UNCHANGED vars => recent' = recent
        BY DEF Move, Expire, Reset, vars
      <3>3. recent' # recent
        BY <1>1, <2>1
      <3>4. QED BY <1>1, <3>1, <3>2, <3>3 DEF Next
    <2>3. PICK w \in Listed \cup {Nowhere} :
              \E c \in Samples(w) : credited' = Delta(bw, c) /\ bw' = c /\ from' = w
      BY <2>2 DEF Scan
    <2>4. PICK c \in Samples(w) : credited' = Delta(bw, c) /\ bw' = c /\ from' = w
      BY <2>3
    <2>5. c[k] - bw[k] = recent
      BY <1>1, <2>4, SteadySample
    <2>6. Delta(bw, c) = Credit(recent, c.elapsed)
      BY <1>1, <2>4, <2>5 DEF Delta
    <2>7. Credit(recent, c.elapsed) = recent
      BY <1>1, <2>1, <2>4 DEF Credit
    <2>8. QED BY <2>4, <2>6, <2>7
  <1> DEFINE Exact ==
               LET k == IF at \in Ap THEN "wifi" ELSE "port"
               IN  /\ steady /\ recent > 0 /\ recent' = 0
                   /\ at \in Ap => from = at /\ from' = at
                   /\ WellSpaced(bw') /\ recent \div bw'.elapsed <= MaxRate
                   /\ Source(bw, bw') = k /\ Usable(k, bw, bw')
                   => credited' = recent
  <1>2. TrafficInv /\ [Next]_vars => Exact
    BY <1>1
  <1>3. QED BY <1>2, TrafficInvariant, PTL DEF Spec, SteadyIsExact
=============================================================================
