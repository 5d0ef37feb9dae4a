--------------------------- MODULE AsuLoopProofs ----------------------------
(***************************************************************************)
(* What the firmware loop guarantees for every set of hosts, every length  *)
(* of a probe up to its timeout and every interleaving with scans and a    *)
(* shutdown.                                                               *)
(***************************************************************************)
EXTENDS AsuLoop, WellFoundedInduction, FiniteSetTheorems, TLAPS

-----------------------------------------------------------------------------
(* The ages of the cache *)

Age   == Nat \cup {NoInfo}

\* If every host has been probed, one result is not younger than any.
LEMMA OldestIsOldest ==
    ASSUME NEW a \in [Host -> Nat]
    PROVE  Oldest(a) \in Nat /\ \A h \in Host : a[h] <= Oldest(a)
  <1> DEFINE older(h) == {g \in Host : a[h] <= a[g]}
             F        == {older(h) : h \in Host}
  <1>1. F # {}
    <2>1. PICK h \in Host : TRUE
      BY HostAssumption
    <2>2. older(h) \in F
      OBVIOUS
    <2>3. QED BY <2>2
  <1>2. F \subseteq FiniteSubsetsOf(Host)
    <2>1. \A h \in Host : older(h) \subseteq Host /\ IsFiniteSet(older(h))
      BY HostAssumption, FS_Subset
    <2>2. QED BY <2>1 DEF FiniteSubsetsOf
  <1> HIDE DEF F
  <1>3. PICK R \in F : \A Q \in F : <<Q, R>> \notin StrictSubsetOrdering(Host)
    BY <1>1, <1>2, HostAssumption, FS_StrictSubsetOrderingWellFounded, WFMin
  <1> USE DEF F
  <1>4. PICK x \in Host : R = older(x)
    BY <1>3
  <1>5. ASSUME NEW h \in Host PROVE a[h] <= a[x]
    <2>1. <<older(h), older(x)>> \notin StrictSubsetOrdering(Host)
      BY <1>3, <1>4
    <2>2. older(h) \subseteq Host /\ older(x) \subseteq Host
      OBVIOUS
    <2>3. ~(older(h) \subseteq older(x) /\ older(h) # older(x))
      BY <2>1, <2>2 DEF StrictSubsetOrdering
    <2>4. a[x] < a[h] => older(h) \subseteq older(x) /\ x \in older(x) /\ x \notin older(h)
      OBVIOUS
    <2>5. QED BY <2>3, <2>4
  <1>6. \E y \in {a[h] : h \in Host} : \A h \in Host : a[h] <= y
    BY <1>5
  <1>7. Oldest(a) \in {a[h] : h \in Host} /\ \A h \in Host : a[h] <= Oldest(a)
    BY <1>6 DEF Oldest
  <1>8. QED BY <1>7

\* A sleep until the next host is due ends at most MinSleep after it is.
LEMMA SleepIsShort ==
    ASSUME NEW a \in [Host -> Age], Due(a) = {}
    PROVE  SleepFor(a) \in Nat /\ \A h \in Host : a[h] \in Nat /\ a[h] + SleepFor(a) <= Interval + MinSleep
  <1>1. Interval \in Nat /\ MinSleep \in Nat
    BY TimingAssumption
  <1>2. \A h \in Host : a[h] \in Nat /\ a[h] < Interval
    BY <1>1 DEF Due, Age
  <1>3. a \in [Host -> Nat]
    BY <1>2
  <1>4. Oldest(a) \in Nat /\ \A h \in Host : a[h] <= Oldest(a)
    BY <1>3, OldestIsOldest
  <1>5. QED BY <1>1, <1>2, <1>4 DEF SleepFor

LEMMA AgedAges ==
    ASSUME NEW d \in Nat, age \in [Host -> Age]
    PROVE  /\ AgedBy(d) \in [Host -> Age]
           /\ \A h \in Host : IF age[h] = NoInfo THEN AgedBy(d)[h] = NoInfo
                              ELSE AgedBy(d)[h] \in Nat /\ AgedBy(d)[h] = age[h] + d
  BY HostAssumption DEF AgedBy, Age

-----------------------------------------------------------------------------
(* Types, the task and the block of the data *)

\* The loop runs while the coordinator is up and at no other time.
LoopRuns == loop # "done" <=> phase = "up"

AsuInv == TypeOK /\ LoopRuns /\ QuietAfterShutdown /\ BlockIsCache

LEMMA InfoOfOutcome ==
    ASSUME NEW o \in Outcome PROVE parse_asu_output(o) \in Info
  BY DEF Info

LEMMA AsuInit ==
    ASSUME Init PROVE AsuInv
  BY HostAssumption DEF Init, AsuInv, TypeOK, LoopRuns, QuietAfterShutdown, BlockIsCache, Unprobed

LEMMA AsuStep ==
    ASSUME AsuInv, [Next]_vars PROVE AsuInv'
  <1> USE DEF AsuInv, timer
  <1>1. CASE Load
    BY <1>1, TimingAssumption DEF Load, TypeOK, LoopRuns, QuietAfterShutdown, BlockIsCache
  <1>2. CASE Wake
    <2>1. wait \in Nat /\ age \in [Host -> Age]
      BY DEF TypeOK, Age
    <2>2. age' \in [Host -> Age]
      BY <1>2, <2>1, AgedAges DEF Wake
    <2>3. CASE \E h \in Host : loop' = "probing" /\ target' = h /\ wait' = 0
      BY <1>2, <2>2, <2>3, HostAssumption
         DEF Wake, TypeOK, Age, LoopRuns, QuietAfterShutdown, BlockIsCache
    <2>4. CASE Due(age') = {} /\ wait' = SleepFor(age') /\ UNCHANGED <<loop, target>>
      <3>1. wait' \in Nat
        BY <2>2, <2>4, SleepIsShort
      <3>2. QED BY <1>2, <2>2, <2>4, <3>1
                DEF Wake, TypeOK, Age, LoopRuns, QuietAfterShutdown, BlockIsCache
    <2>5. QED BY <1>2, <2>3, <2>4 DEF Wake, Due
  <1>3. CASE ProbeDone
    <2>1. PICK d \in 0 .. Timeout, o \in Outcome :
            /\ loop = "probing"
            /\ age' = [AgedBy(d) EXCEPT ![target] = 0]
            /\ info' = [info EXCEPT ![target] = parse_asu_output(o)]
            /\ data' = Graft(info')
            /\ loop' = "sleeping" /\ wait' = Gap /\ target' = NoInfo
            /\ UNCHANGED <<phase, scan, success>>
      BY <1>3 DEF ProbeDone
    <2>2. d \in Nat /\ Gap \in Nat /\ age \in [Host -> Age]
      BY TimingAssumption DEF TypeOK, Age
    <2>3. age' \in [Host -> Age]
      BY <2>1, <2>2, AgedAges DEF Age
    <2>4. info' \in [Host -> Info \cup {NoInfo}]
      BY <2>1, InfoOfOutcome DEF TypeOK
    <2>5. data' \in [Host -> Info \cup {NoInfo}] \cup {NoInfo} /\ (data' # NoInfo => data' = info')
      BY <2>1, <2>4 DEF Graft
    <2>6. TypeOK'
      BY <2>1, <2>2, <2>3, <2>4, <2>5 DEF TypeOK, Age
    <2>7. QED BY <2>1, <2>5, <2>6 DEF LoopRuns, QuietAfterShutdown, BlockIsCache
  <1>4. CASE ScanStart
    BY <1>4 DEF ScanStart, TypeOK, LoopRuns, QuietAfterShutdown, BlockIsCache
  <1>5. CASE ScanDone
    BY <1>5 DEF ScanDone, TypeOK, LoopRuns, QuietAfterShutdown, BlockIsCache
  <1>6. CASE ScanFails
    BY <1>6 DEF ScanFails, TypeOK, LoopRuns, QuietAfterShutdown, BlockIsCache
  <1>7. CASE Shutdown
    BY <1>7 DEF Shutdown, TypeOK, LoopRuns, QuietAfterShutdown, BlockIsCache
  <1>8. CASE ShutdownDone
    <2>1. Unprobed \in [Host -> Age] /\ Unprobed \in [Host -> Info \cup {NoInfo}]
      BY DEF Unprobed, Age
    <2>2. QED BY <1>8, <2>1 DEF ShutdownDone, TypeOK, Age, LoopRuns, QuietAfterShutdown, BlockIsCache
  <1>9. CASE UNCHANGED vars
    BY <1>9 DEF vars, TypeOK, LoopRuns, QuietAfterShutdown, BlockIsCache
  <1>10. QED BY <1>1, <1>2, <1>3, <1>4, <1>5, <1>6, <1>7, <1>8, <1>9 DEF Next

LEMMA AsuInvariant == Spec => []AsuInv
  BY AsuInit, AsuStep, PTL DEF Spec

\* The loop, its cache, the published data and the scans keep their types.
THEOREM AsuLoopTypeOK == Spec => []TypeOK
  BY AsuInvariant, PTL DEF AsuInv

\* Whichever of a probe and a scan ends first, a running coordinator publishes what the
\* cache holds (_asu_probe_once, _async_update_data).
THEOREM DataIsCache == Spec => []BlockIsCache
  BY AsuInvariant, PTL DEF AsuInv

\* No task outlives a shutdown, and its cache stays empty (async_shutdown).
THEOREM ShutdownIsQuiet == Spec => []QuietAfterShutdown
  BY AsuInvariant, PTL DEF AsuInv

-----------------------------------------------------------------------------
(* Starvation.  A host that is due waits for the hosts before it, each of    *)
(* which gets one slot: while it waits, none of them can become due again.   *)

\* The sleep between two probes is the shorter one, and a host that is due takes a
\* slot that is not shorter than either (ASU_PROBE_GAP_S, 60 s, ASU_PROBE_TIMEOUT_S).
SleepsFit == Gap <= MinSleep /\ MinSleep <= Timeout + Gap

\* The hosts that were probed since h became due, and the age it may have then.
Served(a, h) == {g \in Host : a[g] # NoInfo /\ a[g] + Interval <= a[h]}
Late(a, h)   == Interval + MinSleep + Cardinality(Served(a, h)) * (Timeout + Gap)

\* A host is waiting no longer than those slots, and the one that is probed was due.
NotLate == \A h \in Host : age[h] # NoInfo => age[h] + wait <= Late(age, h)
ProbesDue == loop = "probing" => wait = 0 /\ target \in Due(age)

FairInv == AsuInv /\ NotLate /\ ProbesDue

LEMMA Slots ==
    ASSUME NEW i \in Nat, NEW j \in Nat, i <= j
    PROVE  /\ i * (Timeout + Gap) \in Nat
           /\ i * (Timeout + Gap) <= j * (Timeout + Gap)
           /\ (i + 1) * (Timeout + Gap) = i * (Timeout + Gap) + Timeout + Gap
  <1> DEFINE c == Timeout + Gap
  <1>1. c \in Nat
    BY TimingAssumption
  <1> HIDE DEF c
  <1>2. PICK k \in Nat : j = i + k
    <2>1. j - i \in Nat /\ j = i + (j - i)
      OBVIOUS
    <2>2. QED BY <2>1
  <1>3. i * c \in Nat /\ k * c \in Nat /\ j * c = i * c + k * c /\ (i + 1) * c = i * c + c
    BY <1>1, <1>2
  <1>4. i * c <= j * c
    BY <1>3
  <1>5. Timeout \in Nat /\ Gap \in Nat
    BY TimingAssumption
  <1>6. i * c + c = i * c + Timeout + Gap
    BY <1>3, <1>5 DEF c
  <1>7. QED BY <1>3, <1>4, <1>6 DEF c

\* A host that has just been probed is not due before all the others had a slot.
LEMMA IntervalIsLong ==
    /\ Interval \in Nat /\ Interval > 0 /\ Cardinality(Host) \in Nat /\ Cardinality(Host) > 0
    /\ (Cardinality(Host) - 1) * (Timeout + Gap) + Timeout + Gap < Interval
  <1> DEFINE n == Cardinality(Host)
  <1>1. n \in Nat /\ n # 0
    BY HostAssumption, FS_CardinalityType, FS_EmptySet
  <1>2. Interval \in Nat /\ Timeout \in Nat /\ Gap \in Nat /\ Interval > n * (Timeout + Gap)
    BY TimingAssumption
  <1> HIDE DEF n
  <1>3. n - 1 \in Nat /\ (n - 1) + 1 = n
    BY <1>1
  <1>4. /\ (n - 1) * (Timeout + Gap) \in Nat
        /\ ((n - 1) + 1) * (Timeout + Gap) = (n - 1) * (Timeout + Gap) + Timeout + Gap
    BY <1>3, Slots
  <1>5. n * (Timeout + Gap) = (n - 1) * (Timeout + Gap) + Timeout + Gap
    BY <1>3, <1>4
  <1>6. QED BY <1>1, <1>2, <1>4, <1>5 DEF n

\* There are at most as many slots as there are other hosts.
LEMMA ServedCount ==
    ASSUME NEW a \in [Host -> Age], NEW h \in Host, a[h] # NoInfo
    PROVE  /\ IsFiniteSet(Served(a, h)) /\ h \notin Served(a, h)
           /\ Cardinality(Host) \in Nat /\ Cardinality(Served(a, h)) \in Nat
           /\ Cardinality(Served(a, h)) <= Cardinality(Host) - 1
           /\ Late(a, h) \in Nat /\ Interval + MinSleep <= Late(a, h) /\ Late(a, h) <= MaxAge
  <1> DEFINE S == Served(a, h)
             n == Cardinality(Host)
             m == Cardinality(S)
  <1>1. S \subseteq Host \ {h}
    BY IntervalIsLong DEF Served, Age
  <1>2. IsFiniteSet(Host \ {h}) /\ Cardinality(Host \ {h}) = n - 1 /\ n \in Nat
    BY HostAssumption, FS_RemoveElement, FS_CardinalityType
  <1>3. IsFiniteSet(S) /\ m \in Nat /\ m <= n - 1
    BY <1>1, <1>2, FS_Subset, FS_CardinalityType
  <1> HIDE DEF n, m
  <1>4. n - 1 \in Nat
    BY <1>2, <1>3
  <1>5. m * (Timeout + Gap) \in Nat /\ m * (Timeout + Gap) <= (n - 1) * (Timeout + Gap)
    BY <1>3, <1>4, Slots
  <1>6. QED
    BY <1>1, <1>2, <1>3, <1>5, TimingAssumption DEF Late, MaxAge, n, m

\* Time that passes serves nobody.
LEMMA AgedLate ==
    ASSUME age \in [Host -> Age], NEW d \in Nat, NEW h \in Host, age[h] # NoInfo
    PROVE  Served(AgedBy(d), h) = Served(age, h) /\ Late(AgedBy(d), h) = Late(age, h)
  <1>1. \A g \in Host : g \in Served(AgedBy(d), h) <=> g \in Served(age, h)
    <2>1. TAKE g \in Host
    <2>2. age[h] \in Nat /\ age[g] \in Age /\ Interval \in Nat
      BY IntervalIsLong DEF Age
    <2>3. QED BY <2>2, AgedAges, HostAssumption DEF Served, Age
  <1>2. Served(AgedBy(d), h) = Served(age, h)
    BY <1>1 DEF Served
  <1>3. QED BY <1>2 DEF Late

\* A probe uses up one slot of every host that is waiting.
LEMMA ProbeUsesSlot ==
    ASSUME SleepsFit, FairInv, loop = "probing", NEW d \in 0 .. Timeout, NEW a,
           a = [AgedBy(d) EXCEPT ![target] = 0], NEW h \in Host, a[h] # NoInfo
    PROVE  a[h] + Gap <= Late(a, h)
  <1> DEFINE g  == target
             m  == Cardinality(Served(age, h))
             m2 == Cardinality(Served(a, h))
  <1>1. /\ Timeout \in Nat /\ Gap \in Nat /\ MinSleep \in Nat /\ d \in Nat /\ d <= Timeout
        /\ Gap <= MinSleep /\ MinSleep <= Timeout + Gap
    BY TimingAssumption DEF SleepsFit
  <1>2. age \in [Host -> Age] /\ g \in Host /\ g \in Due(age) /\ wait = 0
    BY DEF FairInv, AsuInv, TypeOK, Age, ProbesDue, Due
  <1>3. a \in [Host -> Age]
    BY <1>1, <1>2, AgedAges DEF Age
  <1>4. Late(a, h) \in Nat /\ Interval + MinSleep <= Late(a, h)
    BY <1>3, ServedCount
  <1>5. CASE h = g
    <2>1. a[h] = 0
      BY <1>1, <1>2, <1>5, AgedAges
    <2>2. QED BY <1>1, <1>4, <2>1, IntervalIsLong
  <1>6. CASE h # g
    <2>1. /\ age[h] # NoInfo /\ age[h] \in Nat /\ a[h] = age[h] + d
          /\ a[g] = 0 /\ 0 # NoInfo
      BY <1>1, <1>2, <1>6, AgedAges, HostAssumption DEF Age
    <2>2. CASE a[h] < Interval
      BY <1>1, <1>4, <2>1, <2>2, IntervalIsLong
    <2>3. CASE a[h] >= Interval
      <3>1. g \in Served(a, h)
        BY <1>2, <2>1, <2>3, IntervalIsLong DEF Served
      <3>2. age[h] <= Late(age, h) /\ Late(age, h) \in Nat /\ Late(age, h) <= MaxAge
        <4>1. Late(age, h) \in Nat /\ Late(age, h) <= MaxAge
          BY <1>2, <2>1, ServedCount
        <4>2. age[h] + 0 <= Late(age, h)
          BY <1>2, <2>1 DEF FairInv, NotLate
        <4>3. QED BY <2>1, <4>1, <4>2
      <3>3. g \notin Served(age, h)
        <4>1. SUFFICES ASSUME age[g] # NoInfo, age[g] + Interval <= age[h] PROVE FALSE
          BY DEF Served
        <4>2. age[g] \in Nat /\ age[g] >= Interval
          BY <1>2, <4>1 DEF Due, Age
        <4>3. MaxAge \in Nat /\ MaxAge < Interval + Interval
          <5>1. (Cardinality(Host) - 1) * (Timeout + Gap) \in Nat
            BY IntervalIsLong, Slots
          <5>2. QED BY <1>1, <5>1, IntervalIsLong DEF MaxAge
        <4>4. QED BY <2>1, <3>2, <4>1, <4>2, <4>3, IntervalIsLong
      <3>4. Served(age, h) \cup {g} \subseteq Served(a, h)
        <4>1. ASSUME NEW x \in Served(age, h) PROVE x \in Served(a, h)
          <5>1. x \in Host /\ x # g /\ age[x] \in Nat /\ age[x] # NoInfo /\ age[x] + Interval <= age[h]
            BY <1>2, <3>3, <4>1 DEF Served, Age
          <5>2. a[x] = age[x] + d /\ a[x] # NoInfo
            BY <1>1, <1>2, <5>1, AgedAges, HostAssumption
          <5>3. QED BY <1>1, <2>1, <5>1, <5>2, IntervalIsLong DEF Served
        <4>2. QED BY <3>1, <4>1
      <3>5. m \in Nat /\ m2 \in Nat /\ m + 1 <= m2
        <4>1. IsFiniteSet(Served(age, h)) /\ IsFiniteSet(Served(a, h)) /\ m \in Nat /\ m2 \in Nat
          BY <1>2, <1>3, <2>1, ServedCount
        <4>2. Cardinality(Served(age, h) \cup {g}) = m + 1
          BY <3>3, <4>1, FS_AddElement
        <4>3. QED BY <3>4, <4>1, <4>2, FS_Subset
      <3> HIDE DEF m, m2
      <3>6. /\ m * (Timeout + Gap) \in Nat /\ m2 * (Timeout + Gap) \in Nat
            /\ m * (Timeout + Gap) + Timeout + Gap <= m2 * (Timeout + Gap)
        BY <3>5, Slots
      <3>7. Late(age, h) + Timeout + Gap <= Late(a, h)
        BY <1>1, <3>6, IntervalIsLong DEF Late, m, m2
      <3>8. QED BY <1>1, <1>4, <2>1, <3>2, <3>7
    <2>4. QED BY <1>1, <2>1, <2>2, <2>3, IntervalIsLong
  <1>7. QED BY <1>5, <1>6

LEMMA FairStep ==
    ASSUME SleepsFit, FairInv, AsuInv', [Next]_vars PROVE FairInv'
  <1>1. /\ age \in [Host -> Age] /\ wait \in Nat /\ LoopRuns /\ QuietAfterShutdown
        /\ Interval \in Nat /\ MinSleep \in Nat /\ Gap \in Nat
    BY TimingAssumption DEF FairInv, AsuInv, TypeOK, Age
  <1>2. CASE Load
    <2>1. age = Unprobed
      BY <1>1, <1>2 DEF Load, QuietAfterShutdown
    <2>2. \A h \in Host : age'[h] = NoInfo
      BY <1>2, <2>1 DEF Load, Unprobed
    <2>3. QED BY <1>2, <2>2 DEF Load, FairInv, NotLate, ProbesDue
  <1>3. CASE Wake
    <2>1. age' = AgedBy(wait)
      BY <1>3 DEF Wake
    <2>2. ASSUME NEW h \in Host, age'[h] # NoInfo
          PROVE  age'[h] \in Nat /\ age'[h] <= Late(age', h)
      <3>1. age[h] # NoInfo /\ age[h] \in Nat /\ age'[h] = age[h] + wait
        BY <1>1, <2>1, <2>2, AgedAges DEF Age
      <3>2. Late(age', h) = Late(age, h)
        BY <1>1, <2>1, <3>1, AgedLate
      <3>3. QED BY <1>1, <3>1, <3>2 DEF FairInv, NotLate
    <2>3. CASE \E h \in Due(age') : loop' = "probing" /\ target' = h /\ wait' = 0
      <3>1. NotLate'
        BY <2>2, <2>3 DEF NotLate
      <3>2. ProbesDue'
        BY <2>3 DEF ProbesDue
      <3>3. QED BY <3>1, <3>2 DEF FairInv
    <2>4. CASE Due(age') = {} /\ wait' = SleepFor(age') /\ UNCHANGED <<loop, target>>
      <3>1. age' \in [Host -> Age]
        BY DEF AsuInv, TypeOK, Age
      <3>2. \A h \in Host : age'[h] + wait' <= Interval + MinSleep
        BY <2>4, <3>1, SleepIsShort
      <3>3. \A h \in Host : age'[h] # NoInfo => age'[h] + wait' <= Late(age', h)
        <4>1. TAKE h \in Host
        <4>2. HAVE age'[h] # NoInfo
        <4>3. Late(age', h) \in Nat /\ Interval + MinSleep <= Late(age', h) /\ age'[h] \in Nat
          BY <3>1, <4>2, ServedCount DEF Age
        <4>4. wait' \in Nat
          BY DEF AsuInv, TypeOK
        <4>5. QED BY <1>1, <3>2, <4>3, <4>4
      <3>4. ProbesDue'
        BY <1>3, <2>4 DEF Wake, ProbesDue
      <3>5. QED BY <3>3, <3>4 DEF FairInv, NotLate
    <2>5. QED BY <1>3, <2>3, <2>4 DEF Wake
  <1>4. CASE ProbeDone
    <2>1. PICK d \in 0 .. Timeout :
            /\ loop = "probing" /\ loop' = "sleeping" /\ wait' = Gap
            /\ age' = [AgedBy(d) EXCEPT ![target] = 0]
      BY <1>4 DEF ProbeDone
    <2>2. \A h \in Host : age'[h] # NoInfo => age'[h] + Gap <= Late(age', h)
      BY <2>1, ProbeUsesSlot
    <2>3. QED BY <2>1, <2>2 DEF FairInv, NotLate, ProbesDue
  <1>5. CASE ScanStart \/ ScanDone \/ ScanFails \/ UNCHANGED vars
    <2>1. UNCHANGED <<loop, wait, target, age>>
      BY <1>5 DEF ScanStart, ScanDone, ScanFails, vars, timer
    <2>2. QED BY <2>1 DEF FairInv, NotLate, ProbesDue
  <1>6. CASE Shutdown
    <2>1. wait' = 0 /\ age' = age /\ loop' = "done"
      BY <1>6 DEF Shutdown
    <2>2. ASSUME NEW h \in Host, age[h] # NoInfo PROVE age[h] + 0 <= Late(age, h)
      <3>1. age[h] \in Nat /\ Late(age, h) \in Nat /\ age[h] + wait <= Late(age, h)
        BY <1>1, <2>2, ServedCount DEF Age, FairInv, NotLate
      <3>2. QED BY <1>1, <3>1
    <2>3. QED BY <2>1, <2>2 DEF FairInv, NotLate, ProbesDue
  <1>7. CASE ShutdownDone
    <2>1. (\A h \in Host : age'[h] = NoInfo) /\ loop' = loop /\ loop = "done"
      BY <1>1, <1>7 DEF ShutdownDone, Unprobed, timer, LoopRuns, FairInv, AsuInv, TypeOK
    <2>2. QED BY <2>1 DEF FairInv, NotLate, ProbesDue
  <1>8. QED BY <1>2, <1>3, <1>4, <1>5, <1>6, <1>7 DEF Next

\* Whatever the hosts before it do, no host's firmware information gets older than the
\* interval by more than a sleep and one slot for each of the others (_asu_loop).
THEOREM NoHostStarves ==
    ASSUME SleepsFit PROVE Spec => []NoStarvation
  <1>1. Init => NotLate /\ ProbesDue
    BY DEF Init, Unprobed, NotLate, ProbesDue
  <1>2. FairInv /\ AsuInv' /\ [Next]_vars => FairInv'
    BY FairStep
  <1>3. FairInv => NoStarvation
    <2> SUFFICES ASSUME FairInv, NEW h \in Host, age[h] # NoInfo PROVE age[h] <= MaxAge
      BY DEF NoStarvation
    <2>1. age \in [Host -> Age] /\ wait \in Nat /\ age[h] + wait <= Late(age, h)
      BY DEF FairInv, AsuInv, TypeOK, NotLate, Age
    <2>2. age[h] \in Nat /\ Late(age, h) \in Nat /\ Late(age, h) <= MaxAge
      BY <2>1, ServedCount DEF Age
    <2>3. MaxAge \in Int
      BY IntervalIsLong, Slots, TimingAssumption DEF MaxAge
    <2>4. QED BY <2>1, <2>2, <2>3
  <1>4. QED BY <1>1, <1>2, <1>3, AsuInvariant, PTL DEF Spec, FairInv
=============================================================================
