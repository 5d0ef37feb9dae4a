----------------------------- MODULE Bandwidth ------------------------------
(***************************************************************************)
(* Traffic accounting of one device in one direction: the byte counters of *)
(* the Wi-Fi stations, switch ports and conntrack flows a device leaves    *)
(* behind as it roams, and what _compute_device_rates makes of two         *)
(* consecutive samples of them.  An AP keeps the entry of a device that    *)
(* has left it for a while, so several APs may list the device at once.    *)
(***************************************************************************)
EXTENDS Integers

CONSTANTS
    Ap, Port,       \* radios a device can be associated with, switch ports it can be plugged into
    Nowhere,        \* the device is off
    NoCount,        \* no station entry, or no counter for the device in a sample
    Burst,          \* amounts of traffic between two steps
    Before,         \* what a counter can stand at when the coordinator starts
    Elapsed,        \* time between two samples
    MinElapsed, MaxElapsed,     \* BW_MIN_ELAPSED_S, BW_MAX_AGE_S
    MaxRate,        \* BW_MAX_RATE_BPS
    Cap             \* bound on the traffic of a run

ASSUME BandwidthAssumption ==
    /\ Ap \cap Port = {} /\ Nowhere \notin Ap \cup Port
    /\ Burst \subseteq Nat \ {0} /\ Before \subseteq Nat
    /\ Elapsed \subseteq Nat \ {0} /\ {MinElapsed, MaxElapsed, MaxRate, Cap} \subseteq Nat
    /\ MinElapsed > 0 /\ NoCount \notin Int

VARIABLES
    at,         \* where the device is
    station,    \* station[a]: bytes since its association with a
    port,       \* port[p]: lifetime bytes of p
    flows,      \* bytes of the device's live conntrack flows
    real,       \* bytes the device has really received since the coordinator started
    recent,     \* ... and since the last sample
    bw,         \* _device_bw: the last sample
    credited,   \* what the last step has added to _device_bw_accum of the device
    \* History of the last sample, read by the properties only:
    steady,     \* nothing but traffic has happened since
    from,       \* the AP whose station entry it took, or Nowhere
    listed      \* all APs that had a station entry of the device

history == <<steady, from, listed>>
vars    == <<at, station, port, flows, real, recent, bw, credited, history>>

-----------------------------------------------------------------------------
(* _compute_device_rates *)

Sample   == [wifi : Nat \cup {NoCount}, port : Nat \cup {NoCount}, src : Port \cup {NoCount},
             wired : Nat \cup {NoCount}, elapsed : Nat]
NoSample == [wifi |-> NoCount, port |-> NoCount, src |-> NoCount, wired |-> NoCount, elapsed |-> 0]

\* A fault: a port counts whether or not it is still the same one.
Usable_AnyPort(k, p, c) == c[k] # NoCount /\ p[k] # NoCount

\* A source counts if it has the device in both samples, a port only if it is
\* still the same one; the first source in order of priority wins.
Usable(k, p, c) ==
    /\ c[k] # NoCount /\ p[k] # NoCount
    /\ k = "port" => c.src = p.src
Source(p, c) ==
    IF Usable("wifi", p, c) THEN "wifi" ELSE IF Usable("port", p, c) THEN "port" ELSE "wired"

\* Faults: a drop counts as negative traffic; the rate bound is off by one.
Credit_Signed(d, dt) == IF d \div dt <= MaxRate THEN d ELSE 0
Credit_Strict(d, dt) == IF d > 0 /\ d \div dt < MaxRate THEN d ELSE 0

\* A drop of a counter counts as nothing, and so does an implausible rise.
Credit(d, dt) == IF d > 0 /\ d \div dt <= MaxRate THEN d ELSE 0

\* c.elapsed: the time from sample p to sample c.
WellSpaced(c) == MinElapsed <= c.elapsed /\ c.elapsed < MaxElapsed
Delta(p, c) ==
    LET k == Source(p, c)
    IN  IF WellSpaced(c) /\ Usable(k, p, c) THEN Credit(c[k] - p[k], c.elapsed) ELSE 0

-----------------------------------------------------------------------------
(* The network *)

\* A coordinator starts (again), with empty samples and totals, in a network
\* that has been running for a while.
Init ==
    /\ at \in Ap \cup Port \cup {Nowhere}
    /\ station \in [Ap -> Before \cup {NoCount}]
    /\ \A a \in Ap : a = at => station[a] # NoCount
    /\ port \in [Port -> Before]
    /\ flows \in Before /\ real = 0 /\ recent = 0
    /\ bw = NoSample /\ credited = 0
    /\ steady = FALSE /\ from = Nowhere /\ listed = {}

Uncredited == bw' = bw /\ credited' = 0

\* Traffic, routed by the gateway or within the LAN.
Receive ==
    \E b \in Burst, routed \in BOOLEAN :
        /\ at # Nowhere /\ real + b <= Cap
        /\ real' = real + b /\ recent' = recent + b
        /\ station' = IF at \in Ap THEN [station EXCEPT ![at] = @ + b] ELSE station
        /\ port' = IF at \in Port THEN [port EXCEPT ![at] = @ + b] ELSE port
        /\ flows' = IF routed THEN flows + b ELSE flows
        /\ Uncredited /\ UNCHANGED <<at, history>>

\* Switching on or off, roaming, docking.  A new association counts from zero.
\* The old AP keeps its entry until it expires, or drops it at once if it hears
\* of the new association.
Move ==
    \E to \in (Ap \cup Port \cup {Nowhere}) \ {at}, kept \in SUBSET Ap :
        /\ at' = to
        /\ station' = [a \in Ap |-> IF a = to THEN 0
                                    ELSE IF a \in kept THEN station[a] ELSE NoCount]
        /\ steady' = FALSE
        /\ Uncredited /\ UNCHANGED <<port, flows, real, recent, from, listed>>

Expire ==
    \/ \E a \in Ap \ {at} :
          /\ station[a] # NoCount
          /\ station' = [station EXCEPT ![a] = NoCount]
          /\ Uncredited /\ UNCHANGED <<at, port, flows, real, recent, history>>
    \/ /\ flows > 0
       /\ flows' \in 0 .. flows - 1
       /\ Uncredited /\ UNCHANGED <<at, station, port, real, recent, history>>

\* An AP or switch reboots: its counters start over.
Reset ==
    \/ \E a \in Ap :
          /\ station[a] # NoCount
          /\ station' = [station EXCEPT ![a] = IF at = a THEN 0 ELSE NoCount]
          /\ steady' = FALSE
          /\ Uncredited /\ UNCHANGED <<at, port, flows, real, recent, from, listed>>
    \/ \E p \in Port :
          /\ port[p] > 0
          /\ port' = [port EXCEPT ![p] = 0]
          /\ steady' = FALSE
          /\ Uncredited /\ UNCHANGED <<at, station, flows, real, recent, from, listed>>

-----------------------------------------------------------------------------
(* The coordinator *)

Listed == {a \in Ap : station[a] # NoCount}

\* What a scan can see: the station entry with the strongest signal, which may
\* be that of any AP w that answers, the port if its switch answers, the flows if
\* the gateway does and no AP lists the device.
Samples(w) ==
    {[wifi |-> IF w = Nowhere THEN NoCount ELSE station[w],
      src |-> p, port |-> IF p = NoCount THEN NoCount ELSE port[p],
      wired |-> IF w = Nowhere THEN f ELSE NoCount, elapsed |-> dt] :
        p \in ({at} \cap Port) \cup {NoCount}, f \in {flows, NoCount}, dt \in Elapsed}

Scan ==
    \E w \in Listed \cup {Nowhere} : \E c \in Samples(w) :
        /\ credited' = Delta(bw, c)
        /\ bw' = c
        /\ recent' = 0
        /\ steady' = (at # Nowhere) /\ from' = w /\ listed' = Listed
        /\ UNCHANGED <<at, station, port, flows, real>>

Next == Receive \/ Move \/ Expire \/ Reset \/ Scan

Spec == Init /\ [][Next]_vars

-----------------------------------------------------------------------------
(* Properties *)

TypeOK ==
    /\ at \in Ap \cup Port \cup {Nowhere}
    /\ station \in [Ap -> Nat \cup {NoCount}] /\ port \in [Port -> Nat]
    /\ at \in Ap => station[at] # NoCount
    /\ flows \in Nat /\ real \in Nat /\ recent \in Nat /\ credited \in Nat
    /\ bw \in Sample /\ (bw.wifi = NoCount <=> from = Nowhere)
    /\ steady \in BOOLEAN /\ from \in listed \cup {Nowhere} /\ listed \subseteq Ap

\* "rather than producing a garbage delta from mismatched counters" holds of ports
\* only: samples carry no AP, so counters of two APs can be subtracted.  That credits a
\* device with more than it received since the last sample only if the new count
\* is from another AP than the last, one that had listed the device then already:
\* never when it roams, docks, comes back or is listed by one AP at a time.
OvercountOnlyAcrossAps ==
    [][credited' <= recent \/ (from \in Ap /\ from' \in listed \ {from})]_vars

\* A device that stays where it is, its counter being the first source of two
\* well spaced samples, is credited with exactly what it received in between.
SteadyIsExact ==
    [][LET k == IF at \in Ap THEN "wifi" ELSE "port"
       IN  /\ steady /\ recent > 0 /\ recent' = 0
           /\ at \in Ap => from = at /\ from' = at
           /\ WellSpaced(bw') /\ recent \div bw'.elapsed <= MaxRate
           /\ Source(bw, bw') = k /\ Usable(k, bw, bw')
           => credited' = recent]_vars
=============================================================================
