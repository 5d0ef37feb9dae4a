------------------------------ MODULE AsuLoop -------------------------------
(***************************************************************************)
(* The background loop that asks one host after the other for available    *)
(* firmware, the scans it shares coordinator.data with, the update         *)
(* entities that read it and the shutdown that cancels it.                 *)
(*                                                                         *)
(* Time passes in the loop's sleeps and probes; the cache entries keep     *)
(* their ages.  Scans start and end anywhere in between.                   *)
(***************************************************************************)
EXTENDS Integers, FiniteSets

CONSTANTS
    Host,           \* integers, in the order of _asu_hosts
    NoInfo,         \* nothing cached or published for the host
    Interval,       \* _asu_interval_s (6 h)
    Gap,            \* ASU_PROBE_GAP_S
    MinSleep,       \* the shortest sleep when no host is due (60 s)
    FirstSleep,     \* the sleep before the first probe (5 s)
    Timeout         \* the longest a probe takes

ASSUME HostAssumption == Host \subseteq Int /\ IsFiniteSet(Host) /\ Host # {} /\ NoInfo \notin Int
ASSUME TimingAssumption ==
    /\ {Interval, Gap, MinSleep, FirstSleep, Timeout} \subseteq Nat
    /\ Interval > Cardinality(Host) * (Timeout + Gap)

VARIABLES
    phase,      \* "down", "up" or "stopping"
    loop,       \* _asu_task: "sleeping", "probing" or "done"
    wait,       \* the time the loop sleeps
    target,     \* the host it is probing
    age,        \* now - _asu_cache[h]["ts"]
    info,       \* _asu_cache[h]["info"]
    data,       \* coordinator.data["asu"], or NoInfo while there is no data
    scan,       \* "idle" or "running"
    success     \* last_update_success

vars  == <<phase, loop, wait, target, age, info, data, scan, success>>
timer == <<loop, wait, target>>

-----------------------------------------------------------------------------
(* Probe results *)

\* How an `owut check` over SSH can end.
Outcome == {"no answer", "not installed", "up to date", "safe", "errors", "unrecognised"}

InfoOf(tool, latest, error) == [tool |-> tool, latest |-> latest, error |-> error]

parse_asu_output(o) ==
    CASE o = "no answer"     -> InfoOf("unknown", "none", TRUE)
      [] o = "not installed" -> InfoOf("none", "none", TRUE)
      [] o = "up to date"    -> InfoOf("owut", "installed", FALSE)
      [] o = "safe"          -> InfoOf("owut", "target", FALSE)
      [] o = "errors"        -> InfoOf("owut", "installed", TRUE)
      [] o = "unrecognised"  -> InfoOf("owut", "none", TRUE)

Info == {parse_asu_output(o) : o \in Outcome}

-----------------------------------------------------------------------------
(* The loop *)

Unprobed == [h \in Host |-> NoInfo]

\* `ts` of a host without an entry is 0: it is due.
Due(a)     == {h \in Host : a[h] = NoInfo \/ a[h] >= Interval}
Oldest(a)  == CHOOSE x \in {a[h] : h \in Host} : \A h \in Host : a[h] <= x
SleepFor_Flipped(a) == Interval + Oldest(a)      \* a fault: now and ts swapped
SleepFor(a) == IF Interval - Oldest(a) > MinSleep THEN Interval - Oldest(a) ELSE MinSleep
AgedBy(d)  == [h \in Host |-> IF age[h] = NoInfo THEN NoInfo ELSE age[h] + d]

Init ==
    /\ phase = "down" /\ loop = "done" /\ wait = 0 /\ target = NoInfo
    /\ age = Unprobed /\ info = Unprobed /\ data = NoInfo
    /\ scan = "idle" /\ success = FALSE

\* async_setup of a new coordinator starts the loop.
Load ==
    /\ phase = "down"
    /\ phase' = "up"
    /\ loop' = "sleeping" /\ wait' = FirstSleep /\ target' = NoInfo
    /\ data' = NoInfo /\ scan' = "idle" /\ success' = TRUE
    /\ UNCHANGED <<age, info>>

\* The sleep is over: probe the first host that is due, or sleep until one is.
Wake ==
    /\ loop = "sleeping"
    /\ age' = AgedBy(wait)
    /\ \/ \E h \in Due(age') :
             /\ \A g \in Due(age') : h <= g
             /\ loop' = "probing" /\ target' = h /\ wait' = 0
       \/ /\ Due(age') = {}
          /\ wait' = SleepFor(age')
          /\ UNCHANGED <<loop, target>>
    /\ UNCHANGED <<phase, info, data, scan, success>>

Graft_Skipped(i) == data                                          \* a fault

\* The block of data["asu"] when the cache is i.
Graft(i) == IF data = NoInfo THEN NoInfo ELSE i

\* A fault: an unanswered probe kills the loop.
ProbeDone_Dies ==
    \E d \in 0 .. Timeout, o \in Outcome :
        /\ loop = "probing"
        /\ age' = [AgedBy(d) EXCEPT ![target] = 0]
        /\ info' = [info EXCEPT ![target] = parse_asu_output(o)]
        /\ data' = Graft(info')
        /\ loop' = IF o = "no answer" THEN "done" ELSE "sleeping"
        /\ wait' = Gap /\ target' = NoInfo
        /\ UNCHANGED <<phase, scan, success>>
ProbeDone ==
    \E d \in 0 .. Timeout, o \in Outcome :
        /\ loop = "probing"
        /\ age' = [AgedBy(d) EXCEPT ![target] = 0]
        /\ info' = [info EXCEPT ![target] = parse_asu_output(o)]
        /\ data' = Graft(info')
        /\ loop' = "sleeping" /\ wait' = Gap /\ target' = NoInfo
        /\ UNCHANGED <<phase, scan, success>>

-----------------------------------------------------------------------------
(* Scans and shutdown *)

ScanStart ==
    /\ phase = "up" /\ scan = "idle"
    /\ scan' = "running"
    /\ UNCHANGED <<phase, timer, age, info, data, success>>

\* The payload takes the cache as it is when the scan ends.
ScanDone ==
    /\ scan = "running"
    /\ scan' = "idle"
    /\ data' = info
    /\ success' = TRUE
    /\ UNCHANGED <<phase, timer, age, info>>

\* UpdateFailed: the data of the last scan stays.
ScanFails ==
    /\ scan = "running"
    /\ scan' = "idle"
    /\ success' = FALSE
    /\ UNCHANGED <<phase, timer, age, info, data>>

\* A fault: the task is not cancelled.
Shutdown_LeavesTask ==
    /\ phase = "up"
    /\ phase' = "stopping"
    /\ UNCHANGED <<timer, age, info, data, scan, success>>

\* async_shutdown cancels the loop in its sleep or probe, and awaits it ...
Shutdown ==
    /\ phase = "up"
    /\ phase' = "stopping"
    /\ loop' = "done" /\ wait' = 0 /\ target' = NoInfo
    /\ UNCHANGED <<age, info, data, scan, success>>

\* ... then clears the cache.
ShutdownDone ==
    /\ phase = "stopping"
    /\ phase' = "down"
    /\ age' = Unprobed /\ info' = Unprobed
    /\ UNCHANGED <<timer, data, scan, success>>

Next == Load \/ Wake \/ ProbeDone \/ ScanStart \/ ScanDone \/ ScanFails \/ Shutdown \/ ShutdownDone

\* asyncio wakes a sleeper, and every probe ends by its timeout.
Spec == Init /\ [][Next]_vars /\ WF_vars(Wake) /\ WF_vars(ProbeDone)

-----------------------------------------------------------------------------
(* Properties *)

MaxAge == Interval + MinSleep + (Cardinality(Host) - 1) * (Timeout + Gap)

\* The types, of which the proofs make use.
TypeOK ==
    /\ phase \in {"down", "up", "stopping"}
    /\ loop \in {"sleeping", "probing", "done"}
    /\ wait \in Nat
    /\ target \in Host \cup {NoInfo} /\ (target # NoInfo <=> loop = "probing")
    /\ age \in [Host -> Nat \cup {NoInfo}]
    /\ info \in [Host -> Info \cup {NoInfo}]
    /\ data \in [Host -> Info \cup {NoInfo}] \cup {NoInfo}
    /\ scan \in {"idle", "running"}
    /\ success \in BOOLEAN

\* Although the loop always serves the first host that is due, no firmware
\* information gets older than the interval by more than the probes of the other
\* hosts and one minimal sleep.
NoStarvation == \A h \in Host : age[h] # NoInfo => age[h] <= MaxAge

\* "The hot path must always re-emit data['asu'] from cache": whichever of a probe
\* and a scan ends first, no entity shows an older result than the cache holds.
BlockIsCache == phase = "up" /\ data # NoInfo => data = info

\* A shutdown leaves no task behind that would refill the cache it cleared.
QuietAfterShutdown == phase = "down" => loop = "done" /\ age = Unprobed /\ info = Unprobed

\* As long as the coordinator runs, every host is probed again and again.
EveryHostProbed == \A h \in Host : []<>(phase # "up" \/ target = h)
=============================================================================
