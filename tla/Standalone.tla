----------------------------- MODULE Standalone -----------------------------
(***************************************************************************)
(* diagnose.py, the scanner of a manual installation: a process that Home  *)
(* Assistant starts once a minute and kills when it takes too long.        *)
(* Whatever a run remembers is in files it replaces one after the other;   *)
(* a kill can come between any two of them.                                *)
(*                                                                         *)
(* A run reads its files before it writes them and nobody else writes      *)
(* them, so all it is going to write is computed when the gateway has      *)
(* answered (run); step is the write that comes next.                      *)
(***************************************************************************)
EXTENDS Integers, FiniteSets, Sequences, SequencesExt

CONSTANTS
    Mac,            \* the devices
    Wan,            \* the subject of WAN events, which carry the gateway's MAC
    Addr, NoAddr,   \* WAN addresses; the WAN is down
    NoFile,         \* the file does not exist
    NoEntry,        \* the state file has no entry for the MAC
    NoRun,          \* no run is under way
    Thr,            \* DISCONNECT_MISS_THRESHOLD
    KeepSlack,      \* misses an unlisted entry outlives the threshold (10)
    MaxLines,       \* MAX_EVENT_LINES
    Before,         \* what the byte counters can stand at to begin with
    Burst, Cap,     \* amounts of traffic; bound on the traffic of a behaviour
    LogBound        \* bound on the log a killed run leaves unpruned

ASSUME NamesAssumption ==
    /\ Wan \notin Mac /\ NoAddr \notin Addr /\ NoFile \notin Addr \cup {NoAddr} \cup Int
    /\ NoEntry \notin [online : BOOLEAN, miss : Nat, old : BOOLEAN]
ASSUME BoundsAssumption ==
    /\ IsFiniteSet(Mac) /\ Thr \in Nat \ {0} /\ KeepSlack \in Nat /\ MaxLines \in Nat \ {0} /\ LogBound \in Nat
    /\ Before \subseteq Nat /\ Burst \subseteq Nat \ {0} /\ Cap \in Nat

VARIABLES
    state,      \* .netscan_prev_state.json
    wanAddr,    \* .netscan_wan_state
    log,        \* netscan_events.json
    wanBw,      \* .netscan_bw_state: last counter and total
    sample,     \* .netscan_device_bw: last counter of a device
    accum,      \* .netscan_device_bw_accum: its total
    step,       \* the write of the current run that comes next, 0 between runs
    run,        \* the state file that it has read (was), and what it will write
    count,      \* the byte counter of the device, and of the WAN port it alone uses
    real,       \* traffic since Home Assistant's host booted
    first,      \* the counter at the first WAN reading since then
    clean,      \* the counter has not been reset since that reading
    lost        \* subjects whose latest arrival or departure went down with a run

files == <<state, wanAddr, log, wanBw, sample, accum>>
meter == <<count, real, first, clean>>
vars  == <<state, wanAddr, log, wanBw, sample, accum, step, run, count, real, first, clean, lost>>

Subject == Mac \cup {Wan}
Sighting == {"up", "down", "absent"}

-----------------------------------------------------------------------------
(* detect_events and prune_old_state, for one device *)

\* An entry has its status, its misses, and old: its last_seen is further back
\* than STATE_MAX_AGE_DAYS.
Online(e)  == e # NoEntry /\ e.online

\* More misses than KeepSlack over the threshold make no difference.
NewMiss(e) == IF e = NoEntry THEN 1 ELSE IF e.miss < Thr + KeepSlack THEN e.miss + 1 ELSE e.miss
Arrives(e, s) == s = "up" /\ (e = NoEntry \/ (~e.online /\ e.miss >= Thr))

\* A fault: a device departs one run late.
Departs_Late(e, s) == s # "up" /\ Online(e) /\ NewMiss(e) > Thr

Departs(e, s) == s # "up" /\ Online(e) /\ NewMiss(e) >= Thr

NextEntry(e, s) ==
    IF s = "up" THEN [online |-> TRUE, miss |-> 0, old |-> FALSE]
    ELSE IF e = NoEntry
         THEN IF s = "down" THEN [online |-> FALSE, miss |-> 1, old |-> TRUE] ELSE NoEntry
         ELSE IF s = "absent" /\ ~Departs(e, s) /\ NewMiss(e) >= Thr + KeepSlack THEN NoEntry
         ELSE [online |-> e.online /\ NewMiss(e) < Thr, miss |-> NewMiss(e), old |-> e.old]

Prune(e) == IF e # NoEntry /\ (e.online \/ ~e.old) THEN e ELSE NoEntry

\* Roaming, renaming and new addresses of a device that is listed and known;
\* Presence has them in detail.
Changes(seen) == {m \in Mac : state[m] # NoEntry /\ seen[m] # "absent"}

DeviceEvents(seen, changed) ==
    {<<m, "up">> : m \in {x \in Mac : Arrives(state[x], seen[x])}}
    \cup {<<m, "down">> : m \in {x \in Mac : Departs(state[x], seen[x])}}
    \cup (changed \X {"change"})

-----------------------------------------------------------------------------
(* detect_wan_events *)

WanEvents(a) ==
    IF wanAddr \in {NoFile, a} THEN {}
    ELSE {<<Wan, IF wanAddr = NoAddr THEN "up" ELSE IF a = NoAddr THEN "down" ELSE "change">>}

PresenceOf(events) == {e[1] : e \in {x \in events : x[2] # "change"}}

-----------------------------------------------------------------------------
(* compute_wan_rates and compute_device_rates *)

Meter == [count : Nat, total : Nat]

\* A fault: counters that could not be read are taken for zero.
NextWanBw_Zero(readable) ==
    IF readable THEN IF wanBw = NoFile THEN [count |-> count, total |-> 0]
                     ELSE [count |-> count, total |-> wanBw.total + (IF count >= wanBw.count THEN count - wanBw.count ELSE 0)]
    ELSE IF wanBw = NoFile THEN NoFile ELSE [wanBw EXCEPT !.count = 0]

NextWanBw(readable) ==
    IF ~readable THEN wanBw
    ELSE IF wanBw = NoFile THEN [count |-> count, total |-> 0]
    ELSE [count |-> count,
          total |-> wanBw.total + (IF count >= wanBw.count THEN count - wanBw.count ELSE 0)]

\* Nothing is credited if the samples are too close or too far apart, or the
\* rate would be implausible.
Credited(plausible) ==
    IF plausible /\ sample # NoFile /\ count >= sample THEN count - sample ELSE 0

-----------------------------------------------------------------------------
(* A run *)

\* Faults: the totals are written before the sample they continue from, the
\* events before the state they come from.
WriteOrder_TotalsFirst ==
    <<"wan rates", "device totals", "device sample", "wan address", "state", "log", "prune">>
WriteOrder_LogFirst ==
    <<"wan rates", "device sample", "device totals", "wan address", "log", "state", "prune">>

WriteOrder == <<"wan rates", "device sample", "device totals", "wan address", "state", "log", "prune">>

\* The gateway has answered.  (A run it does not answer prints the remembered
\* devices and leaves every file alone.)
Begin ==
    \E seen \in [Mac -> Sighting], a \in Addr \cup {NoAddr}, readable, plausible \in BOOLEAN :
        \E changed \in SUBSET Changes(seen) :
            /\ step = 0
            /\ run' = [was |-> state, wanBw |-> NextWanBw(readable), sample |-> count,
                       accum |-> accum + Credited(plausible), wanAddr |-> a,
                       state |-> [m \in Mac |-> Prune(NextEntry(state[m], seen[m]))],
                       events |-> WanEvents(a) \cup DeviceEvents(seen, changed)]
            /\ step' = 1
            /\ first' = IF wanBw = NoFile /\ readable THEN count ELSE first
            /\ clean' = ((wanBw = NoFile /\ readable) \/ clean)
            /\ UNCHANGED <<files, count, real, lost>>

Writes(file) ==
    /\ step # 0 /\ WriteOrder[step] = file
    /\ IF step < Len(WriteOrder) THEN step' = step + 1 /\ UNCHANGED run
       ELSE step' = 0 /\ run' = NoRun
    /\ UNCHANGED meter

WriteWanRates ==
    /\ Writes("wan rates") /\ wanBw' = run.wanBw
    /\ UNCHANGED <<state, wanAddr, log, sample, accum, lost>>
WriteDeviceSample ==
    /\ Writes("device sample") /\ sample' = run.sample
    /\ UNCHANGED <<state, wanAddr, log, wanBw, accum, lost>>
WriteDeviceTotals ==
    /\ Writes("device totals") /\ accum' = run.accum
    /\ UNCHANGED <<state, wanAddr, log, wanBw, sample, lost>>
WriteWanAddress ==
    /\ Writes("wan address") /\ wanAddr' = run.wanAddr
    /\ UNCHANGED <<state, log, wanBw, sample, accum, lost>>
SaveState ==
    /\ Writes("state") /\ state' = run.state
    /\ UNCHANGED <<wanAddr, log, wanBw, sample, accum, lost>>

\* WAN events come first, the order of the others is that of the devices' rows.
AppendEvents ==
    /\ Writes("log")
    /\ \E order \in SetToSeqs(run.events) :
          /\ \A i \in DOMAIN order : order[i][1] = Wan => i = 1
          /\ log' = log \o [i \in DOMAIN order |-> [sub |-> order[i][1], ev |-> order[i][2], old |-> FALSE]]
    /\ lost' = lost \ PresenceOf(run.events)
    /\ UNCHANGED <<state, wanAddr, wanBw, sample, accum>>

Young(e) == ~e.old

\* The loop over the lines: kept[n] has the young ones of the first n.
OnlyYoung(lines) ==
    LET kept[n \in 0 .. Len(lines)] ==
            IF n = 0 THEN <<>>
            ELSE IF Young(lines[n]) THEN Append(kept[n - 1], lines[n]) ELSE kept[n - 1]
    IN  kept[Len(lines)]

\* Events past EVENT_RETENTION_DAYS go in the first minute of an hour, lines
\* over the cap always.
PruneEvents ==
    \E hourly \in BOOLEAN :
        LET kept == IF hourly THEN OnlyYoung(log) ELSE log
        IN  /\ Writes("prune")
            /\ log' = SubSeq(kept, IF Len(kept) > MaxLines THEN Len(kept) - MaxLines + 1 ELSE 1, Len(kept))
            /\ UNCHANGED <<state, wanAddr, wanBw, sample, accum, lost>>

-----------------------------------------------------------------------------
(* The surroundings *)

\* command_timeout, or a stop of Home Assistant.  Events of subjects whose
\* file is written are not found again.
Kill ==
    LET left    == {WriteOrder[i] : i \in step .. Len(WriteOrder)}
        settled == {s \in Subject : (IF s = Wan THEN "wan address" ELSE "state") \notin left}
    IN  /\ step # 0
        /\ left = {"prune"} => Len(log) <= LogBound
        /\ step' = 0 /\ run' = NoRun
        /\ lost' = IF "log" \in left THEN lost \cup (PresenceOf(run.events) \cap settled) ELSE lost
        /\ UNCHANGED <<files, meter>>

Traffic ==
    \E b \in Burst :
        /\ real + b <= Cap /\ count + b <= Cap
        /\ count' = count + b /\ real' = real + b
        /\ UNCHANGED <<files, step, run, first, clean, lost>>

\* The gateway reboots.
CounterReset ==
    /\ count > 0
    /\ count' = 0 /\ clean' = FALSE
    /\ UNCHANGED <<files, step, run, real, first, lost>>

\* A week or a month without a run.
DaysPass ==
    \E month \in BOOLEAN :
        /\ step = 0
        /\ state' = [m \in Mac |-> IF state[m] = NoEntry THEN NoEntry ELSE [state[m] EXCEPT !.old = TRUE]]
        /\ log' = IF month THEN [i \in DOMAIN log |-> [log[i] EXCEPT !.old = TRUE]] ELSE log
        /\ UNCHANGED <<wanAddr, wanBw, sample, accum, step, run, meter, lost>>

Init ==
    /\ state = [m \in Mac |-> NoEntry] /\ wanAddr = NoFile /\ log = <<>>
    /\ wanBw = NoFile /\ sample = NoFile /\ accum = 0
    /\ step = 0 /\ run = NoRun
    /\ count \in Before /\ real = 0 /\ first = 0 /\ clean = FALSE /\ lost = {}

\* The host of Home Assistant reboots: /dev/shm is empty.
Reboot ==
    /\ step = 0
    /\ state' = [m \in Mac |-> NoEntry] /\ wanAddr' = NoFile /\ log' = <<>>
    /\ wanBw' = NoFile /\ sample' = NoFile /\ accum' = 0
    /\ real' = 0 /\ first' = 0 /\ clean' = FALSE /\ lost' = {}
    /\ UNCHANGED <<step, run, count>>

Next ==
    \/ Begin \/ WriteWanRates \/ WriteDeviceSample \/ WriteDeviceTotals \/ WriteWanAddress
    \/ SaveState \/ AppendEvents \/ PruneEvents
    \/ Kill \/ Traffic \/ CounterReset \/ DaysPass \/ Reboot

Spec == Init /\ [][Next]_vars

-----------------------------------------------------------------------------
(* Properties *)

\* Between runs, the latest arrival or departure in the event log is the
\* status that the state files give the device or the WAN, also when runs
\* were killed half way, unless the kill took just that event.
PresenceEvents(s) == {i \in DOMAIN log : log[i].sub = s /\ log[i].ev # "change"}
LogMatchesFiles ==
    step = 0 => \A s \in Subject \ lost : \A i \in PresenceEvents(s) :
        (\A j \in PresenceEvents(s) : j <= i) =>
            log[i].ev = (IF s = Wan THEN IF wanAddr = NoAddr THEN "down" ELSE "up"
                         ELSE IF Online(state[s]) THEN "up" ELSE "down")

\* No run, killed or not, credits a device twice with the same traffic: a
\* total is never ahead of what was really received.
NeverOvercounted == accum <= real

\* "totals in bytes since first-seen timestamp": readings that fail, long
\* gaps and kills lose nothing of the WAN total.
WanTotalExact == wanBw # NoFile /\ clean => wanBw.total = wanBw.count - first

-----------------------------------------------------------------------------
(* The abstract specification *)

\* The script keeps the promise of the integration, though a scan changes two
\* files: reading the state is recalling, a scan is over when its events are in
\* the log, and a kill between the two writes makes it one that only the next
\* run knows of.  What the log's last lines say is what is announced.  The script
\* has no rate limit, so it is never in haste.
Misses(st) == [m \in Mac |-> IF Online(st[m]) THEN st[m].miss ELSE Thr]
Ahead == IF step = 0 THEN "none" ELSE WriteOrder[step]
Stored     == Misses(IF Ahead = "log" THEN run.was ELSE state)
Logged(ev) ==
    IF Ahead # "prune" THEN {}
    ELSE {m \in Mac : \E i \in DOMAIN log :
             i > Len(log) - Cardinality(run.events) /\ log[i].sub = m /\ log[i].ev = ev}

Abstract == INSTANCE Debounce WITH
    running <- step # 0, count <- IF step = 0 THEN [m \in Mac |-> Thr] ELSE Stored, saved <- Stored,
    arrived <- Logged("up"), departed <- Logged("down"), hasty <- FALSE

ImplementsDebounce == Abstract!Spec
=============================================================================
