------------------------------ MODULE Presence ------------------------------
(***************************************************************************)
(* Client presence tracking of WrtsensorCoordinator: how a sequence of     *)
(* scans, each a noisy list of devices, becomes a debounced per-MAC state, *)
(* a log of connect/disconnect/roam/... events and a published device list,*)
(* across reloads, kills, failed saves and gateway outages.                *)
(*                                                                         *)
(* detect_events treats each MAC on its own, so one scan is a function     *)
(* from MACs to sightings.  Time is kept as ages: every timestamp of a     *)
(* StateEntry is the time elapsed since it, saturated at Horizon, where    *)
(* every comparison of the code has already been decided.                  *)
(***************************************************************************)
EXTENDS Integers

CONSTANTS
    Mac,            \* the MAC addresses that show up in scans
    MaybeAp,        \* MACs that can hold the lease of a configured AP
    Profile,        \* the attributes [ap, band, hostname, ip, ip6] a device row can carry
    Unknown,        \* an attribute that is the empty string
    NoEntry,        \* prev_state has no entry for the MAC
    Absent,         \* the scan lists no device with the MAC
    ScanInterval,   \* SCAN_INTERVAL, in units of the model's clock
    KeepSlack,      \* scans an unseen entry outlives its threshold (10)
    MaxAge,         \* STATE_MAX_AGE_DAYS
    Horizon,        \* ages saturate here
    ThresholdSecs,  \* the disconnect_threshold_s values a (re)load can find
    Gaps,           \* time from one scan to the next, shorter than ScanInterval when
                    \* a refresh is asked for (homeassistant.update_entity)
    Downtimes       \* time from a stop to the next start; a reload takes seconds

ASSUME ClockAssumption ==
    /\ ScanInterval \in Nat \ {0}
    /\ KeepSlack \in Nat /\ MaxAge \in Nat /\ Horizon \in Nat
    /\ MaxAge < Horizon /\ 2 * ScanInterval <= Horizon
    /\ ThresholdSecs \subseteq Nat
    /\ Gaps \subseteq Nat \ {0} /\ Downtimes \subseteq Nat \ {0}

VARIABLES
    phase,      \* "down", "fresh" (set up, first refresh due) or "running"
    secs,       \* _disconnect_threshold_s of the loaded entry
    prev,       \* _prev_state
    disk,       \* .netscan_prev_state.json
    published,  \* coordinator.data["devices"]: what each MAC is shown as
    success,    \* last_update_success of the coordinator
    appended,   \* <<mac, type>> of the events the last step put in _event_buffer
    \* History, read by the properties only:
    sinceScan,  \* age of the last scan that saw the gateway, whatever became of it
    sinceRush   \* age of the last such scan that came early: less than ScanInterval
                \* after the one before it, of this or an earlier coordinator

history == <<sinceScan, sinceRush>>
vars    == <<phase, secs, prev, disk, published, success, appended, history>>

-----------------------------------------------------------------------------
(* Data *)

UpEvents     == {"new_device", "connect", "ap_online"}
DownEvents   == {"disconnect", "ap_offline"}
ChangeEvents == {"roam", "band_change", "hostname_change", "ip_change", "ip6_change"}
EventType    == UpEvents \cup DownEvents \cup ChangeEvents

Age       == 0 .. Horizon
NoSession == -1                 \* first_seen = 0.0: the entry is not in a session
Never     == Horizon            \* a timestamp of 0.0, the epoch: older than any bound

\* Attributes of an entry: those of a row, or the Wi-Fi part of an older one.
Attr == [ap : {p.ap : p \in Profile}, band : {p.band : p \in Profile},
         hostname : {p.hostname : p \in Profile},
         ip : {p.ip : p \in Profile}, ip6 : {p.ip6 : p \in Profile}]

ASSUME ProfileAssumption == Profile \subseteq Attr

\* StateEntry, with its timestamps as ages.
Entry == [online : BOOLEAN, miss : Nat, first : Age \cup {NoSession}, last : Age,
          ts : [EventType -> Age], attr : Attr]

\* A device row after build_devices: raw reachability and attributes.
Sighting == [up : BOOLEAN, attr : Profile]
Seen     == [Mac -> Sighting \cup {Absent}]

ASSUME DistinctAssumption == NoEntry \notin Entry /\ Absent \notin Sighting

\* min_interval_s = update_interval * 2 and the miss threshold of __init__.
MinInterval      == 2 * ScanInterval
MissThreshold(s) == IF s \div ScanInterval > 1 THEN s \div ScanInterval ELSE 1
Thr              == MissThreshold(secs)

ASSUME HorizonAssumption == \A s \in ThresholdSecs : MissThreshold(s) * ScanInterval <= Horizon

Older(a, dt)  == IF a + dt > Horizon THEN Horizon ELSE a + dt
Aged(e, dt)   ==
    IF e = NoEntry THEN NoEntry
    ELSE [e EXCEPT !.first = IF @ = NoSession THEN NoSession ELSE Older(@, dt),
                   !.last  = Older(@, dt),
                   !.ts    = [k \in EventType |-> Older(@[k], dt)]]
AgedAll(st, dt) == [m \in Mac |-> Aged(st[m], dt)]

Empty     == [m \in Mac |-> NoEntry]
Online(e) == e # NoEntry /\ e.online
IsUp(s)   == s # Absent /\ s.up

-----------------------------------------------------------------------------
(* detect_events, for one MAC with entry e and sighting s *)

\* A fault: one rate limit for events of all types.
CanEmit_AnyType(k, e) == e = NoEntry \/ \A j \in EventType : e.ts[j] >= MinInterval
CanEmit(k, e) == e = NoEntry \/ e.ts[k] >= MinInterval

NewMiss_Stuck(e)      == 1                                     \* a fault
NewMiss(e)            == IF e = NoEntry THEN 1 ELSE e.miss + 1
Arrives(e, s, thr)    == IsUp(s) /\ (e = NoEntry \/ (~e.online /\ e.miss >= thr))
Departs_Early(e, s, thr) == ~IsUp(s) /\ Online(e) /\ NewMiss(e) >= thr - 1      \* a fault
Departs_Again(e, s, thr) == ~IsUp(s) /\ e # NoEntry /\ NewMiss(e) >= thr       \* a fault
Departs(e, s, thr)    == ~IsUp(s) /\ Online(e) /\ NewMiss(e) >= thr
StaysOnline_OffByOne(e, thr) == Online(e) /\ NewMiss(e) <= thr                \* a fault
StaysOnline(e, thr)   == Online(e) /\ NewMiss(e) < thr

UpType(e, isAp) == IF isAp THEN "ap_online" ELSE IF e = NoEntry THEN "new_device" ELSE "connect"
DownType(isAp)  == IF isAp THEN "ap_offline" ELSE "disconnect"

PresenceDue(e, s, isAp, thr) ==
    {k \in {UpType(e, isAp)} : Arrives(e, s, thr)} \cup {k \in {DownType(isAp)} : Departs(e, s, thr)}

Differs(f, e, s) == s.attr[f] # Unknown /\ e.attr[f] # Unknown /\ s.attr[f] # e.attr[f]

\* A fault: changes of an offline entry are news, too.
ChangesDue_Offline(e, s) ==
    IF e = NoEntry \/ s = Absent THEN {}
    ELSE {k \in {"roam"} : IsUp(s) /\ Differs("ap", e, s)}
         \cup {k \in {"hostname_change"} : IsUp(s) /\ Differs("hostname", e, s)}
         \cup {k \in {"ip_change"} : Differs("ip", e, s)}

\* Roam, band and hostname changes are looked for in a raw-online device whose
\* entry is online, address changes in every listed device with an entry.
ChangesDue(e, s) ==
    IF e = NoEntry \/ s = Absent THEN {}
    ELSE {k \in {"roam"} : IsUp(s) /\ e.online /\ Differs("ap", e, s)}
         \cup {k \in {"band_change"} : IsUp(s) /\ e.online /\ s.attr.ap = e.attr.ap /\ Differs("band", e, s)}
         \cup {k \in {"hostname_change"} : IsUp(s) /\ e.online /\ Differs("hostname", e, s)}
         \cup {k \in {"ip_change"} : Differs("ip", e, s)}
         \cup {k \in {"ip6_change"} : Differs("ip6", e, s)}

Emitted(e, s, isAp, thr) ==
    {k \in PresenceDue(e, s, isAp, thr) \cup ChangesDue(e, s) : CanEmit(k, e)}

\* A fault: the new timestamps hold only the event types of this scan.
CarryTs_OnlyEmitted(e, emitted) == [k \in emitted |-> 0]

CarryTs(e, emitted) ==
    [k \in EventType |-> IF k \in emitted THEN 0 ELSE IF e = NoEntry THEN Never ELSE e.ts[k]]

UpEntry(e, s, ts) ==
    [online |-> TRUE, miss |-> 0,
     first |-> IF e = NoEntry THEN 0 ELSE IF e.first = NoSession THEN 0 ELSE e.first,
     last |-> 0, ts |-> ts, attr |-> s.attr]

\* A fault: the start of the session survives the disconnect.
DownEntry_KeepsFirst(e, s, thr, ts) ==
    [online |-> StaysOnline(e, thr), miss |-> NewMiss(e),
     first |-> IF e = NoEntry THEN NoSession ELSE e.first,
     last |-> IF e = NoEntry THEN Never ELSE e.last, ts |-> ts, attr |-> s.attr]

\* Listed but not reachable; a device still online keeps its Wi-Fi association.
DownEntry(e, s, thr, ts) ==
    [online |-> StaysOnline(e, thr), miss |-> NewMiss(e),
     first |-> IF e = NoEntry \/ Departs(e, s, thr) THEN NoSession ELSE e.first,
     last |-> IF e = NoEntry THEN Never ELSE e.last, ts |-> ts,
     attr |-> IF StaysOnline(e, thr)
              THEN [s.attr EXCEPT !.ap = e.attr.ap, !.band = e.attr.band] ELSE s.attr]

\* Not listed at all: forgotten KeepSlack scans after going offline.
UnseenEntry(e, thr, ts) ==
    IF e = NoEntry THEN NoEntry
    ELSE IF Departs(e, Absent, thr)
         THEN [e EXCEPT !.online = FALSE, !.miss = NewMiss(e), !.first = NoSession, !.ts = ts]
         ELSE IF NewMiss(e) < thr + KeepSlack
              THEN [e EXCEPT !.online = StaysOnline(e, thr), !.miss = NewMiss(e), !.ts = ts]
              ELSE NoEntry

NextEntry(e, s, isAp, thr) ==
    LET ts == CarryTs(e, Emitted(e, s, isAp, thr))
    IN  IF s = Absent THEN UnseenEntry(e, thr, ts)
        ELSE IF s.up THEN UpEntry(e, s, ts) ELSE DownEntry(e, s, thr, ts)

Prune(e) == IF e # NoEntry /\ (e.online \/ e.last <= MaxAge) THEN e ELSE NoEntry

-----------------------------------------------------------------------------
(* What a scan computes before anything of it takes effect *)

Detected(seen, aps, dt) ==
    [m \in Mac |-> Prune(NextEntry(Aged(prev[m], dt), seen[m], m \in aps, Thr))]

Events(seen, aps, dt) ==
    UNION {{m} \X Emitted(Aged(prev[m], dt), seen[m], m \in aps, Thr) : m \in Mac}

RawStatus(s) == IF s = Absent THEN "absent" ELSE IF s.up THEN "online" ELSE "offline"
CachedStatus_AnyEntry(e) == IF e = NoEntry THEN "absent" ELSE "online"    \* a fault
CachedStatus(e) == IF e = NoEntry THEN "absent" ELSE IF e.online THEN "online" ELSE "offline"

\* The first refresh of a coordinator follows its setup at once.
Due(dt) == \/ phase = "fresh" /\ dt = 0
           \/ phase = "running" /\ dt \in Gaps

\* What the next scan makes of sinceRush if it comes after dt.
RushAge(dt) == IF Older(sinceScan, dt) < ScanInterval THEN 0 ELSE Older(sinceRush, dt)

Observed(dt) == sinceScan' = 0 /\ sinceRush' = RushAge(dt)
Passed(dt)   == sinceScan' = Older(sinceScan, dt) /\ sinceRush' = Older(sinceRush, dt)

\* The coordinator object and everything it holds in memory are gone.
Unloaded ==
    /\ phase' = "down"
    /\ prev' = Empty
    /\ published' = [m \in Mac |-> "absent"]
    /\ success' = FALSE
    /\ appended' = {}
    /\ UNCHANGED secs

\* A refresh raised: entities go unavailable, data stays.  A failed first
\* refresh is ConfigEntryNotReady: the set-up is retried with a new coordinator.
RefreshFails(st) ==
    IF phase = "fresh" THEN Unloaded
    ELSE /\ prev' = st
         /\ success' = FALSE
         /\ appended' = {}
         /\ UNCHANGED <<phase, secs, published>>

-----------------------------------------------------------------------------
(* Actions *)

Init ==
    /\ phase = "down"
    /\ secs \in ThresholdSecs
    /\ prev = Empty
    /\ disk = Empty
    /\ published = [m \in Mac |-> "absent"]
    /\ success = FALSE
    /\ appended = {}
    /\ sinceScan = Horizon /\ sinceRush = Horizon

\* A new coordinator reads the state file.
Start ==
    \E dt \in Downtimes, s \in ThresholdSecs :
        /\ phase = "down"
        /\ phase' = "fresh"
        /\ secs' = s
        /\ prev' = AgedAll(disk, dt)
        /\ disk' = AgedAll(disk, dt)
        /\ Passed(dt)
        /\ UNCHANGED <<published, success, appended>>

\* A scan that reaches the gateway and saves: memory, file, log, data.
Scan ==
    \E seen \in Seen, aps \in SUBSET MaybeAp, dt \in Gaps \cup {0} :
        /\ Due(dt)
        /\ phase' = "running"
        /\ prev' = Detected(seen, aps, dt)
        /\ disk' = prev'
        /\ appended' = Events(seen, aps, dt)
        /\ published' = [m \in Mac |-> RawStatus(seen[m])]
        /\ success' = TRUE
        /\ Observed(dt)
        /\ UNCHANGED secs

\* _save_state assigns _prev_state, then writing the file raises: the events
\* of the scan are never appended.
ScanSaveFails ==
    \E seen \in Seen, aps \in SUBSET MaybeAp, dt \in Gaps \cup {0} :
        /\ Due(dt)
        /\ RefreshFails(Detected(seen, aps, dt))
        /\ disk' = AgedAll(disk, dt)
        /\ Observed(dt)

\* The scan is cut off between the write of the file and the append.
ScanKilled ==
    \E seen \in Seen, aps \in SUBSET MaybeAp, dt \in Gaps \cup {0} :
        /\ Due(dt)
        /\ disk' = Detected(seen, aps, dt)
        /\ Unloaded
        /\ Observed(dt)

\* Gateway unreachable with a state to serve: a partial payload from it.
ScanPartial ==
    \E dt \in Gaps \cup {0} :
        /\ Due(dt)
        /\ prev # Empty
        /\ phase' = "running"
        /\ prev' = AgedAll(prev, dt)
        /\ disk' = AgedAll(disk, dt)
        /\ published' = [m \in Mac |-> CachedStatus(prev[m])]
        /\ success' = TRUE
        /\ appended' = {}
        /\ Passed(dt)
        /\ UNCHANGED secs

\* Gateway unreachable and nothing to serve: UpdateFailed.
ScanUnreachable ==
    \E dt \in Gaps \cup {0} :
        /\ Due(dt)
        /\ prev = Empty
        /\ RefreshFails(Empty)
        /\ disk' = AgedAll(disk, dt)
        /\ Passed(dt)

\* Unload, reload, restart or crash between scans.
Stop ==
    /\ phase # "down"
    /\ Unloaded
    /\ UNCHANGED <<disk, history>>

\* The state file lives in /dev/shm: a reboot of the host loses it.
Reboot ==
    /\ phase = "down"
    /\ disk # Empty
    /\ disk' = Empty
    /\ UNCHANGED <<phase, secs, prev, published, success, appended, history>>

Next == Start \/ Scan \/ ScanSaveFails \/ ScanKilled \/ ScanPartial \/ ScanUnreachable \/ Stop \/ Reboot

\* Home Assistant sets the entry up again whenever it is down; the gateway is
\* reachable and the file system writable again and again.
Fairness == WF_vars(Start) /\ SF_vars(Scan)

Spec == Init /\ [][Next]_vars
FairSpec == Spec /\ Fairness

-----------------------------------------------------------------------------
(* Properties *)

State == [Mac -> Entry \cup {NoEntry}]

\* Every variable has the type the comments above give it.
TypeOK ==
    /\ phase \in {"down", "fresh", "running"}
    /\ secs \in ThresholdSecs
    /\ prev \in State
    /\ disk \in State
    /\ published \in [Mac -> {"absent", "offline", "online"}]
    /\ success \in BOOLEAN
    /\ appended \subseteq Mac \X EventType
    /\ sinceScan \in Age /\ sinceRush \in Age

\* "miss < threshold -> device is still considered online (temporarily
\* absent)", and only then: what detect_events takes for granted when it lets
\* an offline entry with few misses come back without a connect event.
Debounced(st) == \A m \in Mac : st[m] # NoEntry => (st[m].online <=> st[m].miss < Thr)
BelowThresholdMeansOnline == phase # "down" => Debounced(prev)

\* A disconnect or ap_offline event is recorded of a device whose last answer is
\* at least the threshold old, rounded down to whole scans; any later answer has
\* reset the count.  Only a scan that came early since that answer, after a
\* reload say, can shorten the time.
DisconnectAfterThreshold ==
    \A m \in Mac : \A k \in DownEvents :
        <<m, k>> \in appended /\ prev[m] # NoEntry =>
            prev[m].last >= Thr * ScanInterval \/ sinceRush < prev[m].last

\* The per-type rate limit of _can_emit is there for flapping attributes.  It
\* swallows a due connect or disconnect, whatever the next scan sees, only if that
\* scan or one less than min_interval_s before it came early.
NoPresenceEventSuppressed ==
    \A m \in Mac, dt \in Gaps \cup {0}, s \in Sighting \cup {Absent}, isAp \in BOOLEAN :
        phase # "down" /\ Due(dt) /\ RushAge(dt) >= MinInterval =>
            LET e == Aged(prev[m], dt)
            IN  \A k \in PresenceDue(e, s, isAp, Thr) : CanEmit(k, e)

\* A session, whose start first_seen gives the duration of the next disconnect
\* event, began with the latest of the entry's online events, also after reloads
\* and failed saves.  If the rate limit swallowed that event, the one before it is
\* less than min_interval_s older, and a scan came early no longer before.
SessionBeganWithEvent ==
    \A m \in Mac : Online(prev[m]) =>
        LET e == prev[m]
        IN  /\ e.first # NoSession
            /\ \A k \in UpEvents : e.ts[k] >= e.first
            /\ \E k \in UpEvents :
                  \/ e.ts[k] = e.first
                  \/ e.ts[k] < e.first + MinInterval /\ sinceRush < e.first + MinInterval

\* What the entities show and what the event log is computed from agree: a
\* device shown online is in a session, one that answered the last scan is
\* shown online, and a partial payload never brings a departed device back.
PublishedMatchesState ==
    success => \A m \in Mac :
        /\ published[m] = "online" => Online(prev[m])
        /\ Online(prev[m]) /\ prev[m].miss = 0 => published[m] = "online"

\* Roam, band and hostname changes are news about a running session: they never
\* come with a connect or disconnect of the device, nor while it is offline.
ChangesWithinSession ==
    [][\A m \in Mac, k \in {"roam", "band_change", "hostname_change"} :
         <<m, k>> \in appended' =>
             /\ Online(prev[m]) /\ Online(prev'[m])
             /\ \A p \in UpEvents \cup DownEvents : <<m, p>> \notin appended']_vars

\* A device that stops answering is eventually offline in the saved state, in
\* spite of restarts, failed saves and outages between the scans that count.
DepartureNoticed ==
    \A m \in Mac : []<>(\/ ~Online(disk[m]) \/ disk[m].miss = 0
                        \/ Online(prev[m]) /\ prev[m].miss = 0)

\* With one threshold, presence tracking is a debouncer: the entry of an online
\* device counts its missed scans, that of any other (kept, dropped or pruned)
\* stands for "gone"; the rate limit may bite when scans come too fast.
FixedThr    == MissThreshold(CHOOSE s \in ThresholdSecs : TRUE)
Missed(st)  == [m \in Mac |-> IF Online(st[m]) THEN st[m].miss ELSE FixedThr]
Logged(K)   == {m \in Mac : \E k \in K : <<m, k>> \in appended}

Abstract == INSTANCE Debounce WITH
    Thr <- FixedThr, running <- phase # "down", count <- Missed(prev), saved <- Missed(disk),
    arrived <- Logged(UpEvents), departed <- Logged(DownEvents), hasty <- sinceRush < MinInterval

ImplementsDebounce == Abstract!Spec
=============================================================================
