--------------------------- MODULE PresenceProofs ---------------------------
(***************************************************************************)
(* What Presence guarantees for every set of MACs, every interval, bound   *)
(* and threshold: types, debouncing, the rate limit, change events and the *)
(* published list, sessions, disconnects, and the refinement of Debounce.  *)
(***************************************************************************)
EXTENDS Presence, TLAPS

EntryOrNone    == Entry \cup {NoEntry}
SightingOrNone == Sighting \cup {Absent}

-----------------------------------------------------------------------------
(* Operators on one entry *)

\* The miss threshold computed in __init__ is at least one scan.
LEMMA MissThresholdType ==
    ASSUME NEW s \in Nat PROVE MissThreshold(s) \in Nat \ {0}
  <1>1. s \div ScanInterval \in Int
    BY ClockAssumption
  <1>2. QED
    BY <1>1 DEF MissThreshold

LEMMA OlderAge ==
    ASSUME NEW a \in Age, NEW dt \in Nat
    PROVE  Older(a, dt) \in Age /\ Older(a, dt) >= a
  BY ClockAssumption DEF Older, Age

\* RushAge, for any age a of the last scan and r of the last early one.
Rush(a, r, dt) == IF Older(a, dt) < ScanInterval THEN 0 ELSE Older(r, dt)

\* Ageing an entry touches its timestamps only.
LEMMA AgedEntry ==
    ASSUME NEW e \in EntryOrNone, NEW dt \in Nat
    PROVE  /\ Aged(e, dt) \in EntryOrNone
           /\ (Aged(e, dt) = NoEntry) <=> (e = NoEntry)
           /\ e # NoEntry => Aged(e, dt).online = e.online /\ Aged(e, dt).miss = e.miss
  <1>1. CASE e = NoEntry
    BY <1>1 DEF Aged, EntryOrNone
  <1>2. CASE e # NoEntry
    <2>1. e \in Entry
      BY <1>2 DEF EntryOrNone
    <2> DEFINE first == IF e.first = NoSession THEN NoSession ELSE Older(e.first, dt)
               ts    == [k \in EventType |-> Older(e.ts[k], dt)]
               a     == [e EXCEPT !.first = first, !.last = Older(e.last, dt), !.ts = ts]
    <2>2. Aged(e, dt) = a
      BY <1>2 DEF Aged
    <2>3. first \in Age \cup {NoSession}
      BY <2>1, OlderAge DEF Entry
    <2>4. Older(e.last, dt) \in Age
      BY <2>1, OlderAge DEF Entry
    <2>5. ts \in [EventType -> Age]
      <3>1. ASSUME NEW k \in EventType PROVE Older(e.ts[k], dt) \in Age
        BY <2>1, OlderAge DEF Entry
      <3>2. QED BY <3>1
    <2>6. a \in Entry /\ a.online = e.online /\ a.miss = e.miss
      <3> HIDE DEF first, ts
      <3>1. QED BY <2>1, <2>3, <2>4, <2>5 DEF Entry
    <2>7. QED
      BY <1>2, <2>2, <2>6, DistinctAssumption DEF EntryOrNone
  <1>3. QED BY <1>1, <1>2

LEMMA CarryTsType ==
    ASSUME NEW e \in EntryOrNone, NEW K
    PROVE  CarryTs(e, K) \in [EventType -> Age]
  BY ClockAssumption DEF CarryTs, EntryOrNone, Entry, Age, Never

LEMMA DownEntryType ==
    ASSUME NEW e \in EntryOrNone, NEW s \in Sighting, NEW thr \in Nat \ {0},
           NEW ts \in [EventType -> Age]
    PROVE  DownEntry(e, s, thr, ts) \in Entry
  <1>1. s.attr \in Attr
    BY ProfileAssumption DEF Sighting
  <1>2. StaysOnline(e, thr) => [s.attr EXCEPT !.ap = e.attr.ap, !.band = e.attr.band] \in Attr
    BY <1>1 DEF StaysOnline, Online, EntryOrNone, Entry, Attr
  <1>3. StaysOnline(e, thr) \in BOOLEAN /\ NewMiss(e) \in Nat
    BY DEF StaysOnline, Online, NewMiss, EntryOrNone, Entry
  <1>4. (IF e = NoEntry \/ Departs(e, s, thr) THEN NoSession ELSE e.first) \in Age \cup {NoSession}
    BY DEF EntryOrNone, Entry
  <1>5. (IF e = NoEntry THEN Never ELSE e.last) \in Age
    BY ClockAssumption DEF EntryOrNone, Entry, Never, Age
  <1>6. QED BY <1>1, <1>2, <1>3, <1>4, <1>5 DEF DownEntry, Entry

\* detect_events gives every listed or remembered MAC a well-formed entry.
LEMMA NextEntryType ==
    ASSUME NEW e \in EntryOrNone, NEW s \in SightingOrNone, NEW isAp \in BOOLEAN,
           NEW thr \in Nat \ {0}
    PROVE  NextEntry(e, s, isAp, thr) \in EntryOrNone
  <1> DEFINE ts == CarryTs(e, Emitted(e, s, isAp, thr))
  <1>1. ts \in [EventType -> Age]
    BY CarryTsType
  <1> HIDE DEF ts
  <1>2. StaysOnline(e, thr) \in BOOLEAN
    BY DEF StaysOnline, Online, EntryOrNone, Entry
  <1>3. NewMiss(e) \in Nat
    BY DEF NewMiss, EntryOrNone, Entry
  <1>4. UnseenEntry(e, thr, ts) \in EntryOrNone
    BY <1>1, <1>2, <1>3 DEF UnseenEntry, EntryOrNone, Entry
  <1>5. ASSUME s # Absent PROVE UpEntry(e, s, ts) \in EntryOrNone
    BY <1>1, <1>5, ClockAssumption, ProfileAssumption
    DEF UpEntry, EntryOrNone, SightingOrNone, Sighting, Entry, Age
  <1>6. ASSUME s # Absent PROVE DownEntry(e, s, thr, ts) \in EntryOrNone
    BY <1>1, <1>6, DownEntryType DEF EntryOrNone, SightingOrNone
  <1>7. QED
    BY <1>4, <1>5, <1>6 DEF NextEntry, ts

LEMMA PruneType ==
    ASSUME NEW e \in EntryOrNone PROVE Prune(e) \in EntryOrNone
  BY DEF Prune, EntryOrNone

LEMMA EmittedType ==
    ASSUME NEW e, NEW s, NEW isAp, NEW thr
    PROVE  Emitted(e, s, isAp, thr) \subseteq EventType
  BY DEF Emitted, PresenceDue, ChangesDue, UpType, DownType,
         EventType, UpEvents, DownEvents, ChangeEvents

-----------------------------------------------------------------------------
(* Types *)

LEMMA AgedState ==
    ASSUME NEW st \in State, NEW dt \in Nat PROVE AgedAll(st, dt) \in State
  BY AgedEntry DEF AgedAll, State, EntryOrNone

LEMMA EmptyState == Empty \in State
  BY DEF Empty, State

LEMMA DetectedType ==
    ASSUME TypeOK, NEW seen \in Seen, NEW aps \in SUBSET MaybeAp, NEW dt \in Gaps \cup {0}
    PROVE  /\ dt \in Nat
           /\ Detected(seen, aps, dt) \in State
           /\ Events(seen, aps, dt) \subseteq Mac \X EventType
  <1>1. dt \in Nat /\ Thr \in Nat \ {0}
    BY ClockAssumption, MissThresholdType DEF Thr, TypeOK
  <1>2. ASSUME NEW m \in Mac
        PROVE  Prune(NextEntry(Aged(prev[m], dt), seen[m], m \in aps, Thr)) \in EntryOrNone
    <2>1. prev[m] \in EntryOrNone /\ seen[m] \in SightingOrNone
      BY DEF TypeOK, State, EntryOrNone, Seen, SightingOrNone
    <2>2. Aged(prev[m], dt) \in EntryOrNone
      BY <1>1, <2>1, AgedEntry
    <2>3. (m \in aps) \in BOOLEAN
      OBVIOUS
    <2>4. NextEntry(Aged(prev[m], dt), seen[m], m \in aps, Thr) \in EntryOrNone
      BY <1>1, <2>1, <2>2, <2>3, NextEntryType
    <2>5. QED BY <2>4, PruneType
  <1>3. Detected(seen, aps, dt) \in State
    BY <1>2 DEF Detected, State, EntryOrNone
  <1>4. Events(seen, aps, dt) \subseteq Mac \X EventType
    BY EmittedType DEF Events
  <1>5. QED BY <1>1, <1>3, <1>4

\* What a step can do to memory, file and clocks.  Nothing but losses,
Halted ==
    /\ UNCHANGED history
    /\ prev' \in {prev, Empty} /\ disk' \in {disk, Empty}
\* ... time that passes without a scan of the gateway,
Waited(dt) ==
    /\ Passed(dt)
    /\ prev' \in {AgedAll(prev, dt), AgedAll(disk, dt), Empty}
    /\ disk' = AgedAll(disk, dt)
\* ... or a scan of it, of which memory or file may keep nothing.
Looked(seen, aps, dt) ==
    /\ phase # "down" /\ Due(dt) /\ Observed(dt)
    /\ prev' \in {Detected(seen, aps, dt), Empty}
    /\ disk' \in {Detected(seen, aps, dt), AgedAll(disk, dt)}

LEMMA StepKinds ==
    ASSUME [Next]_vars
    PROVE  \/ Halted
           \/ \E dt \in Gaps \cup Downtimes \cup {0} : Waited(dt)
           \/ \E seen \in Seen, aps \in SUBSET MaybeAp, dt \in Gaps \cup {0} : Looked(seen, aps, dt)
  <1>1. \A dt : Due(dt) => phase # "down"
    BY DEF Due
  <1>2. /\ Unloaded => prev' = Empty
        /\ RefreshFails(Empty) => prev' = Empty
    BY DEF RefreshFails, Unloaded
  <1>3. CASE Start
    BY <1>3 DEF Start, Waited
  <1>4. CASE Scan
    BY <1>1, <1>4 DEF Scan, Looked
  <1>5. CASE ScanSaveFails
    <2>1. PICK seen \in Seen, aps \in SUBSET MaybeAp, dt \in Gaps \cup {0} :
              /\ Due(dt) /\ Observed(dt)
              /\ RefreshFails(Detected(seen, aps, dt)) /\ disk' = AgedAll(disk, dt)
      BY <1>5 DEF ScanSaveFails
    <2>2. prev' \in {Detected(seen, aps, dt), Empty}
      BY <2>1 DEF RefreshFails, Unloaded
    <2>3. Looked(seen, aps, dt)
      BY <1>1, <2>1, <2>2 DEF Looked
    <2>4. QED BY <2>3
  <1>6. CASE ScanKilled
    BY <1>1, <1>2, <1>6 DEF ScanKilled, Looked
  <1>7. CASE ScanPartial
    BY <1>7 DEF ScanPartial, Waited
  <1>8. CASE ScanUnreachable
    BY <1>2, <1>8 DEF ScanUnreachable, Waited
  <1>9. CASE Stop \/ Reboot
    BY <1>2, <1>9 DEF Stop, Reboot, Halted
  <1>10. CASE UNCHANGED vars
    BY <1>10 DEF vars, Halted
  <1>11. QED
    BY <1>3, <1>4, <1>5, <1>6, <1>7, <1>8, <1>9, <1>10 DEF Next

LEMMA ClockTypes ==
    ASSUME TypeOK, [Next]_vars PROVE sinceScan' \in Age /\ sinceRush' \in Age
  <1>1. /\ sinceScan \in Age /\ sinceRush \in Age /\ 0 \in Age
        /\ Gaps \cup Downtimes \cup {0} \subseteq Nat
    BY ClockAssumption DEF TypeOK, Age
  <1>2. ASSUME NEW dt \in Nat, Passed(dt) \/ Observed(dt) PROVE sinceScan' \in Age /\ sinceRush' \in Age
    BY <1>1, <1>2, OlderAge DEF Passed, Observed, RushAge
  <1>3. CASE Halted
    BY <1>1, <1>3 DEF Halted, history
  <1>4. ASSUME NEW dt \in Gaps \cup Downtimes \cup {0}, Waited(dt) PROVE sinceScan' \in Age /\ sinceRush' \in Age
    BY <1>1, <1>2, <1>4 DEF Waited
  <1>5. ASSUME NEW seen, NEW aps, NEW dt \in Gaps \cup {0}, Looked(seen, aps, dt)
        PROVE  sinceScan' \in Age /\ sinceRush' \in Age
    BY <1>1, <1>2, <1>5 DEF Looked
  <1>6. QED BY <1>3, <1>4, <1>5, StepKinds

\* The numbers of a scan that comes after dt.
LEMMA ScanTimes ==
    ASSUME TypeOK, NEW dt \in Gaps \cup {0}
    PROVE  /\ dt \in Nat /\ Thr \in Nat \ {0}
           /\ sinceScan \in Age /\ sinceRush \in Age
           /\ RushAge(dt) = Rush(sinceScan, sinceRush, dt) /\ RushAge(dt) \in Age
  <1>1. dt \in Nat /\ secs \in Nat /\ sinceScan \in Age /\ sinceRush \in Age /\ 0 \in Age
    BY ClockAssumption DEF TypeOK, Age
  <1>2. Thr \in Nat \ {0}
    BY <1>1, MissThresholdType DEF Thr
  <1>3. RushAge(dt) = Rush(sinceScan, sinceRush, dt)
    BY DEF RushAge, Rush
  <1>4. RushAge(dt) \in Age
    BY <1>1, OlderAge DEF RushAge
  <1>5. QED BY <1>1, <1>2, <1>3, <1>4

LEMMA TypeInit == Init => TypeOK
  <1>1. Horizon \in Age
    BY ClockAssumption DEF Age
  <1>2. [m \in Mac |-> "absent"] \in [Mac -> {"absent", "offline", "online"}]
    OBVIOUS
  <1>3. QED BY <1>1, <1>2, EmptyState DEF Init, TypeOK

\* Every reachable state is well typed: ageing, detection, pruning, loading
\* and losing the state keep every field of every entry in its range.
THEOREM TypeCorrect == Spec => []TypeOK
  <1>1. Init => TypeOK
    BY TypeInit
  <1>2. TypeOK /\ [Next]_vars => TypeOK'
    <2> SUFFICES ASSUME TypeOK, [Next]_vars PROVE TypeOK'
      OBVIOUS
    <2> sinceScan' \in Age /\ sinceRush' \in Age
      BY ClockTypes
    <2>1. ASSUME Unloaded, disk' \in State PROVE TypeOK'
      BY <2>1, EmptyState DEF Unloaded, TypeOK
    <2>2. ASSUME NEW st \in State, RefreshFails(st), disk' \in State PROVE TypeOK'
      BY <2>1, <2>2 DEF RefreshFails, TypeOK
    <2>3. CASE Start
      <3>1. PICK dt \in Downtimes : /\ prev' = AgedAll(disk, dt) /\ disk' = AgedAll(disk, dt)
        BY <2>3 DEF Start
      <3>2. AgedAll(disk, dt) \in State
        BY AgedState, ClockAssumption DEF TypeOK
      <3>3. QED BY <2>3, <3>1, <3>2 DEF Start, TypeOK
    <2>4. CASE Scan
      <3>1. PICK seen \in Seen, aps \in SUBSET MaybeAp, dt \in Gaps \cup {0} :
                /\ prev' = Detected(seen, aps, dt) /\ disk' = prev'
                /\ appended' = Events(seen, aps, dt)
                /\ published' = [m \in Mac |-> RawStatus(seen[m])]
        BY <2>4 DEF Scan
      <3>2. published' \in [Mac -> {"absent", "offline", "online"}]
        BY <3>1 DEF RawStatus
      <3>3. QED BY <2>4, <3>1, <3>2, DetectedType DEF Scan, TypeOK
    <2>5. CASE ScanSaveFails
      <3>1. PICK seen \in Seen, aps \in SUBSET MaybeAp, dt \in Gaps \cup {0} :
                RefreshFails(Detected(seen, aps, dt)) /\ disk' = AgedAll(disk, dt)
        BY <2>5 DEF ScanSaveFails
      <3>2. disk' \in State
        BY <3>1, DetectedType, AgedState DEF TypeOK
      <3>3. QED BY <2>2, <3>1, <3>2, DetectedType
    <2>6. CASE ScanKilled
      BY <2>1, <2>6, DetectedType DEF ScanKilled
    <2>7. CASE ScanPartial
      <3>1. PICK dt \in Gaps \cup {0} :
                /\ prev' = AgedAll(prev, dt) /\ disk' = AgedAll(disk, dt)
                /\ published' = [m \in Mac |-> CachedStatus(prev[m])]
        BY <2>7 DEF ScanPartial
      <3>2. prev' \in State /\ disk' \in State
        BY <3>1, AgedState, ClockAssumption DEF TypeOK
      <3>3. published' \in [Mac -> {"absent", "offline", "online"}]
        BY <3>1 DEF CachedStatus
      <3>4. QED BY <2>7, <3>2, <3>3 DEF ScanPartial, TypeOK
    <2>8. CASE ScanUnreachable
      <3>1. PICK dt \in Gaps \cup {0} : RefreshFails(Empty) /\ disk' = AgedAll(disk, dt)
        BY <2>8 DEF ScanUnreachable
      <3>2. disk' \in State
        BY <3>1, AgedState, ClockAssumption DEF TypeOK
      <3>3. QED BY <2>2, <3>1, <3>2, EmptyState
    <2>9. CASE Stop
      BY <2>1, <2>9 DEF Stop, TypeOK
    <2>10. CASE Reboot
      BY <2>10, EmptyState DEF Reboot, TypeOK
    <2>11. CASE UNCHANGED vars
      BY <2>11 DEF vars, TypeOK
    <2>12. QED
      BY <2>3, <2>4, <2>5, <2>6, <2>7, <2>8, <2>9, <2>10, <2>11 DEF Next
  <1>3. QED BY <1>1, <1>2, PTL DEF Spec

-----------------------------------------------------------------------------
(* Debouncing.  The threshold is read when the entry is set up; the facts    *)
(* below are about an installation whose threshold is never edited.          *)

OneThreshold == \E c \in Nat : ThresholdSecs = {c}

\* What an entry of the state says of its device, for memory and file alike.
TrackedEntry(e) == e # NoEntry => (e.online <=> e.miss < FixedThr)
Tracked(st)     == \A m \in Mac : TrackedEntry(st[m])
TrackInv        == TypeOK /\ Tracked(prev) /\ Tracked(disk)

LEMMA ThresholdFixed ==
    ASSUME OneThreshold, TypeOK PROVE Thr = FixedThr /\ FixedThr \in Nat \ {0}
  <1>1. PICK c \in Nat : ThresholdSecs = {c}
    BY DEF OneThreshold
  <1>2. secs = c /\ (CHOOSE s \in ThresholdSecs : TRUE) = c
    BY <1>1 DEF TypeOK
  <1>3. QED BY <1>1, <1>2, MissThresholdType DEF Thr, FixedThr

LEMMA AgedTracked ==
    ASSUME NEW st \in State, NEW dt \in Nat, Tracked(st) PROVE Tracked(AgedAll(st, dt))
  BY AgedEntry DEF Tracked, TrackedEntry, AgedAll, State, EntryOrNone

LEMMA EmptyTracked == Tracked(Empty)
  BY DEF Tracked, TrackedEntry, Empty

\* One scan of one device: what becomes of entry e at sighting s.
Scanned(n, ts, e, s, thr) ==
    /\ IsUp(s) => /\ n # NoEntry /\ n.online /\ n.miss = 0 /\ n.ts = ts
                  /\ n.first = IF e = NoEntry THEN 0 ELSE IF e.first = NoSession THEN 0 ELSE e.first
    /\ ~IsUp(s) /\ e = NoEntry => Prune(n) = NoEntry
    /\ ~IsUp(s) /\ e # NoEntry /\ n # NoEntry =>
          /\ n.online <=> StaysOnline(e, thr)
          /\ n.miss = e.miss + 1
          /\ n.ts = ts
          /\ n.first = IF Departs(e, s, thr) THEN NoSession ELSE e.first
    /\ ~IsUp(s) /\ StaysOnline(e, thr) => n # NoEntry

LEMMA ScannedEntry ==
    ASSUME NEW e \in EntryOrNone, NEW s \in SightingOrNone, NEW isAp \in BOOLEAN,
           NEW thr \in Nat \ {0}
    PROVE  Scanned(NextEntry(e, s, isAp, thr), CarryTs(e, Emitted(e, s, isAp, thr)), e, s, thr)
  <1> DEFINE ts == CarryTs(e, Emitted(e, s, isAp, thr))
             n  == NextEntry(e, s, isAp, thr)
  <1>1. n = IF s = Absent THEN UnseenEntry(e, thr, ts)
            ELSE IF s.up THEN UpEntry(e, s, ts) ELSE DownEntry(e, s, thr, ts)
    BY DEF NextEntry
  <1>0. ts \in [EventType -> Age]
    BY CarryTsType
  <1> HIDE DEF ts, n
  <1> SUFFICES Scanned(n, ts, e, s, thr)
    BY DEF n, ts
  <1>2. e # NoEntry => e \in Entry /\ e.miss \in Nat /\ e.online \in BOOLEAN /\ NewMiss(e) = e.miss + 1
    BY DEF EntryOrNone, Entry, NewMiss
  <1>3. CASE IsUp(s)
    <2>1. n = UpEntry(e, s, ts)
      BY <1>1, <1>3 DEF IsUp
    <2>2. UpEntry(e, s, ts) \in Entry
      <3>1. QED BY <1>0, <1>3, ClockAssumption, ProfileAssumption
            DEF UpEntry, EntryOrNone, IsUp, SightingOrNone, Sighting, Entry, Age
    <2>3. /\ n.online /\ n.miss = 0 /\ n.ts = ts
          /\ n.first = IF e = NoEntry THEN 0 ELSE IF e.first = NoSession THEN 0 ELSE e.first
      BY <2>1 DEF UpEntry
    <2>4. QED BY <1>3, <2>1, <2>2, <2>3, DistinctAssumption DEF Scanned
  <1>4. CASE ~IsUp(s) /\ s = Absent
    <2>1. n = UnseenEntry(e, thr, ts)
      BY <1>1, <1>4
    <2>2. CASE e = NoEntry
      BY <1>4, <2>1, <2>2 DEF UnseenEntry, Prune, StaysOnline, Online, Scanned
    <2>3. CASE e # NoEntry /\ Departs(e, s, thr)
      <3>1. n = [e EXCEPT !.online = FALSE, !.miss = e.miss + 1, !.first = NoSession, !.ts = ts]
        BY <1>2, <1>4, <2>1, <2>3 DEF UnseenEntry
      <3>2. ~n.online /\ n.miss = e.miss + 1 /\ n.first = NoSession /\ n.ts = ts
        BY <1>2, <2>3, <3>1 DEF Entry
      <3>3. ~StaysOnline(e, thr)
        BY <1>2, <2>3 DEF StaysOnline, Departs
      <3>4. QED BY <1>4, <2>3, <3>2, <3>3 DEF Scanned
    <2>4. CASE e # NoEntry /\ ~Departs(e, s, thr)
      <3>1. NewMiss(e) < thr + KeepSlack =>
              n = [e EXCEPT !.online = StaysOnline(e, thr), !.miss = e.miss + 1, !.ts = ts]
        BY <1>2, <1>4, <2>1, <2>4 DEF UnseenEntry
      <3>2. NewMiss(e) < thr + KeepSlack =>
              (n.online <=> StaysOnline(e, thr)) /\ n.miss = e.miss + 1 /\ n.first = e.first /\ n.ts = ts
        BY <1>2, <2>4, <3>1 DEF Entry
      <3>3. NewMiss(e) >= thr + KeepSlack => n = NoEntry
        BY <1>2, <1>4, <2>1, <2>4, ClockAssumption DEF UnseenEntry
      <3>4. StaysOnline(e, thr) => n # NoEntry
        <4>1. NewMiss(e) < thr + KeepSlack => n \in Entry
          <5>1. ASSUME NEW b \in BOOLEAN, NEW i \in Nat
                PROVE  [e EXCEPT !.online = b, !.miss = i, !.ts = ts] \in Entry
            <6>1. e \in Entry
              BY <1>2, <2>4
            <6>2. QED BY <1>0, <6>1 DEF Entry
          <5>2. e.miss + 1 \in Nat
            BY <1>2, <2>4
          <5>3. StaysOnline(e, thr) \in BOOLEAN
            BY <1>2, <2>4 DEF StaysOnline, Online
          <5>4. QED BY <3>1, <5>1, <5>2, <5>3
        <4>2. QED BY <1>2, <2>4, <4>1, ClockAssumption, DistinctAssumption DEF StaysOnline
      <3>5. QED BY <1>2, <1>4, <2>4, <3>2, <3>3, <3>4, ClockAssumption DEF Scanned
    <2>5. QED BY <2>2, <2>3, <2>4
  <1>5. CASE ~IsUp(s) /\ s # Absent
    <2>1. n = DownEntry(e, s, thr, ts)
      BY <1>1, <1>5 DEF IsUp
    <2>2. n \in Entry
      <3>1. ts \in [EventType -> Age] /\ s \in Sighting
        BY <1>0, <1>5 DEF SightingOrNone
      <3>2. QED BY <2>1, <3>1, DownEntryType
    <2>3. (n.online <=> StaysOnline(e, thr)) /\ n.miss = NewMiss(e) /\ n.ts = ts
      BY <2>1 DEF DownEntry
    <2>4. n.first = IF e = NoEntry \/ Departs(e, s, thr) THEN NoSession ELSE e.first
      BY <2>1 DEF DownEntry
    <2>5. e = NoEntry => Prune(n) = NoEntry
      <3>1. e = NoEntry => ~n.online /\ n.last = Never
        BY <2>1 DEF DownEntry, StaysOnline, Online
      <3>2. QED BY <3>1, ClockAssumption DEF Prune, Never
    <2>6. QED BY <1>2, <1>5, <2>2, <2>3, <2>4, <2>5, DistinctAssumption DEF Scanned
  <1>6. QED BY <1>3, <1>4, <1>5

\* Pruning matters: a device listed but never reached gets an offline entry
\* with one miss, which only prune_old_state removes.
LEMMA ScannedEntryTracked ==
    ASSUME NEW e \in EntryOrNone, NEW s \in SightingOrNone, NEW isAp \in BOOLEAN,
           FixedThr \in Nat \ {0}, TrackedEntry(e)
    PROVE  TrackedEntry(Prune(NextEntry(e, s, isAp, FixedThr)))
  <1> DEFINE n == NextEntry(e, s, isAp, FixedThr)
  <1>1. e # NoEntry => e.miss \in Nat /\ NewMiss(e) = e.miss + 1
    BY DEF EntryOrNone, Entry, NewMiss
  <1>2. CASE IsUp(s)
    <2>1. n.online /\ n.miss = 0
      BY <1>2, ScannedEntry DEF Scanned
    <2>2. QED BY <2>1 DEF Prune, TrackedEntry
  <1>3. CASE ~IsUp(s) /\ (e = NoEntry \/ n = NoEntry)
    <2>1. Prune(n) = NoEntry
      BY <1>3, ScannedEntry DEF Scanned, Prune
    <2>2. QED BY <2>1 DEF TrackedEntry
  <1>4. CASE ~IsUp(s) /\ e # NoEntry /\ n # NoEntry
    <2>1. (n.online <=> StaysOnline(e, FixedThr)) /\ n.miss = e.miss + 1
      BY <1>4, ScannedEntry DEF Scanned
    <2> HIDE DEF n
    <2>2. TrackedEntry(n)
      BY <1>1, <1>4, <2>1 DEF StaysOnline, Online, TrackedEntry
    <2>3. QED BY <2>2 DEF Prune, TrackedEntry, n
  <1>5. QED BY <1>2, <1>3, <1>4

LEMMA DetectedTracked ==
    ASSUME OneThreshold, TrackInv, NEW seen \in Seen, NEW aps \in SUBSET MaybeAp,
           NEW dt \in Gaps \cup {0}
    PROVE  Tracked(Detected(seen, aps, dt))
  <1> SUFFICES ASSUME NEW m \in Mac
               PROVE  TrackedEntry(Prune(NextEntry(Aged(prev[m], dt), seen[m], m \in aps, Thr)))
    BY DEF Tracked, Detected
  <1>1. dt \in Nat /\ Thr = FixedThr /\ FixedThr \in Nat \ {0}
    BY ThresholdFixed, DetectedType DEF TrackInv
  <1>2. prev[m] \in EntryOrNone /\ seen[m] \in SightingOrNone
    BY DEF TrackInv, TypeOK, State, EntryOrNone, Seen, SightingOrNone
  <1>3. Aged(prev[m], dt) \in EntryOrNone /\ TrackedEntry(Aged(prev[m], dt))
    BY <1>1, <1>2, AgedEntry DEF TrackInv, Tracked, TrackedEntry
  <1>4. (m \in aps) \in BOOLEAN
    OBVIOUS
  <1>5. QED BY <1>1, <1>2, <1>3, <1>4, ScannedEntryTracked

LEMMA TrackInvStep == ASSUME OneThreshold, TrackInv, TypeOK', [Next]_vars PROVE TrackInv'
  <1>0. \A dt \in Gaps \cup Downtimes \cup {0} : /\ Tracked(AgedAll(prev, dt))
                                               /\ Tracked(AgedAll(disk, dt))
    BY AgedTracked, ClockAssumption DEF TrackInv, TypeOK
  <1>1. CASE Start
    BY <1>0, <1>1 DEF Start, TrackInv
  <1>2. CASE Scan
    BY <1>2, DetectedTracked DEF Scan, TrackInv
  <1>3. ASSUME NEW st, Tracked(st), RefreshFails(st), Tracked(disk') PROVE TrackInv'
    BY <1>3, EmptyTracked DEF RefreshFails, Unloaded, TrackInv
  <1>4. CASE ScanSaveFails
    BY <1>0, <1>3, <1>4, DetectedTracked DEF ScanSaveFails
  <1>5. CASE ScanKilled
    BY <1>5, DetectedTracked, EmptyTracked DEF ScanKilled, Unloaded, TrackInv
  <1>6. CASE ScanPartial
    BY <1>0, <1>6 DEF ScanPartial, TrackInv
  <1>7. CASE ScanUnreachable
    BY <1>0, <1>3, <1>7, EmptyTracked DEF ScanUnreachable
  <1>8. CASE Stop
    BY <1>8, EmptyTracked DEF Stop, Unloaded, TrackInv
  <1>9. CASE Reboot
    BY <1>9, EmptyTracked DEF Reboot, TrackInv
  <1>10. CASE UNCHANGED vars
    BY <1>10 DEF vars, TrackInv
  <1>11. QED
    BY <1>1, <1>2, <1>4, <1>5, <1>6, <1>7, <1>8, <1>9, <1>10 DEF Next

\* TrackInv, on which the facts about one threshold rest, is an invariant.
LEMMA TrackInvariant == ASSUME OneThreshold PROVE Spec => []TrackInv
  <1>1. Init => TrackInv
    BY EmptyTracked, TypeInit DEF Init, TrackInv
  <1>2. TrackInv /\ TypeOK' /\ [Next]_vars => TrackInv'
    BY TrackInvStep
  <1>3. QED BY <1>1, <1>2, TypeCorrect, PTL DEF Spec

\* In memory and on file, an entry is online exactly while it has missed fewer
\* scans than the threshold: no device is left online, and none comes back
\* without an event, after any sequence of scans, outages, restarts and failures.
THEOREM DebounceCorrect == ASSUME OneThreshold PROVE Spec => []BelowThresholdMeansOnline
  <1>1. TrackInv => BelowThresholdMeansOnline
    BY ThresholdFixed DEF TrackInv, Tracked, TrackedEntry, BelowThresholdMeansOnline, Debounced
  <1>2. QED BY <1>1, TrackInvariant, PTL

-----------------------------------------------------------------------------
(* The rate limit.  Presence events of one device are made by scans, so they *)
(* are as far apart as the scans are: after a time without early scans, the  *)
(* limit leaves them alone.                                                  *)

\* An event of age x is a scan older than the last scan, of age a; or that came
\* early, and the last early scan, of age r, is no older.
Distant(x, a, r) == x >= Older(a, ScanInterval) \/ r <= a

\* No presence event of an entry is newer than the last scan, and one of the
\* direction that may come next is a scan older.
PacedEntry(e, a, r) ==
    e # NoEntry =>
        /\ \A k \in UpEvents \cup DownEvents : e.ts[k] >= a
        /\ e.online => \A k \in DownEvents : Distant(e.ts[k], a, r)
        /\ ~e.online => \A k \in UpEvents : Distant(e.ts[k], a, r)
Paced(st, a, r) == \A m \in Mac : PacedEntry(st[m], a, r)
PaceInv == TypeOK /\ Paced(prev, sinceScan, sinceRush) /\ Paced(disk, sinceScan, sinceRush)

\* The same, of an entry as a scan finds it.
SpacedEntry(e, r) ==
    e # NoEntry => \A k \in UpEvents \cup DownEvents :
        e.ts[k] \in Age /\ Distant(e.ts[k], 0, r)

LEMMA PacedTimes ==
    ASSUME NEW x \in Age, NEW a \in Age, NEW r \in Age, NEW dt \in Nat, x >= a
    PROVE  /\ Older(x, dt) \in Age /\ Older(x, dt) >= Older(a, dt)
           /\ Distant(x, a, r) => Distant(Older(x, dt), Older(a, dt), Older(r, dt))
           /\ Distant(Older(x, dt), 0, Rush(a, r, dt))
           /\ Distant(x, a, r) /\ Rush(a, r, dt) >= MinInterval => Older(x, dt) >= MinInterval
  BY ClockAssumption DEF Distant, Older, Rush, Age, MinInterval

LEMMA AgedTs ==
    ASSUME NEW e \in EntryOrNone, e # NoEntry, NEW dt \in Nat, NEW k \in EventType
    PROVE  /\ e.ts[k] \in Age
           /\ Aged(e, dt).ts[k] = Older(e.ts[k], dt)
  <1>1. e \in Entry
    BY DEF EntryOrNone
  <1> DEFINE ts == [j \in EventType |-> Older(e.ts[j], dt)]
  <1>2. ts[k] = Older(e.ts[k], dt)
    OBVIOUS
  <1>3. Aged(e, dt).ts = ts
    BY <1>1 DEF Aged, Entry
  <1>4. QED BY <1>1, <1>2, <1>3 DEF Entry

\* Ageing keeps an entry paced, and readies it for a scan.
LEMMA AgedPaced ==
    ASSUME NEW e \in EntryOrNone, NEW a \in Age, NEW r \in Age, NEW dt \in Nat, PacedEntry(e, a, r)
    PROVE  /\ PacedEntry(Aged(e, dt), Older(a, dt), Older(r, dt))
           /\ PacedEntry(Aged(e, dt), 0, Rush(a, r, dt))
           /\ SpacedEntry(Aged(e, dt), Rush(a, r, dt))
  <1>1. CASE e = NoEntry
    BY <1>1 DEF Aged, PacedEntry, SpacedEntry
  <1>2. CASE e # NoEntry
    <2> DEFINE d == Aged(e, dt)
    <2>1. d # NoEntry /\ d.online = e.online
      BY <1>2, AgedEntry
    <2>2. \A k \in UpEvents \cup DownEvents :
              /\ e.ts[k] \in Age /\ e.ts[k] >= a
              /\ d.ts[k] = Older(e.ts[k], dt)
      BY <1>2, AgedTs DEF EventType, PacedEntry
    <2> HIDE DEF d
    <2>3. \A k \in UpEvents \cup DownEvents :
              /\ d.ts[k] \in Age /\ d.ts[k] >= Older(a, dt)
              /\ Distant(e.ts[k], a, r) => Distant(d.ts[k], Older(a, dt), Older(r, dt))
              /\ Distant(d.ts[k], 0, Rush(a, r, dt))
      BY <2>2, PacedTimes
    <2>4. PacedEntry(d, Older(a, dt), Older(r, dt))
      BY <1>2, <2>1, <2>3 DEF PacedEntry
    <2>5. \A k \in UpEvents \cup DownEvents : d.ts[k] >= 0
      BY <2>3 DEF Age
    <2>6. PacedEntry(d, 0, Rush(a, r, dt)) /\ SpacedEntry(d, Rush(a, r, dt))
      BY <2>1, <2>3, <2>5 DEF PacedEntry, SpacedEntry
    <2>7. QED BY <2>4, <2>6 DEF d
  <1>3. QED BY <1>1, <1>2

\* Which presence events a scan emits, and what that does to the timestamps.
LEMMA EmittedPresence ==
    ASSUME NEW e \in EntryOrNone, NEW s \in SightingOrNone, NEW isAp \in BOOLEAN,
           NEW thr \in Nat \ {0}, NEW k \in Emitted(e, s, isAp, thr)
    PROVE  /\ k \in UpEvents => Arrives(e, s, thr)
           /\ k \in DownEvents => Departs(e, s, thr)
  BY DEF Emitted, PresenceDue, ChangesDue, UpType, DownType, UpEvents, DownEvents

LEMMA CarriedTs ==
    ASSUME NEW e \in EntryOrNone, NEW K, NEW k \in EventType
    PROVE  CarryTs(e, K)[k] = IF k \in K THEN 0 ELSE IF e = NoEntry THEN Never ELSE e.ts[k]
  BY DEF CarryTs

\* A scan makes no event of the direction opposite to the one it finds.
LEMMA ScannedEntryPaced ==
    ASSUME NEW e \in EntryOrNone, NEW r \in Age, SpacedEntry(e, r),
           NEW s \in SightingOrNone, NEW isAp \in BOOLEAN, NEW thr \in Nat \ {0}
    PROVE  PacedEntry(Prune(NextEntry(e, s, isAp, thr)), 0, r)
  <1> DEFINE K  == Emitted(e, s, isAp, thr)
             ts == CarryTs(e, K)
             n  == NextEntry(e, s, isAp, thr)
  <1>1. Scanned(n, ts, e, s, thr)
    BY ScannedEntry
  <1>2. \A k \in K : (k \in UpEvents => Arrives(e, s, thr)) /\ (k \in DownEvents => Departs(e, s, thr))
    BY EmittedPresence
  <1>3. \A k \in UpEvents \cup DownEvents :
           k \notin K => ts[k] = IF e = NoEntry THEN Never ELSE e.ts[k]
    BY CarriedTs DEF EventType
  <1>4. \A k \in UpEvents \cup DownEvents : ts[k] >= 0
    <2>1. \A k \in UpEvents \cup DownEvents : ts[k] \in Age
      BY CarryTsType DEF EventType
    <2>2. QED BY <2>1 DEF Age
  <1>5. Distant(Never, 0, r)
    BY ClockAssumption DEF Distant, Older, Never
  <1>6. e # NoEntry => e.miss \in Nat /\ NewMiss(e) = e.miss + 1
    BY DEF EntryOrNone, Entry, NewMiss
  <1> HIDE DEF K, ts, n
  <1>7. \A k \in UpEvents \cup DownEvents : k \notin K => Distant(ts[k], 0, r)
    BY <1>3, <1>5 DEF SpacedEntry
  <1> SUFFICES ASSUME Prune(n) # NoEntry PROVE PacedEntry(n, 0, r)
    BY DEF Prune, PacedEntry, n
  <1>8. CASE IsUp(s)
    <2>1. n.online /\ n.ts = ts
      BY <1>1, <1>8 DEF Scanned
    <2>2. \A k \in DownEvents : k \notin K
      BY <1>2, <1>8 DEF Departs
    <2>3. QED BY <1>4, <1>7, <2>1, <2>2 DEF PacedEntry
  <1>9. CASE ~IsUp(s)
    <2>1. e # NoEntry /\ n # NoEntry
      BY <1>1, <1>9 DEF Scanned, Prune
    <2>2. (n.online <=> StaysOnline(e, thr)) /\ n.ts = ts
      BY <1>1, <1>9, <2>1 DEF Scanned
    <2>3. \A k \in UpEvents : k \notin K
      BY <1>2, <1>9 DEF Arrives
    <2>4. n.online => \A k \in DownEvents : k \notin K
      <3>1. StaysOnline(e, thr) => ~Departs(e, s, thr)
        BY <1>6, <2>1 DEF StaysOnline, Departs
      <3>2. QED BY <1>2, <2>2, <3>1
    <2>5. QED BY <1>4, <1>7, <2>2, <2>3, <2>4 DEF PacedEntry
  <1>10. QED BY <1>8, <1>9

LEMMA DetectedPaced ==
    ASSUME PaceInv, NEW seen \in Seen, NEW aps \in SUBSET MaybeAp, NEW dt \in Gaps \cup {0}
    PROVE  /\ Paced(Detected(seen, aps, dt), 0, RushAge(dt))
           /\ Paced(AgedAll(disk, dt), 0, RushAge(dt))
  <1>1. /\ dt \in Nat /\ Thr \in Nat \ {0}
        /\ sinceScan \in Age /\ sinceRush \in Age
        /\ RushAge(dt) = Rush(sinceScan, sinceRush, dt) /\ RushAge(dt) \in Age
    BY ScanTimes DEF PaceInv
  <1>2. ASSUME NEW m \in Mac
        PROVE  PacedEntry(Prune(NextEntry(Aged(prev[m], dt), seen[m], m \in aps, Thr)), 0, RushAge(dt))
    <2>1. prev[m] \in EntryOrNone /\ seen[m] \in SightingOrNone /\ (m \in aps) \in BOOLEAN
      BY DEF PaceInv, TypeOK, State, EntryOrNone, Seen, SightingOrNone
    <2>2. Aged(prev[m], dt) \in EntryOrNone /\ SpacedEntry(Aged(prev[m], dt), RushAge(dt))
      BY <1>1, <2>1, AgedEntry, AgedPaced DEF PaceInv, Paced
    <2>3. QED BY <1>1, <2>1, <2>2, ScannedEntryPaced
  <1>3. ASSUME NEW m \in Mac PROVE PacedEntry(Aged(disk[m], dt), 0, RushAge(dt))
    <2>1. disk[m] \in EntryOrNone
      BY DEF PaceInv, TypeOK, State, EntryOrNone
    <2>2. QED BY <1>1, <2>1, AgedPaced DEF PaceInv, Paced
  <1>4. QED BY <1>2, <1>3 DEF Paced, Detected, AgedAll

LEMMA AgedAllPaced ==
    ASSUME NEW st \in State, NEW a \in Age, NEW r \in Age, NEW dt \in Nat, Paced(st, a, r)
    PROVE  Paced(AgedAll(st, dt), Older(a, dt), Older(r, dt))
  BY AgedPaced DEF Paced, AgedAll, State, EntryOrNone

LEMMA EmptyPaced == ASSUME NEW a, NEW r PROVE Paced(Empty, a, r)
  BY DEF Paced, PacedEntry, Empty

LEMMA PaceInvStep == ASSUME PaceInv, TypeOK', [Next]_vars PROVE PaceInv'
  <1>1. CASE Halted
    BY <1>1, EmptyPaced DEF Halted, history, PaceInv
  <1>2. ASSUME NEW dt \in Gaps \cup Downtimes \cup {0}, Waited(dt) PROVE PaceInv'
    <2>1. prev \in State /\ disk \in State /\ sinceScan \in Age /\ sinceRush \in Age /\ dt \in Nat
      BY ClockAssumption DEF PaceInv, TypeOK
    <2>2. /\ Paced(AgedAll(prev, dt), Older(sinceScan, dt), Older(sinceRush, dt))
          /\ Paced(AgedAll(disk, dt), Older(sinceScan, dt), Older(sinceRush, dt))
      BY <2>1, AgedAllPaced DEF PaceInv
    <2>3. QED BY <1>2, <2>2, EmptyPaced DEF Waited, Passed, PaceInv
  <1>3. ASSUME NEW seen \in Seen, NEW aps \in SUBSET MaybeAp, NEW dt \in Gaps \cup {0},
               Looked(seen, aps, dt)
        PROVE  PaceInv'
    <2>1. /\ Paced(Detected(seen, aps, dt), 0, RushAge(dt))
          /\ Paced(AgedAll(disk, dt), 0, RushAge(dt))
      BY DetectedPaced
    <2>2. QED BY <1>3, <2>1, EmptyPaced DEF Looked, Observed, PaceInv
  <1>4. QED BY <1>1, <1>2, <1>3, StepKinds

\* PaceInv, from which the rest follows, is an invariant.
LEMMA PaceInvariant == Spec => []PaceInv
  <1>1. Init => PaceInv
    BY TypeInit, EmptyPaced DEF Init, PaceInv
  <1>2. PaceInv /\ TypeOK' /\ [Next]_vars => PaceInv'
    BY PaceInvStep
  <1>3. QED BY <1>1, <1>2, TypeCorrect, PTL DEF Spec

\* A due connect or disconnect passes _can_emit if no scan came early for a while.
LEMMA DueEmits ==
    ASSUME PaceInv, NEW m \in Mac, NEW dt \in Gaps \cup {0}, RushAge(dt) >= MinInterval,
           NEW e, e = Aged(prev[m], dt),
           NEW s \in SightingOrNone, NEW isAp \in BOOLEAN, NEW thr,
           NEW k \in PresenceDue(e, s, isAp, thr)
    PROVE  CanEmit(k, e)
  <1>1. /\ dt \in Nat /\ prev[m] \in EntryOrNone
        /\ sinceScan \in Age /\ sinceRush \in Age
        /\ Rush(sinceScan, sinceRush, dt) >= MinInterval
        /\ PacedEntry(prev[m], sinceScan, sinceRush)
    BY ScanTimes DEF PaceInv, Paced, TypeOK, State, EntryOrNone
  <1>2. (e = NoEntry <=> prev[m] = NoEntry) /\ (e # NoEntry => e.online = prev[m].online)
    BY <1>1, AgedEntry
  <1>3. \A j \in UpEvents \cup DownEvents : e # NoEntry =>
            /\ prev[m].ts[j] \in Age /\ prev[m].ts[j] >= sinceScan
            /\ e.ts[j] = Older(prev[m].ts[j], dt)
    BY <1>1, <1>2, AgedTs DEF EventType, PacedEntry
  <1>4. CASE e = NoEntry
    BY <1>4 DEF CanEmit
  <1>5. ASSUME e # NoEntry, k \in UpEvents \cup DownEvents,
               Distant(prev[m].ts[k], sinceScan, sinceRush)
        PROVE  CanEmit(k, e)
    <2>1. e.ts[k] >= MinInterval
      BY <1>1, <1>3, <1>5, PacedTimes
    <2>2. QED BY <2>1 DEF CanEmit
  <1>6. CASE e # NoEntry /\ Arrives(e, s, thr)
    <2>1. k \in UpEvents /\ ~e.online
      BY <1>6 DEF PresenceDue, Arrives, Departs, UpType, UpEvents
    <2>2. QED BY <1>1, <1>2, <1>5, <1>6, <2>1 DEF PacedEntry
  <1>7. CASE e # NoEntry /\ Departs(e, s, thr)
    <2>1. k \in DownEvents /\ e.online
      BY <1>7 DEF PresenceDue, Arrives, Departs, DownType, DownEvents, Online
    <2>2. QED BY <1>1, <1>2, <1>5, <1>7, <2>1 DEF PacedEntry
  <1>8. QED BY <1>4, <1>6, <1>7 DEF PresenceDue

\* However scans, outages, reloads and failed saves alternate, at any threshold and
\* any pace, and whatever the next scan sees: no connect or disconnect is lost to
\* the per-type rate limit of _can_emit, which nothing in detect_events would ever
\* make up for, unless that scan or one less than min_interval_s before it came
\* sooner than ScanInterval after its predecessor.
THEOREM NoEventSuppressed == Spec => []NoPresenceEventSuppressed
  <1>1. PaceInv => NoPresenceEventSuppressed
    BY DueEmits DEF NoPresenceEventSuppressed, SightingOrNone
  <1>2. QED BY <1>1, PaceInvariant, PTL

-----------------------------------------------------------------------------
(* Events and published devices.                                             *)

\* While the coordinator is down it has logged nothing, and before its first
\* scan is done its entities are unavailable.
IdleInv ==
    /\ TypeOK
    /\ phase = "down" => appended = {}
    /\ phase # "running" => ~success

LEMMA IdleInvStep == ASSUME IdleInv, TypeOK', [Next]_vars PROVE IdleInv'
  <1>1. ASSUME Unloaded PROVE IdleInv'
    BY <1>1 DEF Unloaded, IdleInv
  <1>2. ASSUME NEW st, RefreshFails(st), phase # "down" PROVE IdleInv'
    BY <1>1, <1>2 DEF RefreshFails, IdleInv
  <1>3. \A dt : Due(dt) => phase # "down"
    BY DEF Due
  <1>4. CASE Start
    BY <1>4 DEF Start, IdleInv
  <1>5. CASE Scan
    BY <1>5 DEF Scan, IdleInv
  <1>6. CASE ScanSaveFails
    BY <1>2, <1>3, <1>6 DEF ScanSaveFails
  <1>7. CASE ScanKilled
    BY <1>1, <1>7 DEF ScanKilled
  <1>8. CASE ScanPartial
    BY <1>8 DEF ScanPartial, IdleInv
  <1>9. CASE ScanUnreachable
    BY <1>2, <1>3, <1>9 DEF ScanUnreachable
  <1>10. CASE Stop
    BY <1>1, <1>10 DEF Stop
  <1>11. CASE Reboot
    BY <1>11 DEF Reboot, IdleInv
  <1>12. CASE UNCHANGED vars
    BY <1>12 DEF vars, IdleInv
  <1>13. QED
    BY <1>4, <1>5, <1>6, <1>7, <1>8, <1>9, <1>10, <1>11, <1>12 DEF Next

\* What a scan makes of the MAC m: its entry e, the event types K and the new
\* entry n, in the terms of the lemmas on one entry.
ScannedMac(m, seen, aps, dt, e, isAp, K, n) ==
    /\ e = Aged(prev[m], dt)
    /\ Online(e) <=> Online(prev[m])
    /\ Online(e) => e.miss = prev[m].miss
    /\ seen[m] \in SightingOrNone
    /\ K = Emitted(e, seen[m], isAp, Thr)
    /\ n = NextEntry(e, seen[m], isAp, Thr)
    /\ Scanned(n, CarryTs(e, K), e, seen[m], Thr)
    /\ Detected(seen, aps, dt)[m] = Prune(n)
    /\ \A k : <<m, k>> \in Events(seen, aps, dt) <=> k \in K

LEMMA ScanOfOne ==
    ASSUME TypeOK, NEW seen \in Seen, NEW aps \in SUBSET MaybeAp, NEW dt \in Gaps \cup {0},
           NEW m \in Mac
    PROVE  /\ Thr \in Nat \ {0}
           /\ \E e, n \in EntryOrNone, isAp \in BOOLEAN, K \in SUBSET EventType :
                 ScannedMac(m, seen, aps, dt, e, isAp, K, n)
  <1> DEFINE e == Aged(prev[m], dt)
             K == Emitted(e, seen[m], m \in aps, Thr)
             n == NextEntry(e, seen[m], m \in aps, Thr)
  <1>1. dt \in Nat /\ Thr \in Nat \ {0}
    BY DetectedType, MissThresholdType, ClockAssumption DEF Thr, TypeOK
  <1>2. prev[m] \in EntryOrNone /\ seen[m] \in SightingOrNone /\ (m \in aps) \in BOOLEAN
    BY DEF TypeOK, State, EntryOrNone, Seen, SightingOrNone
  <1>3. /\ e \in EntryOrNone
        /\ (e = NoEntry) <=> (prev[m] = NoEntry)
        /\ prev[m] # NoEntry => e.online = prev[m].online /\ e.miss = prev[m].miss
    BY <1>1, <1>2, AgedEntry
  <1>4. Detected(seen, aps, dt)[m] = Prune(n)
    BY DEF Detected
  <1>5. \A k : <<m, k>> \in Events(seen, aps, dt) <=> k \in K
    BY DEF Events
  <1> HIDE DEF e
  <1>6. n \in EntryOrNone /\ K \in SUBSET EventType
    BY <1>1, <1>2, <1>3, NextEntryType, EmittedType
  <1>7. Scanned(n, CarryTs(e, K), e, seen[m], Thr)
    BY <1>1, <1>2, <1>3, ScannedEntry
  <1>8. (Online(e) <=> Online(prev[m])) /\ (Online(e) => e.miss = prev[m].miss)
    BY <1>3 DEF Online
  <1>9. ScannedMac(m, seen, aps, dt, e, m \in aps, K, n)
    BY <1>2, <1>4, <1>5, <1>7, <1>8 DEF ScannedMac, e
  <1> HIDE DEF K, n
  <1>10. QED BY <1>1, <1>2, <1>3, <1>6, <1>9

\* The entry after a scan, for its status and its misses alone.
LEMMA ScanCounts ==
    ASSUME TypeOK, NEW seen \in Seen, NEW aps \in SUBSET MaybeAp, NEW dt \in Gaps \cup {0},
           NEW m \in Mac, NEW d, d = Detected(seen, aps, dt)[m]
    PROVE  /\ IsUp(seen[m]) => Online(d) /\ d.miss = 0
           /\ ~IsUp(seen[m]) =>
                 /\ Online(d) <=> Online(prev[m]) /\ prev[m].miss + 1 < Thr
                 /\ Online(d) => d.miss = prev[m].miss + 1
  <1>1. PICK e \in EntryOrNone, n \in EntryOrNone, isAp \in BOOLEAN, K \in SUBSET EventType :
            ScannedMac(m, seen, aps, dt, e, isAp, K, n)
    BY ScanOfOne
  <1>2. /\ Online(e) <=> Online(prev[m])
        /\ Online(e) => e.miss = prev[m].miss
        /\ Scanned(n, CarryTs(e, K), e, seen[m], Thr)
        /\ d = Prune(n)
    BY <1>1 DEF ScannedMac
  <1>3. e # NoEntry => NewMiss(e) = e.miss + 1
    BY DEF NewMiss
  <1>4. (Online(n) <=> Online(d)) /\ (Online(d) => d = n)
    BY <1>2 DEF Online, Prune
  <1>5. CASE IsUp(seen[m])
    <2>1. n # NoEntry /\ n.online /\ n.miss = 0
      BY <1>2, <1>5 DEF Scanned
    <2>2. QED BY <1>4, <1>5, <2>1 DEF Online
  <1>6. CASE ~IsUp(seen[m])
    <2>1. StaysOnline(e, Thr) => n # NoEntry /\ e # NoEntry
      BY <1>2, <1>6 DEF Scanned, StaysOnline, Online
    <2>2. Online(d) => e # NoEntry /\ n # NoEntry
      BY <1>2, <1>4, <1>6 DEF Scanned, Online
    <2>3. e # NoEntry /\ n # NoEntry => (n.online <=> StaysOnline(e, Thr)) /\ n.miss = e.miss + 1
      BY <1>2, <1>6 DEF Scanned
    <2>4. Online(d) <=> StaysOnline(e, Thr)
      BY <1>4, <2>1, <2>2, <2>3 DEF Online
    <2>5. StaysOnline(e, Thr) <=> Online(prev[m]) /\ prev[m].miss + 1 < Thr
      BY <1>2, <1>3 DEF StaysOnline, Online
    <2>6. Online(d) => d.miss = prev[m].miss + 1
      BY <1>2, <1>4, <2>2, <2>3, <2>4, <2>5 DEF StaysOnline
    <2>7. QED BY <1>6, <2>4, <2>5, <2>6
  <1>7. QED BY <1>5, <1>6

LEMMA PublishedStep ==
    ASSUME IdleInv, PublishedMatchesState, TypeOK', [Next]_vars
    PROVE  PublishedMatchesState'
  <1>1. CASE ~success'
    BY <1>1 DEF PublishedMatchesState
  <1>2. CASE Scan
    <2>1. PICK seen \in Seen, aps \in SUBSET MaybeAp, dt \in Gaps \cup {0} :
              /\ prev' = Detected(seen, aps, dt)
              /\ published' = [m \in Mac |-> RawStatus(seen[m])]
      BY <1>2 DEF Scan
    <2> SUFFICES ASSUME NEW m \in Mac
                 PROVE  /\ published'[m] = "online" => Online(prev'[m])
                        /\ Online(prev'[m]) /\ prev'[m].miss = 0 => published'[m] = "online"
      BY DEF PublishedMatchesState
    <2>2. published'[m] = "online" <=> IsUp(seen[m])
      BY <2>1 DEF RawStatus, IsUp
    <2>3. Online(prev[m]) => prev[m].miss \in Nat
      BY DEF IdleInv, TypeOK, State, Entry, Online
    <2>4. /\ IsUp(seen[m]) => Online(prev'[m])
          /\ ~IsUp(seen[m]) /\ Online(prev'[m]) => Online(prev[m]) /\ prev'[m].miss = prev[m].miss + 1
      BY <2>1, ScanCounts DEF IdleInv
    <2>5. QED BY <2>2, <2>3, <2>4
  <1>3. CASE ScanPartial
    <2>1. PICK dt \in Gaps \cup {0} :
              /\ prev' = AgedAll(prev, dt)
              /\ published' = [m \in Mac |-> CachedStatus(prev[m])]
      BY <1>3 DEF ScanPartial
    <2> SUFFICES ASSUME NEW m \in Mac
                 PROVE  published'[m] = "online" <=> Online(prev'[m])
      BY DEF PublishedMatchesState
    <2>2. published'[m] = "online" <=> Online(prev[m])
      BY <2>1 DEF CachedStatus, Online
    <2>3. prev[m] \in EntryOrNone /\ dt \in Nat
      BY ClockAssumption DEF IdleInv, TypeOK, State, EntryOrNone
    <2>4. prev'[m] = Aged(prev[m], dt)
      BY <2>1 DEF AgedAll
    <2>5. Online(prev'[m]) <=> Online(prev[m])
      BY <2>3, <2>4, AgedEntry DEF Online
    <2>6. QED BY <2>2, <2>5
  <1>4. CASE Start \/ Reboot
    BY <1>1, <1>4 DEF Start, Reboot, IdleInv
  <1>5. CASE ScanSaveFails \/ ScanUnreachable \/ ScanKilled \/ Stop
    <2>1. ~success'
      BY <1>5 DEF ScanSaveFails, ScanUnreachable, ScanKilled, Stop, RefreshFails, Unloaded
    <2>2. QED BY <1>1, <2>1
  <1>6. CASE UNCHANGED vars
    BY <1>6 DEF vars, PublishedMatchesState
  <1>7. QED
    BY <1>2, <1>3, <1>4, <1>5, <1>6 DEF Next

\* The devices shown online are those in a session, whether the list comes from a
\* scan or from the remembered state; a device that has just answered is among
\* them, and a partial payload shows no departed one.
THEOREM PublishedAgrees == Spec => []PublishedMatchesState
  <1>1. Init => IdleInv /\ PublishedMatchesState
    BY TypeInit DEF Init, IdleInv, PublishedMatchesState
  <1>2. IdleInv /\ TypeOK' /\ [Next]_vars => IdleInv'
    BY IdleInvStep
  <1>3. IdleInv /\ PublishedMatchesState /\ TypeOK' /\ [Next]_vars => PublishedMatchesState'
    BY PublishedStep
  <1>4. QED BY <1>1, <1>2, <1>3, TypeCorrect, PTL DEF Spec

\* Change events are looked for in raw-online rows of online entries only.
LEMMA ChangeEmitted ==
    ASSUME NEW e \in EntryOrNone, NEW s \in SightingOrNone, NEW isAp \in BOOLEAN,
           NEW thr \in Nat \ {0}, NEW k \in {"roam", "band_change", "hostname_change"},
           k \in Emitted(e, s, isAp, thr)
    PROVE  /\ IsUp(s) /\ Online(e)
           /\ \A p \in UpEvents \cup DownEvents : p \notin Emitted(e, s, isAp, thr)
  <1>1. IsUp(s) /\ Online(e)
    BY DEF Emitted, PresenceDue, ChangesDue, UpType, DownType, Online
  <1>2. ~Arrives(e, s, thr) /\ ~Departs(e, s, thr)
    BY <1>1 DEF Arrives, Departs, Online
  <1>3. QED BY <1>1, <1>2, EmittedPresence

\* Only a scan that completes puts events into the buffer.
LEMMA EventsFromScan == ASSUME IdleInv, [Next]_vars, appended' # {}, ~UNCHANGED vars PROVE Scan
  <1>1. ~(Start \/ Reboot)
    BY DEF Start, Reboot, IdleInv
  <1>2. ~(ScanSaveFails \/ ScanKilled \/ ScanPartial \/ ScanUnreachable \/ Stop)
    BY DEF ScanSaveFails, ScanKilled, ScanPartial, ScanUnreachable, Stop, RefreshFails, Unloaded
  <1>3. QED BY <1>1, <1>2 DEF Next

LEMMA ChangesStep ==
    ASSUME IdleInv, [Next]_vars, ~UNCHANGED vars, NEW m \in Mac,
           NEW k \in {"roam", "band_change", "hostname_change"}, <<m, k>> \in appended'
    PROVE  /\ Online(prev[m]) /\ Online(prev'[m])
           /\ \A p \in UpEvents \cup DownEvents : <<m, p>> \notin appended'
  <1>1. Scan
    BY EventsFromScan
  <1>2. PICK seen \in Seen, aps \in SUBSET MaybeAp, dt \in Gaps \cup {0} :
            prev' = Detected(seen, aps, dt) /\ appended' = Events(seen, aps, dt)
    BY <1>1 DEF Scan
  <1>3. PICK e \in EntryOrNone, n \in EntryOrNone, isAp \in BOOLEAN, K \in SUBSET EventType :
            ScannedMac(m, seen, aps, dt, e, isAp, K, n)
    BY ScanOfOne DEF IdleInv
  <1>4. /\ seen[m] \in SightingOrNone /\ Thr \in Nat \ {0}
        /\ Online(e) <=> Online(prev[m])
        /\ K = Emitted(e, seen[m], isAp, Thr)
        /\ \A p : <<m, p>> \in appended' <=> p \in K
    BY <1>2, <1>3, ScanOfOne DEF IdleInv, ScannedMac
  <1>5. /\ IsUp(seen[m]) /\ Online(e)
        /\ \A p \in UpEvents \cup DownEvents : p \notin K
    BY <1>4, ChangeEmitted
  <1>6. Online(prev'[m])
    BY <1>2, <1>5, ScanCounts DEF IdleInv
  <1>7. QED BY <1>4, <1>5, <1>6

\* A roam, band or hostname event is about a device that is in a session before
\* and after the scan, and comes with no connect or disconnect of it.
THEOREM ChangesAreWithinSession == Spec => ChangesWithinSession
  <1>1. Init => IdleInv
    BY TypeInit DEF Init, IdleInv
  <1>2. IdleInv /\ TypeOK' /\ [Next]_vars => IdleInv'
    BY IdleInvStep
  <1> DEFINE Within ==
        \A m \in Mac, k \in {"roam", "band_change", "hostname_change"} :
            <<m, k>> \in appended' =>
                /\ Online(prev[m]) /\ Online(prev'[m])
                /\ \A p \in UpEvents \cup DownEvents : <<m, p>> \notin appended'
  <1>3. IdleInv /\ [Next]_vars => [Within]_vars
    BY ChangesStep
  <1>4. QED BY <1>1, <1>2, <1>3, TypeCorrect, PTL DEF Spec, ChangesWithinSession

-----------------------------------------------------------------------------
(* Sessions.  With one threshold, an entry comes online by a connect that is *)
(* due: first_seen and the timestamps of the online events tell the same     *)
(* story, but for connects that the rate limit swallows.                     *)

SessionEntry(e, r) ==
    e # NoEntry =>
        /\ e.online <=> e.first # NoSession
        /\ e.online =>
              /\ \A k \in UpEvents : e.ts[k] >= e.first
              /\ \E k \in UpEvents : \/ e.ts[k] = e.first
                                     \/ e.ts[k] < e.first + MinInterval /\ r < e.first + MinInterval
InSessions(st, r) == \A m \in Mac : SessionEntry(st[m], r)
SessionInv        == InSessions(prev, sinceRush) /\ InSessions(disk, sinceRush)

\* What ageing by dt does to the start f of a session, an event of age x and the
\* last early scan.
LEMMA SessionTimes ==
    ASSUME NEW f \in Age, NEW x \in Age, NEW r \in Age, NEW a \in Age, NEW dt \in Nat, x >= f
    PROVE  /\ Older(f, dt) \in Age /\ Older(x, dt) >= Older(f, dt)
           /\ x = f => Older(x, dt) = Older(f, dt)
           /\ x < f + MinInterval => Older(x, dt) < Older(f, dt) + MinInterval
           /\ r < f + MinInterval => /\ Older(r, dt) < Older(f, dt) + MinInterval
                                     /\ Rush(a, r, dt) < Older(f, dt) + MinInterval
  BY ClockAssumption DEF Older, Rush, Age, MinInterval

LEMMA AgedSession ==
    ASSUME NEW e \in EntryOrNone, NEW a \in Age, NEW r \in Age, NEW dt \in Nat, SessionEntry(e, r)
    PROVE  /\ SessionEntry(Aged(e, dt), Older(r, dt))
           /\ SessionEntry(Aged(e, dt), Rush(a, r, dt))
  <1>1. CASE e = NoEntry
    BY <1>1 DEF Aged, SessionEntry
  <1>2. CASE e # NoEntry
    <2> DEFINE d == Aged(e, dt)
    <2>1. d # NoEntry /\ d.online = e.online
      BY <1>2, AgedEntry
    <2>2. \A k \in UpEvents : e.ts[k] \in Age /\ d.ts[k] = Older(e.ts[k], dt)
      BY <1>2, AgedTs DEF EventType
    <2>3. e.first \in Age \cup {NoSession}
      BY <1>2 DEF EntryOrNone, Entry
    <2>4. d.first = IF e.first = NoSession THEN NoSession ELSE Older(e.first, dt)
      BY <1>2 DEF Aged, EntryOrNone, Entry
    <2> HIDE DEF d
    <2>5. d.first = NoSession <=> e.first = NoSession
      <3>1. NoSession \notin Age
        BY DEF Age, NoSession
      <3>2. e.first \in Age => Older(e.first, dt) \in Age
        BY OlderAge
      <3>3. QED BY <2>3, <2>4, <3>1, <3>2
    <2>6. ASSUME e.online, NEW q, q \in {Older(r, dt), Rush(a, r, dt)}
          PROVE  /\ \A k \in UpEvents : d.ts[k] >= d.first
                 /\ \E k \in UpEvents :
                       \/ d.ts[k] = d.first
                       \/ d.ts[k] < d.first + MinInterval /\ q < d.first + MinInterval
      <3>1. e.first \in Age /\ d.first = Older(e.first, dt)
        BY <1>2, <2>3, <2>4, <2>6 DEF SessionEntry
      <3>2. \A k \in UpEvents : e.ts[k] >= e.first
        BY <1>2, <2>6 DEF SessionEntry
      <3>3. PICK k \in UpEvents :
                \/ e.ts[k] = e.first
                \/ e.ts[k] < e.first + MinInterval /\ r < e.first + MinInterval
        BY <1>2, <2>6 DEF SessionEntry
      <3>4. \/ d.ts[k] = d.first
            \/ d.ts[k] < d.first + MinInterval /\ q < d.first + MinInterval
        <4>1. /\ e.ts[k] \in Age /\ e.ts[k] >= e.first /\ d.ts[k] = Older(e.ts[k], dt)
          BY <2>2, <3>2
        <4>2. /\ e.ts[k] = e.first => Older(e.ts[k], dt) = Older(e.first, dt)
              /\ e.ts[k] < e.first + MinInterval =>
                    Older(e.ts[k], dt) < Older(e.first, dt) + MinInterval
              /\ r < e.first + MinInterval =>
                    /\ Older(r, dt) < Older(e.first, dt) + MinInterval
                    /\ Rush(a, r, dt) < Older(e.first, dt) + MinInterval
          BY <3>1, <4>1, SessionTimes
        <4>3. r < e.first + MinInterval => q < Older(e.first, dt) + MinInterval
          BY <2>6, <4>2
        <4>4. QED BY <3>1, <3>3, <4>1, <4>2, <4>3
      <3>5. ASSUME NEW j \in UpEvents PROVE d.ts[j] >= d.first
        BY <2>2, <3>1, <3>2, SessionTimes
      <3>6. QED BY <3>4, <3>5
    <2>7. QED BY <1>2, <2>1, <2>5, <2>6 DEF SessionEntry, d
  <1>3. QED BY <1>1, <1>2

\* With one threshold, the connects due are those of a device that is not online
\* when it answers, the disconnects those of an online device's last miss.
LEMMA PresenceCrossings ==
    ASSUME NEW e \in EntryOrNone, TrackedEntry(e), NEW s \in SightingOrNone,
           FixedThr \in Nat \ {0}
    PROVE  /\ Arrives(e, s, FixedThr) <=> IsUp(s) /\ ~Online(e)
           /\ Departs(e, s, FixedThr) <=> ~IsUp(s) /\ Online(e) /\ e.miss + 1 = FixedThr
  <1>1. e # NoEntry => /\ e.miss \in Nat /\ NewMiss(e) = e.miss + 1
                       /\ e.online <=> e.miss < FixedThr
    BY DEF EntryOrNone, Entry, NewMiss, TrackedEntry
  <1>2. Arrives(e, s, FixedThr) <=> IsUp(s) /\ ~Online(e)
    BY <1>1 DEF Arrives, Online
  <1>3. Departs(e, s, FixedThr) <=> ~IsUp(s) /\ Online(e) /\ e.miss + 1 = FixedThr
    BY <1>1 DEF Departs, Online
  <1>4. QED BY <1>2, <1>3

\* A connect that is due is emitted, or swallowed by the rate limit as an event of
\* the same type is less than two scans old and scans have come early.
LEMMA ConnectMade ==
    ASSUME PaceInv, NEW m \in Mac, NEW dt \in Gaps \cup {0}, NEW e, e = Aged(prev[m], dt),
           NEW s \in SightingOrNone, NEW isAp \in BOOLEAN, NEW thr,
           NEW k \in PresenceDue(e, s, isAp, thr)
    PROVE  \/ k \in Emitted(e, s, isAp, thr)
           \/ RushAge(dt) < MinInterval /\ e # NoEntry /\ e.ts[k] < MinInterval
  <1>1. RushAge(dt) \in Int /\ MinInterval \in Int
    <2>1. RushAge(dt) \in Age
      BY ScanTimes DEF PaceInv
    <2>2. QED BY <2>1, ClockAssumption DEF MinInterval, Age
  <1>2. e # NoEntry /\ k \in EventType => e.ts[k] \in Int
    <2>1. prev[m] \in EntryOrNone /\ dt \in Nat
      BY ClockAssumption DEF PaceInv, TypeOK, State, EntryOrNone
    <2>2. e \in EntryOrNone
      BY <2>1, AgedEntry
    <2>3. e # NoEntry /\ k \in EventType => e.ts[k] \in Age
      BY <2>2 DEF EntryOrNone, Entry
    <2>4. QED BY <2>3 DEF Age
  <1>3. k \in EventType
    BY DEF PresenceDue, UpType, DownType, EventType, UpEvents, DownEvents
  <1>4. CanEmit(k, e) => k \in Emitted(e, s, isAp, thr)
    BY DEF Emitted
  <1>5. ~CanEmit(k, e) => ~(RushAge(dt) >= MinInterval)
    BY DueEmits
  <1>6. ~CanEmit(k, e) => e # NoEntry /\ ~(e.ts[k] >= MinInterval)
    BY DEF CanEmit
  <1>7. QED BY <1>1, <1>2, <1>3, <1>4, <1>5, <1>6

LEMMA ScannedEntrySession ==
    ASSUME FixedThr \in Nat \ {0}, NEW e \in EntryOrNone, TrackedEntry(e), NEW r \in Age,
           SessionEntry(e, r), NEW s \in SightingOrNone, NEW isAp \in BOOLEAN,
           \A k \in PresenceDue(e, s, isAp, FixedThr) :
               \/ k \in Emitted(e, s, isAp, FixedThr)
               \/ r < MinInterval /\ e # NoEntry /\ e.ts[k] < MinInterval
    PROVE  SessionEntry(Prune(NextEntry(e, s, isAp, FixedThr)), r)
  <1> DEFINE K  == Emitted(e, s, isAp, FixedThr)
             ts == CarryTs(e, K)
             n  == NextEntry(e, s, isAp, FixedThr)
             u  == UpType(e, isAp)
  <1>1. Scanned(n, ts, e, s, FixedThr)
    BY ScannedEntry
  <1>2. /\ \A k \in K : k \in UpEvents => IsUp(s) /\ ~Online(e)
        /\ ~IsUp(s) /\ Online(e) /\ e.miss + 1 = FixedThr <=> Departs(e, s, FixedThr)
    BY EmittedPresence, PresenceCrossings
  <1>3. IsUp(s) /\ ~Online(e) =>
            /\ u \in UpEvents
            /\ u \in K \/ (r < MinInterval /\ e # NoEntry /\ e.ts[u] < MinInterval)
    <2>1. IsUp(s) /\ ~Online(e) => u \in PresenceDue(e, s, isAp, FixedThr)
      BY PresenceCrossings DEF PresenceDue
    <2>2. u \in UpEvents
      BY DEF UpType, UpEvents
    <2>3. QED BY <2>1, <2>2
  <1>4. \A k \in UpEvents : ts[k] = IF k \in K THEN 0 ELSE IF e = NoEntry THEN Never ELSE e.ts[k]
    BY CarriedTs DEF EventType
  <1>5. \A k \in UpEvents : ts[k] \in Age
    BY CarryTsType DEF EventType
  <1>6. e # NoEntry => /\ e.miss \in Nat /\ e.online \in BOOLEAN /\ NewMiss(e) = e.miss + 1
                       /\ e.first \in Age \cup {NoSession}
    BY DEF EntryOrNone, Entry, NewMiss
  <1> HIDE DEF K, ts, n, u
  <1> SUFFICES ASSUME Prune(n) # NoEntry PROVE SessionEntry(n, r)
    BY DEF Prune, SessionEntry, n
  <1>7. CASE IsUp(s) /\ ~Online(e)
    <2>1. n.online /\ n.ts = ts /\ n.first = 0
      BY <1>1, <1>7 DEF Scanned, SessionEntry, Online
    <2>2. u \in UpEvents /\ (ts[u] = 0 \/ (r < MinInterval /\ ts[u] < MinInterval))
      BY <1>3, <1>4, <1>7
    <2>3. \A j \in UpEvents : ts[j] >= 0
      BY <1>5 DEF Age
    <2>4. 0 + MinInterval = MinInterval
      BY ClockAssumption DEF MinInterval
    <2>5. QED BY <2>1, <2>2, <2>3, <2>4 DEF SessionEntry, NoSession
  <1>8. CASE IsUp(s) /\ Online(e)
    <2>1. n.online /\ n.ts = ts /\ n.first = e.first
      BY <1>1, <1>8 DEF Scanned, SessionEntry, Online
    <2>2. \A k \in UpEvents : ts[k] = e.ts[k]
      BY <1>2, <1>4, <1>8 DEF Online
    <2>3. QED BY <1>8, <2>1, <2>2 DEF SessionEntry, Online
  <1>9. CASE ~IsUp(s)
    <2>1. e # NoEntry /\ n # NoEntry
      BY <1>1, <1>9 DEF Scanned, Prune
    <2>2. /\ (n.online <=> StaysOnline(e, FixedThr)) /\ n.ts = ts
          /\ n.first = IF Departs(e, s, FixedThr) THEN NoSession ELSE e.first
      BY <1>1, <1>9, <2>1 DEF Scanned
    <2>3. \A k \in UpEvents : ts[k] = e.ts[k]
      BY <1>2, <1>4, <1>9, <2>1
    <2>4. StaysOnline(e, FixedThr) => Online(e) /\ ~Departs(e, s, FixedThr)
      BY <1>6, <2>1 DEF StaysOnline, Departs
    <2>5. ~StaysOnline(e, FixedThr) => n.first = NoSession
      BY <1>6, <1>9, <2>1, <2>2 DEF StaysOnline, Departs, SessionEntry, Online
    <2>6. QED BY <2>1, <2>2, <2>3, <2>4, <2>5 DEF SessionEntry, Online
  <1>10. QED BY <1>7, <1>8, <1>9

LEMMA DetectedSession ==
    ASSUME OneThreshold, TrackInv, PaceInv, SessionInv, NEW seen \in Seen,
           NEW aps \in SUBSET MaybeAp, NEW dt \in Gaps \cup {0}
    PROVE  /\ InSessions(Detected(seen, aps, dt), RushAge(dt))
           /\ InSessions(AgedAll(disk, dt), RushAge(dt))
  <1>1. /\ Thr = FixedThr /\ FixedThr \in Nat \ {0} /\ dt \in Nat
        /\ sinceScan \in Age /\ sinceRush \in Age
        /\ RushAge(dt) = Rush(sinceScan, sinceRush, dt) /\ RushAge(dt) \in Age
    BY ThresholdFixed, ScanTimes DEF TrackInv
  <1>2. ASSUME NEW m \in Mac
        PROVE  SessionEntry(Prune(NextEntry(Aged(prev[m], dt), seen[m], m \in aps, Thr)), RushAge(dt))
    <2> DEFINE e    == Aged(prev[m], dt)
               s    == seen[m]
               isAp == m \in aps
    <2>1. prev[m] \in EntryOrNone /\ s \in SightingOrNone /\ isAp \in BOOLEAN
      BY DEF TrackInv, TypeOK, State, EntryOrNone, Seen, SightingOrNone
    <2>2. e \in EntryOrNone /\ TrackedEntry(e)
      BY <1>1, <2>1, AgedEntry DEF TrackInv, Tracked, TrackedEntry
    <2>3. SessionEntry(e, RushAge(dt))
      BY <1>1, <2>1, AgedSession DEF SessionInv, InSessions
    <2>4. \A k \in PresenceDue(e, s, isAp, FixedThr) :
               \/ k \in Emitted(e, s, isAp, FixedThr)
               \/ RushAge(dt) < MinInterval /\ e # NoEntry /\ e.ts[k] < MinInterval
      BY <2>1, ConnectMade
    <2> HIDE DEF e, s, isAp
    <2>5. SessionEntry(Prune(NextEntry(e, s, isAp, FixedThr)), RushAge(dt))
      BY <1>1, <2>1, <2>2, <2>3, <2>4, ScannedEntrySession
    <2>6. QED BY <1>1, <2>5 DEF e, s, isAp
  <1>3. ASSUME NEW m \in Mac PROVE SessionEntry(Aged(disk[m], dt), RushAge(dt))
    <2>1. disk[m] \in EntryOrNone
      BY DEF TrackInv, TypeOK, State, EntryOrNone
    <2>2. QED BY <1>1, <2>1, AgedSession DEF SessionInv, InSessions
  <1>4. QED BY <1>2, <1>3 DEF InSessions, Detected, AgedAll

LEMMA AgedSessions ==
    ASSUME NEW st \in State, NEW r \in Age, NEW dt \in Nat, InSessions(st, r)
    PROVE  InSessions(AgedAll(st, dt), Older(r, dt))
  BY AgedSession DEF InSessions, AgedAll, State, EntryOrNone

LEMMA EmptySessions == ASSUME NEW r PROVE InSessions(Empty, r)
  BY DEF InSessions, SessionEntry, Empty

LEMMA SessionInvStep ==
    ASSUME OneThreshold, TrackInv, PaceInv, SessionInv, [Next]_vars PROVE SessionInv'
  <1>1. CASE Halted
    BY <1>1, EmptySessions DEF Halted, history, SessionInv
  <1>2. ASSUME NEW dt \in Gaps \cup Downtimes \cup {0}, Waited(dt) PROVE SessionInv'
    <2>1. prev \in State /\ disk \in State /\ sinceRush \in Age /\ dt \in Nat
      BY ClockAssumption DEF TrackInv, TypeOK
    <2>2. /\ InSessions(AgedAll(prev, dt), Older(sinceRush, dt))
          /\ InSessions(AgedAll(disk, dt), Older(sinceRush, dt))
      BY <2>1, AgedSessions DEF SessionInv
    <2>3. QED BY <1>2, <2>2, EmptySessions DEF Waited, Passed, SessionInv
  <1>3. ASSUME NEW seen \in Seen, NEW aps \in SUBSET MaybeAp, NEW dt \in Gaps \cup {0},
               Looked(seen, aps, dt)
        PROVE  SessionInv'
    <2>1. /\ InSessions(Detected(seen, aps, dt), RushAge(dt))
          /\ InSessions(AgedAll(disk, dt), RushAge(dt))
      BY DetectedSession
    <2>2. QED BY <1>3, <2>1, EmptySessions DEF Looked, Observed, SessionInv
  <1>4. QED BY <1>1, <1>2, <1>3, StepKinds

\* The start of a session, from which the duration in the next disconnect event is
\* counted, is the time of the latest online event of the device: through failed
\* saves, reloads and restarts at any pace no session keeps an old start, and none
\* starts without an event but for those the rate limit swallows, less than
\* min_interval_s after both another event and a scan that came early.
THEOREM SessionsBeganWithEvent ==
    ASSUME OneThreshold PROVE Spec => []SessionBeganWithEvent
  <1>1. Init => SessionInv
    BY EmptySessions DEF Init, SessionInv
  <1>2. TrackInv /\ PaceInv /\ SessionInv /\ [Next]_vars => SessionInv'
    BY SessionInvStep
  <1>3. SessionInv => SessionBeganWithEvent
    BY DEF SessionInv, InSessions, SessionEntry, SessionBeganWithEvent, Online
  <1>4. QED BY <1>1, <1>2, <1>3, TrackInvariant, PaceInvariant, PTL DEF Spec

-----------------------------------------------------------------------------
(* Disconnects.  Every miss is a scan interval of silence, unless the scan   *)
(* that counted it came early.                                               *)

\* With n misses and the last scan of age a, the last answer is as old as l.
SilentFor(l, n, a, r) == l >= Older(a, n * ScanInterval) \/ r < l
SilentEntry(e, a, r)  == Online(e) => SilentFor(e.last, e.miss, a, r)
Silent(st, a, r)      == \A m \in Mac : SilentEntry(st[m], a, r)
SilenceInv ==
    /\ IdleInv
    /\ Silent(prev, sinceScan, sinceRush) /\ Silent(disk, sinceScan, sinceRush)
    /\ phase = "fresh" => \A m \in Mac : Online(prev[m]) => prev[m].last > 0

LEMMA MoreScans ==
    ASSUME NEW i \in Nat, NEW j \in Nat, i <= j
    PROVE  /\ i * ScanInterval \in Nat /\ (i + 1) * ScanInterval = i * ScanInterval + ScanInterval
           /\ i * ScanInterval <= j * ScanInterval
  BY ClockAssumption

\* The silence of a device, with n intervals t in it, after ageing by dt; with one
\* more interval once a scan has come, if some time has passed since the answer.
LEMMA SilentTimes ==
    ASSUME NEW l \in Age, NEW t \in Nat, NEW a \in Age, NEW r \in Age, NEW dt \in Nat,
           l >= Older(a, t) \/ r < l
    PROVE  /\ Older(l, dt) \in Age
           /\ Older(l, dt) >= Older(Older(a, dt), t) \/ Older(r, dt) < Older(l, dt)
           /\ Older(l, dt) >= Older(0, t) \/ Rush(a, r, dt) < Older(l, dt)
           /\ l + dt > 0 =>
                 Older(l, dt) >= Older(0, t + ScanInterval) \/ Rush(a, r, dt) < Older(l, dt)
  BY ClockAssumption DEF Older, Rush, Age

LEMMA AgedLast ==
    ASSUME NEW e \in EntryOrNone, NEW dt \in Nat
    PROVE  /\ Online(Aged(e, dt)) <=> Online(e)
           /\ Online(e) => /\ Aged(e, dt).miss = e.miss /\ e.miss \in Nat
                           /\ e.last \in Age /\ Aged(e, dt).last = Older(e.last, dt)
  <1>1. (Online(Aged(e, dt)) <=> Online(e)) /\ (Online(e) => Aged(e, dt).miss = e.miss /\ e.miss \in Nat)
    BY AgedEntry DEF Online, EntryOrNone, Entry
  <1>2. Online(e) => e.last \in Age /\ Aged(e, dt).last = Older(e.last, dt)
    BY DEF Online, Aged, EntryOrNone, Entry
  <1>3. QED BY <1>1, <1>2

LEMMA AgedSilence ==
    ASSUME NEW e \in EntryOrNone, NEW a \in Age, NEW r \in Age, NEW dt \in Nat, SilentEntry(e, a, r)
    PROVE  /\ SilentEntry(Aged(e, dt), Older(a, dt), Older(r, dt))
           /\ SilentEntry(Aged(e, dt), 0, Rush(a, r, dt))
           /\ Online(e) /\ (e.last > 0 \/ dt > 0) =>
                 SilentFor(Aged(e, dt).last, e.miss + 1, 0, Rush(a, r, dt))
  <1> DEFINE d == Aged(e, dt)
  <1>1. /\ Online(d) <=> Online(e)
        /\ Online(e) => /\ d.miss = e.miss /\ e.miss \in Nat
                        /\ e.last \in Age /\ d.last = Older(e.last, dt)
    BY AgedLast
  <1> HIDE DEF d
  <1> SUFFICES ASSUME Online(e)
               PROVE  /\ SilentFor(d.last, e.miss, Older(a, dt), Older(r, dt))
                      /\ SilentFor(d.last, e.miss, 0, Rush(a, r, dt))
                      /\ e.last > 0 \/ dt > 0 => SilentFor(d.last, e.miss + 1, 0, Rush(a, r, dt))
    BY <1>1 DEF SilentEntry, d
  <1> DEFINE t == e.miss * ScanInterval
             l == e.last
  <1>2. t \in Nat /\ (e.miss + 1) * ScanInterval = t + ScanInterval
    BY <1>1, MoreScans
  <1>3. l \in Age /\ (l >= Older(a, t) \/ r < l)
    BY <1>1 DEF SilentEntry, SilentFor
  <1>4. (l > 0 \/ dt > 0) => l + dt > 0
    BY <1>3 DEF Age
  <1> HIDE DEF t, l
  <1>5. /\ Older(l, dt) >= Older(Older(a, dt), t) \/ Older(r, dt) < Older(l, dt)
        /\ Older(l, dt) >= Older(0, t) \/ Rush(a, r, dt) < Older(l, dt)
        /\ l + dt > 0 =>
              Older(l, dt) >= Older(0, t + ScanInterval) \/ Rush(a, r, dt) < Older(l, dt)
    BY <1>2, <1>3, SilentTimes
  <1>6. d.last = Older(l, dt)
    BY <1>1 DEF l
  <1>7. SilentFor(d.last, e.miss, Older(a, dt), Older(r, dt)) /\ SilentFor(d.last, e.miss, 0, Rush(a, r, dt))
    BY <1>5, <1>6 DEF SilentFor, t
  <1>8. l > 0 \/ dt > 0 => SilentFor(d.last, e.miss + 1, 0, Rush(a, r, dt))
    BY <1>2, <1>4, <1>5, <1>6 DEF SilentFor
  <1>9. QED BY <1>7, <1>8 DEF l

\* A scan keeps the time of the last answer of a device that does not answer it.
LEMMA LastKept ==
    ASSUME NEW e \in EntryOrNone, NEW s \in SightingOrNone, NEW isAp \in BOOLEAN,
           NEW thr \in Nat \ {0}, NEW n, n = NextEntry(e, s, isAp, thr), n # NoEntry,
           ~IsUp(s), e # NoEntry
    PROVE  n.last = e.last
  <1>1. e \in Entry
    BY DEF EntryOrNone
  <1>2. CASE s = Absent
    BY <1>1, <1>2 DEF NextEntry, UnseenEntry, Entry
  <1>3. CASE s # Absent
    BY <1>3 DEF NextEntry, DownEntry, IsUp
  <1>4. QED BY <1>2, <1>3

LEMMA ScannedEntrySilence ==
    ASSUME NEW e \in EntryOrNone, NEW r \in Age, NEW s \in SightingOrNone,
           Online(e) => SilentFor(e.last, e.miss + 1, 0, r),
           NEW isAp \in BOOLEAN, NEW thr \in Nat \ {0},
           NEW d, d = Prune(NextEntry(e, s, isAp, thr))
    PROVE  /\ SilentEntry(d, 0, r)
           /\ Departs(e, s, thr) /\ d # NoEntry => SilentFor(d.last, thr, 0, r)
  <1> DEFINE ts == CarryTs(e, Emitted(e, s, isAp, thr))
             n  == NextEntry(e, s, isAp, thr)
  <1>1. Scanned(n, ts, e, s, thr)
    BY ScannedEntry
  <1>2. n \in EntryOrNone /\ d = Prune(n)
    BY NextEntryType
  <1>3. ~IsUp(s) /\ e # NoEntry /\ n # NoEntry => n.last = e.last
    BY LastKept
  <1>4. e # NoEntry => e.miss \in Nat /\ e.last \in Age /\ NewMiss(e) = e.miss + 1
    BY DEF EntryOrNone, Entry, NewMiss
  <1>5. d # NoEntry => d = n
    BY <1>2 DEF Prune
  <1> HIDE DEF n, ts
  <1>6. CASE IsUp(s)
    <2>1. n # NoEntry /\ n.miss = 0
      BY <1>1, <1>6 DEF Scanned
    <2>2. n.last \in Age
      BY <1>2, <2>1 DEF EntryOrNone, Entry
    <2>3. Older(0, 0 * ScanInterval) = 0
      BY ClockAssumption DEF Older
    <2>4. n.last >= Older(0, n.miss * ScanInterval)
      BY <2>1, <2>2, <2>3 DEF Age
    <2>5. QED BY <1>5, <1>6, <2>4 DEF SilentEntry, SilentFor, Online, Departs
  <1>7. CASE ~IsUp(s) /\ d # NoEntry
    <2>1. e # NoEntry /\ n # NoEntry /\ d = n /\ d.last = e.last
      BY <1>1, <1>2, <1>3, <1>5, <1>7 DEF Scanned
    <2>2. n.online => StaysOnline(e, thr) /\ n.miss = e.miss + 1
      BY <1>1, <1>7, <2>1 DEF Scanned
    <2>3. SilentEntry(d, 0, r)
      BY <2>1, <2>2 DEF SilentEntry, StaysOnline, Online
    <2>4. ASSUME Departs(e, s, thr) PROVE SilentFor(d.last, thr, 0, r)
      <3>1. SilentFor(e.last, e.miss + 1, 0, r) /\ thr <= e.miss + 1
        BY <1>4, <2>1, <2>4 DEF Departs
      <3>2. thr * ScanInterval <= (e.miss + 1) * ScanInterval /\ thr * ScanInterval \in Nat
            /\ (e.miss + 1) * ScanInterval \in Nat
        BY <1>4, <2>1, <3>1, MoreScans
      <3>3. \A i, j \in Nat : i <= j => Older(0, i) <= Older(0, j) /\ Older(0, i) \in Nat /\ Older(0, j) \in Nat
        BY ClockAssumption DEF Older
      <3>4. e.last \in Nat
        BY <1>4, <2>1, ClockAssumption DEF Age
      <3>5. QED BY <2>1, <3>1, <3>2, <3>3, <3>4 DEF SilentFor
    <2>5. QED BY <2>3, <2>4
  <1>8. CASE d = NoEntry
    BY <1>8 DEF SilentEntry, Online
  <1>9. QED BY <1>6, <1>7, <1>8

\* When a scan is due, time has passed since a device was last seen.
LEMMA DueOverdue ==
    ASSUME SilenceInv, NEW dt \in Gaps \cup {0}, Due(dt), NEW m \in Mac, Online(prev[m])
    PROVE  prev[m].last > 0 \/ dt > 0
  <1>1. CASE phase = "fresh"
    BY <1>1 DEF SilenceInv
  <1>2. CASE phase = "running" /\ dt \in Gaps
    BY <1>2, ClockAssumption
  <1>3. QED BY <1>1, <1>2 DEF Due

\* What a scan leaves behind, and what it says about departed devices.
LEMMA DetectedSilence ==
    ASSUME SilenceInv, NEW seen \in Seen, NEW aps \in SUBSET MaybeAp,
           NEW dt \in Gaps \cup {0}, Due(dt)
    PROVE  /\ Silent(Detected(seen, aps, dt), 0, RushAge(dt))
           /\ Silent(AgedAll(disk, dt), 0, RushAge(dt))
           /\ \A m \in Mac : \A k \in DownEvents :
                 <<m, k>> \in Events(seen, aps, dt) /\ Detected(seen, aps, dt)[m] # NoEntry =>
                     \/ Detected(seen, aps, dt)[m].last >= Thr * ScanInterval
                     \/ RushAge(dt) < Detected(seen, aps, dt)[m].last
  <1>1. /\ TypeOK /\ dt \in Nat /\ Thr \in Nat \ {0}
        /\ sinceScan \in Age /\ sinceRush \in Age
        /\ RushAge(dt) = Rush(sinceScan, sinceRush, dt) /\ RushAge(dt) \in Age
    BY ScanTimes DEF SilenceInv, IdleInv
  <1>2. ASSUME NEW m \in Mac
        PROVE  /\ SilentEntry(Detected(seen, aps, dt)[m], 0, RushAge(dt))
               /\ \A k \in DownEvents :
                     <<m, k>> \in Events(seen, aps, dt) /\ Detected(seen, aps, dt)[m] # NoEntry =>
                         SilentFor(Detected(seen, aps, dt)[m].last, Thr, 0, RushAge(dt))
    <2>1. PICK e \in EntryOrNone, n \in EntryOrNone, isAp \in BOOLEAN, K \in SUBSET EventType :
              ScannedMac(m, seen, aps, dt, e, isAp, K, n)
      BY <1>1, ScanOfOne
    <2> DEFINE d == Detected(seen, aps, dt)[m]
    <2>2. /\ e = Aged(prev[m], dt)
          /\ Online(e) <=> Online(prev[m])
          /\ Online(e) => e.miss = prev[m].miss
          /\ seen[m] \in SightingOrNone
          /\ d = Prune(NextEntry(e, seen[m], isAp, Thr))
          /\ \A k : <<m, k>> \in Events(seen, aps, dt) <=> k \in Emitted(e, seen[m], isAp, Thr)
      BY <2>1 DEF ScannedMac
    <2>3. Online(e) => SilentFor(e.last, e.miss + 1, 0, RushAge(dt))
      <3>1. prev[m] \in EntryOrNone /\ SilentEntry(prev[m], sinceScan, sinceRush)
        BY DEF SilenceInv, IdleInv, TypeOK, State, EntryOrNone, Silent
      <3>2. Online(prev[m]) => prev[m].last > 0 \/ dt > 0
        BY DueOverdue
      <3>3. Online(prev[m]) => SilentFor(Aged(prev[m], dt).last, prev[m].miss + 1, 0, RushAge(dt))
        BY <1>1, <3>1, <3>2, AgedSilence
      <3>4. QED BY <2>2, <3>3
    <2> HIDE DEF d
    <2>4. /\ SilentEntry(d, 0, RushAge(dt))
          /\ Departs(e, seen[m], Thr) /\ d # NoEntry => SilentFor(d.last, Thr, 0, RushAge(dt))
      BY <1>1, <2>2, <2>3, ScannedEntrySilence
    <2>5. \A k \in DownEvents : k \in Emitted(e, seen[m], isAp, Thr) => Departs(e, seen[m], Thr)
      BY <1>1, <2>2, EmittedPresence
    <2>6. QED BY <2>2, <2>4, <2>5 DEF d
  <1>3. Older(0, Thr * ScanInterval) = Thr * ScanInterval
    BY <1>1, HorizonAssumption, MoreScans, ClockAssumption DEF Older, Thr, TypeOK
  <1>4. ASSUME NEW m \in Mac PROVE SilentEntry(Aged(disk[m], dt), 0, RushAge(dt))
    <2>1. disk[m] \in EntryOrNone
      BY <1>1 DEF TypeOK, State, EntryOrNone
    <2>2. QED BY <1>1, <2>1, AgedSilence DEF SilenceInv, Silent
  <1>5. Silent(AgedAll(disk, dt), 0, RushAge(dt))
    BY <1>4 DEF Silent, AgedAll
  <1>6. QED BY <1>2, <1>3, <1>5 DEF Silent, SilentFor

LEMMA AgedSilent ==
    ASSUME NEW st \in State, NEW a \in Age, NEW r \in Age, NEW dt \in Nat, Silent(st, a, r)
    PROVE  Silent(AgedAll(st, dt), Older(a, dt), Older(r, dt))
  BY AgedSilence DEF Silent, AgedAll, State, EntryOrNone

LEMMA EmptySilent == ASSUME NEW a, NEW r PROVE Silent(Empty, a, r)
  BY DEF Silent, SilentEntry, Empty, Online

\* A coordinator that is fresh after a step has just started: some time has passed.
LEMMA FreshStep ==
    ASSUME SilenceInv, [Next]_vars, phase' = "fresh", NEW m \in Mac, Online(prev'[m])
    PROVE  prev'[m].last > 0
  <1>1. CASE Start
    <2>1. PICK dt \in Downtimes : prev' = AgedAll(disk, dt)
      BY <1>1 DEF Start
    <2>2. dt \in Nat \ {0} /\ disk[m] \in EntryOrNone /\ prev'[m] = Aged(disk[m], dt)
      BY <2>1, ClockAssumption DEF SilenceInv, IdleInv, TypeOK, State, EntryOrNone, AgedAll
    <2>3. disk[m].last \in Age /\ prev'[m].last = Older(disk[m].last, dt)
      BY <2>2, AgedLast
    <2>4. QED BY <2>2, <2>3, ClockAssumption DEF Older, Age
  <1>2. CASE UNCHANGED vars
    BY <1>2 DEF vars, SilenceInv
  <1>3. CASE Scan \/ ScanKilled \/ ScanPartial \/ Stop \/ Reboot
    BY <1>3 DEF Scan, ScanKilled, ScanPartial, Stop, Reboot, Unloaded
  <1>4. CASE ScanSaveFails \/ ScanUnreachable
    BY <1>4 DEF ScanSaveFails, ScanUnreachable, RefreshFails, Unloaded
  <1>5. QED BY <1>1, <1>2, <1>3, <1>4 DEF Next

LEMMA SilenceInvStep ==
    ASSUME SilenceInv, IdleInv', [Next]_vars PROVE SilenceInv'
  <1>0. phase' = "fresh" => \A m \in Mac : Online(prev'[m]) => prev'[m].last > 0
    BY FreshStep
  <1>1. CASE Halted
    BY <1>0, <1>1, EmptySilent DEF Halted, history, SilenceInv
  <1>2. ASSUME NEW dt \in Gaps \cup Downtimes \cup {0}, Waited(dt) PROVE SilenceInv'
    <2>1. prev \in State /\ disk \in State /\ sinceScan \in Age /\ sinceRush \in Age /\ dt \in Nat
      BY ClockAssumption DEF SilenceInv, IdleInv, TypeOK
    <2>2. /\ Silent(AgedAll(prev, dt), Older(sinceScan, dt), Older(sinceRush, dt))
          /\ Silent(AgedAll(disk, dt), Older(sinceScan, dt), Older(sinceRush, dt))
      BY <2>1, AgedSilent DEF SilenceInv
    <2>3. QED BY <1>0, <1>2, <2>2, EmptySilent DEF Waited, Passed, SilenceInv
  <1>3. ASSUME NEW seen \in Seen, NEW aps \in SUBSET MaybeAp, NEW dt \in Gaps \cup {0},
               Looked(seen, aps, dt)
        PROVE  SilenceInv'
    <2>1. /\ Silent(Detected(seen, aps, dt), 0, RushAge(dt))
          /\ Silent(AgedAll(disk, dt), 0, RushAge(dt))
      BY <1>3, DetectedSilence DEF Looked
    <2>2. QED BY <1>0, <1>3, <2>1, EmptySilent DEF Looked, Observed, SilenceInv
  <1>4. QED BY <1>1, <1>2, <1>3, StepKinds

LEMMA DisconnectsStep ==
    ASSUME SilenceInv, DisconnectAfterThreshold, [Next]_vars PROVE DisconnectAfterThreshold'
  <1>1. CASE UNCHANGED vars
    BY <1>1 DEF vars, history, DisconnectAfterThreshold, Thr
  <1>2. CASE appended' = {}
    BY <1>2 DEF DisconnectAfterThreshold
  <1>3. CASE ~UNCHANGED vars /\ appended' # {}
    <2>1. Scan
      BY <1>3, EventsFromScan DEF SilenceInv
    <2>2. PICK seen \in Seen, aps \in SUBSET MaybeAp, dt \in Gaps \cup {0} :
              /\ Due(dt) /\ secs' = secs /\ Observed(dt)
              /\ prev' = Detected(seen, aps, dt)
              /\ appended' = Events(seen, aps, dt)
      BY <2>1 DEF Scan
    <2>3. Thr' = Thr /\ sinceRush' = RushAge(dt)
      BY <2>2 DEF Thr, Observed
    <2>4. QED BY <2>2, <2>3, DetectedSilence DEF DisconnectAfterThreshold
  <1>4. QED BY <1>1, <1>2, <1>3

\* A disconnect is recorded for a device only if its last answer is as old as the
\* threshold in whole scans, whatever fails or restarts in between, unless a scan
\* since that answer came sooner than ScanInterval after its predecessor.
THEOREM DisconnectsAreDue == Spec => []DisconnectAfterThreshold
  <1>1. Init => SilenceInv /\ DisconnectAfterThreshold
    BY TypeInit, EmptySilent DEF Init, SilenceInv, IdleInv, DisconnectAfterThreshold
  <1>2. IdleInv /\ TypeOK' /\ [Next]_vars => IdleInv'
    BY IdleInvStep
  <1>3. SilenceInv /\ IdleInv' /\ [Next]_vars => SilenceInv'
    BY SilenceInvStep
  <1>4. SilenceInv /\ DisconnectAfterThreshold /\ [Next]_vars => DisconnectAfterThreshold'
    BY DisconnectsStep
  <1>5. SilenceInv => IdleInv
    BY DEF SilenceInv
  <1>6. QED BY <1>1, <1>2, <1>3, <1>4, <1>5, TypeCorrect, PTL DEF Spec

-----------------------------------------------------------------------------
(* The refinement: every step of Presence is one of Debounce, or a stutter.  *)

\* The count of a device for Debounce, before and after ageing.
MissedBy(e) == IF Online(e) THEN e.miss ELSE FixedThr

LEMMA MissedOf ==
    ASSUME NEW st, NEW m \in Mac PROVE Missed(st)[m] = MissedBy(st[m])
  BY DEF Missed, MissedBy

LEMMA AgedMissed ==
    ASSUME NEW st \in State, NEW dt \in Nat PROVE Missed(AgedAll(st, dt)) = Missed(st)
  <1>1. ASSUME NEW m \in Mac
        PROVE  /\ Online(AgedAll(st, dt)[m]) <=> Online(st[m])
               /\ Online(st[m]) => AgedAll(st, dt)[m].miss = st[m].miss
    BY AgedEntry DEF AgedAll, State, EntryOrNone, Online
  <1>2. QED BY <1>1 DEF Missed

LEMMA EmptyMissed == Missed(Empty) = Abstract!AllGone
  BY DEF Missed, Empty, Online, Abstract!AllGone

LEMMA NothingLogged == ASSUME NEW K, appended = {} PROVE Logged(K) = {}
  BY DEF Logged

\* One scan, as Debounce counts it.
LEMMA DetectedCounts ==
    ASSUME OneThreshold, TrackInv, NEW seen \in Seen, NEW aps \in SUBSET MaybeAp,
           NEW dt \in Gaps \cup {0}
    PROVE  Missed(Detected(seen, aps, dt)) = Abstract!Counted({m \in Mac : IsUp(seen[m])})
  <1>1. TypeOK /\ Thr = FixedThr /\ FixedThr \in Nat \ {0}
    BY ThresholdFixed DEF TrackInv
  <1> DEFINE d(m) == Detected(seen, aps, dt)[m]
             S    == {m \in Mac : IsUp(seen[m])}
  <1>2. ASSUME NEW m \in Mac
        PROVE  MissedBy(d(m)) = IF m \in S THEN 0
                                ELSE IF MissedBy(prev[m]) < FixedThr THEN MissedBy(prev[m]) + 1
                                ELSE FixedThr
    <2>1. /\ IsUp(seen[m]) => Online(d(m)) /\ d(m).miss = 0
          /\ ~IsUp(seen[m]) =>
                /\ Online(d(m)) <=> Online(prev[m]) /\ prev[m].miss + 1 < FixedThr
                /\ Online(d(m)) => d(m).miss = prev[m].miss + 1
      BY <1>1, ScanCounts
    <2>2. Online(prev[m]) => prev[m].miss \in Nat /\ prev[m].miss < FixedThr
      BY DEF TrackInv, TypeOK, State, Entry, Tracked, TrackedEntry, Online
    <2> HIDE DEF d
    <2>3. QED BY <1>1, <2>1, <2>2 DEF MissedBy
  <1>3. \A m \in Mac : Missed(Detected(seen, aps, dt))[m] = MissedBy(d(m))
    BY MissedOf
  <1>4. \A m \in Mac : Missed(prev)[m] = MissedBy(prev[m])
    BY MissedOf
  <1>5. Missed(Detected(seen, aps, dt)) = [m \in Mac |-> MissedBy(d(m))]
    BY DEF Missed, MissedBy
  <1> HIDE DEF d
  <1>6. QED BY <1>2, <1>4, <1>5 DEF Abstract!Counted

\* The events of a scan, as Debounce announces them: each is about a crossing, and
\* there is one for each crossing unless scans have come early.
LEMMA LoggedCrossings ==
    ASSUME OneThreshold, TrackInv, PaceInv, NEW seen \in Seen, NEW aps \in SUBSET MaybeAp,
           NEW dt \in Gaps \cup {0}, NEW m \in Mac
    PROVE  /\ (\E k \in UpEvents : <<m, k>> \in Events(seen, aps, dt))
                  => IsUp(seen[m]) /\ Missed(prev)[m] = FixedThr
           /\ (\E k \in DownEvents : <<m, k>> \in Events(seen, aps, dt))
                  => ~IsUp(seen[m]) /\ Missed(prev)[m] = FixedThr - 1
           /\ RushAge(dt) >= MinInterval =>
                 /\ IsUp(seen[m]) /\ Missed(prev)[m] = FixedThr
                        => \E k \in UpEvents : <<m, k>> \in Events(seen, aps, dt)
                 /\ ~IsUp(seen[m]) /\ Missed(prev)[m] = FixedThr - 1
                        => \E k \in DownEvents : <<m, k>> \in Events(seen, aps, dt)
  <1>1. TypeOK /\ Thr = FixedThr /\ FixedThr \in Nat \ {0} /\ dt \in Nat
    BY ThresholdFixed, ScanTimes DEF TrackInv
  <1>2. PICK e \in EntryOrNone, n \in EntryOrNone, isAp \in BOOLEAN, K \in SUBSET EventType :
            ScannedMac(m, seen, aps, dt, e, isAp, K, n)
    BY <1>1, ScanOfOne
  <1> DEFINE s == seen[m]
  <1>3. /\ s \in SightingOrNone /\ e = Aged(prev[m], dt)
        /\ K = Emitted(e, s, isAp, FixedThr)
        /\ \A k : <<m, k>> \in Events(seen, aps, dt) <=> k \in K
        /\ Online(e) <=> Online(prev[m])
        /\ Online(e) => e.miss = prev[m].miss
    BY <1>1, <1>2 DEF ScannedMac
  <1>4. TrackedEntry(e)
    <2>1. prev[m] \in EntryOrNone /\ TrackedEntry(prev[m])
      BY DEF TrackInv, TypeOK, State, EntryOrNone, Tracked
    <2>2. QED BY <1>1, <1>3, <2>1, AgedEntry DEF TrackedEntry
  <1> HIDE DEF s
  <1>5. /\ Arrives(e, s, FixedThr) <=> IsUp(s) /\ ~Online(e)
        /\ Departs(e, s, FixedThr) <=> ~IsUp(s) /\ Online(e) /\ e.miss + 1 = FixedThr
    BY <1>1, <1>3, <1>4, PresenceCrossings
  <1>6. Missed(prev)[m] = MissedBy(prev[m])
    BY MissedOf
  <1>7. /\ Missed(prev)[m] = FixedThr <=> ~Online(e)
        /\ Missed(prev)[m] = FixedThr - 1 <=> Online(e) /\ e.miss + 1 = FixedThr
    <2>1. Online(prev[m]) => prev[m].miss \in Nat /\ prev[m].miss < FixedThr
      BY DEF TrackInv, TypeOK, State, Entry, Tracked, TrackedEntry, Online
    <2>2. QED BY <1>1, <1>3, <1>6, <2>1 DEF MissedBy
  <1>8. \A k \in K : /\ k \in UpEvents => Arrives(e, s, FixedThr)
                     /\ k \in DownEvents => Departs(e, s, FixedThr)
    BY <1>1, <1>3, EmittedPresence
  <1>9. ASSUME RushAge(dt) >= MinInterval
        PROVE  /\ Arrives(e, s, FixedThr) => \E k \in UpEvents : k \in K
               /\ Departs(e, s, FixedThr) => \E k \in DownEvents : k \in K
    <2>1. \A k \in PresenceDue(e, s, isAp, FixedThr) : k \in K
      BY <1>3, <1>9, DueEmits DEF Emitted
    <2>2. /\ Arrives(e, s, FixedThr) => UpType(e, isAp) \in PresenceDue(e, s, isAp, FixedThr)
          /\ Departs(e, s, FixedThr) => DownType(isAp) \in PresenceDue(e, s, isAp, FixedThr)
      BY DEF PresenceDue
    <2>3. UpType(e, isAp) \in UpEvents /\ DownType(isAp) \in DownEvents
      BY DEF UpType, UpEvents, DownType, DownEvents
    <2>4. QED BY <2>1, <2>2, <2>3
  <1>10. QED BY <1>3, <1>5, <1>7, <1>8, <1>9 DEF s

LEMMA RefinementStep ==
    ASSUME OneThreshold, TrackInv, PaceInv, IdleInv, [Next]_vars
    PROVE  [Abstract!Next]_(Abstract!vars)
  <1>0. /\ prev \in State /\ disk \in State /\ Gaps \cup Downtimes \cup {0} \subseteq Nat
    BY ClockAssumption DEF IdleInv, TypeOK
  <1>1. \A dt \in Gaps \cup Downtimes \cup {0} : /\ Missed(AgedAll(prev, dt)) = Missed(prev)
                                               /\ Missed(AgedAll(disk, dt)) = Missed(disk)
    BY <1>0, AgedMissed
  <1> (sinceRush' < MinInterval) \in BOOLEAN
    OBVIOUS
  <1>2. ASSUME appended' = {} PROVE Abstract!Silent
    BY <1>2, NothingLogged DEF Abstract!Silent, Logged
  <1>3. CASE Start
    <2>1. /\ phase = "down" /\ phase' = "fresh"
          /\ Missed(prev') = Missed(disk) /\ Missed(disk') = Missed(disk) /\ appended' = appended
      BY <1>1, <1>3 DEF Start
    <2>2. Abstract!Recall
      BY <2>1 DEF Abstract!Recall, Logged
    <2>3. QED BY <2>2 DEF Abstract!Next
  <1>4. ASSUME phase # "down", Unloaded, Missed(disk') = Missed(disk) PROVE Abstract!Next
    BY <1>2, <1>4, EmptyMissed DEF Unloaded, Abstract!Next, Abstract!Forget
  <1>5. CASE Scan
    <2>1. PICK seen \in Seen, aps \in SUBSET MaybeAp, dt \in Gaps \cup {0} :
              /\ Due(dt) /\ phase # "down" /\ phase' = "running"
              /\ prev' = Detected(seen, aps, dt) /\ disk' = prev'
              /\ appended' = Events(seen, aps, dt)
              /\ sinceRush' = RushAge(dt)
      BY <1>5 DEF Scan, Due, Observed
    <2> DEFINE S == {m \in Mac : IsUp(seen[m])}
    <2>2. Missed(prev') = Abstract!Counted(S) /\ Missed(disk') = Abstract!Counted(S)
      BY <2>1, DetectedCounts
    <2>3. /\ Logged(UpEvents)' \subseteq Abstract!Back(S)
          /\ Logged(DownEvents)' \subseteq Abstract!Lost(S)
          /\ RushAge(dt) >= MinInterval => /\ Logged(UpEvents)' = Abstract!Back(S)
                                           /\ Logged(DownEvents)' = Abstract!Lost(S)
      <3>1. /\ Logged(UpEvents)' = {m \in Mac : \E k \in UpEvents : <<m, k>> \in Events(seen, aps, dt)}
            /\ Logged(DownEvents)' = {m \in Mac : \E k \in DownEvents : <<m, k>> \in Events(seen, aps, dt)}
        BY <2>1 DEF Logged
      <3>2. /\ Abstract!Back(S) = {m \in Mac : IsUp(seen[m]) /\ Missed(prev)[m] = FixedThr}
            /\ Abstract!Lost(S) = {m \in Mac : ~IsUp(seen[m]) /\ Missed(prev)[m] = FixedThr - 1}
        BY DEF Abstract!Back, Abstract!Lost
      <3>3. QED BY <3>1, <3>2, LoggedCrossings
    <2>4. ~(sinceRush' < MinInterval) => RushAge(dt) >= MinInterval
      <3>1. RushAge(dt) \in Int /\ MinInterval \in Int
        BY ScanTimes, ClockAssumption DEF IdleInv, Age, MinInterval
      <3>2. QED BY <2>1, <3>1
    <2>5. MinInterval' = MinInterval
      BY DEF MinInterval
    <2>6. Abstract!Observe(S)
      BY <2>1, <2>2, <2>3, <2>4, <2>5 DEF Abstract!Observe
    <2>7. QED BY <2>6 DEF Abstract!Next
  <1>6. CASE ScanSaveFails
    <2>1. PICK seen \in Seen, aps \in SUBSET MaybeAp, dt \in Gaps \cup {0} :
              phase # "down" /\ RefreshFails(Detected(seen, aps, dt)) /\ disk' = AgedAll(disk, dt)
      BY <1>6 DEF ScanSaveFails, Due
    <2> DEFINE S == {m \in Mac : IsUp(seen[m])}
    <2>2. CASE phase = "fresh"
      BY <1>1, <1>4, <2>1, <2>2 DEF RefreshFails
    <2>3. CASE phase # "fresh"
      <3>1. phase' = phase /\ prev' = Detected(seen, aps, dt) /\ appended' = {}
        BY <2>1, <2>3 DEF RefreshFails
      <3>2. Missed(prev') = Abstract!Counted(S) /\ Missed(disk') = Missed(disk)
        BY <1>1, <2>1, <3>1, DetectedCounts
      <3>3. Abstract!ObserveUnsaved(S)
        BY <1>2, <2>1, <3>1, <3>2 DEF Abstract!ObserveUnsaved
      <3>4. QED BY <3>3 DEF Abstract!Next
    <2>4. QED BY <2>2, <2>3
  <1>7. CASE ScanKilled
    <2>1. PICK seen \in Seen, aps \in SUBSET MaybeAp, dt \in Gaps \cup {0} :
              phase # "down" /\ disk' = Detected(seen, aps, dt) /\ Unloaded
      BY <1>7 DEF ScanKilled, Due
    <2> DEFINE S == {m \in Mac : IsUp(seen[m])}
    <2>2. Missed(disk') = Abstract!Counted(S)
      BY <2>1, DetectedCounts
    <2>3. phase' = "down" /\ Missed(prev') = Abstract!AllGone /\ appended' = {}
      BY <2>1, EmptyMissed DEF Unloaded
    <2>4. Abstract!ObserveUnheard(S)
      BY <1>2, <2>1, <2>2, <2>3 DEF Abstract!ObserveUnheard
    <2>5. QED BY <2>4 DEF Abstract!Next
  <1>8. CASE ScanPartial
    <2>1. /\ phase # "down" /\ phase' = "running"
          /\ Missed(prev') = Missed(prev) /\ Missed(disk') = Missed(disk) /\ appended' = {}
      BY <1>1, <1>8 DEF ScanPartial, Due
    <2>2. Abstract!Quiet
      BY <1>2, <2>1 DEF Abstract!Quiet
    <2>3. QED BY <2>2 DEF Abstract!Next
  <1>9. CASE ScanUnreachable
    <2>1. phase # "down" /\ Missed(disk') = Missed(disk) /\ RefreshFails(Empty)
      BY <1>1, <1>9 DEF ScanUnreachable, Due
    <2>2. CASE phase = "fresh"
      BY <1>4, <2>1, <2>2 DEF RefreshFails
    <2>3. CASE phase # "fresh"
      <3>1. phase' = phase /\ Missed(prev') = Abstract!AllGone /\ appended' = {}
        BY <2>1, <2>3, EmptyMissed DEF RefreshFails
      <3>2. Abstract!Forget
        BY <1>2, <2>1, <3>1 DEF Abstract!Forget
      <3>3. QED BY <3>2 DEF Abstract!Next
    <2>4. QED BY <2>2, <2>3
  <1>10. CASE Stop
    BY <1>4, <1>10 DEF Stop
  <1>11. CASE Reboot
    <2>1. /\ phase = "down" /\ phase' = phase
          /\ Missed(disk') = Abstract!AllGone /\ prev' = prev /\ appended' = appended
      BY <1>11, EmptyMissed DEF Reboot
    <2>2. Abstract!Erase
      BY <2>1 DEF Abstract!Erase, Logged
    <2>3. QED BY <2>2 DEF Abstract!Next
  <1>12. CASE UNCHANGED vars
    BY <1>12 DEF vars, history, Abstract!vars, Missed, Logged, MinInterval
  <1>13. QED
    BY <1>3, <1>5, <1>6, <1>7, <1>8, <1>9, <1>10, <1>11, <1>12 DEF Next

\* detect_events with its state file, rate limit, pruning and every way a scan can
\* fail is a debouncer: a device is online while it has missed fewer scans than the
\* threshold, no change of that is announced twice or without a cause, and none
\* stays unannounced unless scans come faster than the interval.
THEOREM PresenceDebounces ==
    ASSUME OneThreshold PROVE Spec => ImplementsDebounce
  <1>1. Init => Abstract!Init
    BY EmptyMissed, NothingLogged DEF Init, Abstract!Init
  <1>2. Init => IdleInv
    BY TypeInit DEF Init, IdleInv
  <1>3. IdleInv /\ TypeOK' /\ [Next]_vars => IdleInv'
    BY IdleInvStep
  <1>4. TrackInv /\ PaceInv /\ IdleInv /\ [Next]_vars => [Abstract!Next]_(Abstract!vars)
    BY RefinementStep
  <1>5. QED
    BY <1>1, <1>2, <1>3, <1>4, TrackInvariant, PaceInvariant, TypeCorrect, PTL
    DEF Spec, ImplementsDebounce, Abstract!Spec
=============================================================================
