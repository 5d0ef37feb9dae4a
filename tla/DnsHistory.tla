----------------------------- MODULE DnsHistory -----------------------------
(***************************************************************************)
(* DNS statistics: the counters of dnsmasq, which start over when it does, *)
(* the history file that a scan appends a sample to, and the roll-ups over *)
(* the last scan and longer windows computed from it.                      *)
(*                                                                         *)
(* A sample keeps its age instead of its time stamp.  hits_since, ...      *)
(* are not in the file: they are what has really happened since.           *)
(***************************************************************************)
EXTENDS Integers, Sequences, SequencesExt, FiniteSetsExt

CONSTANTS
    Window,         \* lengths of the roll-ups (1 h, 8 h, 24 h)
    MaxAge,         \* DNS_HISTORY_MAX_AGE_S
    LastScanGap,    \* DNS_LAST_SCAN_MAX_GAP_S
    Gaps,           \* time between two samples
    Skips,          \* whether samples without a latency are skipped when read back
    LookupCap       \* bound on the lookups and restarts since a sample

ASSUME TimeAssumption ==
    /\ Window \subseteq Nat \ {0} /\ MaxAge \in Nat /\ LastScanGap \in Nat
    /\ Gaps \subseteq Nat \ {0} /\ Skips \subseteq BOOLEAN /\ LookupCap \in Nat

VARIABLES
    hits, misses,   \* lookups answered from the cache, and not, since dnsmasq started
    history,        \* .netscan_dns_history.jsonl
    skips           \* which of the two programs it is: TRUE for the coordinator

dnsVars == <<hits, misses, history, skips>>

Sample == [age : 0 .. MaxAge, hits : Nat, misses : Nat, latency : BOOLEAN,
           hits_since : Nat, misses_since : Nat, restarts_since : Nat]

-----------------------------------------------------------------------------
(* Roll-ups over a history whose last element is the current sample *)

Empty == [hits |-> 0, misses |-> 0, elapsed |-> 0]

Rollup(base, cur) ==
    IF base.age <= cur.age \/ cur.hits < base.hits \/ cur.misses < base.misses THEN Empty
    ELSE [hits |-> cur.hits - base.hits, misses |-> cur.misses - base.misses,
          elapsed |-> base.age - cur.age]

Drops(h) == {i \in 2 .. Len(h) : h[i].hits < h[i - 1].hits \/ h[i].misses < h[i - 1].misses}

\* Faults: only hits show a restart; the sample before it is kept.
SegmentStart_HitsOnly(h) == Max({1} \cup {i \in 2 .. Len(h) : h[i].hits < h[i - 1].hits})
SegmentStart_Before(h)   == Max({1} \cup {i - 1 : i \in Drops(h)})

SegmentStart(h) == Max({1} \cup Drops(h))

\* The last sample at least a window old, or the first of the segment.
Baseline(h, w) ==
    Max({SegmentStart(h)} \cup {i \in SegmentStart(h) .. Len(h) : h[i].age >= w})

PeriodRollup(h, w) == IF h = <<>> THEN Empty ELSE Rollup(h[Baseline(h, w)], Last(h))

LastScanRollup(h) ==
    IF Len(h) <= SegmentStart(h) \/ h[Len(h) - 1].age - Last(h).age > LastScanGap THEN Empty
    ELSE Rollup(h[Len(h) - 1], Last(h))

-----------------------------------------------------------------------------
(* The history file *)

HasLatency(s) == s.latency

\* The samples at positions I, in their order.
Only(h, I) ==
    LET kept[n \in 0 .. Len(h)] ==
            IF n = 0 THEN <<>> ELSE IF n \in I THEN Append(kept[n - 1], h[n]) ELSE kept[n - 1]
    IN  kept[Len(h)]

\* Both programs read every line back; the coordinator skips those without a
\* latency, so such a sample counts in its own scan only.
Load(h) == IF skips THEN Only(h, {i \in DOMAIN h : HasLatency(h[i])}) ELSE h

Current(lat) ==
    [age |-> 0, hits |-> hits, misses |-> misses, latency |-> lat,
     hits_since |-> 0, misses_since |-> 0, restarts_since |-> 0]

Recent_Always(s) == TRUE                                 \* a fault
Recent(s) == s.age <= MaxAge
Aged(h, dt) == [i \in DOMAIN h |-> [h[i] EXCEPT !.age = @ + dt]]

\* _append_dns_history, dt after the previous sample.
Record ==
    \E dt \in Gaps, lat \in BOOLEAN :
        /\ LET h == Aged(Load(history), dt)
           IN  history' = Append(Only(h, {i \in DOMAIN h : Recent(h[i])}), Current(lat))
        /\ UNCHANGED <<hits, misses, skips>>

\* /dev/shm is lost, or the file was removed with the last entry.
Forget ==
    /\ history # <<>> /\ history' = <<>>
    /\ UNCHANGED <<hits, misses, skips>>

-----------------------------------------------------------------------------
(* dnsmasq *)

\* Bound: at most LookupCap lookups and restarts since the oldest sample.
Bounded == \A s \in ToSet(history') : s.hits_since + s.misses_since + s.restarts_since <= LookupCap

Hit ==
    /\ hits < LookupCap
    /\ hits' = hits + 1
    /\ history' = [i \in DOMAIN history |-> [history[i] EXCEPT !.hits_since = @ + 1]]
    /\ Bounded
    /\ UNCHANGED <<misses, skips>>

Miss ==
    /\ misses < LookupCap
    /\ misses' = misses + 1
    /\ history' = [i \in DOMAIN history |-> [history[i] EXCEPT !.misses_since = @ + 1]]
    /\ Bounded
    /\ UNCHANGED <<hits, skips>>

Restart ==
    /\ hits + misses > 0
    /\ hits' = 0 /\ misses' = 0
    /\ history' = [i \in DOMAIN history |-> [history[i] EXCEPT !.restarts_since = @ + 1]]
    /\ Bounded
    /\ UNCHANGED skips

DnsInit ==
    /\ hits \in 0 .. 1 /\ misses \in 0 .. 1
    /\ history = <<>> /\ skips \in Skips

DnsNext == Record \/ Forget \/ Hit \/ Miss \/ Restart

DnsSpec == DnsInit /\ [][DnsNext]_dnsVars

-----------------------------------------------------------------------------
(* Properties *)

\* The file holds samples in the order they were taken, none too old.
TypeOK ==
    /\ hits \in Nat /\ misses \in Nat /\ skips \in BOOLEAN
    /\ history \in Seq(Sample)
    /\ \A i \in 2 .. Len(history) : history[i].age < history[i - 1].age

\* A restart that the samples kept do not show: the counters have passed
\* their old values again.
Hidden(h) ==
    {i \in (2 .. Len(h)) \ Drops(h) : h[i].restarts_since < h[i - 1].restarts_since}
Shown(b) == Hidden(history) \cap (b + 1 .. Len(history)) = {}

\* A period counts exactly the lookups made since its first sample, whatever
\* restarts the samples show: hits of one life of dnsmasq are never set
\* against those of another.
PeriodIsExact ==
    history # <<>> => \A w \in Window :
        LET b == Baseline(history, w)
            r == PeriodRollup(history, w)
        IN  r # Empty /\ Shown(b) =>
                /\ r.hits = history[b].hits_since - Last(history).hits_since
                /\ r.misses = history[b].misses_since - Last(history).misses_since

\* The periods contain each other: a shorter one never shows more lookups
\* than a longer one, nor the last scan more than any.
Covers(s, r) == r.hits <= s.hits /\ r.misses <= s.misses /\ r.elapsed <= s.elapsed
PeriodsNest ==
    history # <<>> =>
        /\ \A v, w \in Window : v <= w => Covers(PeriodRollup(history, w), PeriodRollup(history, v))
        /\ \A w \in Window : Covers(PeriodRollup(history, w), LastScanRollup(history))
=============================================================================
