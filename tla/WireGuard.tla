----------------------------- MODULE WireGuard -----------------------------
(***************************************************************************)
(* WireGuard peers: every scan asks all hosts in parallel, the answers     *)
(* become the block that the peer trackers read, and the next rates are    *)
(* computed from the counters kept of them.  Tracker entries outlive the   *)
(* coordinator; set-up removes those of peers that are gone.               *)
(*                                                                         *)
(* Hosts and Home Assistant are taken to agree on the time.                *)
(***************************************************************************)
EXTENDS Integers, FiniteSets, Functions

CONSTANTS
    Host,           \* gateway and access points
    Peer, HostOf,   \* peers, and the host that each one connects to
    Stale,          \* wg_stale_threshold_s
    MinElapsed, MaxAge,   \* BW_MIN_ELAPSED_S, BW_MAX_AGE_S
    NoScan, NoData, NoRate, Waiting, Failed,
    Cap             \* bound on the traffic of a behaviour

ASSUME PeerAssumption == HostOf \in [Peer -> Host] /\ IsFiniteSet(Host) /\ Host # {}
ASSUME TimeAssumption ==
    Stale \in Nat /\ MinElapsed \in Nat /\ MaxAge \in Nat /\ MinElapsed <= MaxAge /\ Cap \in Nat
ASSUME NamesAssumption == Cardinality({NoData, Waiting, Failed}) = 3 /\ NoRate \notin Int

VARIABLES
    up,         \* peers of the interfaces that run
    seen,       \* time since the latest handshake, at most Stale + 1
    count,      \* the transfer counter of a peer
    total,      \* what the peer has really transferred
    enabled,    \* the option, as of the last set-up
    loaded,     \* set-up has finished
    scan,       \* the answers of the hosts
    base,       \* _wg_bw_state
    data,       \* the wireguard block of coordinator.data; NoData for None
    ok,         \* last_update_success
    registry,   \* peers with a tracker entry
    touched,    \* peers that came up since the current scan began
    began,      \* time since the current or last scan began, at most Stale + 1
    age         \* time since the scan began that data comes from, at most Stale + 1

server  == <<up, seen, count, total, touched>>
entry   == <<enabled, loaded, base, data, ok, registry, age>>
vars    == <<server, entry, scan, began>>

Answer  == [online : BOOLEAN, count : Nat, total : Nat]
Row     == [online : BOOLEAN, rate : Nat \cup {NoRate}]

AtMost(n, bound) == IF n < bound THEN n ELSE bound

-----------------------------------------------------------------------------
(* A host answers *)

\* parse_wg_show_sections.  Without lines of its own a peer has never shaken
\* hands and transferred nothing.
PeerInfo(p, lines) ==
    [online |-> lines /\ seen[p] <= Stale, count |-> IF lines THEN count[p] ELSE 0, total |-> total[p]]

PeersOf(h) == {p \in up : HostOf[p] = h}

Reply(h) ==
    /\ scan # NoScan /\ scan[h] = Waiting
    /\ scan' = [scan EXCEPT ![h] = [p \in PeersOf(h) |-> PeerInfo(p, TRUE)]]
    /\ UNCHANGED <<server, entry, began>>

\* The interfaces go down between two of the commands that list them.
TornReply(h) ==
    /\ scan # NoScan /\ scan[h] = Waiting /\ PeersOf(h) # {}
    /\ scan' = [scan EXCEPT ![h] = [p \in PeersOf(h) |-> PeerInfo(p, FALSE)]]
    /\ up' = up \ PeersOf(h)
    /\ UNCHANGED <<seen, count, total, touched, entry, began>>

NoReply(h) ==
    /\ scan # NoScan /\ scan[h] = Waiting
    /\ scan' = [scan EXCEPT ![h] = Failed]
    /\ UNCHANGED <<server, entry, began>>

-----------------------------------------------------------------------------
(* The scan *)

\* The main collection comes first; the hosts are asked for peers only when
\* the gateway has answered it.
Begin ==
    /\ scan = NoScan /\ enabled
    /\ scan' = [h \in Host |-> Waiting]
    /\ began' = 0 /\ touched' = {}
    /\ UNCHANGED <<up, seen, count, total, entry>>

Answered == scan # NoScan /\ \A h \in Host : scan[h] # Waiting

\* A fault: the peers of a host that failed are left out.
Block_SkipsFailed(s) ==
    LET hosts == {h \in Host : s[h] # Failed}
    IN  [p \in UNION {DOMAIN s[h] : h \in hosts} |-> s[HostOf[p]][p]]

\* _collect_wireguard: one failure and there is no block at all.
Block(s) ==
    IF \E h \in Host : s[h] = Failed THEN NoData
    ELSE [p \in UNION {DOMAIN s[h] : h \in Host} |-> s[HostOf[p]][p]]

\* Faults: a counter that has started over, taken for a smaller one.
Delta_Unchecked(b, a) == a.count - b.count
Delta_Absolute(b, a)  == IF a.count < b.count THEN b.count - a.count ELSE a.count - b.count

Delta(b, a) == IF a.count < b.count THEN NoRate ELSE a.count - b.count

\* _compute_wg_rates, a rate being the transfer it is computed from.
RowOf(p, a) ==
    LET b == base[p]
    IN  IF p \notin DOMAIN base \/ b.age >= MaxAge \/ b.age < MinElapsed
        THEN [online |-> a.online, rate |-> NoRate]
        ELSE [online |-> a.online, rate |-> Delta(b, a)]

\* A fault: no block is an empty block.
Orphans_NoDataIsEmpty(block) == registry \ (IF block = NoData THEN {} ELSE DOMAIN block)

\* _prune_wireguard_entities with the option on.
Orphans(block) == IF block = NoData THEN {} ELSE registry \ DOMAIN block

\* The listener of the tracker platform adds a tracker for every new peer.
Tracked(trackers, block) == trackers \cup DOMAIN block

\* The answers are in: rates, the block, trackers for new peers, and at
\* set-up the removal of orphans.  Baselines change with a block only.
Finish ==
    LET block == Block(scan)
        kept  == IF loaded THEN registry ELSE registry \ Orphans(block)
    IN  /\ Answered
        /\ scan' = NoScan /\ ok' = TRUE /\ loaded' = TRUE /\ age' = began
        /\ IF block = NoData
           THEN /\ data' = NoData /\ registry' = kept
                /\ UNCHANGED base
           ELSE /\ data' = [p \in DOMAIN block |-> RowOf(p, block[p])]
                /\ base' = [p \in DOMAIN block |-> [count |-> block[p].count, total |-> block[p].total, age |-> 0]]
                /\ registry' = Tracked(kept, block)
        /\ UNCHANGED <<server, began, enabled>>

\* The gateway does not answer the main collection: a partial payload if
\* devices are remembered or not asked for, else UpdateFailed.
GatewaySilent ==
    /\ scan = NoScan /\ enabled
    /\ \/ ok' = TRUE /\ data' = NoData /\ loaded' = TRUE
       \/ ok' = FALSE /\ UNCHANGED <<data, loaded>>
    /\ UNCHANGED <<server, scan, began, enabled, base, registry, age>>

\* Set-up with the option off removes all trackers.
SetUpDisabled ==
    /\ ~enabled /\ ~loaded
    /\ loaded' = TRUE /\ registry' = {}
    /\ UNCHANGED <<server, scan, began, enabled, base, data, ok, age>>

\* Home Assistant restarts, or the entry is reloaded for its options.
Reload ==
    /\ enabled' \in BOOLEAN
    /\ loaded' = FALSE /\ scan' = NoScan /\ data' = NoData /\ ok' = TRUE /\ base' = <<>>
    /\ UNCHANGED <<server, began, registry, age>>

-----------------------------------------------------------------------------
(* The peers *)

\* An interface that starts has peers without handshakes and counters of 0.
Join(p) ==
    /\ p \notin up
    /\ up' = up \cup {p} /\ touched' = touched \cup {p}
    /\ seen' = [seen EXCEPT ![p] = Stale + 1] /\ count' = [count EXCEPT ![p] = 0]
    /\ UNCHANGED <<total, began, entry, scan>>

Leave(p) ==
    /\ p \in up
    /\ up' = up \ {p}
    /\ UNCHANGED <<seen, count, total, touched, began, entry, scan>>

Handshake(p) ==
    /\ p \in up /\ seen[p] > 0
    /\ seen' = [seen EXCEPT ![p] = 0]
    /\ UNCHANGED <<up, count, total, touched, began, entry, scan>>

Transfer(p) ==
    /\ p \in up /\ total[p] < Cap
    /\ count' = [count EXCEPT ![p] = @ + 1] /\ total' = [total EXCEPT ![p] = @ + 1]
    /\ UNCHANGED <<up, seen, touched, began, entry, scan>>

Tick ==
    /\ seen' = [p \in Peer |-> AtMost(seen[p] + 1, Stale + 1)]
    /\ age' = AtMost(age + 1, Stale + 1) /\ began' = AtMost(began + 1, Stale + 1)
    /\ base' = [p \in DOMAIN base |-> [base[p] EXCEPT !.age = AtMost(@ + 1, MaxAge)]]
    /\ UNCHANGED <<up, count, total, touched, scan, enabled, loaded, data, ok, registry>>

Init ==
    /\ up \in SUBSET Peer
    /\ seen = [p \in Peer |-> Stale + 1] /\ count = [p \in Peer |-> 0] /\ total = [p \in Peer |-> 0]
    /\ enabled \in BOOLEAN /\ loaded = FALSE /\ scan = NoScan /\ began = 0 /\ base = <<>>
    /\ data = NoData /\ ok = TRUE /\ registry = {} /\ touched = {} /\ age = 0

Next ==
    \/ Begin \/ Finish \/ GatewaySilent \/ SetUpDisabled \/ Reload \/ Tick
    \/ \E h \in Host : Reply(h) \/ TornReply(h) \/ NoReply(h)
    \/ \E p \in Peer : Join(p) \/ Leave(p) \/ Handshake(p) \/ Transfer(p)

Spec == Init /\ [][Next]_vars

-----------------------------------------------------------------------------
(* Properties *)

Baseline == [count : Nat, total : Nat, age : 0 .. MaxAge]

\* The variables have the values the code gives them; a rate is not negative.
TypeOK ==
    /\ up \subseteq Peer /\ touched \subseteq Peer /\ registry \subseteq Peer
    /\ seen \in [Peer -> 0 .. Stale + 1] /\ age \in 0 .. Stale + 1 /\ began \in 0 .. Stale + 1
    /\ count \in [Peer -> Nat] /\ total \in [Peer -> Nat]
    /\ enabled \in BOOLEAN /\ loaded \in BOOLEAN /\ ok \in BOOLEAN
    /\ DOMAIN base \subseteq Peer /\ \A p \in DOMAIN base : base[p] \in Baseline
    /\ data # NoData => DOMAIN data \subseteq Peer /\ \A p \in DOMAIN data : data[p] \in Row
    /\ scan # NoScan =>
         /\ DOMAIN scan = Host
         /\ \A h \in Host : scan[h] \notin {Waiting, Failed} =>
              DOMAIN scan[h] \subseteq Peer /\ \A p \in DOMAIN scan[h] : scan[h][p] \in Answer

Available == loaded /\ ok /\ data # NoData
Connected(p) == p \in DOMAIN data /\ data[p].online

\* A tracker that says not_home is right: its peer had no fresh handshake when
\* the hosts were asked; a host that did not answer never makes one go offline.
NotHomeIsTrue ==
    \A p \in registry :
        Available /\ ~Connected(p) => p \notin up \/ seen[p] > Stale \/ seen[p] <= age

\* Set-up removes a tracker only if the option is off or the peer was not on
\* a running interface, also when a host or the gateway is silent just then.
PruneOnlyGone ==
    [][\A p \in registry \ registry' : ~enabled \/ p \notin up \/ p \in touched]_vars

\* No rate shows more than the peer transferred between the two answers it is
\* computed from, whatever restarts, failed scans and half answers came between.
RateIsReal ==
    [][\A p \in DOMAIN base \cap DOMAIN base' :
          Finish /\ data' # NoData /\ data'[p].rate # NoRate
              => data'[p].rate <= base'[p].total - base[p].total]_vars
=============================================================================
