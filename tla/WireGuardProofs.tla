-------------------------- MODULE WireGuardProofs --------------------------
(***************************************************************************)
(* What peer trackers and rates guarantee for any number of hosts and      *)
(* peers and any timing.                                                   *)
(***************************************************************************)
EXTENDS WireGuard, TLAPS

Heard(h) == scan # NoScan /\ scan[h] \notin {Waiting, Failed}

(* The peer is not connected, or has shaken hands less than t ago only.    *)
Away(p, t) == p \notin up \/ seen[p] > Stale \/ seen[p] <= t

(* What says that a peer is offline, an answer or the block, was right     *)
(* when its scan began or is since.                                        *)
AnswersTrue ==
    \A h \in Host : Heard(h) => \A p \in Peer :
        HostOf[p] = h /\ ~(p \in DOMAIN scan[h] /\ scan[h][p].online) => Away(p, began)
DataTrue ==
    data # NoData => \A p \in Peer : ~Connected(p) => Away(p, age)

(* Hosts answer for their own peers, and for all that were up before.      *)
AnswersOwn ==
    \A h \in Host : Heard(h) => \A p \in DOMAIN scan[h] : p \in Peer /\ HostOf[p] = h
AnswersComplete ==
    \A h \in Host : Heard(h) => \A p \in Peer :
        HostOf[p] = h /\ p \notin DOMAIN scan[h] => p \notin up \/ p \in touched

(* Counters grow by no more than what is transferred since they were read, *)
(* as long as the interface is up.                                         *)
Behind(p, r) == r.total <= total[p] /\ (p \in up => count[p] - r.count <= total[p] - r.total)
BaseBehind == \A p \in DOMAIN base : Behind(p, base[p])
AnswersBehind ==
    \A h \in Host : Heard(h) => \A p \in DOMAIN scan[h] :
        /\ Behind(p, scan[h][p])
        /\ p \in DOMAIN base => scan[h][p].count - base[p].count <= scan[h][p].total - base[p].total

Inv == TypeOK /\ AnswersTrue /\ DataTrue /\ AnswersOwn /\ AnswersComplete /\ BaseBehind /\ AnswersBehind

-----------------------------------------------------------------------------
(* Operators *)

LEMMA PeerInfoType ==
    ASSUME TypeOK, NEW p \in Peer, NEW lines \in BOOLEAN
    PROVE  /\ PeerInfo(p, lines) \in Answer
           /\ PeerInfo(p, lines).online <=> (lines /\ seen[p] <= Stale)
           /\ PeerInfo(p, lines).count = (IF lines THEN count[p] ELSE 0)
           /\ PeerInfo(p, lines).total = total[p]
  <1>1. (lines /\ seen[p] <= Stale) \in BOOLEAN
    OBVIOUS
  <1>2. count[p] \in Nat /\ total[p] \in Nat
    BY DEF TypeOK
  <1>3. (IF lines THEN count[p] ELSE 0) \in Nat
    BY <1>2
  <1>4. QED BY <1>1, <1>2, <1>3 DEF PeerInfo, Answer

LEMMA AtMostType ==
    ASSUME NEW n \in Nat, NEW bound \in Nat
    PROVE  AtMost(n, bound) \in 0 .. bound
BY DEF AtMost

\* A block holds what the hosts have answered, peer by peer.
LEMMA BlockType ==
    ASSUME TypeOK, AnswersOwn, Answered, Block(scan) # NoData
    PROVE  /\ \A h \in Host : Heard(h)
           /\ DOMAIN Block(scan) \subseteq Peer
           /\ \A p \in Peer : p \in DOMAIN Block(scan) <=> p \in DOMAIN scan[HostOf[p]]
           /\ \A p \in DOMAIN Block(scan) : Block(scan)[p] = scan[HostOf[p]][p] /\ Block(scan)[p] \in Answer
  <1>1. (\A h \in Host : scan[h] # Failed) /\ Block(scan) = [p \in UNION {DOMAIN scan[h] : h \in Host} |-> scan[HostOf[p]][p]]
    BY DEF Block
  <1>2. \A h \in Host : Heard(h)
    BY <1>1 DEF Answered, Heard
  <1>3. DOMAIN Block(scan) = UNION {DOMAIN scan[h] : h \in Host}
    BY <1>1
  <1>4. \A p \in Peer : HostOf[p] \in Host
    BY PeerAssumption
  <1>5. \A h \in Host : \A p \in DOMAIN scan[h] : p \in Peer /\ HostOf[p] = h
    BY <1>2 DEF AnswersOwn
  <1>6. \A p \in DOMAIN Block(scan) : p \in Peer /\ p \in DOMAIN scan[HostOf[p]]
    BY <1>3, <1>5
  <1>7. \A p \in DOMAIN Block(scan) : Block(scan)[p] = scan[HostOf[p]][p]
    BY <1>1, <1>3
  <1>8. \A h \in Host : \A p \in DOMAIN scan[h] : scan[h][p] \in Answer
    BY <1>2 DEF Heard, TypeOK
  <1>9. QED BY <1>2, <1>3, <1>4, <1>6, <1>7, <1>8

LEMMA RowType ==
    ASSUME TypeOK, NEW p \in Peer, NEW a \in Answer
    PROVE  /\ RowOf(p, a) \in Row
           /\ RowOf(p, a).online <=> a.online
           /\ RowOf(p, a).rate # NoRate =>
                p \in DOMAIN base /\ RowOf(p, a).rate = a.count - base[p].count
  <1>1. a.online \in BOOLEAN /\ a.count \in Nat
    BY DEF Answer
  <1>2. CASE p \notin DOMAIN base \/ base[p].age >= MaxAge \/ base[p].age < MinElapsed
    <2>1. RowOf(p, a) = [online |-> a.online, rate |-> NoRate]
      BY <1>2 DEF RowOf
    <2>2. QED BY <1>1, <2>1 DEF Row
  <1>3. CASE ~(p \notin DOMAIN base \/ base[p].age >= MaxAge \/ base[p].age < MinElapsed)
    <2>1. RowOf(p, a) = [online |-> a.online, rate |-> Delta(base[p], a)]
      BY <1>3 DEF RowOf
    <2>2. base[p].count \in Nat
      BY <1>3 DEF TypeOK, Baseline
    <2>3. Delta(base[p], a) \in Nat \cup {NoRate}
          /\ (Delta(base[p], a) # NoRate => Delta(base[p], a) = a.count - base[p].count)
      BY <1>1, <2>2 DEF Delta
    <2>4. QED BY <1>1, <1>3, <2>1, <2>3 DEF Row
  <1>4. QED BY <1>2, <1>3

-----------------------------------------------------------------------------
(* A host answers *)

\* An answer that is right, from a host whose peers go down if it is torn.
LEMMA AnswerKeepsInv ==
    ASSUME Inv, NEW h \in Host, scan # NoScan, NEW lines \in BOOLEAN,
           scan' = [scan EXCEPT ![h] = [p \in PeersOf(h) |-> PeerInfo(p, lines)]],
           up' = IF lines THEN up ELSE up \ PeersOf(h),
           UNCHANGED <<seen, count, total, touched, entry, began>>
    PROVE  Inv'
  <1>0. TypeOK /\ DOMAIN scan = Host
    BY DEF Inv, TypeOK
  <1>1. /\ scan'[h] = [p \in PeersOf(h) |-> PeerInfo(p, lines)] /\ DOMAIN scan' = Host
        /\ \A g \in Host \ {h} : scan'[g] = scan[g]
    BY <1>0
  <1>2. up' \subseteq up /\ (\A p \in PeersOf(h) : p \in up' => lines)
    OBVIOUS
  <1>3. \A p \in DOMAIN scan'[h] : p \in Peer /\ HostOf[p] = h /\ p \in up /\ scan'[h][p] = PeerInfo(p, lines)
    BY <1>0, <1>1 DEF PeersOf, TypeOK
  <1>4. \A p \in Peer : HostOf[p] = h /\ p \in up => p \in DOMAIN scan'[h]
    BY <1>1 DEF PeersOf
  <1>5. \A p \in DOMAIN scan'[h] : scan'[h][p] \in Answer
    BY <1>0, <1>3, PeerInfoType
  <1>6. TypeOK'
    <2>1. up' \subseteq Peer /\ touched' \subseteq Peer /\ registry' \subseteq Peer
      BY <1>0, <1>2 DEF TypeOK, entry
    <2>2. /\ seen' \in [Peer -> 0 .. Stale + 1] /\ age' \in 0 .. Stale + 1 /\ began' \in 0 .. Stale + 1
          /\ count' \in [Peer -> Nat] /\ total' \in [Peer -> Nat]
          /\ enabled' \in BOOLEAN /\ loaded' \in BOOLEAN /\ ok' \in BOOLEAN
          /\ DOMAIN base' \subseteq Peer /\ \A p \in DOMAIN base' : base'[p] \in Baseline
          /\ (data' # NoData => DOMAIN data' \subseteq Peer /\ \A p \in DOMAIN data' : data'[p] \in Row)
      BY <1>0 DEF TypeOK, entry
    <2>3. \A g \in Host : scan'[g] \notin {Waiting, Failed} =>
            DOMAIN scan'[g] \subseteq Peer /\ \A p \in DOMAIN scan'[g] : scan'[g][p] \in Answer
      BY <1>0, <1>1, <1>3, <1>5 DEF TypeOK
    <2>4. QED BY <1>1, <2>1, <2>2, <2>3 DEF TypeOK
  <1>7. AnswersTrue'
    <2> SUFFICES ASSUME NEW g \in Host, Heard(g)', NEW p \in Peer, HostOf[p] = g,
                        ~(p \in DOMAIN scan'[g] /\ scan'[g][p].online)
                 PROVE  Away(p, began)'
      BY DEF AnswersTrue
    <2>1. CASE g # h
      <3>1. Heard(g) /\ ~(p \in DOMAIN scan[g] /\ scan[g][p].online)
        BY <1>1, <2>1 DEF Heard
      <3>2. Away(p, began)
        BY <3>1 DEF Inv, AnswersTrue
      <3>3. QED BY <1>2, <3>2 DEF Away
    <2>2. CASE g = h /\ p \notin DOMAIN scan'[h]
      BY <1>2, <1>4, <2>2 DEF Away
    <2>3. CASE g = h /\ p \in DOMAIN scan'[h]
      <3>1. ~PeerInfo(p, lines).online
        BY <1>3, <2>3
      <3>2. ~lines \/ ~(seen[p] <= Stale)
        BY <1>0, <3>1, PeerInfoType
      <3>3. seen[p] \in Int /\ Stale \in Int
        BY <1>0, TimeAssumption DEF TypeOK
      <3>4. p \in PeersOf(h)
        BY <1>1, <2>3
      <3>5. QED BY <1>2, <3>2, <3>3, <3>4 DEF Away
    <2>4. QED BY <2>1, <2>2, <2>3
  <1>8. DataTrue'
    BY <1>2 DEF Inv, DataTrue, Connected, Away, entry
  <1>9. AnswersOwn'
    BY <1>1, <1>3 DEF Inv, AnswersOwn, Heard
  <1>10. AnswersComplete'
    BY <1>1, <1>2, <1>4 DEF Inv, AnswersComplete, Heard
  <1>11. BaseBehind'
    BY <1>2 DEF Inv, BaseBehind, Behind, entry
  <1>12. AnswersBehind'
    <2> SUFFICES ASSUME NEW g \in Host, Heard(g)', NEW p \in DOMAIN scan'[g]
                 PROVE  /\ Behind(p, scan[g][p])'
                        /\ p \in DOMAIN base =>
                             scan'[g][p].count - base[p].count <= scan'[g][p].total - base[p].total
      BY DEF AnswersBehind, entry
    <2>1. CASE g # h
      BY <1>1, <1>2, <2>1 DEF Inv, AnswersBehind, Heard, Behind
    <2>2. CASE g = h
      <3>1. p \in Peer /\ p \in up /\ p \in PeersOf(h) /\ scan'[g][p] = PeerInfo(p, lines)
        BY <1>1, <1>3, <2>2
      <3>2. count[p] \in Nat /\ total[p] \in Nat
        BY <1>0, <3>1 DEF TypeOK
      <3>3. /\ scan'[g][p].total = total[p] /\ scan'[g][p].count = (IF lines THEN count[p] ELSE 0)
            /\ (p \in up' => lines)
        BY <1>0, <1>2, <3>1, PeerInfoType
      <3>4. Behind(p, scan[g][p])'
        BY <3>2, <3>3 DEF Behind
      <3>5. ASSUME p \in DOMAIN base
            PROVE  scan'[g][p].count - base[p].count <= scan'[g][p].total - base[p].total
        <4>1. base[p].count \in Nat /\ base[p].total \in Nat
          BY <1>0, <3>5 DEF TypeOK, Baseline
        <4>2. base[p].total <= total[p] /\ count[p] - base[p].count <= total[p] - base[p].total
          BY <3>1, <3>5 DEF Inv, BaseBehind, Behind
        <4>3. QED BY <3>2, <3>3, <4>1, <4>2
      <3>6. QED BY <3>4, <3>5
    <2>3. QED BY <2>1, <2>2
  <1>13. QED BY <1>6, <1>7, <1>8, <1>9, <1>10, <1>11, <1>12 DEF Inv

LEMMA RepliesKeepInv ==
    ASSUME Inv, NEW h \in Host, Reply(h) \/ TornReply(h) \/ NoReply(h)
    PROVE  Inv'
  <1>1. CASE Reply(h)
    <2>1. /\ scan # NoScan /\ scan' = [scan EXCEPT ![h] = [p \in PeersOf(h) |-> PeerInfo(p, TRUE)]]
          /\ up' = up /\ UNCHANGED <<seen, count, total, touched, entry, began>>
      BY <1>1 DEF Reply, server
    <2>2. QED BY <2>1, AnswerKeepsInv
  <1>2. CASE TornReply(h)
    <2>1. /\ scan # NoScan /\ scan' = [scan EXCEPT ![h] = [p \in PeersOf(h) |-> PeerInfo(p, FALSE)]]
          /\ up' = up \ PeersOf(h) /\ UNCHANGED <<seen, count, total, touched, entry, began>>
      BY <1>2 DEF TornReply
    <2>2. QED BY <2>1, AnswerKeepsInv
  <1>3. CASE NoReply(h)
    <2>1. /\ scan # NoScan /\ scan' = [scan EXCEPT ![h] = Failed]
          /\ UNCHANGED <<server, entry, began>>
      BY <1>3 DEF NoReply
    <2>2. DOMAIN scan = Host
      BY <2>1 DEF Inv, TypeOK
    <2>3. DOMAIN scan' = Host /\ scan'[h] = Failed /\ \A g \in Host \ {h} : scan'[g] = scan[g]
      BY <2>1, <2>2
    <2>4. \A g \in Host : Heard(g)' => Heard(g) /\ scan'[g] = scan[g]
      BY <2>1, <2>3 DEF Heard
    <2>5. TypeOK'
      BY <2>1, <2>3 DEF Inv, TypeOK, server, entry
    <2>6. AnswersTrue' /\ AnswersOwn'
      BY <2>1, <2>4 DEF Inv, AnswersTrue, AnswersOwn, Away, server
    <2>7. DataTrue' /\ BaseBehind'
      BY <2>1 DEF Inv, DataTrue, Connected, Away, BaseBehind, Behind, server, entry
    <2>8. AnswersComplete' /\ AnswersBehind'
      BY <2>1, <2>4 DEF Inv, AnswersComplete, AnswersBehind, Behind, server, entry
    <2>9. QED BY <2>5, <2>6, <2>7, <2>8 DEF Inv
  <1>4. QED BY <1>1, <1>2, <1>3

-----------------------------------------------------------------------------
(* The scan *)

LEMMA FinishKeepsInv ==
    ASSUME Inv, Finish
    PROVE  Inv'
  <1> DEFINE block == Block(scan)
  <1>0. TypeOK /\ Answered /\ AnswersOwn
    BY DEF Finish, Inv
  <1>1. /\ scan' = NoScan /\ ok' = TRUE /\ loaded' = TRUE /\ age' = began
        /\ UNCHANGED <<up, seen, count, total, touched, began, enabled>>
    BY DEF Finish, server
  <1>2. CASE block = NoData
    <2>1. data' = NoData /\ base' = base /\ registry' \subseteq registry
      BY <1>2 DEF Finish
    <2>2. TypeOK'
      BY <1>0, <1>1, <2>1 DEF TypeOK
    <2>3. BaseBehind'
      BY <1>1, <2>1 DEF Inv, BaseBehind, Behind
    <2>4. QED BY <1>1, <2>1, <2>2, <2>3
              DEF Inv, AnswersTrue, DataTrue, AnswersOwn, AnswersComplete, AnswersBehind, Heard
  <1>3. CASE block # NoData
    <2>1. /\ data' = [p \in DOMAIN block |-> RowOf(p, block[p])]
          /\ base' = [p \in DOMAIN block |-> [count |-> block[p].count, total |-> block[p].total, age |-> 0]]
          /\ registry' \subseteq registry \cup DOMAIN block
      BY <1>3 DEF Finish, Tracked
    <2>2. /\ \A h \in Host : Heard(h)
          /\ DOMAIN block \subseteq Peer
          /\ \A p \in Peer : p \in DOMAIN block <=> p \in DOMAIN scan[HostOf[p]]
          /\ \A p \in DOMAIN block : block[p] = scan[HostOf[p]][p] /\ block[p] \in Answer
      BY <1>0, <1>3, BlockType
    <2>3. \A p \in Peer : HostOf[p] \in Host
      BY PeerAssumption
    <2> HIDE DEF block
    <2>4. ASSUME NEW p \in DOMAIN block
          PROVE  /\ data'[p] \in Row /\ (data'[p].online <=> block[p].online)
                 /\ base'[p] \in Baseline
                 /\ base'[p].count = block[p].count /\ base'[p].total = block[p].total
      <3>1. data'[p] = RowOf(p, block[p])
            /\ base'[p] = [count |-> block[p].count, total |-> block[p].total, age |-> 0]
        BY <2>1, <2>4
      <3>2. RowOf(p, block[p]) \in Row /\ (RowOf(p, block[p]).online <=> block[p].online)
        BY <1>0, <2>2, <2>4, RowType
      <3>3. block[p].count \in Nat /\ block[p].total \in Nat /\ 0 \in 0 .. MaxAge
        BY <2>2, <2>4, TimeAssumption DEF Answer
      <3>4. QED BY <3>1, <3>2, <3>3 DEF Baseline
    <2>5. DOMAIN data' = DOMAIN block /\ DOMAIN base' = DOMAIN block
      BY <2>1
    <2>6. TypeOK'
      <3>1. up' \subseteq Peer /\ touched' \subseteq Peer /\ registry' \subseteq Peer
        BY <1>0, <1>1, <2>1, <2>2 DEF TypeOK
      <3>2. /\ seen' \in [Peer -> 0 .. Stale + 1] /\ age' \in 0 .. Stale + 1 /\ began' \in 0 .. Stale + 1
            /\ count' \in [Peer -> Nat] /\ total' \in [Peer -> Nat]
            /\ enabled' \in BOOLEAN /\ loaded' \in BOOLEAN /\ ok' \in BOOLEAN
        BY <1>0, <1>1 DEF TypeOK
      <3>3. DOMAIN base' \subseteq Peer /\ \A p \in DOMAIN base' : base'[p] \in Baseline
        BY <2>2, <2>4, <2>5
      <3>4. DOMAIN data' \subseteq Peer /\ \A p \in DOMAIN data' : data'[p] \in Row
        BY <2>2, <2>4, <2>5
      <3>5. QED BY <1>1, <3>1, <3>2, <3>3, <3>4 DEF TypeOK
    <2>7. DataTrue'
      <3> SUFFICES ASSUME NEW p \in Peer, ~Connected(p)'
                   PROVE  Away(p, age)'
        BY DEF DataTrue
      <3>1. ~(p \in DOMAIN scan[HostOf[p]] /\ scan[HostOf[p]][p].online)
        BY <2>2, <2>4, <2>5 DEF Connected
      <3>2. Away(p, began)
        BY <2>2, <2>3, <3>1 DEF Inv, AnswersTrue
      <3>3. QED BY <1>1, <3>2 DEF Away
    <2>8. BaseBehind'
      <3> SUFFICES ASSUME NEW p \in DOMAIN base'
                   PROVE  Behind(p, base[p])'
        BY DEF BaseBehind
      <3>1. p \in Peer /\ p \in DOMAIN block /\ p \in DOMAIN scan[HostOf[p]]
        BY <2>2, <2>5
      <3>2. Behind(p, scan[HostOf[p]][p])
        BY <2>2, <2>3, <3>1 DEF Inv, AnswersBehind
      <3>3. QED BY <1>1, <2>2, <2>4, <3>1, <3>2 DEF Behind
    <2>9. QED BY <1>1, <2>6, <2>7, <2>8
              DEF Inv, AnswersTrue, AnswersOwn, AnswersComplete, AnswersBehind, Heard
  <1>4. QED BY <1>2, <1>3

LEMMA OtherScanStepsKeepInv ==
    ASSUME Inv, Begin \/ GatewaySilent \/ SetUpDisabled \/ Reload
    PROVE  Inv'
  <1>1. CASE Begin
    <2>1. /\ scan = NoScan /\ scan' = [h \in Host |-> Waiting] /\ began' = 0 /\ touched' = {}
          /\ UNCHANGED <<up, seen, count, total, entry>>
      BY <1>1 DEF Begin
    <2>2. 0 \in 0 .. Stale + 1
      BY TimeAssumption
    <2>3. \A h \in Host : ~Heard(h)'
      BY <2>1 DEF Heard
    <2>4. TypeOK'
      BY <2>1, <2>2 DEF Inv, TypeOK, entry
    <2>5. DataTrue' /\ BaseBehind'
      BY <2>1 DEF Inv, DataTrue, Connected, Away, BaseBehind, Behind, entry
    <2>6. QED BY <2>3, <2>4, <2>5 DEF Inv, AnswersTrue, AnswersOwn, AnswersComplete, AnswersBehind
  <1>2. CASE GatewaySilent
    <2>1. /\ UNCHANGED <<up, seen, count, total, touched, scan, began, enabled, base, registry, age>>
          /\ ok' \in BOOLEAN /\ loaded' \in BOOLEAN /\ (data' = NoData \/ data' = data)
      BY <1>2 DEF GatewaySilent, server, Inv, TypeOK
    <2>2. TypeOK'
      BY <2>1 DEF Inv, TypeOK
    <2>3. DataTrue' /\ BaseBehind'
      BY <2>1 DEF Inv, DataTrue, Connected, Away, BaseBehind, Behind
    <2>4. AnswersTrue' /\ AnswersOwn' /\ AnswersComplete' /\ AnswersBehind'
      BY <2>1 DEF Inv, AnswersTrue, AnswersOwn, AnswersComplete, AnswersBehind, Heard, Away, Behind
    <2>5. QED BY <2>2, <2>3, <2>4 DEF Inv
  <1>3. CASE SetUpDisabled
    <2>1. /\ UNCHANGED <<up, seen, count, total, touched, scan, began, enabled, base, data, ok, age>>
          /\ loaded' = TRUE /\ registry' = {}
      BY <1>3 DEF SetUpDisabled, server
    <2>2. TypeOK'
      BY <2>1 DEF Inv, TypeOK
    <2>3. DataTrue' /\ BaseBehind'
      BY <2>1 DEF Inv, DataTrue, Connected, Away, BaseBehind, Behind
    <2>4. AnswersTrue' /\ AnswersOwn' /\ AnswersComplete' /\ AnswersBehind'
      BY <2>1 DEF Inv, AnswersTrue, AnswersOwn, AnswersComplete, AnswersBehind, Heard, Away, Behind
    <2>5. QED BY <2>2, <2>3, <2>4 DEF Inv
  <1>4. CASE Reload
    <2>1. /\ UNCHANGED <<up, seen, count, total, touched, began, registry, age>>
          /\ enabled' \in BOOLEAN /\ loaded' = FALSE /\ ok' = TRUE
          /\ scan' = NoScan /\ data' = NoData /\ base' = <<>>
      BY <1>4 DEF Reload, server
    <2>2. DOMAIN base' = {}
      BY <2>1
    <2>3. TypeOK'
      BY <2>1, <2>2 DEF Inv, TypeOK
    <2>4. QED BY <2>1, <2>2, <2>3
              DEF Inv, AnswersTrue, DataTrue, AnswersOwn, AnswersComplete, BaseBehind, AnswersBehind, Heard
  <1>5. QED BY <1>1, <1>2, <1>3, <1>4

-----------------------------------------------------------------------------
(* The peers *)

\* What keeps the invariant when only the peers change.
LEMMA PeerStepKeepsInv ==
    ASSUME Inv, UNCHANGED <<entry, scan, began>>, UNCHANGED touched \/ touched \subseteq touched',
           up' \subseteq Peer, touched' \subseteq Peer, seen' \in [Peer -> 0 .. Stale + 1],
           count' \in [Peer -> Nat], total' \in [Peer -> Nat],
           \A p \in Peer, t \in 0 .. Stale + 1 : Away(p, t) => Away(p, t)',
           \A p \in Peer : p \in up' => p \in up \/ p \in touched',
           \A p \in Peer : total[p] <= total'[p],
           \A p \in Peer : p \in up' =>
               \/ p \in up /\ count'[p] - count[p] <= total'[p] - total[p]
               \/ count'[p] = 0
    PROVE  Inv'
  <1>0. TypeOK /\ touched \subseteq touched'
    BY DEF Inv
  <1>1. TypeOK'
    BY <1>0 DEF TypeOK, entry
  <1>2. age \in 0 .. Stale + 1 /\ began \in 0 .. Stale + 1
    BY <1>0 DEF TypeOK
  <1>3. AnswersTrue'
    <2> SUFFICES ASSUME NEW h \in Host, Heard(h)', NEW p \in Peer, HostOf[p] = h,
                        ~(p \in DOMAIN scan[h] /\ scan[h][p].online)
                 PROVE  Away(p, began)'
      BY DEF AnswersTrue
    <2>1. Away(p, began)
      BY DEF Inv, AnswersTrue, Heard
    <2>2. QED BY <1>2, <2>1 DEF Away
  <1>4. DataTrue'
    <2> SUFFICES ASSUME data # NoData, NEW p \in Peer, ~Connected(p)
                 PROVE  Away(p, age)'
      BY DEF DataTrue, Connected, entry
    <2>1. Away(p, age)
      BY DEF Inv, DataTrue
    <2>2. QED BY <1>2, <2>1 DEF Away, entry
  <1>5. AnswersOwn' /\ AnswersComplete'
    BY <1>0 DEF Inv, AnswersOwn, AnswersComplete, Heard
  <1>6. BaseBehind'
    <2> SUFFICES ASSUME NEW p \in DOMAIN base
                 PROVE  Behind(p, base[p])'
      BY DEF BaseBehind, entry
    <2>1. p \in Peer /\ base[p].count \in Nat /\ base[p].total \in Nat /\ base' = base
      BY <1>0 DEF TypeOK, Baseline, entry
    <2>2. /\ count[p] \in Nat /\ total[p] \in Nat /\ count'[p] \in Nat /\ total'[p] \in Nat
          /\ total[p] <= total'[p]
      BY <1>0, <2>1 DEF TypeOK
    <2>3. base[p].total <= total[p] /\ (p \in up => count[p] - base[p].count <= total[p] - base[p].total)
      BY DEF Inv, BaseBehind, Behind
    <2>4. base[p].total <= total'[p]
      BY <2>1, <2>2, <2>3
    <2>5. ASSUME p \in up'
          PROVE  count'[p] - base[p].count <= total'[p] - base[p].total
      BY <2>1, <2>2, <2>3, <2>5
    <2>6. QED BY <2>1, <2>4, <2>5 DEF Behind
  <1>7. AnswersBehind'
    <2> SUFFICES ASSUME NEW h \in Host, Heard(h), NEW p \in DOMAIN scan[h]
                 PROVE  /\ Behind(p, scan[h][p])'
                        /\ p \in DOMAIN base =>
                             scan[h][p].count - base[p].count <= scan[h][p].total - base[p].total
      BY DEF AnswersBehind, Heard, entry
    <2>1. p \in Peer /\ scan[h][p].count \in Nat /\ scan[h][p].total \in Nat /\ scan' = scan
      BY <1>0 DEF TypeOK, Answer, Heard
    <2>2. /\ count[p] \in Nat /\ total[p] \in Nat /\ count'[p] \in Nat /\ total'[p] \in Nat
          /\ total[p] <= total'[p]
      BY <1>0, <2>1 DEF TypeOK
    <2>3. /\ scan[h][p].total <= total[p]
          /\ (p \in up => count[p] - scan[h][p].count <= total[p] - scan[h][p].total)
          /\ p \in DOMAIN base => scan[h][p].count - base[p].count <= scan[h][p].total - base[p].total
      BY DEF Inv, AnswersBehind, Behind
    <2>4. scan[h][p].total <= total'[p]
      BY <2>1, <2>2, <2>3
    <2>5. ASSUME p \in up'
          PROVE  count'[p] - scan[h][p].count <= total'[p] - scan[h][p].total
      BY <2>1, <2>2, <2>3, <2>5
    <2>6. QED BY <2>1, <2>3, <2>4, <2>5 DEF Behind
  <1>8. QED BY <1>1, <1>3, <1>4, <1>5, <1>6, <1>7 DEF Inv

LEMMA PeersKeepInv ==
    ASSUME Inv, NEW q \in Peer, Join(q) \/ Leave(q) \/ Handshake(q) \/ Transfer(q)
    PROVE  Inv'
  <1>0. /\ up \subseteq Peer /\ touched \subseteq Peer /\ seen \in [Peer -> 0 .. Stale + 1]
        /\ count \in [Peer -> Nat] /\ total \in [Peer -> Nat] /\ Stale \in Nat
    BY TimeAssumption DEF Inv, TypeOK
  <1>1. CASE Join(q)
    <2>1. /\ up' = up \cup {q} /\ touched' = touched \cup {q} /\ q \notin up
          /\ seen' = [seen EXCEPT ![q] = Stale + 1] /\ count' = [count EXCEPT ![q] = 0]
          /\ UNCHANGED <<total, entry, scan, began>>
      BY <1>1 DEF Join
    <2>2. \A p \in Peer, t \in 0 .. Stale + 1 : Away(p, t) => Away(p, t)'
      BY <1>0, <2>1 DEF Away
    <2>3. \A p \in Peer : p \in up' =>
            (p \in up /\ count'[p] - count[p] <= total'[p] - total[p]) \/ count'[p] = 0
      BY <1>0, <2>1
    <2>4. /\ seen' \in [Peer -> 0 .. Stale + 1] /\ count' \in [Peer -> Nat]
          /\ up' \subseteq Peer /\ touched' \subseteq Peer
      BY <1>0, <2>1
    <2>5. QED BY <1>0, <2>1, <2>2, <2>3, <2>4, PeerStepKeepsInv
  <1>2. CASE Leave(q)
    <2>1. up' = up \ {q} /\ UNCHANGED <<seen, count, total, touched, entry, scan, began>>
      BY <1>2 DEF Leave
    <2>2. \A p \in Peer, t \in 0 .. Stale + 1 : Away(p, t) => Away(p, t)'
      BY <1>0, <2>1 DEF Away
    <2>3. \A p \in Peer : p \in up' =>
            (p \in up /\ count'[p] - count[p] <= total'[p] - total[p]) \/ count'[p] = 0
      BY <1>0, <2>1
    <2>4. QED BY <1>0, <2>1, <2>2, <2>3, PeerStepKeepsInv
  <1>3. CASE Handshake(q)
    <2>1. seen' = [seen EXCEPT ![q] = 0] /\ UNCHANGED <<up, count, total, touched, entry, scan, began>>
      BY <1>3 DEF Handshake
    <2>2. \A p \in Peer, t \in 0 .. Stale + 1 : Away(p, t) => Away(p, t)'
      BY <1>0, <2>1 DEF Away
    <2>3. \A p \in Peer : p \in up' =>
            (p \in up /\ count'[p] - count[p] <= total'[p] - total[p]) \/ count'[p] = 0
      BY <1>0, <2>1
    <2>4. seen' \in [Peer -> 0 .. Stale + 1]
      BY <1>0, <2>1
    <2>5. QED BY <1>0, <2>1, <2>2, <2>3, <2>4, PeerStepKeepsInv
  <1>4. CASE Transfer(q)
    <2>1. /\ count' = [count EXCEPT ![q] = @ + 1] /\ total' = [total EXCEPT ![q] = @ + 1]
          /\ UNCHANGED <<up, seen, touched, entry, scan, began>>
      BY <1>4 DEF Transfer
    <2>2. \A p \in Peer, t \in 0 .. Stale + 1 : Away(p, t) => Away(p, t)'
      BY <1>0, <2>1 DEF Away
    <2>3. \A p \in Peer : p \in up' =>
            (p \in up /\ count'[p] - count[p] <= total'[p] - total[p]) \/ count'[p] = 0
      BY <1>0, <2>1
    <2>4. count' \in [Peer -> Nat] /\ total' \in [Peer -> Nat] /\ \A p \in Peer : total[p] <= total'[p]
      BY <1>0, <2>1
    <2>5. QED BY <1>0, <2>1, <2>2, <2>3, <2>4, PeerStepKeepsInv
  <1>5. QED BY <1>1, <1>2, <1>3, <1>4

\* Time passes for handshakes and scans alike.
LEMMA TickKeepsInv ==
    ASSUME Inv, Tick
    PROVE  Inv'
  <1>0. /\ TypeOK /\ Stale \in Nat /\ MaxAge \in Nat /\ seen \in [Peer -> 0 .. Stale + 1]
        /\ age \in 0 .. Stale + 1 /\ began \in 0 .. Stale + 1
    BY TimeAssumption DEF Inv, TypeOK
  <1>1. /\ seen' = [p \in Peer |-> AtMost(seen[p] + 1, Stale + 1)]
        /\ age' = AtMost(age + 1, Stale + 1) /\ began' = AtMost(began + 1, Stale + 1)
        /\ base' = [p \in DOMAIN base |-> [base[p] EXCEPT !.age = AtMost(@ + 1, MaxAge)]]
        /\ UNCHANGED <<up, count, total, touched, scan, enabled, loaded, data, ok, registry>>
    BY DEF Tick
  <1>2. age' \in 0 .. Stale + 1 /\ began' \in 0 .. Stale + 1 /\ seen' \in [Peer -> 0 .. Stale + 1]
    BY <1>0, <1>1 DEF AtMost
  <1>3. ASSUME NEW p \in DOMAIN base
        PROVE  base'[p] \in Baseline /\ base'[p].count = base[p].count /\ base'[p].total = base[p].total
    <2>1. base[p] \in Baseline
      BY <1>0 DEF TypeOK
    <2>2. base'[p] = [base[p] EXCEPT !.age = AtMost(@ + 1, MaxAge)]
      BY <1>1
    <2>3. AtMost(base[p].age + 1, MaxAge) \in 0 .. MaxAge
      <3>1. base[p].age + 1 \in Nat
        BY <1>0, <2>1 DEF Baseline
      <3>2. QED BY <1>0, <3>1, AtMostType
    <2>4. QED BY <2>1, <2>2, <2>3 DEF Baseline
  <1>4. DOMAIN base' = DOMAIN base
    BY <1>1
  <1>5. TypeOK'
    BY <1>0, <1>1, <1>2, <1>3, <1>4 DEF TypeOK
  <1>6. ASSUME NEW p \in Peer, NEW t \in 0 .. Stale + 1, Away(p, t)
        PROVE  p \notin up \/ seen'[p] > Stale \/ seen'[p] <= AtMost(t + 1, Stale + 1)
    <2>1. seen[p] \in 0 .. Stale + 1 /\ seen'[p] = AtMost(seen[p] + 1, Stale + 1)
      BY <1>0, <1>1
    <2>2. QED BY <1>0, <1>6, <2>1 DEF Away, AtMost
  <1>7. AnswersTrue'
    <2> SUFFICES ASSUME NEW h \in Host, Heard(h), NEW p \in Peer, HostOf[p] = h,
                        ~(p \in DOMAIN scan[h] /\ scan[h][p].online)
                 PROVE  Away(p, began)'
      BY <1>1 DEF AnswersTrue, Heard
    <2>1. Away(p, began)
      BY DEF Inv, AnswersTrue
    <2>2. QED BY <1>0, <1>1, <1>6, <2>1 DEF Away
  <1>8. DataTrue'
    <2> SUFFICES ASSUME data # NoData, NEW p \in Peer, ~Connected(p)
                 PROVE  Away(p, age)'
      BY <1>1 DEF DataTrue, Connected
    <2>1. Away(p, age)
      BY DEF Inv, DataTrue
    <2>2. QED BY <1>0, <1>1, <1>6, <2>1 DEF Away
  <1>9. AnswersOwn' /\ AnswersComplete'
    BY <1>1 DEF Inv, AnswersOwn, AnswersComplete, Heard
  <1>10. BaseBehind'
    BY <1>1, <1>3, <1>4 DEF Inv, BaseBehind, Behind
  <1>11. AnswersBehind'
    BY <1>1, <1>3, <1>4 DEF Inv, AnswersBehind, Behind, Heard
  <1>12. QED BY <1>5, <1>7, <1>8, <1>9, <1>10, <1>11 DEF Inv

-----------------------------------------------------------------------------
(* Theorems *)

LEMMA InitHasInv == Init => Inv
  <1> SUFFICES ASSUME Init
               PROVE  Inv
    OBVIOUS
  <1>1. DOMAIN base = {} /\ 0 \in 0 .. Stale + 1 /\ Stale + 1 \in 0 .. Stale + 1
    BY TimeAssumption DEF Init
  <1>2. TypeOK
    BY <1>1 DEF Init, TypeOK
  <1>3. QED BY <1>1, <1>2
            DEF Init, Inv, AnswersTrue, DataTrue, AnswersOwn, AnswersComplete, BaseBehind, AnswersBehind, Heard

LEMMA NextKeepsInv == Inv /\ [Next]_vars => Inv'
  <1> SUFFICES ASSUME Inv, [Next]_vars
               PROVE  Inv'
    OBVIOUS
  <1>1. CASE Begin \/ GatewaySilent \/ SetUpDisabled \/ Reload
    BY <1>1, OtherScanStepsKeepInv
  <1>2. CASE Finish
    BY <1>2, FinishKeepsInv
  <1>3. CASE Tick
    BY <1>3, TickKeepsInv
  <1>4. CASE \E h \in Host : Reply(h) \/ TornReply(h) \/ NoReply(h)
    BY <1>4, RepliesKeepInv
  <1>5. CASE \E p \in Peer : Join(p) \/ Leave(p) \/ Handshake(p) \/ Transfer(p)
    BY <1>5, PeersKeepInv
  <1>6. CASE UNCHANGED vars
    <2>1. UNCHANGED <<up, seen, count, total, touched, enabled, loaded, base, data, ok, registry, age, scan, began>>
      BY <1>6 DEF vars, server, entry
    <2>2. TypeOK' /\ AnswersTrue' /\ DataTrue'
      BY <2>1 DEF Inv, TypeOK, AnswersTrue, DataTrue, Heard, Away, Connected
    <2>3. QED BY <2>1, <2>2
              DEF Inv, AnswersOwn, AnswersComplete, BaseBehind, AnswersBehind, Heard, Behind
  <1>7. QED BY <1>1, <1>2, <1>3, <1>4, <1>5, <1>6 DEF Next

\* What the block says of peers, and what counters say of traffic, is right of
\* the moment it was asked for.
THEOREM WireGuardInvariant == Spec => []Inv
BY InitHasInv, NextKeepsInv, PTL DEF Spec

\* Every variable keeps its type; no rate is negative.
THEOREM WireGuardTypeOK == Spec => []TypeOK
  <1>1. Inv => TypeOK
    BY DEF Inv
  <1>2. QED BY <1>1, WireGuardInvariant, PTL

\* A peer tracker that says not_home is right, whichever hosts fail to answer.
THEOREM TrackersTellTheTruth == Spec => []NotHomeIsTrue
  <1>1. Inv => NotHomeIsTrue
    BY DEF Inv, TypeOK, DataTrue, Away, NotHomeIsTrue, Available
  <1>2. QED BY <1>1, WireGuardInvariant, PTL

\* Set-up removes the tracker of no peer that is there.
THEOREM OnlyTrackersOfGonePeersPruned == Spec => PruneOnlyGone
  <1>1. ASSUME Inv, [Next]_vars, NEW p \in registry \ registry'
        PROVE  ~enabled \/ p \notin up \/ p \in touched
    <2>0. p \in Peer /\ HostOf[p] \in Host
      BY <1>1, PeerAssumption DEF Inv, TypeOK
    <2>1. CASE Finish
      <3>1. Block(scan) # NoData /\ p \notin DOMAIN Block(scan)
        BY <1>1, <2>1 DEF Finish, Orphans, Tracked
      <3>2. Heard(HostOf[p]) /\ p \notin DOMAIN scan[HostOf[p]]
        BY <1>1, <2>0, <2>1, <3>1, BlockType DEF Finish, Inv
      <3>3. QED BY <1>1, <2>0, <3>2 DEF Inv, AnswersComplete
    <2>2. CASE SetUpDisabled
      BY <2>2 DEF SetUpDisabled
    <2>3. CASE ~Finish /\ ~SetUpDisabled
      <3>1. registry' = registry
        BY <1>1, <2>3 DEF Next, vars, entry, Begin, GatewaySilent, Reload, Tick,
                          Reply, TornReply, NoReply, Join, Leave, Handshake, Transfer
      <3>2. QED BY <1>1, <3>1
    <2>4. QED BY <2>1, <2>2, <2>3
  <1>2. Inv /\ [Next]_vars => [\A p \in registry \ registry' : ~enabled \/ p \notin up \/ p \in touched]_vars
    BY <1>1
  <1>3. QED BY <1>2, WireGuardInvariant, PTL DEF Spec, PruneOnlyGone

\* No rate exceeds what the peer really transferred between its two answers.
THEOREM RatesAreReal == Spec => RateIsReal
  <1>1. ASSUME Inv, NEW p \in DOMAIN base \cap DOMAIN base', Finish, data' # NoData, data'[p].rate # NoRate
        PROVE  data'[p].rate <= base'[p].total - base[p].total
    <2>1. CASE Block(scan) = NoData
      BY <1>1, <2>1 DEF Finish
    <2>2. CASE Block(scan) # NoData
      <3> DEFINE a == Block(scan)[p]
      <3>1. /\ DOMAIN base' = DOMAIN Block(scan)
            /\ p \in DOMAIN Block(scan) /\ data'[p] = RowOf(p, a) /\ base'[p].total = a.total
        BY <1>1, <2>2 DEF Finish
      <3>2. p \in Peer /\ HostOf[p] \in Host
        BY <1>1, PeerAssumption DEF Inv, TypeOK
      <3>3. a \in Answer /\ a = scan[HostOf[p]][p] /\ Heard(HostOf[p]) /\ p \in DOMAIN scan[HostOf[p]]
        BY <1>1, <2>2, <3>1, <3>2, BlockType DEF Finish, Inv
      <3>4. RowOf(p, a).rate = a.count - base[p].count
        BY <1>1, <3>1, <3>2, <3>3, RowType DEF Inv
      <3>5. a.count - base[p].count <= a.total - base[p].total
        BY <1>1, <3>2, <3>3 DEF Inv, AnswersBehind
      <3>6. QED BY <3>1, <3>4, <3>5
    <2>3. QED BY <2>1, <2>2
  <1>2. Inv /\ [Next]_vars =>
          [\A p \in DOMAIN base \cap DOMAIN base' :
              Finish /\ data' # NoData /\ data'[p].rate # NoRate
                  => data'[p].rate <= base'[p].total - base[p].total]_vars
    BY <1>1
  <1>3. QED BY <1>2, WireGuardInvariant, PTL DEF Spec, RateIsReal
=============================================================================
