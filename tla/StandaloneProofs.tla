-------------------------- MODULE StandaloneProofs --------------------------
(***************************************************************************)
(* The totals and the event log of diagnose.py, and the debouncing they    *)
(* amount to, for any number of devices, any amounts of traffic and any    *)
(* sequence of runs, kills and reboots.                                    *)
(* At the end: the DNS history, a file that both programs keep, for any    *)
(* windows, age limit and spacing of the samples.                          *)
(***************************************************************************)
EXTENDS Standalone, DnsHistory, WellFoundedInduction, FiniteSetTheorems, SequenceTheorems, TLAPS

TotalsType ==
    /\ accum \in Nat /\ count \in Nat /\ real \in Nat /\ first \in Nat
    /\ sample \in Nat \cup {NoFile} /\ wanBw \in Meter \cup {NoFile}
    /\ step \in 0 .. 7
    /\ step # 0 => run.sample \in Nat /\ run.accum \in Nat /\ run.wanBw \in Meter \cup {NoFile}

(* Traffic since the sample is not in the total yet.  What the current run *)
(* is going to write (until step 3, the device totals) is not ahead of the *)
(* traffic either, and by then the sample is written.                      *)
CreditedOnce ==
    /\ accum <= real
    /\ sample # NoFile => accum + count - sample <= real
    /\ step \in 1 .. 3 =>
         accum <= run.accum /\ run.accum <= real /\ run.accum + count - run.sample <= real
    /\ step = 3 => sample = run.sample

(* The WAN total is that of the counter last read, in the file and in the  *)
(* run that has not written it yet (step 1).                               *)
IsExact(bw) == bw # NoFile /\ clean => bw.total = bw.count - first /\ bw.count <= count

WanExact == IsExact(wanBw) /\ (step = 1 => IsExact(run.wanBw))

TotalsInv == TotalsType /\ CreditedOnce /\ WanExact

-----------------------------------------------------------------------------

\* Which write comes at which step.
LEMMA WriteSteps ==
    ASSUME NEW i \in 1 .. 7
    PROVE  /\ Len(WriteOrder) = 7
           /\ WriteOrder[i] = "wan rates" <=> i = 1
           /\ WriteOrder[i] = "device sample" <=> i = 2
           /\ WriteOrder[i] = "device totals" <=> i = 3
           /\ WriteOrder[i] = "wan address" <=> i = 4
           /\ WriteOrder[i] = "state" <=> i = 5
           /\ WriteOrder[i] = "log" <=> i = 6
           /\ WriteOrder[i] = "prune" <=> i = 7
  <1>1. Len(WriteOrder) = 7
    BY DEF WriteOrder
  <1>2. /\ WriteOrder[1] = "wan rates" /\ WriteOrder[2] = "device sample" /\ WriteOrder[3] = "device totals"
        /\ WriteOrder[4] = "wan address" /\ WriteOrder[5] = "state" /\ WriteOrder[6] = "log"
        /\ WriteOrder[7] = "prune"
    BY DEF WriteOrder
  <1>3. i = 1 \/ i = 2 \/ i = 3 \/ i = 4 \/ i = 5 \/ i = 6 \/ i = 7
    OBVIOUS
  <1>4. QED
    BY <1>1, <1>2, <1>3

\* What a run credits a device with is at most what its counter has advanced.
LEMMA CreditedBound ==
    ASSUME TotalsType, NEW plausible
    PROVE  /\ Credited(plausible) \in Nat
           /\ Credited(plausible) = 0 \/ (sample # NoFile /\ sample \in Nat /\ Credited(plausible) = count - sample)
BY DEF TotalsType, Credited

\* A run moves the WAN meter on to the counter it reads.
LEMMA NextWanBwType ==
    ASSUME TotalsType, NEW readable \in BOOLEAN
    PROVE  /\ NextWanBw(readable) \in Meter \cup {NoFile}
           /\ ~readable => NextWanBw(readable) = wanBw
           /\ readable /\ wanBw = NoFile => NextWanBw(readable) = [count |-> count, total |-> 0]
           /\ readable /\ wanBw # NoFile /\ count >= wanBw.count =>
                NextWanBw(readable) = [count |-> count, total |-> wanBw.total + (count - wanBw.count)]
  <1>1. CASE ~readable
    BY <1>1 DEF TotalsType, NextWanBw
  <1>2. CASE readable /\ wanBw = NoFile
    BY <1>2 DEF TotalsType, NextWanBw, Meter
  <1>3. CASE readable /\ wanBw # NoFile
    <2>1. wanBw \in Meter
      BY <1>3 DEF TotalsType
    <2>2. QED
      BY <1>3, <2>1 DEF TotalsType, NextWanBw, Meter
  <1>4. QED
    BY <1>1, <1>2, <1>3

LEMMA TotalsInit == Init => TotalsInv
  <1> SUFFICES ASSUME Init PROVE TotalsInv
    OBVIOUS
  <1>1. count \in Nat
    BY BoundsAssumption DEF Init
  <1>2. TotalsType
    BY <1>1 DEF Init, TotalsType
  <1>3. CreditedOnce
    BY DEF Init, CreditedOnce
  <1>4. WanExact
    BY DEF Init, WanExact, IsExact
  <1>5. QED BY <1>2, <1>3, <1>4 DEF TotalsInv

\* A run that begins computes what it will write from files that fit.
LEMMA BeginKeepsTotals == TotalsInv /\ Begin => TotalsInv'
  <1> SUFFICES ASSUME TotalsInv, Begin PROVE TotalsInv'
    OBVIOUS
  <1>0. PICK seen \in [Mac -> Sighting], a \in Addr \cup {NoAddr}, readable \in BOOLEAN, plausible \in BOOLEAN :
        \E changed \in SUBSET Changes(seen) :
            /\ step = 0
            /\ run' = [was |-> state, wanBw |-> NextWanBw(readable), sample |-> count,
                       accum |-> accum + Credited(plausible), wanAddr |-> a,
                       state |-> [m \in Mac |-> Prune(NextEntry(state[m], seen[m]))],
                       events |-> WanEvents(a) \cup DeviceEvents(seen, changed)]
            /\ step' = 1
            /\ first' = IF wanBw = NoFile /\ readable THEN count ELSE first
            /\ clean' = ((wanBw = NoFile /\ readable) \/ clean)
            /\ UNCHANGED <<files, count, real, lost>>
    BY Zenon DEF Begin
  <1>1. \E changed \in SUBSET Changes(seen) :
          /\ step = 0 /\ step' = 1
          /\ run' = [was |-> state, wanBw |-> NextWanBw(readable), sample |-> count,
                     accum |-> accum + Credited(plausible), wanAddr |-> a,
                     state |-> [m \in Mac |-> Prune(NextEntry(state[m], seen[m]))],
                     events |-> WanEvents(a) \cup DeviceEvents(seen, changed)]
          /\ first' = IF wanBw = NoFile /\ readable THEN count ELSE first
          /\ clean' = ((wanBw = NoFile /\ readable) \/ clean)
          /\ wanBw' = wanBw /\ sample' = sample /\ accum' = accum /\ count' = count /\ real' = real
    BY <1>0 DEF files
  <1>2. run'.wanBw = NextWanBw(readable) /\ run'.sample = count /\ run'.accum = accum + Credited(plausible)
    BY <1>1
  <1>3. TotalsType /\ CreditedOnce /\ WanExact
    BY DEF TotalsInv
  <1>4. TotalsType'
    BY <1>1, <1>2, <1>3, CreditedBound, NextWanBwType DEF TotalsType
  <1>5. CreditedOnce'
    <2>1. accum + Credited(plausible) <= real
      BY <1>3, CreditedBound DEF TotalsType, CreditedOnce
    <2>2. QED
      BY <1>1, <1>2, <1>3, <2>1, CreditedBound DEF TotalsType, CreditedOnce
  <1>6. IsExact(wanBw)'
    BY <1>1, <1>3 DEF WanExact, IsExact
  <1>7. IsExact(run.wanBw)'
    <2>1. CASE wanBw = NoFile /\ readable
      <3>1. run'.wanBw = [count |-> count, total |-> 0]
        BY <1>2, <1>3, <2>1, NextWanBwType
      <3>2. first' = count /\ count' = count /\ count \in Nat
        BY <1>1, <1>3, <2>1 DEF TotalsType
      <3>3. QED
        BY <3>1, <3>2 DEF IsExact
    <2>2. CASE wanBw = NoFile /\ ~readable
      BY <1>1, <1>2, <1>3, <2>2, NextWanBwType DEF IsExact
    <2>3. CASE wanBw # NoFile
      <3>1. wanBw \in Meter /\ count \in Nat /\ first \in Nat
        BY <1>3, <2>3 DEF TotalsType
      <3>2. first' = first /\ (clean' <=> clean)
        BY <1>1, <1>3, <2>3 DEF TotalsType
      <3>3. CASE ~readable
        BY <1>1, <1>2, <1>3, <2>3, <3>2, <3>3, NextWanBwType DEF WanExact, IsExact
      <3>4. CASE readable /\ clean
        <4>1. wanBw.total = wanBw.count - first /\ wanBw.count <= count
          BY <1>3, <2>3, <3>4 DEF WanExact, IsExact
        <4>2. run'.wanBw = [count |-> count, total |-> wanBw.total + (count - wanBw.count)]
          BY <1>2, <1>3, <2>3, <3>1, <3>4, <4>1, NextWanBwType DEF Meter
        <4>3. QED
          BY <1>1, <3>1, <3>2, <4>1, <4>2 DEF IsExact, Meter
      <3>5. CASE ~clean
        BY <3>2, <3>5 DEF IsExact
      <3>6. QED BY <3>3, <3>4, <3>5
    <2>4. QED BY <2>1, <2>2, <2>3
  <1>8. QED
    BY <1>4, <1>5, <1>6, <1>7 DEF TotalsInv, WanExact

\* A write replaces one file; the sample and the totals are those of the run.
LEMMA WriteKeepsTotals ==
    ASSUME TotalsInv,
           \/ WriteWanRates \/ WriteDeviceSample \/ WriteDeviceTotals \/ WriteWanAddress
           \/ SaveState \/ AppendEvents \/ PruneEvents
    PROVE  TotalsInv'
  <1> USE DEF meter
  <1>0. TotalsType /\ CreditedOnce /\ WanExact
    BY DEF TotalsInv
  <1>1. /\ step \in 1 .. 7
        /\ count' = count /\ real' = real /\ first' = first /\ clean' = clean
        /\ step < 7 => step' = step + 1 /\ run' = run
        /\ step = 7 => step' = 0
    <2>1. PICK file : Writes(file)
      BY DEF WriteWanRates, WriteDeviceSample, WriteDeviceTotals, WriteWanAddress, SaveState,
             AppendEvents, PruneEvents
    <2>2. step \in 1 .. 7
      BY <1>0, <2>1 DEF Writes, TotalsType
    <2>3. Len(WriteOrder) = 7
      BY <2>2, WriteSteps
    <2>4. IF step < 7 THEN step' = step + 1 /\ run' = run ELSE step' = 0
      BY <2>1, <2>3 DEF Writes
    <2>5. QED
      BY <2>1, <2>2, <2>4 DEF Writes
  <1>2. CASE WriteWanRates
    <2>1. step = 1 /\ wanBw' = run.wanBw /\ sample' = sample /\ accum' = accum
      BY <1>1, <1>2, WriteSteps DEF WriteWanRates, Writes
    <2>2. step' = 2 /\ run' = run
      BY <1>1, <2>1
    <2>3. TotalsType'
      BY <1>0, <1>1, <2>1, <2>2 DEF TotalsType
    <2>4. CreditedOnce'
      BY <1>0, <1>1, <2>1, <2>2 DEF CreditedOnce
    <2>5. WanExact'
      BY <1>0, <1>1, <2>1, <2>2 DEF WanExact, IsExact
    <2>6. QED BY <2>3, <2>4, <2>5 DEF TotalsInv
  <1>3. CASE WriteDeviceSample
    <2>1. step = 2 /\ sample' = run.sample /\ wanBw' = wanBw /\ accum' = accum
      BY <1>1, <1>3, WriteSteps DEF WriteDeviceSample, Writes
    <2>2. step' = 3 /\ run' = run
      BY <1>1, <2>1
    <2>3. TotalsType'
      BY <1>0, <1>1, <2>1, <2>2 DEF TotalsType
    <2>4. CreditedOnce'
      BY <1>0, <1>1, <2>1, <2>2 DEF CreditedOnce, TotalsType
    <2>5. WanExact'
      BY <1>0, <1>1, <2>1, <2>2 DEF WanExact, IsExact
    <2>6. QED BY <2>3, <2>4, <2>5 DEF TotalsInv
  <1>4. CASE WriteDeviceTotals
    <2>1. step = 3 /\ accum' = run.accum /\ wanBw' = wanBw /\ sample' = sample
      BY <1>1, <1>4, WriteSteps DEF WriteDeviceTotals, Writes
    <2>2. step' = 4 /\ run' = run
      BY <1>1, <2>1
    <2>3. TotalsType'
      BY <1>0, <1>1, <2>1, <2>2 DEF TotalsType
    <2>4. CreditedOnce'
      BY <1>0, <1>1, <2>1, <2>2 DEF CreditedOnce, TotalsType
    <2>5. WanExact'
      BY <1>0, <1>1, <2>1, <2>2 DEF WanExact, IsExact
    <2>6. QED BY <2>3, <2>4, <2>5 DEF TotalsInv
  <1>5. CASE WriteWanAddress \/ SaveState \/ AppendEvents \/ PruneEvents
    <2>0. \/ WriteOrder[step] = "wan address" \/ WriteOrder[step] = "state"
          \/ WriteOrder[step] = "log" \/ WriteOrder[step] = "prune"
      BY <1>5 DEF WriteWanAddress, SaveState, AppendEvents, PruneEvents, Writes
    <2>1. wanBw' = wanBw /\ sample' = sample /\ accum' = accum
      BY <1>5 DEF WriteWanAddress, SaveState, AppendEvents, PruneEvents, Writes
    <2>2. step \in 4 .. 7
      <3>1. step = 4 \/ step = 5 \/ step = 6 \/ step = 7
        BY <1>1, <2>0, WriteSteps
      <3>2. QED BY <3>1
    <2>3. step' = 0 \/ (step' \in 5 .. 7 /\ run' = run)
      BY <1>1, <2>2
    <2>4. TotalsType'
      BY <1>0, <1>1, <2>1, <2>2, <2>3 DEF TotalsType
    <2>5. CreditedOnce'
      BY <1>0, <1>1, <2>1, <2>3 DEF CreditedOnce
    <2>6. WanExact'
      BY <1>0, <1>1, <2>1, <2>3 DEF WanExact, IsExact
    <2>7. QED BY <2>4, <2>5, <2>6 DEF TotalsInv
  <1>6. QED
    BY <1>2, <1>3, <1>4, <1>5

\* What happens around the runs, a kill at any step included.
LEMMA SurroundingsKeepTotals ==
    ASSUME TotalsInv, Kill \/ Traffic \/ CounterReset \/ DaysPass \/ Reboot
    PROVE  TotalsInv'
  <1> USE DEF meter, files
  <1>0. TotalsType /\ CreditedOnce /\ WanExact
    BY DEF TotalsInv
  <1>1. CASE Kill
    <2>1. /\ step' = 0 /\ accum' = accum /\ sample' = sample /\ wanBw' = wanBw
          /\ count' = count /\ real' = real /\ first' = first /\ clean' = clean
      BY <1>1 DEF Kill
    <2>2. QED
      BY <1>0, <2>1 DEF TotalsInv, TotalsType, CreditedOnce, WanExact, IsExact
  <1>2. CASE Traffic
    <2>1. PICK b \in Burst : /\ count' = count + b /\ real' = real + b
                             /\ accum' = accum /\ sample' = sample /\ wanBw' = wanBw
                             /\ step' = step /\ run' = run /\ first' = first /\ clean' = clean
      BY <1>2 DEF Traffic
    <2>2. b \in Nat
      BY BoundsAssumption
    <2>3. TotalsType'
      BY <1>0, <2>1, <2>2 DEF TotalsType
    <2>4. CreditedOnce'
      BY <1>0, <2>1, <2>2 DEF TotalsType, CreditedOnce
    <2>5. ASSUME NEW bw \in Meter \cup {NoFile}, IsExact(bw)
          PROVE  bw # NoFile /\ clean' => bw.total = bw.count - first' /\ bw.count <= count'
      BY <1>0, <2>1, <2>2, <2>5 DEF TotalsType, IsExact, Meter
    <2>6. WanExact'
      BY <1>0, <2>1, <2>5 DEF TotalsType, WanExact, IsExact
    <2>7. QED BY <2>3, <2>4, <2>6 DEF TotalsInv
  <1>3. CASE CounterReset
    <2>1. /\ count' = 0 /\ ~clean' /\ accum' = accum /\ sample' = sample /\ wanBw' = wanBw
          /\ step' = step /\ run' = run /\ first' = first /\ real' = real
      BY <1>3 DEF CounterReset
    <2>2. TotalsType'
      BY <1>0, <2>1 DEF TotalsType
    <2>3. CreditedOnce'
      <3>1. sample # NoFile => accum + 0 - sample <= real
        BY <1>0 DEF TotalsType, CreditedOnce
      <3>2. step \in 1 .. 3 => run.accum + 0 - run.sample <= real
        BY <1>0 DEF TotalsType, CreditedOnce
      <3>3. QED
        BY <1>0, <2>1, <3>1, <3>2 DEF CreditedOnce
    <2>4. WanExact'
      BY <2>1 DEF WanExact, IsExact
    <2>5. QED BY <2>2, <2>3, <2>4 DEF TotalsInv
  <1>4. CASE DaysPass
    <2>1. /\ accum' = accum /\ sample' = sample /\ wanBw' = wanBw /\ step' = step /\ run' = run
          /\ count' = count /\ real' = real /\ first' = first /\ clean' = clean
      BY <1>4 DEF DaysPass
    <2>2. QED
      BY <1>0, <2>1 DEF TotalsInv, TotalsType, CreditedOnce, WanExact, IsExact
  <1>5. CASE Reboot
    <2>1. /\ accum' = 0 /\ sample' = NoFile /\ wanBw' = NoFile /\ step' = 0
          /\ count' = count /\ real' = 0 /\ first' = 0
      BY <1>5 DEF Reboot
    <2>2. TotalsType'
      BY <1>0, <2>1 DEF TotalsType
    <2>3. CreditedOnce' /\ WanExact'
      BY <2>1 DEF CreditedOnce, WanExact, IsExact
    <2>4. QED BY <2>2, <2>3 DEF TotalsInv
  <1>6. QED BY <1>1, <1>2, <1>3, <1>4, <1>5

\* The inductive invariant.
THEOREM TotalsInvariant == Spec => []TotalsInv
  <1>1. TotalsInv /\ [Next]_vars => TotalsInv'
    <2> SUFFICES ASSUME TotalsInv, [Next]_vars PROVE TotalsInv'
      OBVIOUS
    <2>1. CASE Begin
      BY <2>1, BeginKeepsTotals
    <2>2. CASE \/ WriteWanRates \/ WriteDeviceSample \/ WriteDeviceTotals \/ WriteWanAddress
               \/ SaveState \/ AppendEvents \/ PruneEvents
      BY <2>2, WriteKeepsTotals
    <2>3. CASE Kill \/ Traffic \/ CounterReset \/ DaysPass \/ Reboot
      BY <2>3, SurroundingsKeepTotals
    <2>4. CASE UNCHANGED vars
      BY <2>4 DEF vars, TotalsInv, TotalsType, CreditedOnce, WanExact, IsExact
    <2>5. QED
      BY <2>1, <2>2, <2>3, <2>4 DEF Next
  <1>2. QED
    BY <1>1, TotalsInit, PTL DEF Spec

\* No run, killed at any write, credits a device twice with the same traffic
\* (compute_device_rates, main).
THEOREM TotalsNeverOvercount == Spec => []NeverOvercounted
  <1>1. TotalsInv => NeverOvercounted
    BY DEF TotalsInv, CreditedOnce, NeverOvercounted
  <1>2. QED
    BY <1>1, TotalsInvariant, PTL

\* Failed readings, long gaps and kills lose nothing of the WAN total
\* (compute_wan_rates).
THEOREM WanTotalIsExact == Spec => []WanTotalExact
  <1>1. TotalsInv => WanTotalExact
    BY DEF TotalsInv, WanExact, IsExact, WanTotalExact
  <1>2. QED
    BY <1>1, TotalsInvariant, PTL

-----------------------------------------------------------------------------
(* Pruning.  Lines become old from the front, so that what both rules leave *)
(* is the end of the log.                                                  *)

Line == [sub : Subject, ev : {"up", "down", "change"}, old : BOOLEAN]

OldFirst(l) == \A i, j \in DOMAIN l : i < j /\ l[j].old => l[i].old

\* t is l without its first lines.
IsEnd(t, l) ==
    /\ t \in Seq(Line)
    /\ \E k \in 0 .. Len(l) : Len(t) = Len(l) - k /\ \A i \in 1 .. Len(t) : t[i] = l[k + i]

\* A set that holds 0 and with each number the next holds them all.
LEMMA SetInduction ==
    ASSUME NEW T, 0 \in T, \A n \in Nat : n \in T => n + 1 \in T
    PROVE  Nat \subseteq T
  <1> DEFINE F == {0 .. i : i \in Nat \ T}
  <1>1. SUFFICES ASSUME Nat \ T # {} PROVE FALSE
    OBVIOUS
  <1>2. F # {} /\ F \subseteq FiniteSubsetsOf(Nat)
    <2>1. ASSUME NEW i \in Nat \ T PROVE 0 .. i \in FiniteSubsetsOf(Nat)
      <3>1. IsFiniteSet(0 .. i) /\ 0 .. i \subseteq Nat
        BY FS_Interval
      <3>2. QED BY <3>1 DEF FiniteSubsetsOf
    <2>2. QED BY <1>1, <2>1
  <1> HIDE DEF F
  <1>3. PICK S \in F : \A R \in F : <<R, S>> \notin StrictSubsetOrdering(Nat)
    BY <1>2, FS_StrictSubsetOrderingWellFounded, WFMin
  <1>4. PICK i \in Nat \ T : S = 0 .. i
    BY <1>3 DEF F
  <1>5. i - 1 \in Nat \ T
    <2>1. i # 0 /\ i - 1 \in Nat /\ (i - 1) + 1 = i
      BY <1>4
    <2>2. QED BY <1>4, <2>1
  <1>6. 0 .. i - 1 \in F
    BY <1>5 DEF F
  <1>7. /\ 0 .. i - 1 \subseteq 0 .. i /\ 0 .. i - 1 # 0 .. i
        /\ 0 .. i - 1 \subseteq Nat /\ 0 .. i \subseteq Nat
    <2>1. i \in 0 .. i /\ i \notin 0 .. i - 1
      BY <1>4
    <2>2. QED BY <1>4, <1>5, <2>1
  <1>8. QED BY <1>3, <1>4, <1>6, <1>7 DEF StrictSubsetOrdering

\* The old lines come first.
LEMMA OldLines ==
    ASSUME NEW l \in Seq(Line), OldFirst(l)
    PROVE  \E k \in 0 .. Len(l) : \A i \in 1 .. Len(l) : l[i].old <=> i <= k
  <1> DEFINE Splits(n) == n <= Len(l) => \E k \in 0 .. n : \A i \in 1 .. n : l[i].old <=> i <= k
             T == {n \in Nat : Splits(n)}
  <1>1. 0 \in T
    OBVIOUS
  <1>2. ASSUME NEW n \in Nat, n \in T PROVE n + 1 \in T
    <2>1. SUFFICES ASSUME n + 1 <= Len(l)
                   PROVE  \E k \in 0 .. n + 1 : \A i \in 1 .. n + 1 : l[i].old <=> i <= k
      OBVIOUS
    <2>2. Len(l) \in Nat /\ n <= Len(l)
      BY <2>1
    <2>3. CASE l[n + 1].old
      <3>1. \A i \in 1 .. n + 1 : l[i].old <=> i <= n + 1
        BY <2>1, <2>2, <2>3 DEF OldFirst
      <3>2. QED BY <3>1
    <2>4. CASE ~l[n + 1].old
      <3>1. PICK k \in 0 .. n : \A i \in 1 .. n : l[i].old <=> i <= k
        BY <1>2, <2>2
      <3>2. \A i \in 1 .. n + 1 : l[i].old <=> i <= k
        BY <2>4, <3>1
      <3>3. k \in 0 .. n + 1
        OBVIOUS
      <3>4. QED BY <3>2, <3>3
    <2>5. QED BY <2>3, <2>4
  <1> HIDE DEF T
  <1>3. Nat \subseteq T
    BY <1>1, <1>2, SetInduction
  <1>4. Len(l) \in Nat
    OBVIOUS
  <1>5. Splits(Len(l))
    BY <1>3, <1>4 DEF T
  <1>6. QED BY <1>4, <1>5

\* The steps of the loop of prune_events.
Keeps(l, kept) ==
    kept = [n \in 0 .. Len(l) |->
              IF n = 0 THEN <<>>
              ELSE IF Young(l[n]) THEN Append(kept[n - 1], l[n]) ELSE kept[n - 1]]

LEMMA OnlyYoungIsEnd ==
    ASSUME NEW l \in Seq(Line), OldFirst(l)
    PROVE  IsEnd(OnlyYoung(l), l)
  <1>1. PICK k \in 0 .. Len(l) : \A i \in 1 .. Len(l) : l[i].old <=> i <= k
    BY OldLines
  <1>2. Len(l) \in Nat /\ \A i \in 1 .. Len(l) : l[i] \in Line
    OBVIOUS
  <1> DEFINE g == [n \in 0 .. Len(l) |-> SubSeq(l, k + 1, n)]
  <1>3. \A n \in 0 .. Len(l) : n <= k => g[n] = <<>>
    BY <1>2, SubSeqEmpty
  <1>4. \A n \in 1 .. Len(l) : n > k => g[n] = Append(g[n - 1], l[n])
    <2>1. SUFFICES ASSUME NEW n \in 1 .. Len(l), n > k PROVE g[n] = Append(g[n - 1], l[n])
      OBVIOUS
    <2>2. k + 1 \in 1 .. Len(l) /\ n \in k + 1 .. Len(l) /\ n - 1 \in 0 .. Len(l)
      BY <1>2, <2>1
    <2>3. SubSeq(l, k + 1, n) = SubSeq(l, k + 1, n - 1) \o <<l[n]>>
      BY <2>2, SubSeqRecursiveSecond
    <2>4. SubSeq(l, k + 1, n - 1) \in Seq(Line)
      BY <1>2, <2>2, SubSeqProperties
    <2>5. Append(SubSeq(l, k + 1, n - 1), l[n]) = SubSeq(l, k + 1, n - 1) \o <<l[n]>>
      BY <1>2, <2>1, <2>4, AppendIsConcat
    <2>6. g[n] = SubSeq(l, k + 1, n) /\ g[n - 1] = SubSeq(l, k + 1, n - 1)
      BY <2>2
    <2> HIDE DEF g
    <2>7. QED BY <2>3, <2>5, <2>6
  <1>5. DOMAIN g = 0 .. Len(l) /\ g[Len(l)] = SubSeq(l, k + 1, Len(l))
    BY <1>2
  <1> HIDE DEF g
  <1>6. Keeps(l, g)
    <2>1. ASSUME NEW n \in 0 .. Len(l)
          PROVE  g[n] = IF n = 0 THEN <<>>
                        ELSE IF Young(l[n]) THEN Append(g[n - 1], l[n]) ELSE g[n - 1]
      <3>1. CASE n = 0
        BY <1>3, <3>1
      <3>2. CASE n # 0 /\ n <= k
        <4>1. ~Young(l[n]) /\ g[n] = <<>> /\ g[n - 1] = <<>>
          BY <1>1, <1>3, <3>2 DEF Young
        <4>2. QED BY <3>2, <4>1
      <3>3. CASE n # 0 /\ n > k
        <4>1. Young(l[n])
          BY <1>1, <3>3 DEF Young
        <4>2. g[n] = Append(g[n - 1], l[n])
          <5>1. n \in 1 .. Len(l) /\ n > k
            BY <1>2, <2>1, <3>3
          <5>2. QED BY <1>4, <5>1
        <4>3. QED BY <3>3, <4>1, <4>2, Zenon
      <3>4. QED BY <3>1, <3>2, <3>3
    <2>2. g = [n \in 0 .. Len(l) |-> g[n]]
      BY DEF g
    <2>3. QED BY <2>1, <2>2 DEF Keeps
  <1>7. PICK f : Keeps(l, f) /\ OnlyYoung(l) = f[Len(l)]
    BY <1>6 DEF OnlyYoung, Keeps
  <1> DEFINE T == {n \in Nat : n <= Len(l) => f[n] = g[n]}
  <1>8. 0 \in T
    BY <1>2, <1>6, <1>7 DEF Keeps
  <1>9. ASSUME NEW n \in Nat, n \in T PROVE n + 1 \in T
    <2>1. SUFFICES ASSUME n + 1 <= Len(l) PROVE f[n + 1] = g[n + 1]
      OBVIOUS
    <2>2. n + 1 \in 0 .. Len(l) /\ n + 1 # 0 /\ (n + 1) - 1 = n /\ f[n] = g[n]
      BY <1>2, <1>9, <2>1
    <2>3. f[n + 1] = IF Young(l[n + 1]) THEN Append(f[n], l[n + 1]) ELSE f[n]
      BY <1>7, <2>2 DEF Keeps
    <2>4. g[n + 1] = IF Young(l[n + 1]) THEN Append(g[n], l[n + 1]) ELSE g[n]
      BY <1>6, <2>2 DEF Keeps
    <2>5. QED BY <2>2, <2>3, <2>4
  <1> HIDE DEF T
  <1>10. Nat \subseteq T
    BY <1>8, <1>9, SetInduction
  <1>11. OnlyYoung(l) = SubSeq(l, k + 1, Len(l))
    BY <1>2, <1>5, <1>7, <1>10 DEF T
  <1>12. QED
    <2>1. /\ SubSeq(l, k + 1, Len(l)) \in Seq(Line)
          /\ Len(SubSeq(l, k + 1, Len(l))) = Len(l) - k
          /\ \A i \in 1 .. Len(l) - k : SubSeq(l, k + 1, Len(l))[i] = l[k + i]
      <3>1. \A i \in k + 1 .. Len(l) : l[i] \in Line
        BY <1>2
      <3>2. /\ SubSeq(l, k + 1, Len(l)) \in Seq(Line)
            /\ Len(SubSeq(l, k + 1, Len(l))) = IF k + 1 <= Len(l) THEN Len(l) - (k + 1) + 1 ELSE 0
            /\ \A i \in 1 .. Len(l) - (k + 1) + 1 : SubSeq(l, k + 1, Len(l))[i] = l[(k + 1) + i - 1]
        BY <1>2, <3>1, SubSeqProperties
      <3> DEFINE r == SubSeq(l, k + 1, Len(l))
      <3> HIDE DEF r
      <3>3. Len(r) = Len(l) - k /\ \A i \in 1 .. Len(l) - k : r[i] = l[k + i]
        <4>1. Len(r) = Len(l) - k
          BY <1>2, <3>2 DEF r
        <4>2. ASSUME NEW i \in 1 .. Len(l) - k PROVE r[i] = l[k + i]
          <5>1. i \in 1 .. Len(l) - (k + 1) + 1 /\ (k + 1) + i - 1 = k + i
            BY <1>2
          <5>2. QED BY <3>2, <5>1 DEF r
        <4>3. QED BY <4>1, <4>2
      <3>4. QED BY <3>2, <3>3 DEF r
    <2>2. QED BY <1>11, <2>1 DEF IsEnd
-----------------------------------------------------------------------------
(* The event log.  The files a run has replaced are ahead of the log until  *)
(* its events are appended; whatever it has not replaced agrees with the    *)
(* log, and what it will write differs from that by its events only.        *)

\* An entry that is offline has missed as many scans as make it so.
Entry == [online : BOOLEAN, miss : Nat, old : BOOLEAN]
SettledEntry == {NoEntry} \cup {e \in Entry : e.online \/ e.miss >= Thr}

Status(s, addr, st) ==
    IF s = Wan THEN IF addr = NoAddr THEN "down" ELSE "up"
    ELSE IF Online(st[s]) THEN "up" ELSE "down"
FileStatus(s) == Status(s, wanAddr, state)
RunStatus(s)  == Status(s, run.wanAddr, run.state)

\* The last arrival or departure of s in l says x; there is none.
Tells(e, s) == e.sub = s /\ e.ev # "change"
SaidLast(l, s, x) ==
    \A i \in DOMAIN l : Tells(l[i], s) /\ (\A j \in DOMAIN l : Tells(l[j], s) => j <= i) => l[i].ev = x
Silent(l, s) == \A i \in DOMAIN l : ~Tells(l[i], s)

\* The step that writes the status of s; an event of the current run will tell it.
WriteOf(s) == IF s = Wan THEN 4 ELSE 5
Pending(s) == s \in PresenceOf(run.events)

FilesType ==
    /\ step \in 0 .. 7 /\ log \in Seq(Line) /\ OldFirst(log)
    /\ state \in [Mac -> SettledEntry]
    /\ wanAddr \in Addr \cup {NoAddr, NoFile}
    /\ wanAddr = NoFile => Silent(log, Wan)

RunFollows ==
    step # 0 =>
        /\ run.state \in [Mac -> SettledEntry] /\ run.wanAddr \in Addr \cup {NoAddr}
        /\ run.events \subseteq Subject \X {"up", "down", "change"}
        /\ \A e \in run.events : e[2] # "change" => e[2] = RunStatus(e[1])
        /\ step > 4 => wanAddr = run.wanAddr
        /\ step > 5 => state = run.state
        /\ \A s \in Subject : step <= WriteOf(s) /\ ~Pending(s) =>
              RunStatus(s) = FileStatus(s) \/ (s = Wan /\ wanAddr = NoFile)

LogFollows ==
    \A s \in Subject \ lost :
        (step \in WriteOf(s) + 1 .. 6 /\ Pending(s)) \/ SaidLast(log, s, FileStatus(s))

LogInv == FilesType /\ RunFollows /\ LogFollows

LEMMA PendingEvents ==
    ASSUME NEW events, NEW s
    PROVE  s \in PresenceOf(events) <=> \E e \in events : e[1] = s /\ e[2] # "change"
  BY DEF PresenceOf

\* An entry comes or goes with an event, and only then.
LEMMA EntryStep ==
    ASSUME NEW e \in SettledEntry, NEW s \in Sighting
    PROVE  /\ Prune(NextEntry(e, s)) \in SettledEntry
           /\ Arrives(e, s) => Online(Prune(NextEntry(e, s)))
           /\ Departs(e, s) => ~Online(Prune(NextEntry(e, s)))
           /\ ~Arrives(e, s) /\ ~Departs(e, s) => (Online(Prune(NextEntry(e, s))) <=> Online(e))
  <1>1. Thr \in Nat \ {0} /\ KeepSlack \in Nat /\ NoEntry \notin Entry
    BY NamesAssumption, BoundsAssumption DEF Entry
  <1> DEFINE n == NextEntry(e, s)
  <1> HIDE DEF n
  <1>2. CASE s = "up"
    <2>1. n = [online |-> TRUE, miss |-> 0, old |-> FALSE]
      BY <1>2 DEF NextEntry, n
    <2>2. n \in Entry /\ n.online /\ n # NoEntry
      <3>1. n \in Entry
        BY <2>1 DEF Entry
      <3>2. n.online
        BY <2>1
      <3>3. QED BY <1>1, <3>1, <3>2
    <2>3. Prune(n) = n
      BY <2>2 DEF Prune
    <2>4. ~Departs(e, s)
      BY <1>2 DEF Departs
    <2>5. ~Arrives(e, s) => Online(e)
      BY <1>1, <1>2 DEF Arrives, Online, SettledEntry
    <2>6. QED BY <2>2, <2>3, <2>4, <2>5 DEF Online, SettledEntry, n
  <1>3. CASE s # "up" /\ e = NoEntry
    <2>1. n = NoEntry \/ n = [online |-> FALSE, miss |-> 1, old |-> TRUE]
      BY <1>3 DEF NextEntry, n
    <2>2. Prune(n) = NoEntry
      BY <2>1 DEF Prune
    <2>3. ~Arrives(e, s) /\ ~Departs(e, s) /\ ~Online(e)
      BY <1>3 DEF Arrives, Departs, Online
    <2>4. QED BY <2>2, <2>3 DEF Online, SettledEntry, n
  <1>4. CASE s # "up" /\ e # NoEntry
    <2>1. e \in Entry /\ (e.online \/ e.miss >= Thr) /\ e.miss \in Nat
      BY <1>4 DEF SettledEntry, Entry
    <2>2. NewMiss(e) \in Nat /\ NewMiss(e) >= e.miss
      BY <1>1, <1>4, <2>1 DEF NewMiss
    <2>3. ~Arrives(e, s) /\ (Departs(e, s) <=> e.online /\ NewMiss(e) >= Thr)
      BY <1>4 DEF Arrives, Departs, Online
    <2>4. \/ n = NoEntry /\ ~Departs(e, s) /\ NewMiss(e) >= Thr + KeepSlack
          \/ n = [online |-> e.online /\ NewMiss(e) < Thr, miss |-> NewMiss(e), old |-> e.old]
      BY <1>4 DEF NextEntry, n
    <2>5. CASE n = NoEntry /\ ~Departs(e, s) /\ NewMiss(e) >= Thr + KeepSlack
      <3>1. ~e.online
        BY <1>1, <2>2, <2>3, <2>5
      <3>2. Prune(n) = NoEntry
        BY <2>5 DEF Prune
      <3>3. QED BY <2>5, <2>3, <3>1, <3>2 DEF Online, SettledEntry, n
    <2>6. CASE n = [online |-> e.online /\ NewMiss(e) < Thr, miss |-> NewMiss(e), old |-> e.old]
      <3>1. n.online <=> e.online /\ NewMiss(e) < Thr
        BY <2>6
      <3>2. n \in Entry /\ (n.online \/ n.miss >= Thr)
        <4>1. n \in Entry /\ n.miss = NewMiss(e)
          BY <2>1, <2>2, <2>6 DEF Entry
        <4>2. e.online \/ NewMiss(e) >= Thr
          BY <1>1, <2>1, <2>2
        <4>3. NewMiss(e) >= Thr \/ NewMiss(e) < Thr
          BY <1>1, <2>2
        <4>4. QED BY <3>1, <4>1, <4>2, <4>3
      <3>3. n \in SettledEntry /\ Prune(n) \in {n, NoEntry} /\ (n.online => Prune(n) = n)
        BY <1>1, <3>2 DEF SettledEntry, Prune
      <3>4. Online(Prune(n)) <=> n.online
        BY <1>1, <3>2, <3>3 DEF Online
      <3>5. ~(NewMiss(e) >= Thr) <=> NewMiss(e) < Thr
        BY <1>1, <2>2
      <3>6. Prune(n) \in SettledEntry
        BY <3>3 DEF SettledEntry
      <3>7. Online(e) <=> e.online
        BY <1>4 DEF Online
      <3>8. QED BY <2>3, <3>1, <3>4, <3>5, <3>6, <3>7 DEF n
    <2>7. QED BY <2>4, <2>5, <2>6
  <1>5. QED BY <1>2, <1>3, <1>4
\* A WAN address comes, goes and changes with an event, except the first.
LEMMA WanStep ==
    ASSUME NEW a \in Addr \cup {NoAddr}, wanAddr \in Addr \cup {NoAddr, NoFile}
    PROVE  /\ WanEvents(a) \subseteq {Wan} \X {"up", "down", "change"}
           /\ \A e \in WanEvents(a) : e[2] # "change" => e[2] = IF a = NoAddr THEN "down" ELSE "up"
           /\ (\A e \in WanEvents(a) : e[2] = "change") => wanAddr = NoFile \/ (wanAddr = NoAddr <=> a = NoAddr)
  <1>1. CASE wanAddr \in {NoFile, a}
    BY <1>1 DEF WanEvents
  <1>2. CASE wanAddr \notin {NoFile, a}
    <2>1. WanEvents(a) =
            {<<Wan, IF wanAddr = NoAddr THEN "up" ELSE IF a = NoAddr THEN "down" ELSE "change">>}
      BY <1>2 DEF WanEvents
    <2>2. wanAddr = NoAddr => a # NoAddr
      BY <1>2
    <2>3. CASE wanAddr = NoAddr
      <3>1. WanEvents(a) = {<<Wan, "up">>}
        BY <2>1, <2>3
      <3>2. QED BY <2>2, <2>3, <3>1
    <2>4. CASE wanAddr # NoAddr /\ a = NoAddr
      <3>1. WanEvents(a) = {<<Wan, "down">>}
        BY <2>1, <2>4
      <3>2. QED BY <2>4, <3>1
    <2>5. CASE wanAddr # NoAddr /\ a # NoAddr
      <3>1. WanEvents(a) = {<<Wan, "change">>}
        BY <2>1, <2>5
      <3>2. QED BY <2>5, <3>1
    <2>6. QED BY <2>3, <2>4, <2>5
  <1>3. QED BY <1>1, <1>2

LEMMA DeviceStep ==
    ASSUME NEW seen, NEW changed \in SUBSET Mac
    PROVE  /\ DeviceEvents(seen, changed) \subseteq Mac \X {"up", "down", "change"}
           /\ \A m \in Mac :
                 /\ <<m, "up">> \in DeviceEvents(seen, changed) <=> Arrives(state[m], seen[m])
                 /\ <<m, "down">> \in DeviceEvents(seen, changed) <=> Departs(state[m], seen[m])
  BY DEF DeviceEvents

LEMMA LogInit == Init => LogInv
  <1> SUFFICES ASSUME Init PROVE LogInv
    OBVIOUS
  <1>1. FilesType
    BY DEF Init, FilesType, SettledEntry, OldFirst, Silent
  <1>2. RunFollows /\ LogFollows
    BY DEF Init, RunFollows, LogFollows, SaidLast
  <1>3. QED BY <1>1, <1>2 DEF LogInv

\* The events of a run that begins tell what it will write.
LEMMA BeginKeepsLog ==
    ASSUME LogInv, Begin
    PROVE  LogInv'
  <1>0. PICK seen \in [Mac -> Sighting], a \in Addr \cup {NoAddr}, readable \in BOOLEAN, plausible \in BOOLEAN :
        \E changed \in SUBSET Changes(seen) :
            /\ step = 0
            /\ run' = [was |-> state, wanBw |-> NextWanBw(readable), sample |-> count,
                       accum |-> accum + Credited(plausible), wanAddr |-> a,
                       state |-> [m \in Mac |-> Prune(NextEntry(state[m], seen[m]))],
                       events |-> WanEvents(a) \cup DeviceEvents(seen, changed)]
            /\ step' = 1
            /\ first' = IF wanBw = NoFile /\ readable THEN count ELSE first
            /\ clean' = ((wanBw = NoFile /\ readable) \/ clean)
            /\ UNCHANGED <<files, count, real, lost>>
    BY Zenon DEF Begin
  <1>1. \E changed \in SUBSET Changes(seen) :
          /\ step = 0 /\ step' = 1
          /\ run' = [was |-> state, wanBw |-> NextWanBw(readable), sample |-> count,
                     accum |-> accum + Credited(plausible), wanAddr |-> a,
                     state |-> [m \in Mac |-> Prune(NextEntry(state[m], seen[m]))],
                     events |-> WanEvents(a) \cup DeviceEvents(seen, changed)]
          /\ state' = state /\ wanAddr' = wanAddr /\ log' = log /\ lost' = lost
    BY <1>0 DEF files
  <1>2. PICK changed \in SUBSET Changes(seen) :
          /\ step = 0 /\ step' = 1
          /\ run'.wanAddr = a
          /\ run'.state = [m \in Mac |-> Prune(NextEntry(state[m], seen[m]))]
          /\ run'.events = WanEvents(a) \cup DeviceEvents(seen, changed)
          /\ state' = state /\ wanAddr' = wanAddr /\ log' = log /\ lost' = lost
    BY <1>1
  <1>3. changed \in SUBSET Mac /\ Wan \notin Mac
    BY NamesAssumption DEF Changes
  <1>4. FilesType /\ LogFollows
    BY DEF LogInv
  <1>5. FilesType'
    BY <1>2, <1>4 DEF FilesType
  <1> DEFINE st == run'.state
             ev == run'.events
  <1>6. \A m \in Mac : st[m] = Prune(NextEntry(state[m], seen[m])) /\ state[m] \in SettledEntry /\ seen[m] \in Sighting
    BY <1>2, <1>4 DEF FilesType
  <1>7. st \in [Mac -> SettledEntry]
    BY <1>2, <1>6, EntryStep
  <1>8. ev = WanEvents(a) \cup DeviceEvents(seen, changed)
    BY <1>2
  <1> HIDE DEF st, ev
  <1>9. /\ WanEvents(a) \subseteq {Wan} \X {"up", "down", "change"}
        /\ DeviceEvents(seen, changed) \subseteq Mac \X {"up", "down", "change"}
    BY <1>3, <1>4, WanStep, DeviceStep DEF FilesType
  <1>10. ev \subseteq Subject \X {"up", "down", "change"}
    BY <1>8, <1>9 DEF Subject
  <1>11. ASSUME NEW e \in ev, e[2] # "change"
         PROVE  e[2] = Status(e[1], a, st)
    <2>1. CASE e \in WanEvents(a)
      <3>1. e[1] = Wan
        BY <1>9, <2>1
      <3>2. e[2] = IF a = NoAddr THEN "down" ELSE "up"
        BY <1>4, <1>11, <2>1, WanStep DEF FilesType
      <3>3. QED BY <3>1, <3>2 DEF Status
    <2>2. CASE e \in DeviceEvents(seen, changed)
      <3>1. PICK m \in Mac : e[1] = m /\ e = <<m, e[2]>> /\ e[2] \in {"up", "down"}
        BY <1>9, <1>11, <2>2
      <3>2. m # Wan
        BY <1>3
      <3>3. CASE e[2] = "up"
        <4>0. <<m, "up">> \in DeviceEvents(seen, changed)
          BY <2>2, <3>1, <3>3
        <4>1. Arrives(state[m], seen[m])
          BY <1>3, <4>0, DeviceStep
        <4>2. Online(st[m])
          BY <1>6, <4>1, EntryStep
        <4>3. QED BY <3>1, <3>2, <3>3, <4>2 DEF Status
      <3>4. CASE e[2] = "down"
        <4>0. <<m, "down">> \in DeviceEvents(seen, changed)
          BY <2>2, <3>1, <3>4
        <4>1. Departs(state[m], seen[m])
          BY <1>3, <4>0, DeviceStep
        <4>2. ~Online(st[m])
          BY <1>6, <4>1, EntryStep
        <4>3. QED BY <3>1, <3>2, <3>4, <4>2 DEF Status
      <3>5. QED BY <3>1, <3>3, <3>4
    <2>3. QED BY <1>8, <2>1, <2>2
  <1>12. ASSUME NEW s \in Subject, s \notin PresenceOf(ev)
         PROVE  Status(s, a, st) = FileStatus(s) \/ (s = Wan /\ wanAddr = NoFile)
    <2>1. \A e \in ev : e[1] = s => e[2] = "change"
      BY <1>12, PendingEvents
    <2>2. CASE s = Wan
      <3>1. \A e \in WanEvents(a) : e[2] = "change"
        BY <1>8, <1>9, <2>1, <2>2
      <3>2. wanAddr = NoFile \/ (wanAddr = NoAddr <=> a = NoAddr)
        BY <1>4, <3>1, WanStep DEF FilesType
      <3>3. QED BY <2>2, <3>2 DEF Status, FileStatus
    <2>3. CASE s \in Mac
      <3>1. <<s, "up">> \notin ev /\ <<s, "down">> \notin ev
        <4>1. ASSUME NEW x \in {"up", "down"}, <<s, x>> \in ev PROVE FALSE
          <5> DEFINE e == <<s, x>>
          <5>1. e[1] = s /\ e[2] = x
            OBVIOUS
          <5>2. e[2] = "change"
            BY <2>1, <4>1, <5>1
          <5>3. QED BY <5>1, <5>2
        <4>2. QED BY <4>1
      <3>2. ~Arrives(state[s], seen[s]) /\ ~Departs(state[s], seen[s])
        BY <1>3, <1>8, <2>3, <3>1, DeviceStep
      <3>3. Online(st[s]) <=> Online(state[s])
        BY <1>6, <2>3, <3>2, EntryStep
      <3>4. QED BY <1>3, <2>3, <3>3 DEF Status, FileStatus
    <2>4. QED BY <2>2, <2>3 DEF Subject
  <1>13. RunFollows'
    <2>1. \A s : RunStatus(s)' = Status(s, a, st)
      BY <1>2 DEF RunStatus, Status, st
    <2>2. \A s : FileStatus(s)' = FileStatus(s)
      BY <1>2 DEF FileStatus, Status
    <2>3. \A e \in ev : e[2] # "change" => e[2] = RunStatus(e[1])'
      BY <1>11, <2>1
    <2>4. \A s \in Subject : s \notin PresenceOf(ev) =>
             RunStatus(s)' = FileStatus(s)' \/ (s = Wan /\ wanAddr' = NoFile)
      BY <1>2, <1>12, <2>1, <2>2
    <2>5. run'.state \in [Mac -> SettledEntry] /\ run'.wanAddr \in Addr \cup {NoAddr}
      BY <1>2, <1>7 DEF st
    <2>6. run'.events = ev /\ step' = 1
      BY <1>2 DEF ev
    <2>7. QED BY <1>10, <2>3, <2>4, <2>5, <2>6 DEF RunFollows, Pending
  <1>14. LogFollows'
    <2>1. \A s \in Subject \ lost : SaidLast(log, s, FileStatus(s))
      BY <1>2, <1>4 DEF LogFollows, WriteOf
    <2>2. \A s : FileStatus(s)' = FileStatus(s)
      BY <1>2 DEF FileStatus, Status
    <2>3. QED BY <1>2, <2>1, <2>2 DEF LogFollows
  <1>15. QED BY <1>5, <1>13, <1>14 DEF LogInv
LEMMA WriteStep ==
    ASSUME FilesType, NEW file, Writes(file)
    PROVE  /\ step \in 1 .. 7 /\ WriteOrder[step] = file
           /\ step < 7 => step' = step + 1 /\ run' = run
           /\ step = 7 => step' = 0
  <1>1. step \in 1 .. 7 /\ WriteOrder[step] = file
    BY DEF Writes, FilesType
  <1>2. Len(WriteOrder) = 7
    BY <1>1, WriteSteps
  <1>3. IF step < 7 THEN step' = step + 1 /\ run' = run ELSE step' = 0
    BY <1>2 DEF Writes
  <1>4. QED BY <1>1, <1>3

\* The first three writes leave the log and the files it is about alone.
LEMMA OtherWritesKeepLog ==
    ASSUME LogInv, WriteWanRates \/ WriteDeviceSample \/ WriteDeviceTotals
    PROVE  LogInv'
  <1>0. FilesType /\ RunFollows /\ LogFollows
    BY DEF LogInv
  <1>1. PICK file : Writes(file)
    BY DEF WriteWanRates, WriteDeviceSample, WriteDeviceTotals
  <1>2. /\ step \in 1 .. 7
        /\ WriteOrder[step] = "wan rates" \/ WriteOrder[step] = "device sample" \/ WriteOrder[step] = "device totals"
    BY <1>0, WriteStep DEF WriteWanRates, WriteDeviceSample, WriteDeviceTotals
  <1>3. step \in 1 .. 3
    <2>1. step = 1 \/ step = 2 \/ step = 3
      BY <1>2, WriteSteps
    <2>2. QED BY <2>1
  <1>4. step' = step + 1 /\ run' = run
    BY <1>0, <1>1, <1>3, WriteStep
  <1>5. state' = state /\ wanAddr' = wanAddr /\ log' = log /\ lost' = lost
    BY DEF WriteWanRates, WriteDeviceSample, WriteDeviceTotals
  <1>6. FilesType'
    BY <1>0, <1>3, <1>4, <1>5 DEF FilesType
  <1>7. \A s : FileStatus(s)' = FileStatus(s) /\ RunStatus(s)' = RunStatus(s) /\ (Pending(s)' <=> Pending(s))
    BY <1>4, <1>5 DEF FileStatus, RunStatus, Status, Pending
  <1>8. RunFollows'
    <2>1. \A s : step <= WriteOf(s)
      BY <1>3 DEF WriteOf
    <2>2. \A s \in Subject : ~Pending(s) => RunStatus(s) = FileStatus(s) \/ (s = Wan /\ wanAddr = NoFile)
      BY <1>0, <1>3, <2>1 DEF RunFollows
    <2>3. /\ run.state \in [Mac -> SettledEntry] /\ run.wanAddr \in Addr \cup {NoAddr}
          /\ run.events \subseteq Subject \X {"up", "down", "change"}
          /\ \A e \in run.events : e[2] # "change" => e[2] = RunStatus(e[1])
      BY <1>0, <1>3 DEF RunFollows
    <2>4. ~(step' > 4) /\ ~(step' > 5)
      BY <1>3, <1>4
    <2>5. QED BY <1>4, <1>5, <1>7, <2>2, <2>3, <2>4 DEF RunFollows
  <1>9. LogFollows'
    <2>1. \A s \in Subject \ lost : SaidLast(log, s, FileStatus(s))
      BY <1>0, <1>3 DEF LogFollows, WriteOf
    <2>2. QED BY <1>5, <1>7, <2>1 DEF LogFollows
  <1>10. QED BY <1>6, <1>8, <1>9 DEF LogInv

\* The address is replaced, then the state: the log lags behind by the events of
\* the run.
LEMMA StatusWritesKeepLog ==
    ASSUME LogInv, WriteWanAddress \/ SaveState
    PROVE  LogInv'
  <1>0. FilesType /\ RunFollows /\ LogFollows
    BY DEF LogInv
  <1>1. \/ step = 4 /\ wanAddr' = run.wanAddr /\ state' = state /\ step' = 5
        \/ step = 5 /\ state' = run.state /\ wanAddr' = wanAddr /\ step' = 6
    <2>1. CASE WriteWanAddress
      <3>1. step \in 1 .. 7 /\ WriteOrder[step] = "wan address"
        BY <1>0, <2>1, WriteStep DEF WriteWanAddress
      <3>2. step = 4
        BY <3>1, WriteSteps
      <3>3. step' = 5
        <4>1. PICK file : Writes(file)
          BY <2>1 DEF WriteWanAddress
        <4>2. QED BY <1>0, <3>2, <4>1, WriteStep
      <3>4. QED BY <2>1, <3>2, <3>3 DEF WriteWanAddress
    <2>2. CASE SaveState
      <3>1. step \in 1 .. 7 /\ WriteOrder[step] = "state"
        BY <1>0, <2>2, WriteStep DEF SaveState
      <3>2. step = 5
        BY <3>1, WriteSteps
      <3>3. step' = 6
        <4>1. PICK file : Writes(file)
          BY <2>2 DEF SaveState
        <4>2. QED BY <1>0, <3>2, <4>1, WriteStep
      <3>4. QED BY <2>2, <3>2, <3>3 DEF SaveState
    <2>3. QED BY <2>1, <2>2
  <1>2. run' = run /\ log' = log /\ lost' = lost
    <2>1. PICK file : Writes(file)
      BY DEF WriteWanAddress, SaveState
    <2>2. run' = run
      BY <1>0, <1>1, <2>1, WriteStep
    <2>3. QED BY <2>2 DEF WriteWanAddress, SaveState
  <1>3. /\ run.state \in [Mac -> SettledEntry] /\ run.wanAddr \in Addr \cup {NoAddr}
        /\ run.events \subseteq Subject \X {"up", "down", "change"}
        /\ \A e \in run.events : e[2] # "change" => e[2] = RunStatus(e[1])
        /\ step > 4 => wanAddr = run.wanAddr
        /\ \A s \in Subject : step <= WriteOf(s) /\ ~Pending(s) =>
              RunStatus(s) = FileStatus(s) \/ (s = Wan /\ wanAddr = NoFile)
    BY <1>0, <1>1 DEF RunFollows
  <1>4. FilesType'
    <2>1. NoFile \notin Addr \cup {NoAddr}
      BY NamesAssumption
    <2>2. state' \in [Mac -> SettledEntry] /\ wanAddr' \in Addr \cup {NoAddr, NoFile}
      BY <1>0, <1>1, <1>3 DEF FilesType
    <2>3. wanAddr' = NoFile => Silent(log, Wan)
      BY <1>0, <1>1, <1>3, <2>1 DEF FilesType
    <2>4. QED BY <1>0, <1>1, <1>2, <2>2, <2>3 DEF FilesType
  <1>5. \A s : RunStatus(s)' = RunStatus(s) /\ (Pending(s)' <=> Pending(s))
    BY <1>2 DEF RunStatus, Status, Pending
  <1>6. Wan \notin Mac
    BY NamesAssumption
  <1>7. \A s \in Subject : WriteOf(s) # step => FileStatus(s)' = FileStatus(s)
    BY <1>1, <1>6 DEF FileStatus, Status, WriteOf, Subject
  <1>8. \A s \in Subject : WriteOf(s) = step => FileStatus(s)' = RunStatus(s)
    BY <1>1, <1>6 DEF FileStatus, RunStatus, Status, WriteOf, Subject
  <1>9. RunFollows'
    <2>1. ASSUME NEW s \in Subject, step' <= WriteOf(s), ~Pending(s)
          PROVE  RunStatus(s) = FileStatus(s)' \/ (s = Wan /\ wanAddr' = NoFile)
      <3>1. s # Wan /\ step <= WriteOf(s) /\ WriteOf(s) # step
        BY <1>1, <2>1 DEF WriteOf
      <3>2. QED BY <1>3, <1>7, <2>1, <3>1
    <2>2. step' > 4 => wanAddr' = run.wanAddr
      BY <1>1, <1>3
    <2>3. step' > 5 => state' = run.state
      BY <1>1
    <2>4. QED BY <1>2, <1>3, <1>5, <2>1, <2>2, <2>3 DEF RunFollows
  <1>10. LogFollows'
    <2>1. SUFFICES ASSUME NEW s \in Subject \ lost, ~(step' \in WriteOf(s) + 1 .. 6 /\ Pending(s))
                   PROVE  SaidLast(log, s, FileStatus(s)')
      BY <1>2, <1>5 DEF LogFollows
    <2>2. SaidLast(log, s, FileStatus(s))
      <3>1. ~(step \in WriteOf(s) + 1 .. 6 /\ Pending(s))
        BY <1>1, <2>1 DEF WriteOf
      <3>2. QED BY <1>0, <3>1 DEF LogFollows
    <2>3. CASE WriteOf(s) # step
      BY <1>7, <2>2, <2>3
    <2>4. CASE WriteOf(s) = step
      <3>1. ~Pending(s)
        BY <1>1, <2>1, <2>4
      <3>2. RunStatus(s) = FileStatus(s) \/ (s = Wan /\ wanAddr = NoFile)
        BY <1>1, <1>3, <2>4, <3>1
      <3>3. CASE RunStatus(s) = FileStatus(s)
        BY <1>8, <2>2, <2>4, <3>3
      <3>4. CASE s = Wan /\ wanAddr = NoFile
        BY <1>0, <3>4 DEF FilesType, Silent, SaidLast
      <3>5. QED BY <3>2, <3>3, <3>4
    <2>5. QED BY <2>3, <2>4
  <1>11. QED BY <1>4, <1>9, <1>10 DEF LogInv
LEMMA AppendSaid ==
    ASSUME NEW l \in Seq(Line), NEW t \in Seq(Line), NEW s, NEW x,
           SaidLast(l, s, x) \/ ~Silent(t, s),
           \A j \in DOMAIN t : Tells(t[j], s) => t[j].ev = x
    PROVE  SaidLast(l \o t, s, x)
  <1> DEFINE c == l \o t
  <1>1. /\ Len(l) \in Nat /\ Len(t) \in Nat /\ c \in Seq(Line) /\ Len(c) = Len(l) + Len(t)
        /\ \A i \in 1 .. Len(l) + Len(t) : c[i] = IF i <= Len(l) THEN l[i] ELSE t[i - Len(l)]
    BY ConcatProperties
  <1> HIDE DEF c
  <1>2. DOMAIN c = 1 .. Len(l) + Len(t) /\ DOMAIN l = 1 .. Len(l) /\ DOMAIN t = 1 .. Len(t)
    BY <1>1
  <1>3. \A i \in DOMAIN l : i \in DOMAIN c /\ c[i] = l[i]
    BY <1>1, <1>2
  <1>4. \A j \in DOMAIN t : Len(l) + j \in DOMAIN c /\ c[Len(l) + j] = t[j]
    BY <1>1, <1>2
  <1>5. ASSUME NEW i \in DOMAIN c, Tells(c[i], s), \A j \in DOMAIN c : Tells(c[j], s) => j <= i
        PROVE  c[i].ev = x
    <2>1. CASE i <= Len(l)
      <3>1. i \in DOMAIN l /\ c[i] = l[i]
        BY <1>1, <1>2, <1>3, <1>5, <2>1
      <3>2. \A j \in DOMAIN l : Tells(l[j], s) => j <= i
        BY <1>3, <1>5
      <3>3. Silent(t, s)
        <4>1. ASSUME NEW j \in DOMAIN t, Tells(t[j], s) PROVE FALSE
          <5>1. Len(l) + j <= i
            BY <1>4, <1>5, <4>1
          <5>2. QED BY <1>1, <1>2, <2>1, <5>1
        <4>2. QED BY <4>1 DEF Silent
      <3>4. QED BY <1>5, <3>1, <3>2, <3>3 DEF SaidLast
    <2>2. CASE i > Len(l)
      <3>1. i - Len(l) \in DOMAIN t /\ c[i] = t[i - Len(l)]
        BY <1>1, <1>2, <1>5, <2>2
      <3>2. QED BY <1>5, <3>1
    <2>3. QED BY <1>1, <1>2, <2>1, <2>2
  <1>6. QED BY <1>5 DEF SaidLast, c

\* The order of the lines contains every event.
LEMMA EventOrders ==
    ASSUME NEW events, events \subseteq Subject \X {"up", "down", "change"}, NEW order \in SetToSeqs(events)
    PROVE  /\ \E n \in Nat : n = Cardinality(events) /\ order \in [1 .. n -> events]
           /\ \A e \in events : \E i \in DOMAIN order : order[i] = e
  <1>1. IsFiniteSet(events)
    <2>1. IsFiniteSet({"up"} \cup {"down"} \cup {"change"})
      BY FS_Singleton, FS_Union
    <2>2. {"up"} \cup {"down"} \cup {"change"} = {"up", "down", "change"}
      OBVIOUS
    <2>3. IsFiniteSet(Subject)
      BY BoundsAssumption, FS_AddElement DEF Subject
    <2>4. IsFiniteSet(Subject \X {"up", "down", "change"})
      BY <2>1, <2>2, <2>3, FS_Product
    <2>5. QED BY <2>4, FS_Subset
  <1>2. Cardinality(events) \in Nat
    BY <1>1, FS_CardinalityType
  <1> DEFINE D == 1 .. Cardinality(events)
  <1>3. order \in [D -> events] /\ \A i, j \in D : i # j => order[i] # order[j]
    BY DEF SetToSeqs
  <1>4. order \in Injection(D, events)
    BY <1>3 DEF Injection, IsInjective
  <1>5. IsFiniteSet(D) /\ Cardinality(D) = Cardinality(events)
    <2>1. Cardinality(D) = IF 1 > Cardinality(events) THEN 0 ELSE Cardinality(events) - 1 + 1
      BY <1>2, FS_Interval
    <2>2. QED BY <1>2, <2>1, FS_Interval
  <1>6. order \in Surjection(D, events)
    BY <1>1, <1>4, <1>5, FS_Injection
  <1>7. QED BY <1>2, <1>3, <1>6 DEF Surjection

LEMMA AppendKeepsLog ==
    ASSUME LogInv, AppendEvents
    PROVE  LogInv'
  <1>0. FilesType /\ RunFollows /\ LogFollows
    BY DEF LogInv
  <1>1. step = 6 /\ step' = 7 /\ run' = run
    <2>1. PICK file : Writes(file) /\ file = "log"
      BY DEF AppendEvents
    <2>2. step \in 1 .. 7 /\ WriteOrder[step] = "log"
      BY <1>0, <2>1, WriteStep
    <2>3. step = 6
      BY <2>2, WriteSteps
    <2>4. step' = step + 1 /\ run' = run
      <3>1. PICK f : Writes(f)
        BY <2>1
      <3>2. QED BY <1>0, <2>3, <3>1, WriteStep
    <2>5. QED BY <2>3, <2>4
  <1>2. /\ run.state \in [Mac -> SettledEntry] /\ run.wanAddr \in Addr \cup {NoAddr}
        /\ run.events \subseteq Subject \X {"up", "down", "change"}
        /\ \A e \in run.events : e[2] # "change" => e[2] = RunStatus(e[1])
        /\ wanAddr = run.wanAddr /\ state = run.state
    BY <1>0, <1>1 DEF RunFollows
  <1>3. PICK order \in SetToSeqs(run.events) :
           log' = log \o [i \in DOMAIN order |-> [sub |-> order[i][1], ev |-> order[i][2], old |-> FALSE]]
    BY DEF AppendEvents
  <1>4. /\ lost' = lost \ PresenceOf(run.events) /\ state' = state /\ wanAddr' = wanAddr
    BY DEF AppendEvents
  <1> DEFINE t == [i \in DOMAIN order |-> [sub |-> order[i][1], ev |-> order[i][2], old |-> FALSE]]
  <1>5. PICK n \in Nat : order \in [1 .. n -> run.events]
    BY <1>2, EventOrders
  <1>6. /\ DOMAIN t = DOMAIN order
        /\ \A i \in DOMAIN t : /\ order[i] \in run.events /\ t[i] \in Line /\ ~t[i].old
                               /\ t[i].sub = order[i][1] /\ t[i].ev = order[i][2]
    BY <1>2, <1>5 DEF Line
  <1>7. t \in Seq(Line)
    BY <1>5, <1>6
  <1>8. log' = log \o t
    BY <1>3
  <1> HIDE DEF t
  <1>9. \A s : \A i \in DOMAIN t : Tells(t[i], s) => Pending(s) /\ t[i].ev = RunStatus(s)
    <2>1. SUFFICES ASSUME NEW s, NEW i \in DOMAIN t, Tells(t[i], s)
                   PROVE  Pending(s) /\ t[i].ev = RunStatus(s)
      OBVIOUS
    <2>2. order[i] \in run.events /\ order[i][1] = s /\ order[i][2] = t[i].ev /\ order[i][2] # "change"
      BY <1>6, <2>1 DEF Tells
    <2>3. s \in PresenceOf(run.events)
      BY <2>2, PendingEvents
    <2>4. QED BY <1>2, <2>2, <2>3 DEF Pending
  <1>10. \A s : Pending(s) => ~Silent(t, s)
    <2>1. SUFFICES ASSUME NEW s, Pending(s) PROVE \E i \in DOMAIN t : Tells(t[i], s)
      BY DEF Silent
    <2>2. PICK e \in run.events : e[1] = s /\ e[2] # "change"
      BY <2>1, PendingEvents DEF Pending
    <2>3. PICK i \in DOMAIN order : order[i] = e
      BY <1>2, EventOrders
    <2>4. QED BY <1>6, <2>2, <2>3 DEF Tells
  <1>11. \A s : FileStatus(s) = RunStatus(s) /\ FileStatus(s)' = FileStatus(s) /\ RunStatus(s)' = RunStatus(s)
    BY <1>1, <1>2, <1>4 DEF FileStatus, RunStatus, Status
  <1>12. FilesType'
    <2>1. log \in Seq(Line) /\ Len(log) \in Nat /\ Len(t) \in Nat
      BY <1>0, <1>7 DEF FilesType
    <2>2. /\ log' \in Seq(Line) /\ Len(log') = Len(log) + Len(t)
          /\ \A i \in 1 .. Len(log) + Len(t) : log'[i] = IF i <= Len(log) THEN log[i] ELSE t[i - Len(log)]
      BY <1>7, <1>8, <2>1, ConcatProperties
    <2>3. OldFirst(log')
      <3>1. SUFFICES ASSUME NEW i \in DOMAIN log', NEW j \in DOMAIN log', i < j, log'[j].old
                     PROVE  log'[i].old
        BY DEF OldFirst
      <3>2. i \in 1 .. Len(log) + Len(t) /\ j \in 1 .. Len(log) + Len(t)
        BY <2>2, <3>1
      <3>3. j <= Len(log)
        <4>1. SUFFICES ASSUME j > Len(log) PROVE FALSE
          BY <2>1, <3>2
        <4>2. j - Len(log) \in DOMAIN t /\ log'[j] = t[j - Len(log)]
          BY <1>7, <2>1, <2>2, <3>2, <4>1
        <4>3. QED BY <1>6, <3>1, <4>2
      <3>4. log'[i] = log[i] /\ log'[j] = log[j] /\ i \in DOMAIN log /\ j \in DOMAIN log
        BY <2>1, <2>2, <3>1, <3>2, <3>3
      <3>5. QED BY <1>0, <3>1, <3>4 DEF FilesType, OldFirst
    <2>4. wanAddr # NoFile
      BY <1>2, NamesAssumption
    <2>5. QED BY <1>0, <1>1, <1>4, <2>2, <2>3, <2>4 DEF FilesType
  <1>13. RunFollows'
    <2>1. \A s \in Subject : ~(step' <= WriteOf(s))
      BY <1>1 DEF WriteOf
    <2>2. \A e \in run.events : e[2] # "change" => e[2] = RunStatus(e[1])'
      BY <1>2, <1>11
    <2>3. QED BY <1>1, <1>2, <1>4, <2>1, <2>2 DEF RunFollows
  <1>14. LogFollows'
    <2>1. SUFFICES ASSUME NEW s \in Subject \ lost' PROVE SaidLast(log', s, FileStatus(s))
      BY <1>11 DEF LogFollows
    <2>2. SaidLast(log, s, FileStatus(s)) \/ ~Silent(t, s)
      <3>1. CASE Pending(s)
        BY <1>10, <3>1
      <3>2. CASE ~Pending(s)
        <4>1. s \notin lost
          BY <1>4, <2>1, <3>2 DEF Pending
        <4>2. QED BY <1>0, <3>2, <4>1 DEF LogFollows
      <3>3. QED BY <3>1, <3>2
    <2>3. log \in Seq(Line)
      BY <1>0 DEF FilesType
    <2>4. \A j \in DOMAIN t : Tells(t[j], s) => t[j].ev = FileStatus(s)
      BY <1>9, <1>11
    <2>5. SaidLast(log \o t, s, FileStatus(s))
      BY <1>7, <2>2, <2>3, <2>4, AppendSaid
    <2>6. QED BY <1>8, <2>5
  <1>15. QED BY <1>12, <1>13, <1>14 DEF LogInv
\* What is left of the log says last what the whole of it said last.
LEMMA EndKeeps ==
    ASSUME NEW l \in Seq(Line), NEW t, IsEnd(t, l)
    PROVE  /\ t \in Seq(Line)
           /\ OldFirst(l) => OldFirst(t)
           /\ \A s, x : SaidLast(l, s, x) => SaidLast(t, s, x)
           /\ \A s : Silent(l, s) => Silent(t, s)
  <1>1. PICK k \in 0 .. Len(l) : Len(t) = Len(l) - k /\ \A i \in 1 .. Len(t) : t[i] = l[k + i]
    BY DEF IsEnd
  <1>2. t \in Seq(Line) /\ Len(l) \in Nat /\ Len(t) \in Nat /\ DOMAIN l = 1 .. Len(l) /\ DOMAIN t = 1 .. Len(t)
    BY DEF IsEnd
  <1>3. \A i \in DOMAIN t : k + i \in DOMAIN l /\ t[i] = l[k + i]
    BY <1>1, <1>2
  <1>4. OldFirst(l) => OldFirst(t)
    <2>1. SUFFICES ASSUME OldFirst(l), NEW i \in DOMAIN t, NEW j \in DOMAIN t, i < j, t[j].old
                   PROVE  t[i].old
      BY DEF OldFirst
    <2>2. k + i < k + j
      BY <1>1, <1>2, <2>1
    <2>3. QED BY <1>3, <2>1, <2>2 DEF OldFirst
  <1>5. ASSUME NEW s, NEW x, SaidLast(l, s, x) PROVE SaidLast(t, s, x)
    <2>1. SUFFICES ASSUME NEW i \in DOMAIN t, Tells(t[i], s), \A j \in DOMAIN t : Tells(t[j], s) => j <= i
                   PROVE  t[i].ev = x
      BY DEF SaidLast
    <2>2. ASSUME NEW j \in DOMAIN l, Tells(l[j], s) PROVE j <= k + i
      <3>1. CASE j <= k
        BY <1>1, <1>2, <2>1, <3>1
      <3>2. CASE j > k
        <4>1. j - k \in DOMAIN t /\ k + (j - k) = j
          BY <1>1, <1>2, <3>2
        <4>2. t[j - k] = l[j]
          BY <1>3, <4>1
        <4>3. j - k <= i
          BY <2>1, <2>2, <4>1, <4>2
        <4>4. QED BY <1>1, <1>2, <2>1, <4>3
      <3>3. QED BY <1>1, <1>2, <3>1, <3>2
    <2>3. k + i \in DOMAIN l /\ t[i] = l[k + i]
      BY <1>3, <2>1
    <2>4. QED BY <1>5, <2>1, <2>2, <2>3 DEF SaidLast
  <1>6. \A s : Silent(l, s) => Silent(t, s)
    BY <1>3 DEF Silent
  <1>7. QED BY <1>2, <1>4, <1>5, <1>6

\* The rule of the last MaxLines lines.
LEMMA LastLinesAreEnd ==
    ASSUME NEW t \in Seq(Line)
    PROVE  IsEnd(SubSeq(t, IF Len(t) > MaxLines THEN Len(t) - MaxLines + 1 ELSE 1, Len(t)), t)
  <1> DEFINE m == IF Len(t) > MaxLines THEN Len(t) - MaxLines + 1 ELSE 1
             r == SubSeq(t, m, Len(t))
  <1>1. Len(t) \in Nat /\ MaxLines \in Nat \ {0}
    BY BoundsAssumption
  <1>2. m \in 1 .. Len(t) + 1
    BY <1>1
  <1> HIDE DEF m
  <1>3. \A i \in m .. Len(t) : t[i] \in Line
    BY <1>1, <1>2
  <1>4. /\ r \in Seq(Line) /\ Len(r) = IF m <= Len(t) THEN Len(t) - m + 1 ELSE 0
        /\ \A i \in 1 .. Len(t) - m + 1 : r[i] = t[m + i - 1]
    BY <1>1, <1>2, <1>3, SubSeqProperties
  <1> HIDE DEF r
  <1>5. m - 1 \in 0 .. Len(t) /\ Len(r) = Len(t) - (m - 1)
    BY <1>1, <1>2, <1>4
  <1>6. \A i \in 1 .. Len(r) : r[i] = t[(m - 1) + i]
    <2>1. SUFFICES ASSUME NEW i \in 1 .. Len(r) PROVE r[i] = t[(m - 1) + i]
      OBVIOUS
    <2>2. i \in 1 .. Len(t) - m + 1 /\ m + i - 1 = (m - 1) + i
      BY <1>1, <1>2, <1>5
    <2>3. QED BY <1>4, <2>2
  <1>7. IsEnd(r, t)
    BY <1>4, <1>5, <1>6 DEF IsEnd
  <1>8. QED BY <1>7 DEF r, m

LEMMA PruneKeepsLog ==
    ASSUME LogInv, PruneEvents
    PROVE  LogInv'
  <1>0. FilesType /\ RunFollows /\ LogFollows
    BY DEF LogInv
  <1>1. step = 7 /\ step' = 0
    <2>1. PICK file : Writes(file)
      BY DEF PruneEvents
    <2>2. step \in 1 .. 7 /\ WriteOrder[step] = "prune"
      BY <1>0, WriteStep DEF PruneEvents
    <2>3. step = 7
      BY <2>2, WriteSteps
    <2>4. QED BY <1>0, <2>1, <2>3, WriteStep
  <1>2. PICK kept : /\ kept = log \/ kept = OnlyYoung(log)
                    /\ log' = SubSeq(kept, IF Len(kept) > MaxLines THEN Len(kept) - MaxLines + 1 ELSE 1, Len(kept))
    BY DEF PruneEvents
  <1>3. state' = state /\ wanAddr' = wanAddr /\ lost' = lost
    BY DEF PruneEvents
  <1>4. log \in Seq(Line) /\ OldFirst(log)
    BY <1>0 DEF FilesType
  <1>5. /\ kept \in Seq(Line) /\ OldFirst(kept)
        /\ \A s, x : SaidLast(log, s, x) => SaidLast(kept, s, x)
        /\ \A s : Silent(log, s) => Silent(kept, s)
    <2>1. CASE kept = log
      BY <1>4, <2>1
    <2>2. CASE kept = OnlyYoung(log)
      BY <1>4, <2>2, OnlyYoungIsEnd, EndKeeps
    <2>3. QED BY <1>2, <2>1, <2>2
  <1>6. IsEnd(log', kept)
    BY <1>2, <1>5, LastLinesAreEnd
  <1>7. /\ log' \in Seq(Line) /\ OldFirst(log')
        /\ \A s, x : SaidLast(log, s, x) => SaidLast(log', s, x)
        /\ \A s : Silent(log, s) => Silent(log', s)
    BY <1>5, <1>6, EndKeeps
  <1>8. FilesType'
    BY <1>0, <1>1, <1>3, <1>7 DEF FilesType
  <1>9. RunFollows'
    BY <1>1 DEF RunFollows
  <1>10. LogFollows'
    <2>1. \A s : FileStatus(s)' = FileStatus(s)
      BY <1>3 DEF FileStatus, Status
    <2>2. \A s \in Subject \ lost : SaidLast(log, s, FileStatus(s))
      BY <1>0, <1>1 DEF LogFollows
    <2>3. QED BY <1>3, <1>7, <2>1, <2>2 DEF LogFollows
  <1>11. QED BY <1>8, <1>9, <1>10 DEF LogInv

\* A kill between a status and the log loses the event, and lost says so.
LEMMA KillKeepsLog ==
    ASSUME LogInv, Kill
    PROVE  LogInv'
  <1>0. FilesType /\ RunFollows /\ LogFollows
    BY DEF LogInv
  <1> DEFINE left == {WriteOrder[i] : i \in step .. Len(WriteOrder)}
             file(s) == IF s = Wan THEN "wan address" ELSE "state"
  <1>1. /\ step # 0 /\ step' = 0
        /\ lost' = IF "log" \in left
                   THEN lost \cup (PresenceOf(run.events) \cap {s \in Subject : file(s) \notin left}) ELSE lost
        /\ state' = state /\ wanAddr' = wanAddr /\ log' = log
    BY DEF Kill, files
  <1>2. step \in 1 .. 7
    <2>1. step # 0
      BY DEF Kill
    <2>2. QED BY <1>0, <2>1 DEF FilesType
  <1>3. \A i \in {4, 5, 6} : WriteOrder[i] \in left <=> i >= step
    <2>1. Len(WriteOrder) = 7
      BY <1>2, WriteSteps
    <2>2. ASSUME NEW i \in {4, 5, 6}, NEW j \in 1 .. 7, WriteOrder[i] = WriteOrder[j] PROVE i = j
      <3>1. /\ WriteOrder[j] = "wan address" <=> j = 4
            /\ WriteOrder[j] = "state" <=> j = 5
            /\ WriteOrder[j] = "log" <=> j = 6
        BY WriteSteps
      <3>2. WriteOrder[4] = "wan address" /\ WriteOrder[5] = "state" /\ WriteOrder[6] = "log"
        BY DEF WriteOrder
      <3>3. i = 4 \/ i = 5 \/ i = 6
        OBVIOUS
      <3>4. WriteOrder[j] = WriteOrder[i]
        BY <2>2
      <3>5. CASE i = 4
        BY <3>1, <3>2, <3>4, <3>5
      <3>6. CASE i = 5
        BY <3>1, <3>2, <3>4, <3>6
      <3>7. CASE i = 6
        BY <3>1, <3>2, <3>4, <3>7
      <3>8. QED BY <3>3, <3>5, <3>6, <3>7
    <2>3. QED BY <1>2, <2>1, <2>2
  <1>4. WriteOrder[4] = "wan address" /\ WriteOrder[5] = "state" /\ WriteOrder[6] = "log"
    BY DEF WriteOrder
  <1> HIDE DEF left, file
  <1>5. ASSUME NEW s \in Subject \ lost' PROVE SaidLast(log, s, FileStatus(s))
    <2>1. s \notin lost
      BY <1>1, <1>5
    <2>2. ASSUME step \in WriteOf(s) + 1 .. 6, Pending(s) PROVE FALSE
      <3>0. ~(WriteOf(s) >= step) /\ 6 >= step /\ WriteOf(s) \in {4, 5}
        BY <1>2, <2>2 DEF WriteOf
      <3>1. "log" \in left
        <4>1. WriteOrder[6] \in left
          BY <1>3, <3>0
        <4>2. QED BY <1>4, <4>1
      <3>2. file(s) \notin left
        <4>1. WriteOrder[WriteOf(s)] \notin left
          BY <1>3, <3>0
        <4>2. file(s) = WriteOrder[WriteOf(s)]
          BY <1>4 DEF file, WriteOf
        <4>3. QED BY <4>1, <4>2
      <3>3. QED BY <1>1, <1>5, <2>2, <3>1, <3>2 DEF Pending
    <2>3. QED BY <1>0, <2>1, <2>2 DEF LogFollows
  <1>6. FilesType'
    <2>1. step' = 0 /\ state' = state /\ wanAddr' = wanAddr /\ log' = log
      BY DEF Kill, files
    <2>2. QED BY <1>0, <2>1 DEF FilesType
  <1>7. RunFollows'
    BY <1>1 DEF RunFollows
  <1>8. LogFollows'
    <2>1. \A s : FileStatus(s)' = FileStatus(s)
      BY <1>1 DEF FileStatus, Status
    <2>2. QED BY <1>1, <1>5, <2>1 DEF LogFollows
  <1>9. QED BY <1>6, <1>7, <1>8 DEF LogInv

\* Days that pass make lines and entries old and change nothing else of them.
LEMMA DaysKeepLog ==
    ASSUME LogInv, DaysPass
    PROVE  LogInv'
  <1>0. FilesType /\ RunFollows /\ LogFollows
    BY DEF LogInv
  <1>1. /\ step = 0 /\ step' = 0 /\ wanAddr' = wanAddr /\ lost' = lost
        /\ state' = [m \in Mac |-> IF state[m] = NoEntry THEN NoEntry ELSE [state[m] EXCEPT !.old = TRUE]]
        /\ log' = log \/ log' = [i \in DOMAIN log |-> [log[i] EXCEPT !.old = TRUE]]
    BY DEF DaysPass
  <1>2. log \in Seq(Line) /\ OldFirst(log)
    BY <1>0 DEF FilesType
  <1>3. /\ log' \in Seq(Line) /\ OldFirst(log') /\ DOMAIN log' = DOMAIN log
        /\ \A i \in DOMAIN log : log'[i].sub = log[i].sub /\ log'[i].ev = log[i].ev
    <2>1. CASE log' = log
      BY <1>2, <2>1
    <2>2. CASE log' = [i \in DOMAIN log |-> [log[i] EXCEPT !.old = TRUE]]
      <3>1. DOMAIN log' = DOMAIN log /\ \A i \in DOMAIN log : log'[i] = [log[i] EXCEPT !.old = TRUE]
        BY <2>2
      <3>2. \A i \in DOMAIN log : log[i] \in Line
        BY <1>2
      <3>3. \A i \in DOMAIN log :
               log'[i] \in Line /\ log'[i].old /\ log'[i].sub = log[i].sub /\ log'[i].ev = log[i].ev
        BY <3>1, <3>2 DEF Line
      <3>4. log' \in Seq(Line)
        BY <1>2, <2>2, <3>3
      <3>5. QED BY <3>1, <3>3, <3>4 DEF OldFirst
    <2>3. QED BY <1>1, <2>1, <2>2
  <1>4. \A s, x : SaidLast(log, s, x) => SaidLast(log', s, x)
    BY <1>3 DEF SaidLast, Tells
  <1>5. \A s : Silent(log, s) => Silent(log', s)
    BY <1>3 DEF Silent, Tells
  <1>6. \A m \in Mac : state'[m] \in SettledEntry /\ (Online(state'[m]) <=> Online(state[m]))
    <2>1. SUFFICES ASSUME NEW m \in Mac
                   PROVE  state'[m] \in SettledEntry /\ (Online(state'[m]) <=> Online(state[m]))
      OBVIOUS
    <2>2. state[m] \in SettledEntry /\ NoEntry \notin Entry
      BY <1>0, NamesAssumption DEF FilesType, Entry
    <2>3. CASE state[m] = NoEntry
      BY <1>1, <2>2, <2>3
    <2>4. CASE state[m] # NoEntry
      <3> DEFINE e == state[m]
                 f == state'[m]
      <3>1. f = [e EXCEPT !.old = TRUE]
        BY <1>1, <2>4
      <3>2. e \in Entry /\ (e.online \/ e.miss >= Thr)
        BY <2>2, <2>4 DEF SettledEntry
      <3> HIDE DEF e, f
      <3>3. f \in Entry /\ f.online = e.online /\ f.miss = e.miss
        BY <3>1, <3>2 DEF Entry
      <3>4. f \in SettledEntry /\ f # NoEntry /\ e # NoEntry
        BY <2>2, <3>2, <3>3 DEF SettledEntry
      <3>5. Online(f) <=> Online(e)
        BY <3>3, <3>4 DEF Online
      <3>6. QED BY <3>4, <3>5 DEF e, f
    <2>5. QED BY <2>3, <2>4
  <1>7. FilesType'
    <2>1. state' \in [Mac -> SettledEntry]
      BY <1>1, <1>6
    <2>2. QED BY <1>0, <1>1, <1>3, <1>5, <2>1 DEF FilesType
  <1>8. RunFollows'
    BY <1>1 DEF RunFollows
  <1>9. LogFollows'
    <2>1. \A s \in Subject : FileStatus(s)' = FileStatus(s)
      BY <1>1, <1>6 DEF FileStatus, Status, Subject
    <2>2. \A s \in Subject \ lost : SaidLast(log, s, FileStatus(s))
      BY <1>0, <1>1 DEF LogFollows, WriteOf
    <2>3. QED BY <1>1, <1>4, <2>1, <2>2 DEF LogFollows
  <1>10. QED BY <1>7, <1>8, <1>9 DEF LogInv

LEMMA RebootKeepsLog ==
    ASSUME LogInv, Reboot
    PROVE  LogInv'
  <1>1. state' = [m \in Mac |-> NoEntry] /\ wanAddr' = NoFile /\ log' = <<>> /\ step' = 0
    BY DEF Reboot
  <1>2. FilesType'
    BY <1>1 DEF FilesType, SettledEntry, OldFirst, Silent
  <1>3. RunFollows' /\ LogFollows'
    BY <1>1 DEF RunFollows, LogFollows, SaidLast
  <1>4. QED BY <1>2, <1>3 DEF LogInv

LEMMA MeterKeepsLog ==
    ASSUME LogInv, Traffic \/ CounterReset \/ UNCHANGED vars
    PROVE  LogInv'
  <1>1. /\ step' = step /\ run' = run /\ state' = state /\ wanAddr' = wanAddr /\ log' = log /\ lost' = lost
    BY DEF Traffic, CounterReset, files, vars
  <1>2. \A s : FileStatus(s)' = FileStatus(s) /\ RunStatus(s)' = RunStatus(s) /\ (Pending(s)' <=> Pending(s))
    BY <1>1 DEF FileStatus, RunStatus, Status, Pending
  <1>3. FilesType'
    BY <1>1 DEF LogInv, FilesType
  <1>4. RunFollows'
    BY <1>1, <1>2 DEF LogInv, RunFollows
  <1>5. LogFollows'
    BY <1>1, <1>2 DEF LogInv, LogFollows
  <1>6. QED BY <1>3, <1>4, <1>5 DEF LogInv

\* The inductive invariant of the log.
THEOREM LogInvariant == Spec => []LogInv
  <1>1. LogInv /\ [Next]_vars => LogInv'
    BY BeginKeepsLog, OtherWritesKeepLog, StatusWritesKeepLog, AppendKeepsLog, PruneKeepsLog, KillKeepsLog,
       DaysKeepLog, RebootKeepsLog, MeterKeepsLog DEF Next
  <1>2. QED
    BY <1>1, LogInit, PTL DEF Spec

\* The last arrival or departure in netscan_events.json is what the state files
\* say, however runs were killed between their writes and however the log was
\* pruned, unless a kill took just that event (main, detect_events, prune_events).
THEOREM LogAgreesWithFiles == Spec => []LogMatchesFiles
  <1>1. LogInv => LogMatchesFiles
    <2>1. SUFFICES ASSUME LogInv, step = 0, NEW s \in Subject \ lost, NEW i \in PresenceEvents(s),
                          \A j \in PresenceEvents(s) : j <= i
                   PROVE  log[i].ev = FileStatus(s)
      BY DEF LogMatchesFiles, FileStatus, Status
    <2>2. SaidLast(log, s, FileStatus(s))
      BY <2>1 DEF LogInv, LogFollows, WriteOf
    <2>3. QED BY <2>1, <2>2 DEF SaidLast, Tells, PresenceEvents
  <1>2. QED
    BY <1>1, LogInvariant, PTL

-----------------------------------------------------------------------------
(* The script as a debouncer.  A run counts each device one scan further    *)
(* than the state it has read, and its events are the devices whose count   *)
(* crosses the threshold by that.                                           *)

MissesOf(e) == IF Online(e) THEN e.miss ELSE Thr
Within(e)   == Online(e) => e.miss < Thr

\* S answers the scan that turns the state st into the state nx and finds ev.
Scans(S, st, nx, ev) ==
    \A m \in Mac :
        /\ MissesOf(nx[m]) = IF m \in S THEN 0 ELSE IF MissesOf(st[m]) < Thr THEN MissesOf(st[m]) + 1 ELSE Thr
        /\ <<m, "up">> \in ev <=> m \in S /\ MissesOf(st[m]) = Thr
        /\ <<m, "down">> \in ev <=> m \in Mac \ S /\ MissesOf(st[m]) = Thr - 1

(* The run holds the state it has read until its own has replaced it; until *)
(* its events are logged it is one scan ahead of that.                      *)
ScanInv ==
    /\ \A m \in Mac : Within(state[m])
    /\ step # 0 => \A m \in Mac : Within(run.state[m])
    /\ step \in 1 .. 5 => run.was = state
    /\ step \in 1 .. 6 => \E S \in SUBSET Mac : Scans(S, run.was, run.state, run.events)

\* One device in one scan: its count, and the event of crossing the threshold.
LEMMA EntryCounts ==
    ASSUME NEW e \in SettledEntry, Within(e), NEW s \in Sighting
    PROVE  /\ Within(Prune(NextEntry(e, s)))
           /\ MissesOf(Prune(NextEntry(e, s))) =
                IF s = "up" THEN 0 ELSE IF MissesOf(e) < Thr THEN MissesOf(e) + 1 ELSE Thr
           /\ Arrives(e, s) <=> s = "up" /\ MissesOf(e) = Thr
           /\ Departs(e, s) <=> s # "up" /\ MissesOf(e) = Thr - 1
  <1>1. Thr \in Nat /\ Thr >= 1 /\ KeepSlack \in Nat /\ NoEntry \notin Entry
    BY NamesAssumption, BoundsAssumption DEF Entry
  <1> DEFINE n == NextEntry(e, s)
  <1> HIDE DEF n
  <1>2. /\ Online(e) => e \in Entry /\ e # NoEntry /\ e.online /\ e.miss \in Nat /\ e.miss < Thr /\ MissesOf(e) = e.miss
        /\ ~Online(e) => MissesOf(e) = Thr
    BY DEF Online, SettledEntry, Entry, Within, MissesOf
  <1>3. ~Online(e) /\ e # NoEntry => ~e.online /\ e.miss >= Thr
    BY DEF Online, SettledEntry
  <1>4. CASE s = "up"
    <2>1. n = [online |-> TRUE, miss |-> 0, old |-> FALSE]
      BY <1>4 DEF NextEntry, n
    <2>2. n \in Entry /\ n.online /\ n.miss = 0
      BY <2>1 DEF Entry
    <2>3. n # NoEntry
      BY <1>1, <2>2
    <2>4. Prune(n) = n /\ Online(n)
      BY <2>2, <2>3 DEF Prune, Online
    <2>5. MissesOf(n) = 0 /\ Within(n)
      BY <1>1, <2>2, <2>4 DEF MissesOf, Within
    <2>6. ~Departs(e, s)
      BY <1>4 DEF Departs
    <2>7. Arrives(e, s) <=> ~Online(e)
      BY <1>3, <1>4 DEF Arrives, Online
    <2>8. Online(e) => MissesOf(e) # Thr
      BY <1>1, <1>2
    <2>9. QED BY <1>2, <1>4, <2>4, <2>5, <2>6, <2>7, <2>8 DEF n
  <1>5. CASE s # "up" /\ ~Online(e)
    <2>1. ~Departs(e, s) /\ ~Arrives(e, s)
      BY <1>5 DEF Departs, Arrives
    <2>2. ~Online(Prune(n))
      BY <1>5, <2>1, EntryStep DEF n
    <2>3. MissesOf(Prune(n)) = Thr /\ Within(Prune(n))
      BY <2>2 DEF MissesOf, Within
    <2>4. Thr # Thr - 1 /\ ~(Thr < Thr)
      BY <1>1
    <2>5. QED BY <1>2, <1>5, <2>1, <2>3, <2>4 DEF n
  <1>6. CASE s # "up" /\ Online(e)
    <2>1. NewMiss(e) = e.miss + 1
      BY <1>1, <1>2, <1>6 DEF NewMiss
    <2>2. ~Arrives(e, s) /\ (Departs(e, s) <=> NewMiss(e) >= Thr)
      BY <1>6 DEF Arrives, Departs
    <2>3. Departs(e, s) <=> MissesOf(e) = Thr - 1
      BY <1>1, <1>2, <1>6, <2>1, <2>2
    <2>4. CASE Departs(e, s)
      <3>1. ~Online(Prune(n))
        BY <2>4, EntryStep DEF n
      <3>2. MissesOf(Prune(n)) = Thr /\ Within(Prune(n))
        BY <3>1 DEF MissesOf, Within
      <3>3. MissesOf(e) < Thr /\ MissesOf(e) + 1 = Thr
        BY <1>1, <2>3, <2>4
      <3>4. QED BY <1>6, <2>2, <2>3, <3>2, <3>3 DEF n
    <2>5. CASE ~Departs(e, s)
      <3>1. NewMiss(e) < Thr /\ ~(NewMiss(e) >= Thr + KeepSlack)
        BY <1>1, <1>2, <1>6, <2>1, <2>2, <2>5
      <3>2. n = [online |-> e.online /\ NewMiss(e) < Thr, miss |-> NewMiss(e), old |-> e.old]
        BY <1>2, <1>6, <3>1 DEF NextEntry, n
      <3>3. n.online /\ n.miss = NewMiss(e)
        BY <1>2, <1>6, <3>1, <3>2
      <3>4. n # NoEntry
        <4>1. n \in Entry
          BY <1>2, <1>6, <2>1, <3>2 DEF Entry
        <4>2. QED BY <1>1, <4>1
      <3>5. Prune(n) = n /\ Online(n)
        BY <3>3, <3>4 DEF Prune, Online
      <3>6. MissesOf(n) = MissesOf(e) + 1 /\ Within(n) /\ MissesOf(e) < Thr
        BY <1>2, <1>6, <2>1, <3>1, <3>3, <3>5 DEF MissesOf, Within
      <3>7. QED BY <1>6, <2>2, <2>3, <3>5, <3>6 DEF n
    <2>6. QED BY <2>4, <2>5
  <1>7. QED BY <1>4, <1>5, <1>6

\* A run that begins is one scan ahead of the state it has read.
LEMMA BeginScans ==
    ASSUME LogInv, ScanInv, Begin
    PROVE  ScanInv'
  <1>0. PICK seen \in [Mac -> Sighting], a \in Addr \cup {NoAddr}, readable \in BOOLEAN, plausible \in BOOLEAN :
        \E changed \in SUBSET Changes(seen) :
            /\ step = 0
            /\ run' = [was |-> state, wanBw |-> NextWanBw(readable), sample |-> count,
                       accum |-> accum + Credited(plausible), wanAddr |-> a,
                       state |-> [m \in Mac |-> Prune(NextEntry(state[m], seen[m]))],
                       events |-> WanEvents(a) \cup DeviceEvents(seen, changed)]
            /\ step' = 1
            /\ first' = IF wanBw = NoFile /\ readable THEN count ELSE first
            /\ clean' = ((wanBw = NoFile /\ readable) \/ clean)
            /\ UNCHANGED <<files, count, real, lost>>
    BY Zenon DEF Begin
  <1>1. PICK changed \in SUBSET Changes(seen) :
          /\ step' = 1 /\ run'.was = state /\ state' = state
          /\ run'.state = [m \in Mac |-> Prune(NextEntry(state[m], seen[m]))]
          /\ run'.events = WanEvents(a) \cup DeviceEvents(seen, changed)
    BY <1>0 DEF files
  <1>2. changed \in SUBSET Mac /\ Wan \notin Mac
    BY NamesAssumption DEF Changes
  <1>3. \A m \in Mac : state[m] \in SettledEntry /\ Within(state[m]) /\ seen[m] \in Sighting
    BY DEF LogInv, FilesType, ScanInv
  <1> DEFINE st == run'.state
             ev == run'.events
             S  == {m \in Mac : seen[m] = "up"}
  <1>4. \A m \in Mac : st[m] = Prune(NextEntry(state[m], seen[m]))
    BY <1>1
  <1>5. ev = WanEvents(a) \cup DeviceEvents(seen, changed)
    BY <1>1
  <1> HIDE DEF st, ev
  <1>6. WanEvents(a) \subseteq {Wan} \X {"up", "down", "change"}
    BY WanStep DEF LogInv, FilesType
  <1>7. \A m \in Mac : /\ <<m, "up">> \in ev <=> Arrives(state[m], seen[m])
                       /\ <<m, "down">> \in ev <=> Departs(state[m], seen[m])
    <2>1. \A m \in Mac : \A x : <<m, x>> \in ev <=> <<m, x>> \in DeviceEvents(seen, changed)
      BY <1>2, <1>5, <1>6
    <2>2. QED BY <1>2, <2>1, DeviceStep
  <1>8. Scans(S, state, st, ev)
    <2>1. SUFFICES ASSUME NEW m \in Mac
                   PROVE  /\ MissesOf(st[m]) = IF m \in S THEN 0
                                               ELSE IF MissesOf(state[m]) < Thr THEN MissesOf(state[m]) + 1 ELSE Thr
                          /\ <<m, "up">> \in ev <=> m \in S /\ MissesOf(state[m]) = Thr
                          /\ <<m, "down">> \in ev <=> m \in Mac \ S /\ MissesOf(state[m]) = Thr - 1
      BY DEF Scans
    <2>2. m \in S <=> seen[m] = "up"
      OBVIOUS
    <2> HIDE DEF S
    <2>3. /\ MissesOf(st[m]) = IF seen[m] = "up" THEN 0
                               ELSE IF MissesOf(state[m]) < Thr THEN MissesOf(state[m]) + 1 ELSE Thr
          /\ Arrives(state[m], seen[m]) <=> seen[m] = "up" /\ MissesOf(state[m]) = Thr
          /\ Departs(state[m], seen[m]) <=> seen[m] # "up" /\ MissesOf(state[m]) = Thr - 1
      BY <1>3, <1>4, EntryCounts
    <2>4. QED BY <1>7, <2>2, <2>3
  <1>9. \A m \in Mac : Within(st[m])
    BY <1>3, <1>4, EntryCounts
  <1>10. \E T \in SUBSET Mac : Scans(T, state, st, ev)
    BY <1>8
  <1>11. QED BY <1>1, <1>3, <1>9, <1>10 DEF ScanInv, st, ev

\* The writes up to the log, one after the other.
LEMMA WritesAdvance ==
    ASSUME LogInv,
           WriteWanRates \/ WriteDeviceSample \/ WriteDeviceTotals \/ WriteWanAddress \/ SaveState \/ AppendEvents
    PROVE  /\ step \in 1 .. 6 /\ step' = step + 1 /\ run' = run
           /\ \/ step \in 1 .. 4 /\ state' = state
              \/ step = 5 /\ state' = run.state
              \/ step = 6 /\ state' = state
           /\ AppendEvents <=> step = 6
  <1>0. FilesType
    BY DEF LogInv
  <1>1. PICK file : Writes(file) /\ file \in {"wan rates", "device sample", "device totals", "wan address", "state", "log"}
    BY DEF WriteWanRates, WriteDeviceSample, WriteDeviceTotals, WriteWanAddress, SaveState, AppendEvents
  <1>2. step \in 1 .. 7 /\ WriteOrder[step] = file /\ (step < 7 => step' = step + 1 /\ run' = run)
    BY <1>0, <1>1, WriteStep
  <1>3. step # 7
    <2>1. WriteOrder[step] # "prune"
      BY <1>1, <1>2
    <2>2. QED BY <1>2, <2>1, WriteSteps
  <1>4. step \in 1 .. 6 /\ step' = step + 1 /\ run' = run
    BY <1>2, <1>3
  <1>5. ASSUME WriteWanRates \/ WriteDeviceSample \/ WriteDeviceTotals \/ WriteWanAddress
        PROVE  step \in 1 .. 4 /\ state' = state
    <2>1. WriteOrder[step] \in {"wan rates", "device sample", "device totals", "wan address"} /\ state' = state
      BY <1>0, <1>5, WriteStep
      DEF WriteWanRates, WriteDeviceSample, WriteDeviceTotals, WriteWanAddress
    <2>2. step = 1 \/ step = 2 \/ step = 3 \/ step = 4
      <3>1. /\ WriteOrder[step] = "wan rates" <=> step = 1
            /\ WriteOrder[step] = "device sample" <=> step = 2
            /\ WriteOrder[step] = "device totals" <=> step = 3
            /\ WriteOrder[step] = "wan address" <=> step = 4
        BY <1>2, WriteSteps
      <3>2. QED BY <2>1, <3>1
    <2>3. step \in 1 .. 4
      BY <2>2
    <2>4. QED BY <2>1, <2>3
  <1>6. ASSUME SaveState PROVE step = 5 /\ state' = run.state
    <2>1. WriteOrder[step] = "state" /\ state' = run.state
      BY <1>0, <1>6, WriteStep DEF SaveState
    <2>2. QED BY <1>2, <2>1, WriteSteps
  <1>7. ASSUME AppendEvents PROVE step = 6 /\ state' = state
    <2>1. WriteOrder[step] = "log" /\ state' = state
      BY <1>0, <1>7, WriteStep DEF AppendEvents
    <2>2. QED BY <1>2, <2>1, WriteSteps
  <1>8. AppendEvents <=> step = 6
    BY <1>4, <1>5, <1>6, <1>7
  <1>9. QED BY <1>4, <1>5, <1>6, <1>7, <1>8

\* The end of a run leaves the state file alone.
LEMMA RunEnds ==
    ASSUME LogInv, PruneEvents \/ Kill
    PROVE  step \in 1 .. 7 /\ step' = 0 /\ state' = state
  <1>0. FilesType
    BY DEF LogInv
  <1>1. CASE PruneEvents
    <2>1. Writes("prune") /\ state' = state
      BY <1>1 DEF PruneEvents
    <2>2. step \in 1 .. 7 /\ WriteOrder[step] = "prune" /\ (step = 7 => step' = 0)
      BY <1>0, <2>1, WriteStep
    <2>3. QED BY <2>1, <2>2, WriteSteps
  <1>2. CASE Kill
    <2>1. step # 0 /\ step' = 0 /\ state' = state
      BY <1>2 DEF Kill, files
    <2>2. QED BY <1>0, <2>1 DEF FilesType
  <1>3. QED BY <1>1, <1>2

\* Days that pass count no scan.
LEMMA DaysCountNothing ==
    ASSUME LogInv, DaysPass, NEW m \in Mac
    PROVE  MissesOf(state'[m]) = MissesOf(state[m]) /\ (Within(state[m]) => Within(state'[m]))
  <1>1. state'[m] = IF state[m] = NoEntry THEN NoEntry ELSE [state[m] EXCEPT !.old = TRUE]
    BY DEF DaysPass
  <1>2. state[m] \in SettledEntry /\ NoEntry \notin Entry
    BY NamesAssumption DEF LogInv, FilesType, Entry
  <1>3. CASE state[m] = NoEntry
    BY <1>1, <1>3
  <1>4. CASE state[m] # NoEntry
    <2> DEFINE e == state[m]
               f == state'[m]
    <2>1. f = [e EXCEPT !.old = TRUE] /\ e \in Entry /\ e # NoEntry
      BY <1>1, <1>2, <1>4 DEF SettledEntry
    <2> HIDE DEF e, f
    <2>2. f \in Entry /\ f.online = e.online /\ f.miss = e.miss
      BY <2>1 DEF Entry
    <2>3. f # NoEntry
      BY <1>2, <2>2
    <2>4. Online(f) <=> Online(e)
      BY <2>1, <2>2, <2>3 DEF Online
    <2>5. MissesOf(f) = MissesOf(e) /\ (Within(e) => Within(f))
      BY <2>2, <2>4 DEF MissesOf, Within
    <2>6. QED BY <2>5 DEF e, f
  <1>5. QED BY <1>3, <1>4

LEMMA ScanStep ==
    ASSUME LogInv, ScanInv, [Next]_vars
    PROVE  ScanInv'
  <1>1. CASE Begin
    BY <1>1, BeginScans
  <1>2. CASE WriteWanRates \/ WriteDeviceSample \/ WriteDeviceTotals \/ WriteWanAddress \/ SaveState \/ AppendEvents
    <2>1. /\ step \in 1 .. 6 /\ step' = step + 1 /\ run' = run
          /\ state' = state \/ state' = run.state
          /\ step \in 1 .. 4 => state' = state
      BY <1>2, WritesAdvance
    <2>2. (\A m \in Mac : Within(state'[m])) /\ \A m \in Mac : Within(run'.state[m])
      BY <2>1 DEF ScanInv
    <2>3. step' \in 1 .. 5 => run'.was = state'
      BY <2>1 DEF ScanInv
    <2>4. \E S \in SUBSET Mac : Scans(S, run'.was, run'.state, run'.events)
      BY <2>1 DEF ScanInv
    <2>5. QED BY <2>2, <2>3, <2>4 DEF ScanInv
  <1>3. CASE PruneEvents \/ Kill
    <2>1. step' = 0 /\ state' = state
      BY <1>3, RunEnds
    <2>2. QED BY <2>1 DEF ScanInv
  <1>4. CASE DaysPass
    <2>1. step' = 0
      BY <1>4 DEF DaysPass
    <2>2. \A m \in Mac : Within(state'[m])
      BY <1>4, DaysCountNothing DEF ScanInv
    <2>3. QED BY <2>1, <2>2 DEF ScanInv
  <1>5. CASE Reboot
    <2>1. step' = 0 /\ \A m \in Mac : state'[m] = NoEntry
      BY <1>5 DEF Reboot
    <2>2. QED BY <2>1 DEF ScanInv, Within, Online
  <1>6. CASE Traffic \/ CounterReset \/ UNCHANGED vars
    <2>1. step' = step /\ run' = run /\ state' = state
      BY <1>6 DEF Traffic, CounterReset, files, vars
    <2>2. QED BY <2>1 DEF ScanInv
  <1>7. QED BY <1>1, <1>2, <1>3, <1>4, <1>5, <1>6 DEF Next

\* The lines a run appends are its events.
LEMMA LastLines ==
    ASSUME LogInv, AppendEvents, NEW x
    PROVE  {m \in Mac : \E i \in DOMAIN log' :
                i > Len(log') - Cardinality(run.events) /\ log'[i].sub = m /\ log'[i].ev = x}
           = {m \in Mac : <<m, x>> \in run.events}
  <1>1. step = 6
    BY WritesAdvance
  <1>2. log \in Seq(Line) /\ run.events \subseteq Subject \X {"up", "down", "change"}
    BY <1>1 DEF LogInv, FilesType, RunFollows
  <1>3. PICK order \in SetToSeqs(run.events) :
           log' = log \o [i \in DOMAIN order |-> [sub |-> order[i][1], ev |-> order[i][2], old |-> FALSE]]
    BY DEF AppendEvents
  <1> DEFINE t == [i \in DOMAIN order |-> [sub |-> order[i][1], ev |-> order[i][2], old |-> FALSE]]
             n == Cardinality(run.events)
             k == Len(log)
  <1>4. n \in Nat /\ order \in [1 .. n -> run.events] /\ \A e \in run.events : \E i \in 1 .. n : order[i] = e
    BY <1>2, EventOrders
  <1>5. /\ DOMAIN t = 1 .. n
        /\ \A i \in 1 .. n : /\ order[i] \in run.events /\ t[i] \in Line
                             /\ t[i].sub = order[i][1] /\ t[i].ev = order[i][2]
    BY <1>2, <1>4 DEF Line
  <1>6. t \in Seq(Line) /\ Len(t) = n
    BY <1>4, <1>5
  <1>7. log' = log \o t
    BY <1>3
  <1> HIDE DEF t, n
  <1>8. /\ k \in Nat /\ DOMAIN log' = 1 .. k + n /\ Len(log') = k + n
        /\ \A i \in 1 .. k + n : log'[i] = IF i <= k THEN log[i] ELSE t[i - k]
    <2>1. Len(log) \in Nat /\ Len(t) \in Nat
      BY <1>2, <1>6
    <2>2. /\ log' \in Seq(Line) /\ Len(log') = Len(log) + Len(t)
          /\ \A i \in 1 .. Len(log) + Len(t) : log'[i] = IF i <= Len(log) THEN log[i] ELSE t[i - Len(log)]
      BY <1>2, <1>6, <1>7, <2>1, ConcatProperties
    <2>3. QED BY <1>6, <2>1, <2>2
  <1> HIDE DEF k
  <1>9. ASSUME NEW m \in Mac, NEW i \in DOMAIN log', i > Len(log') - n, log'[i].sub = m, log'[i].ev = x
        PROVE  <<m, x>> \in run.events
    <2>1. i - k \in 1 .. n /\ log'[i] = t[i - k]
      BY <1>4, <1>8, <1>9
    <2>2. order[i - k] \in run.events /\ order[i - k][1] = m /\ order[i - k][2] = x
      BY <1>5, <1>9, <2>1
    <2>3. order[i - k] = <<m, x>>
      BY <1>2, <2>2
    <2>4. QED BY <2>2, <2>3
  <1>10. ASSUME NEW m \in Mac, <<m, x>> \in run.events
         PROVE  \E i \in DOMAIN log' : i > Len(log') - n /\ log'[i].sub = m /\ log'[i].ev = x
    <2>1. PICK j \in 1 .. n : order[j] = <<m, x>>
      BY <1>4, <1>10
    <2>2. t[j].sub = m /\ t[j].ev = x
      BY <1>5, <2>1
    <2>3. k + j \in 1 .. k + n /\ ~(k + j <= k) /\ k + j - k = j
      BY <1>4, <1>8
    <2>4. k + j \in DOMAIN log' /\ k + j > Len(log') - n /\ log'[k + j] = t[j]
      <3>1. log'[k + j] = t[j]
        <4>1. log'[k + j] = IF k + j <= k THEN log[k + j] ELSE t[k + j - k]
          BY <1>8, <2>3
        <4>2. QED BY <2>3, <4>1
      <3>2. k + j \in DOMAIN log'
        BY <1>8, <2>3
      <3>3. k + j > Len(log') - n
        <4>1. Len(log') = k + n
          BY <1>8
        <4>2. k \in Nat /\ n \in Nat /\ j \in 1 .. n
          BY <1>4, <1>8
        <4>3. QED BY <4>1, <4>2
      <3>4. QED BY <3>1, <3>2, <3>3
    <2>5. QED BY <2>2, <2>4
  <1>11. QED BY <1>9, <1>10 DEF n

\* Every step of the script is a step of the debouncer or none.
LEMMA ScanRefines ==
    ASSUME LogInv, LogInv', ScanInv, [Next]_vars
    PROVE  [Abstract!Next]_(Abstract!vars)
  <1> DEFINE Held == IF step = 0 THEN [m \in Mac |-> Thr] ELSE Stored
             Up   == Logged("up")
             Down == Logged("down")
  <1>1. step \in 0 .. 7 /\ step' \in 0 .. 7
    BY DEF LogInv, FilesType
  <1>2. /\ Stored = IF step = 6 THEN Misses(run.was) ELSE Misses(state)
        /\ step # 7 => Up = {} /\ Down = {}
    <2>1. (Ahead = "log" <=> step = 6) /\ (Ahead = "prune" <=> step = 7)
      <3>1. CASE step = 0
        BY <3>1 DEF Ahead
      <3>2. CASE step # 0
        <4>1. step \in 1 .. 7
          BY <1>1, <3>2
        <4>2. (WriteOrder[step] = "log" <=> step = 6) /\ (WriteOrder[step] = "prune" <=> step = 7)
          BY <4>1, WriteSteps
        <4>3. QED BY <3>2, <4>2 DEF Ahead
      <3>3. QED BY <3>1, <3>2
    <2>2. QED BY <2>1 DEF Stored, Logged
  <1>3. /\ Stored' = IF step' = 6 THEN Misses(run'.was) ELSE Misses(state')
        /\ step' # 7 => Up' = {} /\ Down' = {}
        /\ step' = 7 => Ahead' = "prune"
    <2>1. (Ahead' = "log" <=> step' = 6) /\ (Ahead' = "prune" <=> step' = 7)
      <3>1. CASE step' = 0
        BY <3>1 DEF Ahead
      <3>2. CASE step' # 0
        <4>1. step' \in 1 .. 7
          BY <1>1, <3>2
        <4>2. (WriteOrder[step'] = "log" <=> step' = 6) /\ (WriteOrder[step'] = "prune" <=> step' = 7)
          BY <4>1, WriteSteps
        <4>3. QED BY <3>2, <4>2 DEF Ahead
      <3>3. QED BY <3>1, <3>2
    <2>2. QED BY <2>1 DEF Stored, Logged, Misses
  <1>4. Abstract!AllGone = [m \in Mac |-> Thr]
    BY DEF Abstract!AllGone
  <1>5. \A st, nx : (\A m \in Mac : MissesOf(nx[m]) = MissesOf(st[m])) => Misses(nx) = Misses(st)
    BY DEF Misses, MissesOf
  <1>6. ASSUME step # 0 <=> step' # 0, Held' = Held, Stored' = Stored, Up' = Up, Down' = Down
        PROVE  UNCHANGED Abstract!vars
    BY <1>6 DEF Abstract!vars
  <1>7. CASE Begin
    <2>1. step = 0 /\ step' = 1 /\ state' = state
      BY <1>7 DEF Begin, files
    <2>2. Stored' = Stored /\ Held' = Stored /\ Up' = Up /\ Down' = Down
      BY <1>2, <1>3, <2>1
    <2>3. Abstract!Recall
      BY <2>1, <2>2 DEF Abstract!Recall
    <2>4. QED BY <2>3 DEF Abstract!Next
  <1>8. CASE WriteWanRates \/ WriteDeviceSample \/ WriteDeviceTotals \/ WriteWanAddress \/ SaveState \/ AppendEvents
    <2>1. /\ step \in 1 .. 6 /\ step' = step + 1 /\ run' = run
          /\ \/ step \in 1 .. 4 /\ state' = state
             \/ step = 5 /\ state' = run.state
             \/ step = 6 /\ state' = state
          /\ AppendEvents <=> step = 6
      BY <1>8, WritesAdvance
    <2>2. CASE step \in 1 .. 4
      <3>1. Stored' = Stored /\ Held' = Stored /\ Held = Stored /\ Up' = Up /\ Down' = Down
        BY <1>2, <1>3, <2>1, <2>2
      <3>2. step # 0 /\ step' # 0
        BY <2>1, <2>2
      <3>3. QED BY <1>6, <3>1, <3>2
    <2>3. CASE step = 5
      <3>1. run.was = state
        BY <2>3 DEF ScanInv
      <3>2. Stored' = Stored /\ Held' = Stored /\ Held = Stored /\ Up' = Up /\ Down' = Down
        BY <1>2, <1>3, <2>1, <2>3, <3>1
      <3>3. step # 0 /\ step' # 0
        BY <2>1, <2>3
      <3>4. QED BY <1>6, <3>2, <3>3
    <2>4. CASE step = 6
      <3>1. PICK S \in SUBSET Mac : Scans(S, run.was, run.state, run.events)
        BY <2>4 DEF ScanInv
      <3>2. state' = run.state /\ AppendEvents /\ step' = 7
        BY <2>1, <2>4 DEF LogInv, RunFollows
      <3>3. Held = Misses(run.was) /\ Held' = Misses(run.state) /\ Stored' = Misses(run.state)
        BY <1>2, <1>3, <2>4, <3>2
      <3>4. Misses(run.state) = [m \in Mac |-> IF m \in S THEN 0 ELSE IF Held[m] < Thr THEN Held[m] + 1 ELSE Thr]
        <4>1. \A m \in Mac : Misses(run.was)[m] = MissesOf(run.was[m])
          BY DEF Misses, MissesOf
        <4>2. Misses(run.state) = [m \in Mac |-> MissesOf(run.state[m])]
          BY DEF Misses, MissesOf
        <4> HIDE DEF Held
        <4>3. QED BY <3>1, <3>3, <4>1, <4>2 DEF Scans
      <3>5. \A x : Logged(x)' = {m \in Mac : <<m, x>> \in run.events}
        <4>1. SUFFICES ASSUME NEW x PROVE Logged(x)' = {m \in Mac : <<m, x>> \in run.events}
          OBVIOUS
        <4>2. Logged(x)' = {m \in Mac : \E i \in DOMAIN log' :
                  i > Len(log') - Cardinality(run.events) /\ log'[i].sub = m /\ log'[i].ev = x}
          BY <1>3, <2>1, <3>2 DEF Logged
        <4>3. QED BY <3>2, <4>2, LastLines
      <3>6. Up' = {m \in S : Held[m] = Thr} /\ Down' = {m \in Mac \ S : Held[m] = Thr - 1}
        <4>1. \A m \in Mac : Held[m] = MissesOf(run.was[m])
          BY <3>3 DEF Misses, MissesOf
        <4> HIDE DEF Held
        <4>2. QED BY <3>1, <3>5, <4>1 DEF Scans
      <3>7. Abstract!Observe(S)
        BY <2>4, <3>2, <3>3, <3>4, <3>6 DEF Abstract!Observe, Abstract!Counted, Abstract!Back, Abstract!Lost
      <3>8. QED BY <3>7 DEF Abstract!Next
    <2>5. QED BY <2>1, <2>2, <2>3, <2>4
  <1>9. CASE PruneEvents \/ Kill
    <2>1. step \in 1 .. 7 /\ step' = 0 /\ state' = state
      BY <1>9, RunEnds
    <2>2. Stored' = Misses(state) /\ Held' = Abstract!AllGone /\ Up' = {} /\ Down' = {}
      BY <1>3, <1>4, <2>1
    <2>3. CASE step # 6
      <3>1. Abstract!Forget
        BY <1>2, <2>1, <2>2, <2>3 DEF Abstract!Forget, Abstract!Silent
      <3>2. QED BY <3>1 DEF Abstract!Next
    <2>4. CASE step = 6
      <3>1. PICK S \in SUBSET Mac : Scans(S, run.was, run.state, run.events)
        BY <2>4 DEF ScanInv
      <3>2. Held = Misses(run.was) /\ Stored' = Misses(run.state)
        BY <1>2, <2>2, <2>4 DEF LogInv, RunFollows
      <3>3. Misses(run.state) = [m \in Mac |-> IF m \in S THEN 0 ELSE IF Held[m] < Thr THEN Held[m] + 1 ELSE Thr]
        <4>1. \A m \in Mac : Misses(run.was)[m] = MissesOf(run.was[m])
          BY DEF Misses, MissesOf
        <4>2. Misses(run.state) = [m \in Mac |-> MissesOf(run.state[m])]
          BY DEF Misses, MissesOf
        <4> HIDE DEF Held
        <4>3. QED BY <3>1, <3>2, <4>1, <4>2 DEF Scans
      <3>4. Abstract!ObserveUnheard(S)
        BY <2>1, <2>2, <2>4, <3>2, <3>3 DEF Abstract!ObserveUnheard, Abstract!Counted, Abstract!Silent
      <3>5. QED BY <3>4 DEF Abstract!Next
    <2>5. QED BY <2>3, <2>4
  <1>10. CASE DaysPass
    <2>1. step = 0 /\ step' = 0
      BY <1>10 DEF DaysPass
    <2>2. Misses(state') = Misses(state)
      BY <1>5, <1>10, DaysCountNothing
    <2>3. Stored' = Stored /\ Held' = Held /\ Up' = Up /\ Down' = Down
      BY <1>2, <1>3, <2>1, <2>2
    <2>4. QED BY <1>6, <2>1, <2>3
  <1>11. CASE Reboot
    <2>1. step = 0 /\ step' = 0 /\ state' = [m \in Mac |-> NoEntry]
      BY <1>11 DEF Reboot
    <2>2. Misses(state') = Abstract!AllGone
      BY <1>4, <2>1 DEF Misses, Online
    <2>3. Stored' = Abstract!AllGone /\ Held' = Held /\ Up' = Up /\ Down' = Down
      <3>1. Stored' = Abstract!AllGone
        BY <1>3, <2>1, <2>2
      <3>2. Held' = Held
        BY <2>1
      <3>3. Up' = Up /\ Down' = Down
        <4>1. step # 7 /\ step' # 7
          BY <2>1
        <4>2. QED BY <1>2, <1>3, <4>1
      <3>4. QED BY <3>1, <3>2, <3>3
    <2>4. Abstract!Erase
      BY <2>1, <2>3 DEF Abstract!Erase
    <2>5. QED BY <2>4 DEF Abstract!Next
  <1>12. CASE Traffic \/ CounterReset \/ UNCHANGED vars
    <2>1. step' = step /\ run' = run /\ state' = state /\ log' = log
      BY <1>12 DEF Traffic, CounterReset, files, vars
    <2>2. Stored' = Stored /\ Held' = Held /\ Up' = Up /\ Down' = Down
      BY <2>1 DEF Stored, Logged, Ahead, Misses
    <2>3. QED BY <1>6, <2>1, <2>2
  <1>13. QED BY <1>7, <1>8, <1>9, <1>10, <1>11, <1>12 DEF Next

\* The script with its six files is the debouncer the integration is: a device is
\* online while it has missed fewer scans than the threshold, and netscan_events.json
\* gets a line for every change of that, exactly one, unless the run that finds it
\* is killed between the write of the state and that of the log (main,
\* detect_events, save_prev_state, append_events).
THEOREM ScriptDebounces == Spec => ImplementsDebounce
  <1>1. Init => Abstract!Init
    <2>1. ASSUME Init PROVE /\ step = 0 /\ Stored = [m \in Mac |-> Thr]
                            /\ Logged("up") = {} /\ Logged("down") = {}
      BY <2>1 DEF Init, Stored, Logged, Ahead, Misses, Online
    <2>2. QED BY <2>1 DEF Abstract!Init, Abstract!AllGone
  <1>2. Init => ScanInv
    BY DEF Init, ScanInv, Within, Online
  <1>3. LogInv /\ ScanInv /\ [Next]_vars => ScanInv'
    BY ScanStep
  <1>4. LogInv /\ LogInv' /\ ScanInv /\ [Next]_vars => [Abstract!Next]_(Abstract!vars)
    BY ScanRefines
  <1>5. QED
    BY <1>1, <1>2, <1>3, <1>4, LogInvariant, PTL DEF Spec, ImplementsDebounce, Abstract!Spec

-----------------------------------------------------------------------------
(* The history of DNS samples: its filters and its positions *)

\* A sample just aged may be past the age limit.
AgedSample == [age : Nat, hits : Nat, misses : Nat, latency : BOOLEAN,
               hits_since : Nat, misses_since : Nat, restarts_since : Nat]

\* g holds samples of the first n of h, in the order they have there, at
\* positions I only.
Picks(g, h, I, n) ==
    /\ g \in Seq(AgedSample)
    /\ \A i \in 1 .. Len(g) : \E p \in 1 .. n : p \in I /\ g[i] = h[p]
    /\ \A i, j \in 1 .. Len(g) : i < j => \E p, q \in 1 .. n : p < q /\ g[i] = h[p] /\ g[j] = h[q]

\* One more sample that is picked, or is not.
LEMMA PicksGrow ==
    ASSUME NEW h \in Seq(AgedSample), NEW I, NEW n \in Nat, n + 1 <= Len(h), NEW g, Picks(g, h, I, n)
    PROVE  /\ Picks(g, h, I, n + 1)
           /\ n + 1 \in I => Picks(Append(g, h[n + 1]), h, I, n + 1)
  <1>1. Picks(g, h, I, n + 1)
    BY DEF Picks
  <1>2. ASSUME n + 1 \in I PROVE Picks(Append(g, h[n + 1]), h, I, n + 1)
    <2> DEFINE a == Append(g, h[n + 1])
    <2>1. h[n + 1] \in AgedSample
      OBVIOUS
    <2>2. /\ g \in Seq(AgedSample) /\ Len(g) \in Nat
      BY DEF Picks
    <2>3. /\ a \in Seq(AgedSample) /\ Len(a) = Len(g) + 1
          /\ \A i \in 1 .. Len(g) : a[i] = g[i]
          /\ a[Len(g) + 1] = h[n + 1]
      BY <2>1, <2>2, AppendProperties
    <2> HIDE DEF a
    <2>4. ASSUME NEW i \in 1 .. Len(a) PROVE \E p \in 1 .. n + 1 : p \in I /\ a[i] = h[p]
      <3>1. CASE i = Len(g) + 1
        <4>1. n + 1 \in 1 .. n + 1 /\ a[i] = h[n + 1]
          BY <2>3, <3>1
        <4>2. QED BY <1>2, <4>1
      <3>2. CASE i # Len(g) + 1
        <4>1. i \in 1 .. Len(g) /\ a[i] = g[i]
          BY <2>2, <2>3, <3>2
        <4>2. QED BY <1>1, <4>1 DEF Picks
      <3>3. QED BY <3>1, <3>2
    <2>5. ASSUME NEW i \in 1 .. Len(a), NEW j \in 1 .. Len(a), i < j
          PROVE  \E p, q \in 1 .. n + 1 : p < q /\ a[i] = h[p] /\ a[j] = h[q]
      <3>0. i \in 1 .. Len(g) /\ a[i] = g[i]
        BY <2>2, <2>3, <2>5
      <3>1. CASE j = Len(g) + 1
        <4>1. PICK p \in 1 .. n : g[i] = h[p]
          BY <3>0 DEF Picks
        <4>2. p \in 1 .. n + 1 /\ n + 1 \in 1 .. n + 1 /\ p < n + 1
          OBVIOUS
        <4>3. QED BY <2>3, <3>0, <3>1, <4>1, <4>2
      <3>2. CASE j # Len(g) + 1
        <4>1. j \in 1 .. Len(g) /\ a[j] = g[j]
          BY <2>2, <2>3, <3>2
        <4>2. PICK p, q \in 1 .. n + 1 : p < q /\ g[i] = h[p] /\ g[j] = h[q]
          BY <1>1, <2>5, <3>0, <4>1 DEF Picks
        <4>3. QED BY <3>0, <4>1, <4>2
      <3>3. QED BY <3>1, <3>2
    <2>6. Picks(a, h, I, n + 1)
      BY <2>3, <2>4, <2>5 DEF Picks
    <2>7. QED BY <2>6 DEF a
  <1>3. QED BY <1>1, <1>2

\* The steps of the loop over the lines of the file.
Filters(h, I, n, f) ==
    f = [k \in 0 .. n |-> IF k = 0 THEN <<>>
                          ELSE IF k \in I THEN Append(f[k - 1], h[k]) ELSE f[k - 1]]

LEMMA FilterExists ==
    ASSUME NEW h \in Seq(AgedSample), NEW I
    PROVE  \E f : Filters(h, I, Len(h), f)
  <1> DEFINE T == {n \in Nat : \E f : Filters(h, I, n, f)}
  <1>1. 0 \in T
    <2> DEFINE f == [k \in 0 .. 0 |-> <<>>]
    <2>1. Filters(h, I, 0, f)
      BY DEF Filters
    <2> HIDE DEF f
    <2>2. QED BY <2>1
  <1>2. ASSUME NEW n \in Nat, n \in T PROVE n + 1 \in T
    <2>1. PICK f : Filters(h, I, n, f)
      BY <1>2
    <2> DEFINE g == [k \in 0 .. n + 1 |->
                       IF k \in 0 .. n THEN f[k]
                       ELSE IF n + 1 \in I THEN Append(f[n], h[n + 1]) ELSE f[n]]
    <2>2. /\ \A k \in 0 .. n : g[k] = f[k]
          /\ g[n + 1] = IF n + 1 \in I THEN Append(f[n], h[n + 1]) ELSE f[n]
      OBVIOUS
    <2>2a. g = [k \in 0 .. n + 1 |-> g[k]]
      OBVIOUS
    <2> HIDE DEF g
    <2>3. ASSUME NEW k \in 0 .. n + 1
          PROVE  g[k] = IF k = 0 THEN <<>>
                        ELSE IF k \in I THEN Append(g[k - 1], h[k]) ELSE g[k - 1]
      <3>1. CASE k \in 0 .. n
        <4>1. f[k] = IF k = 0 THEN <<>>
                     ELSE IF k \in I THEN Append(f[k - 1], h[k]) ELSE f[k - 1]
          BY <2>1, <3>1 DEF Filters
        <4>2. k # 0 => g[k - 1] = f[k - 1]
          <5>1. k # 0 => k - 1 \in 0 .. n
            BY <3>1
          <5>2. QED BY <2>2, <5>1
        <4>3. QED BY <2>2, <3>1, <4>1, <4>2
      <3>2. CASE k = n + 1
        <4>1. k # 0 /\ k - 1 = n /\ g[n] = f[n]
          <5>1. k # 0 /\ k - 1 = n /\ n \in 0 .. n
            BY <3>2
          <5>2. QED BY <2>2, <5>1
        <4>2. QED BY <2>2, <3>2, <4>1
      <3>3. QED BY <3>1, <3>2
    <2>4. Filters(h, I, n + 1, g)
      BY <2>2a, <2>3 DEF Filters
    <2>5. QED BY <2>4
  <1> HIDE DEF T
  <1>3. Len(h) \in T
    BY <1>1, <1>2, SetInduction
  <1>4. QED BY <1>3 DEF T

\* What is read back from the file is what was kept, in the same order.
LEMMA OnlyPicks ==
    ASSUME NEW h \in Seq(AgedSample), NEW I
    PROVE  Picks(Only(h, I), h, I, Len(h))
  <1> DEFINE f == CHOOSE f : Filters(h, I, Len(h), f)
             T == {n \in Nat : n <= Len(h) => Picks(f[n], h, I, n)}
  <1>1. Filters(h, I, Len(h), f)
    BY FilterExists
  <1>2. Only(h, I) = f[Len(h)]
    BY DEF Only, Filters
  <1> HIDE DEF f
  <1>3. 0 \in T
    <2>1. f[0] = <<>>
      BY <1>1 DEF Filters
    <2>2. <<>> \in Seq(AgedSample) /\ Len(<<>>) = 0
      OBVIOUS
    <2>3. Picks(<<>>, h, I, 0)
      BY <2>2 DEF Picks
    <2>4. QED BY <2>1, <2>3
  <1>4. ASSUME NEW n \in Nat, n \in T PROVE n + 1 \in T
    <2>1. SUFFICES ASSUME n + 1 <= Len(h) PROVE Picks(f[n + 1], h, I, n + 1)
      OBVIOUS
    <2>2. Picks(f[n], h, I, n)
      BY <1>4, <2>1
    <2>3. f[n + 1] = IF n + 1 \in I THEN Append(f[n], h[n + 1]) ELSE f[n]
      <3>1. n + 1 \in 0 .. Len(h) /\ n + 1 # 0 /\ (n + 1) - 1 = n
        BY <2>1
      <3>2. QED BY <1>1, <3>1 DEF Filters
    <2>4. QED BY <2>1, <2>2, <2>3, PicksGrow
  <1> HIDE DEF T
  <1>5. Len(h) \in T
    BY <1>3, <1>4, SetInduction
  <1>6. QED BY <1>2, <1>5 DEF T

LEMMA MaxOfSet ==
    ASSUME NEW n \in Nat, NEW s \in SUBSET (1 .. n), s # {}
    PROVE  Max(s) \in s /\ \A y \in s : Max(s) >= y
  <1> DEFINE T == {k \in Nat : \A r \in SUBSET (1 .. k) : r # {} => \E x \in r : \A y \in r : x >= y}
  <1>1. 0 \in T
    <2>1. \A i \in 1 .. 0 : FALSE
      OBVIOUS
    <2>2. \A r \in SUBSET (1 .. 0) : r = {}
      BY <2>1, Zenon
    <2>3. QED BY <2>2
  <1>2. ASSUME NEW k \in Nat, k \in T PROVE k + 1 \in T
    <2>1. SUFFICES ASSUME NEW r \in SUBSET (1 .. k + 1), r # {} PROVE \E x \in r : \A y \in r : x >= y
      OBVIOUS
    <2>2. CASE k + 1 \in r
      <3>1. \A y \in r : k + 1 >= y
        BY <2>1
      <3>2. QED BY <2>2, <3>1
    <2>3. CASE k + 1 \notin r
      <3>1. r \in SUBSET (1 .. k)
        BY <2>1, <2>3
      <3>2. QED BY <1>2, <2>1, <3>1
    <2>4. QED BY <2>2, <2>3
  <1> HIDE DEF T
  <1>3. n \in T
    BY <1>1, <1>2, SetInduction
  <1>4. \E x \in s : \A y \in s : x >= y
    BY <1>3 DEF T
  <1>5. QED BY <1>4 DEF Max

\* What rises from each position to the next rises from each to all later ones.
LEMMA Rises ==
    ASSUME NEW n \in Nat, NEW a \in 1 .. n, NEW F \in [1 .. n -> Int],
           \A k \in a + 1 .. n : F[k - 1] <= F[k]
    PROVE  \A i, j \in a .. n : i <= j => F[i] <= F[j]
  <1> SUFFICES ASSUME NEW i \in a .. n PROVE \A j \in a .. n : i <= j => F[i] <= F[j]
    OBVIOUS
  <1> DEFINE T == {k \in Nat : i + k <= n => F[i] <= F[i + k]}
  <1>1. i \in 1 .. n
    OBVIOUS
  <1>2. 0 \in T
    <2>1. i + 0 = i /\ F[i] \in Int
      BY <1>1
    <2>2. QED BY <2>1
  <1>3. ASSUME NEW k \in Nat, k \in T PROVE k + 1 \in T
    <2>1. SUFFICES ASSUME i + (k + 1) <= n PROVE F[i] <= F[i + (k + 1)]
      OBVIOUS
    <2>2. /\ i + (k + 1) \in a + 1 .. n /\ (i + (k + 1)) - 1 = i + k
          /\ i + k \in 1 .. n /\ i + (k + 1) \in 1 .. n /\ i + k <= n
      BY <1>1, <2>1
    <2>3. F[i + k] <= F[i + (k + 1)]
      BY <2>2
    <2>4. F[i] <= F[i + k]
      BY <1>3, <2>2
    <2>5. F[i] \in Int /\ F[i + k] \in Int /\ F[i + (k + 1)] \in Int
      BY <1>1, <2>2
    <2>6. QED BY <2>3, <2>4, <2>5
  <1> HIDE DEF T
  <1>4. ASSUME NEW j \in a .. n, i <= j PROVE F[i] <= F[j]
    <2>1. j - i \in Nat /\ i + (j - i) = j /\ j <= n
      BY <1>1, <1>4
    <2>2. j - i \in T
      BY <1>2, <1>3, <2>1, SetInduction
    <2>3. QED BY <2>1, <2>2 DEF T
  <1>5. QED BY <1>4

\* No counter drops behind the start of the segment.
LEMMA SegmentIsClean ==
    ASSUME NEW h \in Seq(AgedSample), h # <<>>
    PROVE  /\ SegmentStart(h) \in 1 .. Len(h)
           /\ \A i \in SegmentStart(h) + 1 .. Len(h) : i \notin Drops(h)
           /\ \A i, j \in SegmentStart(h) .. Len(h) :
                 i <= j => h[i].hits <= h[j].hits /\ h[i].misses <= h[j].misses
  <1> DEFINE s == {1} \cup Drops(h)
             n == Len(h)
             a == SegmentStart(h)
  <1>1. n \in Nat /\ n >= 1
    OBVIOUS
  <1>2. s \in SUBSET (1 .. n) /\ s # {} /\ Drops(h) \subseteq s
    BY <1>1 DEF Drops
  <1>3. a = Max(s)
    BY DEF SegmentStart
  <1> HIDE DEF s, a
  <1>4. a \in 1 .. n /\ \A i \in Drops(h) : i <= a
    <2>1. a \in s /\ \A y \in s : a >= y
      BY <1>1, <1>2, <1>3, MaxOfSet
    <2>2. QED BY <1>1, <1>2, <2>1
  <1>5. \A i \in a + 1 .. n : i \notin Drops(h)
    BY <1>1, <1>4
  <1> DEFINE H == [i \in 1 .. n |-> h[i].hits]
             M == [i \in 1 .. n |-> h[i].misses]
  <1>6. \A i \in 1 .. n : h[i].hits \in Nat /\ h[i].misses \in Nat
    <2>1. \A i \in 1 .. n : h[i] \in AgedSample
      OBVIOUS
    <2> HIDE DEF n, H, M
    <2>2. QED BY <2>1 DEF AgedSample
  <1>7. H \in [1 .. n -> Int] /\ M \in [1 .. n -> Int]
    BY <1>6
  <1>8. ASSUME NEW k \in a + 1 .. n PROVE H[k - 1] <= H[k] /\ M[k - 1] <= M[k]
    <2>1. k \in 2 .. n /\ k - 1 \in 1 .. n /\ k \in 1 .. n
      BY <1>1, <1>4
    <2>2. ~(h[k].hits < h[k - 1].hits) /\ ~(h[k].misses < h[k - 1].misses)
      BY <1>5, <2>1 DEF Drops
    <2>3. QED BY <1>6, <2>1, <2>2
  <1> HIDE DEF n
  <1>9. \A i, j \in a .. n : i <= j => H[i] <= H[j] /\ M[i] <= M[j]
    <2> HIDE DEF H, M
    <2>1. \A i, j \in a .. n : i <= j => H[i] <= H[j]
      BY <1>1, <1>4, <1>7, <1>8, Rises
    <2>2. \A i, j \in a .. n : i <= j => M[i] <= M[j]
      BY <1>1, <1>4, <1>7, <1>8, Rises
    <2>3. QED BY <2>1, <2>2
  <1>10. \A i, j \in a .. n : i <= j => h[i].hits <= h[j].hits /\ h[i].misses <= h[j].misses
    <2>1. \A i \in a .. n : i \in 1 .. n /\ H[i] = h[i].hits /\ M[i] = h[i].misses
      BY <1>1, <1>4
    <2> HIDE DEF H, M
    <2>2. QED BY <1>9, <2>1
  <1>11. QED BY <1>4, <1>5, <1>10 DEF n, a

\* A window begins in the segment, and an older one not after it.
LEMMA BaselineInSegment ==
    ASSUME NEW h \in Seq(AgedSample), h # <<>>, NEW w
    PROVE  /\ Baseline(h, w) \in SegmentStart(h) .. Len(h)
           /\ Baseline(h, w) \in 1 .. Len(h)
           /\ Baseline(h, w) = SegmentStart(h) \/ h[Baseline(h, w)].age >= w
           /\ \A i \in SegmentStart(h) .. Len(h) : h[i].age >= w => i <= Baseline(h, w)
  <1> DEFINE a == SegmentStart(h)
             n == Len(h)
             s == {a} \cup {i \in a .. n : h[i].age >= w}
             b == Baseline(h, w)
  <1>1. n \in Nat /\ a \in 1 .. n
    BY SegmentIsClean
  <1>2. b = Max(s)
    BY DEF Baseline
  <1> HIDE DEF a, n, b
  <1>3. s \in SUBSET (1 .. n) /\ s # {} /\ s \subseteq a .. n
    BY <1>1
  <1>4. b \in s /\ \A y \in s : b >= y
    <2> HIDE DEF s
    <2>1. QED BY <1>1, <1>2, <1>3, MaxOfSet
  <1>5. b \in a .. n /\ b \in 1 .. n /\ (b = a \/ h[b].age >= w)
    BY <1>1, <1>3, <1>4
  <1>6. ASSUME NEW i \in a .. n, h[i].age >= w PROVE i <= b
    <2>1. i \in s
      BY <1>6
    <2>2. b >= i /\ b \in Int /\ i \in Int
      BY <1>1, <1>4, <1>5, <2>1
    <2>3. QED BY <2>2
  <1>7. QED BY <1>5, <1>6 DEF a, n, b

-----------------------------------------------------------------------------
(* The history as the counters and the scans leave it *)

\* What two samples of the file say of each other: the lookups since the one and
\* since the other differ by what their counters do, unless dnsmasq has been
\* restarted in between.
Later(s, t) ==
    /\ t.age < s.age
    /\ t.hits_since <= s.hits_since /\ t.misses_since <= s.misses_since
    /\ t.restarts_since <= s.restarts_since
    /\ t.restarts_since = s.restarts_since =>
          /\ t.hits - s.hits = s.hits_since - t.hits_since
          /\ t.misses - s.misses = s.misses_since - t.misses_since

\* What a sample says of the counters as they are now.
Reaches(s, x, y) ==
    s.restarts_since = 0 => x = s.hits + s.hits_since /\ y = s.misses + s.misses_since

InOrder(h) == \A i, j \in 1 .. Len(h) : i < j => Later(h[i], h[j])

HistoryType ==
    hits \in Nat /\ misses \in Nat /\ skips \in BOOLEAN /\ history \in Seq(Sample)

HistoryInv ==
    /\ HistoryType
    /\ InOrder(history)
    /\ \A i \in 1 .. Len(history) : Reaches(history[i], hits, misses)
    /\ history # <<>> => history[Len(history)].age = 0

LEMMA MappedSequence ==
    ASSUME NEW n \in Nat, NEW S, NEW f \in [1 .. n -> S]
    PROVE  f \in Seq(S) /\ Len(f) = n
  OBVIOUS

LEMMA SampleFields ==
    ASSUME NEW s \in AgedSample
    PROVE  /\ s.age \in Nat /\ s.hits \in Nat /\ s.misses \in Nat /\ s.latency \in BOOLEAN
           /\ s.hits_since \in Nat /\ s.misses_since \in Nat /\ s.restarts_since \in Nat
           /\ s.age <= MaxAge => s \in Sample
           /\ \A dt \in Nat : LET t == [s EXCEPT !.age = @ + dt]
                              IN  /\ t \in AgedSample /\ t.age = s.age + dt
                                  /\ t.hits = s.hits /\ t.misses = s.misses
                                  /\ t.hits_since = s.hits_since /\ t.misses_since = s.misses_since
                                  /\ t.restarts_since = s.restarts_since
  <1>1. /\ s.age \in Nat /\ s.hits \in Nat /\ s.misses \in Nat /\ s.latency \in BOOLEAN
        /\ s.hits_since \in Nat /\ s.misses_since \in Nat /\ s.restarts_since \in Nat
    BY DEF AgedSample
  <1>2. s.age <= MaxAge => s \in Sample
    <2>1. s.age <= MaxAge => s.age \in 0 .. MaxAge
      BY <1>1, TimeAssumption
    <2>2. QED BY <2>1 DEF AgedSample, Sample
  <1>3. ASSUME NEW dt \in Nat
        PROVE  LET t == [s EXCEPT !.age = @ + dt]
               IN  /\ t \in AgedSample /\ t.age = s.age + dt
                   /\ t.hits = s.hits /\ t.misses = s.misses
                   /\ t.hits_since = s.hits_since /\ t.misses_since = s.misses_since
                   /\ t.restarts_since = s.restarts_since
    BY <1>1 DEF AgedSample
  <1>4. QED BY <1>1, <1>2, <1>3

LEMMA SamplesAreAged == Sample \subseteq AgedSample /\ Seq(Sample) \subseteq Seq(AgedSample)
  <1>1. Sample \subseteq AgedSample
    BY TimeAssumption DEF Sample, AgedSample
  <1>2. QED BY <1>1

LEMMA LoadPicks ==
    ASSUME NEW h \in Seq(AgedSample)
    PROVE  Picks(Load(h), h, Nat, Len(h))
  <1>1. CASE skips
    <2> DEFINE I == {i \in DOMAIN h : HasLatency(h[i])}
    <2>1. Load(h) = Only(h, I)
      BY <1>1 DEF Load
    <2> HIDE DEF I
    <2>2. Picks(Load(h), h, I, Len(h))
      BY <2>1, OnlyPicks
    <2>3. QED BY <2>2 DEF Picks
  <1>2. CASE ~skips
    <2>1. Load(h) = h /\ Len(h) \in Nat
      BY <1>2 DEF Load
    <2>2. \A i \in 1 .. Len(h) : i \in Nat
      OBVIOUS
    <2>3. QED BY <2>1, <2>2 DEF Picks
  <1>3. QED BY <1>1, <1>2

LEMMA AgedFields ==
    ASSUME NEW h \in Seq(AgedSample), NEW dt \in Nat
    PROVE  /\ Aged(h, dt) \in Seq(AgedSample) /\ Len(Aged(h, dt)) = Len(h)
           /\ DOMAIN Aged(h, dt) = 1 .. Len(h)
           /\ \A i \in 1 .. Len(h) :
                 LET s == h[i]
                     t == Aged(h, dt)[i]
                 IN  /\ t.age = s.age + dt /\ t.hits = s.hits /\ t.misses = s.misses
                     /\ t.hits_since = s.hits_since /\ t.misses_since = s.misses_since
                     /\ t.restarts_since = s.restarts_since
  <1>1. Len(h) \in Nat /\ DOMAIN h = 1 .. Len(h) /\ \A i \in 1 .. Len(h) : h[i] \in AgedSample
    OBVIOUS
  <1>2. Aged(h, dt) = [i \in 1 .. Len(h) |-> [h[i] EXCEPT !.age = @ + dt]]
    BY <1>1 DEF Aged
  <1>3. \A i \in 1 .. Len(h) : Aged(h, dt)[i] = [h[i] EXCEPT !.age = @ + dt]
    BY <1>2
  <1>4. \A i \in 1 .. Len(h) :
                 LET s == h[i]
                     t == Aged(h, dt)[i]
                 IN  /\ t \in AgedSample
                     /\ t.age = s.age + dt /\ t.hits = s.hits /\ t.misses = s.misses
                     /\ t.hits_since = s.hits_since /\ t.misses_since = s.misses_since
                     /\ t.restarts_since = s.restarts_since
    <2>1. SUFFICES ASSUME NEW i \in 1 .. Len(h)
                   PROVE LET s == h[i]
                             t == [s EXCEPT !.age = @ + dt]
                         IN  /\ t \in AgedSample
                             /\ t.age = s.age + dt /\ t.hits = s.hits /\ t.misses = s.misses
                             /\ t.hits_since = s.hits_since /\ t.misses_since = s.misses_since
                             /\ t.restarts_since = s.restarts_since
      BY <1>3
    <2>2. h[i] \in AgedSample
      BY <1>1
    <2>3. QED BY <2>2, SampleFields
  <1>5. Aged(h, dt) \in [1 .. Len(h) -> AgedSample]
    BY <1>2, <1>4
  <1>6. QED BY <1>1, <1>4, <1>5, MappedSequence

LEMMA HistoryFields ==
    ASSUME HistoryType
    PROVE  /\ Len(history) \in Nat /\ DOMAIN history = 1 .. Len(history)
           /\ history \in Seq(AgedSample) /\ (history # <<>> <=> Len(history) # 0)
           /\ \A i \in 1 .. Len(history) : history[i] \in Sample /\ history[i] \in AgedSample
  <1>1. history \in Seq(Sample)
    BY DEF HistoryType
  <1>2. QED BY <1>1, SamplesAreAged

LEMMA DnsInitHolds == DnsInit => HistoryInv
  <1> SUFFICES ASSUME DnsInit PROVE HistoryInv
    OBVIOUS
  <1>1. hits \in Nat /\ misses \in Nat /\ skips \in BOOLEAN /\ history = <<>>
    BY TimeAssumption DEF DnsInit
  <1>2. history \in Seq(Sample) /\ Len(history) = 0
    BY <1>1
  <1>3. QED BY <1>1, <1>2 DEF HistoryInv, HistoryType, InOrder

\* Every sample that a scan keeps is an older one of the file, dt older than it
\* was, and no two change places.
LEMMA RecordKeepsHistory ==
    ASSUME HistoryInv, Record
    PROVE  HistoryInv'
  <1>1. PICK dt \in Gaps, lat \in BOOLEAN :
          /\ LET h == Aged(Load(history), dt)
             IN  history' = Append(Only(h, {i \in DOMAIN h : Recent(h[i])}), Current(lat))
          /\ UNCHANGED <<hits, misses, skips>>
    BY Zenon DEF Record
  <1>2. HistoryType /\ dt \in Nat /\ dt > 0
    BY TimeAssumption DEF HistoryInv
  <1> DEFINE l == Load(history)
             a == Aged(l, dt)
             I == {i \in DOMAIN a : Recent(a[i])}
             g == Only(a, I)
             c == Current(lat)
  <1>3. Picks(l, history, Nat, Len(history))
    BY <1>2, HistoryFields, LoadPicks
  <1>4. /\ l \in Seq(AgedSample) /\ Len(l) \in Nat
        /\ \A i \in 1 .. Len(l) : \E p \in 1 .. Len(history) : l[i] = history[p]
        /\ \A i, j \in 1 .. Len(l) : i < j =>
             \E p, q \in 1 .. Len(history) : p < q /\ l[i] = history[p] /\ l[j] = history[q]
    <2> HIDE DEF l
    <2>1. l \in Seq(AgedSample)
      BY <1>3 DEF Picks
    <2>2. Len(l) \in Nat
      BY <2>1
    <2>3. \A i \in 1 .. Len(l) : \E p \in 1 .. Len(history) : l[i] = history[p]
      BY <1>3, Zenon DEF Picks
    <2>4. \A i, j \in 1 .. Len(l) : i < j =>
             \E p, q \in 1 .. Len(history) : p < q /\ l[i] = history[p] /\ l[j] = history[q]
      BY <1>3, Zenon DEF Picks
    <2>5. QED BY <2>1, <2>2, <2>3, <2>4
  <1>5. /\ a \in Seq(AgedSample) /\ Len(a) = Len(l) /\ DOMAIN a = 1 .. Len(l)
        /\ \A i \in 1 .. Len(l) :
             LET s == l[i]
                 t == a[i]
             IN  /\ t.age = s.age + dt /\ t.hits = s.hits /\ t.misses = s.misses
                 /\ t.hits_since = s.hits_since /\ t.misses_since = s.misses_since
                 /\ t.restarts_since = s.restarts_since
    <2> HIDE DEF l
    <2>1. QED BY <1>2, <1>4, AgedFields
  <1> HIDE DEF l, a
  <1>6. Picks(g, a, I, Len(a))
    <2> HIDE DEF I
    <2>1. QED BY <1>5, OnlyPicks
  <1> HIDE DEF g
  <1>7. \A i \in I : Recent(a[i])
    OBVIOUS
  <1> HIDE DEF I
  <1>8. /\ g \in Seq(AgedSample) /\ Len(g) \in Nat
        /\ \A i \in 1 .. Len(g) : \E p \in 1 .. Len(a) : p \in I /\ g[i] = a[p]
        /\ \A i, j \in 1 .. Len(g) : i < j =>
             \E p, q \in 1 .. Len(a) : p < q /\ g[i] = a[p] /\ g[j] = a[q]
    <2>1. /\ g \in Seq(AgedSample)
          /\ \A i \in 1 .. Len(g) : \E p \in 1 .. Len(a) : p \in I /\ g[i] = a[p]
          /\ \A i, j \in 1 .. Len(g) : i < j =>
               \E p, q \in 1 .. Len(a) : p < q /\ g[i] = a[p] /\ g[j] = a[q]
      BY <1>6, Zenon DEF Picks
    <2>2. Len(g) \in Nat
      BY <2>1
    <2>3. QED BY <2>1, <2>2, Zenon
  <1>9. \A i \in 1 .. Len(history) : history[i] \in AgedSample /\ Reaches(history[i], hits, misses)
    BY <1>2, HistoryFields DEF HistoryInv
  <1>10. ASSUME NEW i \in 1 .. Len(g)
         PROVE  g[i] \in Sample /\ g[i].age >= dt /\ Reaches(g[i], hits, misses)
    <2>1. PICK p \in 1 .. Len(a) : p \in I /\ g[i] = a[p]
      BY <1>8
    <2>2. p \in 1 .. Len(l)
      BY <1>5
    <2>3. PICK q \in 1 .. Len(history) : l[p] = history[q]
      BY <1>4, <2>2
    <2> DEFINE s == history[q]
               t == g[i]
    <2>4. /\ t.age = s.age + dt /\ t.hits = s.hits /\ t.misses = s.misses
          /\ t.hits_since = s.hits_since /\ t.misses_since = s.misses_since
          /\ t.restarts_since = s.restarts_since
      BY <1>5, <2>1, <2>2, <2>3
    <2>5. s \in AgedSample /\ Reaches(s, hits, misses) /\ t \in AgedSample
      BY <1>8, <1>9
    <2>6. t.age <= MaxAge
      BY <1>7, <2>1 DEF Recent
    <2> HIDE DEF s, t
    <2>7. t \in Sample
      BY <2>5, <2>6, SampleFields
    <2>8. s.age \in Nat
      BY <2>5, SampleFields
    <2>9. t.age >= dt
      BY <1>2, <2>4, <2>8
    <2>10. Reaches(t, hits, misses)
      BY <2>4, <2>5 DEF Reaches
    <2>11. QED BY <2>7, <2>9, <2>10 DEF t
  <1>11. ASSUME NEW i \in 1 .. Len(g), NEW j \in 1 .. Len(g), i < j
         PROVE  Later(g[i], g[j])
    <2>1. PICK p \in 1 .. Len(a), q \in 1 .. Len(a) : p < q /\ g[i] = a[p] /\ g[j] = a[q]
      BY <1>8, <1>11
    <2>2. p \in 1 .. Len(l) /\ q \in 1 .. Len(l)
      BY <1>5
    <2>3. PICK x \in 1 .. Len(history), y \in 1 .. Len(history) : x < y /\ l[p] = history[x] /\ l[q] = history[y]
      BY <1>4, <2>1, <2>2
    <2> DEFINE s == history[x]
               t == history[y]
    <2>4. Later(s, t)
      BY <2>3 DEF HistoryInv, InOrder
    <2>5. /\ g[i].age = s.age + dt /\ g[i].hits = s.hits /\ g[i].misses = s.misses
          /\ g[i].hits_since = s.hits_since /\ g[i].misses_since = s.misses_since
          /\ g[i].restarts_since = s.restarts_since
      BY <1>5, <2>1, <2>2, <2>3
    <2>6. /\ g[j].age = t.age + dt /\ g[j].hits = t.hits /\ g[j].misses = t.misses
          /\ g[j].hits_since = t.hits_since /\ g[j].misses_since = t.misses_since
          /\ g[j].restarts_since = t.restarts_since
      BY <1>5, <2>1, <2>2, <2>3
    <2>7. s.age \in Nat /\ t.age \in Nat
      BY <1>9, SampleFields
    <2> HIDE DEF s, t
    <2>8. t.age + dt < s.age + dt
      BY <1>2, <2>4, <2>7 DEF Later
    <2>9. QED BY <2>4, <2>5, <2>6, <2>8 DEF Later
  <1>12. /\ c \in Sample /\ c.age = 0 /\ c.hits = hits /\ c.misses = misses
         /\ c.hits_since = 0 /\ c.misses_since = 0 /\ c.restarts_since = 0
    BY <1>2, TimeAssumption DEF Current, Sample, HistoryType
  <1> HIDE DEF c
  <1>13. history' = Append(g, c)
    BY <1>1 DEF l, a, I, g, c
  <1>14. g \in Seq(Sample)
    BY <1>8, <1>10
  <1>15. /\ history' \in Seq(Sample) /\ Len(history') = Len(g) + 1
         /\ \A i \in 1 .. Len(g) : history'[i] = g[i]
         /\ history'[Len(g) + 1] = c
    BY <1>12, <1>13, <1>14, AppendProperties
  <1>16. ASSUME NEW i \in 1 .. Len(g) PROVE Later(g[i], c)
    <2>1. g[i] \in Sample /\ g[i].age >= dt /\ Reaches(g[i], hits, misses)
      BY <1>10
    <2> DEFINE s == g[i]
    <2> HIDE DEF s
    <2>2. s \in AgedSample /\ s.age >= dt /\ Reaches(s, hits, misses)
      BY <2>1, SamplesAreAged DEF s
    <2>3. /\ s.age \in Nat /\ s.hits \in Nat /\ s.misses \in Nat
          /\ s.hits_since \in Nat /\ s.misses_since \in Nat /\ s.restarts_since \in Nat
      BY <2>2, SampleFields
    <2>4. 0 < s.age
      BY <1>2, <2>2, <2>3
    <2>5. s.restarts_since = 0 => hits - s.hits = s.hits_since - 0 /\ misses - s.misses = s.misses_since - 0
      BY <2>2, <2>3 DEF Reaches
    <2>6. Later(s, c)
      BY <1>12, <2>3, <2>4, <2>5 DEF Later
    <2>7. QED BY <2>6 DEF s
  <1>17. InOrder(history')
    <2>1. SUFFICES ASSUME NEW i \in 1 .. Len(g) + 1, NEW j \in 1 .. Len(g) + 1, i < j
                   PROVE  Later(history'[i], history'[j])
      BY <1>15 DEF InOrder
    <2>2. i \in 1 .. Len(g) /\ history'[i] = g[i]
      BY <1>8, <1>15, <2>1
    <2>3. CASE j = Len(g) + 1
      BY <1>15, <1>16, <2>2, <2>3
    <2>4. CASE j # Len(g) + 1
      <3>1. j \in 1 .. Len(g) /\ history'[j] = g[j]
        BY <1>8, <1>15, <2>4
      <3>2. QED BY <1>11, <2>1, <2>2, <3>1
    <2>5. QED BY <2>3, <2>4
  <1>18. \A i \in 1 .. Len(history') : Reaches(history'[i], hits, misses)
    <2>1. Reaches(c, hits, misses)
      BY <1>2, <1>12 DEF Reaches, HistoryType
    <2>2. \A i \in 1 .. Len(g) + 1 : i \in 1 .. Len(g) \/ i = Len(g) + 1
      BY <1>8
    <2>3. QED BY <1>10, <1>15, <2>1, <2>2
  <1>19. history'[Len(history')].age = 0
    BY <1>12, <1>15
  <1>20. hits' = hits /\ misses' = misses /\ skips' = skips
    BY <1>1
  <1>21. HistoryType'
    BY <1>2, <1>15, <1>20 DEF HistoryType
  <1>22. QED BY <1>17, <1>18, <1>19, <1>20, <1>21 DEF HistoryInv

\* What happens since both samples does not change what they say of each other.
LEMMA LaterGrow ==
    ASSUME NEW s \in AgedSample, NEW t \in AgedSample, NEW u, NEW v, Later(s, t),
           NEW x \in Nat, NEW y \in Nat, NEW z \in Nat,
           u.age = s.age, u.hits = s.hits, u.misses = s.misses,
           u.hits_since = s.hits_since + x, u.misses_since = s.misses_since + y,
           u.restarts_since = s.restarts_since + z,
           v.age = t.age, v.hits = t.hits, v.misses = t.misses,
           v.hits_since = t.hits_since + x, v.misses_since = t.misses_since + y,
           v.restarts_since = t.restarts_since + z
    PROVE  Later(u, v)
  <1>1. /\ s.hits_since \in Nat /\ s.misses_since \in Nat /\ s.restarts_since \in Nat
        /\ t.hits_since \in Nat /\ t.misses_since \in Nat /\ t.restarts_since \in Nat
    BY SampleFields
  <1>2. v.age < u.age /\ v.hits_since <= u.hits_since /\ v.misses_since <= u.misses_since
    BY <1>1 DEF Later
  <1>3. v.restarts_since <= u.restarts_since
    BY <1>1 DEF Later
  <1>4. v.restarts_since = u.restarts_since => t.restarts_since = s.restarts_since
    <2>1. ASSUME NEW i \in Nat, NEW j \in Nat, i + z = j + z PROVE i = j
      BY <2>1
    <2>2. SUFFICES ASSUME v.restarts_since = u.restarts_since PROVE t.restarts_since = s.restarts_since
      OBVIOUS
    <2>3. t.restarts_since + z = s.restarts_since + z
      BY <2>2
    <2>4. QED BY <1>1, <2>1, <2>3
  <1>5. /\ u.hits_since - v.hits_since = s.hits_since - t.hits_since
        /\ u.misses_since - v.misses_since = s.misses_since - t.misses_since
    BY <1>1
  <1>6. QED BY <1>2, <1>3, <1>4, <1>5 DEF Later

\* x hits, y misses and z restarts of dnsmasq: what happens to the counters
\* happens to all samples alike.
Counted(x, y, z) ==
    /\ DOMAIN history' = DOMAIN history /\ history' = [i \in DOMAIN history' |-> history'[i]]
    /\ hits' \in Nat /\ misses' \in Nat /\ skips' = skips
    /\ z = 0 => hits' = hits + x /\ misses' = misses + y
    /\ \A i \in DOMAIN history :
          LET s == history[i]
              t == history'[i]
          IN  /\ t \in Sample /\ t.age = s.age /\ t.hits = s.hits /\ t.misses = s.misses
              /\ t.hits_since = s.hits_since + x /\ t.misses_since = s.misses_since + y
              /\ t.restarts_since = s.restarts_since + z

LEMMA CountersKeepHistory ==
    ASSUME HistoryInv, NEW x \in Nat, NEW y \in Nat, NEW z \in Nat, Counted(x, y, z)
    PROVE  HistoryInv'
  <1>a. /\ DOMAIN history' = DOMAIN history /\ history' = [i \in DOMAIN history' |-> history'[i]]
        /\ hits' \in Nat /\ misses' \in Nat /\ skips' = skips
    BY DEF Counted
  <1>b. z = 0 => hits' = hits + x /\ misses' = misses + y
    BY DEF Counted
  <1>c. \A i \in DOMAIN history :
          LET s == history[i]
              t == history'[i]
          IN  /\ t \in Sample /\ t.age = s.age /\ t.hits = s.hits /\ t.misses = s.misses
              /\ t.hits_since = s.hits_since + x /\ t.misses_since = s.misses_since + y
              /\ t.restarts_since = s.restarts_since + z
    BY DEF Counted
  <1>1. HistoryType /\ DOMAIN history = 1 .. Len(history) /\ Len(history) \in Nat
    BY HistoryFields DEF HistoryInv
  <1>2. history' \in [1 .. Len(history) -> Sample]
    BY <1>1, <1>a, <1>c
  <1>3. history' \in Seq(Sample) /\ Len(history') = Len(history)
    BY <1>1, <1>2, MappedSequence
  <1>4. \A i \in 1 .. Len(history) : history[i] \in AgedSample /\ Reaches(history[i], hits, misses)
    BY <1>1, HistoryFields DEF HistoryInv
  <1>5. ASSUME NEW i \in 1 .. Len(history) PROVE Reaches(history'[i], hits', misses')
    <2> DEFINE s == history[i]
               t == history'[i]
    <2>1. /\ t.hits = s.hits /\ t.misses = s.misses
          /\ t.hits_since = s.hits_since + x /\ t.misses_since = s.misses_since + y
          /\ t.restarts_since = s.restarts_since + z
      BY <1>1, <1>c
    <2>2. s \in AgedSample /\ Reaches(s, hits, misses)
      BY <1>4
    <2> HIDE DEF s, t
    <2>3. /\ s.hits \in Nat /\ s.misses \in Nat
          /\ s.hits_since \in Nat /\ s.misses_since \in Nat /\ s.restarts_since \in Nat
      BY <2>2, SampleFields
    <2>4. t.restarts_since = 0 => z = 0 /\ s.restarts_since = 0
      BY <2>1, <2>3
    <2>5. z = 0 /\ s.restarts_since = 0 => hits' = t.hits + t.hits_since /\ misses' = t.misses + t.misses_since
      <3>1. SUFFICES ASSUME z = 0, s.restarts_since = 0
                     PROVE  hits' = t.hits + t.hits_since /\ misses' = t.misses + t.misses_since
        OBVIOUS
      <3>2. hits = s.hits + s.hits_since /\ misses = s.misses + s.misses_since
        BY <2>2, <3>1 DEF Reaches
      <3>3. hits' = hits + x /\ misses' = misses + y
        BY <1>b, <3>1
      <3>4. /\ (s.hits + s.hits_since) + x = s.hits + (s.hits_since + x)
            /\ (s.misses + s.misses_since) + y = s.misses + (s.misses_since + y)
        BY <2>3
      <3>5. QED BY <2>1, <3>2, <3>3, <3>4, Zenon
    <2>6. Reaches(t, hits', misses')
      BY <2>4, <2>5 DEF Reaches
    <2>7. QED BY <2>6 DEF t
  <1>6. ASSUME NEW i \in 1 .. Len(history), NEW j \in 1 .. Len(history), i < j
        PROVE  Later(history'[i], history'[j])
    <2> DEFINE s == history[i]
               t == history[j]
               u == history'[i]
               v == history'[j]
    <2>1. /\ u.age = s.age /\ u.hits = s.hits /\ u.misses = s.misses
          /\ u.hits_since = s.hits_since + x /\ u.misses_since = s.misses_since + y
          /\ u.restarts_since = s.restarts_since + z
      BY <1>1, <1>c
    <2>2. /\ v.age = t.age /\ v.hits = t.hits /\ v.misses = t.misses
          /\ v.hits_since = t.hits_since + x /\ v.misses_since = t.misses_since + y
          /\ v.restarts_since = t.restarts_since + z
      BY <1>1, <1>c
    <2>3. s \in AgedSample /\ t \in AgedSample
      BY <1>4
    <2>4. Later(s, t)
      BY <1>6 DEF HistoryInv, InOrder
    <2> HIDE DEF s, t, u, v
    <2>5. Later(u, v)
      BY <2>1, <2>2, <2>3, <2>4, LaterGrow
    <2>6. QED BY <2>5 DEF u, v
  <1>7. InOrder(history')
    BY <1>3, <1>6 DEF InOrder
  <1>8. history' # <<>> => history'[Len(history')].age = 0
    <2>1. ASSUME history' # <<>> PROVE history'[Len(history')].age = 0
      <3>1. Len(history) # 0
        BY <1>3, <2>1
      <3>2. history # <<>> /\ Len(history) \in DOMAIN history
        BY <1>1, <3>1, HistoryFields
      <3>3. history[Len(history)].age = 0
        BY <3>2 DEF HistoryInv
      <3>4. QED BY <1>3, <1>c, <3>2, <3>3
    <2>2. QED BY <2>1
  <1>9. HistoryType'
    BY <1>1, <1>3, <1>a DEF HistoryType
  <1>10. QED BY <1>3, <1>5, <1>7, <1>8, <1>9 DEF HistoryInv

LEMMA LookupsKeepHistory ==
    ASSUME HistoryInv, Hit \/ Miss \/ Restart
    PROVE  HistoryInv'
  <1>1. /\ hits \in Nat /\ misses \in Nat /\ DOMAIN history = 1 .. Len(history)
        /\ \A i \in DOMAIN history : history[i] \in Sample
    BY HistoryFields DEF HistoryInv, HistoryType
  <1>2. ASSUME NEW s \in Sample
        PROVE  /\ [s EXCEPT !.hits_since = @ + 1] \in Sample
               /\ [s EXCEPT !.misses_since = @ + 1] \in Sample
               /\ [s EXCEPT !.restarts_since = @ + 1] \in Sample
               /\ s.hits_since + 0 = s.hits_since /\ s.misses_since + 0 = s.misses_since
               /\ s.restarts_since + 0 = s.restarts_since
    BY DEF Sample
  <1>3. CASE Hit
    <2>1. /\ hits' = hits + 1 /\ misses' = misses /\ skips' = skips
          /\ history' = [i \in DOMAIN history |-> [history[i] EXCEPT !.hits_since = @ + 1]]
      BY <1>3 DEF Hit
    <2>2. DOMAIN history' = DOMAIN history /\ history' = [i \in DOMAIN history' |-> history'[i]]
      BY <2>1
    <2>3. ASSUME NEW i \in DOMAIN history
          PROVE  LET s == history[i]
                     t == history'[i]
                 IN  /\ t \in Sample /\ t.age = s.age /\ t.hits = s.hits /\ t.misses = s.misses
                     /\ t.hits_since = s.hits_since + 1 /\ t.misses_since = s.misses_since + 0
                     /\ t.restarts_since = s.restarts_since + 0
      <3>1. history'[i] = [history[i] EXCEPT !.hits_since = @ + 1] /\ history[i] \in Sample
        BY <1>1, <2>1
      <3>2. QED BY <1>2, <3>1 DEF Sample
    <2>4. hits' \in Nat /\ misses' \in Nat /\ misses' = misses + 0
      BY <1>1, <2>1
    <2>5. Counted(1, 0, 0)
      BY <2>1, <2>2, <2>3, <2>4 DEF Counted
    <2>6. QED BY <2>5, CountersKeepHistory
  <1>4. CASE Miss
    <2>1. /\ misses' = misses + 1 /\ hits' = hits /\ skips' = skips
          /\ history' = [i \in DOMAIN history |-> [history[i] EXCEPT !.misses_since = @ + 1]]
      BY <1>4 DEF Miss
    <2>2. DOMAIN history' = DOMAIN history /\ history' = [i \in DOMAIN history' |-> history'[i]]
      BY <2>1
    <2>3. ASSUME NEW i \in DOMAIN history
          PROVE  LET s == history[i]
                     t == history'[i]
                 IN  /\ t \in Sample /\ t.age = s.age /\ t.hits = s.hits /\ t.misses = s.misses
                     /\ t.hits_since = s.hits_since + 0 /\ t.misses_since = s.misses_since + 1
                     /\ t.restarts_since = s.restarts_since + 0
      <3>1. history'[i] = [history[i] EXCEPT !.misses_since = @ + 1] /\ history[i] \in Sample
        BY <1>1, <2>1
      <3>2. QED BY <1>2, <3>1 DEF Sample
    <2>4. hits' \in Nat /\ misses' \in Nat /\ hits' = hits + 0
      BY <1>1, <2>1
    <2>5. Counted(0, 1, 0)
      BY <2>1, <2>2, <2>3, <2>4 DEF Counted
    <2>6. QED BY <2>5, CountersKeepHistory
  <1>5. CASE Restart
    <2>1. /\ hits' = 0 /\ misses' = 0 /\ skips' = skips
          /\ history' = [i \in DOMAIN history |-> [history[i] EXCEPT !.restarts_since = @ + 1]]
      BY <1>5 DEF Restart
    <2>2. DOMAIN history' = DOMAIN history /\ history' = [i \in DOMAIN history' |-> history'[i]]
      BY <2>1
    <2>3. ASSUME NEW i \in DOMAIN history
          PROVE  LET s == history[i]
                     t == history'[i]
                 IN  /\ t \in Sample /\ t.age = s.age /\ t.hits = s.hits /\ t.misses = s.misses
                     /\ t.hits_since = s.hits_since + 0 /\ t.misses_since = s.misses_since + 0
                     /\ t.restarts_since = s.restarts_since + 1
      <3>1. history'[i] = [history[i] EXCEPT !.restarts_since = @ + 1] /\ history[i] \in Sample
        BY <1>1, <2>1
      <3>2. QED BY <1>2, <3>1 DEF Sample
    <2>4. hits' \in Nat /\ misses' \in Nat /\ 1 \in Nat /\ 0 \in Nat /\ 1 # 0
      BY <2>1
    <2>5. Counted(0, 0, 1)
      BY <2>1, <2>2, <2>3, <2>4 DEF Counted
    <2>6. QED BY <2>5, CountersKeepHistory
  <1>6. QED BY <1>3, <1>4, <1>5

LEMMA ForgetKeepsHistory ==
    ASSUME HistoryInv, Forget
    PROVE  HistoryInv'
  <1>1. history' = <<>> /\ hits' = hits /\ misses' = misses /\ skips' = skips
    BY DEF Forget
  <1>2. history' \in Seq(Sample) /\ Len(history') = 0
    BY <1>1
  <1>3. HistoryType
    BY DEF HistoryInv
  <1>4. QED BY <1>1, <1>2, <1>3 DEF HistoryInv, HistoryType, InOrder

LEMMA HistoryInvariant == DnsSpec => []HistoryInv
  <1>1. HistoryInv /\ [DnsNext]_dnsVars => HistoryInv'
    <2> SUFFICES ASSUME HistoryInv, [DnsNext]_dnsVars PROVE HistoryInv'
      OBVIOUS
    <2>1. CASE Record
      BY <2>1, RecordKeepsHistory
    <2>2. CASE Forget
      BY <2>2, ForgetKeepsHistory
    <2>3. CASE Hit \/ Miss \/ Restart
      BY <2>3, LookupsKeepHistory
    <2>4. CASE UNCHANGED dnsVars
      BY <2>4 DEF HistoryInv, HistoryType, InOrder, Reaches, Later, dnsVars
    <2>5. QED BY <2>1, <2>2, <2>3, <2>4 DEF DnsNext
  <1>2. QED BY <1>1, DnsInitHolds, PTL DEF DnsSpec

\* The file holds typed samples, each taken after the one before it, and none past
\* the age limit, however scans, restarts of dnsmasq and removals of the file
\* follow each other (_load_dns_history, _append_dns_history).
THEOREM HistoryTypeOK == DnsSpec => []TypeOK
  <1>1. HistoryInv => TypeOK
    <2> SUFFICES ASSUME HistoryInv PROVE TypeOK
      OBVIOUS
    <2>1. HistoryType
      BY DEF HistoryInv
    <2>2. ASSUME NEW i \in 2 .. Len(history) PROVE history[i].age < history[i - 1].age
      <3>1. i \in 1 .. Len(history) /\ i - 1 \in 1 .. Len(history) /\ i - 1 < i
        BY <2>1, HistoryFields
      <3>2. Later(history[i - 1], history[i])
        BY <3>1 DEF HistoryInv, InOrder
      <3>3. QED BY <3>2 DEF Later
    <2>3. QED BY <2>1, <2>2 DEF TypeOK, HistoryType
  <1>2. QED BY <1>1, HistoryInvariant, PTL

LEMMA RollupFields ==
    ASSUME NEW s \in AgedSample, NEW t \in AgedSample
    PROVE  /\ Rollup(s, t) # Empty =>
                 Rollup(s, t).hits = t.hits - s.hits /\ Rollup(s, t).misses = t.misses - s.misses
           /\ s.age <= t.age => Rollup(s, t) = Empty
           /\ t.age < s.age /\ s.hits <= t.hits /\ s.misses <= t.misses =>
                 /\ Rollup(s, t).hits = t.hits - s.hits
                 /\ Rollup(s, t).misses = t.misses - s.misses
                 /\ Rollup(s, t).elapsed = s.age - t.age
  <1>1. /\ s.age \in Nat /\ s.hits \in Nat /\ s.misses \in Nat
        /\ t.age \in Nat /\ t.hits \in Nat /\ t.misses \in Nat
    BY SampleFields
  <1>2. QED BY <1>1 DEF Rollup

\* A period counts exactly the lookups made since its first sample: no difference is
\* taken between counters of two lives of dnsmasq that the samples can tell apart
\* (_dns_period_rollup, _dns_clean_segment_start).
THEOREM PeriodsAreExact == DnsSpec => []PeriodIsExact
  <1>1. HistoryInv => PeriodIsExact
    <2> SUFFICES ASSUME HistoryInv, history # <<>>, NEW w \in Window,
                        PeriodRollup(history, w) # Empty, Shown(Baseline(history, w))
                 PROVE  LET b == Baseline(history, w)
                            r == PeriodRollup(history, w)
                        IN  /\ r.hits = history[b].hits_since - Last(history).hits_since
                            /\ r.misses = history[b].misses_since - Last(history).misses_since
      BY Zenon DEF PeriodIsExact
    <2> DEFINE n == Len(history)
               b == Baseline(history, w)
               R == [i \in 1 .. n |-> history[i].restarts_since]
    <2>1. /\ n \in Nat /\ n # 0 /\ history \in Seq(AgedSample)
          /\ \A i \in 1 .. n : history[i] \in AgedSample
      BY HistoryFields DEF HistoryInv
    <2>2. b \in 1 .. n /\ SegmentStart(history) \in 1 .. n /\ b \in SegmentStart(history) .. n
      BY <2>1, BaselineInSegment, SegmentIsClean
    <2>3. \A i \in SegmentStart(history) + 1 .. n : i \notin Drops(history)
      BY <2>1, SegmentIsClean
    <2>4. Hidden(history) \cap (b + 1 .. n) = {}
      BY DEF Shown
    <2> HIDE DEF b
    <2>5. \A i \in 1 .. n : history[i].restarts_since \in Nat
      BY <2>1, SampleFields
    <2>5a. \A i \in 1 .. n : R[i] = history[i].restarts_since
      OBVIOUS
    <2> HIDE DEF n
    <2>6. R \in [1 .. n -> Int]
      BY <2>5
    <2>7. ASSUME NEW k \in b + 1 .. n PROVE R[k - 1] <= R[k]
      <3>1. /\ k \in 2 .. n /\ k \in 1 .. n /\ k - 1 \in 1 .. n
            /\ k \in SegmentStart(history) + 1 .. n
        BY <2>1, <2>2
      <3>2. k \notin Hidden(history) /\ k \notin Drops(history)
        BY <2>3, <2>4, <3>1
      <3>3. ~(history[k].restarts_since < history[k - 1].restarts_since)
        BY <3>1, <3>2 DEF Hidden, n
      <3>4. QED BY <2>5, <3>1, <3>3
    <2>8. n \in b .. n /\ b \in b .. n /\ b <= n
      BY <2>1, <2>2
    <2>9. R[b] <= R[n]
      <3> HIDE DEF R
      <3>1. QED BY <2>1, <2>2, <2>6, <2>7, <2>8, Rises
    <2>10. history[b].restarts_since <= history[n].restarts_since
      <3>1. b \in 1 .. n /\ n \in 1 .. n
        BY <2>1, <2>2
      <3>2. QED
        <4> HIDE DEF R
        <4>1. QED BY <2>5a, <2>9, <3>1
    <2>11. PeriodRollup(history, w) = Rollup(history[b], history[n]) /\ Last(history) = history[n]
      BY DEF PeriodRollup, Last, b, n
    <2>12. history[b] \in AgedSample /\ history[n] \in AgedSample
      BY <2>1, <2>2
    <2>13. b # n
      <3>1. ASSUME b = n PROVE FALSE
        <4>1. history[b].age <= history[n].age
          BY <2>12, <3>1, SampleFields
        <4>2. QED BY <2>11, <2>12, <4>1, RollupFields
      <3>2. QED BY <3>1
    <2>14. Later(history[b], history[n])
      <3>1. b \in 1 .. n /\ n \in 1 .. n /\ b < n
        BY <2>1, <2>2, <2>13
      <3>2. QED BY <3>1 DEF HistoryInv, InOrder, n
    <2> DEFINE s == history[b]
               t == history[n]
    <2>15. t.restarts_since = s.restarts_since
      <3>1. s.restarts_since \in Nat /\ t.restarts_since \in Nat
        BY <2>12, SampleFields
      <3>2. t.restarts_since <= s.restarts_since
        BY <2>14 DEF Later
      <3>3. QED BY <2>10, <3>1, <3>2
    <2> HIDE DEF s, t
    <2>16. Later(s, t)
      BY <2>14 DEF s, t
    <2>17. t.hits - s.hits = s.hits_since - t.hits_since /\ t.misses - s.misses = s.misses_since - t.misses_since
      BY <2>15, <2>16 DEF Later
    <2>18. Rollup(s, t).hits = t.hits - s.hits /\ Rollup(s, t).misses = t.misses - s.misses
      BY <2>11, <2>12, RollupFields DEF s, t
    <2>19. QED BY <2>11, <2>17, <2>18 DEF s, t, b
  <1>2. QED BY <1>1, HistoryInvariant, PTL

\* A roll-up from position i of the segment to the last sample.
LEMMA SegmentRollup ==
    ASSUME HistoryInv, history # <<>>, NEW i \in SegmentStart(history) .. Len(history)
    PROVE  LET n == Len(history)
               r == Rollup(history[i], history[n])
           IN  /\ i = n => r = Empty
               /\ i < n => /\ r.hits = history[n].hits - history[i].hits
                           /\ r.misses = history[n].misses - history[i].misses
                           /\ r.elapsed = history[i].age - history[n].age
  <1> DEFINE n == Len(history)
  <1>1. /\ n \in Nat /\ n # 0 /\ history \in Seq(AgedSample)
        /\ \A k \in 1 .. n : history[k] \in AgedSample
    BY HistoryFields DEF HistoryInv
  <1>2. SegmentStart(history) \in 1 .. n /\ i \in 1 .. n /\ n \in 1 .. n /\ n \in SegmentStart(history) .. n
    <2>1. SegmentStart(history) \in 1 .. n
      BY <1>1, SegmentIsClean
    <2>2. QED BY <1>1, <2>1
  <1>3. history[i] \in AgedSample /\ history[n] \in AgedSample
    BY <1>1, <1>2
  <1>4. i <= n => history[i].hits <= history[n].hits /\ history[i].misses <= history[n].misses
    BY <1>1, <1>2, SegmentIsClean
  <1>5. i < n => history[n].age < history[i].age
    BY <1>2 DEF HistoryInv, InOrder, Later
  <1>6. i = n => history[i].age <= history[n].age
    BY <1>3, SampleFields
  <1>7. i <= n
    BY <1>1
  <1> HIDE DEF n
  <1>8. i = n => Rollup(history[i], history[n]) = Empty
    BY <1>3, <1>6, RollupFields
  <1>9. i < n => LET r == Rollup(history[i], history[n])
                 IN  /\ r.hits = history[n].hits - history[i].hits
                     /\ r.misses = history[n].misses - history[i].misses
                     /\ r.elapsed = history[i].age - history[n].age
    BY <1>3, <1>4, <1>5, <1>7, RollupFields
  <1>10. QED BY <1>8, <1>9 DEF n

LEMMA Differences ==
    ASSUME NEW x \in Nat, NEW y \in Nat, NEW z \in Nat
    PROVE  /\ x <= y => z - y <= z - x /\ x - z <= y - z
           /\ x <= z => 0 <= z - x
  OBVIOUS

\* What begins earlier in the segment covers what begins later.
LEMMA EarlierCovers ==
    ASSUME HistoryInv, history # <<>>,
           NEW i \in SegmentStart(history) .. Len(history),
           NEW j \in SegmentStart(history) .. Len(history), i <= j
    PROVE  /\ Covers(Rollup(history[i], Last(history)), Rollup(history[j], Last(history)))
           /\ Covers(Rollup(history[i], Last(history)), Empty)
  <1> DEFINE n == Len(history)
             a == SegmentStart(history)
  <1>1. /\ n \in Nat /\ n # 0 /\ history \in Seq(AgedSample)
        /\ \A k \in 1 .. n : history[k] \in AgedSample
    BY HistoryFields DEF HistoryInv
  <1>2. a \in 1 .. n
    BY <1>1, SegmentIsClean
  <1>3. \A k, m \in a .. n :
           k <= m => history[k].hits <= history[m].hits /\ history[k].misses <= history[m].misses
    BY <1>1, SegmentIsClean
  <1> HIDE DEF n, a
  <1>4. i \in 1 .. n /\ j \in 1 .. n /\ n \in 1 .. n /\ i \in a .. n /\ j \in a .. n /\ n \in a .. n
    BY <1>1, <1>2 DEF n, a
  <1> DEFINE s == history[i]
             t == history[j]
             c == history[n]
  <1>5. s \in AgedSample /\ t \in AgedSample /\ c \in AgedSample
    BY <1>1, <1>4
  <1>6. /\ s.hits <= t.hits /\ s.misses <= t.misses /\ s.hits <= c.hits /\ s.misses <= c.misses
        /\ t.hits <= c.hits /\ t.misses <= c.misses
    <2>1. i <= n /\ j <= n
      BY <1>4
    <2>2. QED BY <1>3, <1>4, <2>1
  <1>7. i < j => t.age < s.age
    BY <1>4 DEF HistoryInv, InOrder, Later, n
  <1>8. /\ i < n => c.age < s.age
        /\ j < n => c.age < t.age
    BY <1>4 DEF HistoryInv, InOrder, Later, n
  <1>9. Last(history) = c
    BY DEF Last, n
  <1> DEFINE r == Rollup(s, c)
             q == Rollup(t, c)
  <1>10. /\ i = n => r = Empty
         /\ i < n => r.hits = c.hits - s.hits /\ r.misses = c.misses - s.misses /\ r.elapsed = s.age - c.age
    BY SegmentRollup DEF n
  <1>11. /\ j = n => q = Empty
         /\ j < n => q.hits = c.hits - t.hits /\ q.misses = c.misses - t.misses /\ q.elapsed = t.age - c.age
    BY SegmentRollup DEF n
  <1>12. (i = j => s = t) /\ (i = j => r = q)
    OBVIOUS
  <1>13. /\ s.age \in Nat /\ s.hits \in Nat /\ s.misses \in Nat
         /\ t.age \in Nat /\ t.hits \in Nat /\ t.misses \in Nat
         /\ c.age \in Nat /\ c.hits \in Nat /\ c.misses \in Nat
    BY <1>5, SampleFields
  <1>14. Empty.hits = 0 /\ Empty.misses = 0 /\ Empty.elapsed = 0
    BY DEF Empty
  <1> HIDE DEF s, t, c, r, q
  <1>15. Covers(r, Empty)
    <2>1. CASE i = n
      BY <1>10, <1>14, <2>1 DEF Covers
    <2>2. CASE i < n
      <3>1. r.hits = c.hits - s.hits /\ r.misses = c.misses - s.misses /\ r.elapsed = s.age - c.age
        BY <1>10, <2>2
      <3>2. c.age <= s.age
        BY <1>8, <1>13, <2>2
      <3>3. 0 <= c.hits - s.hits /\ 0 <= c.misses - s.misses /\ 0 <= s.age - c.age
        BY <1>6, <1>13, <3>2, Differences
      <3>4. QED BY <1>14, <3>1, <3>3 DEF Covers
    <2>3. QED BY <1>4, <2>1, <2>2
  <1>16. Covers(r, q)
    <2>1. CASE j = n
      BY <1>11, <1>15, <2>1
    <2>2. CASE j < n
      <3>1. i < n /\ t.age <= s.age
        BY <1>4, <1>7, <1>12, <1>13, <2>2
      <3>2. r.hits = c.hits - s.hits /\ r.misses = c.misses - s.misses /\ r.elapsed = s.age - c.age
        BY <1>10, <3>1
      <3>3. q.hits = c.hits - t.hits /\ q.misses = c.misses - t.misses /\ q.elapsed = t.age - c.age
        BY <1>11, <2>2
      <3>4. c.hits - t.hits <= c.hits - s.hits /\ c.misses - t.misses <= c.misses - s.misses
        BY <1>6, <1>13, Differences
      <3>5. t.age - c.age <= s.age - c.age
        BY <1>13, <3>1, Differences
      <3>6. QED BY <3>2, <3>3, <3>4, <3>5 DEF Covers
    <2>3. QED BY <1>4, <2>1, <2>2
  <1>17. QED BY <1>9, <1>15, <1>16 DEF r, q, s, t

\* A shorter period never shows more lookups than a longer one, nor the last scan
\* more than any, whatever the windows are (_dns_period_rollup,
\* _dns_last_scan_rollup).
THEOREM PeriodsAreNested == DnsSpec => []PeriodsNest
  <1>1. HistoryInv => PeriodsNest
    <2> SUFFICES ASSUME HistoryInv, history # <<>>
                 PROVE  /\ \A v, w \in Window : v <= w =>
                              Covers(PeriodRollup(history, w), PeriodRollup(history, v))
                        /\ \A w \in Window : Covers(PeriodRollup(history, w), LastScanRollup(history))
      BY DEF PeriodsNest
    <2> DEFINE n == Len(history)
               a == SegmentStart(history)
    <2>1. /\ n \in Nat /\ n # 0 /\ history \in Seq(AgedSample)
          /\ \A k \in 1 .. n : history[k] \in AgedSample
      BY HistoryFields DEF HistoryInv
    <2>2. a \in 1 .. n
      BY <2>1, SegmentIsClean
    <2>3. \A w \in Window : w \in Nat /\ w > 0
      BY TimeAssumption
    <2>4. \A w : /\ Baseline(history, w) \in a .. n
                 /\ Baseline(history, w) = a \/ history[Baseline(history, w)].age >= w
                 /\ \A i \in a .. n : history[i].age >= w => i <= Baseline(history, w)
      BY <2>1, BaselineInSegment
    <2>5. \A w : PeriodRollup(history, w) = Rollup(history[Baseline(history, w)], Last(history))
      BY DEF PeriodRollup
    <2>6. ASSUME NEW v \in Window, NEW w \in Window, v <= w
          PROVE  Covers(PeriodRollup(history, w), PeriodRollup(history, v))
      <3> DEFINE i == Baseline(history, w)
                 j == Baseline(history, v)
      <3>1. /\ i \in a .. n /\ j \in a .. n
            /\ i = a \/ history[i].age >= w
            /\ history[i].age >= v => i <= j
        BY <2>4
      <3>2. PeriodRollup(history, w) = Rollup(history[i], Last(history))
            /\ PeriodRollup(history, v) = Rollup(history[j], Last(history))
        BY <2>5
      <3> HIDE DEF i, j
      <3>3. i <= j
        <4>1. CASE i = a
          BY <2>2, <3>1, <4>1
        <4>2. CASE history[i].age >= w
          <5>1. i \in 1 .. n
            BY <2>2, <3>1
          <5>2. history[i].age \in Nat
            BY <2>1, <5>1, SampleFields
          <5>3. history[i].age >= v
            BY <2>3, <2>6, <4>2, <5>2
          <5>4. QED BY <3>1, <5>3
        <4>3. QED BY <3>1, <4>1, <4>2
      <3>4. QED BY <3>1, <3>2, <3>3, EarlierCovers
    <2>7. ASSUME NEW w \in Window
          PROVE  Covers(PeriodRollup(history, w), LastScanRollup(history))
      <3> DEFINE i == Baseline(history, w)
      <3>1. i \in a .. n /\ (i = a \/ history[i].age >= w)
        BY <2>4
      <3>2. PeriodRollup(history, w) = Rollup(history[i], Last(history))
        BY <2>5
      <3>3. \/ LastScanRollup(history) = Empty
            \/ n > a /\ LastScanRollup(history) = Rollup(history[n - 1], Last(history))
        <4>1. ~(n <= a) => n > a
          BY <2>1, <2>2
        <4>2. QED BY <4>1 DEF LastScanRollup
      <3> HIDE DEF i
      <3>4. CASE LastScanRollup(history) = Empty
        <4>1. Covers(Rollup(history[i], Last(history)), Empty)
          BY <3>1, EarlierCovers
        <4>2. QED BY <3>2, <3>4, <4>1
      <3>5. CASE n > a /\ LastScanRollup(history) = Rollup(history[n - 1], Last(history))
        <4>1. history[n].age = 0
          BY DEF HistoryInv
        <4>2. i # n
          <5>1. ASSUME i = n PROVE FALSE
            <6>1. history[n].age >= w
              BY <2>2, <3>1, <3>5, <5>1
            <6>2. QED BY <2>3, <4>1, <6>1
          <5>2. QED BY <5>1
        <4>3. n - 1 \in a .. n /\ i <= n - 1
          BY <2>1, <2>2, <3>1, <3>5, <4>2
        <4>4. Covers(Rollup(history[i], Last(history)), Rollup(history[n - 1], Last(history)))
          BY <3>1, <4>3, EarlierCovers
        <4>5. QED BY <3>2, <3>5, <4>4
      <3>6. QED BY <3>3, <3>4, <3>5
    <2>8. QED BY <2>6, <2>7
  <1>2. QED BY <1>1, HistoryInvariant, PTL
=============================================================================
