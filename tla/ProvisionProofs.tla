-------------------------- MODULE ProvisionProofs --------------------------
(***************************************************************************)
(* What the forms guarantee for any number of forms, hosts, keys and       *)
(* failures.                                                               *)
(***************************************************************************)
EXTENDS Provision, FiniteSetTheorems, TLAPS

(* Of a form whose current questions were all answered well so far, the   *)
(* hosts that are not still to ask have let Home Assistant in.            *)
AskedAndFine ==
    \A f \in Flow :
        flow[f].stage \in {"probe", "test", "detect", "confirm"} /\ flow[f].worst = "ok" =>
            \A h \in flow[f].hosts \ flow[f].left : <<h, flow[f].key>> \in answered

ReadyToSave ==
    \A f \in Flow : flow[f].stage \in {"detect", "confirm"} => flow[f].left = {} /\ flow[f].worst = "ok"

Inv == TypeOK /\ SavedHostsAnswered /\ AskedAndFine /\ ReadyToSave

-----------------------------------------------------------------------------
(* Operators *)

LEMMA WorstOk ==
    ASSUME NEW r \in Result, NEW s \in Result
    PROVE  Worst(r, s) \in Result /\ (Worst(r, s) = "ok" => r = "ok" /\ s = "ok")
BY DEF Worst, Result

LEMMA NoFormType == NoForm \in Form /\ NoForm.stage = "closed" /\ NoForm.append = {}
  <1>1. (CHOOSE k \in Key : TRUE) \in Key
    BY FlowAssumption
  <1>2. QED BY <1>1 DEF NoForm, Form, Stage, Result

\* A new round of questions, or the end of a form, concerns that form only.
LEMMA RoundType ==
    ASSUME NEW f \in Flow, flow \in [Flow -> Form], NEW stage \in Stage, NEW hosts \in SUBSET Host
    PROVE  /\ Round(f, stage, hosts) \in [Flow -> Form]
           /\ \A g \in Flow \ {f} : Round(f, stage, hosts)[g] = flow[g]
           /\ LET r == Round(f, stage, hosts)[f]
              IN  /\ r.stage = stage /\ r.left = hosts /\ r.append = {} /\ r.worst = "ok"
                  /\ r.hosts = flow[f].hosts /\ r.key = flow[f].key
  <1> DEFINE r == [flow[f] EXCEPT !.stage = stage, !.left = hosts, !.append = {}, !.worst = "ok"]
  <1>1. flow[f] \in Form /\ "ok" \in Result
    BY DEF Result
  <1>2. r \in Form
    BY <1>1 DEF Form
  <1>3. /\ r.stage = stage /\ r.left = hosts /\ r.append = {} /\ r.worst = "ok"
        /\ r.hosts = flow[f].hosts /\ r.key = flow[f].key
    BY <1>1 DEF Form
  <1> HIDE DEF r
  <1>4. Round(f, stage, hosts) = [flow EXCEPT ![f] = r]
    BY DEF Round, r
  <1>5. QED BY <1>2, <1>3, <1>4

LEMMA ClosedType ==
    ASSUME NEW f \in Flow, flow \in [Flow -> Form]
    PROVE  /\ Closed(f) \in [Flow -> Form]
           /\ \A g \in Flow \ {f} : Closed(f)[g] = flow[g]
           /\ Closed(f)[f] = NoForm
BY NoFormType DEF Closed

\* The hosts of a form that are not asked are in the entry, with its key.
LEMMA NotAsked ==
    ASSUME NEW hosts \in SUBSET Host, NEW key \in Key, NEW h \in hosts \ ToProbe(hosts, key)
    PROVE  entry # NoEntry /\ h \in entry.hosts /\ entry.key = key
BY DEF ToProbe

-----------------------------------------------------------------------------
(* Steps *)

\* A step that leaves the answers alone and puts one form into a stage where
\* nothing is claimed about its hosts, or where all are still to ask.
LEMMA OneFormChanges ==
    ASSUME Inv, NEW f \in Flow, TypeOK', entry' = entry, answered \subseteq answered',
           \A g \in Flow \ {f} : flow'[g] = flow[g],
           \/ flow'[f].stage \notin {"probe", "test", "detect", "confirm"}
           \/ flow'[f].stage = "test" /\ flow'[f].left = flow'[f].hosts
    PROVE  Inv'
  <1>1. SavedHostsAnswered'
    BY DEF Inv, SavedHostsAnswered
  <1>2. AskedAndFine'
    <2> SUFFICES ASSUME NEW g \in Flow, flow'[g].stage \in {"probe", "test", "detect", "confirm"}, flow'[g].worst = "ok",
                        NEW h \in flow'[g].hosts \ flow'[g].left
                 PROVE  <<h, flow'[g].key>> \in answered'
      BY DEF AskedAndFine
    <2>1. g # f
      OBVIOUS
    <2>2. QED
      BY <2>1 DEF Inv, AskedAndFine
  <1>3. ReadyToSave'
    BY DEF Inv, ReadyToSave
  <1>4. QED
    BY <1>1, <1>2, <1>3 DEF Inv

\* A form all of whose hosts have let Home Assistant in goes on to be saved.
LEMMA SavingKeepsInv ==
    ASSUME Inv, NEW f \in Flow, NEW stage \in {"detect", "confirm"}, flow' = Round(f, stage, {}),
           UNCHANGED <<entry, host, answered>>,
           \A h \in flow[f].hosts : <<h, flow[f].key>> \in answered
    PROVE  Inv'
  <1>0. flow \in [Flow -> Form] /\ answered' = answered /\ entry' = entry /\ stage \in Stage
    BY DEF Inv, TypeOK, Stage
  <1>1. /\ flow' \in [Flow -> Form] /\ \A g \in Flow \ {f} : flow'[g] = flow[g]
        /\ flow'[f].left = {} /\ flow'[f].append = {} /\ flow'[f].worst = "ok"
        /\ flow'[f].hosts = flow[f].hosts /\ flow'[f].key = flow[f].key
    BY <1>0, RoundType
  <1>2. TypeOK'
    BY <1>0, <1>1 DEF Inv, TypeOK, host
  <1>3. SavedHostsAnswered'
    BY <1>0 DEF Inv, SavedHostsAnswered
  <1>4. AskedAndFine' /\ ReadyToSave'
    BY <1>0, <1>1 DEF Inv, AskedAndFine, ReadyToSave
  <1>5. QED BY <1>2, <1>3, <1>4 DEF Inv

\* Such a form closes, with what it holds in the entry.
LEMMA SavedKeepsInv ==
    ASSUME Inv, NEW f \in Flow, flow[f].stage \in {"detect", "confirm"}, flow' = Closed(f),
           Save(flow[f].hosts, flow[f].key), UNCHANGED <<host, answered>>
    PROVE  Inv'
  <1>0. TypeOK /\ flow \in [Flow -> Form] /\ flow[f].hosts \in SUBSET Host /\ flow[f].key \in Key
    BY DEF Inv, TypeOK, Form
  <1>1. /\ flow' \in [Flow -> Form] /\ \A g \in Flow \ {f} : flow'[g] = flow[g]
        /\ flow'[f].stage = "closed" /\ flow'[f].append = {}
    BY <1>0, ClosedType, NoFormType
  <1>2. entry' = [hosts |-> flow[f].hosts, key |-> flow[f].key] /\ answered' = answered
    BY DEF Save
  <1>3. \A h \in flow[f].hosts : <<h, flow[f].key>> \in answered
    BY DEF Inv, AskedAndFine, ReadyToSave
  <1>4. TypeOK'
    BY <1>0, <1>1, <1>2 DEF TypeOK, host
  <1>5. SavedHostsAnswered'
    BY <1>2, <1>3 DEF SavedHostsAnswered
  <1>6. AskedAndFine' /\ ReadyToSave'
    BY <1>1, <1>2 DEF Inv, AskedAndFine, ReadyToSave
  <1>7. QED BY <1>4, <1>5, <1>6 DEF Inv

LEMMA SubmitKeepsInv ==
    ASSUME Inv, NEW f \in Flow, Submit(f)
    PROVE  Inv'
  <1>0. flow \in [Flow -> Form] /\ TypeOK
    BY DEF Inv, TypeOK
  <1>1. PICK hosts \in (SUBSET Host) \ {{}}, key \in Key :
          /\ flow' = [flow EXCEPT ![f] =
                [stage |-> "probe", new |-> entry = NoEntry, hosts |-> hosts, key |-> key,
                 left |-> ToProbe(hosts, key), append |-> {}, worst |-> "ok"]]
          /\ UNCHANGED <<entry, host, answered>>
    BY DEF Submit
  <1>2. \A h \in hosts \ ToProbe(hosts, key) : <<h, key>> \in answered
    BY NotAsked DEF Inv, SavedHostsAnswered
  <1> DEFINE form == [stage |-> "probe", new |-> entry = NoEntry, hosts |-> hosts, key |-> key,
                      left |-> ToProbe(hosts, key), append |-> {}, worst |-> "ok"]
  <1>3. flow' = [flow EXCEPT ![f] = form] /\ entry' = entry /\ answered' = answered
    BY <1>1
  <1>4. (entry = NoEntry) \in BOOLEAN
    OBVIOUS
  <1>5. form \in Form
    BY <1>4 DEF Form, Stage, Result, ToProbe
  <1>6. /\ form.stage = "probe" /\ form.hosts = hosts /\ form.key = key
        /\ form.left = ToProbe(hosts, key) /\ form.append = {}
    OBVIOUS
  <1> HIDE DEF form
  <1>7. /\ flow' \in [Flow -> Form] /\ flow'[f] = form
        /\ \A g \in Flow \ {f} : flow'[g] = flow[g]
    BY <1>0, <1>3, <1>5
  <1>8. TypeOK'
    BY <1>0, <1>1, <1>3, <1>6, <1>7 DEF TypeOK, host
  <1>9. AskedAndFine'
    BY <1>2, <1>3, <1>6, <1>7 DEF Inv, AskedAndFine
  <1>10. SavedHostsAnswered' /\ ReadyToSave'
    BY <1>3, <1>6, <1>7 DEF Inv, SavedHostsAnswered, ReadyToSave
  <1>11. QED BY <1>8, <1>9, <1>10 DEF Inv

LEMMA TestKeepsInv ==
    ASSUME Inv, NEW f \in Flow, NEW h \in Host, TestSsh(f, h)
    PROVE  Inv'
  <1>0. TypeOK /\ flow \in [Flow -> Form] /\ flow[f] \in Form
    BY DEF Inv, TypeOK
  <1>1. PICK r \in Result :
          /\ flow' = [flow EXCEPT ![f].left = @ \ {h}, ![f].worst = Worst(@, r)]
          /\ answered' = IF r = "ok" THEN answered \cup {<<h, flow[f].key>>} ELSE answered
          /\ faults' \in 0 .. Faults
          /\ UNCHANGED <<entry, alive, copies, glued, newline>>
          /\ flow[f].stage \in {"probe", "test"}
    <2>1. CASE /\ flow' = [flow EXCEPT ![f].left = @ \ {h}, ![f].worst = Worst(@, TestResult(h, flow[f].key))]
               /\ answered' = IF TestResult(h, flow[f].key) = "ok" THEN answered \cup {<<h, flow[f].key>>}
                              ELSE answered
               /\ UNCHANGED faults
      <3>1. TestResult(h, flow[f].key) \in Result
        BY DEF TestResult, Result
      <3>2. faults' \in 0 .. Faults
        BY <1>0, <2>1 DEF TypeOK
      <3>3. QED BY <2>1, <3>1, <3>2 DEF TestSsh
    <2>2. CASE /\ faults < Faults /\ faults' = faults + 1
               /\ flow' = [flow EXCEPT ![f].left = @ \ {h}, ![f].worst = "cannot_connect"]
               /\ UNCHANGED answered
      <3>1. Worst(flow[f].worst, "cannot_connect") = "cannot_connect"
        BY DEF Worst
      <3>2. flow' = [flow EXCEPT ![f].left = @ \ {h}, ![f].worst = Worst(@, "cannot_connect")]
        BY <1>0, <2>2, <3>1
      <3>3. faults' \in 0 .. Faults
        BY <1>0, <2>2, FaultsAssumption DEF TypeOK
      <3>4. "cannot_connect" \in Result /\ "cannot_connect" # "ok"
        BY DEF Result
      <3>5. QED BY <2>2, <3>2, <3>3, <3>4 DEF TestSsh
    <2>3. QED BY <2>1, <2>2 DEF TestSsh
  <1>2. Worst(flow[f].worst, r) \in Result
        /\ (Worst(flow[f].worst, r) = "ok" => flow[f].worst = "ok" /\ r = "ok")
    BY <1>0, WorstOk DEF Form
  <1>3. /\ flow' \in [Flow -> Form] /\ \A g \in Flow \ {f} : flow'[g] = flow[g]
        /\ flow'[f].left = flow[f].left \ {h} /\ flow'[f].worst = Worst(flow[f].worst, r)
        /\ flow'[f].stage = flow[f].stage /\ flow'[f].append = flow[f].append
        /\ flow'[f].hosts = flow[f].hosts /\ flow'[f].key = flow[f].key
    BY <1>0, <1>1, <1>2 DEF Form
  <1>4. answered \subseteq answered' /\ (r = "ok" => <<h, flow[f].key>> \in answered')
        /\ answered' \subseteq Host \X Key
    BY <1>0, <1>1 DEF TypeOK, Form
  <1>5. TypeOK'
    BY <1>0, <1>1, <1>3, <1>4 DEF TypeOK
  <1>6. SavedHostsAnswered'
    BY <1>1, <1>4 DEF Inv, SavedHostsAnswered
  <1>7. AskedAndFine'
    <2> SUFFICES ASSUME NEW g \in Flow, flow'[g].stage \in {"probe", "test", "detect", "confirm"}, flow'[g].worst = "ok",
                        NEW i \in flow'[g].hosts \ flow'[g].left
                 PROVE  <<i, flow'[g].key>> \in answered'
      BY DEF AskedAndFine
    <2>1. CASE g # f
      BY <1>3, <1>4, <2>1 DEF Inv, AskedAndFine
    <2>2. CASE g = f /\ i = h
      BY <1>2, <1>3, <1>4, <2>2
    <2>3. CASE g = f /\ i # h
      BY <1>2, <1>3, <1>4, <2>3 DEF Inv, AskedAndFine
    <2>4. QED BY <2>1, <2>2, <2>3
  <1>8. ReadyToSave'
    BY <1>1, <1>3 DEF Inv, ReadyToSave
  <1>9. QED BY <1>5, <1>6, <1>7, <1>8 DEF Inv

\* A round starts: its form's stage is one of those without claims, or all
\* hosts of the form are to be tested.
LEMMA RoundKeepsInv ==
    ASSUME Inv, NEW f \in Flow, NEW stage \in {"password", "provision", "test"},
           NEW hosts \in SUBSET Host, flow' = Round(f, stage, hosts),
           stage = "test" => hosts = flow[f].hosts,
           UNCHANGED <<entry, host, answered>>
    PROVE  Inv'
  <1>0. TypeOK /\ flow \in [Flow -> Form] /\ stage \in Stage
    BY DEF Inv, TypeOK, Stage
  <1>1. /\ flow' \in [Flow -> Form] /\ \A g \in Flow \ {f} : flow'[g] = flow[g]
        /\ flow'[f].stage = stage /\ flow'[f].left = hosts /\ flow'[f].append = {}
        /\ flow'[f].hosts = flow[f].hosts
    BY <1>0, RoundType
  <1>2. TypeOK'
    BY <1>0, <1>1 DEF TypeOK, host
  <1>3. QED
    BY <1>1, <1>2, OneFormChanges

LEMMA ProbedKeepsInv ==
    ASSUME Inv, NEW f \in Flow, Probed(f)
    PROVE  Inv'
  <1>0. flow[f].worst \in Result /\ flow \in [Flow -> Form] /\ TypeOK
    BY DEF Inv, TypeOK, Form
  <1>1. CASE flow[f].worst = "ok"
    <2>1. NextStage(flow[f].worst) = "accept"
      BY <1>1 DEF NextStage
    <2>2. flow' = Round(f, "detect", {}) /\ UNCHANGED <<entry, host, answered>>
      BY <2>1 DEF Probed, Accept
    <2>3. \A h \in flow[f].hosts : <<h, flow[f].key>> \in answered
      BY <1>1 DEF Probed, Inv, AskedAndFine
    <2>4. QED BY <2>2, <2>3, SavingKeepsInv
  <1>2. CASE flow[f].worst = "auth_failed"
    <2>1. NextStage(flow[f].worst) = "password"
      BY <1>2 DEF NextStage
    <2>2. flow' = Round(f, "password", {}) /\ UNCHANGED <<entry, host, answered>>
      BY <2>1 DEF Probed
    <2>3. QED BY <2>2, RoundKeepsInv
  <1>3. CASE flow[f].worst = "cannot_connect"
    <2>1. NextStage(flow[f].worst) = "closed"
      BY <1>3 DEF NextStage
    <2>2. flow' = Closed(f) /\ UNCHANGED <<entry, host, answered>>
      BY <2>1 DEF Probed
    <2>3. /\ flow' \in [Flow -> Form] /\ \A g \in Flow \ {f} : flow'[g] = flow[g]
          /\ flow'[f].stage = "closed" /\ flow'[f].append = {}
      BY <1>0, <2>2, ClosedType, NoFormType
    <2>4. TypeOK'
      BY <1>0, <2>2, <2>3 DEF TypeOK, host
    <2>5. QED BY <2>2, <2>3, <2>4, OneFormChanges
  <1>4. QED BY <1>0, <1>1, <1>2, <1>3 DEF Result

LEMMA ReadKeepsInv ==
    ASSUME Inv, NEW f \in Flow, NEW h \in Host, ReadKeys(f, h)
    PROVE  Inv'
  <1>0. TypeOK /\ flow \in [Flow -> Form] /\ flow[f] \in Form
    BY DEF Inv, TypeOK
  <1>1. PICK append \in SUBSET Host, worst \in Result :
          flow' = [flow EXCEPT ![f].left = @ \ {h}, ![f].append = append, ![f].worst = worst]
    <2>1. CASE flow' = [flow EXCEPT ![f].left = @ \ {h}, ![f].worst = "cannot_connect"]
      <3>1. flow' = [flow EXCEPT ![f].left = @ \ {h}, ![f].append = flow[f].append, ![f].worst = "cannot_connect"]
        BY <1>0, <2>1 DEF Form
      <3>2. QED BY <1>0, <3>1 DEF Form, Result
    <2>2. CASE flow' = [flow EXCEPT ![f].left = @ \ {h},
                                    ![f].append = IF Present(h, flow[f].key) THEN @ ELSE @ \cup {h},
                                    ![f].worst = Worst(@, ReadResult(Present(h, flow[f].key)))]
      <3> DEFINE a == IF Present(h, flow[f].key) THEN flow[f].append ELSE flow[f].append \cup {h}
                 w == Worst(flow[f].worst, ReadResult(Present(h, flow[f].key)))
      <3>1. flow' = [flow EXCEPT ![f].left = @ \ {h}, ![f].append = a, ![f].worst = w]
        BY <1>0, <2>2
      <3>2. a \in SUBSET Host
        BY <1>0 DEF Form
      <3>3. w \in Result
        BY <1>0, WorstOk DEF Form, ReadResult, Result
      <3>4. QED BY <3>1, <3>2, <3>3
    <2>3. QED BY <2>1, <2>2 DEF ReadKeys
  <1>2. /\ flow' \in [Flow -> Form] /\ \A g \in Flow \ {f} : flow'[g] = flow[g]
        /\ flow'[f].stage = flow[f].stage
    BY <1>0, <1>1 DEF Form
  <1>3. faults' \in 0 .. Faults
    BY <1>0, FaultsAssumption DEF ReadKeys, TypeOK
  <1>4. flow[f].stage = "provision" /\ UNCHANGED <<entry, alive, copies, glued, newline, answered>>
    BY DEF ReadKeys
  <1>5. TypeOK'
    BY <1>0, <1>2, <1>3, <1>4 DEF TypeOK
  <1>6. QED
    BY <1>2, <1>4, <1>5, OneFormChanges

LEMMA AppendKeepsInv ==
    ASSUME Inv, NEW f \in Flow, NEW h \in Host, AppendKey(f, h)
    PROVE  Inv'
  <1>0. TypeOK /\ flow \in [Flow -> Form] /\ flow[f] \in Form
    BY DEF Inv, TypeOK
  <1>1. PICK worst \in Result :
          flow' = [flow EXCEPT ![f].append = @ \ {h}, ![f].worst = worst]
    <2>1. CASE flow' = [flow EXCEPT ![f].append = @ \ {h}]
      <3>1. flow' = [flow EXCEPT ![f].append = @ \ {h}, ![f].worst = flow[f].worst]
        BY <1>0, <2>1 DEF Form
      <3>2. QED BY <1>0, <3>1 DEF Form
    <2>2. CASE flow' = [flow EXCEPT ![f].append = @ \ {h}, ![f].worst = "cannot_connect"]
      BY <2>2 DEF Result
    <2>3. QED BY <2>1, <2>2 DEF AppendKey
  <1>2. /\ flow' \in [Flow -> Form] /\ \A g \in Flow \ {f} : flow'[g] = flow[g]
        /\ flow'[f].stage = flow[f].stage
    BY <1>0, <1>1 DEF Form
  <1>3. faults' \in 0 .. Faults
    BY <1>0, FaultsAssumption DEF AppendKey, TypeOK
  <1>4. /\ copies' \in [Host -> [Key -> Nat]] /\ glued' \in [Host -> SUBSET Key] /\ newline' \in [Host -> BOOLEAN]
        /\ \A i \in Host : glued'[i] # {} => newline'[i]
    <2>1. CASE UNCHANGED <<copies, glued, newline>>
      BY <1>0, <2>1 DEF TypeOK
    <2>2. CASE Appended(h, flow[f].key)
      <3>1. flow[f].key \in Key
        BY <1>0 DEF Form
      <3>2. CASE newline[h]
        <4>1. copies' = [copies EXCEPT ![h][flow[f].key] = @ + 1] /\ glued' = glued /\ newline' = newline
          BY <2>2, <3>2 DEF Appended
        <4>2. copies' \in [Host -> [Key -> Nat]]
          BY <1>0, <3>1, <4>1 DEF TypeOK
        <4>3. QED BY <1>0, <4>1, <4>2 DEF TypeOK
      <3>3. CASE ~newline[h]
        <4>1. /\ glued' = [glued EXCEPT ![h] = @ \cup {flow[f].key}]
              /\ newline' = [newline EXCEPT ![h] = TRUE] /\ copies' = copies
          BY <2>2, <3>3 DEF Appended
        <4>2. glued' \in [Host -> SUBSET Key]
          BY <1>0, <3>1, <4>1 DEF TypeOK
        <4>3. newline' \in [Host -> BOOLEAN] /\ newline'[h] /\ \A i \in Host \ {h} : newline'[i] = newline[i]
          BY <1>0, <4>1 DEF TypeOK
        <4>4. \A i \in Host \ {h} : glued'[i] = glued[i]
          BY <1>0, <4>1 DEF TypeOK
        <4>5. \A i \in Host : glued'[i] # {} => newline'[i]
          BY <1>0, <4>3, <4>4 DEF TypeOK
        <4>6. QED BY <1>0, <4>1, <4>2, <4>3, <4>5 DEF TypeOK
      <3>4. QED BY <3>2, <3>3
    <2>3. QED BY <2>1, <2>2 DEF AppendKey
  <1>5. flow[f].stage = "provision" /\ UNCHANGED <<entry, alive, answered>>
    BY DEF AppendKey
  <1>6. TypeOK'
    BY <1>0, <1>2, <1>3, <1>4, <1>5 DEF TypeOK
  <1>7. QED
    BY <1>2, <1>5, <1>6, OneFormChanges

LEMMA EndOfRoundKeepsInv ==
    ASSUME Inv, NEW f \in Flow, Provisioned(f) \/ Tested(f) \/ Password(f)
    PROVE  Inv'
  <1>0. flow[f].worst \in Result /\ flow[f].hosts \in SUBSET Host
    BY DEF Inv, TypeOK, Form
  <1>1. CASE Provisioned(f)
    <2>1. CASE flow[f].worst = "ok"
      <3>1. AfterProvision(flow[f].worst) = "test"
        BY <2>1 DEF AfterProvision
      <3>2. flow' = Round(f, "test", flow[f].hosts) /\ UNCHANGED <<entry, host, answered>>
        BY <1>1, <3>1 DEF Provisioned
      <3>3. QED BY <1>0, <3>2, RoundKeepsInv
    <2>2. CASE flow[f].worst # "ok"
      <3>1. AfterProvision(flow[f].worst) = "password"
        BY <2>2 DEF AfterProvision
      <3>2. flow' = Round(f, "password", {}) /\ UNCHANGED <<entry, host, answered>>
        BY <1>1, <3>1 DEF Provisioned
      <3>3. QED BY <3>2, RoundKeepsInv
    <2>3. QED BY <2>1, <2>2
  <1>2. CASE Tested(f)
    <2>1. CASE flow[f].worst = "ok"
      <3>1. flow' = Round(f, "detect", {}) /\ UNCHANGED <<entry, host, answered>>
        BY <1>2, <2>1 DEF Tested, Accept
      <3>2. \A h \in flow[f].hosts : <<h, flow[f].key>> \in answered
        BY <1>2, <2>1 DEF Tested, Inv, AskedAndFine
      <3>3. QED BY <3>1, <3>2, SavingKeepsInv
    <2>2. CASE flow[f].worst # "ok"
      <3>1. flow' = Round(f, "password", {}) /\ UNCHANGED <<entry, host, answered>>
        BY <1>2, <2>2 DEF Tested
      <3>2. QED BY <3>1, RoundKeepsInv
    <2>3. QED BY <2>1, <2>2
  <1>3. CASE Password(f)
    <2>1. flow' = Round(f, "provision", flow[f].hosts) /\ UNCHANGED <<entry, host, answered>>
      BY <1>3 DEF Password
    <2>2. QED BY <1>0, <2>1, RoundKeepsInv
  <1>4. QED BY <1>1, <1>2, <1>3

LEMMA EndOfFormKeepsInv ==
    ASSUME Inv, NEW f \in Flow, Detected(f) \/ Confirm(f) \/ Cancel(f)
    PROVE  Inv'
  <1>0. TypeOK /\ flow \in [Flow -> Form] /\ UNCHANGED <<host, answered>>
    BY DEF Inv, TypeOK, Detected, Confirm, Cancel
  <1>1. CASE Detected(f) /\ flow[f].new
    <2>1. flow' = Round(f, "confirm", {}) /\ UNCHANGED entry
      BY <1>1 DEF Detected
    <2>2. \A h \in flow[f].hosts : <<h, flow[f].key>> \in answered
      BY <1>1 DEF Detected, Inv, AskedAndFine, ReadyToSave
    <2>3. QED BY <1>0, <2>1, <2>2, SavingKeepsInv
  <1>2. CASE Confirm(f) \/ (Detected(f) /\ ~flow[f].new)
    <2>1. flow[f].stage \in {"detect", "confirm"} /\ flow' = Closed(f) /\ Save(flow[f].hosts, flow[f].key)
      BY <1>2 DEF Confirm, Detected
    <2>2. QED BY <1>0, <2>1, SavedKeepsInv
  <1>3. CASE Cancel(f)
    <2>1. flow' = Closed(f) /\ entry' = entry
      BY <1>3 DEF Cancel
    <2>2. /\ flow' \in [Flow -> Form] /\ \A g \in Flow \ {f} : flow'[g] = flow[g]
          /\ flow'[f].stage = "closed" /\ flow'[f].append = {}
      BY <1>0, <2>1, ClosedType, NoFormType
    <2>3. TypeOK'
      BY <1>0, <2>1, <2>2 DEF TypeOK, host
    <2>4. QED BY <1>0, <2>1, <2>2, <2>3, OneFormChanges
  <1>4. QED BY <1>1, <1>2, <1>3

LEMMA HostsKeepInv ==
    ASSUME Inv, NEW h \in Host, Die(h) \/ Recover(h)
    PROVE  Inv'
  <1>1. /\ UNCHANGED <<entry, flow, copies, glued, newline, answered>>
        /\ alive' \subseteq Host /\ faults' \in 0 .. Faults
    BY FaultsAssumption DEF Die, Recover, Inv, TypeOK
  <1>2. TypeOK'
    BY <1>1 DEF Inv, TypeOK
  <1>3. SavedHostsAnswered' /\ AskedAndFine' /\ ReadyToSave'
    BY <1>1 DEF Inv, SavedHostsAnswered, AskedAndFine, ReadyToSave
  <1>4. QED BY <1>2, <1>3 DEF Inv

LEMMA InitInv == Init => Inv
  <1> SUFFICES ASSUME Init PROVE Inv
    OBVIOUS
  <1>1. \A f \in Flow : flow[f] \in Form /\ flow[f].stage = "closed" /\ flow[f].append = {}
    BY NoFormType DEF Init
  <1>2. copies \in [Host -> [Key -> Nat]]
    BY DEF Init
  <1>3. TypeOK
    BY <1>1, <1>2, FaultsAssumption DEF Init, TypeOK
  <1>4. SavedHostsAnswered /\ AskedAndFine /\ ReadyToSave
    BY <1>1 DEF Init, SavedHostsAnswered, AskedAndFine, ReadyToSave
  <1>5. QED BY <1>3, <1>4 DEF Inv

-----------------------------------------------------------------------------

\* The inductive invariant.
THEOREM FormsInvariant == Spec => []Inv
  <1>1. Inv /\ [Next]_vars => Inv'
    <2> SUFFICES ASSUME Inv, [Next]_vars PROVE Inv'
      OBVIOUS
    <2>1. ASSUME NEW f \in Flow, Submit(f) \/ FlowStep(f) \/ Cancel(f) PROVE Inv'
      <3>1. CASE Submit(f)
        BY <3>1, SubmitKeepsInv
      <3>2. CASE Probed(f)
        BY <3>2, ProbedKeepsInv
      <3>3. CASE Provisioned(f) \/ Tested(f) \/ Password(f)
        BY <3>3, EndOfRoundKeepsInv
      <3>4. CASE Detected(f) \/ Confirm(f) \/ Cancel(f)
        BY <3>4, EndOfFormKeepsInv
      <3>5. ASSUME NEW h \in Host, TestSsh(f, h) \/ ReadKeys(f, h) \/ AppendKey(f, h) PROVE Inv'
        BY <3>5, TestKeepsInv, ReadKeepsInv, AppendKeepsInv
      <3>6. QED
        BY <2>1, <3>1, <3>2, <3>3, <3>4, <3>5 DEF FlowStep
    <2>2. ASSUME NEW h \in Host, Die(h) \/ Recover(h) PROVE Inv'
      BY <2>2, HostsKeepInv
    <2>3. CASE UNCHANGED vars
      BY <2>3 DEF vars, host, Inv, TypeOK, SavedHostsAnswered, AskedAndFine, ReadyToSave
    <2>4. QED
      BY <2>1, <2>2, <2>3 DEF Next
  <1>2. QED
    BY <1>1, InitInv, PTL DEF Spec

\* The forms and files have the values the code gives them.
THEOREM FormsTypeOK == Spec => []TypeOK
  <1>1. Inv => TypeOK
    BY DEF Inv
  <1>2. QED
    BY <1>1, FormsInvariant, PTL

\* Every host that is saved has let Home Assistant in with the saved key
\* (_probe_options_hosts, _run_provision), with any number of forms and keys.
THEOREM SavedHostsHaveAnswered == Spec => []SavedHostsAnswered
  <1>1. Inv => SavedHostsAnswered
    BY DEF Inv
  <1>2. QED
    BY <1>1, FormsInvariant, PTL

-----------------------------------------------------------------------------
(* How often the key is appended *)

(* Forms that have not found the key on a host and not appended it yet.   *)
Pending(h, k) == {f \in Flow : h \in flow[f].append /\ flow[f].key = k}

(* KeyNotRepeated is not inductive: the lines still to come count too.    *)
CopiesBounded ==
    \A h \in Host, k \in Key : copies[h][k] + Cardinality(Pending(h, k)) <= Cardinality(Flow)

LEMMA PendingFinite ==
    ASSUME NEW h \in Host, NEW k \in Key
    PROVE  /\ IsFiniteSet(Pending(h, k)) /\ Cardinality(Pending(h, k)) \in Nat
           /\ Cardinality(Pending(h, k)) <= Cardinality(Flow) /\ Cardinality(Flow) \in Nat
  <1>1. Pending(h, k) \subseteq Flow /\ IsFiniteSet(Flow)
    BY FlowAssumption DEF Pending
  <1>2. QED BY <1>1, FS_Subset, FS_CardinalityType

\* Forms that append nowhere new leave the bound alone.
LEMMA NoNewPending ==
    ASSUME TypeOK, CopiesBounded, NEW f \in Flow, copies' = copies,
           \A g \in Flow \ {f} : flow'[g] = flow[g],
           flow'[f].append \subseteq flow[f].append,
           flow'[f].append # {} => flow'[f].key = flow[f].key
    PROVE  CopiesBounded'
  <1> SUFFICES ASSUME NEW h \in Host, NEW k \in Key
               PROVE  copies[h][k] + Cardinality(Pending(h, k)') <= Cardinality(Flow)
    BY DEF CopiesBounded
  <1>1. Pending(h, k)' \subseteq Pending(h, k)
    BY DEF Pending
  <1>2. Cardinality(Pending(h, k)') <= Cardinality(Pending(h, k)) /\ Cardinality(Pending(h, k)') \in Nat
    BY <1>1, PendingFinite, FS_Subset, FS_CardinalityType
  <1>3. copies[h][k] \in Nat /\ copies[h][k] + Cardinality(Pending(h, k)) <= Cardinality(Flow)
    BY DEF TypeOK, CopiesBounded
  <1>4. QED BY <1>2, <1>3, PendingFinite

\* A form that does not find the key on a host is the first to see it missing,
\* or one of several that did: no line has been appended yet.
LEMMA ReadBounded ==
    ASSUME TypeOK, CopiesBounded, NEW f \in Flow, NEW h \in Host, ReadKeys(f, h)
    PROVE  CopiesBounded'
  <1>0. flow \in [Flow -> Form] /\ flow[f] \in Form /\ copies' = copies
    BY DEF TypeOK, ReadKeys
  <1>1. /\ \A g \in Flow \ {f} : flow'[g] = flow[g]
        /\ flow'[f].key = flow[f].key
        /\ \/ flow'[f].append = flow[f].append
           \/ ~Present(h, flow[f].key) /\ flow'[f].append = flow[f].append \cup {h}
    <2>1. CASE flow' = [flow EXCEPT ![f].left = @ \ {h}, ![f].worst = "cannot_connect"]
      BY <1>0, <2>1 DEF Form
    <2>2. CASE flow' = [flow EXCEPT ![f].left = @ \ {h},
                                    ![f].append = IF Present(h, flow[f].key) THEN @ ELSE @ \cup {h},
                                    ![f].worst = Worst(@, ReadResult(Present(h, flow[f].key)))]
      BY <1>0, <2>2 DEF Form
    <2>3. QED BY <2>1, <2>2 DEF ReadKeys
  <1>2. CASE flow'[f].append = flow[f].append
    BY <1>0, <1>1, <1>2, NoNewPending
  <1>3. CASE ~Present(h, flow[f].key) /\ flow'[f].append = flow[f].append \cup {h}
    <2> SUFFICES ASSUME NEW i \in Host, NEW k \in Key
                 PROVE  copies[i][k] + Cardinality(Pending(i, k)') <= Cardinality(Flow)
      BY <1>0 DEF CopiesBounded
    <2>1. CASE i = h /\ k = flow[f].key
      <3>1. copies[i][k] = 0
        BY <1>3, <2>1 DEF Present, TypeOK
      <3>2. Pending(i, k)' \subseteq Flow /\ IsFiniteSet(Flow)
        BY FlowAssumption DEF Pending
      <3>3. QED BY <3>1, <3>2, FS_Subset, FS_CardinalityType
    <2>2. CASE ~(i = h /\ k = flow[f].key)
      <3>1. Pending(i, k)' = Pending(i, k)
        BY <1>1, <1>3, <2>2 DEF Pending
      <3>2. QED BY <3>1 DEF CopiesBounded
    <2>3. QED BY <2>1, <2>2
  <1>4. QED BY <1>1, <1>2, <1>3

\* Every line that is appended was pending before.
LEMMA AppendBounded ==
    ASSUME TypeOK, CopiesBounded, NEW f \in Flow, NEW h \in Host, AppendKey(f, h)
    PROVE  CopiesBounded'
  <1>0. flow \in [Flow -> Form] /\ flow[f] \in Form /\ h \in flow[f].append /\ flow[f].key \in Key
    BY DEF TypeOK, AppendKey, Form
  <1>1. /\ \A g \in Flow \ {f} : flow'[g] = flow[g]
        /\ flow'[f].key = flow[f].key /\ flow'[f].append = flow[f].append \ {h}
    <2>1. CASE flow' = [flow EXCEPT ![f].append = @ \ {h}]
      BY <1>0, <2>1 DEF Form
    <2>2. CASE flow' = [flow EXCEPT ![f].append = @ \ {h}, ![f].worst = "cannot_connect"]
      BY <1>0, <2>2 DEF Form
    <2>3. QED BY <2>1, <2>2 DEF AppendKey
  <1>2. CASE copies' = copies
    BY <1>0, <1>1, <1>2, NoNewPending
  <1>3. CASE copies' = [copies EXCEPT ![h][flow[f].key] = @ + 1]
    <2> SUFFICES ASSUME NEW i \in Host, NEW k \in Key
                 PROVE  copies'[i][k] + Cardinality(Pending(i, k)') <= Cardinality(Flow)
      BY DEF CopiesBounded
    <2>0. copies[i][k] \in Nat /\ copies[i][k] + Cardinality(Pending(i, k)) <= Cardinality(Flow)
      BY DEF TypeOK, CopiesBounded
    <2>1. CASE i = h /\ k = flow[f].key
      <3>1. f \in Pending(i, k) /\ Pending(i, k)' = Pending(i, k) \ {f}
        BY <1>0, <1>1, <2>1 DEF Pending
      <3>2. Cardinality(Pending(i, k)') = Cardinality(Pending(i, k)) - 1
        BY <3>1, PendingFinite, FS_RemoveElement
      <3>3. copies'[i][k] = copies[i][k] + 1
        BY <1>0, <1>3, <2>1 DEF TypeOK
      <3>4. QED BY <2>0, <3>2, <3>3, PendingFinite
    <2>2. CASE ~(i = h /\ k = flow[f].key)
      <3>1. Pending(i, k)' = Pending(i, k)
        BY <1>0, <1>1, <2>2 DEF Pending
      <3>2. copies'[i][k] = copies[i][k]
        BY <1>0, <1>3, <2>2 DEF TypeOK
      <3>3. QED BY <2>0, <3>1, <3>2
    <2>3. QED BY <2>1, <2>2
  <1>4. QED BY <1>2, <1>3 DEF AppendKey, Appended

\* Nothing is appended in any other step of a form.
LEMMA OthersBounded ==
    ASSUME TypeOK, CopiesBounded, NEW f \in Flow,
           \/ Submit(f) \/ Probed(f) \/ Password(f) \/ Provisioned(f) \/ Tested(f)
           \/ Detected(f) \/ Confirm(f) \/ Cancel(f) \/ \E h \in Host : TestSsh(f, h)
    PROVE  CopiesBounded'
  <1>0. flow \in [Flow -> Form] /\ flow[f].hosts \in SUBSET Host
    BY DEF TypeOK, Form
  <1>1. ASSUME NEW stage \in Stage, NEW hosts \in SUBSET Host, flow' = Round(f, stage, hosts), copies' = copies
        PROVE  CopiesBounded'
    BY <1>0, <1>1, RoundType, NoNewPending
  <1>2. ASSUME flow' = Closed(f), copies' = copies
        PROVE  CopiesBounded'
    BY <1>0, <1>2, ClosedType, NoFormType, NoNewPending
  <1>3. CASE Submit(f)
    <2>1. PICK hosts \in (SUBSET Host) \ {{}}, key \in Key :
            /\ flow' = [flow EXCEPT ![f] =
                  [stage |-> "probe", new |-> entry = NoEntry, hosts |-> hosts, key |-> key,
                   left |-> ToProbe(hosts, key), append |-> {}, worst |-> "ok"]]
            /\ UNCHANGED <<entry, host, answered>>
      BY <1>3 DEF Submit
    <2>2. (\A g \in Flow \ {f} : flow'[g] = flow[g]) /\ flow'[f].append = {} /\ copies' = copies
      BY <1>0, <2>1 DEF host
    <2>3. QED BY <2>2, NoNewPending
  <1>4. CASE \E h \in Host : TestSsh(f, h)
    <2>1. /\ \A g \in Flow \ {f} : flow'[g] = flow[g]
          /\ flow'[f].append = flow[f].append /\ flow'[f].key = flow[f].key /\ copies' = copies
      BY <1>0, <1>4 DEF TestSsh, Form
    <2>2. QED BY <2>1, NoNewPending
  <1>5. CASE Cancel(f) \/ Confirm(f)
    BY <1>2, <1>5 DEF Cancel, Confirm, host
  <1>6. CASE Detected(f)
    <2>1. flow' = Round(f, "confirm", {}) \/ flow' = Closed(f)
      BY <1>6 DEF Detected
    <2>2. "confirm" \in Stage /\ copies' = copies
      BY <1>6 DEF Detected, host, Stage
    <2>3. QED BY <1>1, <1>2, <2>1, <2>2
  <1>7. CASE Password(f)
    <2>1. flow' = Round(f, "provision", flow[f].hosts) /\ "provision" \in Stage /\ copies' = copies
      BY <1>7 DEF Password, host, Stage
    <2>2. QED BY <1>0, <1>1, <2>1
  <1>8. CASE Tested(f)
    <2>1. flow' = Round(f, "detect", {}) \/ flow' = Round(f, "password", {})
      BY <1>8 DEF Tested, Accept
    <2>2. "detect" \in Stage /\ "password" \in Stage /\ copies' = copies
      BY <1>8 DEF Tested, host, Stage
    <2>3. QED BY <1>1, <2>1, <2>2
  <1>9. CASE Provisioned(f)
    <2>1. flow' = Round(f, "test", flow[f].hosts) \/ flow' = Round(f, "password", {})
      <3>1. CASE flow[f].worst = "ok"
        <4>1. AfterProvision(flow[f].worst) = "test"
          BY <3>1 DEF AfterProvision
        <4>2. QED BY <1>9, <4>1 DEF Provisioned
      <3>2. CASE flow[f].worst # "ok"
        <4>1. AfterProvision(flow[f].worst) = "password"
          BY <3>2 DEF AfterProvision
        <4>2. QED BY <1>9, <4>1 DEF Provisioned
      <3>3. QED BY <3>1, <3>2
    <2>2. "test" \in Stage /\ "password" \in Stage /\ copies' = copies
      BY <1>9 DEF Provisioned, host, Stage
    <2>3. QED BY <1>0, <1>1, <2>1, <2>2
  <1>10. CASE Probed(f)
    <2>1. flow' = Round(f, "detect", {}) \/ flow' = Round(f, "password", {}) \/ flow' = Closed(f)
      <3>1. CASE NextStage(flow[f].worst) = "accept"
        BY <1>10, <3>1 DEF Probed, Accept
      <3>2. CASE NextStage(flow[f].worst) = "password"
        BY <1>10, <3>2 DEF Probed
      <3>3. CASE NextStage(flow[f].worst) # "accept" /\ NextStage(flow[f].worst) # "password"
        BY <1>10, <3>3 DEF Probed
      <3>4. QED BY <3>1, <3>2, <3>3
    <2>2. "detect" \in Stage /\ "password" \in Stage /\ copies' = copies
      BY <1>10 DEF Probed, host, Stage
    <2>3. QED BY <1>1, <1>2, <2>1, <2>2
  <1>11. QED BY <1>3, <1>4, <1>5, <1>6, <1>7, <1>8, <1>9, <1>10

\* However often users retry, and whichever connections fail after the host
\* has executed the command, the key is on a host at most once per form that
\* can be open at a time (_provision_ssh_key).
THEOREM KeyIsNotRepeated == Spec => []KeyNotRepeated
  <1>1. Init => CopiesBounded
    <2> SUFFICES ASSUME Init, NEW h \in Host, NEW k \in Key
                 PROVE  copies[h][k] + Cardinality(Pending(h, k)) <= Cardinality(Flow)
      BY DEF CopiesBounded
    <2>1. Pending(h, k) = {} /\ Cardinality(Pending(h, k)) = 0
      BY NoFormType, FS_EmptySet DEF Init, Pending
    <2>2. Cardinality(Flow) # 0 /\ Cardinality(Flow) \in Nat
      BY FlowAssumption, FS_EmptySet, FS_CardinalityType
    <2>3. copies[h][k] \in 0 .. 1
      BY DEF Init
    <2>4. QED BY <2>1, <2>2, <2>3
  <1>2. TypeOK /\ CopiesBounded /\ [Next]_vars => CopiesBounded'
    <2> SUFFICES ASSUME TypeOK, CopiesBounded, [Next]_vars PROVE CopiesBounded'
      OBVIOUS
    <2>1. ASSUME NEW f \in Flow, Submit(f) \/ FlowStep(f) \/ Cancel(f) PROVE CopiesBounded'
      <3>1. ASSUME NEW h \in Host, ReadKeys(f, h) \/ AppendKey(f, h) PROVE CopiesBounded'
        BY <3>1, ReadBounded, AppendBounded
      <3>2. QED
        BY <2>1, <3>1, OthersBounded DEF FlowStep
    <2>2. CASE UNCHANGED <<flow, copies>>
      BY <2>2 DEF CopiesBounded, Pending
    <2>3. ASSUME NEW h \in Host, Die(h) \/ Recover(h) PROVE UNCHANGED <<flow, copies>>
      BY <2>3 DEF Die, Recover
    <2>4. QED
      BY <2>1, <2>2, <2>3 DEF Next, vars, host
  <1>3. TypeOK /\ CopiesBounded => KeyNotRepeated
    <2> SUFFICES ASSUME TypeOK, CopiesBounded, NEW h \in Host, NEW k \in Key
                 PROVE  copies[h][k] <= Cardinality(Flow)
      BY DEF KeyNotRepeated
    <2>1. copies[h][k] \in Nat /\ copies[h][k] + Cardinality(Pending(h, k)) <= Cardinality(Flow)
      BY DEF TypeOK, CopiesBounded
    <2>2. QED BY <2>1, PendingFinite
  <1>4. QED
    BY <1>1, <1>2, <1>3, FormsTypeOK, PTL DEF Spec
=============================================================================
