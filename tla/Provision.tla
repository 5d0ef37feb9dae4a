----------------------------- MODULE Provision -----------------------------
(***************************************************************************)
(* The forms that change which hosts an entry monitors: the config flow,   *)
(* the options flow, and their common step that installs the SSH key by    *)
(* password on hosts that refuse it.  Hosts are asked in parallel, several *)
(* forms can be open at once, and every answer can be lost.                *)
(*                                                                         *)
(* One entry; a second form at the same time is an options flow.  Roles    *)
(* are in module Roles, the other options change nothing here.             *)
(***************************************************************************)
EXTENDS Integers, FiniteSets

CONSTANTS
    Flow,           \* forms that can be open at the same time
    Host, Key,      \* endpoints; SSH keys of Home Assistant
    NoEntry,
    Faults          \* bound on failures of hosts and connections

ASSUME FlowAssumption == IsFiniteSet(Flow) /\ Flow # {} /\ Key # {} /\ NoEntry \notin [hosts : SUBSET Host, key : Key]
ASSUME FaultsAssumption == Faults \in Nat

VARIABLES
    entry,          \* hosts and key of the config entry
    flow,           \* the forms
    alive,          \* hosts that can be reached
    copies,         \* lines of authorized_keys on a host that hold a key
    glued,          \* keys in the file of a host, but not on a line of their own
    newline,        \* whether the file ends with a newline
    faults,         \* failures so far
    answered        \* hosts that have let Home Assistant in, with which key

host == <<alive, copies, glued, newline, faults>>
vars == <<entry, flow, host, answered>>

Result == {"ok", "auth_failed", "cannot_connect"}
Stage  == {"closed", "probe", "password", "provision", "test", "detect", "confirm"}

\* left and append are the hosts still to ask and to append the key on,
\* worst the worst result of the current round.
Form == [stage : Stage, new : BOOLEAN, hosts : SUBSET Host, key : Key,
         left : SUBSET Host, append : SUBSET Host, worst : Result]

Worst(r, s) ==
    IF "cannot_connect" \in {r, s} THEN "cannot_connect"
    ELSE IF "auth_failed" \in {r, s} THEN "auth_failed" ELSE "ok"

NoForm == [stage |-> "closed", new |-> FALSE, hosts |-> {}, key |-> CHOOSE k \in Key : TRUE,
           left |-> {}, append |-> {}, worst |-> "ok"]
Closed(f) == [flow EXCEPT ![f] = NoForm]
Round(f, stage, hosts) ==
    [flow EXCEPT ![f].stage = stage, ![f].left = hosts, ![f].append = {}, ![f].worst = "ok"]

-----------------------------------------------------------------------------
(* The first form *)

\* The options flow does not ask hosts again that the entry has, so that
\* others can be removed while they are down, unless the key is another one.
ToProbe(hosts, key) ==
    IF entry = NoEntry \/ entry.key # key THEN hosts ELSE hosts \ entry.hosts

Save(hosts, key) == entry' = [hosts |-> hosts, key |-> key]

\* async_step_user, async_step_init up to the probes.
Submit(f) ==
    \E hosts \in (SUBSET Host) \ {{}}, key \in Key :
        /\ flow[f].stage = "closed"
        /\ entry = NoEntry => \A g \in Flow : flow[g].stage = "closed"
        /\ flow' = [flow EXCEPT ![f] =
              [stage |-> "probe", new |-> entry = NoEntry, hosts |-> hosts, key |-> key,
               left |-> ToProbe(hosts, key), append |-> {}, worst |-> "ok"]]
        /\ UNCHANGED <<entry, host, answered>>

\* _test_ssh, for the form and again after provisioning.  A connection can
\* fail although the host is alive.
TestResult(h, key) ==
    IF h \notin alive THEN "cannot_connect" ELSE IF copies[h][key] > 0 THEN "ok" ELSE "auth_failed"

TestSsh(f, h) ==
    /\ flow[f].stage \in {"probe", "test"} /\ h \in flow[f].left
    /\ \/ LET r == TestResult(h, flow[f].key)
          IN  /\ flow' = [flow EXCEPT ![f].left = @ \ {h}, ![f].worst = Worst(@, r)]
              /\ answered' = IF r = "ok" THEN answered \cup {<<h, flow[f].key>>} ELSE answered
              /\ UNCHANGED faults
       \/ /\ faults < Faults /\ faults' = faults + 1
          /\ flow' = [flow EXCEPT ![f].left = @ \ {h}, ![f].worst = "cannot_connect"]
          /\ UNCHANGED answered
    /\ UNCHANGED <<entry, alive, copies, glued, newline>>

\* The hosts are fine: their roles are detected.
Accept(f) == flow' = Round(f, "detect", {})

\* The config flow shows the roles, the options flow saves.
Detected(f) ==
    /\ flow[f].stage = "detect"
    /\ IF flow[f].new THEN flow' = Round(f, "confirm", {}) /\ UNCHANGED entry
       ELSE flow' = Closed(f) /\ Save(flow[f].hosts, flow[f].key)
    /\ UNCHANGED <<host, answered>>

\* _route_failures: only if all failures are refused keys, provisioning helps.
NextStage(worst) ==
    CASE worst = "ok" -> "accept" [] worst = "auth_failed" -> "password" [] OTHER -> "closed"

Probed(f) ==
    /\ flow[f].stage = "probe" /\ flow[f].left = {}
    /\ CASE NextStage(flow[f].worst) = "accept"   -> Accept(f)
         [] NextStage(flow[f].worst) = "password" -> flow' = Round(f, "password", {})
         [] OTHER                                 -> flow' = Closed(f)
    /\ UNCHANGED <<entry, host, answered>>

-----------------------------------------------------------------------------
(* async_step_provision_key *)

\* All hosts of the form are provisioned, those that were not asked included.
\* A wrong password fails on every host, with nothing changed.
Password(f) ==
    /\ flow[f].stage = "password"
    /\ flow' = Round(f, "provision", flow[f].hosts)
    /\ UNCHANGED <<entry, host, answered>>

\* A fault: the key is appended wherever it is.
Present_Never(h, key) == FALSE

Present(h, key) == copies[h][key] > 0 \/ key \in glued[h]

\* A fault: a key that is there already is an error.
ReadResult_PresentFails(present) == IF present THEN "auth_failed" ELSE "ok"

ReadResult(present) == "ok"

\* _provision_ssh_key reads the file first.
ReadKeys(f, h) ==
    /\ flow[f].stage = "provision" /\ h \in flow[f].left
    /\ LET p == Present(h, flow[f].key)
       IN  \/ /\ h \in alive
              /\ flow' = [flow EXCEPT ![f].left = @ \ {h}, ![f].append = IF p THEN @ ELSE @ \cup {h},
                                      ![f].worst = Worst(@, ReadResult(p))]
              /\ UNCHANGED faults
           \/ /\ h \notin alive \/ faults < Faults
              /\ faults' = IF h \in alive THEN faults + 1 ELSE faults
              /\ flow' = [flow EXCEPT ![f].left = @ \ {h}, ![f].worst = "cannot_connect"]
    /\ UNCHANGED <<entry, alive, copies, glued, newline, answered>>

\* A fault: the newline after the key is missing.
Appended_NoNewline(h, key) ==
    /\ newline' = [newline EXCEPT ![h] = FALSE]
    /\ IF newline[h] THEN copies' = [copies EXCEPT ![h][key] = @ + 1] /\ UNCHANGED glued
       ELSE glued' = [glued EXCEPT ![h] = @ \cup {key}] /\ UNCHANGED copies

\* A last line without a newline swallows the key.
Appended(h, key) ==
    IF newline[h] THEN copies' = [copies EXCEPT ![h][key] = @ + 1] /\ UNCHANGED <<glued, newline>>
    ELSE /\ glued' = [glued EXCEPT ![h] = @ \cup {key}] /\ newline' = [newline EXCEPT ![h] = TRUE]
         /\ UNCHANGED copies

\* The second command of the same connection.  If the connection fails, the
\* host may have executed it all the same.
AppendKey(f, h) ==
    /\ flow[f].stage = "provision" /\ h \in flow[f].append
    /\ \/ /\ h \in alive /\ Appended(h, flow[f].key)
          /\ flow' = [flow EXCEPT ![f].append = @ \ {h}]
          /\ UNCHANGED faults
       \/ /\ h \notin alive \/ faults < Faults
          /\ faults' = IF h \in alive THEN faults + 1 ELSE faults
          /\ \/ h \in alive /\ Appended(h, flow[f].key)
             \/ UNCHANGED <<copies, glued, newline>>
          /\ flow' = [flow EXCEPT ![f].append = @ \ {h}, ![f].worst = "cannot_connect"]
    /\ UNCHANGED <<entry, alive, answered>>

\* A fault: what the hosts were told is taken for what they do.
AfterProvision_NoTest(worst) == IF worst = "ok" THEN "accept" ELSE "password"

AfterProvision(worst) == IF worst = "ok" THEN "test" ELSE "password"

Provisioned(f) ==
    /\ flow[f].stage = "provision" /\ flow[f].left = {} /\ flow[f].append = {}
    /\ CASE AfterProvision(flow[f].worst) = "accept" -> Accept(f)
         [] AfterProvision(flow[f].worst) = "test"   -> flow' = Round(f, "test", flow[f].hosts)
         [] OTHER                                    -> flow' = Round(f, "password", {})
    /\ UNCHANGED <<entry, host, answered>>

Tested(f) ==
    /\ flow[f].stage = "test" /\ flow[f].left = {}
    /\ IF flow[f].worst = "ok" THEN Accept(f) ELSE flow' = Round(f, "password", {})
    /\ UNCHANGED <<entry, host, answered>>

\* async_step_confirm_detected_roles.
Confirm(f) ==
    /\ flow[f].stage = "confirm"
    /\ flow' = Closed(f) /\ Save(flow[f].hosts, flow[f].key)
    /\ UNCHANGED <<host, answered>>

\* The user closes the form.
Cancel(f) ==
    /\ flow[f].stage \in {"password", "confirm"}
    /\ flow' = Closed(f)
    /\ UNCHANGED <<entry, host, answered>>

-----------------------------------------------------------------------------
(* The hosts *)

Die(h) ==
    /\ h \in alive /\ faults < Faults
    /\ alive' = alive \ {h} /\ faults' = faults + 1
    /\ UNCHANGED <<entry, flow, copies, glued, newline, answered>>

Recover(h) ==
    /\ h \notin alive /\ alive' = alive \cup {h}
    /\ UNCHANGED <<entry, flow, copies, glued, newline, faults, answered>>

Init ==
    /\ entry = NoEntry
    /\ flow = [f \in Flow |-> NoForm]
    /\ alive = Host /\ faults = 0 /\ answered = {}
    /\ copies \in [Host -> [Key -> 0 .. 1]] /\ glued = [h \in Host |-> {}]
    /\ newline \in [Host -> BOOLEAN]

FlowStep(f) ==
    \/ Probed(f) \/ Password(f) \/ Provisioned(f) \/ Tested(f) \/ Detected(f) \/ Confirm(f)
    \/ \E h \in Host : TestSsh(f, h) \/ ReadKeys(f, h) \/ AppendKey(f, h)

Next ==
    \/ \E f \in Flow : Submit(f) \/ FlowStep(f) \/ Cancel(f)
    \/ \E h \in Host : Die(h) \/ Recover(h)

\* What asyncio and the hosts do goes on; the user types the password in and
\* confirms; hosts come back.
Fairness ==
    /\ \A f \in Flow : WF_vars(FlowStep(f))
    /\ \A h \in Host : WF_vars(Recover(h))

Spec == Init /\ [][Next]_vars /\ Fairness

-----------------------------------------------------------------------------
(* Properties *)

\* The forms and the files have the values the code gives them; nothing is
\* left over from one round of questions to the next, and no file is left
\* without a newline by a form.
TypeOK ==
    /\ entry \in [hosts : SUBSET Host, key : Key] \cup {NoEntry}
    /\ flow \in [Flow -> Form]
    /\ alive \subseteq Host /\ copies \in [Host -> [Key -> Nat]] /\ glued \in [Host -> SUBSET Key]
    /\ newline \in [Host -> BOOLEAN] /\ faults \in 0 .. Faults /\ answered \subseteq Host \X Key
    /\ \A f \in Flow : flow[f].append # {} => flow[f].stage = "provision"
    /\ \A h \in Host : glued[h] # {} => newline[h]

\* Every host of the entry has let Home Assistant in with the entry's key,
\* whatever forms were open at once and however provisioning failed before.
SavedHostsAnswered ==
    entry # NoEntry => \A h \in entry.hosts : <<h, entry.key>> \in answered

\* Retries do not repeat the key: there is at most one line per form that was
\* open at the same time.
KeyNotRepeated == \A h \in Host, k \in Key : copies[h][k] <= Cardinality(Flow)

\* Provisioning comes to an end: unless some file lacked its last newline, a
\* form that asks for the password is saved if it is not closed, however often
\* hosts and connections failed in between.
ProvisioningEnds ==
    (\A h \in Host : newline[h]) =>
        \A f \in Flow : flow[f].stage = "password" ~> flow[f].stage = "closed"
=============================================================================
