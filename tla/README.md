# A TLA+ model of wrtsensor

wrtsensor is a Home Assistant integration that watches OpenWrt routers over
SSH. Once a minute a *scan* collects leases, neighbour tables, Wi-Fi stations,
forwarding databases and counters from the configured hosts, turns them into a
list of devices, and derives presence events, traffic totals and per-host
sensors. This directory models the parts of it whose correctness depends on a
sequence of scans, failures and reloads, checks them with TLC and proves some
of them with TLAPS.

## The system

| Component | State | Operations | What is hard, and what makes it correct |
|---|---|---|---|
| Presence tracking (`coordinator.py`: `detect_events`, `_save_state`, the partial branch of `_async_update_data`) | `_prev_state`, its file in `/dev/shm`, event buffer, published devices | scan, partial scan, save, append, load | debouncing over missed scans; failed saves, kills, reloads, reboots; rate limit. Each arrival and departure is announced once, when it is due. |
| Device rows (`build_devices`, `remap_random_macs`) | none | merge a scan's tables | sources that disagree; MAC rotation. Rows have distinct MACs. |
| Role detection (`detect.py`, `_assign_roles`, options flow) | role cache in the config entry, role buckets of the coordinator | probe, classify, edit hosts, prune devices | probes fail in any combination; two writers of the cache. One earned gateway at most; every configured host has a role. |
| Firmware checks (`_asu_loop`, `update.py`) | `_asu_cache`, `coordinator.data["asu"]`, the task | sleep, probe, graft, scan, shutdown | loop and scans interleave; cancellation. Every host is checked in time; entities show the latest result. |
| Device bandwidth (`_compute_device_rates`) | last sample, totals | scan | counters of three kinds, resets, roaming. A device that stays is credited exactly; where samples do not match, nothing is. |
| Host topology (`resolve_infra_parents`, `resolve_switch_ports`) | parent cache | scan | partial FDBs, remembered edges. Edges lead to the gateway; the published graph is a forest; clients sit on their access ports. |
| WAN (`_compute_wan_rates`, `_detect_wan_events`) | last counters, totals, last addresses | scan | resets, unreadable counters. Totals lose and invent nothing; address changes are announced once. |
| DNS statistics (`_append_dns_history`, `_dns_period_rollup`) | history file | append, roll up | restarts of dnsmasq, reloads, age limit. No roll-up over a restart; shorter windows fit into longer ones. |
| WireGuard (`_collect_wireguard`, `_compute_wg_rates`, peer trackers) | baselines per peer, registry entries | ask all hosts, rate, add and prune trackers | silent hosts, half answers, restarts of interfaces. `not_home` is always true; living peers keep their trackers. |
| Config and options flow, provisioning (`config_flow.py`) | config entry, open forms, `authorized_keys` on the hosts | probe, provision, test, detect, save | forms interleave, hosts die, connections are lost half way. What is saved has answered; retries do no harm. |
| Standalone scanner (`diagnose.py`) | eight files | one run per minute: read, scan, write | killed between two writes. The log tells what the state says; nothing is credited twice. |
| Entry lifecycle (`__init__.py`) | `hass.data`, registries, shared state files | set up, unload, remove, prune | several entries share files; set-up fails half way. |

The coordinator object owns all in-memory state and is replaced at every
reload; only the config entry and the files in `/dev/shm` survive. Components
interact through it: roles decide which hosts a scan asks, the scan's rows feed
presence tracking and bandwidth, the ASU loop writes into the data of the last
scan, and set-up prunes registries by the roles.

## Modules

| Module | Models |
|---|---|
| `Presence` | presence tracking: one action per way a scan can end, plus start, stop and reboot |
| `Debounce` | what presence tracking promises, as an abstract specification of `Presence` and of `Standalone` |
| `MCPresence` | values for its constants |
| `PresenceProofs` | theorems about `Presence` |
| `Roles`, `MCRoles` | role detection, its cache and the registry |
| `RolesProofs` | theorems about all of its invariants |
| `AsuLoop` | the firmware loop, scans and shutdown |
| `AsuLoopProofs` | theorems about its safety properties |
| `Bandwidth`, `MCBandwidth` | traffic accounting of one device in one direction |
| `BandwidthProofs` | theorems about all of its properties |
| `Topology`, `MCTopology` | uplinks of access points and switches and access ports of clients, from forwarding databases |
| `TopologyProofs` | theorems about all of its invariants |
| `Standalone` | the script of a manual installation: its files, the order it writes them in, and kills |
| `DnsHistory` | the DNS history file and the roll-ups of both programs |
| `StandaloneProofs` | theorems about all properties of these two |
| `WireGuard`, `MCWireGuard` | peers, answers, rates, trackers and their clean-up |
| `WireGuardProofs` | theorems about all of its properties |
| `Provision` | the forms that change the hosts of an entry, and key provisioning |
| `ProvisionProofs` | theorems about its safety properties |

### Presence

`detect_events` treats MACs independently, so a scan is a function `seen` from
MACs to sightings (absent, or a row with `up` and attributes). Timestamps are
kept as *ages*, saturated at `Horizon`, beyond the last comparison the code
makes (`first_seen = 0.0` is `NoSession`, an event never emitted has age
`Never`). `NextEntry` is the whole of `detect_events` for one MAC, `Prune` is
`prune_old_state`, and `Emitted` the events of a MAC after `_can_emit`.

| Action | Code |
|---|---|
| `Start` | new coordinator, `_load_caches` reads the state file; the threshold comes from the options |
| `Scan` | complete `_async_update_data`: detect, save, append, publish |
| `ScanSaveFails` | `_save_state` assigns `_prev_state`, the write raises: `last_update_success` false, events dropped |
| `ScanKilled` | cut off after the write, before the append |
| `ScanPartial`, `ScanUnreachable` | no answer from the gateway, with and without a remembered state |
| `Stop`, `Reboot` | unload, reload or crash; loss of `/dev/shm` |

Gaps and down-times may be shorter than `ScanInterval`: a reload scans again at once,
and so does `homeassistant.update_entity`. Two history variables, `sinceScan` and
`sinceRush`, say how old the last scan that saw the gateway is, and the last such scan that came
early. The limits that count scans as minutes are stated relative to them, so that
no pace of scans is left out.

A first refresh that raises discards the coordinator (`ConfigEntryNotReady`).
The network-hosts option is on (its default), and the event buffer's capacity
is not modelled: `appended` holds the events of the last step.

`Debounce` knows only a counter of missed scans per MAC and whether a process is up
(`running`): a scan may change the count in silence only if the process ends with it, or
does not save it, or if scans are `hasty`: then a crossing of the threshold may be left
unannounced, but never counted wrongly or announced twice. `hasty` is a scan that came early
within `MinInterval`, and never true of the script. `ImplementsDebounce`
maps an online entry to its misses and any other (offline, dropped or pruned
entry, or none) to the threshold: forgetting an entry early is invisible at this
level except in the event type, which the abstract level does not distinguish.

### Roles

Hosts are integers ordered as `_neg_key` orders them. `hosts` is the hosts field
(host and override), `detected` the cache in the entry, `cached` the copy
`_assign_roles` holds while it awaits the probes, `buckets` the roles in the
coordinator, `devices` the per-host devices in the registry. Set-up is split at
its awaits (`Load`, `Probed`, `SetUp`), and `Edit`, the options flow, can come
between them; its own detection and write are one step. Probe answers range over
what each host can ever report, or failure, host by host.

### AsuLoop

Time passes in the loop's sleeps and probes. `Wake` is the end of a sleep with
the choice of the next host, `ProbeDone` the end of a probe after any time up to
its timeout with any kind of result. Scans start and end anywhere. `Shutdown`
cancels the task and waits for it, `ShutdownDone` clears the cache. It is
assumed that one round of probes is shorter than the interval (six hours against
a minute per host).

### Bandwidth

The network part is external: a device that is associated with an AP, plugged
into a port, or off, with the counters OpenWrt keeps for it. `Samples` is what a
scan may read of them (any host may fail to answer), `Delta` what
`_compute_device_rates` credits. `real` counts the bytes the device received.
Ports carry the tracked device only, apart from earlier traffic (`Before`).
An AP may keep the station entry of a device that has gone, to another AP included,
until it expires or hears of the new association: `Samples` takes the entry of any AP that
lists the device, as the strongest signal may be any. `from` and `listed` are the history
of the last sample's Wi-Fi entries, which the sample itself does not hold: that
`_compute_device_rates` cannot see them is what `OvercountOnlyAcrossAps` is about.

### Topology

The network is external: `uplink` says what each device is plugged into, a tree
below the gateway, and a bridge has learned every MAC on the port that leads to
it (a port is named by the device plugged into it). Networks without a gateway
and hosts with a collector that sends no MAC of their own are left out. A set of edges is a set of pairs. `Scan` is the part of
`_async_update_data` from the collectors' answers to `host_topology`: any set of
hosts answers, `resolve_infra_parents` claims a parent for each and breaks cycles
in the order of `self_macs`, the cache is written and the map published. `Rewire`
moves a device with all that hangs from it. The edge of a host is its parent; the
port label and link speed read from the same table entry are left out.

A host behind a silent switch is placed below the next host above that answers
(`GatewayGivesDirection`), not at its remembered parent: the cache is used only
for hosts that do not answer themselves, although the comment at
`coordinator.py:2171` describes it as a remedy for the first case. The test of the
fallback has a gateway with an empty table, where it does not show.

### Standalone

A run of `diagnose.py` reads all its files, asks the hosts and then replaces the
files one after the other; nothing else writes them. So `Begin` computes all that
the run will write, and one action per file writes it, in the order `WriteOrder`
that the calls of `main` have. `Kill` ends a run anywhere in between, and the next
one starts from whatever mixture of files it finds. A run the gateway does not
answer writes nothing and is a stutter. `NextEntry` is `detect_events` without the
rate limit, which the integration has and the script does not. What a kill takes
with it is kept in `lost`: an arrival or departure that is in the state but will
never be in the log. The append to the log is taken to be atomic; a torn last line
is not modelled.

`ImplementsDebounce` maps the script to `Debounce`, the contract of the integration.
Since a scan changes two files here, it is over when its events are in the log:
between the two writes the abstract state is still that of the file the run has
read (`run.was`), the append is `Observe`, and what it announces is read off the last
lines of the log. A kill between the two writes is `ObserveUnheard`, a scan that only the next
run knows of; reading the state is `Recall`, and every other end of a run `Forget`.

### DnsHistory

A sample has its age and the counters of dnsmasq, and for the properties the lookups
and restarts since it was taken (`hits_since`, ...). `Record` is a scan with an
answer: the file is read back, samples past the age limit go, the new one is
appended; both filters keep the samples at some positions (`Only`). `skips` tells the two programs apart: the coordinator does not read back
samples without a latency, `diagnose.py` does. If the counters have passed their
old values by the next sample, a restart cannot be seen in them (`Hidden`); `PeriodIsExact`
excludes periods with one. Clock steps, latency averages and rows per upstream
server are left out.

### WireGuard

`Begin` asks the hosts, `Reply`, `TornReply` and `NoReply` are their answers in any
order, `Finish` makes the block, the rates, the trackers and (at the first scan
after set-up) removes orphans. A torn reply is one during which the interface goes
down: peers are listed, their handshakes and counters are not. Times are ages
again, and the hosts' clocks are taken to agree with Home Assistant's.
`total` is what a peer has really transferred, `count` what its interface says,
which starts at 0 whenever the interface does. A rate is represented by the
transfer it is computed from.

Trackers are removed also for peers whose interface is down, not only if
"removed from the server config" (the docstring of `_prune_wireguard_entities`);
`PruneOnlyGone` is stated accordingly.

### Provision

Each form has a stage, the hosts still to ask (`left`), those to append the key on
(`append`) and the worst answer of the round (`worst`), so answers of one
`asyncio.gather` come in any order. `ReadKeys` and `AppendKey` are the two commands
of `_provision_ssh_key`, between which other forms and failures can come; a
connection that is lost may have appended the key. A last line without a newline
swallows the key (`glued`), which the next round takes for present. `Detected`
ends the detection of roles, which `Roles` has in detail. Three more things the
model shows: the options flow provisions all hosts of the form, those it did not
probe included, so that a dead old host blocks it (against the purpose stated at
`config_flow.py:134`); what is saved is what was stashed when the form was
submitted, over later edits; an appended key in a file without a last newline is never
repaired by a retry.

## Runs

| Run | Result | Shows |
|---|---|---|
| `presence` | pass | the debouncing contract, `ImplementsDebounce`, and the agreement of state, log and published list, with one MAC, scans of two time units, a threshold of five (two and a half scans, rounded to two), gaps of one and two units, and down-times of one unit, faster than a scan, and of five, which ages everything out |
| `presence_changes` | pass | change events stay within sessions, with three profiles that differ in every attribute |
| `roles` | pass | three hosts (two possible gateways, an AP), four host lists with overrides |
| `roles_pruned` | violation | see *Disagreements* |
| `asu` | pass | two hosts, six kinds of results, every interleaving with scans and shutdown |
| `bandwidth` | pass | two APs, either or both of which may list the device, two ports, counters of 3 before the start, two bursts of traffic, samples too close, well spaced and too far apart; permutations of APs and of ports are symmetric |
| `topology` | pass | all 64 cabling trees of a gateway, an access point, two switches and a client, every set of answering hosts, a table that forgot the gateway, recabling, reloads |
| `standalone_log` | pass | `LogMatchesFiles` and `ImplementsDebounce` for one device, two WAN addresses, a log of two lines that is pruned by cap and by age, kills everywhere |
| `standalone_totals` | pass | counters of 0 and 2 to begin with, four bursts, resets, unreadable counters, rejected samples, kills everywhere |
| `dns` | pass | four lookups or restarts since the oldest sample, gaps of one and two units, windows of two and three, both programs |
| `wireguard` | pass | a peer on one of two hosts, three transfers, an interface that restarts, answers in any order, torn or missing, reloads with the option on or off |
| `provision` | pass | two forms, two hosts, one key, two failures, files with and without a last newline |

Bounds. One MAC suffices for `Presence` because MACs do not interact in the
modelled code. `Horizon` exceeds the age limit, the rate limit (two intervals)
and every threshold in whole scans, so saturated ages decide every comparison as true ones do;
`KeepSlack` is 1 instead of 10, which still has an entry dropped before and after
the age limit. `Interval` of `AsuLoop` is the least that satisfies the assumption
with several probes per interval. `Cap` bounds the traffic of a run in
`Bandwidth`: enough for bursts before and after two moves. Four hosts in
`Topology` allow cycles of three and chains of four; the threshold of 2 makes
uplinks of a network this small exceed it, as 4 does in a larger one. `Standalone`
is split over two runs because its events and its traffic do not influence each
other: `standalone_log` has no traffic, `standalone_totals` no devices and no
addresses. In `DnsHistory` the age limit keeps up to four samples, which have room for
a restart before, between and after the windows. One peer is enough for a
violation of each of the properties of `WireGuard`, because peers share only the failure of
hosts, and the second host provides that; the proofs cover any number.
In `Provision` two failures suffice to break off both commands of a
host, or both forms; the single key is why changes of the key are covered by the proofs only.

Deadlock is checked in every run: each system can always take a step.

Fairness. `Presence` has weak fairness of `Start` (Home Assistant retries a
set-up that is not ready) and strong fairness of `Scan` (scans are scheduled for
ever, and the gateway and the file system work again and again); without the
second, an unreachable gateway freezes presence, as the code intends. `AsuLoop`
has weak fairness of `Wake` and `ProbeDone`: asyncio wakes sleepers, and
`_ssh_run` has a timeout. `Provision` has weak
fairness of each form's steps (asyncio, and a user who enters the password and
confirms; `Cancel` is not fair) and of the recovery of hosts; failures are bounded by
`Faults`, so from some time on nothing fails. Nothing else is assumed of users, scans,
stops or failures.

## Proofs

`PresenceProofs` proves, for every set of MACs and profiles, every timing and
every rate of failure that the assumptions of `Presence` allow:

- `TypeCorrect`: the type invariant. The lemmas type `Aged`, `CarryTs`,
  `NextEntry` and `Prune`; each action is one step.
- `DebounceCorrect`: `BelowThresholdMeansOnline`, if the options hold one
  threshold (`OneThreshold`; *Known limits* tells why). The invariant is
  not inductive alone: memory can come from the file, so the same is carried for
  `disk`, in every phase.
- `NoEventSuppressed`: `NoPresenceEventSuppressed`, with no further assumption. The strengthening
  (`PaceInv`) relates an entry's status and misses to the ages of its presence
  events, in memory and in the file: none is younger than the last scan, and those of the
  direction that may come next (disconnects of an online entry, connects of an offline one)
  are a scan older than that, unless a scan came early (`PacedEntry`, `Distant`). So the next
  scan, if it is not early either, finds the last event of the due type two intervals old, which is
  the limit. What breaks this is scans close together, by reloads or refreshes; a
  threshold of one scan does not.

- `PublishedAgrees`: `PublishedMatchesState`, with no further assumption; a kill or
  a failed save leaves published list and memory apart from the *file* only.
- `ChangesAreWithinSession`: `ChangesWithinSession`, an action property, with no
  further assumption.
- `SessionsBeganWithEvent`: `SessionBeganWithEvent`, under `OneThreshold`.
  What makes an entry online is an arrival (by `DebounceCorrect`'s invariant), and by
  `PaceInv` its event passes the rate limit or a scan came early (`SessionEntry`).
- `DisconnectsAreDue`: `DisconnectAfterThreshold`, with no further assumption. The
  strengthening (`SilenceInv`) relates the misses of an entry to the age of its last
  answer: so many intervals at least, unless a scan came early since.
- `PresenceDebounces`: `ImplementsDebounce`, under `OneThreshold`: the initial
  states map to initial states of `Debounce`, each action to one of its steps or a
  stutter.

`StandaloneProofs` proves of `Standalone`, for every set of devices and amount of traffic:

- `TotalsNeverOvercount`: `NeverOvercounted`. The strengthening (`TotalsInv`) says
  that the total and what was received since the sample on disk do not exceed what was
  received since boot, and the same of every pair of sample and total that a
  run under way can leave behind, which is where the order of the two writes is
  used.
- `WanTotalIsExact`: `WanTotalExact`, by the same equation for the file
  and for what the run is going to write.

- `LogAgreesWithFiles`: `LogMatchesFiles`. The strengthening (`LogInv`) follows a
  run through its writes: what it has not written yet agrees with the log, and what it
  is going to write differs from that only for the devices its events are about
  (`RunFollows`); a status it has written is ahead of the log until the events are
  appended (`LogFollows`), which is the moment a kill is recorded in `lost`. Two lemmas carry it:
  an entry changes its status exactly if there is an event (`EntryStep`), and since
  lines become old from the front, both rules of `prune_events` leave the end of the log
  (`OnlyYoungIsEnd`, `LastLinesAreEnd`).
- `ScriptDebounces`: `ImplementsDebounce`, without the assumptions of `PresenceDebounces`:
  the script has one threshold and no rate limit. `ScanInv` says that a run is one
  scan ahead of the state it has read, and that its events are the devices whose
  count crosses the threshold by that; `EntryCounts` is the same for one device. Each
  action is then one step of `Debounce` or a stutter (`ScanRefines`), and `LastLines` finds the
  events of the run in the log.

and of `DnsHistory`, for every age limit, window and gap, and for both programs:

- `HistoryTypeOK`: the type invariant.
- `PeriodsAreExact`: `PeriodIsExact`. The invariant (`HistoryInv`) relates every two
  samples of the file, and every sample to the counters as they stand: with no restart of
  dnsmasq in between they differ by exactly the lookups in between (`Later`, `Reaches`).
  A roll-up begins after the last fall of a counter
  (`SegmentStart`, a maximum over a set of positions: `MaxOfSet`), so from there on neither counter
  falls (`Rises`) and, unless one is hidden, there is no restart (`SegmentIsClean`).
- `PeriodsAreNested`: `PeriodsNest`. The baseline of the shorter window lies in the segment of
  the longer one, at or after its baseline, as the last scan's does, and differences of rising counters add up.

What a filter keeps is found without induction over data: the positions
that the recursive function picks out of the first n samples are determined by the set of
positions (`Picks`, `PicksGrow`), by `SetInduction`.

`WireGuardProofs` proves all four properties of `WireGuard` for any number of hosts
and peers and any timing, from one invariant (`WireGuardInvariant`): an answer, or
the block, that says a peer is offline was right when its scan began or is since
(`AnswersTrue`, `DataTrue`); a host answers for its own peers and for all that
have been up since the scan began (`AnswersOwn`, `AnswersComplete`); and a counter grows
by no more than is transferred as long as its interface is up (`BaseBehind`,
`AnswersBehind`). `PeerStepKeepsInv` says what of a peer's step is enough to
keep it.

`ProvisionProofs` proves for any number of forms, hosts and keys: `FormsTypeOK`,
`SavedHostsHaveAnswered` and `KeyIsNotRepeated`. The first two follow from what each
stage of a form guarantees: hosts of a form that have been asked and not
refused have answered. For the third the invariant counts: the lines of a key on a
host, plus the forms that are going to append it, never exceed the forms.

`BandwidthProofs` proves, for any number of access points and ports and without further
assumptions: `BandwidthTypeOK`, `OvercountsAreAcrossAps`: `OvercountOnlyAcrossAps`, and
`SteadyTrafficExact`: `SteadyIsExact`. The invariant (`TrafficInv`) compares the last
sample with the counters as they stand (`CountersBehind`): the entry of the AP it came
from, that of an AP which did not list the device then, the port and the flows have grown by no
more than what the device received since; and the device's own counter by exactly that,
if nothing but traffic has happened (`SteadyCount`).

`RolesProofs` proves all four invariants of `Roles` for every set of hosts and overrides,
without further assumptions. `GatewaysAreEarned` is not inductive: a
cached role may outlive the override it came from, so the invariant (`RolesInv`) follows the
grounds for a role through the entry, the copy held while probes are awaited and the
buckets (`Earned`, `EarnedBuckets`). `OutagesKeepRoles` and `OthersAreNotLeftOut` rest on what
`classify` does with hosts that do not answer: lemmas `SilentRoles`, `SilentGateway` and
`NoGateway`. The elected gateway is the least candidate; that there is one needs a
minimum of a finite set (`MinimalSet`, from the library's well-foundedness of strict inclusion).

`AsuLoopProofs` proves, for any number of hosts and any timing, `AsuLoopTypeOK` (its types, which
no run checks), `DataIsCache`:
`BlockIsCache`, `ShutdownIsQuiet`: `QuietAfterShutdown`, and, if the sleeps are in
proportion to a probe (`SleepsFit`), `NoHostStarves`: `NoStarvation`. The invariant
(`FairInv`) counts slots: what a host may have waited beyond the interval is one slot (the
timeout and the gap) for each host that was probed since it became due, and by the
assumption on `Interval` none of them is due again before it.

`TopologyProofs` proves all five invariants of `Topology`, without further assumptions,
for any number of hosts and clients and any cabling; the type invariant includes that
recabling keeps the cables a tree. It is built up from the operators:

- `Above` stops after as many steps as there are devices; `AboveIsClosed` and `AboveIsLeast`
  show that this is enough, since every step before the last adds a device. From there on
  it is used as the least closed set only.
- `ParentsAreAcyclic`: `ResolvedIsForest`. After `BreakFrom(p, s)` nothing reached from `s`
  is above itself (`BreakFromClears`), and it stays so when further edges go (`ClearStays`);
  every cycle passes a host, and all of them are started from (`BreakCyclesClears`).
- `GatewayDirects`: `GatewayGivesDirection`. A port carries all that is below the device
  it leads to, or the gateway (`PortFacingDown`, `PortFacingUp`), so that just the hosts above
  make offers (`OffersFaceDown`), and of two hosts above, the lower one shares its
  port with strictly fewer (`NearestSharesLess`). So every edge leads up and
  `BreakCycles` has nothing to break.
- `CacheLeadsToGateway`: `RememberedEdgesLeadUp`. Not inductive for the published edges; the
  invariant (`IInv`) adds that they are those of the cache, and says it of the cache.
- `ClientsArePlaced`: `AccessPortIsExact`. A client is alone on its own port and on no other
  (`PortsOfClient`), which is why the threshold does not matter.

That the least claim and the least port exist rests on `LessIsOrder`: `Less`, Python's
order of tuples, is a strict total order on tuples of one length.

Some theorems assume more of the constants than the modules do:

| Assumption | Why the code justifies it |
|---|---|
| `OneThreshold` (`DebounceCorrect`, `SessionsBeganWithEvent`, `PresenceDebounces`) | the option keeps its value; what happens if it is changed is under *Known limits* |
| `SleepsFit` (`NoHostStarves`) | `const.py:85` and `_asu_loop`: gap 15 s, shortest sleep 60 s, timeout 45 s |

Liveness and `ENABLED` are beyond the provers installed and stay with TLC. Filters of
sequences are written as recursive functions (`OnlyYoung`, `Only`), because `tlapm` cannot
expand `SelectSeq`. Induction is possible where it
can be stated with a set instead of a predicate (`SetInduction`).

Model-checked only: `DepartureNoticed`, `EveryHostProbed` and `ProvisioningEnds` (liveness).
Every invariant, action property and refinement of the passing runs is also proved.

## Disagreements and known limits

One run shows a disagreement between the code and its documentation:

- **A silent former gateway** (`roles_pruned`): `classify` keeps its cached role
  although another host is gateway; it is in no bucket and its device is removed
  from the registry while it is configured.

Others follow from the modules, with constants other than those of the
runs; no run checks them:

- **Threshold raised across a reload** (`Presence` without `OneThreshold`): entries
  that went offline under the old threshold have fewer misses than the new one and
  come back without a connect event.
- **The threshold counts scans**: `disconnect_threshold_s` is documented as "How long a
  device must be absent before a disconnect event is recorded" (`strings.json:74`), but is rounded down to
  scans (`coordinator.py:938`): 90 s are one, 150 s two. And a scan that comes early counts like any other: two misses, at
  60 s and, after a reload, at 65 s, are a disconnect with the default of 120 s.
  `DisconnectAfterThreshold` says what is left of the promise. In the run `presence` (a
  threshold of five units), `prev[m].last >= secs` in place of it is false.
- **Events swallowed after early scans**: `_can_emit` limits connects and disconnects, too. A
  connect, a miss at 60 s, a reload with a miss at 65 s (disconnect) and a reload with a
  sighting at 70 s leave out the second connect, and the device is online without one.
  `NoPresenceEventSuppressed`, `SessionBeganWithEvent` and `hasty` in `Debounce` confine this
  to a scan, or two intervals, after an early one.
- **Firmware errors blink** (`AsuLoop`): an owut error report keeps the version but
  sets `error`, which makes the entity unavailable, against the comment at
  `parser.py:937`.
- **Published topology with a cycle** (`Topology`): with the gateway silent two siblings
  are resolved as each other's parent and one edge is dropped; which one depends on
  the hosts heard, and the cache puts both together. The docstring of
  `_break_parent_cycles` and the card count on a forest (the card has a guard);
  `RememberedEdgesLeadUp` holds if the gateway has answered.
- **Roaming between APs**: `wifi_bytes` holds the counters of the strongest entry, but not
  whose they are, so if two APs list a device their counters can be subtracted
  from each other, although the comment at `coordinator.py:1784` counts on not "producing a
  garbage delta from mismatched counters". In the run `bandwidth`, `[][credited' <= recent]_vars`
  is false without the exception that `OvercountOnlyAcrossAps` makes.
- **Unreadable WAN counters**: the coordinator shows totals of 0 for such a scan
  (`coordinator.py:1635`), the script none; neither loses anything of the totals.
- **DNS windows**: a roll-up is labelled "last 1h" also if the samples are so far
  apart that it spans many hours.

## Not modelled

Device rows are abstracted to their outcome; `remap_random_macs`, which relates the
MACs of one scan to each other before `detect_events` sees them, is left out, and so
are two config entries over the same state files, the websocket and the
clean-up of option-dependent entities other than trackers and hosts. Of `diagnose.py`
the collection and the parts it shares with the integration are left out.
The collector script, the Lovelace cards, the tools and the YAML package are
shell output, fixtures and presentation. The OUI, vendor and name caches are
write-through files without interaction.

## Plan

1. `RandomMac`: `remap_random_macs` over two MACs in front of `Presence`.
2. `Lifecycle`: set-up, unload, removal and shared state files with two entries.
