# Verification of the ChirpStack v4 bridge to Everynet RAN

The bridge (`src/main.py` and `src/lib`) carries LoRaWAN traffic between
Everynet RAN, over two websocket connections, and a ChirpStack v4 server, over
MQTT and gRPC. It is one asyncio program: no two lines run at once, but every
`await` on a socket lets other tasks run, connections break, calls fail, and
what the bridge knows of RAN and ChirpStack are copies it made earlier. The
modules here model that: **a step is what one task does between two awaits that
can suspend**, and the environment (RAN, ChirpStack's users, faults) may step in
between.

Paths below are relative to the repository.

## 1. Inventory

| Component | Code | State | Operations | Where |
|---|---|---|---|---|
| Uplink path | `lib/traffic/ran.py`, `chirpstack.py`, `manager.py` | contexts and transactions seen, MIC tries per transaction, two queues, running handlers | receive from RAN, check a MIC, publish, answer | `Upstream`, `UplinkContract` |
| Answers to duplicates | `UplinkAckSync`, `_submit_ack_when_available` | ack cache, futures, 64 submitter slots | wait for the ack, time out, answer | `Upstream` |
| Downlink path | `chirpstack.py`, `ran.py` | device contexts, counts of ignored items, transactions | frame, pull of a joined device, send, RAN's result, TxAck | `Downlink` |
| Device lists and hook | `lib/chirpstack/devices.py`, `lib/ran_hooks/devices.py` | one dict of devices per application | pass: list, pull, hooks, replace the dict | `DeviceList` |
| Joins and the lists | `devices.py:41-56, 231-248`, `chirpstack.py:218-297` | the `Device` object of a context, the map of addresses | keep the object, pull the joined device, tell the list, tell RAN | `JoinSync` |
| Start-up sync | `lib/device_sync.py`, `main.py:162-174` | a snapshot of RAN's routing table | handle what both have, only ChirpStack has, only RAN has | `DeviceSync` |
| Multicast lists and hook | `lib/chirpstack/multicast_groups.py`, `lib/ran_hooks/multicast_groups.py` | one dict of groups per application | pass: list, pull, hooks, removals, replace the dict | `MulticastGroups` |
| Caches | `lib/cache.py` | entries with an expiry | set cleans the oldest entry | inside the paths |
| Pipelines and pools | `manager.py`, `async_pool.py` | queues, at most 64 handlers per node | run a handler per item, pass its result on, leave when stopped | `Pipeline`; pool bounds in the paths |
| Periodic | `lib/utils.py` | retry count | call, log an error, call again | as "a failed pass is made again" |
| MQTT client | `lib/mqtt.py` | connection, `_connection_established` | connect, reconnect, disconnect on stop | `MqttClient` |
| RAN connections | `ran.py:356-431` | the two loops, the core | run the loops, delay, run them again, close on stop | `RanConnection` |
| main, shutdown | `main.py:205-274` | tasks, `stop_event` | start, wait, give time, cancel | `Lifecycle` |
| gRPC API | `lib/chirpstack/api.py` | the offset of a listing | pages of 20 entries | inside `DeviceList` |
| Several tenants, statistics, health check, settings, logging, scripts | rest | none that matters | pure I/O, configuration, or one loop more | not modelled |

How they interact:

- RAN's upstream connection feeds `RanTrafficRouter._handle_upstream_message`. A
  payload seen for the first time becomes one `Uplink` per MIC of its challenge,
  put into a queue. A two-node pipeline runs
  `ChirpstackTrafficRouter.handle_upstream` (is this MIC the device's? then
  publish the frame) and `RanTrafficRouter.handle_upstream_ack_or_reject` (answer
  RAN) on them, each node with up to 64 handlers at once. A payload seen before
  is a duplicate (another of RAN's gateways heard it): it is answered from the
  ack cache, or a submitter waits up to 20 s for the ack to come.
- ChirpStack's frames come over MQTT, one at a time. The device is found through
  the context of the uplink a frame answers or in the lists; a JoinAccept first
  pulls its device from ChirpStack. One-node pipelines send the frame to RAN and
  RAN's result to ChirpStack.
- Both paths read the device and group lists, which two periodic tasks replace.
  The lists call hooks that keep RAN's routing table and multicast groups in
  step. RAN's tables are read at the start only, so afterwards the local copy
  *is* the bridge's knowledge of RAN.
- A JoinRequest leaves its `Device` object in a context cache. The JoinAccept
  changes that object and the list that made it, while a pass may be replacing
  the list; RAN is told of the address by the downlink, not by a hook.
- `main` starts all tasks and shares one `stop_event` with them. Each task
  notices it in its own way: by polling, by closing its connection, or only when
  `main` cancels it after its part of 20 s.

What makes it hard, and what correctness is:

- *Uplink.* Handlers of one transaction share a counter and suspend between
  reading and deleting it. Correct: answers do not contradict each other, a
  reject comes only when every MIC failed, an ack only for a forwarded frame, and
  everything is answered unless a fault took the answer.
- *Duplicates.* A timer races the ack, slots run out, the task that hands out
  acks can die. Correct: a duplicate is always answered and the loop that reads
  RAN never stays blocked.
- *Downlink.* RAN may answer before the send returns, or twice; a pull suspends
  in the middle of a frame. Correct: one truthful TxAck of the right length.
- *Lists.* ChirpStack changes during a pass, any call may fail halfway. Correct:
  the local copy agrees with RAN, and RAN comes to mirror ChirpStack.
- *Joins.* Correct: an uplink's address finds the device whose keys fit it, and
  the lists and RAN end up with the address of the join, whatever passes overwrote.
- *Shutdown.* A signal comes at any point of any task. Correct: what RAN sent
  before is handled, an orderly stop leaves nothing at work, the process ends; and
  until then a connection that breaks comes back.
- *Start.* RAN holds anything. Correct: errors stay with their device, what was
  right is not touched.

The hazards, each at its line with the properties that would catch it, are in
`PROJECT.json`.

## 2. Modules

- **`Upstream`** (`MCUpstream`, `UpstreamProofs`). State: the dicts and caches of
  `RanTrafficRouter` (`known`, `live`, `tracked`, `micTries`, `ackCache`), where
  the uplink of each MIC is (`challenge`), the two queues, futures (`waiter`),
  submitters, and the answers RAN has received (`sent`). `upstream_id` is random
  and fresh, so its transaction stands for it. A handler suspended in a send or a
  publish is a state of `challenge`; `StartSend` and `AnswerSent` are the two
  halves of a send. A payload is a context; what the lists say of its device is a
  record `[found, hasKey, verifies]` which `DeviceSynced` changes at any time:
  the MIC is right or wrong, no bits are computed. `AfterClean` is `Cache.clean`:
  at most one entry, any one, is gone (which is the oldest and whether it has
  expired is open, so the model has every behaviour of the real cache and more).
- **`UplinkContract`** (`UplinkContractProofs`) is what the path promises, without
  queues, caches, handlers or waiters: messages heard, frames forwarded, answers
  told. Acks name a forwarded MIC; a rejection for the MIC is the only answer; a
  message has no more answers than MICs. `Upstream!ContractKept` states that
  `Upstream` implements it: messages that were received for `heard`, `forwarded`
  for `frames`, `sent` for `told`.
- **`Downlink`** (`MCDownlink`, `DownlinkProofs`). State: where each frame is, the device contexts,
  the counts of ignored items, transactions, what RAN has and has reported, and
  the TxAcks ChirpStack got. `transaction_id` is fresh (a cycle of 2^32), so the
  frame stands for it. `RanReceives` is apart from `SendReturns`: RAN may act in
  between.
- **`DeviceList`** (`MCDeviceList`, `DeviceListProofs`). One action per call a pass makes; the phases
  are the loops of `ApplicationDeviceList.sync_from_remote`. The iteration order
  of dicts is open; a listing has an order, `Rank` is the place of an entry in it,
  and a page is the places after the offset (`offset`, `appOffset`) in the list as
  it then stands. `Abort` is an error of any call,
  before or after its effect. ChirpStack's users act between any two calls: a listed
  device that is deleted before it is pulled ends the pass (`PullGone`). A move
  to another application is a deletion and a creation. `shifts` is a history
  variable: how often the listing moved under the offset.
- **`JoinSync`** (`MCJoinSync`, `JoinSyncProofs`) extends `DeviceList`: joins between its calls. An
  address stands for the session that came with it. `held` is the object of the
  context: as long as it is the list's own (`listed`) its address is the list's,
  after a swap it has its own. A device has one context at a time, where the code
  keeps one per transaction: a second JoinRequest takes the place of the first.
  `byAddr` is `_dev_addr_to_dev_eui`. `astray` and
  `readded` note which joins left a list in a state the properties except.
- **`DeviceSync`** (`MCDeviceSync`, `DeviceSyncProofs`) extends `DeviceList`: `perform_full_sync`
  composed with the first, hook-less pass before it and the periodic passes after.
- **`MulticastGroups`** (`MCMulticastGroups`, `MulticastGroupsProofs`). The same for the groups of one
  application, with the routing table as a set that changes beside it. The listing is
  one page (20 groups or fewer), read in one step, and so are a group and its
  members; the hook's calls to RAN are steps of their own. `cut` and
  `astray` are history variables: a pass was cut short; an address was removed
  though its group was listed, or left though it was deleted.
- **`MqttClient`**, **`Pipeline`**, **`RanConnection`** are the parts that
  `stop_event` ends, each with its own state and steps, and **`Lifecycle`**
  (`MCLifecycle`, `LifecycleProofs`) composes them with `main` and the router by
  INSTANCE. A step of `Lifecycle` is one of a part, with what it does to the task
  that runs it (`MqttRuns`, `RanRuns`, `NodesRun`, ...), or one of `main`
  (`Operate`, `GiveTime`, `TimesOut`, ...). The parts' tasks go on when the task
  `main` knows is cancelled, as in the code: `disconnect_on_stop`, the two loops
  and the nodes are tasks nobody cancels.

External code is modelled from its use: RAN's routing table (`insert` refuses a
known device, `update` an unknown one) and groups, ChirpStack's answers,
`asyncio` (a cancelled future's callbacks run one iteration later).

A definition that is commented "variant for mutation" is a plausible mistake in
the code above it; `PROJECT.json` pairs each property with one that breaks it.

## 3. Runs

| Run | What is asked | Bounds |
|---|---|---|
| `UpstreamFaults` | no contradiction, no early reject, no ack without a frame, answers agree, the contract is kept | 3 messages: 2 of one join, 1 malformed; 2 MICs; 2 handlers per node, 1 submitter; entries expire; 1 fault, 1 device change |
| `UpstreamLive` | originals and duplicates answered, the loop comes back, no entry left behind | 3 messages of one data frame; 2 MICs; 1 handler per node, 1 submitter; 1 fault, 1 device change |
| `UpstreamAckSync` | *violated*: the ack sync task stays alive | 2 messages, no faults |
| `DownlinkAll` | TxAcks single, truthful, aligned; a join accepted once; frames and reports get through | 2 JoinAccepts of one join, 1 data frame; 2 or 1 items; 1 handler per node; 2 results per frame; 1 fault |
| `DevicesAgree` | the local list is a true picture of RAN; entries that pages skip are bounded; hooked devices are routed; RAN settles | 1 application that may go, 2 devices, pages of 1, 2 addresses, 2 changes each, 2 failing calls |
| `DevicesMoved` | *violated*: RAN mirrors ChirpStack | 1 device, 2 applications |
| `JoinSync` | addresses find the right device; lists and RAN learn the address of a join | 2 devices, 1 joins; 2 addresses, 1 change each, 1 failing call |
| `SyncStart` | errors isolated, matching entries untouched, devices end up routed | 2 devices, pages of 1, RAN's table arbitrary, 1 change, 1 failing call |
| `SyncLeadingZero` | *violated*: a matching entry is untouched | 1 device whose DevEUI starts with 0 |
| `GroupsAgree` | RAN's members are those of the copy that were routed; groups converge after errors | 2 groups (one with 2 addresses), 1 device, 2 changes, 1 routing change, 2 failing calls |
| `GroupsRemoved` | *violated*: only deleted groups are removed | 2 groups, 1 device |
| `Lifecycle` | received uplinks are handled; an orderly stop leaves nothing at work; the service ends; broken connections come back | 1 uplink, 1 connection that breaks or is not made, a signal at any time |

Why the bounds are enough. Two MICs give every race between handlers of one
transaction (the first, the last, both at once), and three messages an original,
a duplicate and a message that finds the slot taken; pools of one and two slots
are full in most states, where 64 would never be. One fault is placed anywhere,
before, during and after every send. Three messages with two contexts let an
entry expire because another message came. For the lists, two devices let a pass
stop after the first and before the second; two changes of one device are what
`Settles` needs to tell an old local copy from a new one, and two failures let a
retry fail as well. Pages of one entry make every listing span two pages, where
20 devices would be needed. In `JoinSync` the second device is there to share an
address with the first. One uplink in `Lifecycle` can be at each of the places of
the pipeline when the signal comes; its handlers never wait for another. The start-up run begins in every content of RAN's table.

Deadlock is not checked where the bridge, or the run, may come to rest:
the paths once all messages are handled, the start once the bridge terminated,
the service once it has ended.

### Fairness

Weak fairness of each task's next step: one event loop runs every ready task,
socket calls return or raise, timers fire, `RanTrafficRouter.run` reconnects, and
`Periodic` calls again. In `JoinSync` the lists and the joins are fair each for
itself, as they are different tasks; in `Lifecycle` all work of the event loop is
one fair action, which says only that the process is not stuck while something can
run. Nothing is assumed of RAN's or ChirpStack's messages, of
RAN reporting a result, of faults, or of ChirpStack's users. A pass as a whole is
one weakly fair action: it is one task, always enabled, so fairness to it is
fairness to the task and not to any device in it.

### What the properties leave out

- `OriginalAnswered`, `DuplicateAnswered`, `GetsToRan` and
  `ReportReachesChirpStack` exclude runs with a fault: a handler whose send or
  publish raises is only logged, and nothing retries.
- A join whose device has no key gets the verdict `InternalError`, and no answer
  ever (`ran.py:251`). No run asks for one; `UpstreamFaults` includes the case.
- `AnswersAgree` allows a refusal to be repeated: with two MICs of an unknown
  device both handlers may answer (`ran.py:239`).
- `IdleAgreement` and `Settles` are of one application: see `DevicesMoved`.
  Devices of a deleted application stay in RAN (`devices.py:325`). With a failing
  call and two changes of a device, or a deletion that made a page skip a device,
  an entry can stay wrong for good.
- `SkippedBounded` counts what pages miss; that it is not zero is a property of
  offsets (`api.py:125`), and the next pass adds the device again.
- `FoundByAddress` leaves out a join that met a swap of the lists (the map is told,
  the list's new object is not) and devices that shared the old address; both heal
  with the next pass, which `ListHeals` checks. `ListHeals` and `RanLearns` leave
  out a JoinAccept that put a deleted device back on the list (`devices.py:239`):
  every later pass fails to update it in RAN and ends there.
- `EventuallyRouted` leaves out a device whose insert failed at the start: the
  list knows it, so the periodic sync never adds it (`device_sync.py:198`).
- `MembersAgree` and `GroupsConverge` are of groups whose address does not pass
  to another group. `GroupsConverge` leaves out groups whose removal was early or
  never came (finding 4), the second attempt at a move that an error cut short,
  which RAN refuses in every pass (`ran_hooks/multicast_groups.py:94`), devices
  routed after their group was pulled, and a pass cut short before a group changed
  back.
- `Drained` allows a result that the first node's handler put after the second
  node had left (`manager.py:39`): its uplink is published and never answered. Nor
  is it of uplinks that the signal finds in the queue of a node whose `get` has
  just timed out: some turns of the event loop later the node looks at
  `stop_event` and leaves (`StopSet`).
- `OrderlyStop` is of a shutdown that cancelled nothing. It does not say that the
  RAN core is closed: after a delay, `run` does not await `disconnect_task`
  (`ran.py:431`). A connection that is made just after `disconnect_on_stop` looked
  (`mqtt.py:176`) makes `main` cancel the client.
- `ConnectsAgain` is of connections. The router subscribes once (`chirpstack.py:372`),
  on the MQTT client of that time; after an error a new client connects
  (`mqtt.py:210`) and nothing subscribes on it: the bridge publishes and hears
  nothing. No text of the repository claims otherwise, so the subscription is left
  out of `Lifecycle` and no property is about it.
- Hazards that only such an exception meets have no property, or a note, in
  `PROJECT.json`: the properties named there catch what goes wrong beyond it.
- `ServiceEnds` leaves out one way not to end: without a stop signal, `main`
  cancels `RanTrafficRouter.run` while it awaits the loop it has cancelled itself,
  and `run` takes this cancellation for that of the loop (`ran.py:419`).

### Findings

1. `ran.py:85`: a waiter that timed out is still in the set a pass walks;
   `set_result` raises `InvalidStateError` and the ack sync task is gone. After
   that duplicates that wait are rejected by their timers (`DuplicateAnswered`
   still holds).
2. `devices.py:226`: of a device that moved to another application, the new list's
   addition and the old list's removal come in no set order. When the removal is
   last, RAN deletes the device and no later pass adds it, as the new list knows it.
   In the trace of `DevicesMoved` the old application was already pulled when the
   device moved, so the removal comes one pass after the addition; a new application
   visited before the old one has the same end within one pass.
3. `device_sync.py:224`: `lstrip("0x")` also strips the leading zeros of a
   DevEUI; the device is taken for an orphan and deleted.
4. `multicast_groups.py:177`: the removal loop is inside the loop over the
   listing; groups not pulled yet are removed from RAN.

### Not modelled

Lists of several tenants (the loop over applications once more), gateway
statistics, health check, settings, logging and scripts. Of the modelled parts:
the radio parameters and the bits of frames; time, so the interval of `Periodic`
and which cache entry is the oldest; tags and device profiles, which select the
devices beforehand; groups without an address, changes of a group's name, and the
pages of the listing of groups; several contexts of one device's joins; MQTT
subscriptions, topics and listeners; what `main` builds before the MQTT task, the periodic
tasks and the health check, which end by `stop_event` alone; a second stop signal,
which exits at once; exceptions raised while a connection is closed.

## 4. Proofs

### Upstream

`UpstreamProofs` proves, for any number of messages, payloads, MICs, pool slots,
faults, device changes and expired cache entries:

- `InductiveInvariant`: `Spec => []IInv`;
- `TypeCorrect`: `Spec => []TypeOK`;
- `AnswersNeverDisagree`: `Spec => []AnswersAgree`;
- `NoneForgotten`: `Spec /\ []KeysKnown => []NoOrphan`, for `NothingExpires`;
- `GivesUpLast`: `Spec => []MicFailedMeansAllTried`;
- `NoContradiction`: `Spec => []NoAckAndMicFailed`.

`UplinkContractProofs` adds, for the same constants:

- `ImplementsContract`: `Spec => ContractKept`, the refinement of `UplinkContract`;
- `AcksAreHonest`: `Spec => []AckMeansForwarded`.

They rest on the assumptions of `Upstream` on its constants: every transaction
has a payload of some kind and a challenge of 1 to `MaxMics` MICs, pools have at
least one slot.

The properties are not inductive: nothing in the last two says why a handler that
finds one try left is the last. The argument is a count. While a transaction is tracked,
`micTries` plus the uplinks already counted as failures make up its challenge
(`TriesCount`). The handler that takes a result holds an uplink that has not
been counted (`QueueOK`: each queue holds an uplink once, and only uplinks whose
state says so). So if `micTries` is 1, all other uplinks have been counted, and a
counted uplink is never answered: that is `LastStanding`, kept from the moment a
MIC reject is sent. `ChallengeOK`, `OriginalOK` and `OthersOK` tie answers to
their uplink or submitter, so that a contradiction between two answers of a
transaction would be one between two of its uplinks. Lost connections and expired
entries only close transactions, which the count allows.

`AnswersAgree` needs to know why two handlers cannot judge one message
differently. `JudgedOnce` says that, as long as no device changed, each verdict,
wherever it is kept (the state of an uplink, a result in the queue, an answer),
is the one the lists give, which does not depend on the time it was asked for; so
two acks name the MIC that fits (`SaysAgree`). The answers to a duplicate are at
most one (`OthersOK`).

`NoOrphan` is proved where nothing is lost by design: no cache entry expires, every
payload parses (`NothingExpires`), and no join is of a device without its key
(`KeysKnown`). Each is needed: an expired entry, an exception of the parser after
the bookkeeping (`ran.py:328`), or an `InternalError` leaves an original behind.
The run checks the property with data frames; the theorem has joins as well.
`NothingLost` says, as long as nothing failed, that the connection is up, that
originals are live, and that all uplinks of a tracked original are pending or
counted while a try is left: `TriesCount` then makes one of them pending.

The refinement needs two facts more. `AckSources`: wherever an ack is on its way,
in an uplink, the cache, a future or a submitter, its MIC is one the payload was
forwarded with. `AnswerCount`: an original has as many answers as it has uplinks
that were answered, so there are no more than its MICs. With these,
initial states map to initial states; `ReceiveNew`, `ReceiveMalformed` and
`ReceiveDuplicate` map to `Hear`, `Published` to `Forward`, `AnswerSent` and
`DuplicateSent` to an answer, and every other step leaves the contract's variables
as they are.

### Downlink

`DownlinkProofs` proves, for any number of frames, contexts, items, results of
RAN, pool slots and faults:

- `InductiveInvariant`: `Spec => []IInv`;
- `TypeCorrect`: `Spec => []TypeOK`;
- `AckedOnceTruthfully`: `Spec => []OneTruthfulTxAck`;
- `AckedInFull`: `Spec => []TxAckAligned`;
- `AcceptedOnce`: `Spec => []OneAcceptPerJoin`.

The argument follows the one right to answer a frame: an entry of `tracked`, taken
by the first result (`TrackedOK`), then an entry of `resultQ` (`Waiting`), a
suspended handler (`Published`), or the TxAck (`Acked`), one of them at a time and
with the status of that first result. `CountedOK` says that the ignored items are
counted before the first is handed over, although RAN may answer before the send
returns. A JoinAccept past its lookup holds the context another would need, and
contexts never come back (`AcceptsOK`).

### DeviceList

`DeviceListProofs` proves, for any number of devices, addresses, changes and
failures, any order of the listings and any size of their pages:

- `TypeCorrect`: `Spec => []TypeOK`;
- `HookedRouted`: `Spec => []HookedIsRouted`;
- `SkipsBounded`: `Spec => []SkippedBounded`;
- `IdleAgreed`: `Spec => []IdleAgreement`, for `Apps = {a}`.

`ControlOK` says what a pass works on at each point. `HookedOK`: a device the loop
is past is routed as it was pulled, but for the one whose insert RAN refused.
`AgreeOK`: how far the pass has taken RAN from what the local list says
(`AsListed`) to what was pulled (`AsPulled`), device by device. With two
applications `IdleAgreement` is false (finding 2), so the hypothesis is needed.

`SkippedBounded` is about places. `Behind` are the devices that are not pulled and
whose place is not after the offset; `PagingOK` bounds their number by `shifts`. A
page takes the places after the offset, so asking for one puts nobody behind it. A
device that leaves moves others one place forward, and only the one that was first
after the offset gets behind it (`RankAfterLeave`, `RankUnique`); one that enters
moves them back (`RankAfterEnter`). At the empty page all devices are behind the
offset, as a listing has no gap (`NoGap`, from a least element of a finite set).

### JoinSync and DeviceSync

Both extend `DeviceList` and take its steps, so the lemmas on single steps are used
again.

`JoinSyncProofs`, with joins between any two calls of a pass:

- `JoinTypeCorrect`: `JoinSpec => []JoinTypeOK`;
- `FoundByItsAddress`: `JoinSpec => []FoundByAddress`.

The object of a context that is the list's own is on that list (`HeldOK`), and
`MapsOK` states the property of every application, so that a list that is created
again starts from two empty dicts.

`DeviceSyncProofs`, for any content of RAN's table and any failed calls:

- `SyncTypeCorrect`: `SyncSpec => []SyncTypeOK`;
- `OthersNeverMatter`: after the full sync, a device that no failed call hit and
  whose DevEUI does not begin with a zero is routed as its list says, or gone if it
  is on none;
- `ErrorsIsolated`: `SyncSpec => []ErrorsAreIsolated`, if no DevEUI begins with a zero;
- `MatchingLeft`: `SyncSpec => []MatchingUntouched`, if no DevEUI begins with a zero.

The hypothesis of the last two excludes finding 3, which violates them. The
invariant is stated for one device (`DeviceOK`): which of the three loops has it
(`KindOK`), that an entry that was right is as it was read (`LeftAlone`), and how
far the loops have taken it from the snapshot to what its list says (`Progress`).
No part of it speaks of another device, which is why errors stay with theirs.

### MulticastGroups

`MulticastGroupsProofs` proves, for any groups, members, addresses, changes of
routing and failing calls:

- `TypeCorrect`: `Spec => []TypeOK`;
- `MembersAgreed`: `OwnAddresses => (Spec => []MembersAgree)`.

`OwnAddresses` says that no two groups ever have the same address; ChirpStack
allows an address to pass from one group to another, and then the property can
fail. The invariant hands a promise over: RAN has at a group's address just the
members of a copy of the group that are routed (`Holds`). Until the group is pulled
the local copy makes the promise (`UnpulledOK`), once its hook has returned the new
one (`PulledOK`), and in between the calls the hook still has to make are what is
missing to it (`HookOK`). `OwnersOK` and `OwnAddresses` keep other groups' calls
away from it.

### Lifecycle

`LifecycleProofs` proves, for any number of uplinks and of broken connections:

- `TypeCorrect`: `Spec => []TypeOK`;
- `UplinksDrained`: `Spec => []Drained`;
- `EndsOrderly`: `Spec => []OrderlyStop`.

The invariant has a part for each component. `PipeInv`: a node that is over has no
running handler, and the first node leaves its loop only when nothing of `early` is
in its queue (`StopSet` takes out what it strands), unless the manager was cancelled.
`MqttInv`: the client is connected only inside `_subscribe_worker`. `RanInv`: `run` leaves loops behind only if it was
cancelled. `MainInv`: `main` waits for every task that was at work, so at the end
all are over. Each part is kept by the steps of its component, and by the others
because they leave its variables alone (`PipeFrame`, `MqttFrame`, `RanFrame`,
`MainFrame`). `OrderlyStop` follows from all four. The only assumption is that
`MaxFaults` is a natural number.

### Model-checked only

Every invariant of a passing run is proved, under the hypotheses named above.
Liveness under fairness is out of the prover's reach: all PROPERTIES but
`ContractKept` stay with TLC, and so do the properties of the runs that expect a
violation. What the bounds of a run leave open for these is named in section 3.

The invariants used in the proofs were model-checked on the instances of section 3
before they were proved; `PagingOK` with three devices.

## 5. Plan

1. Proofs: what each component of `Lifecycle` guarantees alone, as theorems of its
   own specification; step properties of the paths (a TxAck or an answer is never
   taken back); `IdleAgreement` for several applications when no device moves.
2. `TtlCache`: the cache with a clock and its order of entries; it implements the
   loose `AfterClean` the paths use.
3. Lists of several tenants, and groups of several applications.
