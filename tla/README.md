# TLA+ specifications of jq-ble

jq-ble connects the synchronous `jacquard` router to asynchronous Bluetooth Low
Energy. Its difficulty is in the joints: one runtime task that reacts to a radio
it does not control, bounded queues between tasks, state that is read before an
await and used after it. These modules model those joints, TLC checks them on
small instances, and TLAPS proves their safety for every instance: each invariant
and action property that a passing run checks is a theorem. Liveness is left to TLC;
the invariants most of it rests on are proved.

Paths below are relative to `src/crates/`.

## 1. Inventory

| Component | Keeps | Operations | Talks to |
| --- | --- | --- | --- |
| `PeerSessions` (`jq-link-profile/src/transport.rs`) | per peer: preferred session, GATT fallback, notify subscribers | install, promote, downgrade, subscribe, look up | the runtime task |
| BLE runtime task (`jq-link-profile/src/task.rs`) | peer directory, sessions, L2CAP channels, restored devices, deferred control events, startup state | one handler per central, peripheral, L2CAP or command event | `blew` (radio), ingress mailbox, L2CAP tasks |
| Startup state (`startup.rs`, `try_startup` in `task.rs`) | a step per thing to start | power changed, retry due, try each step | adapter, runtime task |
| L2CAP channel tasks (`l2cap.rs`) | an outbound queue, a share of the event queue | read loop, write loop | runtime task, link |
| GATT layout, discovery UUIDs (`gatt.rs`), notify targets (`notify.rs`), identity read (`session.rs`), cast evidence (`cast.rs`) | nothing | pure functions and reads | runtime task |
| Host bridge (`jq-client/src/bridge.rs`) | pending observations, drop counter | `advance_round`, `wait_decision` | mailbox, router, runtime task |
| Client task (`jq-client/src/client.rs`) | route cache, projector, admission, public topology | command loop, send, multicast, publish, park, shutdown | bridge, callers |
| Projector, multicast admission (`projector.rs`, `multicast.rs`) | topology, edge observations, snapshot, the subscribers | ingest observation, snapshot, support | client task |
| Router assembly, effects, framing (`routing.rs`, `effects.rs`, `framing.rs`) | logical clock, storage | constants, in-memory stores, prefix | external router |
| Host service (`demo/src/lib.rs`) | a slot for the service, permits of the relay | start, pump, relay with retries, forward events, drop | client |
| Node profile (`jq-node-profile`) | nothing | builders of topology records | applications |

What is hard here:

* *Concurrency.* The runtime task, two tasks per L2CAP channel, the client
  thread, the pump and the relay tasks run at once, over bounded queues.
* *Radio events in any order.* A device may disconnect, come back as somebody
  else, subscribe before it is known, or be one of two addresses of a peer.
* *Awaits.* `try_startup` awaits six times, and the adapter may lose power at
  each; a client round awaits the runtime's queue.
* *Failure.* A channel dies in one direction; a round fails after it has taken
  its input; a start call loses a race after it has built a whole service.

What makes each part correct: traffic is attributed only to proven identities;
what the router was told matches what the task has; no control event is lost;
the radio comes up and the task knows it; a broken channel is left; no wakeup is
lost; every send is answered; what an application is shown is consistent and
current; an abandoned service goes away. `PROJECT.json`
lists each hazard at its line with the property that would catch it.

## 2. Modules

```
PeerSessions ── BleSessions ── BleRuntime ──(implements)── ReliableIngress

Startup        L2capChannel        ClientLoop

MeshTopology ── ClientView         Framing ── HostService
```

The theorems about a module `M` are in `M_proofs`, which extends it:
`PeerSessions_proofs ── BleSessions_proofs ── BleRuntime_proofs`, and
`Startup_proofs`, `L2capChannel_proofs`, `ClientLoop_proofs`, `ClientView_proofs`,
`HostService_proofs`.

Each component has an `MC` module that gives TLC concrete nodes, devices, callers or sides.

* **PeerSessions**: the enum `PeerSessions` as a record with `mode`
  (`"disconnected"`, `"gatt"`, `"l2cap"`), session, fallback and notify set, and one
  operator per method. `DowngradeL2cap` is the code's: only the named channel is
  left, for the fallback if there is one.
* **BleSessions**: the runtime task. `peers` is the peer directory, `sessions`
  and `channels` the two maps, `restored` what the platform gave back at launch.
  Every handler is one action, its early returns are disjuncts, and what it does
  outside is in `emits` (ingress events in order) and `radio`. `reported` is a
  history variable: the last link event emitted per peer and link class. The
  platform may report anything about any device at any time; reads, channel
  openings and sends fail at will. `NodeIdsServedBy` says which identities a
  device may answer with: a peer in `Rotating` may be live behind two device ids
  (the advertised address rotates, as the discovery policy in `gatt.rs` expects);
  of another peer the platform has reported the old id gone first.
* **BleRuntime**: the same handlers with the loop around them: at the top of the
  loop deferred events are flushed into the bounded mailbox, then one handler
  runs, then its events go out one by one (`EmitEvent`: control events that do
  not fit are deferred, payloads are dropped), while the bridge drains at any
  moment. The history variable `taken` is what the last step drained.
  **ReliableIngress** is the abstract promise about control events: each one a
  handler hands over is accepted as one copy in flight, and stays that one copy
  until the bridge takes it.
* **Startup**: `BleStartupState` and `try_startup` with one action per await.
  The adapter (`powered`, `listener`, `service`, `advertised`, `scanning`) loses
  everything when power goes, at any await; the power events follow later on two
  streams.
* **L2capChannel**: both ends of one channel, three tasks each, joined by
  bounded queues and a bounded wire. A dispatch that finds its queue full waits,
  and takes no event meanwhile.
* **ClientLoop**: the client task and `advance_round` with one action per point
  at which another thread can be seen: the notifier snapshot, the drain, the
  router, the flush, the dispatch that waits for room and fails once the runtime
  task has ended (`RuntimeStops`), parking. A send is refused, or
  queued and followed by a round; which of the two is `ClientView`'s concern.
* **ClientView**: the data of the same task. `projector` is the
  `TopologyProjector` with its four fields, `subscribers` the multicast
  admission, `cache` the route cache, `public` the shared topology. A round is
  one step from the batch it has staged to the report it applies, since only the
  client thread touches this state. It may fail before the router is done or in
  the flush, and then the batch and what the router decided are gone; it may ask
  for the one follow-up round of `drive_bridge_round`. A send takes the cached
  route, or activates one, which is projected before the payload is forwarded
  and queued. Publication is two steps, the store and the broadcast, because a
  caller of `topology_stream` sees between them. The external router is a set of
  active routes and the topology it was last given; which route it offers, with
  which owner and hop hint, when it ends one and when it fails is arbitrary. `SanitizeTopology` is the view the
  host application passes on. History variables (`fanout`, `unseen`,
  `outcomeLost`, `skipped`) record what a failed call took with it, so that the
  properties can say that nothing else goes missing.
* **MeshTopology**: the topology records and the validating builder as pure
  operators. `Build` returns the name of the first error, in the code's order of
  checks. `Consistent` says the same without an order; `MCClientView` compares
  the two on all small inputs (`BuilderMatchesReference`), and
  `ClientView_proofs` for inputs of every size.
* **Framing**: client payloads, application frames and invites as pure operators
  over sequences of fields. `MCHostService` checks that they round-trip and
  accept nothing else (`FramesRoundTrip`, `InvitesMatchReference`).
* **HostService**: overlapping `start` calls, who holds a service or its client,
  the pump, which tells the received byte strings apart with `Framing`, its
  permits, relay retries, and the event forwarder.

Operators named `X_Y` with a comment "Mutation" are deliberate faults in `X`.
They are used by no specification; each shows that a property can tell the fault.

## 3. Runs

| Run | Shows |
| --- | --- |
| `sessions` | For every peer: `SessionsBacked`, `ChannelsBacked`, `EmitsBacked` (nothing is attributed to an identity that is not proven for the device), `UniqueEgress`, `NotifyOnlyReceivers` where notifications can be targeted. For a peer that is behind one device at a time: its session never prefers a dead channel, its device can be sent to, the last report per link is exact, the fallback is honoured. |
| `ingress_backpressure` | The mailbox with its deferred queue implements `ReliableIngress` (no control event is lost, duplicated or invented), and drains. |
| `startup` | With and without L2CAP and a restored service: belief matches the platform at rest, the task waits for power exactly when there is none, an adapter that stays on comes up. |
| `l2cap` | Gapless in-order delivery, no payload both over the channel and the fallback; write-dead channels are left and dispatch returns, where the event queue has room for what the peer sends and for the closures and one side only sends more than the channel buffers (see the bounds). |
| `client` | No lost wakeup, every event accounted for, sends answered, receipts honest, payloads handed over once and in order, shutdown works, all with rounds that may fail. |
| `client_view` | The repository's own builder refuses of a published topology exactly the routes shown as reachable with a hop hint of 1, and of the sanitised one also the direct routes of another owner; all the rest passes (`RefusalsExact`). The incremental snapshot equals a fresh projection, and the router has the topology it is made from (`DerivedFresh`). An idle client shows its projection (`PublicCurrent`) and exactly the router's routes (`RoutesLive`), a reader ends up with the latest topology (`ReaderCatchesUp`), multicast is admitted for exactly the live subscribers (`AdmissionExact`). Each of these names the failure after which it may not hold: a call that failed after it changed the projection, an outcome lost with its round, an update between a reader's snapshot and its subscription. |
| `host_start` | One service wins; an abandoned one stops its client; relays end and return their permits. |

The other runs end in a counterexample to something a comment or the
repository's README says, and are recorded as findings:

| Run | Counterexample |
| --- | --- |
| `rotation_fallback` | One device of a peer disconnects; the channel of the other is dropped with it; the next payload is lost instead of falling back to GATT. |
| `linux_fanout` | A central subscribed before it was resolved gets the BlueZ broadcast without being a receiver. |
| `ingress_reorder` | A new control event overtakes deferred ones; the router keeps a link state that is over. |
| `l2cap_stall` | The failed writer waits on the runtime and the runtime on the writer. |
| `forwarder_leak` | The event forwarder keeps alive what it waits to end. |

More disagreements have no run of their own. Under the hazards: a second device
of a rotating peer with an L2CAP session cannot be sent to; ingress beyond
`inbound_capacity` is dropped and does not stall the runtime task; a failed power
query counts as power off. Two kinds of routes are shown that the builder would
refuse, and `RefusalsExact` says that there are no others. The projector shows a
route whose hop hint is unknown or at most 1 and whose ends no usable edge joins,
faulted or absent, as reachable with a hint of 1 (`projector.rs:293`, `:340-351`;
`authoring.rs:337` and its test `jq-node-profile/tests/topology.rs:244` refuse it);
and `sanitize_topology` keeps a direct route between two neighbours but not its
edge (`demo/src/lib.rs:554-579`). And one that two lines settle without a state
space: `try_start_advertising` (`task.rs:393`) puts only the identity UUID on the
air, while `gatt.rs:5` describes a hint UUID and `handle_device_discovered`
(`task.rs:494`) skips a device without one.

### Bounds

Two peers and two devices (`sessions`) give every pair that matters: two devices
of one peer, one device that changes hands, two peers that compete for a device.
One of the peers is in `Rotating`. Devices are interchangeable, so the run uses
symmetry over them. Two channels allow an old and a new channel of the same
device with late events of the old one. The run identifies states that differ
only in `radio`, which no step reads and no invariant but the type mentions; the
action properties look at its new value in every step TLC generates.

`ingress_backpressure` uses one peer, one device and a mailbox of one slot, so
that nearly every emit meets a full mailbox; `MaxDeferred` (4) bounds the queue
the code leaves unbounded. `startup` allows four power changes and two transient
errors, enough for off and on again inside one `try_startup` and once more while
its events are queued.

In `l2cap` queue and wire hold one item and one side sends five payloads, so that
it waits in its dispatch and its peer's queues fill. The other side sends one,
and the event queue has room for that and the two closures a side can get: this
is the condition under which a side that waits cannot be stopped by its own full
event queue. `l2cap_stall` shows what happens without it: the two liveness properties
of `l2cap` hold under these bounds and not for every capacity.

`client` has two events, two sends and capacities of one or two, so that a round
finds more than it can take and a dispatch has to wait, or fails when the runtime
task ends meanwhile; `MaxWork` bounds the
rounds the router asks for on its own.

`client_view` has a neighbour in radio range and a node beyond it, starts either
alone or with a mesh that has both, and makes at most two rounds after the start
(`MaxTick`) with at most three events and activated routes in all (`MaxChanges`).
Routes belong to the local node or to another one, with hop hints of 1 (the code
treats an unknown hint and 0 alike) and 2.
That is enough for a route that is activated, changes its shape with its edge and
ends, for a subscriber that comes and goes in one batch or in two, and for a
follow-up round that fails after a change. Capacities of one make the dispatch
mailbox full after a failed round and a reader lag after two updates. Each mutant
of the run is found within these bounds; the next larger instance (3.6 million
states) was checked as well.

`host_start` has two start calls, one
permit and two attempts, and two frames that compete for the permit.

### Fairness

Tasks are polled by tokio when they can go on, and timers fire: weak fairness on
the steps of tasks (`TaskStep`, `ClientStep`, the channel tasks, the relay and
pump steps), on the retry timer and on the bridge's drain, which every emit
wakes. Nothing is assumed of the environment: no peer has to appear, no caller
has to send or let go, no event has to come, the link need not fail or heal.
`EventuallyUp` holds for behaviours in which power changes and errors come to an
end, which the bounds on them imply. The session specification and `ClientView` are safety only.

Deadlock is checked where the modelled part cannot stop (`sessions`,
`client_view`); the other systems may: a quiet radio, an idle client, a stopped
task.

## 4. Proofs

All theorems hold for every value of the constants that satisfies the named
assumptions. Each inductive invariant below, and each invariant a theorem states
that no run lists, was checked with TLC on the run of its module first.

**Sessions** (`PeerSessions_proofs`, `BleSessions_proofs`). The lemmas of the first
say what the session operators return, which devices the result refers to, and
that lookups answer only for devices the entry refers to.

* `TypeCorrect`: `Spec => []TypeOK`.
* `BackedInvariant`: `Spec => []BackedInv`, with
  `BackedInv == TypeOK /\ SessionsBacked /\ ChannelsBacked /\ RestoredUnknown`.
  `SessionsBacked` alone is not inductive: the closure of a channel puts a
  fallback back into use, and a frame is attributed through the channel record,
  so channels have to be tied to identities too (`ChannelsBacked`); and the
  rehydration of a device overwrites its identity, which is harmless only because
  a restored device has none before (`RestoredUnknown`). From it follow
  `SessionsAreBacked`, `ChannelsAreBacked`, `EgressIsUnique` and `EmitsAreBacked`.
* `StableInvariant`: `Spec => []StableInv`, which says of each peer that is behind
  one device at a time (`Stable`) that it is resolved behind at most one
  (`OneDevice`), that a proven peer has an entry that can be sent to, with a
  registered channel and a fallback where it prefers L2CAP (`Connected`), and
  that the last report of each link class matches the entry
  (`UnicastReported`, `NotifyReported`). The four need each other and
  `BackedInv`: a downgrade reports the link it falls back to, and that report
  is true only because the device is the peer's only one.
  From it follow
  `NoChannelDangles`, `ResolvedAreReachable`, `UnicastReportsAccurate`,
  `NotifyReportsAccurate` and the action property `FallbackIsHonoured`.
* `NotifiesOnlyReceivers`, an action property: a notification that can be targeted
  reaches only the receivers it was admitted for.

**Ingress** (`BleRuntime_proofs`). `RuntimeInv` adds to the types that a handler's
events are emitted before the loop goes on. `RuntimeTypeCorrect` bounds the
mailbox. `IngressIsReliable` is the refinement of `ReliableIngress`, step by step:
a handler offers its events, an emit accepts the next one as one more copy of it and
of nothing else, a flush moves events from the deferred queue to the mailbox without
changing how often each is in flight, and a drain takes exactly what leaves. It rests on lemmas that count
occurrences in a queue when it is extended, cut or concatenated.
`ImplementsSessions` shows that the runtime takes only steps of `BleSessions`, so
the session theorems hold of it as well.

**Startup** (`Startup_proofs`). What the task believes started is running *or* a
power loss is still queued for it; without the second half no step preserves the
first, because the adapter loses power at any await. `StartupInv` joins this with
the order of the steps, what an unsupported L2CAP implies, and that the last queued
power event is about the present. It gives `StartedRuns`. `OffMeansWaiting` (a dead
adapter is left alone) and `WaitsExactly` have an invariant each of the same shape.
`NothingLeftOut` is the safety half of `EventuallyUp`: the task does not come to
rest (`RestMeansUp`: with power, every power change seen and no retry due) before
everything is up. Its invariant `PendingCovered` says that a step is left pending
only in front of the await that starts it or behind a step that will be retried.

**L2CAP** (`L2capChannel_proofs`). `Gapless`: what was delivered, the event queue,
the frame the reader holds, the wire, the frame the writer holds and the outbound
queue are, read in this order, one run of consecutive numbers, up to the first
stage that has closed or failed. `GattAfter`: what went by the fallback comes after
everything the channel still carries. They give `DeliveredGapless`; `TypeCorrect`
has the bounds of the queues. `ClosuresReported`: a runtime that uses a channel one
of whose tasks has ended has the closure in its event queue, on which
`WriteDeadDowngraded` rests. `ChannelLossless`: while no direction of the link has
failed, both ends stay registered and every dispatched payload is delivered or in one
of the stages; it follows from `Gapless` and `Undisturbed` (no task has ended, no
closure is queued).

**Client** (`ClientLoop_proofs`). `ClientInv`: a round holds events and payloads
only between its own steps; ingress is numbered upwards from what was applied to
the mailbox, and its parts, with what was lost, dropped and reported, add up to what
was emitted; the same order for sends, from what was handed over to the command
queue; the send of the current round is in it. It gives `TypeCorrect`,
`IngressIsAccounted`, `ReceiptsAreTrue` and `HandedInOrder`. Two more theorems are
what `SendAnswered` and `IngressTaken` need besides a fair scheduler. `CallersKept`:
a queued send is answered, queued, or the one whose round runs
(`NoCallerForgotten`, inductive with the types). `WakeupsKept`: a parked client
with work left has a wakeup to come (`NoWakeupLost`); its invariant `WakeupInv` says
that from the drain on, an event that arrives moves the notifier past the snapshot the
round took before it.

**View** (`ClientView_proofs`). `ViewInv` has five parts: where the thread is
(`TaskInv`), the admission against its history (`AdmissionInv`), the projector and
the router's input (`ProjectionInv`), the published topology against the snapshot
at each point of a round (`PublicInv`), and the reader's feed (`ReaderInv`). The
centre is `Faithful(p)`: the generic projection and the observations are those of the
topology, and the snapshot is made from both. Every projector operation preserves
that, and one that reports no change has left the snapshot as it was. A round applies a batch by
recursion; that the whole report is faithful is shown at the least position at
which it could fail. The theorems are `TypeCorrect`, `PublicIsCurrent`,
`DerivedIsFresh`, `RoutesAreLive`, `ReaderCatches` and `AdmissionIsExact`.

`BuilderAcceptsConsistent` is about `MeshTopology` alone: for node, edge and route
lists of every length, `Build` answers `"ok"` exactly if the input is `Consistent`.
Each of the three passes of the builder stops at its first error, so it answers
`"ok"` exactly if every position passes, and a pass without duplicates is one whose
list is injective. `RefusalsAreExact` then needs only what is
shown: `BuildInv` says that the routes the projector holds are typed, that the
published snapshot is sound (`SoundSnapshot`: edges and routes are between its nodes,
and a direct route has the kind of its edge as mix), that every direct route in it has
its edge, and that a route reachable in one hop has no usable one (`ShownSnapshot`).
The sanitised view is sound too, but keeps only the edges from the local node. Of a
sound snapshot the builder refuses exactly the routes with a hint of 1 and the direct
ones without their edge (`SoundRefuses`); it gets the snapshot as lists of its finite
sets.

`ViewsAdvance` is an action property: a publication takes back no node and no edge, and
its tick is not older. The projector's topology only grows (`Grown`, for whole batches),
and what is public is never ahead of it (`PublicBehind`), also after a failed round.

**Host** (`HostService_proofs`). `HostInv`: `OneService`, that the slot holds the
service of a call that succeeded and a host that is gone has none (`SlotOwned`), and
that a relay under way has an attempt left (`RetryBudget`). It gives `TypeCorrect`,
which has the limit on permits, and `OneServiceInstalled`. `ClientsOutliveHolders`
is about `Lifetime`: every holder of a client, a relay that sleeps between two attempts
included, holds a running one, and a running pump belongs to a service somebody holds;
both need that a call in progress holds what it has built.
`ClientPayloadsExact` and `ApplicationFramesExact` are about `Framing` alone, for
payloads over any alphabet and of any length: decoding undoes encoding, and only
encodings are decoded.

Assumptions: those of the modules, which the runs evaluate. They say that
capacities are positive, bounds are numbers, `None` is none of the values it stands
beside, that a client is created with a well-formed topology that contains the
local node, that there are finitely many node ids (they are byte arrays of fixed
length), and that a route of the router is between nodes with a number (a `u8`) as hop hint. Three theorems or groups
of theorems have one more:

* All of `BleSessions_proofs` but `TypeCorrect`: a discovery hint does not overwrite
  a proven identity (`~HintReplacesResolved`). `PeerDirectory` belongs to an
  external crate; with the opposite answer a device could lose its identity while
  its sessions stay.
* `NotifiesOnlyReceivers`: not the BlueZ broadcast (`~LinuxNotify`); with it the
  property is false, as `linux_fanout` shows.
* `WaitsExactly` and `NothingLeftOut`: the power query answers (`~QueryMayFail`). A
  failed query counts as power off, and then the task waits although there is power.

Left to TLC: all that needs fairness (`DeferredDelivered`, `EventuallyUp`,
`WriteDeadDowngraded`, `DispatchReturns`, `IngressTaken`, `SendAnswered`,
`ShutdownStops`, `AbandonedStops`, `RelayResolved`), which is outside what the
prover supports; and invites, whose decoder splits, trims and parses their text,
which are compared with their reference over bounded inputs. Of the first, these have
the invariant they rest on proved: `EventuallyUp` (`NothingLeftOut`),
`WriteDeadDowngraded` (`ClosuresReported`), `IngressTaken` (`WakeupsKept`),
`SendAnswered` (`CallersKept`) and `AbandonedStops` (`ClientsOutliveHolders`).

## 5. Not modelled

* The external parts: `blew`, the router and its engine, the mailboxes and the
  peer directory, which appear only as the code uses them.
* Data without control: byte layouts, delivery support numbers, policy
  constants, tick values beyond their order.
* The choice of a route: the router's, and arbitrary here. That two nodes may
  route a frame to each other for ever depends on it; the frame carries no hop
  limit.
* The set of introduced peers: one lock, one event per insertion, no reader that
  anything depends on.
* The life of the runtime task after its client: dropping the client does not
  shut it down.
* Processor use of a select loop over an ended stream.

## 6. Plan

1. `ClientView` over the events of `BleRuntime` instead of arbitrary ones, so
   that a multicast admitted by the client is compared with the subscribers the
   task has when it dispatches it.
2. Several nodes that relay for each other, under an assumption on the routes.
3. Two runtimes that advertise, scan, connect and resolve each other, from
   `Startup` to the first session on both sides.
4. The life of the runtime task: client drop, detached tasks, shutdown.
