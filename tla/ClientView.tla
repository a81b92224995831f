----------------------------- MODULE ClientView -----------------------------
(***************************************************************************)
(* What the client task knows of the mesh and shows of it: the projector    *)
(* (crates/jq-client/src/projector.rs), the multicast admission             *)
(* (multicast.rs), the route cache and the send path (client.rs), the       *)
(* published topology, a reader of `topology_stream`, and the view the host *)
(* application makes of it (crates/demo/src/lib.rs).                        *)
(*                                                                          *)
(* ClientLoop has the control of the same task: when rounds run, wait, fail *)
(* and are answered.  Here a round is one step from the batch it ingests to *)
(* the report it applies, because only the client thread touches this       *)
(* state; publication is two steps, because readers see between them.  The  *)
(* router and the generic projector of jacquard-host-support are external.  *)
(***************************************************************************)
EXTENDS MeshTopology

CONSTANTS
    Self,              \* local_node_id
    Peers,             \* the other nodes
    Neighbours,        \* the peers in radio range
    None,              \* no next hop in a route
    Seeds,             \* the topologies a client may be created with
    Routes,            \* external: what the router may materialize: [owner, to, hint, mix]
    MaxTick,           \* bound on the logical clock, one tick per round
    MaxChanges,        \* bound on the ingress events and activated routes of a behaviour
    DispatchCapacity,  \* of the outbound dispatch mailbox
    FanoutLimit,       \* BLE_NOTIFY_FANOUT_LIMIT
    FeedCapacity       \* of the topology broadcast channel

Nodes == Peers \cup {Self}
Kinds == {"gatt", "l2cap"}
Links == [kind : Kinds, up : BOOLEAN]

(* The maps from keys in K to values in V.                                 *)
Maps(K, V) == UNION {[S -> V] : S \in SUBSET K}

Topology == [tick : 0 .. MaxTick, nodes : SUBSET Nodes, links : Maps(Nodes \X Nodes, Links)]

ASSUME ViewAssumption ==
    /\ IsFiniteSet(Peers) /\ Self \notin Peers /\ Neighbours \subseteq Peers
    /\ \A route \in Routes : {route.owner, route.to} \subseteq Nodes /\ route.hint \in Nat
    /\ {MaxTick, MaxChanges} \subseteq Nat
    /\ {DispatchCapacity, FanoutLimit, FeedCapacity} \subseteq Nat \ {0}
    /\ Seeds \subseteq Topology
    /\ \A seed \in Seeds : Self \in seed.nodes /\ DOMAIN seed.links \subseteq seed.nodes \X seed.nodes

VARIABLES
    clock,        \* next_tick of the runtime effects
    projector,    \* [topology, observations, host, snapshot]
    subscribers,  \* of the multicast admission
    cache,        \* route_cache: destination -> route id
    router,       \* external: [active, topology], its routes and its input
    outbound,     \* commands in the dispatch mailbox
    pc,           \* where the client thread is
    followUp,     \* this is the extra round of drive_bridge_round
    changed,      \* a round of this drive_bridge_round changed the projection
    owed,         \* topology_changed of the send that drives the round
    publications, \* publish_topology calls left before the thread is idle
    public,       \* the shared topology
    reader,       \* one caller of topology_stream
    budget,       \* events and routes left of MaxChanges
    fanout,       \* history: peers whose last fanout event was not a fault
    unseen,       \* history: peers whose last fanout event went down with a round
    outcomeLost,  \* history: a failed round had ended routes
    skipped       \* history: a call failed and left a change unpublished

task == <<pc, followUp, changed, owed, publications>>
admission == <<subscribers, fanout, unseen>>
viewVars == <<clock, projector, admission, cache, router, outbound, task, public, reader,
              budget, outcomeLost, skipped>>

-----------------------------------------------------------------------------
(* The projector *)

(* The map with one entry inserted, or replaced.                           *)
Insert(map, key, value) ==
    [x \in DOMAIN map \cup {key} |-> IF x = key THEN value ELSE map[x]]

Edge(snapshot, from, to) == <<from, to>> \in DOMAIN snapshot.edges

(* An edge that is not faulted.                                            *)
UsableEdge(snapshot, from, to) ==
    Edge(snapshot, from, to) /\ snapshot.edges[<<from, to>>].link.up

(* derive_route_delivery.  An unknown hop count is a hint of 1.            *)
DeriveRouteDelivery(snapshot, owner, terminal, hint) ==
    IF owner = terminal THEN LocalDelivery
    ELSE IF UsableEdge(snapshot, owner, terminal) /\ hint <= 1 THEN Direct(terminal)
    ELSE Reachable(IF hint > 1 THEN hint ELSE 1)

(* Mutation: the mix the engine names is taken for every delivery. *)
PathTransportMix_Named(snapshot, delivery, owner, terminal, named) == named

(* path_transport_mix, and the mix the route names where there is no path. *)
PathTransportMix(snapshot, delivery, owner, terminal, named) ==
    CASE delivery.type = "Local"     -> {}
      [] delivery.type = "Direct"    -> {snapshot.edges[<<owner, terminal>>].link.kind}
      [] delivery.type = "Reachable" -> named

(* project_observed_route of a route whose two ends are in the snapshot.   *)
(* The owner is the one the route's lease names.                           *)
ProjectObservedRoute(snapshot, id, route) ==
    LET delivery == DeriveRouteDelivery(snapshot, route.owner, route.to, route.hint)
    IN  [id |-> id, owner |-> route.owner, terminal |-> route.to, delivery |-> delivery,
         mix |-> PathTransportMix(snapshot, delivery, route.owner, route.to, route.mix)]

(* The BLE observation of the edge, or one made from the generic link.     *)
EdgeObservationFrom(observations, key, host) ==
    IF key \in DOMAIN observations THEN observations[key]
    ELSE [link |-> host.links[key], tick |-> host.tick]

MeshSnapshotFrom(observations, host) ==
    LET bare == [tick |-> host.tick, nodes |-> host.nodes,
                 edges |-> [key \in DOMAIN host.links |->
                                EdgeObservationFrom(observations, key, host)]]
        shown == {id \in DOMAIN host.routes :
                     {host.routes[id].owner, host.routes[id].to} \subseteq bare.nodes}
    IN  [tick |-> bare.tick, nodes |-> bare.nodes, edges |-> bare.edges,
         routes |-> [id \in shown |-> ProjectObservedRoute(bare, id, host.routes[id])]]

(* A projector operation gives the new projector and whether its snapshot  *)
(* is another one.                                                         *)
RefreshSnapshot(p) ==
    LET next == MeshSnapshotFrom(p.observations, p.host)
    IN  [projector |-> [p EXCEPT !.snapshot = next], changed |-> next # p.snapshot]

(* External: the generic projector takes nodes, links and tick as they are. *)
IngestTopology(p) ==
    [p EXCEPT !.host = [tick |-> p.topology.tick, nodes |-> p.topology.nodes,
                        links |-> p.topology.links, routes |-> p.host.routes]]

IngestMaterializedRoute(p, id, route) ==
    RefreshSnapshot([p EXCEPT !.host.routes = Insert(@, id, route)])

IngestRoundOutcome(p, ended) ==
    RefreshSnapshot([p EXCEPT !.host.routes = Restrict(@, DOMAIN @ \ ended)])

(* Mutation: the clock moves and nobody is told. *)
BumpTopologyTick_Silent(p, tick) ==
    [projector |-> [p EXCEPT !.topology.tick = IF tick > @ THEN tick ELSE @], changed |-> FALSE]

BumpTopologyTick(p, tick) ==
    [projector |-> [p EXCEPT !.topology.tick = IF tick > @ THEN tick ELSE @],
     changed   |-> tick > p.topology.tick]

EnsureRemoteNode(p, node) ==
    [projector |-> [p EXCEPT !.topology.nodes = @ \cup {node}],
     changed   |-> node \notin p.topology.nodes]

InsertLink(p, key, observation) ==
    [projector |-> [p EXCEPT !.topology.links = Insert(@, key, observation.link),
                             !.observations = Insert(@, key, observation)],
     changed   |-> \/ key \notin DOMAIN p.topology.links
                   \/ p.topology.links[key] # observation.link
                   \/ p.observations[key] # observation]

(* The bridge stamps a link event with the tick of its round; the numbers  *)
(* it derives for an active link follow from its transport and the tick.   *)
LinkObservationFromBleEvent(event, tick) == [link |-> event.link, tick |-> tick]

(* A payload moves the clock only; a link registers its node, too.         *)
IngestTransportObservation(p, event, tick) ==
    LET bumped   == BumpTopologyTick(p, tick)
        known    == EnsureRemoteNode(bumped.projector, event.node)
        linked   == InsertLink(known.projector, <<Self, event.node>>,
                               LinkObservationFromBleEvent(event, tick))
        ingested == IF event.type = "payload" THEN bumped
                    ELSE [projector |-> linked.projector,
                          changed   |-> bumped.changed \/ known.changed \/ linked.changed]
    IN  IF ~ingested.changed THEN ingested
        ELSE RefreshSnapshot(IngestTopology(ingested.projector))

-----------------------------------------------------------------------------
(* The multicast admission *)

IngestFanout(subs, event) ==
    IF event.type # "fanout" THEN subs
    ELSE IF event.link.up THEN subs \cup {event.node}
    ELSE subs \ {event.node}

(* The limit of the cast evidence.                                         *)
GattNotifyMulticastSupport(receivers) == Cardinality(receivers) <= FanoutLimit

SupportFor(receivers) ==
    /\ receivers # {}
    /\ receivers \subseteq subscribers
    /\ GattNotifyMulticastSupport(receivers)

-----------------------------------------------------------------------------
Projector(seed) ==
    LET host == [tick |-> seed.tick, nodes |-> seed.nodes, links |-> seed.links, routes |-> <<>>]
        observations == [key \in DOMAIN seed.links |-> [link |-> seed.links[key], tick |-> seed.tick]]
    IN  [topology |-> seed, observations |-> observations, host |-> host,
         snapshot |-> MeshSnapshotFrom(observations, host)]

(* initial_topology: the local node alone.                                 *)
InitialTopology(tick) == [tick |-> tick, nodes |-> {Self}, links |-> <<>>]

Init ==
    /\ \E seed \in Seeds :
          /\ projector = Projector(seed)
          /\ clock = seed.tick
          /\ router = [active |-> {}, topology |-> seed]
    /\ subscribers = {} /\ fanout = {} /\ unseen = {}
    /\ cache = <<>> /\ outbound = 0
    /\ pc = "idle" /\ followUp = FALSE /\ changed = FALSE /\ owed = FALSE
    /\ publications = 0
    /\ public = projector.snapshot
    /\ reader = [stage |-> "none", latest |-> FALSE, queue |-> <<>>, missed |-> FALSE]
    /\ budget = MaxChanges
    /\ outcomeLost = FALSE /\ skipped = FALSE

-----------------------------------------------------------------------------
(* Commands *)

(* drive_bridge_round is called; the bound leaves a tick for it.           *)
DriveBridgeRound(topologyChanged) ==
    /\ clock < MaxTick
    /\ pc' = "round"
    /\ followUp' = FALSE /\ changed' = FALSE
    /\ owed' = topologyChanged
    /\ publications' = 0

(* The round of the command loop.                                          *)
LoopRound ==
    /\ pc = "idle"
    /\ DriveBridgeRound(FALSE)
    /\ UNCHANGED <<clock, projector, admission, cache, router, outbound, public, reader,
                   budget, outcomeLost, skipped>>

QueueTransportCommand ==
    /\ outbound < DispatchCapacity
    /\ outbound' = outbound + 1

(* try_cached_forward with a route the router still holds and forwards on. *)
(* With a full mailbox the send is refused and nothing changes.            *)
TryCachedForward(to) ==
    /\ pc = "idle"
    /\ to \in DOMAIN cache /\ cache[to] \in router.active
    /\ QueueTransportCommand
    /\ DriveBridgeRound(FALSE)
    /\ UNCHANGED <<clock, projector, admission, cache, router, public, reader,
                   budget, outcomeLost, skipped>>

(* The cache as the slow path finds it: an entry whose route is active was *)
(* evicted when forwarding failed, another one is still there.             *)
Evicted(to) ==
    IF to \in DOMAIN cache /\ cache[to] \in router.active
    THEN Restrict(cache, DOMAIN cache \ {to})
    ELSE cache

(* External: the neighbour a route starts with.                            *)
NextHops(to) == IF to = Self THEN {None} ELSE Peers \cup {None}

(* activate_and_forward.  The router may refuse the route; otherwise the   *)
(* route is projected before the payload is forwarded and queued, each of  *)
(* which may fail and leaves the changed projection unpublished.           *)
ActivateAndForward(to) ==
    /\ pc = "idle"
    /\ UNCHANGED <<clock, admission, public, reader, outcomeLost>>
    /\ \/ /\ cache' = Evicted(to)
          /\ UNCHANGED <<projector, router, outbound, task, budget, skipped>>
       \/ \E route \in Routes, nextHop \in NextHops(to) :
             LET id       == budget
                 ingested == IngestMaterializedRoute(projector, id, route)
                 hasEdge  == Edge(ingested.projector.snapshot, Self, nextHop)
             IN  /\ route.to = to
                 /\ budget > 0 /\ budget' = budget - 1
                 /\ router' = [router EXCEPT !.active = @ \cup {id}]
                 /\ projector' = ingested.projector
                 /\ \/ /\ cache' = Evicted(to)
                       /\ skipped' = (skipped \/ ingested.changed)
                       /\ UNCHANGED <<outbound, task>>
                    \/ /\ hasEdge
                       /\ QueueTransportCommand
                       /\ cache' = Insert(Evicted(to), to, id)
                       /\ DriveBridgeRound(ingested.changed)
                       /\ UNCHANGED skipped

HandleSendMulticast(receivers) ==
    /\ pc = "idle"
    /\ SupportFor(receivers)
    /\ QueueTransportCommand
    /\ DriveBridgeRound(FALSE)
    /\ UNCHANGED <<clock, projector, admission, cache, router, public, reader,
                   budget, outcomeLost, skipped>>

HandleCommand ==
    \/ \E to \in Nodes : TryCachedForward(to) \/ ActivateAndForward(to)
    \/ \E receivers \in SUBSET Peers : HandleSendMulticast(receivers)

-----------------------------------------------------------------------------
(* Rounds *)

(* What a round may stage of the mailbox.  What it drops at its capacity   *)
(* never gets here; ClientLoop counts it.                                  *)
Events ==
    {[type |-> "payload", node |-> None, link |-> None]}
        \cup [type : {"link"}, node : Neighbours, link : [kind : Kinds, up : BOOLEAN]]
        \cup [type : {"fanout"}, node : Neighbours, link : [kind : {"notify"}, up : BOOLEAN]]

(* Mutation: a fanout link is projected like any other. *)
ApplyObservation_FanoutProjected(state, event, tick) ==
    LET ingested == IngestTransportObservation(state.projector, event, tick)
    IN  [projector   |-> ingested.projector,
         subscribers |-> IngestFanout(state.subscribers, event),
         changed     |-> state.changed \/ ingested.changed]

(* Mutation: the admission is told after the fanout observations are left out. *)
ApplyObservation_Unadmitted(state, event, tick) ==
    IF event.type = "fanout" THEN state
    ELSE LET ingested == IngestTransportObservation(state.projector, event, tick)
         IN  [state EXCEPT !.projector = ingested.projector,
                           !.changed = @ \/ ingested.changed]

(* One observation of a report: the admission sees all, the projector only *)
(* what is not a fanout link.                                              *)
ApplyObservation(state, event, tick) ==
    LET ingested == IF event.type = "fanout"
                    THEN [projector |-> state.projector, changed |-> FALSE]
                    ELSE IngestTransportObservation(state.projector, event, tick)
    IN  [projector   |-> ingested.projector,
         subscribers |-> IngestFanout(state.subscribers, event),
         changed     |-> state.changed \/ ingested.changed]

(* Mutation: the outcome is not ingested once an observation changed something. *)
ReportOutcome_ShortCircuit(observed, ended) ==
    IF observed.changed THEN observed ELSE IngestRoundOutcome(observed.projector, ended)

(* The outcome of the round is ingested whatever the observations did.     *)
ReportOutcome(observed, ended) == IngestRoundOutcome(observed.projector, ended)

(* The observations of a report in order: the state after the i-th.        *)
ApplyObservations(batch, tick) ==
    LET after[i \in 0 .. Len(batch)] ==
          IF i = 0
          THEN [projector |-> projector, subscribers |-> subscribers, changed |-> FALSE]
          ELSE ApplyObservation(after[i - 1], batch[i], tick)
    IN  after[Len(batch)]

(* apply_bridge_report: the observations, the topology back to the router  *)
(* if one of them changed it, then the outcome of the round.               *)
ApplyBridgeReport(batch, tick, ended) ==
    LET observed == ApplyObservations(batch, tick)
        outcome  == ReportOutcome(observed, ended)
    IN  [projector   |-> outcome.projector,
         subscribers |-> observed.subscribers,
         routerInput |-> IF observed.changed THEN observed.projector.topology ELSE router.topology,
         changed     |-> observed.changed \/ outcome.changed]

(* The fanout events about a peer in a batch; history variables only.      *)
FanoutOf(batch, n) == {i \in DOMAIN batch : batch[i].type = "fanout" /\ batch[i].node = n}
Reported(batch) == {n \in Neighbours : FanoutOf(batch, n) # {}}
ReportedUp(batch) ==
    {n \in Neighbours : \E i \in FanoutOf(batch, n) :
        batch[i].link.up /\ \A j \in FanoutOf(batch, n) : j <= i}
RecordFanout(batch) ==
    fanout' = (fanout \ Reported(batch)) \cup ReportedUp(batch)

AdvanceTick == clock' = clock + 1

(* advance_round up to the router: the clock moves, the mailbox is drained. *)
AdvanceRound(batch) ==
    /\ pc = "round"
    /\ AdvanceTick
    /\ budget' = budget - Len(batch)
    /\ RecordFanout(batch)
    /\ UNCHANGED <<cache, public, reader>>

(* An error goes back to the caller, past every publish_topology: the      *)
(* batch and what the router has done meanwhile are lost to the client.    *)
RoundFails(batch, ended) ==
    /\ AdvanceRound(batch)
    /\ pc' = "idle"
    /\ followUp' = FALSE /\ changed' = FALSE /\ owed' = FALSE
    /\ router' = [router EXCEPT !.active = @ \ ended]
    /\ unseen' = unseen \cup Reported(batch)
    /\ outcomeLost' = (outcomeLost \/ ended # {})
    /\ skipped' = (skipped \/ changed \/ owed)
    /\ UNCHANGED <<projector, subscribers, publications>>

(* The router refuses the batch or fails; what is queued stays queued.     *)
RouterFails(batch, ended) == RoundFails(batch, ended) /\ UNCHANGED outbound

(* flush_outbound fails after it has drained the queue.                    *)
FlushFails(batch, ended) == outbound > 0 /\ outbound' = 0 /\ RoundFails(batch, ended)

(* Mutation: the follow-up round decides alone. *)
Accumulated_Last(change) == change

(* A change of either round of drive_bridge_round counts.                  *)
Accumulated(change) == changed \/ change

(* The report is applied unless the bridge is Waiting; one more round if   *)
(* the router asks for it, then a change is published, once by the round   *)
(* and once more by the send that activated a route.  A change inside the  *)
(* engine that ends no route makes a report with nothing to apply, which   *)
(* differs from Waiting only in that the extra round may follow.           *)
RoundEnds(batch, ended) ==
    LET waiting == batch = <<>> /\ outbound = 0 /\ ended = {}
        applied == ApplyBridgeReport(batch, clock, ended)
        change  == Accumulated(~waiting /\ applied.changed)
        calls   == (IF change THEN 1 ELSE 0) + (IF owed THEN 1 ELSE 0)
    IN  /\ AdvanceRound(batch)
        /\ outbound' = 0
        /\ unseen' = unseen \ Reported(batch)
        /\ UNCHANGED <<outcomeLost, skipped>>
        /\ IF waiting THEN UNCHANGED <<projector, subscribers, router>>
           ELSE /\ projector' = applied.projector
                /\ subscribers' = applied.subscribers
                /\ router' = [active |-> router.active \ ended, topology |-> applied.routerInput]
        /\ \/ /\ ~followUp /\ clock + 1 < MaxTick
              /\ followUp' = TRUE /\ changed' = change
              /\ UNCHANGED <<pc, owed, publications>>
           \/ /\ publications' = calls
              /\ pc' = IF calls > 0 THEN "store" ELSE "idle"
              /\ followUp' = FALSE /\ changed' = FALSE /\ owed' = FALSE

Round ==
    \E batch \in BoundedSeq(Events, budget), ended \in SUBSET router.active :
        RouterFails(batch, ended) \/ FlushFails(batch, ended) \/ RoundEnds(batch, ended)

-----------------------------------------------------------------------------
(* Publication and its readers *)

(* publish_topology, first half: the shared topology is replaced.  What a  *)
(* reader has or is about to read is no longer the latest.                 *)
StoreTopology ==
    /\ pc = "store"
    /\ pc' = "broadcast"
    /\ public' = projector.snapshot
    /\ reader' = [reader EXCEPT !.latest = FALSE,
                                !.queue = [i \in DOMAIN @ |-> FALSE]]
    /\ skipped' = FALSE
    /\ UNCHANGED <<clock, projector, admission, cache, router, outbound, followUp, changed,
                   owed, publications, budget, outcomeLost>>

(* The newest FeedCapacity items are kept for a reader that lags.          *)
Enqueue(queue) ==
    IF Len(queue) < FeedCapacity THEN Append(queue, TRUE) ELSE Append(Tail(queue), TRUE)

(* Mutation: the topology is stored and nobody is told. *)
Notified_Silent(r) == r

(* The update goes to who is subscribed now.                               *)
Notified(r) ==
    [r EXCEPT !.queue = IF r.stage = "live" THEN Enqueue(@) ELSE @,
              !.missed = r.stage = "read"]

(* Second half.                                                            *)
BroadcastTopology ==
    /\ pc = "broadcast"
    /\ publications' = publications - 1
    /\ pc' = IF publications > 1 THEN "store" ELSE "idle"
    /\ reader' = Notified(reader)
    /\ UNCHANGED <<clock, projector, admission, cache, router, outbound, followUp, changed,
                   owed, public, budget, outcomeLost, skipped>>

(* topology_stream: the snapshot is taken, then the feed subscribed to,    *)
(* then the updates are read.                                              *)
TopologyStream ==
    /\ \/ /\ reader.stage = "none"
          /\ reader' = [reader EXCEPT !.stage = "read", !.latest = TRUE]
       \/ /\ reader.stage = "read"
          /\ reader' = [reader EXCEPT !.stage = "live"]
       \/ /\ reader.stage = "live" /\ reader.queue # <<>>
          /\ reader' = [reader EXCEPT !.latest = Head(reader.queue), !.queue = Tail(@)]
    /\ UNCHANGED <<clock, projector, admission, cache, router, outbound, task, public,
                   budget, outcomeLost, skipped>>

Next ==
    \/ LoopRound
    \/ HandleCommand
    \/ Round
    \/ StoreTopology
    \/ BroadcastTopology
    \/ TopologyStream

Spec == Init /\ [][Next]_viewVars
-----------------------------------------------------------------------------
(* The view of the host application *)

(* sanitize_topology: the local node, its own edges and their far ends,    *)
(* and the routes between nodes that are left.                             *)
SanitizeTopology(snapshot) ==
    LET adjacent == {key \in DOMAIN snapshot.edges : key[1] = Self}
        visible  == {Self} \cup {key[2] : key \in adjacent}
        routes   == {id \in DOMAIN snapshot.routes :
                        {snapshot.routes[id].owner, snapshot.routes[id].terminal} \subseteq visible}
    IN  [snapshot EXCEPT !.edges = Restrict(@, adjacent), !.nodes = @ \cap visible,
                         !.routes = Restrict(@, routes)]

-----------------------------------------------------------------------------
(* Properties *)

(* Every variable keeps its type; in particular no fanout link becomes an  *)
(* edge of the mesh, and queues keep their capacities.                     *)
TypeOK ==
    /\ clock \in 0 .. MaxTick
    /\ projector.topology.tick <= clock /\ projector.topology.nodes \subseteq Nodes
    /\ DOMAIN projector.topology.links \subseteq Nodes \X Nodes
    /\ \A key \in DOMAIN projector.topology.links : projector.topology.links[key] \in Links
    /\ DOMAIN projector.observations = DOMAIN projector.topology.links
    /\ subscribers \subseteq Peers /\ fanout \subseteq Peers /\ unseen \subseteq Peers
    /\ DOMAIN cache \subseteq Nodes /\ router.active \subseteq 1 .. MaxChanges
    /\ outbound \in 0 .. DispatchCapacity
    /\ pc \in {"idle", "round", "store", "broadcast"} /\ publications \in 0 .. 2
    /\ {followUp, changed, owed, outcomeLost, skipped} \subseteq BOOLEAN
    /\ reader.stage \in {"none", "read", "live"}
    /\ reader.queue \in Seq(BOOLEAN) /\ Len(reader.queue) <= FeedCapacity

(* What the validating builder answers for a snapshot with some of its     *)
(* routes.                                                                 *)
Validate(snapshot, ids) ==
    LET nodes  == {MeshNode(n, IF n = Self THEN "Local" ELSE "Remote") : n \in snapshot.nodes}
        edges  == {MeshEdge(key[1], key[2], snapshot.edges[key].link.kind) :
                      key \in DOMAIN snapshot.edges}
        routes == {snapshot.routes[id] : id \in ids}
    IN  Build(Self, SetToSeq(nodes), SetToSeq(edges), SetToSeq(routes))

(* The builder refuses each of these routes of a snapshot, alone as well,  *)
(* and accepts all the others together.                                    *)
RefusesExactly(snapshot, ids) ==
    /\ Validate(snapshot, DOMAIN snapshot.routes \ ids) = "ok"
    /\ \A id \in DOMAIN snapshot.routes \cap ids : Validate(snapshot, {id}) # "ok"

(* The client publishes, and the host application makes of it, topologies  *)
(* that do not always pass the repository's own validating builder.  The   *)
(* builder refuses of them exactly                                         *)
(*   - the routes shown as reachable with a hop hint of 1, which           *)
(*     derive_route_delivery makes of every route whose hint is unknown    *)
(*     or at most 1 and whose ends no usable edge joins, be it faulted or  *)
(*     absent;                                                             *)
(*   - in the application's view also the direct routes of another owner,  *)
(*     whose ends sanitize_topology may keep while it drops their edge.    *)
(* All the rest passes: no edge or route to a node that is not there, no   *)
(* direct route without its edge or with another transport than the edge's *)
(* is ever shown.                                                          *)
RefusalsExact ==
    LET unhinted == {id \in DOMAIN public.routes : public.routes[id].delivery = Reachable(1)}
        hidden   == {id \in DOMAIN public.routes :
                        public.routes[id].delivery.type = "Direct" /\ public.routes[id].owner # Self}
    IN  /\ RefusesExactly(public, unhinted)
        /\ RefusesExactly(SanitizeTopology(public), unhinted \cup hidden)
        /\ \A id \in unhinted :
              ~UsableEdge(public, public.routes[id].owner, public.routes[id].terminal)

(* An idle client shows the projection as it is, unless a command or a     *)
(* follow-up round failed after it had changed the projection and nothing  *)
(* has been published since.                                               *)
PublicCurrent == pc = "idle" /\ ~skipped => public = projector.snapshot

(* The snapshot kept up to date step by step is the one a fresh projection *)
(* would give, and the router has been told the topology it is made from.  *)
DerivedFresh ==
    /\ projector.snapshot = MeshSnapshotFrom(projector.observations, IngestTopology(projector).host)
    /\ router.topology = projector.topology

(* The routes an application sees are the router's active routes between   *)
(* nodes of the mesh, unless the outcome of a failed round was lost or a change  *)
(* is unpublished.                                                         *)
RoutesLive ==
    pc = "idle" /\ ~skipped /\ ~outcomeLost =>
        DOMAIN public.routes =
            {id \in router.active :
                {projector.host.routes[id].owner, projector.host.routes[id].to} \subseteq public.nodes}

(* A reader that has read all it was sent has the latest topology, also    *)
(* after it has lagged; the one exception is an update broadcast between   *)
(* its snapshot and its subscription, which it misses until the next one.  *)
ReaderCatchesUp ==
    reader.stage = "live" /\ reader.queue = <<>> /\ pc # "broadcast" =>
        reader.latest \/ reader.missed

(* Multicast is admitted for exactly the peers whose last staged fanout    *)
(* link was up, unless that observation went down with a failed round.     *)
AdmissionExact == subscribers \ unseen = fanout \ unseen
=============================================================================
