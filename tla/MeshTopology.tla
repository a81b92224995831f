---------------------------- MODULE MeshTopology ----------------------------
(***************************************************************************)
(* The mesh topology as applications see it, and the builder that validates *)
(* one (crates/jq-node-profile, topology.rs and authoring.rs).  The builder *)
(* collects what it is given in order and answers with the first error:     *)
(* here with its name, or with "ok".                                        *)
(***************************************************************************)
EXTENDS Naturals, SequencesExt

MeshNode(id, role) == [id |-> id, role |-> role]
MeshEdge(from, to, kind) == [from |-> from, to |-> to, kind |-> kind]

(* ActiveRouteDelivery *)
LocalDelivery == [type |-> "Local"]
Direct(nextHop) == [type |-> "Direct", nextHop |-> nextHop]
Reachable(hint) == [type |-> "Reachable", hint |-> hint]

(* The hops, where the structure of the delivery is known.                 *)
HopNodeIds(route) ==
    IF route.delivery.type = "Local" THEN <<route.owner>>
    ELSE <<route.owner, route.terminal>>

-----------------------------------------------------------------------------
(* ActiveRouteBuilder *)

(* A new route is as specific as its owner and its terminal allow.         *)
NewRoute(id, owner, terminal) ==
    [id |-> id, owner |-> owner, terminal |-> terminal, mix |-> {},
     delivery |-> IF owner = terminal THEN LocalDelivery ELSE Direct(terminal)]

WithLocal(route) == [route EXCEPT !.delivery = LocalDelivery, !.mix = {}]

WithDirect(route, nextHop) == [route EXCEPT !.delivery = Direct(nextHop)]

WithReachable(route, hint) ==
    [route EXCEPT !.delivery = Reachable(IF hint > 1 THEN hint ELSE 1)]

WithProtocolMix(route, mix) == [route EXCEPT !.mix = mix]

-----------------------------------------------------------------------------
(* MeshTopologyBuilder::build *)

FirstError(results) ==
    LET errors == {i \in DOMAIN results : results[i] # "ok"}
    IN  IF errors = {} THEN "ok" ELSE results[Min(errors)]

Ids(items) == {items[i].id : i \in DOMAIN items}

(* The local node must exist and have the local role.                      *)
CollectNodes(nodes, local) ==
    IF ~IsInjective([i \in DOMAIN nodes |-> nodes[i].id]) THEN "DuplicateNode"
    ELSE IF MeshNode(local, "Local") \notin ToSet(nodes) THEN "MissingLocalNode"
    ELSE "ok"

CollectEdges(edges, nodeIds) ==
    FirstError([i \in DOMAIN edges |->
        IF ~({edges[i].from, edges[i].to} \subseteq nodeIds)
        THEN "EdgeReferencesUnknownNode"
        ELSE IF \E j \in 1 .. i - 1 : edges[j].from = edges[i].from /\ edges[j].to = edges[i].to
        THEN "DuplicateEdge"
        ELSE "ok"])

(* Every hop needs its node, its edge and the edge's transport in the mix. *)
(* No two edges have the same ends by then.                                *)
ValidatePath(route, hops, nodeIds, edges) ==
    IF ~(ToSet(hops) \subseteq nodeIds) THEN "RouteHopNodeMissing"
    ELSE FirstError([i \in 1 .. Len(hops) - 1 |->
        LET spanning == {edge \in ToSet(edges) : edge.from = hops[i] /\ edge.to = hops[i + 1]}
        IN  IF spanning = {} THEN "RouteMissingEdge"
            ELSE IF (CHOOSE edge \in spanning : TRUE).kind \notin route.mix
            THEN "RouteProtocolMixMissingTransport"
            ELSE "ok"])

ValidateDelivery(route, nodeIds, edges) ==
    LET delivery == route.delivery
    IN  CASE delivery.type = "Local" ->
               IF route.owner # route.terminal THEN "LocalDeliveryTargetsRemote"
               ELSE IF route.mix # {} THEN "LocalDeliveryHasProtocolMix" ELSE "ok"
          [] delivery.type = "Direct" ->
               IF delivery.nextHop # route.terminal THEN "DirectDeliveryNextHopMismatch"
               ELSE ValidatePath(route, HopNodeIds(route), nodeIds, edges)
          [] delivery.type = "Reachable" ->
               IF delivery.hint <= 1 THEN "ReachableDeliveryRequiresMultiHop"
               ELSE IF route.owner = route.terminal
               THEN "ReachableDeliveryCollapsesToDirect" ELSE "ok"

ValidateRoute(route, nodeIds, edges) ==
    IF route.owner \notin nodeIds THEN "RouteOwnerMissing"
    ELSE IF route.terminal \notin nodeIds THEN "RouteTerminalMissing"
    ELSE ValidateDelivery(route, nodeIds, edges)

CollectRoutes(routes, nodeIds, edges) ==
    FirstError([i \in DOMAIN routes |->
        LET result == ValidateRoute(routes[i], nodeIds, edges)
        IN  IF result # "ok" THEN result
            ELSE IF \E j \in 1 .. i - 1 : routes[j].id = routes[i].id
            THEN "DuplicateRoute"
            ELSE "ok"])

(* Nodes first, then the edges between them, then the routes over both.    *)
Build(local, nodes, edges, routes) ==
    FirstError(<<CollectNodes(nodes, local), CollectEdges(edges, Ids(nodes)),
                 CollectRoutes(routes, Ids(nodes), edges)>>)

-----------------------------------------------------------------------------
(* Reference *)

(* What a consistent route is, said without the order of the checks.       *)
ConsistentRoute(route, nodeIds, edges) ==
    /\ {route.owner, route.terminal} \subseteq nodeIds
    /\ \/ /\ route.delivery = LocalDelivery
          /\ route.owner = route.terminal /\ route.mix = {}
       \/ /\ route.delivery = Direct(route.terminal)
          /\ \E edge \in ToSet(edges) :
                 edge.from = route.owner /\ edge.to = route.terminal /\ edge.kind \in route.mix
       \/ /\ route.delivery.type = "Reachable" /\ route.delivery.hint > 1
          /\ route.owner # route.terminal

Consistent(local, nodes, edges, routes) ==
    LET keys == {<<edges[i].from, edges[i].to>> : i \in DOMAIN edges}
    IN  /\ MeshNode(local, "Local") \in ToSet(nodes)
        /\ Cardinality(Ids(nodes)) = Len(nodes)
        /\ keys \subseteq Ids(nodes) \X Ids(nodes)
        /\ Cardinality(keys) = Len(edges)
        /\ Cardinality(Ids(routes)) = Len(routes)
        /\ \A i \in DOMAIN routes : ConsistentRoute(routes[i], Ids(nodes), edges)
=============================================================================
