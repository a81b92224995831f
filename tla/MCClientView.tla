---------------------------- MODULE MCClientView ----------------------------
(* Model-checking instance of ClientView, and the builder of MeshTopology  *)
(* against its reference over small inputs.                                *)
EXTENDS ClientView

CONSTANTS self, n1, n2

MCPeers == {n1, n2}
MCNeighbours == {n1}

(* A production client starts alone; a client may also be created with a   *)
(* mesh it was told of.                                                    *)
MCSeeds ==
    {InitialTopology(1),
     [tick |-> 1, nodes |-> {self, n1, n2},
      links |-> (<<self, n1>> :> [kind |-> "l2cap", up |-> TRUE])
                    @@ (<<n1, self>> :> [kind |-> "l2cap", up |-> TRUE])
                    @@ (<<n1, n2>> :> [kind |-> "gatt", up |-> TRUE])]}

(* Own routes to every node, one with several hops beside its edge, and    *)
(* routes that are leased to others: to a neighbour with an edge of its    *)
(* own, and to a node out of range.                                        *)
MCRoutes ==
    [owner : {self}, to : {self, n1, n2}, hint : {1}, mix : {{"gatt"}}]
        \cup [owner : {self}, to : {n1}, hint : {2}, mix : {{"gatt"}}]
        \cup [owner : {n1, n2}, to : {self}, hint : {1}, mix : {{"gatt"}}]

-----------------------------------------------------------------------------
TestNodes == [id : {"a", "b"}, role : {"Local", "Remote"}]
TestEdges == [from : {"a"}, to : {"b", "c"}, kind : Kinds]
TestRoutes ==
    LET new  == {NewRoute(1, "a", to) : to \in {"a", "b", "c"}}
        made == new \cup {WithLocal(r) : r \in new}
                    \cup {WithDirect(r, n) : r \in new, n \in {"a", "b"}}
                    \cup {WithReachable(r, h) : r \in new, h \in 0 .. 2}
    IN  made \cup {WithProtocolMix(r, {"gatt"}) : r \in made}

(* The builder accepts exactly the consistent topologies.                  *)
ASSUME BuilderMatchesReference ==
    \A nodes \in BoundedSeq(TestNodes, 2), edges \in BoundedSeq(TestEdges, 2),
       routes \in BoundedSeq(TestRoutes, 1) \cup {<<r, r>> : r \in TestRoutes} :
        (Build("a", nodes, edges, routes) = "ok") = Consistent("a", nodes, edges, routes)
=============================================================================
