------------------------- MODULE ClientView_proofs -------------------------
(***************************************************************************)
(* Proofs about ClientView for every mesh, seed, bound and capacity: the   *)
(* types, that the published topology, the snapshot, the router's input    *)
(* and the shown routes keep up with each other, that a reader catches up, *)
(* that the multicast admission is exact, that nothing shown is taken      *)
(* back, that the topology builder accepts exactly the consistent          *)
(* topologies, and that it would accept every topology the client shows.   *)
(*                                                                         *)
(* A report is a recursion over its batch.  What holds after the batch is  *)
(* shown with a least position at which it fails: LeastNumber below.       *)
(***************************************************************************)
EXTENDS ClientView, FiniteSetTheorems, TLAPS

(* The bounds are natural numbers.                                         *)
LEMMA NaturalBounds ==
    /\ MaxTick \in Nat /\ MaxChanges \in Nat
    /\ DispatchCapacity \in Nat \ {0} /\ FeedCapacity \in Nat \ {0}
BY ViewAssumption

(* Every non-empty set of natural numbers has a least element.             *)
LEMMA LeastNumber ==
    ASSUME NEW T \in SUBSET Nat, T # {}
    PROVE  \E x \in T : \A y \in T : x <= y
<1>1. \E x \in T : \A y \in T : <<y, x>> \notin OpToRel(<, Nat)
  BY WFMin, NatLessThanWellFounded, Zenon
<1>2. \E x \in T : \A y \in T : ~(y < x)
  BY <1>1, Zenon DEF OpToRel
<1>3. QED BY <1>2

-----------------------------------------------------------------------------
(* Finite sets, their elements in order, and the first error *)

(* The first error is "ok" exactly if there is none.                       *)
LEMMA FirstErrorOk ==
    ASSUME NEW results, DOMAIN results \subseteq Nat
    PROVE  FirstError(results) = "ok" <=> \A i \in DOMAIN results : results[i] = "ok"
<1> DEFINE errors == {i \in DOMAIN results : results[i] # "ok"}
<1>1. FirstError(results) = IF errors = {} THEN "ok" ELSE results[Min(errors)]
  BY DEF FirstError
<1>2. errors # {} => Min(errors) \in errors
  <2>1. SUFFICES ASSUME errors # {} PROVE Min(errors) \in errors
    OBVIOUS
  <2>2. errors \in SUBSET Nat
    OBVIOUS
  <2> HIDE DEF errors
  <2>3. \E x \in errors : \A y \in errors : x <= y
    BY <2>1, <2>2, LeastNumber
  <2>4. QED BY <2>3 DEF Min
<1>3. QED BY <1>1, <1>2

(* n things are as many as their number exactly if they are different.     *)
LEMMA DistinctCounted ==
    ASSUME NEW n \in Nat, NEW f, f = [i \in 1 .. n |-> f[i]]
    PROVE  /\ IsFiniteSet({f[i] : i \in 1 .. n})
           /\ Cardinality({f[i] : i \in 1 .. n}) = n <=> IsInjective(f)
<1> DEFINE S == 1 .. n
           T == {f[i] : i \in S}
<1>1. IsFiniteSet(S) /\ Cardinality(S) = n
  BY FS_Interval
<1>2. f \in [S -> T] /\ \A t \in T : \E i \in S : f[i] = t
  OBVIOUS
<1>3. f \in Surjection(S, T)
  BY <1>2 DEF Surjection
<1>4. f \in Injection(S, T) <=> IsInjective(f)
  BY <1>2 DEF Injection, IsInjective
<1> HIDE DEF S, T
<1>5. IsFiniteSet(T) /\ (Cardinality(T) = Cardinality(S) <=> f \in Injection(S, T))
  BY <1>1, <1>3, FS_Surjection
<1>6. QED BY <1>1, <1>4, <1>5 DEF S, T

(* The image of a finite set is finite.                                    *)
LEMMA FiniteImage ==
    ASSUME NEW S, IsFiniteSet(S), NEW f, f = [x \in S |-> f[x]]
    PROVE  IsFiniteSet({f[x] : x \in S})
<1> DEFINE T == {f[x] : x \in S}
<1>1. f \in [S -> T] /\ \A t \in T : \E i \in S : f[i] = t
  OBVIOUS
<1>2. f \in Surjection(S, T)
  BY <1>1 DEF Surjection
<1> HIDE DEF T
<1>3. IsFiniteSet(T)
  BY <1>2, FS_Surjection
<1>4. QED BY <1>3 DEF T

(* The elements of a finite set in some order, each of them once.          *)
LEMMA SetInOrder ==
    ASSUME NEW S, IsFiniteSet(S)
    PROVE  /\ SetToSeq(S) \in Seq(S)
           /\ ToSet(SetToSeq(S)) = S
           /\ IsInjective(SetToSeq(S))
<1> DEFINE n == Cardinality(S)
<1>1. n \in Nat /\ ExistsBijection(1 .. n, S)
  BY FS_CardinalityType
<1>2. PICK b : b \in Bijection(1 .. n, S)
  BY <1>1 DEF ExistsBijection
<1>3. b \in [1 .. n -> S] /\ IsInjective(b)
  BY <1>2 DEF Bijection, Injection, IsInjective
<1> DEFINE f == SetToSeq(S)
<1>4. f \in [1 .. n -> S] /\ IsInjective(f)
  BY <1>3 DEF SetToSeq
<1>5. f \in Injection(1 .. n, S)
  BY <1>4 DEF Injection, IsInjective
<1>6. IsFiniteSet(1 .. n) /\ Cardinality(1 .. n) = n
  BY <1>1, FS_Interval
<1> HIDE DEF f
<1>7. f \in Surjection(1 .. n, S)
  BY <1>5, <1>6, FS_Injection
<1>8. \A x \in S : \E i \in 1 .. n : f[i] = x
  BY <1>7 DEF Surjection
<1> HIDE DEF n
<1>9. f \in Seq(S)
  BY <1>1, <1>4
<1>10. ToSet(f) = S
  BY <1>4, <1>8 DEF ToSet
<1>11. QED BY <1>4, <1>9, <1>10 DEF f

-----------------------------------------------------------------------------
(* The validating builder *)

(* What the types of the builder's inputs say: a delivery is one of three. *)
IsDelivery(D) == D = LocalDelivery \/ (\E n : D = Direct(n)) \/ \E h \in Nat : D = Reachable(h)

(* No two edges have the same ends.                                        *)
EdgesDiffer(edges) ==
    \A i, j \in DOMAIN edges : edges[i].from = edges[j].from /\ edges[i].to = edges[j].to => i = j

(* "Not seen before, at no position" is "no two alike".                    *)
LEMMA NoneBefore ==
    ASSUME NEW n \in Nat, NEW R, \A i, j \in 1 .. n : <<i, j>> \in R => <<j, i>> \in R
    PROVE  (\A i \in 1 .. n : ~ \E j \in 1 .. i - 1 : <<j, i>> \in R)
               <=> \A i, j \in 1 .. n : <<i, j>> \in R => i = j
<1>1. ASSUME \A i \in 1 .. n : ~ \E j \in 1 .. i - 1 : <<j, i>> \in R,
             NEW i \in 1 .. n, NEW j \in 1 .. n, <<i, j>> \in R, i # j
      PROVE  FALSE
  <2>1. CASE i < j
    <3>1. i \in 1 .. j - 1
      BY <2>1
    <3>2. QED BY <1>1, <3>1
  <2>2. CASE j < i
    <3>1. j \in 1 .. i - 1
      BY <2>2
    <3>2. QED BY <1>1, <3>1
  <2>3. QED BY <1>1, <2>1, <2>2
<1>2. ASSUME \A i, j \in 1 .. n : <<i, j>> \in R => i = j,
             NEW i \in 1 .. n, NEW j \in 1 .. i - 1, <<j, i>> \in R
      PROVE  FALSE
  <2>1. j \in 1 .. n /\ j # i
    OBVIOUS
  <2>2. QED BY <1>2, <2>1
<1>3. QED BY <1>1, <1>2

(* collect_nodes: the ids differ, and the local node is there as local.    *)
LEMMA NodesCollected ==
    ASSUME NEW N, NEW nodes \in Seq(N), NEW local
    PROVE  CollectNodes(nodes, local) = "ok" <=>
               /\ MeshNode(local, "Local") \in ToSet(nodes)
               /\ Cardinality(Ids(nodes)) = Len(nodes)
<1> DEFINE n == Len(nodes)
           f == [i \in 1 .. n |-> nodes[i].id]
<1>1. n \in Nat /\ DOMAIN nodes = 1 .. n
  OBVIOUS
<1>2. {f[i] : i \in 1 .. n} = Ids(nodes) /\ f = [i \in DOMAIN nodes |-> nodes[i].id]
  BY <1>1 DEF Ids
<1>3. f = [i \in 1 .. n |-> f[i]]
  OBVIOUS
<1> HIDE DEF f, n
<1>4. Cardinality({f[i] : i \in 1 .. n}) = n <=> IsInjective(f)
  BY <1>1, <1>3, DistinctCounted
<1>5. CollectNodes(nodes, local) = "ok" <=>
          IsInjective(f) /\ MeshNode(local, "Local") \in ToSet(nodes)
  BY <1>2 DEF CollectNodes
<1>6. QED BY <1>2, <1>4, <1>5 DEF n

(* collect_edges: they are between nodes, and no two have the same ends.   *)
LEMMA EdgesCollected ==
    ASSUME NEW E, NEW edges \in Seq(E), NEW nodeIds
    PROVE  /\ CollectEdges(edges, nodeIds) = "ok" <=>
                 /\ \A i \in DOMAIN edges : {edges[i].from, edges[i].to} \subseteq nodeIds
                 /\ EdgesDiffer(edges)
           /\ Cardinality({<<edges[i].from, edges[i].to>> : i \in DOMAIN edges}) = Len(edges)
                  <=> EdgesDiffer(edges)
<1> DEFINE n == Len(edges)
           Alike(i, j) == edges[i].from = edges[j].from /\ edges[i].to = edges[j].to
           In(i) == {edges[i].from, edges[i].to} \subseteq nodeIds
           result == [i \in DOMAIN edges |->
                        IF ~In(i) THEN "EdgeReferencesUnknownNode"
                        ELSE IF \E j \in 1 .. i - 1 : Alike(j, i) THEN "DuplicateEdge"
                        ELSE "ok"]
           f == [i \in 1 .. n |-> <<edges[i].from, edges[i].to>>]
<1>1. n \in Nat /\ DOMAIN edges = 1 .. n
  OBVIOUS
<1>2. CollectEdges(edges, nodeIds) = FirstError(result)
  BY DEF CollectEdges
<1>3. EdgesDiffer(edges) <=> \A i, j \in 1 .. n : Alike(i, j) => i = j
  BY <1>1 DEF EdgesDiffer
<1>4. \A i, j \in 1 .. n : Alike(i, j) => Alike(j, i)
  OBVIOUS
<1>5. {f[i] : i \in 1 .. n} = {<<edges[i].from, edges[i].to>> : i \in DOMAIN edges}
  BY <1>1
<1>6. IsInjective(f) <=> EdgesDiffer(edges)
  <2>1. DOMAIN f = 1 .. n /\ \A i, j \in 1 .. n : f[i] = f[j] <=> Alike(i, j)
    OBVIOUS
  <2> HIDE DEF f, Alike
  <2>2. QED BY <1>3, <2>1 DEF IsInjective
<1>7. f = [i \in 1 .. n |-> f[i]]
  OBVIOUS
<1>8. DOMAIN result = 1 .. n /\ 1 .. n \subseteq Nat
      /\ \A i \in 1 .. n : result[i] = "ok" <=> In(i) /\ ~ \E j \in 1 .. i - 1 : Alike(j, i)
  BY <1>1
<1> HIDE DEF n, f, Alike, In, result
<1>9. (\A i \in 1 .. n : ~ \E j \in 1 .. i - 1 : Alike(j, i)) <=> EdgesDiffer(edges)
  <2> DEFINE R == {ij \in (1 .. n) \X (1 .. n) : Alike(ij[1], ij[2])}
  <2>1. \A i, j \in 1 .. n : <<i, j>> \in R <=> Alike(i, j)
    OBVIOUS
  <2>2. \A i \in 1 .. n : 1 .. i - 1 \subseteq 1 .. n
    BY <1>1
  <2> HIDE DEF R
  <2>3. (\A i \in 1 .. n : ~ \E j \in 1 .. i - 1 : <<j, i>> \in R)
            <=> \A i, j \in 1 .. n : <<i, j>> \in R => i = j
    BY <1>1, <1>4, <2>1, NoneBefore
  <2>4. QED BY <1>3, <2>1, <2>2, <2>3
<1>10. FirstError(result) = "ok" <=> \A i \in 1 .. n : result[i] = "ok"
  BY <1>8, FirstErrorOk
<1>11. CollectEdges(edges, nodeIds) = "ok" <=> (\A i \in 1 .. n : In(i)) /\ EdgesDiffer(edges)
  BY <1>2, <1>8, <1>9, <1>10
<1>12. Cardinality({f[i] : i \in 1 .. n}) = n <=> IsInjective(f)
  BY <1>1, <1>7, DistinctCounted
<1>13. QED BY <1>1, <1>5, <1>6, <1>11, <1>12 DEF In, n

(* validate_path of a direct route: its one edge is there and its          *)
(* transport is in the mix.                                                *)
LEMMA PathValidated ==
    ASSUME NEW E, NEW edges \in Seq(E), EdgesDiffer(edges), NEW nodeIds, NEW route,
           route.owner \in nodeIds, route.terminal \in nodeIds
    PROVE  ValidatePath(route, <<route.owner, route.terminal>>, nodeIds, edges) = "ok" <=>
               \E edge \in ToSet(edges) :
                   edge.from = route.owner /\ edge.to = route.terminal /\ edge.kind \in route.mix
<1> DEFINE hops == <<route.owner, route.terminal>>
           spanning == {edge \in ToSet(edges) : edge.from = route.owner /\ edge.to = route.terminal}
           Result(S) == IF S = {} THEN "RouteMissingEdge"
                        ELSE IF (CHOOSE edge \in S : TRUE).kind \notin route.mix
                        THEN "RouteProtocolMixMissingTransport"
                        ELSE "ok"
           results == [i \in 1 .. Len(hops) - 1 |->
                          Result({edge \in ToSet(edges) : edge.from = hops[i] /\ edge.to = hops[i + 1]})]
<1>1. ToSet(hops) \subseteq nodeIds
  BY DEF ToSet
<1>2. ValidatePath(route, hops, nodeIds, edges) = FirstError(results)
  BY <1>1 DEF ValidatePath
<1>3. Len(hops) - 1 = 1 /\ hops[1] = route.owner /\ hops[1 + 1] = route.terminal
  OBVIOUS
<1>4. DOMAIN results = {1} /\ results[1] = Result(spanning)
  <2> HIDE DEF Result
  <2>1. 1 .. 1 = {1}
    OBVIOUS
  <2>2. QED BY <1>3, <2>1
<1> HIDE DEF results
<1>5. FirstError(results) = "ok" <=> \A i \in DOMAIN results : results[i] = "ok"
  BY <1>4, FirstErrorOk
<1>6. FirstError(results) = "ok" <=> Result(spanning) = "ok"
  BY <1>4, <1>5, Zenon
<1>7. \A e1, e2 \in spanning : e1 = e2
  BY DEF EdgesDiffer, ToSet
<1>8. spanning # {} => (CHOOSE edge \in spanning : TRUE) \in spanning
  <2> HIDE DEF spanning
  <2>1. QED OBVIOUS
<1>9. Result(spanning) = "ok" <=> \E edge \in spanning : edge.kind \in route.mix
  <2> HIDE DEF spanning
  <2>1. QED BY <1>7, <1>8
<1>10. QED BY <1>2, <1>6, <1>9

(* validate_route accepts what the reference calls consistent.             *)
LEMMA RouteValidated ==
    ASSUME NEW E, NEW edges \in Seq(E), EdgesDiffer(edges), NEW nodeIds, NEW route,
           IsDelivery(route.delivery)
    PROVE  ValidateRoute(route, nodeIds, edges) = "ok" <=> ConsistentRoute(route, nodeIds, edges)
<1> DEFINE D == route.delivery
           Path == \E edge \in ToSet(edges) :
                      edge.from = route.owner /\ edge.to = route.terminal /\ edge.kind \in route.mix
<1>1. CASE ~({route.owner, route.terminal} \subseteq nodeIds)
  BY <1>1 DEF ValidateRoute, ConsistentRoute
<1>2. CASE {route.owner, route.terminal} \subseteq nodeIds
  <2>1. ValidateRoute(route, nodeIds, edges) = ValidateDelivery(route, nodeIds, edges)
    BY <1>2 DEF ValidateRoute
  <2>2. ConsistentRoute(route, nodeIds, edges) <=>
            \/ D = LocalDelivery /\ route.owner = route.terminal /\ route.mix = {}
            \/ D = Direct(route.terminal) /\ Path
            \/ D.type = "Reachable" /\ D.hint > 1 /\ route.owner # route.terminal
    BY <1>2 DEF ConsistentRoute
  <2>3. CASE D = LocalDelivery
    <3>1. D.type = "Local" /\ \A n : D # Direct(n)
      BY <2>3 DEF LocalDelivery, Direct
    <3>2. ValidateDelivery(route, nodeIds, edges) =
              IF route.owner # route.terminal THEN "LocalDeliveryTargetsRemote"
              ELSE IF route.mix # {} THEN "LocalDeliveryHasProtocolMix" ELSE "ok"
      BY <3>1 DEF ValidateDelivery
    <3> HIDE DEF D, Path
    <3>3. QED BY <2>1, <2>2, <2>3, <3>1, <3>2
  <2>4. ASSUME NEW n, D = Direct(n)
        PROVE  ValidateRoute(route, nodeIds, edges) = "ok" <=> ConsistentRoute(route, nodeIds, edges)
    <3>1. D.type = "Direct" /\ D.nextHop = n /\ D # LocalDelivery
          /\ (D = Direct(route.terminal) <=> n = route.terminal)
      BY <2>4 DEF LocalDelivery, Direct
    <3>2. HopNodeIds(route) = <<route.owner, route.terminal>>
      BY <3>1 DEF HopNodeIds
    <3>3. ValidateDelivery(route, nodeIds, edges) =
              IF n # route.terminal THEN "DirectDeliveryNextHopMismatch"
              ELSE ValidatePath(route, <<route.owner, route.terminal>>, nodeIds, edges)
      BY <3>1, <3>2 DEF ValidateDelivery
    <3>4. ValidatePath(route, <<route.owner, route.terminal>>, nodeIds, edges) = "ok" <=> Path
      BY <1>2, PathValidated
    <3> HIDE DEF D, Path
    <3>5. QED BY <2>1, <2>2, <3>1, <3>3, <3>4
  <2>5. ASSUME NEW h \in Nat, D = Reachable(h)
        PROVE  ValidateRoute(route, nodeIds, edges) = "ok" <=> ConsistentRoute(route, nodeIds, edges)
    <3>1. D.type = "Reachable" /\ D.hint = h /\ D # LocalDelivery /\ \A n : D # Direct(n)
      BY <2>5 DEF LocalDelivery, Direct, Reachable
    <3>2. ValidateDelivery(route, nodeIds, edges) =
              IF h <= 1 THEN "ReachableDeliveryRequiresMultiHop"
              ELSE IF route.owner = route.terminal
              THEN "ReachableDeliveryCollapsesToDirect" ELSE "ok"
      BY <3>1 DEF ValidateDelivery
    <3> HIDE DEF D, Path
    <3>3. QED BY <2>1, <2>2, <3>1, <3>2
  <2>6. QED BY <2>3, <2>4, <2>5 DEF IsDelivery
<1>3. QED BY <1>1, <1>2

(* collect_routes: every route is consistent, and their ids differ.        *)
LEMMA RoutesCollected ==
    ASSUME NEW E, NEW edges \in Seq(E), EdgesDiffer(edges), NEW nodeIds,
           NEW R, NEW routes \in Seq(R), \A i \in DOMAIN routes : IsDelivery(routes[i].delivery)
    PROVE  CollectRoutes(routes, nodeIds, edges) = "ok" <=>
               /\ Cardinality(Ids(routes)) = Len(routes)
               /\ \A i \in DOMAIN routes : ConsistentRoute(routes[i], nodeIds, edges)
<1> DEFINE n == Len(routes)
           Valid(i) == ValidateRoute(routes[i], nodeIds, edges)
           results == [i \in DOMAIN routes |->
                          IF Valid(i) # "ok" THEN Valid(i)
                          ELSE IF \E j \in 1 .. i - 1 : routes[j].id = routes[i].id
                          THEN "DuplicateRoute" ELSE "ok"]
           f == [i \in 1 .. n |-> routes[i].id]
           Same == {ij \in (1 .. n) \X (1 .. n) : routes[ij[1]].id = routes[ij[2]].id}
<1>1. n \in Nat /\ DOMAIN routes = 1 .. n
  OBVIOUS
<1>2. CollectRoutes(routes, nodeIds, edges) = FirstError(results)
  BY DEF CollectRoutes
<1>3. \A i \in 1 .. n : Valid(i) = "ok" <=> ConsistentRoute(routes[i], nodeIds, edges)
  BY <1>1, RouteValidated
<1>4. {f[i] : i \in 1 .. n} = Ids(routes) /\ f = [i \in 1 .. n |-> f[i]]
  BY <1>1 DEF Ids
<1>5. \A i, j \in 1 .. n : <<i, j>> \in Same <=> routes[i].id = routes[j].id
  OBVIOUS
<1>6. \A i \in 1 .. n : 1 .. i - 1 \subseteq 1 .. n
  BY <1>1
<1>7. DOMAIN f = 1 .. n /\ \A i, j \in 1 .. n : f[i] = f[j] <=> routes[i].id = routes[j].id
  OBVIOUS
<1>8. DOMAIN results = 1 .. n /\ 1 .. n \subseteq Nat
      /\ \A i \in 1 .. n : results[i] = "ok" <=>
             Valid(i) = "ok" /\ ~ \E j \in 1 .. i - 1 : routes[j].id = routes[i].id
  <2> HIDE DEF Valid
  <2>1. QED BY <1>1
<1> HIDE DEF n, f, Same, results, Valid
<1>9. FirstError(results) = "ok" <=> \A i \in 1 .. n : results[i] = "ok"
  BY <1>8, FirstErrorOk
<1>10. (\A i \in 1 .. n : ~ \E j \in 1 .. i - 1 : <<j, i>> \in Same)
           <=> \A i, j \in 1 .. n : <<i, j>> \in Same => i = j
  <2>1. \A i, j \in 1 .. n : <<i, j>> \in Same => <<j, i>> \in Same
    BY <1>5
  <2>2. QED BY <1>1, <2>1, NoneBefore
<1>11. IsInjective(f) <=> \A i, j \in 1 .. n : <<i, j>> \in Same => i = j
  <2>1. IsInjective(f) <=> \A i, j \in 1 .. n : f[i] = f[j] => i = j
    BY <1>7, Zenon DEF IsInjective
  <2>2. \A i, j \in 1 .. n : f[i] = f[j] <=> <<i, j>> \in Same
    BY <1>5, <1>7
  <2>3. QED BY <2>1, <2>2
<1>12. (\A i \in 1 .. n : ~ \E j \in 1 .. i - 1 : routes[j].id = routes[i].id) <=> IsInjective(f)
  BY <1>5, <1>6, <1>10, <1>11
<1>13. Cardinality({f[i] : i \in 1 .. n}) = n <=> IsInjective(f)
  BY <1>1, <1>4, DistinctCounted
<1>14. CollectRoutes(routes, nodeIds, edges) = "ok" <=>
           (\A i \in 1 .. n : Valid(i) = "ok") /\ IsInjective(f)
  BY <1>2, <1>8, <1>9, <1>12
<1>15. QED BY <1>1, <1>3, <1>4, <1>13, <1>14 DEF n

(* MeshTopologyBuilder::build accepts exactly the consistent topologies,   *)
(* of every size: its checks and their order miss nothing and refuse no    *)
(* topology that is consistent.                                            *)
THEOREM BuilderAcceptsConsistent ==
    ASSUME NEW local, NEW N, NEW nodes \in Seq(N), NEW E, NEW edges \in Seq(E),
           NEW R, NEW routes \in Seq(R), \A i \in DOMAIN routes : IsDelivery(routes[i].delivery)
    PROVE  Build(local, nodes, edges, routes) = "ok" <=> Consistent(local, nodes, edges, routes)
<1> DEFINE ids == Ids(nodes)
           keys == {<<edges[i].from, edges[i].to>> : i \in DOMAIN edges}
           a == CollectNodes(nodes, local)
           b == CollectEdges(edges, ids)
           c == CollectRoutes(routes, ids, edges)
           Sound == \A i \in DOMAIN routes : ConsistentRoute(routes[i], ids, edges)
<1>1. Build(local, nodes, edges, routes) = FirstError(<<a, b, c>>)
  BY DEF Build
<1>2. a = "ok" <=> MeshNode(local, "Local") \in ToSet(nodes) /\ Cardinality(ids) = Len(nodes)
  BY NodesCollected
<1>3. /\ b = "ok" <=> (\A i \in DOMAIN edges : {edges[i].from, edges[i].to} \subseteq ids)
                          /\ EdgesDiffer(edges)
      /\ Cardinality(keys) = Len(edges) <=> EdgesDiffer(edges)
  BY EdgesCollected
<1>4. keys \subseteq ids \X ids <=> \A i \in DOMAIN edges : {edges[i].from, edges[i].to} \subseteq ids
  <2>1. \A i \in DOMAIN edges : <<edges[i].from, edges[i].to>> \in ids \X ids <=>
                                    {edges[i].from, edges[i].to} \subseteq ids
    OBVIOUS
  <2>2. keys \subseteq ids \X ids <=>
            \A i \in DOMAIN edges : <<edges[i].from, edges[i].to>> \in ids \X ids
    BY Zenon
  <2>3. QED BY <2>1, <2>2, Zenon
<1>5. EdgesDiffer(edges) => (c = "ok" <=> Cardinality(Ids(routes)) = Len(routes) /\ Sound)
  BY RoutesCollected
<1>6. Consistent(local, nodes, edges, routes) <=>
        /\ MeshNode(local, "Local") \in ToSet(nodes)
        /\ Cardinality(ids) = Len(nodes)
        /\ keys \subseteq ids \X ids
        /\ Cardinality(keys) = Len(edges)
        /\ Cardinality(Ids(routes)) = Len(routes)
        /\ Sound
  BY DEF Consistent
<1> HIDE DEF a, b, c, ids, keys, Sound
<1>7. FirstError(<<a, b, c>>) = "ok" <=> a = "ok" /\ b = "ok" /\ c = "ok"
  <2> DEFINE s == <<a, b, c>>
  <2>1. DOMAIN s = {1, 2, 3} /\ s[1] = a /\ s[2] = b /\ s[3] = c
    OBVIOUS
  <2>d. DOMAIN s \subseteq Nat
    BY <2>1
  <2> HIDE DEF s
  <2>2. FirstError(s) = "ok" <=> \A i \in DOMAIN s : s[i] = "ok"
    BY <2>d, FirstErrorOk
  <2>3. QED BY <2>1, <2>2 DEF s
<1>8. QED BY <1>1, <1>2, <1>3, <1>4, <1>5, <1>6, <1>7

-----------------------------------------------------------------------------
(* The recursion of ApplyObservations *)

(* The state a report starts from.                                         *)
Start == [projector |-> projector, subscribers |-> subscribers, changed |-> FALSE]

(* g is the states of a report up to its m-th observation.                 *)
Applies(g, batch, tick, m) ==
    g = [i \in 0 .. m |-> IF i = 0 THEN Start ELSE ApplyObservation(g[i - 1], batch[i], tick)]

(* There are such states for every number of observations.                 *)
LEMMA AppliesExists ==
    ASSUME NEW batch, NEW tick, NEW m \in Nat
    PROVE  \E g : Applies(g, batch, tick, m)
<1> DEFINE T == {k \in Nat : ~ \E g : Applies(g, batch, tick, k)}
<1>1. SUFFICES ASSUME T # {} PROVE FALSE
  BY Zenon
<1>2. PICK k \in T : \A l \in T : k <= l
  BY <1>1, LeastNumber
<1>3. k # 0
  <2> DEFINE g == [i \in 0 .. 0 |-> Start]
  <2>1. g = [i \in 0 .. 0 |-> IF i = 0 THEN Start ELSE ApplyObservation(g[i - 1], batch[i], tick)]
    OBVIOUS
  <2> HIDE DEF g
  <2>2. Applies(g, batch, tick, 0)
    BY <2>1 DEF Applies
  <2>3. QED BY <2>2
<1>4. k - 1 \in Nat /\ k - 1 \notin T
  BY <1>2, <1>3
<1>5. PICK f : Applies(f, batch, tick, k - 1)
  BY <1>4
<1>f. f = [i \in 0 .. k - 1 |-> IF i = 0 THEN Start ELSE ApplyObservation(f[i - 1], batch[i], tick)]
  BY <1>5 DEF Applies
<1> DEFINE g == [i \in 0 .. k |-> IF i <= k - 1 THEN f[i]
                                  ELSE ApplyObservation(f[i - 1], batch[i], tick)]
<1>6. \A i \in 0 .. k : g[i] = IF i = 0 THEN Start ELSE ApplyObservation(g[i - 1], batch[i], tick)
  <2> SUFFICES ASSUME NEW i \in 0 .. k
               PROVE  g[i] = IF i = 0 THEN Start ELSE ApplyObservation(g[i - 1], batch[i], tick)
    OBVIOUS
  <2>1. CASE i = 0
    BY <2>1, <1>3, <1>f
  <2>2. CASE i # 0 /\ i <= k - 1
    <3>1. i - 1 \in 0 .. k /\ i - 1 <= k - 1 /\ i \in 0 .. k - 1
      BY <2>2
    <3>2. g[i] = f[i] /\ g[i - 1] = f[i - 1]
      BY <3>1
    <3>3. f[i] = ApplyObservation(f[i - 1], batch[i], tick)
      BY <1>f, <3>1, <2>2
    <3>4. QED BY <3>2, <3>3, <2>2
  <2>3. CASE ~(i <= k - 1)
    <3>1. i - 1 \in 0 .. k /\ i - 1 <= k - 1 /\ i # 0
      BY <2>3, <1>3
    <3>2. g[i - 1] = f[i - 1] /\ g[i] = ApplyObservation(f[i - 1], batch[i], tick)
      BY <3>1, <2>3
    <3>3. QED BY <3>1, <3>2
  <2>4. QED BY <2>1, <2>2, <2>3
<1>7. g = [i \in 0 .. k |-> g[i]]
  OBVIOUS
<1> HIDE DEF g
<1>8. Applies(g, batch, tick, k)
  BY <1>6, <1>7 DEF Applies
<1>9. QED BY <1>8, <1>2

(* A report ends with the last of them.                                    *)
LEMMA ObservationsApplied ==
    ASSUME NEW batch \in Seq(Events), NEW tick
    PROVE  \E g : /\ Applies(g, batch, tick, Len(batch))
                  /\ ApplyObservations(batch, tick) = g[Len(batch)]
<1>1. Len(batch) \in Nat
  OBVIOUS
<1>2. \E g : Applies(g, batch, tick, Len(batch))
  BY <1>1, AppliesExists, Zenon
<1>3. QED BY <1>2, Zenon DEF Applies, ApplyObservations, Start
-----------------------------------------------------------------------------
(* The projector *)

(* A projector whose parts agree: the host projection has the topology's   *)
(* tick, nodes and links, the links are between the nodes, the observations *)
(* are of the topology's links, and the snapshot is made from both.        *)
Faithful(p) ==
    /\ p = [topology |-> p.topology, observations |-> p.observations,
            host |-> p.host, snapshot |-> p.snapshot]
    /\ p.topology \in Topology
    /\ Self \in p.topology.nodes
    /\ DOMAIN p.topology.links \subseteq p.topology.nodes \X p.topology.nodes
    /\ p.host = [tick |-> p.topology.tick, nodes |-> p.topology.nodes,
                 links |-> p.topology.links, routes |-> p.host.routes]
    /\ p.observations = [key \in DOMAIN p.topology.links |-> p.observations[key]]
    /\ \A key \in DOMAIN p.topology.links : p.observations[key].link = p.topology.links[key]
    /\ p.snapshot = MeshSnapshotFrom(p.observations, p.host)

(* The parts of a snapshot.                                                *)
LEMMA SnapshotParts ==
    ASSUME NEW o, NEW h
    PROVE  /\ MeshSnapshotFrom(o, h).tick = h.tick
           /\ MeshSnapshotFrom(o, h).nodes = h.nodes
           /\ MeshSnapshotFrom(o, h).edges =
                  [key \in DOMAIN h.links |-> EdgeObservationFrom(o, key, h)]
           /\ DOMAIN MeshSnapshotFrom(o, h).routes =
                  {id \in DOMAIN h.routes : {h.routes[id].owner, h.routes[id].to} \subseteq h.nodes}
BY DEF MeshSnapshotFrom

(* It shows the tick and the nodes of the host projection.                 *)
LEMMA SnapshotShows ==
    ASSUME NEW o, NEW h, NEW n, n = MeshSnapshotFrom(o, h)
    PROVE  n.tick = h.tick /\ n.nodes = h.nodes
BY DEF MeshSnapshotFrom

(* A topology is its tick, its nodes and its links.                        *)
LEMMA TopologyParts ==
    ASSUME NEW t \in Topology
    PROVE  /\ t = [tick |-> t.tick, nodes |-> t.nodes, links |-> t.links]
           /\ t.tick \in 0 .. MaxTick /\ t.nodes \subseteq Nodes
           /\ t.links = [key \in DOMAIN t.links |-> t.links[key]]
           /\ DOMAIN t.links \subseteq Nodes \X Nodes
           /\ \A key \in DOMAIN t.links : t.links[key] \in Links
<1>1. t.links \in Maps(Nodes \X Nodes, Links)
  BY DEF Topology
<1>2. PICK S \in SUBSET (Nodes \X Nodes) : t.links \in [S -> Links]
  BY <1>1 DEF Maps
<1>3. t = [tick |-> t.tick, nodes |-> t.nodes, links |-> t.links]
  BY DEF Topology
<1>4. t.tick \in 0 .. MaxTick /\ t.nodes \subseteq Nodes
  BY DEF Topology
<1>5. QED BY <1>2, <1>3, <1>4

(* And a tick, nodes and links make one.                                   *)
LEMMA TopologyFromParts ==
    ASSUME NEW tick \in 0 .. MaxTick, NEW nodes \in SUBSET Nodes, NEW links,
           links = [key \in DOMAIN links |-> links[key]],
           DOMAIN links \subseteq Nodes \X Nodes,
           \A key \in DOMAIN links : links[key] \in Links
    PROVE  [tick |-> tick, nodes |-> nodes, links |-> links] \in Topology
<1>1. links \in [DOMAIN links -> Links]
  OBVIOUS
<1>2. links \in Maps(Nodes \X Nodes, Links)
  BY <1>1 DEF Maps
<1>3. QED BY <1>2 DEF Topology

(* The snapshot of a projector shows its topology.                         *)
LEMMA FaithfulSnapshot ==
    ASSUME NEW p, Faithful(p)
    PROVE  /\ p.snapshot.tick = p.topology.tick /\ p.snapshot.nodes = p.topology.nodes
           /\ p.snapshot.edges = [key \in DOMAIN p.topology.links |-> p.observations[key]]
<1>1. /\ p.host.tick = p.topology.tick /\ p.host.nodes = p.topology.nodes
      /\ p.host.links = p.topology.links
  <2>1. p.host = [tick |-> p.topology.tick, nodes |-> p.topology.nodes,
                  links |-> p.topology.links, routes |-> p.host.routes]
    BY DEF Faithful
  <2>2. QED BY <2>1
<1>2. p.snapshot = MeshSnapshotFrom(p.observations, p.host)
  BY DEF Faithful
<1>3. DOMAIN p.observations = DOMAIN p.topology.links
  <2>1. p.observations = [key \in DOMAIN p.topology.links |-> p.observations[key]]
    BY DEF Faithful
  <2>2. QED BY <2>1
<1>4. \A key \in DOMAIN p.topology.links :
         EdgeObservationFrom(p.observations, key, p.host) = p.observations[key]
  BY <1>3 DEF EdgeObservationFrom
<1>5. p.snapshot.edges = [key \in DOMAIN p.topology.links |->
                             EdgeObservationFrom(p.observations, key, p.host)]
  BY <1>1, <1>2, SnapshotParts
<1>6. p.snapshot.edges = [key \in DOMAIN p.topology.links |-> p.observations[key]]
  BY <1>4, <1>5
<1>7. p.snapshot.tick = p.host.tick /\ p.snapshot.nodes = p.host.nodes
  BY <1>2, SnapshotShows
<1>8. QED BY <1>1, <1>6, <1>7, Zenon

(* The snapshot of a projector tells its topology.                         *)
LEMMA SnapshotTellsTopology ==
    ASSUME NEW p, NEW q, Faithful(p), Faithful(q), p.snapshot = q.snapshot
    PROVE  p.topology = q.topology
<1>1. /\ p.snapshot.tick = p.topology.tick /\ p.snapshot.nodes = p.topology.nodes
      /\ p.snapshot.edges = [key \in DOMAIN p.topology.links |-> p.observations[key]]
  BY FaithfulSnapshot
<1>2. /\ q.snapshot.tick = q.topology.tick /\ q.snapshot.nodes = q.topology.nodes
      /\ q.snapshot.edges = [key \in DOMAIN q.topology.links |-> q.observations[key]]
  BY FaithfulSnapshot
<1>3. DOMAIN p.topology.links = DOMAIN q.topology.links
  <2>1. DOMAIN p.snapshot.edges = DOMAIN p.topology.links
    BY <1>1
  <2>2. DOMAIN q.snapshot.edges = DOMAIN q.topology.links
    BY <1>2
  <2>3. QED BY <2>1, <2>2
<1>4. \A key \in DOMAIN p.topology.links : p.topology.links[key] = q.topology.links[key]
  <2> TAKE key \in DOMAIN p.topology.links
  <2>1. p.snapshot.edges[key] = p.observations[key]
    BY <1>1
  <2>2. q.snapshot.edges[key] = q.observations[key]
    BY <1>2, <1>3
  <2>3. p.observations[key].link = p.topology.links[key]
    BY DEF Faithful
  <2>4. q.observations[key].link = q.topology.links[key]
    BY <1>3 DEF Faithful
  <2>5. QED BY <2>1, <2>2, <2>3, <2>4
<1>5. p.topology \in Topology /\ q.topology \in Topology
  BY DEF Faithful
<1>6. p.topology.links = q.topology.links
  <2>1. p.topology.links = [key \in DOMAIN p.topology.links |-> p.topology.links[key]]
    BY <1>5, TopologyParts
  <2>2. q.topology.links = [key \in DOMAIN q.topology.links |-> q.topology.links[key]]
    BY <1>5, TopologyParts
  <2>3. QED BY <2>1, <2>2, <1>3, <1>4
<1>7. p.topology = [tick |-> p.topology.tick, nodes |-> p.topology.nodes, links |-> p.topology.links]
  BY <1>5, TopologyParts
<1>8. q.topology = [tick |-> q.topology.tick, nodes |-> q.topology.nodes, links |-> q.topology.links]
  BY <1>5, TopologyParts
<1>9. QED BY <1>1, <1>2, <1>6, <1>7, <1>8

(* Inserting what is there changes nothing.                                *)
LEMMA InsertSame ==
    ASSUME NEW f, NEW k \in DOMAIN f, f = [x \in DOMAIN f |-> f[x]]
    PROVE  Insert(f, k, f[k]) = f
<1>1. DOMAIN f \cup {k} = DOMAIN f
  OBVIOUS
<1>2. [x \in DOMAIN f |-> IF x = k THEN f[k] ELSE f[x]] = [x \in DOMAIN f |-> f[x]]
  OBVIOUS
<1>3. QED BY <1>1, <1>2 DEF Insert

(* A projector put together from its parts.                                *)
Assembled(tick, nodes, links, o, h, s) ==
    [topology |-> [tick |-> tick, nodes |-> nodes, links |-> links],
     observations |-> o, host |-> h, snapshot |-> s]

(* The host projection of a topology with some routes.                     *)
HostOf(tick, nodes, links, routes) ==
    [tick |-> tick, nodes |-> nodes, links |-> links, routes |-> routes]

(* What the parts must satisfy for the projector to be faithful.           *)
PartsAgree(tick, nodes, links, o) ==
    /\ tick \in 0 .. MaxTick /\ nodes \subseteq Nodes /\ Self \in nodes
    /\ links = [key \in DOMAIN links |-> links[key]]
    /\ DOMAIN links \subseteq nodes \X nodes
    /\ \A key \in DOMAIN links : links[key] \in Links
    /\ o = [key \in DOMAIN links |-> o[key]]
    /\ \A key \in DOMAIN links : o[key].link = links[key]

(* A faithful projector is put together from parts that agree.             *)
LEMMA FaithfulParts ==
    ASSUME NEW p, Faithful(p)
    PROVE  /\ PartsAgree(p.topology.tick, p.topology.nodes, p.topology.links, p.observations)
           /\ p = Assembled(p.topology.tick, p.topology.nodes, p.topology.links,
                            p.observations, p.host, p.snapshot)
           /\ p.host = HostOf(p.topology.tick, p.topology.nodes, p.topology.links, p.host.routes)
           /\ p.snapshot = MeshSnapshotFrom(p.observations, p.host)
<1>1. p.topology \in Topology
  BY DEF Faithful
<1>2. PartsAgree(p.topology.tick, p.topology.nodes, p.topology.links, p.observations)
  BY <1>1, TopologyParts DEF Faithful, PartsAgree
<1>3. p.topology = [tick |-> p.topology.tick, nodes |-> p.topology.nodes, links |-> p.topology.links]
  BY <1>1, TopologyParts
<1>4. p = [topology |-> p.topology, observations |-> p.observations,
           host |-> p.host, snapshot |-> p.snapshot]
  BY DEF Faithful
<1>5. p = Assembled(p.topology.tick, p.topology.nodes, p.topology.links,
                    p.observations, p.host, p.snapshot)
  BY <1>3, <1>4, Zenon DEF Assembled
<1>6. QED BY <1>2, <1>5, Zenon DEF Faithful, HostOf

(* With its host projection and its snapshot, it is faithful.              *)
LEMMA FaithfulAssembled ==
    ASSUME NEW tick, NEW nodes, NEW links, NEW o, NEW routes,
           PartsAgree(tick, nodes, links, o)
    PROVE  Faithful(Assembled(tick, nodes, links, o, HostOf(tick, nodes, links, routes),
                              MeshSnapshotFrom(o, HostOf(tick, nodes, links, routes))))
<1> DEFINE h == HostOf(tick, nodes, links, routes)
           s == MeshSnapshotFrom(o, h)
           t == [tick |-> tick, nodes |-> nodes, links |-> links]
           p == Assembled(tick, nodes, links, o, h, s)
<1>1. p.topology = t /\ p.observations = o /\ p.host = h /\ p.snapshot = s
  BY DEF Assembled
<1>2. t.tick = tick /\ t.nodes = nodes /\ t.links = links /\ h.routes = routes
  BY DEF HostOf
<1>3. t \in Topology
  <2>1. /\ tick \in 0 .. MaxTick /\ nodes \in SUBSET Nodes
        /\ links = [key \in DOMAIN links |-> links[key]]
        /\ DOMAIN links \subseteq Nodes \X Nodes
        /\ \A key \in DOMAIN links : links[key] \in Links
    <3>1. /\ tick \in 0 .. MaxTick /\ nodes \subseteq Nodes
          /\ links = [key \in DOMAIN links |-> links[key]]
          /\ DOMAIN links \subseteq nodes \X nodes
          /\ \A key \in DOMAIN links : links[key] \in Links
      BY DEF PartsAgree
    <3>2. nodes \X nodes \subseteq Nodes \X Nodes
      BY <3>1
    <3>3. QED BY <3>1, <3>2
  <2>2. QED BY <2>1, TopologyFromParts, Zenon
<1>4. h = [tick |-> t.tick, nodes |-> t.nodes, links |-> t.links, routes |-> h.routes]
  BY <1>2, Zenon DEF HostOf
<1>5. p = [topology |-> t, observations |-> o, host |-> h, snapshot |-> s]
  BY Zenon DEF Assembled
<1>6. Self \in t.nodes /\ DOMAIN t.links \subseteq t.nodes \X t.nodes
  BY <1>2 DEF PartsAgree
<1>7. o = [key \in DOMAIN t.links |-> o[key]]
  BY <1>2 DEF PartsAgree
<1>8. \A key \in DOMAIN t.links : o[key].link = t.links[key]
  BY <1>2 DEF PartsAgree
<1> HIDE DEF p, t, s, h
<1>9. s = MeshSnapshotFrom(o, h)
  BY DEF s
<1>10. Faithful(p)
  BY <1>1, <1>3, <1>4, <1>5, <1>6, <1>7, <1>8, <1>9 DEF Faithful
<1>11. QED BY <1>10 DEF p, s, h

(* The tick of a faithful projector is a number.                           *)
LEMMA FaithfulTick ==
    ASSUME NEW p, Faithful(p)
    PROVE  p.topology.tick \in Int
<1>1. p.topology.tick \in 0 .. MaxTick
  BY FaithfulParts, Zenon DEF PartsAgree
<1>2. QED BY <1>1, NaturalBounds

(* A topology that has lost nothing of an earlier one.                     *)
Grown(t, u) ==
    t.tick <= u.tick /\ t.nodes \subseteq u.nodes /\ DOMAIN t.links \subseteq DOMAIN u.links

(* Nothing is lost in two steps if nothing is in each.                     *)
LEMMA GrownTwice ==
    ASSUME NEW t, NEW u, NEW v, {t.tick, u.tick, v.tick} \subseteq Int, Grown(t, u), Grown(u, v)
    PROVE  Grown(t, v)
BY DEF Grown

(* A refresh after the generic projector has the topology.                 *)
LEMMA Refreshed ==
    ASSUME NEW tick, NEW nodes, NEW links, NEW o, NEW h, NEW s, NEW r,
           PartsAgree(tick, nodes, links, o),
           r = RefreshSnapshot(IngestTopology(Assembled(tick, nodes, links, o, h, s)))
    PROVE  /\ Faithful(r.projector)
           /\ r.changed \in BOOLEAN
           /\ ~r.changed => r.projector.snapshot = s
           /\ r.projector.host.routes = h.routes
           /\ r.projector.topology.tick = tick
           /\ r.projector.topology.nodes = nodes /\ r.projector.topology.links = links
<1> DEFINE g == HostOf(tick, nodes, links, h.routes)
           n == MeshSnapshotFrom(o, g)
<1>1. IngestTopology(Assembled(tick, nodes, links, o, h, s)) = Assembled(tick, nodes, links, o, g, s)
  BY DEF IngestTopology, Assembled, HostOf
<1>2. /\ Assembled(tick, nodes, links, o, g, s).observations = o
      /\ Assembled(tick, nodes, links, o, g, s).host = g
      /\ Assembled(tick, nodes, links, o, g, s).snapshot = s
      /\ \A x : [Assembled(tick, nodes, links, o, g, s) EXCEPT !.snapshot = x]
                    = Assembled(tick, nodes, links, o, g, x)
  BY DEF Assembled
<1>3. r = [projector |-> Assembled(tick, nodes, links, o, g, n), changed |-> n # s]
  BY <1>1, <1>2, Zenon DEF RefreshSnapshot
<1>4. Faithful(Assembled(tick, nodes, links, o, g, n))
  BY FaithfulAssembled
<1>5. /\ Assembled(tick, nodes, links, o, g, n).snapshot = n
      /\ Assembled(tick, nodes, links, o, g, n).host.routes = h.routes
      /\ Assembled(tick, nodes, links, o, g, n).topology.tick = tick
      /\ Assembled(tick, nodes, links, o, g, n).topology.nodes = nodes
      /\ Assembled(tick, nodes, links, o, g, n).topology.links = links
  BY DEF Assembled, HostOf
<1>6. r.projector = Assembled(tick, nodes, links, o, g, n) /\ r.changed = (n # s)
  BY <1>3
<1> HIDE DEF n
<1>7. QED BY <1>4, <1>5, <1>6

(* A link put into the projector, part by part.                            *)
LEMMA LinkInserted ==
    ASSUME NEW tick, NEW nodes, NEW links, NEW o, NEW h, NEW s, NEW key, NEW ob
    PROVE  InsertLink(Assembled(tick, nodes, links, o, h, s), key, ob).projector =
               Assembled(tick, nodes, Insert(links, key, ob.link), Insert(o, key, ob), h, s)
<1> DEFINE a == Assembled(tick, nodes, links, o, h, s)
<1>1. /\ a.topology = [tick |-> tick, nodes |-> nodes, links |-> links]
      /\ a.topology.links = links /\ a.observations = o
  BY DEF Assembled
<1>2. \A u : [a EXCEPT !.topology.links = u] = Assembled(tick, nodes, u, o, h, s)
  BY DEF Assembled
<1>3. \A u, v : [Assembled(tick, nodes, u, o, h, s) EXCEPT !.observations = v] =
                    Assembled(tick, nodes, u, v, h, s)
  BY DEF Assembled
<1> HIDE DEF a
<1>4. \A u, v : [a EXCEPT !.topology.links = u, !.observations = v] =
                    [[a EXCEPT !.topology.links = u] EXCEPT !.observations = v]
  OBVIOUS
<1>5. InsertLink(a, key, ob).projector =
          [a EXCEPT !.topology.links = Insert(links, key, ob.link), !.observations = Insert(o, key, ob)]
  BY <1>1 DEF InsertLink
<1>6. QED BY <1>2, <1>3, <1>4, <1>5, Zenon DEF a

(* An observation in the projector.                                        *)
LEMMA ObservationIngested ==
    ASSUME NEW p, Faithful(p), NEW event \in Events, event.type # "fanout",
           NEW tick \in 0 .. MaxTick, p.topology.tick <= tick
    PROVE  /\ Faithful(IngestTransportObservation(p, event, tick).projector)
           /\ IngestTransportObservation(p, event, tick).changed \in BOOLEAN
           /\ ~IngestTransportObservation(p, event, tick).changed =>
                  IngestTransportObservation(p, event, tick).projector.snapshot = p.snapshot
           /\ IngestTransportObservation(p, event, tick).projector.host.routes = p.host.routes
           /\ IngestTransportObservation(p, event, tick).projector.topology.tick <= tick
           /\ Grown(p.topology, IngestTransportObservation(p, event, tick).projector.topology)
<1> DEFINE t == p.topology.tick
           nodes == p.topology.nodes
           links == p.topology.links
           o == p.observations
           h == p.host
           s == p.snapshot
           key == <<Self, event.node>>
           obs == [link |-> event.link, tick |-> tick]
           r == IngestTransportObservation(p, event, tick)
           bumped == BumpTopologyTick(p, tick)
           known == EnsureRemoteNode(bumped.projector, event.node)
           linked == InsertLink(known.projector, key, LinkObservationFromBleEvent(event, tick))
<1>p. p = Assembled(t, nodes, links, o, h, s) /\ PartsAgree(t, nodes, links, o)
  BY FaithfulParts
<1>t. t \in 0 .. MaxTick /\ t <= tick /\ tick \in Int /\ t \in Int
  <2>1. MaxTick \in Nat
    BY ViewAssumption
  <2>2. QED BY <1>p, <2>1 DEF PartsAgree
<1>g. \A u : u.tick = tick /\ nodes \subseteq u.nodes /\ DOMAIN links \subseteq DOMAIN u.links =>
                Grown(p.topology, u)
  BY DEF Grown
<1>s. Grown(p.topology, p.topology)
  BY <1>t DEF Grown
<1> HIDE DEF t, nodes, links, o, h, s, key, obs
<1>1. /\ bumped.projector = Assembled(tick, nodes, links, o, h, s)
      /\ bumped.changed = (tick > t)
  <2>1. p.topology.tick = t
    BY DEF t
  <2>2. (IF tick > t THEN tick ELSE t) = tick
    BY <1>t
  <2>3. [p EXCEPT !.topology.tick = tick] = Assembled(tick, nodes, links, o, h, s)
    BY <1>p DEF Assembled
  <2>4. bumped = [projector |-> [p EXCEPT !.topology.tick = IF tick > t THEN tick ELSE t],
                  changed |-> tick > t]
    BY <2>1 DEF BumpTopologyTick
  <2>5. QED BY <2>2, <2>3, <2>4
<1>2. CASE event.type = "payload"
  <2>1. r = IF ~bumped.changed THEN bumped ELSE RefreshSnapshot(IngestTopology(bumped.projector))
    BY <1>2 DEF IngestTransportObservation
  <2>2. CASE ~bumped.changed
    <3>0. ~(tick > t)
      BY <2>2, <1>1, Zenon
    <3>1. tick = t
      BY <3>0, <1>t
    <3>2. r.projector = p /\ r.changed = FALSE
      BY <3>1, <1>1, <2>1, <2>2, <1>p
    <3>3. p.topology.tick <= tick
      OBVIOUS
    <3> HIDE DEF r
    <3>4. /\ Faithful(r.projector)
          /\ r.changed \in BOOLEAN
          /\ ~r.changed => r.projector.snapshot = p.snapshot
          /\ r.projector.host.routes = p.host.routes
          /\ r.projector.topology.tick <= tick
          /\ Grown(p.topology, r.projector.topology)
      BY <3>2, <3>3, <1>s
    <3>5. QED BY <3>4 DEF r
  <2>3. CASE bumped.changed
    <3>1. r = RefreshSnapshot(IngestTopology(Assembled(tick, nodes, links, o, h, s)))
      BY <2>1, <2>3, <1>1
    <3>2. PartsAgree(tick, nodes, links, o)
      BY <1>p DEF PartsAgree
    <3> HIDE DEF r
    <3>3. /\ Faithful(r.projector)
          /\ r.changed \in BOOLEAN
          /\ ~r.changed => r.projector.snapshot = s
          /\ r.projector.host.routes = h.routes
          /\ r.projector.topology.tick = tick
          /\ r.projector.topology.nodes = nodes /\ r.projector.topology.links = links
      BY <3>1, <3>2, Refreshed
    <3>4. tick <= tick
      BY <1>t
    <3>5. Grown(p.topology, r.projector.topology)
      BY <3>3, <1>g
    <3>6. QED BY <3>3, <3>4, <3>5 DEF r, s, h
  <2>4. QED BY <2>2, <2>3
<1>3. CASE event.type # "payload"
  <2>e. event.node \in Nodes /\ event.link \in Links
    BY <1>3, ViewAssumption DEF Events, Nodes, Links
  <2>1. /\ known.projector = Assembled(tick, nodes \cup {event.node}, links, o, h, s)
        /\ known.changed = (event.node \notin nodes)
    BY <1>1 DEF EnsureRemoteNode, Assembled
  <2> DEFINE links2 == Insert(links, key, event.link)
             o2 == Insert(o, key, obs)
             nodes2 == nodes \cup {event.node}
  <2>2. /\ linked.projector = Assembled(tick, nodes2, links2, o2, h, s)
        /\ linked.changed = (\/ key \notin DOMAIN links \/ links[key] # event.link \/ o[key] # obs)
    <3>1. LinkObservationFromBleEvent(event, tick) = obs /\ obs.link = event.link
      BY DEF LinkObservationFromBleEvent, obs
    <3>2. linked = InsertLink(Assembled(tick, nodes2, links, o, h, s), key, obs)
      BY <2>1, <3>1
    <3> HIDE DEF nodes2
    <3>3. linked.projector = Assembled(tick, nodes2, links2, o2, h, s)
      BY <3>1, <3>2, LinkInserted
    <3> DEFINE a == Assembled(tick, nodes2, links, o, h, s)
    <3>4. a.topology.links = links /\ a.observations = o
      BY DEF Assembled
    <3> HIDE DEF a
    <3>5. linked = InsertLink(a, key, obs)
      BY <3>2 DEF a
    <3>6. InsertLink(a, key, obs).changed = (\/ key \notin DOMAIN a.topology.links
                                             \/ a.topology.links[key] # obs.link
                                             \/ a.observations[key] # obs)
      BY DEF InsertLink
    <3>7. QED BY <3>1, <3>3, <3>4, <3>5, <3>6, Zenon
  <2> DEFINE c == bumped.changed \/ known.changed \/ linked.changed
  <2>3. r = IF ~c THEN [projector |-> linked.projector, changed |-> c]
            ELSE RefreshSnapshot(IngestTopology(linked.projector))
    BY <1>3 DEF IngestTransportObservation, key
  <2>4. CASE ~c
    <3>0. /\ ~(tick > t) /\ event.node \in nodes
          /\ key \in DOMAIN links /\ links[key] = event.link /\ o[key] = obs
      BY <2>4, <1>1, <2>1, <2>2, Zenon
    <3>1. tick = t /\ event.node \in nodes /\ key \in DOMAIN links /\ links[key] = event.link
          /\ o[key] = obs
      BY <3>0, <1>t
    <3>2. links = [x \in DOMAIN links |-> links[x]] /\ o = [x \in DOMAIN links |-> o[x]]
      BY <1>p DEF PartsAgree
    <3>3. DOMAIN o = DOMAIN links
      BY <3>2
    <3>4. links2 = links
      BY <3>1, <3>2, InsertSame
    <3>5. o = [x \in DOMAIN o |-> o[x]] /\ key \in DOMAIN o
      BY <3>1, <3>2, <3>3
    <3>6. o2 = o
      BY <3>1, <3>5, InsertSame
    <3>7. nodes2 = nodes
      BY <3>1
    <3> HIDE DEF links2, o2, nodes2
    <3>8. linked.projector = p
      BY <2>2, <3>1, <3>4, <3>6, <3>7, <1>p
    <3> HIDE DEF c
    <3>9. r.projector = p /\ r.changed = FALSE
      BY <3>8, <2>3, <2>4
    <3> HIDE DEF r
    <3>10. /\ Faithful(r.projector)
           /\ r.changed \in BOOLEAN
           /\ ~r.changed => r.projector.snapshot = p.snapshot
           /\ r.projector.host.routes = p.host.routes
           /\ r.projector.topology.tick <= tick
           /\ Grown(p.topology, r.projector.topology)
      BY <3>9, <1>s
    <3>11. QED BY <3>10 DEF r
  <2>5. CASE c
    <3>1. r = RefreshSnapshot(IngestTopology(Assembled(tick, nodes2, links2, o2, h, s)))
      BY <2>3, <2>5, <2>2
    <3>2. PartsAgree(tick, nodes2, links2, o2)
      <4>1. nodes2 \subseteq Nodes /\ Self \in nodes2
        BY <1>p, <2>e DEF PartsAgree
      <4>2. key \in nodes2 \X nodes2 /\ nodes \X nodes \subseteq nodes2 \X nodes2
        BY <4>1 DEF key
      <4>3. DOMAIN links2 = DOMAIN links \cup {key}
        BY DEF Insert
      <4>4. DOMAIN links2 \subseteq nodes2 \X nodes2
        BY <4>2, <4>3, <1>p DEF PartsAgree
      <4>5. links2 = [x \in DOMAIN links2 |-> links2[x]]
        BY DEF Insert
      <4>6. \A x \in DOMAIN links2 : links2[x] = IF x = key THEN event.link ELSE links[x]
        BY DEF Insert
      <4>7. DOMAIN o = DOMAIN links
        <5>1. o = [x \in DOMAIN links |-> o[x]]
          BY <1>p DEF PartsAgree
        <5>2. QED BY <5>1
      <4>8. \A x \in DOMAIN links2 : o2[x] = IF x = key THEN obs ELSE o[x]
        BY <4>3, <4>7 DEF Insert
      <4>9. o2 = [x \in DOMAIN links2 |-> o2[x]]
        <5>1. DOMAIN o2 = DOMAIN links2
          BY <4>7 DEF Insert
        <5>2. o2 = [x \in DOMAIN o2 |-> o2[x]]
          BY DEF Insert
        <5>3. QED BY <5>1, <5>2
      <4> HIDE DEF links2, o2, nodes2
      <4>10. \A x \in DOMAIN links : links[x] \in Links /\ o[x].link = links[x]
        BY <1>p DEF PartsAgree
      <4>11. \A x \in DOMAIN links2 : links2[x] \in Links
        BY <4>3, <4>6, <4>10, <2>e
      <4>12. obs.link = event.link
        BY DEF obs
      <4>13. \A x \in DOMAIN links2 : o2[x].link = links2[x]
        BY <4>3, <4>6, <4>8, <4>10, <4>12
      <4>14. QED BY <4>1, <4>4, <4>5, <4>9, <4>11, <4>13 DEF PartsAgree
    <3>3. nodes \subseteq nodes2 /\ DOMAIN links \subseteq DOMAIN links2
      BY DEF Insert
    <3> HIDE DEF r, nodes2, links2, o2
    <3>4. /\ Faithful(r.projector)
          /\ r.changed \in BOOLEAN
          /\ ~r.changed => r.projector.snapshot = s
          /\ r.projector.host.routes = h.routes
          /\ r.projector.topology.tick = tick
          /\ r.projector.topology.nodes = nodes2 /\ r.projector.topology.links = links2
      BY <3>1, <3>2, Refreshed
    <3>5. tick <= tick
      BY <1>t
    <3>6. Grown(p.topology, r.projector.topology)
      BY <3>3, <3>4, <1>g
    <3>7. QED BY <3>4, <3>5, <3>6 DEF r, s, h
  <2>6. QED BY <2>4, <2>5
<1>4. QED BY <1>2, <1>3

(* A change of the routes and the refresh after it.                        *)
LEMMA RoutesRefreshed ==
    ASSUME NEW p, Faithful(p), NEW routes, NEW r,
           r = RefreshSnapshot([p EXCEPT !.host.routes = routes])
    PROVE  /\ Faithful(r.projector)
           /\ r.changed \in BOOLEAN
           /\ ~r.changed => r.projector.snapshot = p.snapshot
           /\ r.projector.host.routes = routes
           /\ r.projector.topology = p.topology
<1> DEFINE t == p.topology.tick
           nodes == p.topology.nodes
           links == p.topology.links
           o == p.observations
           h == p.host
           s == p.snapshot
           g == HostOf(t, nodes, links, routes)
           n == MeshSnapshotFrom(o, g)
<1>1. /\ p = Assembled(t, nodes, links, o, h, s) /\ PartsAgree(t, nodes, links, o)
      /\ h = HostOf(t, nodes, links, h.routes)
  BY FaithfulParts
<1>2. p.host = h /\ p.topology = [tick |-> t, nodes |-> nodes, links |-> links]
  BY <1>1 DEF Assembled
<1> HIDE DEF t, nodes, links, o, h, s
<1>3. [h EXCEPT !.routes = routes] = g
  BY <1>1 DEF HostOf
<1>4. [p EXCEPT !.host.routes = routes] = [p EXCEPT !.host = [p.host EXCEPT !.routes = routes]]
  OBVIOUS
<1>5. [p EXCEPT !.host = g] = Assembled(t, nodes, links, o, g, s)
  BY <1>1 DEF Assembled
<1>6. [p EXCEPT !.host.routes = routes] = Assembled(t, nodes, links, o, g, s)
  BY <1>2, <1>3, <1>4, <1>5
<1>7. /\ Assembled(t, nodes, links, o, g, s).observations = o
      /\ Assembled(t, nodes, links, o, g, s).host = g
      /\ Assembled(t, nodes, links, o, g, s).snapshot = s
      /\ \A x : [Assembled(t, nodes, links, o, g, s) EXCEPT !.snapshot = x]
                    = Assembled(t, nodes, links, o, g, x)
  BY DEF Assembled
<1>8. r = [projector |-> Assembled(t, nodes, links, o, g, n), changed |-> n # s]
  BY <1>6, <1>7, Zenon DEF RefreshSnapshot
<1>9. Faithful(Assembled(t, nodes, links, o, g, n))
  BY <1>1, FaithfulAssembled
<1>10. /\ Assembled(t, nodes, links, o, g, n).snapshot = n
       /\ Assembled(t, nodes, links, o, g, n).host.routes = routes
       /\ Assembled(t, nodes, links, o, g, n).topology =
              [tick |-> t, nodes |-> nodes, links |-> links]
  BY DEF Assembled, HostOf
<1>11. r.projector = Assembled(t, nodes, links, o, g, n) /\ r.changed = (n # s)
  BY <1>8
<1> HIDE DEF n
<1>12. s = p.snapshot
  BY DEF s
<1>13. QED BY <1>2, <1>9, <1>10, <1>11, <1>12

-----------------------------------------------------------------------------
(* A report applied observation by observation *)

(* The admission after the first i observations: the last fanout event     *)
(* about a peer decides, and without one nothing has changed.              *)
AdmittedAfter(subs, batch, i) ==
    \A n : n \in subs <=>
        \/ \E j \in FanoutOf(batch, n) :
              j <= i /\ batch[j].link.up /\ \A k \in FanoutOf(batch, n) : k <= i => k <= j
        \/ n \in subscribers /\ \A k \in FanoutOf(batch, n) : k > i

(* The projector p and the flag c after some of a batch.                   *)
ObservedAfter(p, c, tick) ==
    /\ Faithful(p)
    /\ p.host.routes = projector.host.routes
    /\ c \in BOOLEAN
    /\ ~c => p.snapshot = projector.snapshot
    /\ p.topology.tick <= tick
    /\ Grown(projector.topology, p.topology)

(* One observation keeps what ObservedAfter says.                          *)
LEMMA ObservationObserved ==
    ASSUME NEW event \in Events, NEW tick \in 0 .. MaxTick, NEW st, Faithful(projector),
           ObservedAfter(st.projector, st.changed, tick)
    PROVE  ObservedAfter(ApplyObservation(st, event, tick).projector,
                         ApplyObservation(st, event, tick).changed, tick)
<1>1. CASE event.type = "fanout"
  <2>1. /\ ApplyObservation(st, event, tick).projector = st.projector
        /\ ApplyObservation(st, event, tick).changed = (st.changed \/ FALSE)
    BY <1>1 DEF ApplyObservation
  <2>2. ApplyObservation(st, event, tick).changed = st.changed
    BY <2>1 DEF ObservedAfter
  <2>3. QED BY <2>1, <2>2
<1>2. CASE event.type # "fanout"
  <2> DEFINE r == IngestTransportObservation(st.projector, event, tick)
  <2>1. /\ ApplyObservation(st, event, tick).projector = r.projector
        /\ ApplyObservation(st, event, tick).changed = (st.changed \/ r.changed)
    BY <1>2 DEF ApplyObservation
  <2>2. /\ Faithful(r.projector) /\ r.changed \in BOOLEAN
        /\ ~r.changed => r.projector.snapshot = st.projector.snapshot
        /\ r.projector.host.routes = st.projector.host.routes
        /\ r.projector.topology.tick <= tick
        /\ Grown(st.projector.topology, r.projector.topology)
    BY <1>2, ObservationIngested DEF ObservedAfter
  <2> HIDE DEF r
  <2>g. Grown(projector.topology, r.projector.topology)
    <3>1. Faithful(st.projector) /\ Grown(projector.topology, st.projector.topology)
      BY DEF ObservedAfter
    <3>2. \A p : Faithful(p) => p.topology.tick \in Int
      BY FaithfulTick
    <3>3. QED BY <2>2, <3>1, <3>2, GrownTwice
  <2>3. (st.changed \/ r.changed) \in BOOLEAN
    OBVIOUS
  <2>4. ~(st.changed \/ r.changed) => r.projector.snapshot = projector.snapshot
    BY <2>2 DEF ObservedAfter
  <2>5. ObservedAfter(r.projector, st.changed \/ r.changed, tick)
    BY <2>2, <2>3, <2>4, <2>g DEF ObservedAfter
  <2>6. QED BY <2>1, <2>5, Zenon
<1>3. QED BY <1>1, <1>2

(* One observation moves the admission on.                                 *)
LEMMA ObservationAdmitted ==
    ASSUME NEW batch \in Seq(Events), NEW i \in 1 .. Len(batch), NEW subs,
           AdmittedAfter(subs, batch, i - 1)
    PROVE  AdmittedAfter(IngestFanout(subs, batch[i]), batch, i)
<1> DEFINE new == IngestFanout(subs, batch[i])
<1> SUFFICES ASSUME NEW n
             PROVE  n \in new <=>
                \/ \E j \in FanoutOf(batch, n) :
                      j <= i /\ batch[j].link.up /\ \A k \in FanoutOf(batch, n) : k <= i => k <= j
                \/ n \in subscribers /\ \A k \in FanoutOf(batch, n) : k > i
  BY Zenon DEF AdmittedAfter
<1> DEFINE F == FanoutOf(batch, n)
<1>1. F \subseteq Int /\ i \in Int
  BY DEF FanoutOf
<1>2. n \in subs <=>
        \/ \E j \in F : j <= i - 1 /\ batch[j].link.up /\ \A k \in F : k <= i - 1 => k <= j
        \/ n \in subscribers /\ \A k \in F : k > i - 1
  BY Zenon DEF AdmittedAfter
<1>3. i \in F <=> batch[i].type = "fanout" /\ batch[i].node = n
  BY DEF FanoutOf
<1>4. CASE i \in F
  <2>1. n \in new <=> batch[i].link.up
    BY <1>3, <1>4 DEF IngestFanout
  <2> HIDE DEF new, F
  <2>2. \A j \in F : j <= i /\ (\A k \in F : k <= i => k <= j) => j = i
    BY <1>1, <1>4
  <2>3. i <= i /\ \A k \in F : k <= i => k <= i
    BY <1>1
  <2>4. ~ \A k \in F : k > i
    BY <1>1, <1>4
  <2>5. n \in new <=>
                \/ \E j \in F : j <= i /\ batch[j].link.up /\ \A k \in F : k <= i => k <= j
                \/ n \in subscribers /\ \A k \in F : k > i
    BY <1>4, <2>1, <2>2, <2>3, <2>4
  <2>6. QED BY <2>5 DEF F
<1>5. CASE i \notin F
  <2>1. n \in new <=> n \in subs
    BY <1>3, <1>5 DEF IngestFanout
  <2> HIDE DEF new, F
  <2>2. \A k \in F : (k <= i <=> k <= i - 1) /\ (k > i <=> k > i - 1)
    BY <1>1, <1>5
  <2>3. n \in new <=>
                \/ \E j \in F : j <= i /\ batch[j].link.up /\ \A k \in F : k <= i => k <= j
                \/ n \in subscribers /\ \A k \in F : k > i
    BY <1>2, <2>1, <2>2
  <2>4. QED BY <2>3 DEF F
<1>6. QED BY <1>4, <1>5

(* Hence a whole batch does, by a least position where it would not.       *)
LEMMA ReportApplied ==
    ASSUME NEW batch \in Seq(Events), NEW tick \in 0 .. MaxTick,
           Faithful(projector), projector.topology.tick <= tick
    PROVE  /\ ObservedAfter(ApplyObservations(batch, tick).projector,
                            ApplyObservations(batch, tick).changed, tick)
           /\ AdmittedAfter(ApplyObservations(batch, tick).subscribers, batch, Len(batch))
<1>1. PICK g : /\ Applies(g, batch, tick, Len(batch))
               /\ ApplyObservations(batch, tick) = g[Len(batch)]
  BY ObservationsApplied
<1> DEFINE N == Len(batch)
           Ok(i) == /\ ObservedAfter(g[i].projector, g[i].changed, tick)
                    /\ AdmittedAfter(g[i].subscribers, batch, i)
           T == {i \in 0 .. N : ~Ok(i)}
<1>2. N \in Nat
  OBVIOUS
<1>3. /\ g[0] = Start
      /\ \A i \in 1 .. N : g[i] = ApplyObservation(g[i - 1], batch[i], tick)
  <2>1. g = [i \in 0 .. N |-> IF i = 0 THEN Start ELSE ApplyObservation(g[i - 1], batch[i], tick)]
    BY <1>1 DEF Applies
  <2> HIDE DEF N
  <2>2. \A i \in 0 .. N : g[i] = IF i = 0 THEN Start ELSE ApplyObservation(g[i - 1], batch[i], tick)
    BY <2>1
  <2>3. 0 \in 0 .. N
    BY <1>2
  <2>4. \A i \in 1 .. N : i \in 0 .. N /\ i # 0
    BY <1>2
  <2>5. QED BY <2>2, <2>3, <2>4
<1>4. Ok(0)
  <2>1. g[0].projector = projector /\ g[0].subscribers = subscribers /\ g[0].changed = FALSE
    BY <1>3 DEF Start
  <2>2. ObservedAfter(projector, FALSE, tick)
    <3>1. projector.topology.tick \in Int
      BY FaithfulTick
    <3>2. Grown(projector.topology, projector.topology)
      BY <3>1 DEF Grown
    <3>3. QED BY <3>2 DEF ObservedAfter
  <2>3. AdmittedAfter(subscribers, batch, 0)
    BY DEF AdmittedAfter, FanoutOf
  <2>4. QED BY <2>1, <2>2, <2>3
<1>5. ASSUME NEW i \in 1 .. N, Ok(i - 1)
      PROVE  Ok(i)
  <2>1. g[i] = ApplyObservation(g[i - 1], batch[i], tick) /\ batch[i] \in Events
    BY <1>3
  <2>2. ObservedAfter(g[i].projector, g[i].changed, tick)
    BY <1>5, <2>1, ObservationObserved
  <2>3. g[i].subscribers = IngestFanout(g[i - 1].subscribers, batch[i])
    BY <2>1 DEF ApplyObservation
  <2>4. AdmittedAfter(g[i].subscribers, batch, i)
    BY <1>5, <2>3, ObservationAdmitted
  <2>5. QED BY <2>2, <2>4
<1> HIDE DEF Ok
<1>6. T = {}
  <2>1. SUFFICES ASSUME T # {} PROVE FALSE
    OBVIOUS
  <2>2. T \in SUBSET Nat
    BY <1>2
  <2>3. PICK i \in T : \A j \in T : i <= j
    <3> HIDE DEF T
    <3>1. QED BY <2>1, <2>2, LeastNumber
  <2> HIDE DEF N
  <2>4. i \in 0 .. N /\ ~Ok(i)
    OBVIOUS
  <2>5. i \in 1 .. N
    BY <2>4, <1>4, <1>2
  <2>6. i - 1 \in 0 .. N /\ ~(i <= i - 1)
    BY <2>5, <1>2
  <2>7. Ok(i - 1)
    BY <2>3, <2>6
  <2>8. QED BY <2>4, <2>5, <2>7, <1>5
<1>7. N \in 0 .. N
  BY <1>2
<1>8. Ok(N)
  BY <1>6, <1>7
<1>9. QED BY <1>1, <1>8 DEF Ok
(* The outcome of a round ends routes and changes nothing else.            *)
LEMMA OutcomeIngested ==
    ASSUME NEW p, Faithful(p), NEW ended, NEW r, r = IngestRoundOutcome(p, ended)
    PROVE  /\ Faithful(r.projector)
           /\ r.changed \in BOOLEAN
           /\ ~r.changed => r.projector.snapshot = p.snapshot
           /\ DOMAIN r.projector.host.routes = DOMAIN p.host.routes \ ended
           /\ r.projector.topology = p.topology
<1> DEFINE routes == Restrict(p.host.routes, DOMAIN p.host.routes \ ended)
<1>1. r = RefreshSnapshot([p EXCEPT !.host.routes = routes])
  BY DEF IngestRoundOutcome
<1>2. DOMAIN routes = DOMAIN p.host.routes \ ended
  BY DEF Restrict
<1> HIDE DEF routes
<1>3. /\ Faithful(r.projector)
      /\ r.changed \in BOOLEAN
      /\ ~r.changed => r.projector.snapshot = p.snapshot
      /\ r.projector.host.routes = routes
      /\ r.projector.topology = p.topology
  BY <1>1, RoutesRefreshed, SMTT(20)
<1>4. QED BY <1>2, <1>3

(* A materialized route is one more, and changes nothing else.             *)
LEMMA RouteIngested ==
    ASSUME NEW p, Faithful(p), NEW id, NEW route, NEW r,
           r = IngestMaterializedRoute(p, id, route)
    PROVE  /\ Faithful(r.projector)
           /\ r.changed \in BOOLEAN
           /\ ~r.changed => r.projector.snapshot = p.snapshot
           /\ DOMAIN r.projector.host.routes = DOMAIN p.host.routes \cup {id}
           /\ r.projector.topology = p.topology
<1> DEFINE routes == Insert(p.host.routes, id, route)
<1>1. r = RefreshSnapshot([p EXCEPT !.host.routes = routes])
  BY DEF IngestMaterializedRoute
<1>2. DOMAIN routes = DOMAIN p.host.routes \cup {id}
  BY DEF Insert
<1> HIDE DEF routes
<1>3. /\ Faithful(r.projector)
      /\ r.changed \in BOOLEAN
      /\ ~r.changed => r.projector.snapshot = p.snapshot
      /\ r.projector.host.routes = routes
      /\ r.projector.topology = p.topology
  BY <1>1, RoutesRefreshed, SMTT(20)
<1>4. QED BY <1>2, <1>3

(* A report with its outcome.                                              *)
LEMMA BridgeReportApplied ==
    ASSUME NEW batch \in Seq(Events), NEW tick \in 0 .. MaxTick, NEW ended, NEW a,
           Faithful(projector), projector.topology.tick <= tick,
           router.topology = projector.topology,
           a = ApplyBridgeReport(batch, tick, ended)
    PROVE  /\ Faithful(a.projector)
           /\ a.projector.topology.tick <= tick
           /\ a.changed \in BOOLEAN
           /\ ~a.changed => a.projector.snapshot = projector.snapshot
           /\ a.routerInput = a.projector.topology
           /\ DOMAIN a.projector.host.routes = DOMAIN projector.host.routes \ ended
           /\ AdmittedAfter(a.subscribers, batch, Len(batch))
           /\ Grown(projector.topology, a.projector.topology)
<1> DEFINE b == ApplyObservations(batch, tick)
           p == b.projector
           r == IngestRoundOutcome(p, ended)
<1>1. ObservedAfter(p, b.changed, tick) /\ AdmittedAfter(b.subscribers, batch, Len(batch))
  BY ReportApplied
<1>2. /\ a.projector = r.projector
      /\ a.subscribers = b.subscribers
      /\ a.routerInput = IF b.changed THEN p.topology ELSE router.topology
      /\ a.changed = (b.changed \/ r.changed)
  BY DEF ApplyBridgeReport, ReportOutcome
<1>3. /\ Faithful(p) /\ p.host.routes = projector.host.routes /\ b.changed \in BOOLEAN
      /\ ~b.changed => p.snapshot = projector.snapshot
      /\ p.topology.tick <= tick
      /\ Grown(projector.topology, p.topology)
  BY <1>1 DEF ObservedAfter
<1> HIDE DEF b, p
<1>4. /\ Faithful(r.projector)
      /\ r.changed \in BOOLEAN
      /\ ~r.changed => r.projector.snapshot = p.snapshot
      /\ DOMAIN r.projector.host.routes = DOMAIN p.host.routes \ ended
      /\ r.projector.topology = p.topology
  BY <1>3, OutcomeIngested
<1> HIDE DEF r
<1>5. ~b.changed => p.topology = projector.topology
  BY <1>3, SnapshotTellsTopology
<1>6. a.routerInput = a.projector.topology
  BY <1>2, <1>4, <1>5
<1>7. a.changed \in BOOLEAN
  BY <1>2, Zenon
<1>8. ~a.changed => a.projector.snapshot = projector.snapshot
  BY <1>2, <1>3, <1>4
<1>9. QED BY <1>1, <1>2, <1>3, <1>4, <1>6, <1>7, <1>8

-----------------------------------------------------------------------------
(* The inductive invariant *)

(* The bounds and the control of the client thread.                        *)
TaskInv ==
    /\ clock \in 0 .. MaxTick
    /\ outbound \in 0 .. DispatchCapacity
    /\ budget \in 0 .. MaxChanges
    /\ pc \in {"idle", "round", "store", "broadcast"}
    /\ publications \in 0 .. 2
    /\ pc = "round" => clock < MaxTick
    /\ pc = "store" \/ pc = "broadcast" => publications > 0
    /\ followUp \in BOOLEAN /\ changed \in BOOLEAN /\ owed \in BOOLEAN
    /\ outcomeLost \in BOOLEAN /\ skipped \in BOOLEAN

(* The admission is exact.                                                 *)
AdmissionInv ==
    /\ subscribers \subseteq Peers /\ fanout \subseteq Peers /\ unseen \subseteq Peers
    /\ AdmissionExact

(* The projector's parts agree, it is not ahead of the clock, and the      *)
(* router has its topology and, unless an outcome was lost, its routes.    *)
ProjectionInv ==
    /\ Faithful(projector)
    /\ projector.topology.tick <= clock
    /\ router = [active |-> router.active, topology |-> projector.topology]
    /\ router.active \subseteq 1 .. MaxChanges
    /\ outcomeLost \/ DOMAIN projector.host.routes = router.active
    /\ DOMAIN cache \subseteq Nodes

(* What is not yet public is known to be: to the round that runs, to the   *)
(* send that drives it, or as skipped.                                     *)
PublicInv ==
    /\ pc = "idle" => skipped \/ public = projector.snapshot
    /\ pc = "round" => skipped \/ changed \/ owed \/ public = projector.snapshot
    /\ pc = "broadcast" => public = projector.snapshot

(* The last item a reader was sent or has.                                 *)
Newest(r) == IF r.queue = <<>> THEN r.latest ELSE r.queue[Len(r.queue)]

(* The last thing a reader has or is sent is the latest topology.          *)
ReaderInv ==
    /\ reader \in [stage : {"none", "read", "live"}, latest : BOOLEAN, queue : Seq(BOOLEAN),
                   missed : BOOLEAN]
    /\ Len(reader.queue) <= FeedCapacity
    /\ reader.stage = "none" \/ reader.stage = "read" => reader.queue = <<>>
    /\ pc # "broadcast" /\ reader.stage # "none" => Newest(reader) \/ reader.missed

ViewInv == TaskInv /\ AdmissionInv /\ ProjectionInv /\ PublicInv /\ ReaderInv

-----------------------------------------------------------------------------
(* It holds at first *)

(* A projector made from a seed is faithful, and nothing is under way.     *)
LEMMA InitInv == Init => ViewInv
<1> SUFFICES ASSUME Init PROVE ViewInv
  OBVIOUS
<1> USE NaturalBounds
<1>1. PICK seed \in Seeds :
         /\ projector = Projector(seed) /\ clock = seed.tick
         /\ router = [active |-> {}, topology |-> seed]
  BY DEF Init
<1>2. /\ seed \in Topology /\ Self \in seed.nodes
      /\ DOMAIN seed.links \subseteq seed.nodes \X seed.nodes
  BY ViewAssumption
<1> DEFINE t == seed.tick
           nodes == seed.nodes
           links == seed.links
           o == [key \in DOMAIN links |-> [link |-> links[key], tick |-> t]]
           h == HostOf(t, nodes, links, <<>>)
           s == MeshSnapshotFrom(o, h)
<1>3. seed = [tick |-> t, nodes |-> nodes, links |-> links]
  BY <1>2, TopologyParts
<1>4. PartsAgree(t, nodes, links, o)
  <2>1. /\ t \in 0 .. MaxTick /\ nodes \subseteq Nodes
        /\ links = [key \in DOMAIN links |-> links[key]]
        /\ DOMAIN links \subseteq Nodes \X Nodes
        /\ \A key \in DOMAIN links : links[key] \in Links
    BY <1>2, TopologyParts
  <2>2. o = [key \in DOMAIN links |-> o[key]] /\ \A key \in DOMAIN links : o[key].link = links[key]
    OBVIOUS
  <2> HIDE DEF t, nodes, links, o
  <2>3. Self \in nodes /\ DOMAIN links \subseteq nodes \X nodes
    BY <1>2 DEF nodes, links
  <2>4. QED BY <2>1, <2>2, <2>3 DEF PartsAgree
<1>5. projector = Assembled(t, nodes, links, o, h, s)
  BY <1>1, <1>3, Zenon DEF Projector, Assembled, HostOf
<1>6. Faithful(projector)
  BY <1>4, <1>5, FaithfulAssembled, Zenon
<1>7. projector.topology = seed /\ projector.host.routes = <<>>
  BY <1>1 DEF Projector
<1>8. seed.tick \in 0 .. MaxTick
  BY <1>4 DEF PartsAgree
<1>9. TaskInv
  <2>1. /\ clock \in 0 .. MaxTick /\ outbound = 0 /\ budget = MaxChanges /\ pc = "idle"
        /\ publications = 0
    BY <1>1, <1>8 DEF Init
  <2>2. /\ followUp = FALSE /\ changed = FALSE /\ owed = FALSE
        /\ outcomeLost = FALSE /\ skipped = FALSE
    BY DEF Init
  <2>3. 0 \in 0 .. DispatchCapacity /\ MaxChanges \in 0 .. MaxChanges /\ 0 \in 0 .. 2
    OBVIOUS
  <2>4. QED BY <2>1, <2>2, <2>3 DEF TaskInv
<1>10. AdmissionInv
  BY DEF Init, AdmissionInv, AdmissionExact
<1>11. ProjectionInv
  <2>1. router = [active |-> {}, topology |-> projector.topology] /\ router.active = {}
    BY <1>1, <1>7
  <2>2. seed.tick <= seed.tick
    BY <1>8
  <2>3. cache = <<>>
    BY DEF Init
  <2>4. DOMAIN cache \subseteq Nodes /\ DOMAIN projector.host.routes = {}
    BY <1>7, <2>3
  <2>5. QED BY <1>1, <1>6, <1>7, <2>1, <2>2, <2>4 DEF ProjectionInv
<1>12. PublicInv
  BY DEF Init, PublicInv
<1>13. ReaderInv
  BY DEF Init, ReaderInv, Newest
<1>14. QED BY <1>9, <1>10, <1>11, <1>12, <1>13 DEF ViewInv

-----------------------------------------------------------------------------
(* Every step keeps it *)

(* The parts that only depend on variables a step leaves alone.            *)
LEMMA AdmissionKept ==
    ASSUME AdmissionInv, UNCHANGED admission
    PROVE  AdmissionInv'
BY DEF AdmissionInv, AdmissionExact, admission

(* The same for the projection.                                            *)
LEMMA ProjectionKept ==
    ASSUME ProjectionInv, UNCHANGED <<clock, projector, router, outcomeLost, cache>>
    PROVE  ProjectionInv'
<1>1. /\ projector' = projector /\ clock' = clock /\ router' = router
      /\ outcomeLost' = outcomeLost /\ cache' = cache
  OBVIOUS
<1>2. Faithful(projector)'
  BY <1>1 DEF ProjectionInv, Faithful
<1>3. QED BY <1>1, <1>2 DEF ProjectionInv

(* The same for the reader, when no broadcast is due.                      *)
LEMMA ReaderKept ==
    ASSUME ReaderInv, UNCHANGED reader, pc # "broadcast"
    PROVE  ReaderInv'
BY DEF ReaderInv, Newest

(* The thread at the start of a drive_bridge_round.                        *)
LEMMA DriveTask ==
    ASSUME TaskInv, NEW c \in BOOLEAN, DriveBridgeRound(c), outbound' \in 0 .. DispatchCapacity,
           clock' = clock, budget' \in 0 .. MaxChanges, outcomeLost' = outcomeLost,
           skipped' = skipped
    PROVE  TaskInv'
<1>1. /\ clock < MaxTick /\ pc' = "round" /\ followUp' = FALSE /\ changed' = FALSE
      /\ owed' = c /\ publications' = 0
  BY DEF DriveBridgeRound
<1>2. 0 \in 0 .. 2
  OBVIOUS
<1>3. /\ clock \in 0 .. MaxTick /\ outcomeLost \in BOOLEAN /\ skipped \in BOOLEAN
  BY DEF TaskInv
<1>4. clock' \in 0 .. MaxTick /\ clock' < MaxTick
  BY <1>1, <1>3
<1>5. /\ followUp' \in BOOLEAN /\ changed' \in BOOLEAN /\ owed' \in BOOLEAN
      /\ outcomeLost' \in BOOLEAN /\ skipped' \in BOOLEAN
  BY <1>1, <1>3
<1>6. pc' \in {"idle", "round", "store", "broadcast"} /\ publications' \in 0 .. 2
  BY <1>1, <1>2
<1>7. ~(pc' = "store" \/ pc' = "broadcast")
  BY <1>1
<1>8. QED BY <1>4, <1>5, <1>6, <1>7 DEF TaskInv

(* A command that leaves the projection alone starts its round.            *)
LEMMA DriveStarts ==
    ASSUME ViewInv, pc = "idle", DriveBridgeRound(FALSE), outbound' \in 0 .. DispatchCapacity,
           UNCHANGED <<clock, projector, admission, cache, router, public, reader,
                       budget, outcomeLost, skipped>>
    PROVE  ViewInv'
<1>1. TaskInv'
  <2>1. TaskInv /\ budget' \in 0 .. MaxChanges
    BY DEF ViewInv, TaskInv
  <2>2. FALSE \in BOOLEAN
    OBVIOUS
  <2>3. QED BY <2>1, <2>2, DriveTask
<1>2. AdmissionInv'
  BY AdmissionKept DEF ViewInv
<1>3. ProjectionInv'
  BY ProjectionKept DEF ViewInv
<1>4. PublicInv'
  BY DEF ViewInv, PublicInv, DriveBridgeRound
<1>5. ReaderInv'
  BY ReaderKept DEF ViewInv
<1>6. QED BY <1>1, <1>2, <1>3, <1>4, <1>5 DEF ViewInv

(* A queued command fits the mailbox.                                      *)
LEMMA QueuedFits ==
    ASSUME TaskInv, QueueTransportCommand
    PROVE  outbound' \in 0 .. DispatchCapacity
BY NaturalBounds DEF TaskInv, QueueTransportCommand

(* An eviction adds no destination to the cache.                           *)
LEMMA EvictedKeys ==
    ASSUME NEW to
    PROVE  DOMAIN Evicted(to) \subseteq DOMAIN cache
<1>1. DOMAIN Restrict(cache, DOMAIN cache \ {to}) = DOMAIN cache \ {to}
  BY DEF Restrict
<1>2. QED BY <1>1 DEF Evicted

(* activate_and_forward: the route is in the router and in the projection, *)
(* and a change is either owed to the round or counted as skipped.         *)
LEMMA ActivateStep ==
    ASSUME ViewInv, NEW to \in Nodes, ActivateAndForward(to)
    PROVE  ViewInv'
<1>1. /\ pc = "idle"
      /\ clock' = clock /\ UNCHANGED admission /\ public' = public /\ reader' = reader
      /\ outcomeLost' = outcomeLost
  BY DEF ActivateAndForward
<1>2. AdmissionInv'
  BY <1>1, AdmissionKept DEF ViewInv
<1>3. ReaderInv'
  BY <1>1, ReaderKept DEF ViewInv
<1>4. CASE /\ cache' = Evicted(to)
           /\ UNCHANGED <<projector, router, outbound, task, budget, skipped>>
  <2>1. TaskInv'
    BY <1>1, <1>4 DEF ViewInv, TaskInv, task
  <2>2. ProjectionInv'
    <3>1. Faithful(projector)'
      BY <1>4 DEF ViewInv, ProjectionInv, Faithful
    <3>2. DOMAIN Evicted(to) \subseteq Nodes
      BY EvictedKeys DEF ViewInv, ProjectionInv
    <3>3. QED BY <1>1, <1>4, <3>1, <3>2 DEF ViewInv, ProjectionInv
  <2>3. PublicInv'
    BY <1>1, <1>4 DEF ViewInv, PublicInv, task
  <2>4. QED BY <1>2, <1>3, <2>1, <2>2, <2>3 DEF ViewInv
<1>5. ASSUME NEW route \in Routes, NEW nextHop \in NextHops(to), NEW ing,
             ing = IngestMaterializedRoute(projector, budget, route),
             budget > 0, budget' = budget - 1,
             router' = [router EXCEPT !.active = @ \cup {budget}],
             projector' = ing.projector,
             \/ /\ cache' = Evicted(to)
                /\ skipped' = (skipped \/ ing.changed)
                /\ UNCHANGED <<outbound, task>>
             \/ /\ QueueTransportCommand
                /\ cache' = Insert(Evicted(to), to, budget)
                /\ DriveBridgeRound(ing.changed)
                /\ UNCHANGED skipped
      PROVE  ViewInv'
  <2>1. /\ Faithful(ing.projector)
        /\ ing.changed \in BOOLEAN
        /\ ~ing.changed => ing.projector.snapshot = projector.snapshot
        /\ DOMAIN ing.projector.host.routes = DOMAIN projector.host.routes \cup {budget}
        /\ ing.projector.topology = projector.topology
    <3>1. Faithful(projector)
      BY DEF ViewInv, ProjectionInv
    <3>2. QED BY <3>1, <1>5, RouteIngested
  <2>2. budget \in 1 .. MaxChanges /\ budget' \in 0 .. MaxChanges
    BY <1>5, NaturalBounds DEF ViewInv, TaskInv
  <2>3. ProjectionInv'
    <3>1. Faithful(projector')
      BY <2>1, <1>5
    <3>2. Faithful(projector')  <=> Faithful(projector)'
      BY DEF Faithful
    <3>3. router = [active |-> router.active, topology |-> projector.topology]
      BY DEF ViewInv, ProjectionInv
    <3>4. router' = [active |-> router.active \cup {budget}, topology |-> projector.topology]
      BY <3>3, <1>5
    <3>5. router'.active = router.active \cup {budget} /\ router'.topology = projector'.topology
      BY <3>4, <2>1, <1>5
    <3>6. router' = [active |-> router'.active, topology |-> projector'.topology]
      BY <3>4, <3>5
    <3>7. DOMAIN cache' \subseteq Nodes
      <4>1. DOMAIN Evicted(to) \subseteq Nodes
        BY EvictedKeys DEF ViewInv, ProjectionInv
      <4>2. DOMAIN Insert(Evicted(to), to, budget) = DOMAIN Evicted(to) \cup {to}
        BY DEF Insert
      <4>3. QED BY <4>1, <4>2, <1>5
    <3>8. projector'.topology.tick <= clock'
      BY <1>1, <1>5, <2>1 DEF ViewInv, ProjectionInv
    <3>9. router'.active \subseteq 1 .. MaxChanges
      BY <3>5, <2>2 DEF ViewInv, ProjectionInv
    <3>10. outcomeLost' \/ DOMAIN projector'.host.routes = router'.active
      BY <1>1, <1>5, <2>1, <3>5 DEF ViewInv, ProjectionInv
    <3>11. QED BY <3>1, <3>2, <3>6, <3>7, <3>8, <3>9, <3>10 DEF ProjectionInv
  <2>4. CASE /\ cache' = Evicted(to)
             /\ skipped' = (skipped \/ ing.changed)
             /\ UNCHANGED <<outbound, task>>
    <3>1. TaskInv'
      BY <1>1, <2>4, <2>2 DEF ViewInv, TaskInv, task
    <3>2. PublicInv'
      <4>1. pc' = "idle"
        BY <1>1, <2>4 DEF task
      <4>2. skipped \/ public = projector.snapshot
        BY <1>1 DEF ViewInv, PublicInv
      <4>3. skipped' \/ public' = projector'.snapshot
        BY <4>2, <2>1, <2>4, <1>5, <1>1
      <4>4. QED BY <4>1, <4>3 DEF PublicInv
    <3>3. QED BY <1>2, <1>3, <2>3, <3>1, <3>2 DEF ViewInv
  <2>5. CASE /\ QueueTransportCommand
             /\ DriveBridgeRound(ing.changed)
             /\ UNCHANGED skipped
    <3>1. TaskInv'
      <4>1. outbound' \in 0 .. DispatchCapacity
        BY <2>5, QueuedFits DEF ViewInv
      <4>2. QED BY <1>1, <2>1, <2>2, <2>5, <4>1, DriveTask DEF ViewInv
    <3>2. PublicInv'
      <4>1. pc' = "round" /\ owed' = ing.changed /\ skipped' = skipped
        BY <2>5 DEF DriveBridgeRound
      <4>2. skipped \/ public = projector.snapshot
        BY <1>1 DEF ViewInv, PublicInv
      <4>3. skipped' \/ owed' \/ public' = projector'.snapshot
        BY <4>1, <4>2, <2>1, <1>5, <1>1
      <4>4. QED BY <4>1, <4>3 DEF PublicInv
    <3>3. QED BY <1>2, <1>3, <2>3, <3>1, <3>2 DEF ViewInv
  <2>6. QED BY <1>5, <2>4, <2>5
<1>6. QED
  <2> SUFFICES ASSUME NEW route \in Routes, NEW nextHop \in NextHops(to),
                      LET id       == budget
                          ingested == IngestMaterializedRoute(projector, id, route)
                          hasEdge  == Edge(ingested.projector.snapshot, Self, nextHop)
                      IN  /\ route.to = to
                          /\ budget > 0 /\ budget' = budget - 1
                          /\ router' = [router EXCEPT !.active = @ \cup {id}]
                          /\ projector' = ingested.projector
                          /\ \/ /\ cache' = Evicted(to)
                                /\ skipped' = (skipped \/ ingested.changed)
                                /\ UNCHANGED <<outbound, task>>
                             \/ /\ hasEdge
                                /\ QueueTransportCommand
                                /\ cache' = Insert(Evicted(to), to, id)
                                /\ DriveBridgeRound(ingested.changed)
                                /\ UNCHANGED skipped
               PROVE  ViewInv'
    BY <1>4, Zenon DEF ActivateAndForward
  <2> QED BY <1>5

(* A failed round: what it was told of the peers is unseen.                *)
LEMMA RoundFailsStep ==
    ASSUME ViewInv, NEW batch \in Seq(Events), Len(batch) <= budget,
           NEW ended \in SUBSET router.active, RoundFails(batch, ended),
           outbound' \in 0 .. DispatchCapacity
    PROVE  ViewInv'
<1>1. /\ pc = "round" /\ clock' = clock + 1 /\ budget' = budget - Len(batch)
      /\ fanout' = (fanout \ Reported(batch)) \cup ReportedUp(batch)
      /\ cache' = cache /\ public' = public /\ reader' = reader
      /\ pc' = "idle" /\ followUp' = FALSE /\ changed' = FALSE /\ owed' = FALSE
      /\ router' = [router EXCEPT !.active = @ \ ended]
      /\ unseen' = unseen \cup Reported(batch)
      /\ outcomeLost' = (outcomeLost \/ ended # {})
      /\ skipped' = (skipped \/ changed \/ owed)
      /\ projector' = projector /\ subscribers' = subscribers /\ publications' = publications
  BY DEF RoundFails, AdvanceRound, AdvanceTick, RecordFanout
<1>2. TaskInv'
  <2>1. /\ clock \in 0 .. MaxTick /\ clock < MaxTick /\ budget \in 0 .. MaxChanges
        /\ publications \in 0 .. 2
    BY <1>1 DEF ViewInv, TaskInv
  <2>2. clock' \in 0 .. MaxTick /\ budget' \in 0 .. MaxChanges /\ publications' \in 0 .. 2
    BY <1>1, <2>1, NaturalBounds
  <2>3. outcomeLost' \in BOOLEAN /\ skipped' \in BOOLEAN
    BY <1>1, Zenon
  <2>4. QED BY <1>1, <2>2, <2>3 DEF TaskInv
<1>3. AdmissionInv'
  <2>1. Reported(batch) \subseteq Peers /\ ReportedUp(batch) \subseteq Reported(batch)
    BY ViewAssumption DEF Reported, ReportedUp
  <2>2. QED BY <1>1, <2>1 DEF ViewInv, AdmissionInv, AdmissionExact
<1>4. ProjectionInv'
  <2>1. Faithful(projector)'
    BY <1>1 DEF ViewInv, ProjectionInv, Faithful
  <2>2. router = [active |-> router.active, topology |-> projector.topology]
    BY DEF ViewInv, ProjectionInv
  <2>3. router' = [active |-> router.active \ ended, topology |-> projector.topology]
    <3>1. \A x : [router EXCEPT !.active = x] = [active |-> x, topology |-> projector.topology]
      BY <2>2
    <3>2. router' = [router EXCEPT !.active = router.active \ ended]
      BY <1>1
    <3>3. QED BY <3>1, <3>2
  <2>4. router'.active = router.active \ ended
    BY <2>3
  <2>5. router' = [active |-> router'.active, topology |-> projector'.topology]
    BY <2>3, <2>4, <1>1
  <2>6. projector'.topology.tick <= clock'
    <3>1. projector.topology.tick \in 0 .. MaxTick /\ clock \in 0 .. MaxTick
      BY TopologyParts DEF ViewInv, ProjectionInv, Faithful, TaskInv
    <3>2. projector.topology.tick <= clock
      BY DEF ViewInv, ProjectionInv
    <3>3. QED BY <3>1, <3>2, <1>1
  <2>7. outcomeLost' \/ DOMAIN projector'.host.routes = router'.active
    <3>1. CASE ended = {}
      BY <3>1, <1>1, <2>4 DEF ViewInv, ProjectionInv
    <3>2. CASE ended # {}
      BY <3>2, <1>1
    <3>3. QED BY <3>1, <3>2
  <2>8. QED BY <1>1, <2>1, <2>4, <2>5, <2>6, <2>7 DEF ViewInv, ProjectionInv
<1>5. PublicInv'
  BY <1>1 DEF ViewInv, PublicInv
<1>6. ReaderInv'
  BY <1>1, ReaderKept DEF ViewInv
<1>7. QED BY <1>2, <1>3, <1>4, <1>5, <1>6 DEF ViewInv

(* The admission after a whole report, by what the history has of it.      *)
LEMMA AdmittedExactly ==
    ASSUME NEW batch \in Seq(Events), NEW subs, AdmittedAfter(subs, batch, Len(batch)),
           subscribers \subseteq Peers
    PROVE  /\ \A n \in Reported(batch) : n \in subs <=> n \in ReportedUp(batch)
           /\ \A n : n \notin Reported(batch) => (n \in subs <=> n \in subscribers)
<1>1. \A n : FanoutOf(batch, n) # {} => n \in Neighbours
  <2> SUFFICES ASSUME NEW n, NEW i \in FanoutOf(batch, n) PROVE n \in Neighbours
    OBVIOUS
  <2>1. batch[i] \in Events /\ batch[i].type = "fanout" /\ batch[i].node = n
    BY DEF FanoutOf
  <2>2. QED BY <2>1 DEF Events
<1>2. \A n : \A k \in FanoutOf(batch, n) : k <= Len(batch) /\ ~(k > Len(batch))
  BY DEF FanoutOf
<1>3. \A n : n \in subs <=>
        \/ \E j \in FanoutOf(batch, n) : batch[j].link.up /\ \A k \in FanoutOf(batch, n) : k <= j
        \/ n \in subscribers /\ FanoutOf(batch, n) = {}
  <2> TAKE n
  <2>1. n \in subs <=>
        \/ \E j \in FanoutOf(batch, n) :
              /\ j <= Len(batch) /\ batch[j].link.up
              /\ \A k \in FanoutOf(batch, n) : k <= Len(batch) => k <= j
        \/ n \in subscribers /\ \A k \in FanoutOf(batch, n) : k > Len(batch)
    BY Zenon DEF AdmittedAfter
  <2>2. QED BY <1>2, <2>1
<1>4. \A n : n \in Reported(batch) <=> FanoutOf(batch, n) # {}
  BY <1>1 DEF Reported
<1>5. QED BY <1>3, <1>4, <1>1 DEF ReportedUp

(* A round that ends has applied its report.                               *)
LEMMA RoundEndsStep ==
    ASSUME ViewInv, NEW batch \in Seq(Events), Len(batch) <= budget,
           NEW ended \in SUBSET router.active, RoundEnds(batch, ended)
    PROVE  ViewInv'
<1> DEFINE waiting == batch = <<>> /\ outbound = 0 /\ ended = {}
           a == ApplyBridgeReport(batch, clock, ended)
           change == Accumulated(~waiting /\ a.changed)
           calls == (IF change THEN 1 ELSE 0) + (IF owed THEN 1 ELSE 0)
<1>1. /\ pc = "round" /\ clock' = clock + 1 /\ budget' = budget - Len(batch)
      /\ fanout' = (fanout \ Reported(batch)) \cup ReportedUp(batch)
      /\ cache' = cache /\ public' = public /\ reader' = reader
      /\ outbound' = 0 /\ unseen' = unseen \ Reported(batch)
      /\ outcomeLost' = outcomeLost /\ skipped' = skipped
  BY DEF RoundEnds, AdvanceRound, AdvanceTick, RecordFanout
<1>2. \/ waiting /\ projector' = projector /\ subscribers' = subscribers /\ router' = router
      \/ /\ ~waiting /\ projector' = a.projector /\ subscribers' = a.subscribers
         /\ router' = [active |-> router.active \ ended, topology |-> a.routerInput]
  BY DEF RoundEnds
<1>3. \/ /\ clock + 1 < MaxTick
         /\ followUp' = TRUE /\ changed' = change
         /\ pc' = pc /\ owed' = owed /\ publications' = publications
      \/ /\ publications' = calls
         /\ pc' = IF calls > 0 THEN "store" ELSE "idle"
         /\ followUp' = FALSE /\ changed' = FALSE /\ owed' = FALSE
  BY DEF RoundEnds
<1>4. /\ clock \in 0 .. MaxTick /\ clock < MaxTick /\ budget \in 0 .. MaxChanges
      /\ publications \in 0 .. 2 /\ owed \in BOOLEAN /\ changed \in BOOLEAN
      /\ projector.topology.tick <= clock /\ Faithful(projector)
      /\ router = [active |-> router.active, topology |-> projector.topology]
      /\ subscribers \subseteq Peers
  BY <1>1 DEF ViewInv, TaskInv, ProjectionInv, AdmissionInv
<1>5. /\ Faithful(a.projector)
      /\ a.projector.topology.tick <= clock
      /\ a.changed \in BOOLEAN
      /\ ~a.changed => a.projector.snapshot = projector.snapshot
      /\ a.routerInput = a.projector.topology
      /\ DOMAIN a.projector.host.routes = DOMAIN projector.host.routes \ ended
      /\ AdmittedAfter(a.subscribers, batch, Len(batch))
  <2>1. router.topology = projector.topology
    BY <1>4
  <2>2. QED BY <1>4, <2>1, BridgeReportApplied
<1> HIDE DEF a
<1>6. change \in BOOLEAN /\ (~change => ~changed /\ (~waiting => ~a.changed))
  BY DEF Accumulated
<1>7. calls \in 0 .. 2 /\ (~(calls > 0) => ~change /\ ~owed)
  <2>1. change \in BOOLEAN
    BY <1>6
  <2> HIDE DEF change
  <2>2. QED BY <2>1, <1>4
<1> HIDE DEF change, calls
<1>8. TaskInv'
  <2>1. clock' \in 0 .. MaxTick /\ budget' \in 0 .. MaxChanges /\ outbound' \in 0 .. DispatchCapacity
    BY <1>1, <1>4, NaturalBounds
  <2>2. outcomeLost' \in BOOLEAN /\ skipped' \in BOOLEAN
    BY <1>1 DEF ViewInv, TaskInv
  <2>3. CASE /\ clock + 1 < MaxTick
             /\ followUp' = TRUE /\ changed' = change
             /\ pc' = pc /\ owed' = owed /\ publications' = publications
    BY <1>1, <1>4, <1>6, <2>1, <2>2, <2>3 DEF TaskInv
  <2>4. CASE /\ publications' = calls
             /\ pc' = IF calls > 0 THEN "store" ELSE "idle"
             /\ followUp' = FALSE /\ changed' = FALSE /\ owed' = FALSE
    <3>1. /\ pc' \in {"idle", "round", "store", "broadcast"} /\ pc' # "round"
          /\ pc' = "store" \/ pc' = "broadcast" => publications' > 0
      BY <2>4
    <3>2. QED BY <1>7, <2>1, <2>2, <2>4, <3>1 DEF TaskInv
  <2>5. QED BY <1>3, <2>3, <2>4
<1>9. AdmissionInv'
  <2>1. Reported(batch) \subseteq Peers /\ ReportedUp(batch) \subseteq Reported(batch)
    BY ViewAssumption DEF Reported, ReportedUp
  <2>2. CASE waiting
    <3>1. Reported(batch) = {}
      BY <2>2 DEF Reported, FanoutOf
    <3>2. QED BY <1>1, <1>2, <2>1, <2>2, <3>1 DEF ViewInv, AdmissionInv, AdmissionExact
  <2>3. CASE ~waiting
    <3>1. subscribers' = a.subscribers
      BY <1>2, <2>3
    <3>2. /\ \A n \in Reported(batch) : n \in subscribers' <=> n \in ReportedUp(batch)
          /\ \A n : n \notin Reported(batch) => (n \in subscribers' <=> n \in subscribers)
      BY <1>4, <1>5, <3>1, AdmittedExactly
    <3>3. /\ \A n : n \in subscribers \ unseen <=> n \in fanout \ unseen
          /\ subscribers \subseteq Peers /\ fanout \subseteq Peers /\ unseen \subseteq Peers
      BY DEF ViewInv, AdmissionInv, AdmissionExact
    <3>4. \A n : n \in subscribers' \ unseen' <=> n \in fanout' \ unseen'
      BY <1>1, <2>1, <3>2, <3>3
    <3>5. subscribers' \subseteq Peers /\ fanout' \subseteq Peers /\ unseen' \subseteq Peers
      BY <1>1, <2>1, <3>2, <3>3
    <3>6. QED BY <3>4, <3>5 DEF AdmissionInv, AdmissionExact
  <2>4. QED BY <2>2, <2>3
<1>10. ProjectionInv'
  <2>1. projector'.topology.tick <= clock'
    <3>1. projector'.topology.tick <= clock
      BY <1>2, <1>4, <1>5
    <3>2. Faithful(projector')
      BY <1>2, <1>4, <1>5
    <3>3. projector'.topology.tick \in 0 .. MaxTick
      BY <3>2, TopologyParts DEF Faithful
    <3>4. QED BY <3>1, <3>3, <1>1, <1>4
  <2>2. Faithful(projector)'
    <3>1. Faithful(projector')
      BY <1>2, <1>4, <1>5
    <3>2. QED BY <3>1 DEF Faithful
  <2>3. router' = [active |-> router.active \ ended, topology |-> projector'.topology]
    BY <1>2, <1>4, <1>5
  <2>4. router'.active = router.active \ ended
    BY <2>3
  <2>5. router' = [active |-> router'.active, topology |-> projector'.topology]
    BY <2>3, <2>4
  <2>6. DOMAIN projector'.host.routes = DOMAIN projector.host.routes \ ended
    BY <1>2, <1>5
  <2>7. outcomeLost' \/ DOMAIN projector'.host.routes = router'.active
    BY <1>1, <2>4, <2>6 DEF ViewInv, ProjectionInv
  <2>8. QED BY <1>1, <2>1, <2>2, <2>4, <2>5, <2>7 DEF ViewInv, ProjectionInv
<1>11. PublicInv'
  <2>1. skipped \/ changed \/ owed \/ public = projector.snapshot
    BY <1>1 DEF ViewInv, PublicInv
  <2>2. change \/ projector'.snapshot = projector.snapshot
    BY <1>2, <1>5, <1>6
  <2>3. skipped' \/ change \/ owed \/ public' = projector'.snapshot
    BY <2>1, <2>2, <1>1, <1>6
  <2>4. QED BY <2>3, <1>1, <1>3, <1>7 DEF PublicInv
<1>12. ReaderInv'
  BY <1>1, ReaderKept DEF ViewInv
<1>13. QED BY <1>8, <1>9, <1>10, <1>11, <1>12 DEF ViewInv

(* A queue with every item replaced.                                       *)
LEMMA OverwrittenQueue ==
    ASSUME NEW S, NEW q \in Seq(S), NEW x \in S
    PROVE  /\ [i \in DOMAIN q |-> x] \in Seq(S)
           /\ Len([i \in DOMAIN q |-> x]) = Len(q)
           /\ q = <<>> => [i \in DOMAIN q |-> x] = <<>>
<1>1. DOMAIN q = 1 .. Len(q) /\ Len(q) \in Nat
  OBVIOUS
<1>2. [i \in 1 .. Len(q) |-> x] \in Seq(S) /\ Len([i \in 1 .. Len(q) |-> x]) = Len(q)
  BY <1>1
<1>3. QED BY <1>1, <1>2

(* One item more.                                                          *)
LEMMA AppendedQueue ==
    ASSUME NEW S, NEW q \in Seq(S), NEW x \in S
    PROVE  /\ Append(q, x) \in Seq(S) /\ Len(Append(q, x)) = Len(q) + 1
           /\ Append(q, x) # <<>> /\ Append(q, x)[Len(Append(q, x))] = x
OBVIOUS

(* The shared topology is the projection's again.                          *)
LEMMA StoreStep ==
    ASSUME ViewInv, StoreTopology
    PROVE  ViewInv'
<1>1. /\ pc = "store" /\ pc' = "broadcast" /\ public' = projector.snapshot /\ skipped' = FALSE
      /\ reader' = [reader EXCEPT !.latest = FALSE, !.queue = [i \in DOMAIN @ |-> FALSE]]
      /\ UNCHANGED <<clock, projector, admission, cache, router, outbound, followUp, changed,
                     owed, publications, budget, outcomeLost>>
  BY DEF StoreTopology
<1>2. TaskInv'
  BY <1>1 DEF ViewInv, TaskInv
<1>3. AdmissionInv'
  BY <1>1, AdmissionKept DEF ViewInv
<1>4. ProjectionInv'
  BY <1>1, ProjectionKept DEF ViewInv
<1>5. PublicInv'
  BY <1>1 DEF PublicInv
<1>6. ReaderInv'
  <2> DEFINE q == reader.queue
             q2 == [i \in DOMAIN q |-> FALSE]
  <2>1. reader \in [stage : {"none", "read", "live"}, latest : BOOLEAN, queue : Seq(BOOLEAN),
                    missed : BOOLEAN]
    BY DEF ViewInv, ReaderInv
  <2>2. q2 \in Seq(BOOLEAN) /\ Len(q2) = Len(q) /\ (q = <<>> => q2 = <<>>)
    <3>1. q \in Seq(BOOLEAN) /\ FALSE \in BOOLEAN
      BY <2>1
    <3> HIDE DEF q
    <3>2. \A x \in BOOLEAN : /\ [i \in DOMAIN q |-> x] \in Seq(BOOLEAN)
                             /\ Len([i \in DOMAIN q |-> x]) = Len(q)
                             /\ q = <<>> => [i \in DOMAIN q |-> x] = <<>>
      BY <3>1, OverwrittenQueue
    <3>3. QED BY <3>1, <3>2, Zenon
  <2> HIDE DEF q2
  <2>3. reader' = [reader EXCEPT !.latest = FALSE, !.queue = q2]
    BY <1>1 DEF q2
  <2>4. /\ reader' \in [stage : {"none", "read", "live"}, latest : BOOLEAN, queue : Seq(BOOLEAN),
                        missed : BOOLEAN]
        /\ reader'.stage = reader.stage /\ reader'.queue = q2
    BY <2>1, <2>2, <2>3
  <2>5. QED BY <1>1, <2>2, <2>4 DEF ViewInv, ReaderInv
<1>7. QED BY <1>2, <1>3, <1>4, <1>5, <1>6 DEF ViewInv

(* What a full or a roomy feed holds after an update.                      *)
LEMMA Enqueued ==
    ASSUME NEW q \in Seq(BOOLEAN), Len(q) <= FeedCapacity
    PROVE  /\ Enqueue(q) \in Seq(BOOLEAN) /\ Len(Enqueue(q)) <= FeedCapacity
           /\ Enqueue(q) # <<>> /\ Enqueue(q)[Len(Enqueue(q))] = TRUE
<1>1. FeedCapacity \in Nat \ {0} /\ Len(q) \in Nat
  BY NaturalBounds
<1>2. CASE Len(q) < FeedCapacity
  <2>1. Enqueue(q) = Append(q, TRUE) /\ TRUE \in BOOLEAN
    BY <1>2 DEF Enqueue
  <2>2. /\ Append(q, TRUE) \in Seq(BOOLEAN) /\ Len(Append(q, TRUE)) = Len(q) + 1
        /\ Append(q, TRUE) # <<>> /\ Append(q, TRUE)[Len(Append(q, TRUE))] = TRUE
    BY <2>1, AppendedQueue
  <2>3. Len(q) + 1 <= FeedCapacity
    BY <1>1, <1>2
  <2>4. QED BY <2>1, <2>2, <2>3
<1>3. CASE ~(Len(q) < FeedCapacity)
  <2>1. q # <<>> /\ Len(q) = FeedCapacity
    BY <1>1, <1>3
  <2>2. Tail(q) \in Seq(BOOLEAN) /\ Len(Tail(q)) = Len(q) - 1
    BY <2>1
  <2>3. Enqueue(q) = Append(Tail(q), TRUE) /\ TRUE \in BOOLEAN
    BY <1>3 DEF Enqueue
  <2> DEFINE t == Tail(q)
  <2> HIDE DEF t
  <2>4. /\ Append(t, TRUE) \in Seq(BOOLEAN) /\ Len(Append(t, TRUE)) = Len(t) + 1
        /\ Append(t, TRUE) # <<>> /\ Append(t, TRUE)[Len(Append(t, TRUE))] = TRUE
    BY <2>2, <2>3, AppendedQueue DEF t
  <2>5. Len(t) + 1 <= FeedCapacity
    BY <1>1, <2>1, <2>2 DEF t
  <2>6. Enqueue(q) = Append(t, TRUE)
    BY <2>3 DEF t
  <2>7. QED BY <2>4, <2>5, <2>6
<1>4. QED BY <1>2, <1>3

(* A subscribed reader is sent the topology, another one missed it.        *)
LEMMA BroadcastStep ==
    ASSUME ViewInv, BroadcastTopology
    PROVE  ViewInv'
<1>1. /\ pc = "broadcast" /\ publications' = publications - 1
      /\ pc' = IF publications > 1 THEN "store" ELSE "idle"
      /\ reader' = Notified(reader)
      /\ UNCHANGED <<clock, projector, admission, cache, router, outbound, followUp, changed,
                     owed, public, budget, outcomeLost, skipped>>
  BY DEF BroadcastTopology
<1>2. TaskInv'
  <2>1. publications \in 0 .. 2 /\ publications > 0
    BY <1>1 DEF ViewInv, TaskInv
  <2>2. /\ publications' \in 0 .. 2
        /\ pc' \in {"idle", "round", "store", "broadcast"} /\ pc' # "round"
        /\ pc' = "store" \/ pc' = "broadcast" => publications' > 0
    BY <1>1, <2>1
  <2>3. QED BY <1>1, <2>2 DEF ViewInv, TaskInv
<1>3. AdmissionInv'
  BY <1>1, AdmissionKept DEF ViewInv
<1>4. ProjectionInv'
  BY <1>1, ProjectionKept DEF ViewInv
<1>5. PublicInv'
  BY <1>1 DEF ViewInv, PublicInv
<1>6. ReaderInv'
  <2>1. /\ reader \in [stage : {"none", "read", "live"}, latest : BOOLEAN, queue : Seq(BOOLEAN),
                       missed : BOOLEAN]
        /\ Len(reader.queue) <= FeedCapacity
        /\ reader.stage = "none" \/ reader.stage = "read" => reader.queue = <<>>
    BY DEF ViewInv, ReaderInv
  <2> DEFINE q2 == IF reader.stage = "live" THEN Enqueue(reader.queue) ELSE reader.queue
             m2 == reader.stage = "read"
  <2>2. q2 \in Seq(BOOLEAN) /\ Len(q2) <= FeedCapacity
    BY <2>1, Enqueued
  <2>3. reader.stage = "live" => q2 # <<>> /\ q2[Len(q2)] = TRUE
    BY <2>1, Enqueued
  <2>4. reader.stage = "none" \/ reader.stage = "read" => q2 = <<>>
    BY <2>1
  <2>5. reader' = [reader EXCEPT !.queue = q2, !.missed = m2]
    BY <1>1 DEF Notified
  <2>6. m2 \in BOOLEAN
    OBVIOUS
  <2> HIDE DEF q2
  <2>7. /\ reader' \in [stage : {"none", "read", "live"}, latest : BOOLEAN, queue : Seq(BOOLEAN),
                        missed : BOOLEAN]
        /\ reader'.stage = reader.stage /\ reader'.queue = q2
        /\ reader'.missed = (reader.stage = "read")
    BY <2>1, <2>2, <2>5, <2>6
  <2>8. reader.stage # "none" => Newest(reader)' \/ reader'.missed
    BY <2>1, <2>3, <2>7 DEF Newest
  <2>9. QED BY <2>2, <2>4, <2>7, <2>8 DEF ReaderInv
<1>7. QED BY <1>2, <1>3, <1>4, <1>5, <1>6 DEF ViewInv

(* Reading never loses the newest item.                                    *)
LEMMA StreamStep ==
    ASSUME ViewInv, TopologyStream
    PROVE  ViewInv'
<1>1. UNCHANGED <<clock, projector, admission, cache, router, outbound, task, public,
                  budget, outcomeLost, skipped>>
  BY DEF TopologyStream
<1>2. TaskInv'
  BY <1>1 DEF ViewInv, TaskInv, task
<1>3. AdmissionInv'
  BY <1>1, AdmissionKept DEF ViewInv
<1>4. ProjectionInv'
  BY <1>1, ProjectionKept DEF ViewInv
<1>5. PublicInv'
  BY <1>1 DEF ViewInv, PublicInv, task
<1>6. ReaderInv'
  <2>1. /\ reader \in [stage : {"none", "read", "live"}, latest : BOOLEAN, queue : Seq(BOOLEAN),
                       missed : BOOLEAN]
        /\ Len(reader.queue) <= FeedCapacity
        /\ reader.stage = "none" \/ reader.stage = "read" => reader.queue = <<>>
        /\ pc # "broadcast" /\ reader.stage # "none" => Newest(reader) \/ reader.missed
        /\ pc' = pc
    BY <1>1 DEF ViewInv, ReaderInv, task
  <2>2. CASE reader.stage = "none" /\ reader' = [reader EXCEPT !.stage = "read", !.latest = TRUE]
    <3>1. /\ reader' \in [stage : {"none", "read", "live"}, latest : BOOLEAN, queue : Seq(BOOLEAN),
                          missed : BOOLEAN]
          /\ reader'.queue = <<>> /\ reader'.latest = TRUE
      BY <2>1, <2>2
    <3>2. QED BY <2>1, <2>2, <3>1 DEF ReaderInv, Newest
  <2>3. CASE reader.stage = "read" /\ reader' = [reader EXCEPT !.stage = "live"]
    <3>1. /\ reader' \in [stage : {"none", "read", "live"}, latest : BOOLEAN, queue : Seq(BOOLEAN),
                          missed : BOOLEAN]
          /\ reader'.queue = reader.queue /\ reader'.latest = reader.latest
          /\ reader'.missed = reader.missed /\ reader'.stage = "live"
      BY <2>1, <2>3
    <3>2. QED BY <2>1, <2>3, <3>1 DEF ReaderInv, Newest
  <2>4. CASE /\ reader.stage = "live" /\ reader.queue # <<>>
             /\ reader' = [reader EXCEPT !.latest = Head(reader.queue), !.queue = Tail(@)]
    <3> DEFINE q == reader.queue
               t == Tail(q)
    <3>1. /\ q \in Seq(BOOLEAN) /\ q # <<>> /\ Head(q) \in BOOLEAN /\ Head(q) = q[1]
          /\ t \in Seq(BOOLEAN) /\ Len(t) = Len(q) - 1 /\ Len(q) \in Nat \ {0}
          /\ \A i \in 1 .. Len(t) : t[i] = q[i + 1]
      BY <2>1, <2>4
    <3>2. reader' = [reader EXCEPT !.latest = Head(q), !.queue = t]
      BY <2>4
    <3>3. Newest(reader) = q[Len(q)]
      BY <2>4 DEF Newest
    <3>q. reader.queue = q
      OBVIOUS
    <3> HIDE DEF q, t
    <3>4. /\ reader' \in [stage : {"none", "read", "live"}, latest : BOOLEAN, queue : Seq(BOOLEAN),
                          missed : BOOLEAN]
          /\ reader'.queue = t /\ reader'.latest = q[1]
          /\ reader'.missed = reader.missed /\ reader'.stage = "live"
      BY <2>1, <2>4, <3>1, <3>2
    <3>5. Newest(reader') = q[Len(q)]
      <4>1. CASE t = <<>>
        <5>1. Len(q) = 1
          BY <3>1, <4>1
        <5>2. QED BY <4>1, <5>1, <3>4 DEF Newest
      <4>2. CASE t # <<>>
        <5>1. Len(t) \in 1 .. Len(t) /\ Len(t) + 1 = Len(q)
          BY <3>1, <4>2
        <5>2. t[Len(t)] = q[Len(q)]
          BY <3>1, <5>1
        <5>3. QED BY <4>2, <5>2, <3>4 DEF Newest
      <4>3. QED BY <4>1, <4>2
    <3>6. Newest(reader)' = Newest(reader')
      BY DEF Newest
    <3>7. Len(reader'.queue) <= FeedCapacity
      <4>1. Len(t) <= FeedCapacity
        BY <2>1, <3>q, <3>1, NaturalBounds
      <4>2. QED BY <4>1, <3>4
    <3>8. pc' # "broadcast" => Newest(reader)' \/ reader'.missed
      BY <2>1, <2>4, <3>3, <3>4, <3>5, <3>6
    <3>9. QED BY <3>4, <3>7, <3>8 DEF ReaderInv
  <2>5. QED BY <2>2, <2>3, <2>4 DEF TopologyStream
<1>7. QED BY <1>2, <1>3, <1>4, <1>5, <1>6 DEF ViewInv

(* Nothing happens.                                                        *)
LEMMA StutterStep ==
    ASSUME ViewInv, UNCHANGED viewVars
    PROVE  ViewInv'
<1>1. UNCHANGED <<clock, projector, admission, cache, router, outbound, task, public,
                  budget, outcomeLost, skipped, reader>>
  BY DEF viewVars
<1>2. TaskInv'
  BY <1>1 DEF ViewInv, TaskInv, task
<1>3. AdmissionInv'
  BY <1>1, AdmissionKept DEF ViewInv
<1>4. ProjectionInv'
  BY <1>1, ProjectionKept DEF ViewInv
<1>5. PublicInv'
  BY <1>1 DEF ViewInv, PublicInv, task
<1>6. ReaderInv'
  BY <1>1 DEF ViewInv, ReaderInv, Newest, task
<1>7. QED BY <1>2, <1>3, <1>4, <1>5, <1>6 DEF ViewInv

(* A batch is a sequence of events within the budget.                      *)
LEMMA BatchIs ==
    ASSUME NEW n \in Nat, NEW batch \in BoundedSeq(Events, n)
    PROVE  batch \in Seq(Events) /\ Len(batch) <= n
BY DEF BoundedSeq, SeqOf

(* Every step keeps the invariant.                                         *)
LEMMA NextInv == ViewInv /\ [Next]_viewVars => ViewInv'
<1> SUFFICES ASSUME ViewInv, [Next]_viewVars PROVE ViewInv'
  OBVIOUS
<1>t. TaskInv
  BY DEF ViewInv
<1>1. CASE LoopRound
  <2>1. outbound' \in 0 .. DispatchCapacity
    BY <1>1, <1>t DEF LoopRound, TaskInv
  <2>2. QED BY <1>1, <2>1, DriveStarts DEF LoopRound
<1>2. CASE HandleCommand
  <2>1. ASSUME NEW to \in Nodes, TryCachedForward(to) PROVE ViewInv'
    <3>1. outbound' \in 0 .. DispatchCapacity
      BY <2>1, <1>t, QueuedFits DEF TryCachedForward
    <3>2. QED BY <2>1, <3>1, DriveStarts DEF TryCachedForward
  <2>2. ASSUME NEW to \in Nodes, ActivateAndForward(to) PROVE ViewInv'
    BY <2>2, ActivateStep
  <2>3. ASSUME NEW receivers \in SUBSET Peers, HandleSendMulticast(receivers) PROVE ViewInv'
    <3>1. outbound' \in 0 .. DispatchCapacity
      BY <2>3, <1>t, QueuedFits DEF HandleSendMulticast
    <3>2. QED BY <2>3, <3>1, DriveStarts DEF HandleSendMulticast
  <2>4. QED BY <1>2, <2>1, <2>2, <2>3 DEF HandleCommand
<1>3. CASE Round
  <2>1. PICK batch \in BoundedSeq(Events, budget), ended \in SUBSET router.active :
            RouterFails(batch, ended) \/ FlushFails(batch, ended) \/ RoundEnds(batch, ended)
    BY <1>3 DEF Round
  <2>2. budget \in Nat /\ outbound \in 0 .. DispatchCapacity /\ 0 \in 0 .. DispatchCapacity
    BY <1>t, NaturalBounds DEF TaskInv
  <2>3. batch \in Seq(Events) /\ Len(batch) <= budget
    BY <2>2, BatchIs
  <2>4. CASE RouterFails(batch, ended)
    BY <2>2, <2>3, <2>4, RoundFailsStep DEF RouterFails
  <2>5. CASE FlushFails(batch, ended)
    BY <2>2, <2>3, <2>5, RoundFailsStep DEF FlushFails
  <2>6. CASE RoundEnds(batch, ended)
    BY <2>3, <2>6, RoundEndsStep
  <2>7. QED BY <2>1, <2>4, <2>5, <2>6
<1>4. CASE StoreTopology
  BY <1>4, StoreStep
<1>5. CASE BroadcastTopology
  BY <1>5, BroadcastStep
<1>6. CASE TopologyStream
  BY <1>6, StreamStep
<1>7. CASE UNCHANGED viewVars
  BY <1>7, StutterStep
<1>8. QED BY <1>1, <1>2, <1>3, <1>4, <1>5, <1>6, <1>7 DEF Next

-----------------------------------------------------------------------------
(* What the client publishes is consistent *)

(* Things in some order with ids of their own.                             *)
LEMMA IdsInOrder ==
    ASSUME NEW S, IsFiniteSet(S), \A x, y \in S : x.id = y.id => x = y
    PROVE  /\ Cardinality(Ids(SetToSeq(S))) = Len(SetToSeq(S))
           /\ Ids(SetToSeq(S)) = {x.id : x \in S}
<1> DEFINE s == SetToSeq(S)
           n == Len(s)
           f == [i \in 1 .. n |-> s[i].id]
<1>1. s \in Seq(S) /\ ToSet(s) = S /\ IsInjective(s)
  BY SetInOrder
<1> HIDE DEF s
<1>2. n \in Nat /\ DOMAIN s = 1 .. n /\ \A i \in 1 .. n : s[i] \in S
  BY <1>1
<1>3. {f[i] : i \in 1 .. n} = Ids(s)
  BY <1>2 DEF Ids
<1>f. f = [i \in 1 .. n |-> f[i]]
  OBVIOUS
<1>4. IsInjective(f)
  <2>1. \A i, j \in 1 .. n : s[i] = s[j] => i = j
    BY <1>1, <1>2 DEF IsInjective
  <2>2. \A i, j \in 1 .. n : f[i] = f[j] => s[i] = s[j]
    BY <1>2
  <2>3. DOMAIN f = 1 .. n
    OBVIOUS
  <2> HIDE DEF f
  <2>4. QED BY <2>1, <2>2, <2>3 DEF IsInjective
<1> HIDE DEF f, n
<1>5. Cardinality({f[i] : i \in 1 .. n}) = n
  <2>1. n \in Nat
    BY <1>2
  <2>2. Cardinality({f[i] : i \in 1 .. n}) = n <=> IsInjective(f)
    BY <2>1, <1>f, DistinctCounted
  <2>3. QED BY <1>4, <2>2
<1>6. Ids(s) = {x.id : x \in S}
  <2>1. \A x : x \in S <=> \E i \in DOMAIN s : s[i] = x
    BY <1>1 DEF ToSet
  <2>2. QED BY <2>1 DEF Ids
<1>7. QED BY <1>3, <1>5, <1>6 DEF n, s

(* Edges in some order between ends of their own.                          *)
LEMMA EdgesInOrder ==
    ASSUME NEW S, IsFiniteSet(S), \A x, y \in S : x.from = y.from /\ x.to = y.to => x = y
    PROVE  EdgesDiffer(SetToSeq(S))
<1> DEFINE s == SetToSeq(S)
<1>1. s \in Seq(S) /\ IsInjective(s)
  BY SetInOrder
<1> HIDE DEF s
<1>2. \A i \in DOMAIN s : s[i] \in S
  BY <1>1
<1>3. \A i, j \in DOMAIN s : s[i] = s[j] => i = j
  BY <1>1 DEF IsInjective
<1>4. EdgesDiffer(s)
  BY <1>2, <1>3 DEF EdgesDiffer
<1>5. QED BY <1>4 DEF s

(* The edge a direct route goes over.                                      *)
EdgeOf(route) == <<route.owner, route.terminal>>

(* A route as the projector derives it: local, direct and with the         *)
(* transport of its edge, if that is shown, or reachable.                  *)
SoundRoute(route, nodes, edges) ==
    /\ route.owner \in nodes /\ route.terminal \in nodes
    /\ \/ /\ route.delivery = LocalDelivery
          /\ route.terminal = route.owner /\ route.mix = {}
       \/ /\ route.delivery = Direct(route.terminal)
          /\ EdgeOf(route) \in DOMAIN edges => route.mix = {edges[EdgeOf(route)].link.kind}
       \/ /\ \E h \in Nat \ {0} : route.delivery = Reachable(h)
          /\ route.terminal # route.owner

(* A route the builder has no objection to.                                *)
Accepted(route, edges) ==
    /\ route.delivery # Reachable(1)
    /\ route.delivery.type = "Direct" => EdgeOf(route) \in DOMAIN edges

(* A route as the client itself shows it: a direct one with its edge, one  *)
(* that is one hop away and not direct without a usable edge.              *)
ShownRoute(route, s) ==
    /\ route.delivery.type = "Direct" => EdgeOf(route) \in DOMAIN s.edges
    /\ route.delivery = Reachable(1) => ~UsableEdge(s, route.owner, route.terminal)

(* A snapshot whose edges and routes are between its nodes and agree.      *)
SoundSnapshot(s) ==
    /\ s = [tick |-> s.tick, nodes |-> s.nodes, edges |-> s.edges, routes |-> s.routes]
    /\ s.nodes \subseteq Nodes /\ Self \in s.nodes
    /\ DOMAIN s.edges \subseteq s.nodes \X s.nodes
    /\ DOMAIN s.routes \subseteq 1 .. MaxChanges
    /\ \A id \in DOMAIN s.routes : s.routes[id].id = id /\ SoundRoute(s.routes[id], s.nodes, s.edges)

ShownSnapshot(s) == \A id \in DOMAIN s.routes : ShownRoute(s.routes[id], s)

(* The reference accepts a sound route exactly when nothing is wrong with  *)
(* its hint or its edge.                                                   *)
LEMMA SoundConsistent ==
    ASSUME NEW s, NEW route, SoundRoute(route, s.nodes, s.edges), NEW edges,
           ToSet(edges) = {MeshEdge(key[1], key[2], s.edges[key].link.kind) : key \in DOMAIN s.edges},
           DOMAIN s.edges \subseteq s.nodes \X s.nodes
    PROVE  /\ IsDelivery(route.delivery)
           /\ ConsistentRoute(route, s.nodes, edges) <=> Accepted(route, s.edges)
<1> DEFINE D == route.delivery
           Path == \E edge \in ToSet(edges) :
                      edge.from = route.owner /\ edge.to = route.terminal /\ edge.kind \in route.mix
<1>1. /\ {route.owner, route.terminal} \subseteq s.nodes
      /\ \/ D = LocalDelivery /\ route.terminal = route.owner /\ route.mix = {}
         \/ D = Direct(route.terminal)
            /\ (EdgeOf(route) \in DOMAIN s.edges => route.mix = {s.edges[EdgeOf(route)].link.kind})
         \/ (\E h \in Nat \ {0} : D = Reachable(h)) /\ route.terminal # route.owner
  BY DEF SoundRoute
<1>2. ConsistentRoute(route, s.nodes, edges) <=>
          \/ D = LocalDelivery /\ route.owner = route.terminal /\ route.mix = {}
          \/ D = Direct(route.terminal) /\ Path
          \/ D.type = "Reachable" /\ D.hint > 1 /\ route.owner # route.terminal
  BY <1>1 DEF ConsistentRoute
<1>3. CASE D = LocalDelivery /\ route.terminal = route.owner /\ route.mix = {}
  <2>1. D # Reachable(1) /\ D.type # "Direct"
    BY <1>3 DEF LocalDelivery, Reachable
  <2>2. QED BY <1>2, <1>3, <2>1 DEF Accepted, IsDelivery
<1>4. CASE /\ D = Direct(route.terminal)
           /\ EdgeOf(route) \in DOMAIN s.edges => route.mix = {s.edges[EdgeOf(route)].link.kind}
  <2>1. D # Reachable(1) /\ D.type = "Direct" /\ D # LocalDelivery
    BY <1>4 DEF Direct, Reachable, LocalDelivery
  <2>2. Path <=> EdgeOf(route) \in DOMAIN s.edges
    <3>1. ASSUME EdgeOf(route) \in DOMAIN s.edges PROVE Path
      <4> DEFINE key == EdgeOf(route)
                 edge == MeshEdge(key[1], key[2], s.edges[key].link.kind)
      <4>1. edge \in ToSet(edges)
        BY <3>1
      <4>2. edge.from = route.owner /\ edge.to = route.terminal /\ edge.kind \in route.mix
        BY <1>4, <3>1 DEF MeshEdge, EdgeOf
      <4> HIDE DEF edge
      <4>3. QED BY <4>1, <4>2
    <3>2. ASSUME Path PROVE EdgeOf(route) \in DOMAIN s.edges
      <4>1. PICK edge \in ToSet(edges) : edge.from = route.owner /\ edge.to = route.terminal
        BY <3>2
      <4>2. PICK key \in DOMAIN s.edges : edge = MeshEdge(key[1], key[2], s.edges[key].link.kind)
        BY <4>1
      <4>3. key[1] = route.owner /\ key[2] = route.terminal /\ key \in s.nodes \X s.nodes
        BY <4>1, <4>2 DEF MeshEdge
      <4>4. key = EdgeOf(route)
        BY <4>3 DEF EdgeOf
      <4>5. QED BY <4>2, <4>4
    <3>3. QED BY <3>1, <3>2
  <2>3. IsDelivery(D)
    BY <1>4 DEF IsDelivery
  <2> HIDE DEF Path
  <2>4. QED BY <1>2, <1>4, <2>1, <2>2, <2>3 DEF Accepted
<1>5. CASE (\E h \in Nat \ {0} : D = Reachable(h)) /\ route.terminal # route.owner
  <2>1. PICK h \in Nat \ {0} : D = Reachable(h)
    BY <1>5
  <2>2. /\ D.type = "Reachable" /\ D.hint = h /\ D # LocalDelivery /\ D # Direct(route.terminal)
        /\ D = Reachable(1) <=> h = 1
    BY <2>1 DEF Reachable, LocalDelivery, Direct
  <2>3. h > 1 <=> h # 1
    BY <2>1
  <2>4. IsDelivery(D)
    BY <2>1 DEF IsDelivery
  <2>5. QED BY <1>2, <1>5, <2>2, <2>3, <2>4 DEF Accepted
<1>6. QED BY <1>1, <1>3, <1>4, <1>5

(* The builder's answer for some of the routes of a sound snapshot.        *)
LEMMA SoundValidated ==
    ASSUME NEW s, SoundSnapshot(s), NEW ids \in SUBSET DOMAIN s.routes
    PROVE  Validate(s, ids) = "ok" <=> \A id \in ids : Accepted(s.routes[id], s.edges)
<1> DEFINE Role(n) == IF n = Self THEN "Local" ELSE "Remote"
           fN == [n \in s.nodes |-> MeshNode(n, Role(n))]
           fE == [key \in DOMAIN s.edges |-> MeshEdge(key[1], key[2], s.edges[key].link.kind)]
           fR == [id \in ids |-> s.routes[id]]
           N == {MeshNode(n, Role(n)) : n \in s.nodes}
           E == {MeshEdge(key[1], key[2], s.edges[key].link.kind) : key \in DOMAIN s.edges}
           R == {s.routes[id] : id \in ids}
           nodes == SetToSeq(N)
           edges == SetToSeq(E)
           routes == SetToSeq(R)
<1>1. /\ s.nodes \subseteq Nodes /\ Self \in s.nodes
      /\ DOMAIN s.edges \subseteq s.nodes \X s.nodes
      /\ DOMAIN s.routes \subseteq 1 .. MaxChanges
      /\ \A id \in DOMAIN s.routes : s.routes[id].id = id /\ SoundRoute(s.routes[id], s.nodes, s.edges)
  BY DEF SoundSnapshot
<1>2. IsFiniteSet(s.nodes)
  <2>1. IsFiniteSet(Nodes)
    BY ViewAssumption, FS_AddElement DEF Nodes
  <2>2. QED BY <1>1, <2>1, FS_Subset
<1>3. IsFiniteSet(N)
  <2>1. IsFiniteSet({fN[n] : n \in s.nodes})
    <3>1. fN = [n \in s.nodes |-> fN[n]]
      OBVIOUS
    <3> HIDE DEF fN
    <3>2. QED BY <1>2, <3>1, FiniteImage
  <2>2. {fN[n] : n \in s.nodes} = N
    OBVIOUS
  <2>3. QED BY <2>1, <2>2
<1>4. IsFiniteSet(E)
  <2>1. IsFiniteSet(s.nodes \X s.nodes)
    BY <1>2, FS_Product
  <2>2. IsFiniteSet(DOMAIN s.edges)
    BY <1>1, <2>1, FS_Subset
  <2>3. fE = [key \in DOMAIN s.edges |-> fE[key]] /\ {fE[key] : key \in DOMAIN s.edges} = E
    OBVIOUS
  <2> HIDE DEF fE
  <2>4. IsFiniteSet({fE[key] : key \in DOMAIN s.edges})
    BY <2>2, <2>3, FiniteImage
  <2>5. QED BY <2>3, <2>4
<1>5. IsFiniteSet(R)
  <2>1. IsFiniteSet(1 .. MaxChanges)
    BY NaturalBounds, FS_Interval
  <2>2. IsFiniteSet(ids)
    BY <1>1, <2>1, FS_Subset
  <2>3. fR = [id \in ids |-> fR[id]] /\ {fR[id] : id \in ids} = R
    OBVIOUS
  <2> HIDE DEF fR
  <2>4. IsFiniteSet({fR[id] : id \in ids})
    BY <2>2, <2>3, FiniteImage
  <2>5. QED BY <2>3, <2>4
<1>6. /\ Cardinality(Ids(nodes)) = Len(nodes) /\ Ids(nodes) = s.nodes
      /\ MeshNode(Self, "Local") \in ToSet(nodes) /\ nodes \in Seq(N)
  <2>1. \A x, y \in N : x.id = y.id => x = y
    BY DEF MeshNode
  <2>2. {x.id : x \in N} = s.nodes
    <3>1. \A n \in s.nodes : MeshNode(n, Role(n)).id = n
      BY DEF MeshNode
    <3> HIDE DEF Role
    <3>2. QED BY <3>1, Zenon
  <2>3. MeshNode(Self, "Local") \in N
    BY <1>1
  <2> HIDE DEF N
  <2>4. QED BY <1>3, <2>1, <2>2, <2>3, IdsInOrder, SetInOrder
<1>7. edges \in Seq(E) /\ EdgesDiffer(edges) /\ ToSet(edges) = E
  <2>1. \A x, y \in E : x.from = y.from /\ x.to = y.to => x = y
    BY <1>1 DEF MeshEdge
  <2> HIDE DEF E
  <2>2. QED BY <1>4, <2>1, EdgesInOrder, SetInOrder
<1>8. /\ routes \in Seq(R) /\ Cardinality(Ids(routes)) = Len(routes)
      /\ \A r : r \in R <=> \E i \in DOMAIN routes : routes[i] = r
  <2>1. \A x, y \in R : x.id = y.id => x = y
    BY <1>1
  <2> HIDE DEF R
  <2>2. routes \in Seq(R) /\ Cardinality(Ids(routes)) = Len(routes) /\ ToSet(routes) = R
    BY <1>5, <2>1, IdsInOrder, SetInOrder
  <2> HIDE DEF routes
  <2>3. QED BY <2>2 DEF ToSet
<1>9. \A x \in E : x.from \in s.nodes /\ x.to \in s.nodes
  BY <1>1 DEF MeshEdge
<1>10. ASSUME NEW id \in ids
       PROVE  /\ IsDelivery(s.routes[id].delivery)
              /\ ConsistentRoute(s.routes[id], s.nodes, edges) <=> Accepted(s.routes[id], s.edges)
  <2>1. SoundRoute(s.routes[id], s.nodes, s.edges)
    BY <1>1
  <2>2. ToSet(edges) = {MeshEdge(key[1], key[2], s.edges[key].link.kind) : key \in DOMAIN s.edges}
    BY <1>7
  <2> HIDE DEF edges
  <2>3. QED BY <1>1, <2>1, <2>2, SoundConsistent
<1>r. \A r : r \in R <=> \E id \in ids : r = s.routes[id]
  BY Zenon
<1> HIDE DEF N, E, R, nodes, edges, routes
<1>11. \A i \in DOMAIN routes : IsDelivery(routes[i].delivery)
  BY <1>8, <1>10, <1>r
<1>12. (\A i \in DOMAIN routes : ConsistentRoute(routes[i], Ids(nodes), edges))
           <=> \A id \in ids : Accepted(s.routes[id], s.edges)
  <2>1. (\A i \in DOMAIN routes : ConsistentRoute(routes[i], s.nodes, edges))
            <=> \A id \in ids : ConsistentRoute(s.routes[id], s.nodes, edges)
    BY <1>8, <1>r, Zenon
  <2>2. (\A id \in ids : ConsistentRoute(s.routes[id], s.nodes, edges))
            <=> \A id \in ids : Accepted(s.routes[id], s.edges)
    BY <1>10, Zenon
  <2>3. QED BY <1>6, <2>1, <2>2, Zenon
<1>13. Consistent(Self, nodes, edges, routes) <=> \A id \in ids : Accepted(s.routes[id], s.edges)
  <2> DEFINE keys == {<<edges[i].from, edges[i].to>> : i \in DOMAIN edges}
             Sound == \A i \in DOMAIN routes : ConsistentRoute(routes[i], Ids(nodes), edges)
  <2>1. \A i \in DOMAIN edges : edges[i] \in E
    BY <1>7
  <2>2. keys \subseteq s.nodes \X s.nodes
    BY <1>9, <2>1
  <2>3. Cardinality(keys) = Len(edges)
    BY <1>7, EdgesCollected
  <2>4. Consistent(Self, nodes, edges, routes) <=>
          /\ MeshNode(Self, "Local") \in ToSet(nodes)
          /\ Cardinality(Ids(nodes)) = Len(nodes)
          /\ keys \subseteq Ids(nodes) \X Ids(nodes)
          /\ Cardinality(keys) = Len(edges)
          /\ Cardinality(Ids(routes)) = Len(routes)
          /\ Sound
    BY DEF Consistent
  <2> HIDE DEF keys, Sound
  <2>5. keys \subseteq Ids(nodes) \X Ids(nodes)
    BY <1>6, <2>2
  <2>6. Consistent(Self, nodes, edges, routes) <=> Sound
    BY <1>6, <1>8, <2>3, <2>4, <2>5
  <2>7. QED BY <1>12, <2>6, Zenon DEF Sound
<1>14. Build(Self, nodes, edges, routes) = "ok" <=> Consistent(Self, nodes, edges, routes)
  BY <1>6, <1>7, <1>8, <1>11, BuilderAcceptsConsistent
<1>15. Validate(s, ids) = Build(Self, nodes, edges, routes)
  BY Zenon DEF Validate, N, E, R, nodes, edges, routes
<1>16. QED BY <1>13, <1>14, <1>15

(* The routes of the host projection, as far as the builder cares.         *)
TypedRoutes(routes) ==
    DOMAIN routes \subseteq 1 .. MaxChanges /\ \A id \in DOMAIN routes : routes[id].hint \in Nat

(* project_observed_route gives a sound route, and one that tells the      *)
(* truth of its edge.                                                      *)
LEMMA RouteProjected ==
    ASSUME NEW bare, NEW id, NEW route, route.hint \in Nat, NEW nodes,
           route.owner \in nodes, route.to \in nodes
    PROVE  /\ ProjectObservedRoute(bare, id, route).id = id
           /\ SoundRoute(ProjectObservedRoute(bare, id, route), nodes, bare.edges)
           /\ ShownRoute(ProjectObservedRoute(bare, id, route), bare)
<1> DEFINE from == route.owner
           to == route.to
           hint == route.hint
           edge == bare.edges[<<from, to>>]
           D == DeriveRouteDelivery(bare, from, to, hint)
           M == PathTransportMix(bare, D, from, to, route.mix)
           r == ProjectObservedRoute(bare, id, route)
<1>1. /\ r.id = id /\ r.owner = from /\ r.terminal = to /\ r.delivery = D /\ r.mix = M
      /\ EdgeOf(r) = <<from, to>>
  BY DEF ProjectObservedRoute, EdgeOf
<1>2. CASE from = to
  <2>1. D = LocalDelivery
    BY <1>2 DEF DeriveRouteDelivery
  <2>2. D.type = "Local" /\ D # Reachable(1)
    BY <2>1 DEF LocalDelivery, Reachable
  <2> HIDE DEF D
  <2>3. M = {}
    BY <2>2 DEF PathTransportMix
  <2> HIDE DEF M, r
  <2>4. QED BY <1>1, <1>2, <2>1, <2>2, <2>3 DEF SoundRoute, ShownRoute, r
<1>3. CASE from # to /\ UsableEdge(bare, from, to) /\ hint <= 1
  <2>1. D = Direct(to)
    BY <1>3 DEF DeriveRouteDelivery
  <2>2. D.type = "Direct" /\ D # Reachable(1)
    BY <2>1 DEF Direct, Reachable
  <2>3. <<from, to>> \in DOMAIN bare.edges
    BY <1>3 DEF UsableEdge, Edge
  <2> HIDE DEF D
  <2>4. M = {edge.link.kind}
    BY <2>2 DEF PathTransportMix
  <2> HIDE DEF M, r
  <2>5. QED BY <1>1, <2>1, <2>2, <2>3, <2>4 DEF SoundRoute, ShownRoute, r
<1>4. CASE from # to /\ ~(UsableEdge(bare, from, to) /\ hint <= 1)
  <2> DEFINE h == IF hint > 1 THEN hint ELSE 1
  <2>1. D = Reachable(h)
    BY <1>4 DEF DeriveRouteDelivery
  <2>2. h \in Nat \ {0} /\ (h = 1 => hint <= 1)
    OBVIOUS
  <2> HIDE DEF D, M, h
  <2>3. D.type # "Direct" /\ (D = Reachable(1) => h = 1)
    BY <2>1 DEF Reachable
  <2>4. ShownRoute(r, bare)
    <3>1. D = Reachable(1) => ~UsableEdge(bare, from, to)
      BY <1>4, <2>2, <2>3
    <3> HIDE DEF r
    <3>2. QED BY <1>1, <2>3, <3>1 DEF ShownRoute
  <2>5. SoundRoute(r, nodes, bare.edges)
    <3> HIDE DEF r
    <3>1. QED BY <1>1, <1>4, <2>1, <2>2 DEF SoundRoute
  <2>6. QED BY <1>1, <2>4, <2>5
<1>5. QED BY <1>2, <1>3, <1>4

(* mesh_snapshot_from of a faithful projector is sound.                    *)
LEMMA SnapshotSound ==
    ASSUME NEW p, Faithful(p), TypedRoutes(p.host.routes)
    PROVE  SoundSnapshot(p.snapshot) /\ ShownSnapshot(p.snapshot)
<1> DEFINE o == p.observations
           h == p.host
           edges == [key \in DOMAIN h.links |-> EdgeObservationFrom(o, key, h)]
           bare == [tick |-> h.tick, nodes |-> h.nodes, edges |-> edges]
           shown == {id \in DOMAIN h.routes : {h.routes[id].owner, h.routes[id].to} \subseteq h.nodes}
           routes == [id \in shown |-> ProjectObservedRoute(bare, id, h.routes[id])]
           s == [tick |-> h.tick, nodes |-> h.nodes, edges |-> edges, routes |-> routes]
<1>1. p.snapshot = s
  <2>1. p.snapshot = MeshSnapshotFrom(o, h)
    BY DEF Faithful
  <2>2. bare.tick = h.tick /\ bare.nodes = h.nodes /\ bare.edges = edges
    OBVIOUS
  <2>3. MeshSnapshotFrom(o, h) = s
    BY <2>2, Zenon DEF MeshSnapshotFrom
  <2>4. QED BY <2>1, <2>3
<1>2. /\ h.nodes = p.topology.nodes /\ h.links = p.topology.links
  <2>1. h = [tick |-> p.topology.tick, nodes |-> p.topology.nodes,
             links |-> p.topology.links, routes |-> h.routes]
    BY DEF Faithful
  <2> HIDE DEF h
  <2>2. QED BY <2>1
<1>3. p.topology \in Topology /\ Self \in h.nodes /\ DOMAIN h.links \subseteq h.nodes \X h.nodes
  BY <1>2 DEF Faithful
<1>4. h.nodes \subseteq Nodes
  BY <1>2, <1>3, TopologyParts
<1>5. DOMAIN edges = DOMAIN h.links /\ bare.edges = edges /\ DOMAIN routes = shown
  OBVIOUS
<1>6. DOMAIN routes \subseteq 1 .. MaxChanges
  BY DEF TypedRoutes
<1>7. ASSUME NEW id \in DOMAIN routes
      PROVE  /\ routes[id].id = id /\ SoundRoute(routes[id], h.nodes, edges)
             /\ ShownRoute(routes[id], bare)
  <2>1. /\ h.routes[id].hint \in Nat
        /\ h.routes[id].owner \in h.nodes /\ h.routes[id].to \in h.nodes
    BY DEF TypedRoutes
  <2>2. routes[id] = ProjectObservedRoute(bare, id, h.routes[id])
    OBVIOUS
  <2> HIDE DEF bare, routes, h, edges
  <2>3. QED BY <1>5, <2>1, <2>2, RouteProjected
<1>8. s.tick = h.tick /\ s.nodes = h.nodes /\ s.edges = edges /\ s.routes = routes
  OBVIOUS
<1>9. s = [tick |-> s.tick, nodes |-> s.nodes, edges |-> s.edges, routes |-> s.routes]
  OBVIOUS
<1> HIDE DEF s, routes, edges, h, bare
<1>10. SoundSnapshot(s)
  BY <1>3, <1>4, <1>5, <1>6, <1>7, <1>8, <1>9 DEF SoundSnapshot
<1>11. ShownSnapshot(s)
  BY <1>5, <1>7, <1>8 DEF ShownSnapshot, ShownRoute, UsableEdge, Edge
<1>12. QED BY <1>1, <1>10, <1>11

(* And so is what sanitize_topology leaves of a sound one.                 *)
LEMMA SanitizedSound ==
    ASSUME NEW s, SoundSnapshot(s)
    PROVE  /\ SoundSnapshot(SanitizeTopology(s))
           /\ DOMAIN SanitizeTopology(s).routes \subseteq DOMAIN s.routes
           /\ \A id \in DOMAIN SanitizeTopology(s).routes :
                 SanitizeTopology(s).routes[id] = s.routes[id]
           /\ \A key \in s.nodes \X s.nodes :
                 key \in DOMAIN SanitizeTopology(s).edges <=> key \in DOMAIN s.edges /\ key[1] = Self
<1> DEFINE adjacent == {key \in DOMAIN s.edges : key[1] = Self}
           visible == {Self} \cup {key[2] : key \in adjacent}
           kept == {id \in DOMAIN s.routes :
                       {s.routes[id].owner, s.routes[id].terminal} \subseteq visible}
           edges == Restrict(s.edges, adjacent)
           nodes == s.nodes \cap visible
           routes == Restrict(s.routes, kept)
           t == [tick |-> s.tick, nodes |-> nodes, edges |-> edges, routes |-> routes]
<1>1. /\ s = [tick |-> s.tick, nodes |-> s.nodes, edges |-> s.edges, routes |-> s.routes]
      /\ s.nodes \subseteq Nodes /\ Self \in s.nodes
      /\ DOMAIN s.edges \subseteq s.nodes \X s.nodes
      /\ DOMAIN s.routes \subseteq 1 .. MaxChanges
      /\ \A id \in DOMAIN s.routes : s.routes[id].id = id /\ SoundRoute(s.routes[id], s.nodes, s.edges)
  BY DEF SoundSnapshot
<1>2. SanitizeTopology(s) = t
  <2>1. \A e, n, r : [s EXCEPT !.edges = e, !.nodes = n, !.routes = r] =
                         [tick |-> s.tick, nodes |-> n, edges |-> e, routes |-> r]
    <3> SUFFICES ASSUME NEW e, NEW n, NEW r
                 PROVE  [s EXCEPT !.edges = e, !.nodes = n, !.routes = r] =
                            [tick |-> s.tick, nodes |-> n, edges |-> e, routes |-> r]
      OBVIOUS
    <3> DEFINE u == [s EXCEPT !.edges = e]
               v == [u EXCEPT !.nodes = n]
    <3>1. u = [tick |-> s.tick, nodes |-> s.nodes, edges |-> e, routes |-> s.routes]
      BY <1>1
    <3> HIDE DEF u
    <3>2. v = [tick |-> s.tick, nodes |-> n, edges |-> e, routes |-> s.routes]
      BY <3>1
    <3> HIDE DEF v
    <3>3. [v EXCEPT !.routes = r] = [tick |-> s.tick, nodes |-> n, edges |-> e, routes |-> r]
      BY <3>2
    <3>4. QED BY <3>3 DEF u, v
  <2>2. SanitizeTopology(s) = [s EXCEPT !.edges = edges, !.nodes = nodes, !.routes = routes]
    BY DEF SanitizeTopology
  <2> HIDE DEF edges, nodes, routes
  <2>3. QED BY <2>1, <2>2
<1>3. /\ DOMAIN edges = adjacent /\ DOMAIN routes = kept
      /\ \A key \in adjacent : edges[key] = s.edges[key]
      /\ \A id \in kept : routes[id] = s.routes[id]
  BY DEF Restrict
<1>4. Self \in nodes /\ nodes \subseteq Nodes
  BY <1>1
<1>5. adjacent \subseteq nodes \X nodes
  BY <1>1
<1>6. ASSUME NEW id \in kept
      PROVE  routes[id].id = id /\ SoundRoute(routes[id], nodes, edges)
  <2> DEFINE r == s.routes[id]
  <2>1. r.id = id /\ SoundRoute(r, s.nodes, s.edges) /\ {r.owner, r.terminal} \subseteq visible
    BY <1>1
  <2>2. r.owner \in nodes /\ r.terminal \in nodes
    BY <2>1 DEF SoundRoute
  <2>3. ASSUME EdgeOf(r) \in DOMAIN edges
        PROVE  EdgeOf(r) \in DOMAIN s.edges /\ edges[EdgeOf(r)] = s.edges[EdgeOf(r)]
    BY <1>3, <2>3
  <2> HIDE DEF r, nodes, edges
  <2>4. SoundRoute(r, nodes, edges)
    BY <2>1, <2>2, <2>3 DEF SoundRoute
  <2>5. QED BY <1>3, <2>1, <2>4 DEF r
<1>7. t.tick = s.tick /\ t.nodes = nodes /\ t.edges = edges /\ t.routes = routes
  OBVIOUS
<1>8. t = [tick |-> t.tick, nodes |-> t.nodes, edges |-> t.edges, routes |-> t.routes]
  OBVIOUS
<1>9. kept \subseteq 1 .. MaxChanges
  BY <1>1
<1> HIDE DEF t, nodes, edges, routes, kept, adjacent
<1>10. SoundSnapshot(t)
  BY <1>3, <1>4, <1>5, <1>6, <1>7, <1>8, <1>9 DEF SoundSnapshot
<1>11. \A key \in s.nodes \X s.nodes : key \in DOMAIN edges <=> key \in DOMAIN s.edges /\ key[1] = Self
  BY <1>3 DEF adjacent
<1>12. kept \subseteq DOMAIN s.routes
  BY DEF kept
<1>13. QED BY <1>2, <1>3, <1>7, <1>10, <1>11, <1>12

-----------------------------------------------------------------------------
(* The routes of the projection stay typed, and what is public stays sound *)

(* The published topology and what the next one is made from.              *)
BuildInv ==
    TypedRoutes(projector.host.routes) /\ SoundSnapshot(public) /\ ShownSnapshot(public)

(* The outcome of a round only takes routes away.                          *)
LEMMA OutcomeKeepsRoutes ==
    ASSUME NEW p, Faithful(p), TypedRoutes(p.host.routes), NEW ended, NEW r,
           r = IngestRoundOutcome(p, ended)
    PROVE  TypedRoutes(r.projector.host.routes)
<1> DEFINE routes == Restrict(p.host.routes, DOMAIN p.host.routes \ ended)
<1>1. r = RefreshSnapshot([p EXCEPT !.host.routes = routes])
  BY DEF IngestRoundOutcome
<1>2. TypedRoutes(routes)
  BY DEF TypedRoutes, Restrict
<1> HIDE DEF routes
<1>3. /\ Faithful(r.projector)
      /\ r.changed \in BOOLEAN
      /\ ~r.changed => r.projector.snapshot = p.snapshot
      /\ r.projector.host.routes = routes
      /\ r.projector.topology = p.topology
  BY <1>1, RoutesRefreshed, SMTT(20)
<1>4. QED BY <1>2, <1>3

(* A materialized route has a hop hint.                                    *)
LEMMA RouteKeepsRoutes ==
    ASSUME NEW p, Faithful(p), TypedRoutes(p.host.routes), NEW id \in 1 .. MaxChanges, NEW route,
           route.hint \in Nat, NEW r, r = IngestMaterializedRoute(p, id, route)
    PROVE  TypedRoutes(r.projector.host.routes)
<1> DEFINE routes == Insert(p.host.routes, id, route)
<1>1. r = RefreshSnapshot([p EXCEPT !.host.routes = routes])
  BY DEF IngestMaterializedRoute
<1>2. TypedRoutes(routes)
  BY DEF TypedRoutes, Insert
<1> HIDE DEF routes
<1>3. /\ Faithful(r.projector)
      /\ r.changed \in BOOLEAN
      /\ ~r.changed => r.projector.snapshot = p.snapshot
      /\ r.projector.host.routes = routes
      /\ r.projector.topology = p.topology
  BY <1>1, RoutesRefreshed, SMTT(20)
<1>4. QED BY <1>2, <1>3

(* A whole report only takes routes away.                                  *)
LEMMA ReportKeepsRoutes ==
    ASSUME NEW batch \in Seq(Events), NEW tick \in 0 .. MaxTick, NEW ended,
           Faithful(projector), projector.topology.tick <= tick,
           TypedRoutes(projector.host.routes)
    PROVE  TypedRoutes(ApplyBridgeReport(batch, tick, ended).projector.host.routes)
<1> DEFINE b == ApplyObservations(batch, tick)
           p == b.projector
           r == IngestRoundOutcome(p, ended)
<1>1. ApplyBridgeReport(batch, tick, ended).projector = r.projector
  BY DEF ApplyBridgeReport, ReportOutcome
<1>2. Faithful(p) /\ p.host.routes = projector.host.routes
  BY ReportApplied DEF ObservedAfter
<1>3. r = IngestRoundOutcome(p, ended)
  OBVIOUS
<1> HIDE DEF p, r
<1>4. TypedRoutes(p.host.routes)
  BY <1>2
<1>5. TypedRoutes(r.projector.host.routes)
  BY <1>2, <1>3, <1>4, OutcomeKeepsRoutes
<1>6. QED BY <1>1, <1>5

(* A new projector has no routes, and its snapshot is public.              *)
LEMMA BuildInit == Init => BuildInv
<1> SUFFICES ASSUME Init PROVE BuildInv
  OBVIOUS
<1>1. Faithful(projector)
  BY InitInv DEF ViewInv, ProjectionInv
<1>2. projector.host.routes = <<>>
  <2>1. PICK seed \in Seeds : projector = Projector(seed)
    BY DEF Init
  <2>2. QED BY <2>1 DEF Projector
<1>3. TypedRoutes(projector.host.routes)
  BY <1>2 DEF TypedRoutes
<1>4. SoundSnapshot(projector.snapshot) /\ ShownSnapshot(projector.snapshot)
  BY <1>1, <1>3, SnapshotSound
<1>5. public = projector.snapshot
  BY DEF Init
<1>6. QED BY <1>3, <1>4, <1>5 DEF BuildInv

(* Every step keeps it.                                                    *)
LEMMA BuildNext == ViewInv /\ BuildInv /\ [Next]_viewVars => BuildInv'
<1> SUFFICES ASSUME ViewInv, BuildInv, [Next]_viewVars PROVE BuildInv'
  OBVIOUS
<1>1. /\ Faithful(projector) /\ projector.topology.tick <= clock
      /\ clock \in 0 .. MaxTick /\ budget \in 0 .. MaxChanges
      /\ TypedRoutes(projector.host.routes) /\ SoundSnapshot(public) /\ ShownSnapshot(public)
  BY DEF ViewInv, TaskInv, ProjectionInv, BuildInv
<1>2. SoundSnapshot(projector.snapshot) /\ ShownSnapshot(projector.snapshot)
  BY <1>1, SnapshotSound
<1>3. ASSUME projector' = projector PROVE TypedRoutes(projector'.host.routes)
  BY <1>1, <1>3
<1>4. ASSUME NEW to \in Nodes, ActivateAndForward(to)
      PROVE  TypedRoutes(projector'.host.routes) /\ public' = public
  <2>1. public' = public
    BY <1>4 DEF ActivateAndForward
  <2>2. CASE projector' = projector
    BY <1>3, <2>1, <2>2
  <2>3. ASSUME NEW route \in Routes, budget > 0,
               projector' = IngestMaterializedRoute(projector, budget, route).projector
        PROVE  TypedRoutes(projector'.host.routes)
    <3> DEFINE r == IngestMaterializedRoute(projector, budget, route)
    <3>1. route.hint \in Nat /\ budget \in 1 .. MaxChanges
      BY <1>1, <2>3, ViewAssumption
    <3>2. r = IngestMaterializedRoute(projector, budget, route) /\ projector' = r.projector
      BY <2>3
    <3> HIDE DEF r
    <3>3. TypedRoutes(r.projector.host.routes)
      BY <1>1, <3>1, <3>2, RouteKeepsRoutes
    <3>4. QED BY <3>2, <3>3
  <2>4. QED BY <1>4, <2>1, <2>2, <2>3 DEF ActivateAndForward
<1>5. ASSUME NEW batch \in BoundedSeq(Events, budget), NEW ended, RoundEnds(batch, ended)
      PROVE  TypedRoutes(projector'.host.routes) /\ public' = public
  <2>1. public' = public
    BY <1>5 DEF RoundEnds, AdvanceRound
  <2>2. \/ projector' = projector
        \/ projector' = ApplyBridgeReport(batch, clock, ended).projector
    BY <1>5 DEF RoundEnds
  <2>3. batch \in Seq(Events)
    BY <1>1, BatchIs
  <2>4. TypedRoutes(ApplyBridgeReport(batch, clock, ended).projector.host.routes)
    BY <1>1, <2>3, ReportKeepsRoutes
  <2>5. QED BY <1>3, <2>1, <2>2, <2>4
<1>6. CASE LoopRound
  <2>1. projector' = projector /\ public' = public
    BY <1>6 DEF LoopRound
  <2>2. QED BY <1>1, <2>1 DEF BuildInv
<1>7. CASE HandleCommand
  <2>1. ASSUME NEW to \in Nodes, TryCachedForward(to) PROVE projector' = projector /\ public' = public
    BY <2>1 DEF TryCachedForward
  <2>2. ASSUME NEW receivers \in SUBSET Peers, HandleSendMulticast(receivers)
        PROVE  projector' = projector /\ public' = public
    BY <2>2 DEF HandleSendMulticast
  <2>3. TypedRoutes(projector'.host.routes) /\ public' = public
    BY <1>3, <1>4, <1>7, <2>1, <2>2 DEF HandleCommand
  <2>4. QED BY <1>1, <2>3 DEF BuildInv
<1>8. CASE Round
  <2>1. ASSUME NEW batch, NEW ended, RouterFails(batch, ended) \/ FlushFails(batch, ended)
        PROVE  projector' = projector /\ public' = public
    BY <2>1 DEF RouterFails, FlushFails, RoundFails, AdvanceRound
  <2>2. TypedRoutes(projector'.host.routes) /\ public' = public
    BY <1>3, <1>5, <1>8, <2>1 DEF Round
  <2>3. QED BY <1>1, <2>2 DEF BuildInv
<1>9. CASE StoreTopology
  <2>1. projector' = projector /\ public' = projector.snapshot
    BY <1>9 DEF StoreTopology
  <2>2. QED BY <1>1, <1>2, <2>1 DEF BuildInv
<1>10. CASE BroadcastTopology
  <2>1. projector' = projector /\ public' = public
    BY <1>10 DEF BroadcastTopology
  <2>2. QED BY <1>1, <2>1 DEF BuildInv
<1>11. CASE TopologyStream
  <2>1. projector' = projector /\ public' = public
    BY <1>11 DEF TopologyStream
  <2>2. QED BY <1>1, <2>1 DEF BuildInv
<1>12. CASE UNCHANGED viewVars
  <2>1. projector' = projector /\ public' = public
    BY <1>12 DEF viewVars
  <2>2. QED BY <1>1, <2>1 DEF BuildInv
<1>13. QED BY <1>6, <1>7, <1>8, <1>9, <1>10, <1>11, <1>12 DEF Next

-----------------------------------------------------------------------------
(* What is shown only grows *)

(* A snapshot that shows no less than an earlier one.                      *)
ShowsMore(s, u) ==
    s.tick <= u.tick /\ s.nodes \subseteq u.nodes /\ DOMAIN s.edges \subseteq DOMAIN u.edges

(* What is public is not ahead of the projection.                          *)
PublicBehind ==
    public.tick \in Int /\ ShowsMore(public, projector.snapshot)

(* No publication takes back what an earlier one has shown: the tick does  *)
(* not go back, and no node and no edge, faulted ones included, disappears, *)
(* although failed rounds leave changes unpublished.                       *)
PublicAdvances == ShowsMore(public, public')

(* The snapshot of a topology that has grown shows more.                   *)
LEMMA GrownShowsMore ==
    ASSUME NEW p, Faithful(p), NEW q, Faithful(q), Grown(p.topology, q.topology)
    PROVE  ShowsMore(p.snapshot, q.snapshot)
<1>1. \A r : Faithful(r) => /\ r.snapshot.tick = r.topology.tick
                            /\ r.snapshot.nodes = r.topology.nodes
                            /\ DOMAIN r.snapshot.edges = DOMAIN r.topology.links
  BY FaithfulSnapshot
<1>2. QED BY <1>1 DEF Grown, ShowsMore

(* Every step moves the projection on, and publishes nothing but it.       *)
LEMMA AdvanceStep ==
    ASSUME ViewInv, [Next]_viewVars
    PROVE  /\ ShowsMore(projector.snapshot, projector'.snapshot)
           /\ public' = public \/ (public' = projector.snapshot /\ projector' = projector)
           /\ {projector.snapshot.tick, projector'.snapshot.tick} \subseteq Int
<1>1. /\ Faithful(projector) /\ projector.topology.tick <= clock
      /\ clock \in 0 .. MaxTick /\ budget \in 0 .. MaxChanges
      /\ router.topology = projector.topology
  <2>1. router = [active |-> router.active, topology |-> projector.topology]
    BY DEF ViewInv, ProjectionInv
  <2>2. QED BY <2>1 DEF ViewInv, TaskInv, ProjectionInv
<1>2. Faithful(projector)'
  BY NextInv DEF ViewInv, ProjectionInv
<1>3. \A p : Faithful(p) => p.topology.tick \in Int /\ p.snapshot.tick = p.topology.tick
  BY FaithfulTick, FaithfulSnapshot
<1>4. Faithful(projector')
  BY <1>2 DEF Faithful
<1>5. Grown(projector.topology, projector.topology)
  BY <1>1, <1>3 DEF Grown
<1>6. SUFFICES /\ Grown(projector.topology, projector'.topology)
               /\ public' = public \/ (public' = projector.snapshot /\ projector' = projector)
  BY <1>1, <1>3, <1>4, GrownShowsMore
<1>7. SUFFICES ASSUME ~(projector' = projector /\ (public' = public \/ public' = projector.snapshot))
               PROVE  Grown(projector.topology, projector'.topology) /\ public' = public
  BY <1>5
<1>8. ASSUME NEW to \in Nodes, ActivateAndForward(to)
      PROVE  Grown(projector.topology, projector'.topology) /\ public' = public
  <2>1. public' = public
    BY <1>8 DEF ActivateAndForward
  <2>2. ASSUME NEW route \in Routes,
               projector' = IngestMaterializedRoute(projector, budget, route).projector
        PROVE  projector'.topology = projector.topology
    <3> DEFINE r == IngestMaterializedRoute(projector, budget, route)
    <3>1. r = IngestMaterializedRoute(projector, budget, route) /\ projector' = r.projector
      BY <2>2
    <3> HIDE DEF r
    <3>2. QED BY <1>1, <3>1, RouteIngested
  <2>3. projector' = projector \/ projector'.topology = projector.topology
    BY <1>8, <2>2 DEF ActivateAndForward
  <2>4. QED BY <2>1, <2>3, <1>5
<1>9. ASSUME NEW batch \in BoundedSeq(Events, budget), NEW ended, RoundEnds(batch, ended)
      PROVE  Grown(projector.topology, projector'.topology) /\ public' = public
  <2>1. public' = public
    BY <1>9 DEF RoundEnds, AdvanceRound
  <2>2. \/ projector' = projector
        \/ projector' = ApplyBridgeReport(batch, clock, ended).projector
    BY <1>9 DEF RoundEnds
  <2>3. batch \in Seq(Events)
    BY <1>1, BatchIs
  <2>4. Grown(projector.topology, ApplyBridgeReport(batch, clock, ended).projector.topology)
    BY <1>1, <2>3, BridgeReportApplied
  <2>5. QED BY <1>5, <2>1, <2>2, <2>4
<1>10. CASE LoopRound
  BY <1>7, <1>10 DEF LoopRound
<1>11. CASE HandleCommand
  <2>1. ASSUME NEW to \in Nodes, TryCachedForward(to) PROVE projector' = projector /\ public' = public
    BY <2>1 DEF TryCachedForward
  <2>2. ASSUME NEW receivers \in SUBSET Peers, HandleSendMulticast(receivers)
        PROVE  projector' = projector /\ public' = public
    BY <2>2 DEF HandleSendMulticast
  <2>3. QED BY <1>7, <1>8, <1>11, <2>1, <2>2 DEF HandleCommand
<1>12. CASE Round
  <2>1. ASSUME NEW batch, NEW ended, RouterFails(batch, ended) \/ FlushFails(batch, ended)
        PROVE  projector' = projector /\ public' = public
    BY <2>1 DEF RouterFails, FlushFails, RoundFails, AdvanceRound
  <2>2. QED BY <1>7, <1>9, <1>12, <2>1 DEF Round
<1>13. CASE StoreTopology
  BY <1>7, <1>13 DEF StoreTopology
<1>14. CASE BroadcastTopology
  BY <1>7, <1>14 DEF BroadcastTopology
<1>15. CASE TopologyStream
  BY <1>7, <1>15 DEF TopologyStream
<1>16. CASE UNCHANGED viewVars
  BY <1>7, <1>16 DEF viewVars
<1>17. QED BY <1>10, <1>11, <1>12, <1>13, <1>14, <1>15, <1>16 DEF Next

-----------------------------------------------------------------------------
(* Theorems *)

(* The inductive invariant holds of every behaviour.                       *)
THEOREM ViewInvariant == Spec => []ViewInv
<1>1. QED BY InitInv, NextInv, PTL DEF Spec

(* Every variable keeps its type: rounds never move the topology's tick    *)
(* past the clock, no fanout link becomes an edge, and no feed, mailbox or *)
(* count of publications leaves its bounds.                                *)
THEOREM TypeCorrect == Spec => []TypeOK
<1>1. ViewInv => TypeOK
  <2> SUFFICES ASSUME ViewInv PROVE TypeOK
    OBVIOUS
  <2>1. projector.topology \in Topology
    BY DEF ViewInv, ProjectionInv, Faithful
  <2>2. /\ projector.topology.nodes \subseteq Nodes
        /\ DOMAIN projector.topology.links \subseteq Nodes \X Nodes
        /\ \A key \in DOMAIN projector.topology.links : projector.topology.links[key] \in Links
    BY <2>1, TopologyParts
  <2>3. DOMAIN projector.observations = DOMAIN projector.topology.links
    <3>1. projector.observations =
              [key \in DOMAIN projector.topology.links |-> projector.observations[key]]
      BY DEF ViewInv, ProjectionInv, Faithful
    <3>2. QED BY <3>1
  <2>4. /\ projector.topology.tick <= clock
        /\ DOMAIN cache \subseteq Nodes /\ router.active \subseteq 1 .. MaxChanges
    BY DEF ViewInv, ProjectionInv
  <2>5. subscribers \subseteq Peers /\ fanout \subseteq Peers /\ unseen \subseteq Peers
    BY DEF ViewInv, AdmissionInv
  <2>6. /\ clock \in 0 .. MaxTick /\ outbound \in 0 .. DispatchCapacity
        /\ pc \in {"idle", "round", "store", "broadcast"} /\ publications \in 0 .. 2
    BY DEF ViewInv, TaskInv
  <2>7. {followUp, changed, owed, outcomeLost, skipped} \subseteq BOOLEAN
    BY Zenon DEF ViewInv, TaskInv
  <2>8. /\ reader.stage \in {"none", "read", "live"}
        /\ reader.queue \in Seq(BOOLEAN) /\ Len(reader.queue) <= FeedCapacity
    BY DEF ViewInv, ReaderInv
  <2>9. QED BY <2>2, <2>3, <2>4, <2>5, <2>6, <2>7, <2>8 DEF TypeOK
<1>2. QED BY <1>1, ViewInvariant, PTL

(* What an application has been shown is not taken back by a later         *)
(* publication, whatever rounds and sends failed in between.               *)
THEOREM ViewsAdvance == Spec => [][PublicAdvances]_viewVars
<1>1. Init => PublicBehind
  <2> SUFFICES ASSUME Init PROVE PublicBehind
    OBVIOUS
  <2>1. Faithful(projector) /\ public = projector.snapshot
    BY InitInv DEF ViewInv, ProjectionInv, Init
  <2>2. projector.snapshot.tick \in Int
    BY <2>1, FaithfulTick, FaithfulSnapshot
  <2>3. QED BY <2>1, <2>2 DEF PublicBehind, ShowsMore
<1>2. ViewInv /\ PublicBehind /\ [Next]_viewVars => PublicBehind' /\ PublicAdvances
  <2> SUFFICES ASSUME ViewInv, PublicBehind, [Next]_viewVars
               PROVE  PublicBehind' /\ PublicAdvances
    OBVIOUS
  <2>1. /\ ShowsMore(projector.snapshot, projector'.snapshot)
        /\ public' = public \/ (public' = projector.snapshot /\ projector' = projector)
        /\ {projector.snapshot.tick, projector'.snapshot.tick} \subseteq Int
    BY AdvanceStep
  <2>2. QED BY <2>1 DEF PublicBehind, PublicAdvances, ShowsMore
<1>3. QED BY <1>1, <1>2, ViewInvariant, PTL DEF Spec

(* A sound snapshot is refused exactly the routes that are not accepted.   *)
LEMMA SoundRefuses ==
    ASSUME NEW s, SoundSnapshot(s), NEW ids,
           \A id \in DOMAIN s.routes : Accepted(s.routes[id], s.edges) <=> id \notin ids
    PROVE  RefusesExactly(s, ids)
<1>1. Validate(s, DOMAIN s.routes \ ids) = "ok"
  <2>1. DOMAIN s.routes \ ids \in SUBSET DOMAIN s.routes
    OBVIOUS
  <2>2. \A id \in DOMAIN s.routes \ ids : Accepted(s.routes[id], s.edges)
    OBVIOUS
  <2>3. QED BY <2>1, <2>2, SoundValidated
<1>2. ASSUME NEW id \in DOMAIN s.routes \cap ids PROVE Validate(s, {id}) # "ok"
  <2>1. {id} \in SUBSET DOMAIN s.routes
    OBVIOUS
  <2>2. ~ \A x \in {id} : Accepted(s.routes[x], s.edges)
    OBVIOUS
  <2>3. QED BY <2>1, <2>2, SoundValidated
<1>3. QED BY <1>1, <1>2 DEF RefusesExactly

(* Whatever was observed, sent or lost, the validating builder refuses of  *)
(* a published topology exactly the routes shown as reachable with a hint  *)
(* of 1, which have no usable edge, and of the host application's view     *)
(* besides these only the direct routes of another owner, for every mesh   *)
(* and every owner and hint of its routes.                                 *)
THEOREM RefusalsAreExact == Spec => []RefusalsExact
<1>1. BuildInv => RefusalsExact
  <2> SUFFICES ASSUME BuildInv PROVE RefusalsExact
    OBVIOUS
  <2> DEFINE view == SanitizeTopology(public)
             unhinted == {id \in DOMAIN public.routes : public.routes[id].delivery = Reachable(1)}
             hidden == {id \in DOMAIN public.routes :
                           public.routes[id].delivery.type = "Direct" /\ public.routes[id].owner # Self}
  <2>1. SoundSnapshot(public) /\ ShownSnapshot(public)
    BY DEF BuildInv
  <2>2. /\ SoundSnapshot(view)
        /\ DOMAIN view.routes \subseteq DOMAIN public.routes
        /\ \A id \in DOMAIN view.routes : view.routes[id] = public.routes[id]
        /\ \A key \in public.nodes \X public.nodes :
              key \in DOMAIN view.edges <=> key \in DOMAIN public.edges /\ key[1] = Self
    BY <2>1, SanitizedSound
  <2>3. ASSUME NEW id \in DOMAIN public.routes
        PROVE  /\ public.routes[id].delivery.type = "Direct" =>
                      EdgeOf(public.routes[id]) \in DOMAIN public.edges
               /\ EdgeOf(public.routes[id]) \in public.nodes \X public.nodes
               /\ EdgeOf(public.routes[id])[1] = public.routes[id].owner
               /\ public.routes[id].delivery = Reachable(1) =>
                     ~UsableEdge(public, public.routes[id].owner, public.routes[id].terminal)
    BY <2>1 DEF SoundSnapshot, ShownSnapshot, SoundRoute, ShownRoute, EdgeOf
  <2> HIDE DEF view
  <2>4. RefusesExactly(public, unhinted)
    <3>1. \A id \in DOMAIN public.routes :
             Accepted(public.routes[id], public.edges) <=> id \notin unhinted
      BY <2>3 DEF Accepted
    <3> HIDE DEF unhinted
    <3>2. QED BY <2>1, <3>1, SoundRefuses
  <2>5. RefusesExactly(view, unhinted \cup hidden)
    <3>1. ASSUME NEW id \in DOMAIN view.routes
          PROVE  Accepted(view.routes[id], view.edges) <=> id \notin unhinted \cup hidden
      <4>1. id \in DOMAIN public.routes /\ view.routes[id] = public.routes[id]
        BY <2>2
      <4>2. public.routes[id].delivery.type = "Direct" =>
              (EdgeOf(public.routes[id]) \in DOMAIN view.edges <=> public.routes[id].owner = Self)
        BY <2>2, <2>3, <4>1
      <4>3. QED BY <4>1, <4>2 DEF Accepted
    <3> HIDE DEF unhinted, hidden
    <3>2. QED BY <2>2, <3>1, SoundRefuses
  <2>6. \A id \in unhinted :
           ~UsableEdge(public, public.routes[id].owner, public.routes[id].terminal)
    BY <2>3
  <2>7. QED BY <2>4, <2>5, <2>6 DEF RefusalsExact, view
<1>2. Spec => []BuildInv
  BY BuildInit, BuildNext, ViewInvariant, PTL DEF Spec
<1>3. QED BY <1>1, <1>2, PTL

(* publish_topology is never forgotten: an idle client shows its           *)
(* projection, unless a failed call left a change unpublished.             *)
THEOREM PublicIsCurrent == Spec => []PublicCurrent
<1>1. ViewInv => PublicCurrent
  BY DEF ViewInv, PublicInv, PublicCurrent
<1>2. QED BY <1>1, ViewInvariant, PTL

(* refresh_snapshot is called often enough: the snapshot kept step by step *)
(* is the one a fresh projection would give, and replace_topology has told *)
(* the router of every change.                                             *)
THEOREM DerivedIsFresh == Spec => []DerivedFresh
<1>1. ViewInv => DerivedFresh
  <2> SUFFICES ASSUME ViewInv PROVE DerivedFresh
    OBVIOUS
  <2>1. Faithful(projector)
    BY DEF ViewInv, ProjectionInv
  <2>2. router.topology = projector.topology
    <3>1. router = [active |-> router.active, topology |-> projector.topology]
      BY DEF ViewInv, ProjectionInv
    <3>2. QED BY <3>1
  <2>3. \A x : [projector EXCEPT !.host = x].host = x
    <3>1. projector = [topology |-> projector.topology, observations |-> projector.observations,
                       host |-> projector.host, snapshot |-> projector.snapshot]
      BY <2>1 DEF Faithful
    <3>2. QED BY <3>1
  <2>4. IngestTopology(projector).host = projector.host
    BY <2>1, <2>3 DEF Faithful, IngestTopology
  <2>5. projector.snapshot = MeshSnapshotFrom(projector.observations, projector.host)
    BY <2>1 DEF Faithful
  <2>6. QED BY <2>2, <2>4, <2>5, Zenon DEF DerivedFresh
<1>2. QED BY <1>1, ViewInvariant, PTL

(* The routes an application sees are the router's active ones between     *)
(* nodes of the mesh, unless a failed round lost an outcome or a change is          *)
(* unpublished.                                                            *)
THEOREM RoutesAreLive == Spec => []RoutesLive
<1>1. ViewInv => RoutesLive
  <2> SUFFICES ASSUME ViewInv, pc = "idle", ~skipped, ~outcomeLost
               PROVE  DOMAIN public.routes =
                        {id \in router.active :
                            {projector.host.routes[id].owner, projector.host.routes[id].to}
                                \subseteq public.nodes}
    BY DEF RoutesLive
  <2>1. Faithful(projector) /\ DOMAIN projector.host.routes = router.active
    BY DEF ViewInv, ProjectionInv
  <2>2. public = projector.snapshot
    BY DEF ViewInv, PublicInv
  <2>3. projector.snapshot = MeshSnapshotFrom(projector.observations, projector.host)
    BY <2>1 DEF Faithful
  <2>4. DOMAIN MeshSnapshotFrom(projector.observations, projector.host).routes =
            {id \in DOMAIN projector.host.routes :
                {projector.host.routes[id].owner, projector.host.routes[id].to}
                    \subseteq projector.host.nodes}
    BY DEF MeshSnapshotFrom
  <2>5. MeshSnapshotFrom(projector.observations, projector.host).nodes = projector.host.nodes
    BY SnapshotShows
  <2>6. QED BY <2>1, <2>2, <2>3, <2>4, <2>5
<1>2. QED BY <1>1, ViewInvariant, PTL

(* A reader of topology_stream that has read all it was sent has the       *)
(* latest topology, also when its feed has overflowed, unless an update    *)
(* came between its snapshot and its subscription.                         *)
THEOREM ReaderCatches == Spec => []ReaderCatchesUp
<1>1. ViewInv => ReaderCatchesUp
  BY DEF ViewInv, ReaderInv, Newest, ReaderCatchesUp
<1>2. QED BY <1>1, ViewInvariant, PTL

(* The multicast admission has exactly the peers whose last staged fanout  *)
(* link was up, unless that observation went down with a failed round.     *)
THEOREM AdmissionIsExact == Spec => []AdmissionExact
<1>1. ViewInv => AdmissionExact
  BY DEF ViewInv, AdmissionInv
<1>2. QED BY <1>1, ViewInvariant, PTL
=============================================================================
