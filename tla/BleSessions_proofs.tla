------------------------- MODULE BleSessions_proofs -------------------------
(***************************************************************************)
(* Proofs about BleSessions for every set of nodes and devices, with and   *)
(* without device rotation: type correctness, and that sessions, channels  *)
(* and emitted events are backed by a currently proven identity.  For      *)
(* peers behind one device at a time, also that channels never dangle,     *)
(* that resolved peers stay reachable, that what was reported of a link is *)
(* true, and how payloads are dispatched.                                  *)
(***************************************************************************)
EXTENDS BleSessions, PeerSessions_proofs, TLAPS

SessionsType == [Node -> PeerSessionsType \cup {None}]
ChannelsType == [ChannelId -> [node : Node, device : Device] \cup {None}]
ReportedType == [Node -> [LinkClass -> Event \cup {None}]]

-----------------------------------------------------------------------------
(* Shapes of the values the handlers build *)

(* The three kinds of ingress event a handler builds are events.           *)
LEMMA EventTypes ==
    /\ \A n \in Node, ep \in EndpointType :
         /\ Observed(n, ep) \in Event
         /\ Faulted(n, ep) \in Event
         /\ Payload(n, ep) \in Event
    /\ \A s \in GattSession \cup L2capSession : Endpoint(s) \in EndpointType
    /\ \A d \in Device : GattEndpoint(d) \in EndpointType
    /\ NotifyEndpoint \in EndpointType
<1>1. \A s \in GattSession \cup L2capSession : Endpoint(s) \in EndpointType
  BY DEF Endpoint, EndpointType, GattSession, L2capSession, GattCentral, L2cap
<1>2. \A d \in Device : GattEndpoint(d) \in EndpointType
  BY <1>1, SessionShape DEF GattEndpoint
<1>3. QED
  BY <1>1, <1>2 DEF Observed, Faulted, Payload, Event, EndpointType

(* What a handler does on the air is a radio operation.                    *)
LEMMA RadioTypes ==
    /\ Idle \in RadioType
    /\ \A ds \in SUBSET Device :
         \A op \in {"idle", "connect", "disconnect", "refresh", "ack", "nack",
                    "write", "frame", "notify", "lost"} :
           Radio(op, ds) \in RadioType
BY DEF Idle, Radio, RadioType

(* The kind of a directory entry tells the three identity states apart.    *)
LEMMA IdentityShape ==
    /\ Unknown \in Identity
    /\ \A p \in Prefix : Hint(p) \in Identity
    /\ \A n \in Node : Resolved(n) \in Identity
    /\ \A n, m \in Node : Resolved(n) = Resolved(m) => n = m
    /\ \A n \in Node : /\ Resolved(n).kind = "resolved"
                       /\ Resolved(n).of = n
                       /\ Resolved(n) # Unknown
                       /\ \A p \in Prefix : Resolved(n) # Hint(p)
    /\ \A p \in Prefix : Hint(p).kind = "hint"
    /\ \A i \in Identity : i.kind = "resolved" => i.of \in Node /\ i = Resolved(i.of)
<1>1. \A p \in Prefix : Hint(p).kind = "hint" /\ Hint(p) \in Identity
  BY DEF Hint, Identity
<1>2. \A n \in Node : /\ Resolved(n) \in Identity
                      /\ Resolved(n).kind = "resolved"
                      /\ Resolved(n).of = n
  BY DEF Resolved, Identity
<1>3. Unknown \in Identity /\ Unknown.kind = "unknown"
  BY DEF Unknown, Identity
<1>4. \A i \in Identity : i.kind = "resolved" => i.of \in Node /\ i = Resolved(i.of)
  BY DEF Identity, Unknown, Hint, Resolved
<1>5. QED BY <1>1, <1>2, <1>3, <1>4

(* A handler emits at most three events; their last one per peer and class *)
(* becomes the reported one.                                               *)
LEMMA EmitType ==
    ASSUME NEW es \in Seq(Event), Len(es) <= 3, Emit(es), reported \in ReportedType
    PROVE  emits' \in Seq(Event) /\ reported' \in ReportedType
<1>1. ASSUME NEW n \in Node, NEW k \in LinkClass, LinkEvents(es, n, k) # {}
      PROVE  es[CHOOSE i \in LinkEvents(es, n, k) :
                  \A j \in LinkEvents(es, n, k) : j <= i] \in Event
  <2> DEFINE is == LinkEvents(es, n, k)
  <2>1. is \subseteq 1 .. Len(es) /\ is # {}
    BY <1>1 DEF LinkEvents
  <2>2. Len(es) \in Nat
    OBVIOUS
  <2>3. is \subseteq {1, 2, 3}
    BY <2>1, <2>2
  <2>4. \E i \in is : \A j \in is : j <= i
    <3>1. CASE 3 \in is
      BY <2>3, <3>1
    <3>2. CASE 3 \notin is /\ 2 \in is
      BY <2>3, <3>2
    <3>3. CASE 3 \notin is /\ 2 \notin is
      BY <2>1, <2>3, <3>3
    <3>4. QED BY <3>1, <3>2, <3>3
  <2>5. (CHOOSE i \in is : \A j \in is : j <= i) \in is
    BY <2>4
  <2>6. QED BY <2>1, <2>5
<1>2. emits' = es
  BY DEF Emit
<1>3. reported' = [n \in Node |-> [k \in LinkClass |->
            IF LinkEvents(es, n, k) = {} THEN reported[n][k]
            ELSE es[CHOOSE i \in LinkEvents(es, n, k) :
                      \A j \in LinkEvents(es, n, k) : j <= i]]]
  BY DEF Emit
<1>4. reported' \in ReportedType
  BY <1>1, <1>3 DEF ReportedType
<1>5. QED BY <1>2, <1>4

(* A handler that emits nothing leaves the reported events as they were.   *)
LEMMA EmitNothingType ==
    ASSUME EmitNothing, reported \in ReportedType
    PROVE  emits' \in Seq(Event) /\ reported' \in ReportedType
<1>1. <<>> \in Seq(Event) /\ Len(<<>>) <= 3
  OBVIOUS
<1>2. Emit(<<>>)
  BY DEF EmitNothing
<1>3. QED BY <1>1, <1>2, EmitType

(* The case of EmitType most handlers need: a single event.                *)
LEMMA EmitOneType ==
    ASSUME NEW event \in Event, Emit(<<event>>), reported \in ReportedType
    PROVE  emits' \in Seq(Event) /\ reported' \in ReportedType
<1>1. <<event>> \in Seq(Event) /\ Len(<<event>>) <= 3
  OBVIOUS
<1>2. QED BY <1>1, EmitType

-----------------------------------------------------------------------------
(* The session table *)

(* install_gatt_session changes the entry of its own peer only, to one     *)
(* that refers to no device but the new one and those it had.              *)
LEMMA InstallGattSessionFacts ==
    ASSUME NEW ss \in SessionsType, NEW n \in Node, NEW d \in Device
    PROVE  LET new == InstallGattSession(ss, n, d)
           IN  /\ new \in SessionsType
               /\ new[n] # None
               /\ \A m \in Node \ {n} : new[m] = ss[m]
               /\ \A e \in Device : ReferencesDevice(new[n], e) =>
                    e = d \/ (ss[n] # None /\ ReferencesDevice(ss[n], e))
               /\ new[n].mode = "l2cap" =>
                    /\ ss[n] # None
                    /\ ss[n].mode = "l2cap"
                    /\ new[n].session = ss[n].session
<1> DEFINE new == InstallGattSession(ss, n, d)
<1>1. \A m \in Node \ {n} : new[m] = ss[m]
  BY DEF InstallGattSession, SessionsType
<1>2. CASE ss[n] = None
  <2>1. new[n] = GattWithFallback(GattCentral(d))
    BY <1>2 DEF InstallGattSession, SessionsType
  <2>2. new[n] \in PeerSessionsType
    BY <2>1, GattConstructorFacts
  <2>3. new \in SessionsType
    BY <2>2, <1>1 DEF InstallGattSession, SessionsType
  <2>4. QED
    BY <1>1, <2>1, <2>2, <2>3, NodeAssumption, GattConstructorFacts
<1>3. CASE ss[n] # None
  <2>1. ss[n] \in PeerSessionsType
    BY <1>3 DEF SessionsType
  <2>2. new[n] = InstallGattCentral(ss[n], GattCentral(d))
    BY <1>3 DEF InstallGattSession, SessionsType
  <2>3. new[n] \in PeerSessionsType
    BY <2>1, <2>2, InstallGattCentralFacts
  <2>4. new \in SessionsType
    BY <2>3, <1>1 DEF InstallGattSession, SessionsType
  <2>5. QED
    BY <1>1, <1>3, <2>1, <2>2, <2>3, <2>4, NodeAssumption, InstallGattCentralFacts
<1>4. QED BY <1>2, <1>3

(* install_l2cap_session changes the entry of its own peer only and makes  *)
(* the new channel its preferred one.                                      *)
LEMMA InstallL2capSessionFacts ==
    ASSUME NEW ss \in SessionsType, NEW n \in Node, NEW d \in Device,
           NEW c \in ChannelId
    PROVE  LET new == InstallL2capSession(ss, n, d, c)
           IN  /\ new \in SessionsType
               /\ new[n] # None
               /\ \A m \in Node \ {n} : new[m] = ss[m]
               /\ \A e \in Device : ReferencesDevice(new[n], e) =>
                    e = d \/ (ss[n] # None /\ ReferencesDevice(ss[n], e))
               /\ new[n].session = L2cap(d, c)
<1> DEFINE new == InstallL2capSession(ss, n, d, c)
<1>1. \A m \in Node \ {n} : new[m] = ss[m]
  BY DEF InstallL2capSession, SessionsType
<1>2. CASE ss[n] = None
  <2>1. new[n] = L2capPreferred(L2cap(d, c), None)
    BY <1>2 DEF InstallL2capSession, SessionsType
  <2>2. new[n] \in PeerSessionsType
    BY <2>1, L2capConstructorFacts
  <2>3. new \in SessionsType
    BY <2>2, <1>1 DEF InstallL2capSession, SessionsType
  <2>4. QED
    BY <1>1, <2>1, <2>2, <2>3, NodeAssumption, L2capConstructorFacts
<1>3. CASE ss[n] # None
  <2>1. ss[n] \in PeerSessionsType
    BY <1>3 DEF SessionsType
  <2>2. new[n] = PromoteL2cap(ss[n], L2cap(d, c))
    BY <1>3 DEF InstallL2capSession, SessionsType
  <2>3. new[n] \in PeerSessionsType
    BY <2>1, <2>2, PromoteL2capFacts
  <2>4. new \in SessionsType
    BY <2>3, <1>1 DEF InstallL2capSession, SessionsType
  <2>5. QED
    BY <1>1, <1>3, <2>1, <2>2, <2>3, <2>4, NodeAssumption, PromoteL2capFacts
<1>4. QED BY <1>2, <1>3

-----------------------------------------------------------------------------
(* Type correctness *)

(* register_l2cap_channel keeps the channel table and its counter in       *)
(* range.                                                                  *)
LEMMA RegisterType ==
    ASSUME TypeOK, NEW n \in Node, NEW d \in Device, RegisterL2capChannel(n, d)
    PROVE  /\ nextChannelId \in ChannelId
           /\ nextChannelId' \in 0 .. MaxChannels
           /\ channels' \in ChannelsType
<1>1. nextChannelId \in ChannelId /\ nextChannelId' \in 0 .. MaxChannels
  BY ChannelAssumption DEF TypeOK, RegisterL2capChannel, ChannelId
<1>2. channels \in ChannelsType
  BY DEF TypeOK, ChannelsType
<1>3. channels' \in ChannelsType
  BY <1>1, <1>2 DEF RegisterL2capChannel, ChannelsType
<1>4. QED BY <1>1, <1>3

(* install_resolved_peer, with or without the L2CAP upgrade, preserves the *)
(* types of what it changes.                                               *)
LEMMA InstallResolvedPeerType ==
    ASSUME TypeOK, NEW n \in Node, NEW d \in Device, InstallResolvedPeer(n, d)
    PROVE  /\ peers' \in [Device -> Identity]
           /\ sessions' \in SessionsType
           /\ channels' \in ChannelsType
           /\ nextChannelId' \in 0 .. MaxChannels
           /\ emits' \in Seq(Event)
           /\ reported' \in ReportedType
<1> DEFINE gatt == InstallGattSession(sessions, n, d)
<1>1. /\ peers \in [Device -> Identity]
      /\ sessions \in SessionsType
      /\ channels \in ChannelsType
      /\ reported \in ReportedType
      /\ nextChannelId \in 0 .. MaxChannels
  BY DEF TypeOK, SessionsType, ChannelsType, ReportedType
<1>2. peers' \in [Device -> Identity]
  BY <1>1, IdentityShape DEF InstallResolvedPeer
<1>3. gatt \in SessionsType
  BY <1>1, InstallGattSessionFacts
<1>4. Observed(n, GattEndpoint(d)) \in Event
  BY EventTypes
<1>5. CASE /\ sessions' = gatt
           /\ Emit(<<Observed(n, GattEndpoint(d))>>)
           /\ UNCHANGED <<channels, nextChannelId>>
  <2>1. emits' \in Seq(Event) /\ reported' \in ReportedType
    BY <1>1, <1>4, <1>5, EmitOneType
  <2>2. QED BY <1>1, <1>2, <1>3, <1>5, <2>1
<1>6. CASE /\ RegisterL2capChannel(n, d)
           /\ sessions' = InstallL2capSession(gatt, n, d, nextChannelId)
           /\ Emit(<<Observed(n, GattEndpoint(d)),
                     Observed(n, Endpoint(L2cap(d, nextChannelId)))>>)
  <2> DEFINE second == Observed(n, Endpoint(L2cap(d, nextChannelId)))
  <2>1. /\ nextChannelId \in ChannelId
        /\ nextChannelId' \in 0 .. MaxChannels
        /\ channels' \in ChannelsType
    BY <1>6, RegisterType
  <2>2. sessions' \in SessionsType
    BY <1>3, <1>6, <2>1, InstallL2capSessionFacts
  <2>3. second \in Event
    BY <2>1, EventTypes, SessionShape
  <2>4. /\ <<Observed(n, GattEndpoint(d)), second>> \in Seq(Event)
        /\ Len(<<Observed(n, GattEndpoint(d)), second>>) <= 3
    BY <1>4, <2>3
  <2>5. emits' \in Seq(Event) /\ reported' \in ReportedType
    BY <1>1, <1>6, <2>4, EmitType
  <2>6. QED BY <1>2, <2>1, <2>2, <2>5
<1>7. QED BY <1>5, <1>6 DEF InstallResolvedPeer

(* handle_l2cap_channel_closed preserves the types of what it changes.     *)
LEMMA ChannelClosedType ==
    ASSUME TypeOK, NEW c \in ChannelId, HandleL2capChannelClosed(c)
    PROVE  /\ sessions' \in SessionsType
           /\ channels' \in ChannelsType
           /\ emits' \in Seq(Event)
           /\ reported' \in ReportedType
<1>1. /\ sessions \in SessionsType
      /\ channels \in ChannelsType
      /\ reported \in ReportedType
  BY DEF TypeOK, SessionsType, ChannelsType, ReportedType
<1>2. channels' \in ChannelsType
  BY <1>1 DEF HandleL2capChannelClosed, ChannelsType
<1>3. CASE channels[c] = None \/ sessions[channels[c].node] = None
  <2>1. EmitNothing /\ UNCHANGED sessions
    BY <1>3 DEF HandleL2capChannelClosed
  <2>2. QED BY <1>1, <1>2, <2>1, EmitNothingType
<1>4. CASE channels[c] # None /\ sessions[channels[c].node] # None
  <2> DEFINE n == channels[c].node
             after == DowngradeL2cap(sessions[n], c)
             egress == PreferredEgress(after)
  <2>1. n \in Node
    BY <1>1, <1>4 DEF ChannelsType
  <2>2. sessions[n] \in PeerSessionsType
    BY <1>1, <1>4, <2>1 DEF SessionsType
  <2>3. after \in PeerSessionsType
    BY <2>2, DowngradeL2capFacts
  <2>4. sessions' = [sessions EXCEPT ![n] = after]
    BY <1>4 DEF HandleL2capChannelClosed
  <2>5. sessions' \in SessionsType
    BY <1>1, <2>1, <2>3, <2>4 DEF SessionsType
  <2>6. Emit(IF egress = None THEN <<>> ELSE <<Observed(n, Endpoint(egress))>>)
    BY <1>4 DEF HandleL2capChannelClosed
  <2>7. egress \in GattSession \cup L2capSession \cup {None}
    BY <2>3, EntryShape DEF PreferredEgress
  <2>8. CASE egress = None
    <3>1. EmitNothing
      BY <2>6, <2>8 DEF EmitNothing
    <3>2. QED BY <1>1, <1>2, <2>5, <3>1, EmitNothingType
  <2>9. CASE egress # None
    <3>1. Observed(n, Endpoint(egress)) \in Event
      BY <2>1, <2>7, <2>9, EventTypes
    <3>2. Emit(<<Observed(n, Endpoint(egress))>>)
      BY <2>6, <2>9
    <3>3. QED BY <1>1, <1>2, <2>5, <3>1, <3>2, EmitOneType
  <2>10. QED BY <2>8, <2>9
<1>5. QED BY <1>3, <1>4

(* An L2CAP egress found for a device names a channel id.                  *)
LEMMA L2capEgressChannel ==
    ASSUME TypeOK, NEW d \in Device, NEW s \in EgressSessionForDevice(sessions, d),
           s.kind = "l2cap"
    PROVE  s.channel \in ChannelId
<1>1. PICK n \in Node : sessions[n] # None /\ s \in EgressForDevice(sessions[n], d)
  BY DEF EgressSessionForDevice
<1>2. sessions[n] \in PeerSessionsType
  BY <1>1 DEF TypeOK
<1>3. s = sessions[n].session /\ s # None
  BY <1>1 DEF EgressForDevice, PreferredEgress
<1>4. s \notin GattSession
  BY DEF GattSession, GattCentral
<1>5. QED BY <1>2, <1>3, <1>4, EntryShape, SessionShape

(* The faults a disconnect emits are at most three events.                 *)
LEMMA FaultsType ==
    ASSUME TypeOK, NEW n \in Node, NEW d \in Device
    PROVE  /\ FaultedLinksForDevice(n, d) \in Seq(Event)
           /\ Len(FaultedLinksForDevice(n, d)) <= 3
<1>1. CASE sessions[n] = None
  BY <1>1 DEF FaultedLinksForDevice
<1>2. CASE sessions[n] # None
  <2> DEFINE eps == EndpointsForDevice(sessions[n], d)
             faults == [i \in DOMAIN eps |-> Faulted(n, eps[i])]
  <2>1. sessions[n] \in PeerSessionsType
    BY <1>2 DEF TypeOK
  <2>2. eps \in Seq(EndpointType) /\ Len(eps) <= 3
    BY <2>1, EndpointTypes
  <2> HIDE DEF eps
  <2>3. \A i \in 1 .. Len(eps) : Faulted(n, eps[i]) \in Event
    BY <2>2, EventTypes
  <2>4. DOMAIN eps = 1 .. Len(eps) /\ Len(eps) \in Nat
    BY <2>2
  <2>5. faults \in Seq(Event) /\ Len(faults) = Len(eps)
    BY <2>3, <2>4
  <2>6. FaultedLinksForDevice(n, d) = faults
    BY <1>2 DEF FaultedLinksForDevice, eps
  <2>7. QED BY <2>2, <2>5, <2>6
<1>3. QED BY <1>1, <1>2

(* handle_device_discovered preserves the type invariant.                  *)
LEMMA DiscoveredType ==
    ASSUME TypeOK, NEW d \in Device, NEW p \in Prefix, HandleDeviceDiscovered(d, p),
           restored' \in SUBSET Device
    PROVE  TypeOK'
<1>1. peers' \in [Device -> Identity]
  BY IdentityShape DEF TypeOK, HandleDeviceDiscovered, UpsertHint
<1>2. emits' \in Seq(Event) /\ reported' \in ReportedType
  BY EmitNothingType DEF TypeOK, ReportedType, HandleDeviceDiscovered
<1>3. radio' \in RadioType
  BY RadioTypes DEF HandleDeviceDiscovered
<1>4. QED
  BY <1>1, <1>2, <1>3 DEF TypeOK, ReportedType, HandleDeviceDiscovered

(* Every step of the runtime preserves the type invariant.                 *)
LEMMA TypeStep ==
    ASSUME TypeOK, Next
    PROVE  TypeOK'
<1> USE DEF SessionsType, ChannelsType, ReportedType
<1>0. reported \in ReportedType
  BY DEF TypeOK
<1>1. CASE Rehydrate
  <2>1. PICK d \in restored : HandleRestoredDevice(d)
    BY <1>1 DEF Rehydrate
  <2>2. d \in Device /\ restored' \in SUBSET Device
    BY <2>1 DEF TypeOK, HandleRestoredDevice
  <2>3. CASE \E p \in Prefix : HandleDeviceDiscovered(d, p)
    BY <2>2, <2>3, DiscoveredType
  <2>4. CASE /\ radio' = Radio("refresh", {d})
             /\ EmitNothing
             /\ UNCHANGED <<peers, sessions, channels, nextChannelId, subscribed>>
    <3>1. emits' \in Seq(Event) /\ reported' \in ReportedType
      BY <1>0, <2>4, EmitNothingType
    <3>2. radio' \in RadioType
      BY <2>2, <2>4, RadioTypes
    <3>3. QED BY <2>2, <2>4, <3>1, <3>2 DEF TypeOK
  <2>5. CASE /\ \E n \in NodeIdsServedBy(d) : /\ InstallResolvedPeer(n, d)
                                             /\ radio' = Radio("connect", {d})
             /\ UNCHANGED subscribed
    <3>1. PICK n \in Node : InstallResolvedPeer(n, d) /\ radio' = Radio("connect", {d})
      BY <2>5 DEF NodeIdsServedBy
    <3>2. radio' \in RadioType
      BY <2>2, <3>1, RadioTypes
    <3>3. QED BY <2>2, <2>5, <3>1, <3>2, InstallResolvedPeerType DEF TypeOK
  <2>6. QED BY <2>1, <2>3, <2>4, <2>5 DEF HandleRestoredDevice
<1>2. CASE HandleEvent
  <2>0. restored' = restored
    BY <1>2 DEF HandleEvent
  <2>1. ASSUME NEW d \in Device, NEW p \in Prefix, HandleDeviceDiscovered(d, p)
        PROVE  TypeOK'
    BY <2>0, <2>1, DiscoveredType DEF TypeOK
  <2>2. ASSUME NEW d \in Device, HandleDeviceConnected(d)
        PROVE  TypeOK'
    <3>1. CASE /\ radio' \in {Idle, Radio("refresh", {d})}
               /\ EmitNothing
               /\ UNCHANGED <<peers, sessions, channels, nextChannelId, subscribed>>
      <4>1. emits' \in Seq(Event) /\ reported' \in ReportedType
        BY <1>0, <3>1, EmitNothingType
      <4>2. radio' \in RadioType
        BY <3>1, RadioTypes
      <4>3. QED BY <2>0, <3>1, <4>1, <4>2 DEF TypeOK
    <3>2. CASE /\ peers' = [peers EXCEPT ![d] = Unknown]
               /\ radio' = Radio("disconnect", {d})
               /\ EmitNothing
               /\ UNCHANGED <<sessions, channels, nextChannelId, subscribed>>
      <4>1. emits' \in Seq(Event) /\ reported' \in ReportedType
        BY <1>0, <3>2, EmitNothingType
      <4>2. radio' \in RadioType
        BY <3>2, RadioTypes
      <4>3. peers' \in [Device -> Identity]
        BY <3>2, IdentityShape DEF TypeOK
      <4>4. QED BY <2>0, <3>2, <4>1, <4>2, <4>3 DEF TypeOK
    <3>3. CASE /\ \E n \in Node : InstallResolvedPeer(n, d)
               /\ radio' = Idle
               /\ UNCHANGED subscribed
      BY <2>0, <3>3, InstallResolvedPeerType, RadioTypes DEF TypeOK
    <3>4. QED BY <2>2, <3>1, <3>2, <3>3 DEF HandleDeviceConnected, NodeIdsServedBy
  <2>3. ASSUME NEW d \in Device, HandleDeviceDisconnected(d)
        PROVE  TypeOK'
    <3>1. peers' \in [Device -> Identity]
      BY <2>3, IdentityShape DEF HandleDeviceDisconnected, TypeOK
    <3>2. sessions' \in SessionsType
      BY <2>3 DEF HandleDeviceDisconnected, TypeOK
    <3>3. radio' \in RadioType
      BY <2>3, RadioTypes DEF HandleDeviceDisconnected
    <3>4. CASE EmitNothing /\ UNCHANGED channels
      BY <1>0, <2>0, <2>3, <3>1, <3>2, <3>3, <3>4, EmitNothingType
         DEF HandleDeviceDisconnected, TypeOK
    <3>5. ASSUME NEW n \in Node, Emit(FaultedLinksForDevice(n, d)),
                 channels' = DropL2capChannelsForNode(n)
          PROVE  TypeOK'
      <4>1. emits' \in Seq(Event) /\ reported' \in ReportedType
        BY <1>0, <3>5, FaultsType, EmitType
      <4>2. channels' \in ChannelsType
        BY <3>5 DEF DropL2capChannelsForNode, TypeOK
      <4>3. QED
        BY <2>0, <2>3, <3>1, <3>2, <3>3, <4>1, <4>2 DEF HandleDeviceDisconnected, TypeOK
    <3>6. QED BY <2>3, <3>4, <3>5 DEF HandleDeviceDisconnected, ResolvedNodeIdForDevice
  <2>4. ASSUME NEW d \in Device, HandleCharacteristicNotification(d) \/ HandleC2pWrite(d)
        PROVE  TypeOK'
    <3>1. radio' \in RadioType
      BY <2>4, RadioTypes DEF HandleCharacteristicNotification, HandleC2pWrite
    <3>2. emits' \in Seq(Event) /\ reported' \in ReportedType
      <4>1. CASE peers[d].kind = "resolved"
        <5>1. Payload(peers[d].of, GattEndpoint(d)) \in Event
          BY <4>1, IdentityShape, EventTypes DEF TypeOK
        <5>2. Emit(<<Payload(peers[d].of, GattEndpoint(d))>>)
          BY <2>4, <4>1 DEF HandleCharacteristicNotification, HandleC2pWrite
        <5>3. QED BY <1>0, <5>1, <5>2, EmitOneType
      <4>2. CASE peers[d].kind # "resolved"
        <5>1. EmitNothing
          BY <2>4, <4>2 DEF HandleCharacteristicNotification, HandleC2pWrite, EmitNothing
        <5>2. QED BY <1>0, <5>1, EmitNothingType
      <4>3. QED BY <4>1, <4>2
    <3>3. QED
      BY <2>0, <2>4, <3>1, <3>2 DEF HandleCharacteristicNotification, HandleC2pWrite, TypeOK
  <2>5. ASSUME NEW d \in Device, HandleP2cSubscription(d)
        PROVE  TypeOK'
    <3>1. radio' \in RadioType /\ subscribed' \in SUBSET Device
      BY <2>5, RadioTypes DEF HandleP2cSubscription, TypeOK
    <3>2. CASE EmitNothing /\ UNCHANGED sessions
      BY <1>0, <2>0, <2>5, <3>1, <3>2, EmitNothingType DEF HandleP2cSubscription, TypeOK
    <3>3. ASSUME NEW n \in Node,
                 sessions' = [sessions EXCEPT
                   ![n] = IF @ = None THEN GattNotifyFanout(d)
                          ELSE InstallGattSubscription(@, d)],
                 Emit(<<Observed(n, NotifyEndpoint)>>)
          PROVE  TypeOK'
      <4>1. emits' \in Seq(Event) /\ reported' \in ReportedType
        BY <1>0, <3>3, EventTypes, EmitOneType
      <4>2. sessions' \in SessionsType
        BY <3>3, GattConstructorFacts, SubscriptionFacts DEF TypeOK
      <4>3. QED BY <2>0, <2>5, <3>1, <4>1, <4>2 DEF HandleP2cSubscription, TypeOK
    <3>4. QED BY <2>5, <3>2, <3>3 DEF HandleP2cSubscription, ResolvedNodeIdForDevice
  <2>6. ASSUME NEW d \in Device, HandleP2cUnsubscription(d)
        PROVE  TypeOK'
    <3>1. radio' \in RadioType /\ subscribed' \in SUBSET Device
      BY <2>6, RadioTypes DEF HandleP2cUnsubscription, TypeOK
    <3>2. CASE EmitNothing /\ UNCHANGED sessions
      BY <1>0, <2>0, <2>6, <3>1, <3>2, EmitNothingType DEF HandleP2cUnsubscription, TypeOK
    <3>3. ASSUME NEW n \in Node, sessions[n] # None,
                 sessions' = [sessions EXCEPT ![n] = RemoveGattSubscription(@, d)],
                 Emit(<<Faulted(n, NotifyEndpoint)>>)
          PROVE  TypeOK'
      <4>1. emits' \in Seq(Event) /\ reported' \in ReportedType
        BY <1>0, <3>3, EventTypes, EmitOneType
      <4>2. sessions' \in SessionsType
        BY <3>3, SubscriptionFacts DEF TypeOK
      <4>3. QED BY <2>0, <2>6, <3>1, <4>1, <4>2 DEF HandleP2cUnsubscription, TypeOK
    <3>4. QED BY <2>6, <3>2, <3>3 DEF HandleP2cUnsubscription, ResolvedNodeIdForDevice
  <2>7. ASSUME NEW d \in Device, NEW n \in Node, HandleL2capAccept(d, n)
        PROVE  TypeOK'
    <3>1. radio' \in RadioType
      BY <2>7, RadioTypes DEF HandleL2capAccept
    <3>2. CASE peers[d] = Resolved(n)
      <4>1. /\ RegisterL2capChannel(n, d)
            /\ sessions' = InstallL2capSession(sessions, n, d, nextChannelId)
            /\ Emit(<<Observed(n, Endpoint(L2cap(d, nextChannelId)))>>)
        BY <2>7, <3>2 DEF HandleL2capAccept
      <4>2. /\ nextChannelId \in ChannelId
            /\ nextChannelId' \in 0 .. MaxChannels
            /\ channels' \in ChannelsType
        BY <4>1, RegisterType
      <4>3. sessions' \in SessionsType
        BY <4>1, <4>2, InstallL2capSessionFacts DEF TypeOK
      <4>4. Observed(n, Endpoint(L2cap(d, nextChannelId))) \in Event
        BY <4>2, EventTypes, SessionShape
      <4>5. emits' \in Seq(Event) /\ reported' \in ReportedType
        BY <1>0, <4>1, <4>4, EmitOneType
      <4>6. QED BY <2>0, <2>7, <3>1, <4>2, <4>3, <4>5 DEF HandleL2capAccept, TypeOK
    <3>3. CASE peers[d] # Resolved(n)
      BY <1>0, <2>0, <2>7, <3>1, <3>3, EmitNothingType DEF HandleL2capAccept, TypeOK
    <3>4. QED BY <3>2, <3>3
  <2>8. ASSUME NEW c \in ChannelId, FrameReceived(c)
        PROVE  TypeOK'
    <3>1. radio' \in RadioType
      BY <2>8, RadioTypes DEF FrameReceived
    <3>2. emits' \in Seq(Event) /\ reported' \in ReportedType
      <4>1. CASE channels[c] = None
        BY <1>0, <2>8, <4>1, EmitNothingType DEF FrameReceived, EmitNothing
      <4>2. CASE channels[c] # None
        <5> DEFINE event == Payload(channels[c].node, Endpoint(L2cap(channels[c].device, c)))
        <5>1. event \in Event
          BY <4>2, EventTypes, SessionShape DEF TypeOK
        <5>2. QED BY <1>0, <2>8, <4>2, <5>1, EmitOneType DEF FrameReceived
      <4>3. QED BY <4>1, <4>2
    <3>3. QED BY <2>0, <2>8, <3>1, <3>2 DEF FrameReceived, TypeOK
  <2>9. ASSUME NEW c \in ChannelId, ChannelClosed(c)
        PROVE  TypeOK'
    BY <2>0, <2>9, ChannelClosedType, RadioTypes DEF ChannelClosed, TypeOK
  <2>10. ASSUME NEW d \in Device, DispatchUnicast(d)
         PROVE  TypeOK'
    <3>1. radio' \in RadioType
      BY <2>10, RadioTypes DEF DispatchUnicast
    <3>2. CASE EmitNothing /\ UNCHANGED <<sessions, channels>>
      BY <1>0, <2>0, <2>10, <3>1, <3>2, EmitNothingType DEF DispatchUnicast, TypeOK
    <3>3. ASSUME NEW s \in EgressSessionForDevice(sessions, d), s.kind = "l2cap",
                 HandleL2capChannelClosed(s.channel)
          PROVE  TypeOK'
      <4>1. s.channel \in ChannelId
        BY <3>3, L2capEgressChannel
      <4>2. QED BY <2>0, <2>10, <3>1, <3>3, <4>1, ChannelClosedType DEF DispatchUnicast, TypeOK
    <3>4. QED BY <2>10, <3>2, <3>3 DEF DispatchUnicast
  <2>11. ASSUME NEW receivers \in SUBSET Node, DispatchMulticast(receivers)
         PROVE  TypeOK'
    <3>1. PICK ds \in SUBSET Device, op \in {"notify", "lost"} : radio' = Radio(op, ds)
      <4>1. CASE radio' = Radio("lost", {})
        BY <4>1
      <4>2. ASSUME NEW first \in [receivers -> Device],
                   radio' = Radio("notify", NotifiedDevices(receivers, first))
            PROVE  \E ds \in SUBSET Device, op \in {"notify", "lost"} : radio' = Radio(op, ds)
        <5>1. NotifiedDevices(receivers, first) \in SUBSET Device
          BY <4>2 DEF TypeOK, NotifiedDevices
        <5>2. QED BY <4>2, <5>1
      <4>3. QED BY <2>11, <4>1, <4>2 DEF DispatchMulticast
    <3>2. radio' \in RadioType
      BY <3>1, RadioTypes
    <3>3. QED BY <1>0, <2>0, <2>11, <3>2, EmitNothingType DEF DispatchMulticast, TypeOK
  <2>12. CASE DispatchUndeliverable
    BY <1>0, <2>0, <2>12, EmitNothingType, RadioTypes DEF DispatchUndeliverable, TypeOK
  <2>13. ASSUME NEW d \in Device, AnswerRequest(d)
         PROVE  TypeOK'
    BY <1>0, <2>0, <2>13, EmitNothingType, RadioTypes DEF AnswerRequest, TypeOK
  <2>14. QED
    BY <1>2, <2>1, <2>2, <2>3, <2>4, <2>5, <2>6, <2>7, <2>8, <2>9, <2>10, <2>11, <2>12,
       <2>13
       DEF HandleEvent, HandleCentralEvent, HandlePeripheralRequest,
           HandlePeripheralStateEvent, HandleL2capRuntimeEvent, DispatchOutboundCommand
<1>3. QED BY <1>1, <1>2 DEF Next

(* The initial state has the types of the invariant.                       *)
LEMMA InitType ==
    ASSUME Init
    PROVE  TypeOK
<1>1. radio \in RadioType
  BY RadioTypes DEF Init
<1>2. peers \in [Device -> Identity]
  BY IdentityShape DEF Init
<1>3. QED BY <1>1, <1>2, ChannelAssumption DEF Init, TypeOK

(* Every variable of the session state machine keeps its type, for every   *)
(* set of nodes and devices and every bound on channels.                   *)
THEOREM TypeCorrect == Spec => []TypeOK
<1>1. Init => TypeOK
  BY InitType
<1>2. TypeOK /\ [Next]_vars => TypeOK'
  <2>1. TypeOK /\ Next => TypeOK'
    BY TypeStep
  <2>2. TypeOK /\ UNCHANGED vars => TypeOK'
    BY DEF vars, TypeOK
  <2>3. QED BY <2>1, <2>2
<1>3. QED BY <1>1, <1>2, PTL DEF Spec

-----------------------------------------------------------------------------
(* Sessions and channels are backed by a proven identity *)

(* A device without a proven identity is referred to by no session and     *)
(* owns no channel.                                                        *)
LEMMA UnresolvedUnused ==
    ASSUME BackedInv, NEW d \in Device, peers[d].kind # "resolved"
    PROVE  /\ \A n \in Node : sessions[n] # None => ~ReferencesDevice(sessions[n], d)
           /\ \A c \in ChannelId : channels[c] # None => channels[c].device # d
<1>1. \A n \in Node : peers[d] # Resolved(n)
  BY IdentityShape
<1>2. \A c \in ChannelId : channels[c] # None => channels[c].node \in Node
  BY DEF BackedInv, TypeOK
<1>3. QED BY <1>1, <1>2 DEF BackedInv, SessionsBacked, ChannelsBacked

(* Changing the identity of an unresolved device disturbs nothing.         *)
LEMMA ForgetBacked ==
    ASSUME BackedInv, NEW d \in Device, peers[d].kind # "resolved",
           NEW identity \in Identity, peers' = [peers EXCEPT ![d] = identity],
           UNCHANGED <<sessions, channels, nextChannelId>>
    PROVE  SessionsBacked' /\ ChannelsBacked'
<1>1. \A e \in Device \ {d} : peers'[e] = peers[e]
  BY DEF BackedInv, TypeOK
<1>2. \A c \in ChannelId : channels[c] # None => channels[c].device \in Device
  BY DEF BackedInv, TypeOK
<1>3. SessionsBacked'
  BY <1>1, UnresolvedUnused DEF BackedInv, SessionsBacked
<1>4. ChannelsBacked'
  BY <1>1, <1>2, UnresolvedUnused DEF BackedInv, ChannelsBacked
<1>5. QED BY <1>3, <1>4

(* A new channel of a device that is resolved afterwards, promoted in an   *)
(* entry that refers to that device only beyond what it referred to.       *)
LEMMA PromoteBacked ==
    ASSUME BackedInv, NEW n \in Node, NEW d \in Device, NEW ss \in SessionsType,
           RegisterL2capChannel(n, d),
           sessions' = InstallL2capSession(ss, n, d, nextChannelId),
           peers' \in [Device -> Identity],
           peers'[d] = Resolved(n),
           \A e \in Device \ {d} : peers'[e] = peers[e],
           peers[d] = Resolved(n) \/ peers[d].kind # "resolved",
           \A m \in Node \ {n} : ss[m] = sessions[m],
           \A e \in Device : ss[n] # None /\ ReferencesDevice(ss[n], e)
               => e = d \/ (sessions[n] # None /\ ReferencesDevice(sessions[n], e))
    PROVE  SessionsBacked' /\ ChannelsBacked'
<1>1. nextChannelId \in ChannelId
  BY RegisterType DEF BackedInv
<1>2. /\ sessions' \in SessionsType
      /\ sessions'[n] # None
      /\ \A m \in Node \ {n} : sessions'[m] = sessions[m]
      /\ sessions'[n].session = L2cap(d, nextChannelId)
      /\ \A e \in Device : ReferencesDevice(sessions'[n], e)
           => e = d \/ (sessions[n] # None /\ ReferencesDevice(sessions[n], e))
  BY <1>1, InstallL2capSessionFacts
<1>3. ASSUME NEW m \in Node, NEW e \in Device, sessions[m] # None,
             ReferencesDevice(sessions[m], e)
      PROVE  peers'[e] = Resolved(m)
  <2>1. peers[e] = Resolved(m)
    BY <1>3 DEF BackedInv, SessionsBacked
  <2>2. CASE e # d
    BY <2>1, <2>2
  <2>3. CASE e = d
    BY <2>1, <2>3, IdentityShape
  <2>4. QED BY <2>2, <2>3
<1>4. SessionsBacked'
  BY <1>2, <1>3 DEF SessionsBacked
<1>5. /\ nextChannelId' = nextChannelId + 1
      /\ channels' = [channels EXCEPT ![nextChannelId] = [node |-> n, device |-> d]]
      /\ channels \in ChannelsType
      /\ nextChannelId \in Nat
  BY <1>1, ChannelAssumption DEF RegisterL2capChannel, BackedInv, TypeOK, ChannelsType, ChannelId
<1>6. ASSUME NEW c \in ChannelId, channels'[c] # None
      PROVE  c < nextChannelId' /\ peers'[channels'[c].device] = Resolved(channels'[c].node)
  <2>1. CASE c = nextChannelId
    BY <1>5, <2>1 DEF ChannelsType
  <2>2. CASE c # nextChannelId
    <3>1. channels'[c] = channels[c]
      BY <1>5, <2>2 DEF ChannelsType
    <3>2. /\ c < nextChannelId
          /\ peers[channels[c].device] = Resolved(channels[c].node)
          /\ channels[c].device \in Device
          /\ channels[c].node \in Node
      BY <1>5, <1>6, <3>1 DEF BackedInv, ChannelsBacked, ChannelsType
    <3>3. c < nextChannelId'
      BY <1>1, <1>5, <3>2 DEF ChannelId
    <3>4. peers'[channels[c].device] = Resolved(channels[c].node)
      BY <3>2, IdentityShape
    <3>5. QED BY <3>1, <3>3, <3>4
  <2>3. QED BY <2>1, <2>2
<1>7. ASSUME NEW m \in Node, sessions'[m] # None, sessions'[m].mode = "l2cap"
      PROVE  LET c == sessions'[m].session.channel
             IN  /\ c < nextChannelId'
                 /\ channels'[c] # None =>
                      channels'[c] = [node |-> m, device |-> sessions'[m].session.device]
  <2>1. CASE m = n
    <3>1. sessions'[m].session.channel = nextChannelId /\ sessions'[m].session.device = d
      BY <1>1, <1>2, <2>1, SessionShape
    <3>2. QED BY <1>1, <1>5, <2>1, <3>1 DEF ChannelsType
  <2>2. CASE m # n
    <3>1. sessions'[m] = sessions[m]
      BY <1>2, <2>2
    <3>2. sessions[m].session.channel \in ChannelId
      BY <1>7, <3>1, EntryShape, SessionShape DEF BackedInv, TypeOK
    <3>3. /\ sessions[m].session.channel < nextChannelId
          /\ channels[sessions[m].session.channel] # None =>
               channels[sessions[m].session.channel]
                 = [node |-> m, device |-> sessions[m].session.device]
      BY <1>7, <3>1 DEF BackedInv, ChannelsBacked
    <3>4. /\ sessions[m].session.channel < nextChannelId'
          /\ channels'[sessions[m].session.channel] = channels[sessions[m].session.channel]
      BY <1>1, <1>5, <3>2, <3>3 DEF ChannelId, ChannelsType
    <3>5. QED BY <3>1, <3>3, <3>4
  <2>3. QED BY <2>1, <2>2
<1>8. ChannelsBacked'
  BY <1>6, <1>7 DEF ChannelsBacked
<1>9. QED BY <1>4, <1>8

(* Sessions that change without touching channels or the preferred channel *)
(* of an entry, and that refer only to devices resolved afterwards.        *)
LEMMA EntryBacked ==
    ASSUME BackedInv, NEW n \in Node, sessions' \in SessionsType,
           \A m \in Node \ {n} : sessions'[m] = sessions[m],
           sessions'[n] # None /\ sessions'[n].mode = "l2cap" =>
             /\ sessions[n] # None
             /\ sessions[n].mode = "l2cap"
             /\ sessions'[n].session = sessions[n].session,
           \A m \in Node, e \in Device :
             sessions'[m] # None /\ ReferencesDevice(sessions'[m], e)
               => peers'[e] = Resolved(m),
           \A c \in ChannelId : channels[c] # None =>
               peers'[channels[c].device] = Resolved(channels[c].node),
           UNCHANGED <<channels, nextChannelId>>
    PROVE  SessionsBacked' /\ ChannelsBacked'
<1>1. SessionsBacked'
  BY DEF SessionsBacked
<1>2. ASSUME NEW m \in Node, sessions'[m] # None, sessions'[m].mode = "l2cap"
      PROVE  /\ sessions[m] # None
             /\ sessions[m].mode = "l2cap"
             /\ sessions'[m].session = sessions[m].session
  BY <1>2
<1>3. ChannelsBacked'
  BY <1>2 DEF BackedInv, ChannelsBacked
<1>4. QED BY <1>1, <1>3

(* install_resolved_peer on a device that was not resolved keeps sessions  *)
(* and channels backed by proven identities.                               *)
LEMMA InstallResolvedPeerBacked ==
    ASSUME BackedInv, NEW n \in Node, NEW d \in Device, InstallResolvedPeer(n, d),
           peers[d].kind # "resolved"
    PROVE  SessionsBacked' /\ ChannelsBacked'
<1> DEFINE gatt == InstallGattSession(sessions, n, d)
<1>1. sessions \in SessionsType /\ peers \in [Device -> Identity]
  BY DEF BackedInv, TypeOK, SessionsType
<1>2. /\ gatt \in SessionsType
      /\ gatt[n] # None
      /\ \A m \in Node \ {n} : gatt[m] = sessions[m]
      /\ \A e \in Device : ReferencesDevice(gatt[n], e) =>
           e = d \/ (sessions[n] # None /\ ReferencesDevice(sessions[n], e))
      /\ gatt[n].mode = "l2cap" => /\ sessions[n] # None
                                   /\ sessions[n].mode = "l2cap"
                                   /\ gatt[n].session = sessions[n].session
  BY <1>1, InstallGattSessionFacts
<1>3. /\ peers' \in [Device -> Identity]
      /\ peers'[d] = Resolved(n)
      /\ \A e \in Device \ {d} : peers'[e] = peers[e]
  BY <1>1, IdentityShape DEF InstallResolvedPeer
<1> HIDE DEF gatt
<1>4. CASE sessions' = gatt /\ UNCHANGED <<channels, nextChannelId>>
  <2>1. ASSUME NEW m \in Node, NEW e \in Device, sessions'[m] # None,
               ReferencesDevice(sessions'[m], e)
        PROVE  peers'[e] = Resolved(m)
    <3>1. CASE m = n /\ e = d
      BY <1>3, <3>1
    <3>2. CASE ~(m = n /\ e = d)
      <4>1. sessions[m] # None /\ ReferencesDevice(sessions[m], e)
        BY <1>2, <1>4, <2>1, <3>2
      <4>2. peers[e] = Resolved(m) /\ e # d
        BY <4>1, UnresolvedUnused DEF BackedInv, SessionsBacked
      <4>3. QED BY <1>3, <4>2
    <3>3. QED BY <3>1, <3>2
  <2>2. ASSUME NEW c \in ChannelId, channels[c] # None
        PROVE  peers'[channels[c].device] = Resolved(channels[c].node)
    <3>1. channels[c].device \in Device /\ channels[c].device # d
      BY <2>2, UnresolvedUnused DEF BackedInv, TypeOK
    <3>2. QED BY <1>3, <2>2, <3>1 DEF BackedInv, ChannelsBacked
  <2>3. QED BY <1>2, <1>4, <2>1, <2>2, EntryBacked
<1>5. CASE /\ RegisterL2capChannel(n, d)
           /\ sessions' = InstallL2capSession(gatt, n, d, nextChannelId)
  BY <1>2, <1>3, <1>5, PromoteBacked
<1>6. QED BY <1>4, <1>5 DEF InstallResolvedPeer, gatt

(* Closing a channel, known or not, keeps sessions and channels backed.    *)
LEMMA ChannelClosedBacked ==
    ASSUME BackedInv, NEW c \in ChannelId, HandleL2capChannelClosed(c),
           UNCHANGED <<peers, nextChannelId>>
    PROVE  SessionsBacked' /\ ChannelsBacked'
<1>1. /\ channels \in ChannelsType
      /\ sessions \in SessionsType
      /\ channels' = [channels EXCEPT ![c] = None]
  BY DEF BackedInv, TypeOK, ChannelsType, SessionsType, HandleL2capChannelClosed
<1>2. \A b \in ChannelId : channels'[b] # None => channels'[b] = channels[b]
  BY <1>1 DEF ChannelsType
<1>3. ASSUME NEW m \in Node, sessions'[m] # None
      PROVE  /\ sessions[m] # None
             /\ \A e \in Device : ReferencesDevice(sessions'[m], e)
                                    => ReferencesDevice(sessions[m], e)
             /\ sessions'[m].mode = "l2cap" => sessions'[m] = sessions[m]
  <2>1. CASE channels[c] = None \/ sessions[channels[c].node] = None
    BY <1>3, <2>1 DEF HandleL2capChannelClosed
  <2>2. CASE channels[c] # None /\ sessions[channels[c].node] # None
    <3> DEFINE n == channels[c].node
    <3>1. n \in Node /\ sessions[n] \in PeerSessionsType
      BY <1>1, <2>2 DEF ChannelsType, SessionsType
    <3>2. sessions' = [sessions EXCEPT ![n] = DowngradeL2cap(sessions[n], c)]
      BY <2>2 DEF HandleL2capChannelClosed
    <3>3. CASE m = n
      BY <1>1, <2>2, <3>1, <3>2, <3>3, DowngradeL2capFacts DEF SessionsType
    <3>4. CASE m # n
      <4>1. sessions'[m] = sessions[m]
        BY <1>1, <3>2, <3>4 DEF SessionsType
      <4>2. QED BY <1>3, <4>1
    <3>5. QED BY <3>3, <3>4
  <2>3. QED BY <2>1, <2>2
<1>4. SessionsBacked'
  BY <1>3 DEF BackedInv, SessionsBacked
<1>5. ASSUME NEW m \in Node, sessions'[m] # None, sessions'[m].mode = "l2cap"
      PROVE  LET b == sessions'[m].session.channel
             IN  /\ b < nextChannelId'
                 /\ channels'[b] # None =>
                      channels'[b] = [node |-> m, device |-> sessions'[m].session.device]
  <2>1. sessions'[m] = sessions[m] /\ sessions[m] \in PeerSessionsType
    BY <1>1, <1>3, <1>5 DEF SessionsType
  <2>2. sessions[m].session.channel \in ChannelId
    BY <1>5, <2>1, EntryShape, SessionShape
  <2>3. QED BY <1>2, <1>5, <2>1, <2>2 DEF BackedInv, ChannelsBacked
<1>6. ChannelsBacked'
  BY <1>2, <1>5 DEF BackedInv, ChannelsBacked
<1>7. QED BY <1>4, <1>6

(* A disconnect forgets the identity of the device together with every     *)
(* session and channel that rests on it.                                   *)
LEMMA DisconnectedBacked ==
    ASSUME BackedInv, NEW d \in Device, HandleDeviceDisconnected(d)
    PROVE  SessionsBacked' /\ ChannelsBacked'
<1>1. \A e \in Device \ {d} : peers'[e] = peers[e]
  BY DEF HandleDeviceDisconnected, BackedInv, TypeOK
<1>2. \A m \in Node : sessions'[m] # None =>
         sessions'[m] = sessions[m] /\ ~ReferencesDevice(sessions[m], d)
  BY DEF HandleDeviceDisconnected
<1>3. SessionsBacked'
  BY <1>1, <1>2 DEF BackedInv, SessionsBacked
<1>4. ASSUME NEW c \in ChannelId, channels'[c] # None
      PROVE  channels'[c] = channels[c] /\ channels[c].device \in Device \ {d}
  <2>1. CASE peers[d].kind # "resolved"
    <3>1. channels' = channels
      BY <2>1, IdentityShape DEF HandleDeviceDisconnected, ResolvedNodeIdForDevice
    <3>2. QED BY <1>4, <2>1, <3>1, UnresolvedUnused DEF BackedInv, TypeOK
  <2>2. CASE peers[d].kind = "resolved"
    <3>1. PICK n \in Node : /\ peers[d] = Resolved(n)
                            /\ channels' = DropL2capChannelsForNode(n)
      BY <2>2 DEF HandleDeviceDisconnected, ResolvedNodeIdForDevice
    <3>2. /\ channels'[c] = channels[c]
          /\ channels[c].node # n
          /\ channels[c].node \in Node
          /\ channels[c].device \in Device
      BY <1>4, <3>1 DEF DropL2capChannelsForNode, BackedInv, TypeOK
    <3>3. peers[channels[c].device] = Resolved(channels[c].node)
      BY <1>4, <3>2 DEF BackedInv, ChannelsBacked
    <3>4. QED BY <3>1, <3>2, <3>3, IdentityShape
  <2>3. QED BY <2>1, <2>2
<1>5. nextChannelId' = nextChannelId
  BY DEF HandleDeviceDisconnected
<1>6. ASSUME NEW m \in Node, sessions'[m] # None, sessions'[m].mode = "l2cap"
      PROVE  LET b == sessions'[m].session.channel
             IN  /\ b < nextChannelId'
                 /\ channels'[b] # None =>
                      channels'[b] = [node |-> m, device |-> sessions'[m].session.device]
  <2>1. sessions'[m] = sessions[m] /\ sessions[m] \in PeerSessionsType
    BY <1>2, <1>6 DEF BackedInv, TypeOK
  <2>2. sessions[m].session.channel \in ChannelId
    BY <1>6, <2>1, EntryShape, SessionShape
  <2>3. QED BY <1>4, <1>5, <1>6, <2>1, <2>2 DEF BackedInv, ChannelsBacked
<1>7. ChannelsBacked'
  BY <1>1, <1>4, <1>5, <1>6 DEF BackedInv, ChannelsBacked
<1>8. QED BY <1>3, <1>7

(* A hint that does not overwrite a proven identity keeps sessions and     *)
(* channels backed.                                                        *)
LEMMA DiscoveredBacked ==
    ASSUME BackedInv, ~HintReplacesResolved, NEW d \in Device, NEW p \in Prefix,
           HandleDeviceDiscovered(d, p)
    PROVE  SessionsBacked' /\ ChannelsBacked'
<1>1. UNCHANGED <<sessions, channels, nextChannelId>>
  BY DEF HandleDeviceDiscovered
<1>2. CASE peers[d].kind = "resolved"
  <2>1. peers' = peers
    BY <1>2 DEF HandleDeviceDiscovered, UpsertHint
  <2>2. QED BY <1>1, <2>1 DEF BackedInv, SessionsBacked, ChannelsBacked
<1>3. CASE peers[d].kind # "resolved"
  <2>1. peers' = [peers EXCEPT ![d] = Hint(p)]
    BY <1>3 DEF HandleDeviceDiscovered, UpsertHint
  <2>2. QED BY <1>1, <1>3, <2>1, ForgetBacked, IdentityShape
<1>4. QED BY <1>2, <1>3

(* Subscribing and unsubscribing keep sessions and channels backed.        *)
LEMMA SubscriptionBacked ==
    ASSUME BackedInv, NEW d \in Device,
           HandleP2cSubscription(d) \/ HandleP2cUnsubscription(d)
    PROVE  SessionsBacked' /\ ChannelsBacked'
<1>1. UNCHANGED <<peers, channels, nextChannelId>>
  BY DEF HandleP2cSubscription, HandleP2cUnsubscription
<1>2. CASE UNCHANGED sessions
  BY <1>1, <1>2 DEF BackedInv, SessionsBacked, ChannelsBacked
<1>3. ASSUME NEW n \in Node, NEW entry \in PeerSessionsType, peers[d] = Resolved(n),
             sessions' = [sessions EXCEPT ![n] = entry],
             entry.mode = "l2cap" => /\ sessions[n] # None
                                     /\ sessions[n].mode = "l2cap"
                                     /\ entry.session = sessions[n].session,
             \A e \in Device : ReferencesDevice(entry, e) =>
               e = d \/ (sessions[n] # None /\ ReferencesDevice(sessions[n], e))
      PROVE  SessionsBacked' /\ ChannelsBacked'
  <2>1. /\ sessions' \in SessionsType
        /\ sessions'[n] = entry
        /\ \A m \in Node \ {n} : sessions'[m] = sessions[m]
    BY <1>3 DEF BackedInv, TypeOK, SessionsType
  <2>2. \A m \in Node, e \in Device :
          sessions'[m] # None /\ ReferencesDevice(sessions'[m], e)
            => peers'[e] = Resolved(m)
    BY <1>1, <1>3, <2>1 DEF BackedInv, SessionsBacked
  <2>3. \A c \in ChannelId : channels[c] # None =>
          peers'[channels[c].device] = Resolved(channels[c].node)
    BY <1>1 DEF BackedInv, ChannelsBacked
  <2>4. QED BY <1>1, <1>3, <2>1, <2>2, <2>3, EntryBacked
<1>4. ASSUME NEW n \in Node, peers[d] = Resolved(n), sessions[n] = None,
             sessions' = [sessions EXCEPT ![n] = GattNotifyFanout(d)]
      PROVE  SessionsBacked' /\ ChannelsBacked'
  BY <1>3, <1>4, GattConstructorFacts
<1>5. ASSUME NEW n \in Node, peers[d] = Resolved(n), sessions[n] # None,
             \/ sessions' = [sessions EXCEPT ![n] = InstallGattSubscription(sessions[n], d)]
             \/ sessions' = [sessions EXCEPT ![n] = RemoveGattSubscription(sessions[n], d)]
      PROVE  SessionsBacked' /\ ChannelsBacked'
  <2>1. sessions[n] \in PeerSessionsType
    BY <1>5 DEF BackedInv, TypeOK
  <2>2. ASSUME NEW entry,
               \/ entry = InstallGattSubscription(sessions[n], d)
               \/ entry = RemoveGattSubscription(sessions[n], d)
        PROVE  /\ entry \in PeerSessionsType
               /\ entry.mode = sessions[n].mode
               /\ entry.session = sessions[n].session
               /\ \A e \in Device : ReferencesDevice(entry, e) =>
                    e = d \/ ReferencesDevice(sessions[n], e)
    BY <2>1, <2>2, SubscriptionFacts
  <2>3. PICK entry : /\ \/ entry = InstallGattSubscription(sessions[n], d)
                        \/ entry = RemoveGattSubscription(sessions[n], d)
                     /\ sessions' = [sessions EXCEPT ![n] = entry]
    BY <1>5
  <2>4. QED BY <1>3, <1>5, <2>2, <2>3
<1>6. QED
  BY <1>2, <1>4, <1>5
     DEF HandleP2cSubscription, HandleP2cUnsubscription, ResolvedNodeIdForDevice

(* Every step of the runtime preserves the inductive invariant.            *)
LEMMA BackedStep ==
    ASSUME BackedInv, ~HintReplacesResolved, Next
    PROVE  BackedInv'
<1>1. TypeOK'
  BY TypeStep DEF BackedInv
<1>2. CASE Rehydrate
  <2>1. PICK d \in restored : HandleRestoredDevice(d)
    BY <1>2 DEF Rehydrate
  <2>2. /\ d \in Device
        /\ peers[d].kind # "resolved"
        /\ restored' = restored \ {d}
    BY <2>1, IdentityShape DEF BackedInv, TypeOK, RestoredUnknown, HandleRestoredDevice, Unknown
  <2>3. \A e \in Device \ {d} : peers'[e] = peers[e]
    BY <2>1 DEF HandleRestoredDevice, HandleDeviceDiscovered, UpsertHint,
                InstallResolvedPeer, BackedInv, TypeOK
  <2>4. RestoredUnknown'
    BY <2>2, <2>3 DEF BackedInv, TypeOK, RestoredUnknown
  <2>5. SessionsBacked' /\ ChannelsBacked'
    <3>1. CASE \E p \in Prefix : HandleDeviceDiscovered(d, p)
      BY <2>2, <3>1, DiscoveredBacked
    <3>2. CASE UNCHANGED <<peers, sessions, channels, nextChannelId>>
      BY <3>2 DEF BackedInv, SessionsBacked, ChannelsBacked
    <3>3. CASE \E n \in Node : InstallResolvedPeer(n, d)
      BY <2>2, <3>3, InstallResolvedPeerBacked
    <3>4. QED BY <2>1, <3>1, <3>2, <3>3 DEF HandleRestoredDevice, NodeIdsServedBy
  <2>6. QED BY <1>1, <2>4, <2>5 DEF BackedInv
<1>3. CASE HandleEvent
  <2>1. restored' = {}
    BY <1>3 DEF HandleEvent
  <2>2. RestoredUnknown'
    BY <2>1 DEF RestoredUnknown
  <2>3. ASSUME UNCHANGED <<peers, sessions, channels, nextChannelId>>
        PROVE  SessionsBacked' /\ ChannelsBacked'
    BY <2>3 DEF BackedInv, SessionsBacked, ChannelsBacked
  <2>4. ASSUME NEW d \in Device, HandleDeviceConnected(d)
        PROVE  SessionsBacked' /\ ChannelsBacked'
    <3>1. CASE UNCHANGED <<peers, sessions, channels, nextChannelId>>
      BY <2>3, <3>1
    <3>2. CASE /\ peers[d].kind = "hint"
               /\ peers' = [peers EXCEPT ![d] = Unknown]
               /\ UNCHANGED <<sessions, channels, nextChannelId>>
      BY <3>2, ForgetBacked, IdentityShape
    <3>3. ASSUME NEW n \in Node, peers[d] = Hint(PrefixOf[n]), InstallResolvedPeer(n, d)
          PROVE  SessionsBacked' /\ ChannelsBacked'
      <4>1. peers[d].kind # "resolved"
        BY <3>3 DEF Hint
      <4>2. QED BY <3>3, <4>1, InstallResolvedPeerBacked
    <3>4. QED BY <2>4, <3>1, <3>2, <3>3 DEF HandleDeviceConnected, NodeIdsServedBy
  <2>5. ASSUME NEW d \in Device, NEW n \in Node, HandleL2capAccept(d, n)
        PROVE  SessionsBacked' /\ ChannelsBacked'
    <3>1. CASE peers[d] # Resolved(n)
      BY <2>3, <2>5, <3>1 DEF HandleL2capAccept
    <3>2. CASE peers[d] = Resolved(n)
      <4>1. /\ RegisterL2capChannel(n, d)
            /\ sessions' = InstallL2capSession(sessions, n, d, nextChannelId)
            /\ peers' = peers
        BY <2>5, <3>2 DEF HandleL2capAccept
      <4>2. sessions \in SessionsType /\ peers \in [Device -> Identity]
        BY DEF BackedInv, TypeOK, SessionsType
      <4>3. QED BY <3>2, <4>1, <4>2, PromoteBacked
    <3>3. QED BY <3>1, <3>2
  <2>6. ASSUME NEW d \in Device, DispatchUnicast(d)
        PROVE  SessionsBacked' /\ ChannelsBacked'
    <3>1. CASE UNCHANGED <<sessions, channels>>
      BY <2>3, <2>6, <3>1 DEF DispatchUnicast
    <3>2. ASSUME NEW s \in EgressSessionForDevice(sessions, d), s.kind = "l2cap",
                 HandleL2capChannelClosed(s.channel)
          PROVE  SessionsBacked' /\ ChannelsBacked'
      <4>1. s.channel \in ChannelId
        BY <3>2, L2capEgressChannel DEF BackedInv
      <4>2. QED BY <2>6, <3>2, <4>1, ChannelClosedBacked DEF DispatchUnicast
    <3>3. QED BY <2>6, <3>1, <3>2 DEF DispatchUnicast
  <2>7. SessionsBacked' /\ ChannelsBacked'
    <3>1. CASE \E d \in Device, p \in Prefix : HandleDeviceDiscovered(d, p)
      BY <3>1, DiscoveredBacked
    <3>2. CASE \E d \in Device : HandleDeviceConnected(d)
      BY <2>4, <3>2
    <3>3. CASE \E d \in Device : HandleDeviceDisconnected(d)
      BY <3>3, DisconnectedBacked
    <3>4. CASE \E d \in Device : \/ HandleCharacteristicNotification(d)
                                \/ HandleC2pWrite(d) \/ AnswerRequest(d)
      BY <2>3, <3>4 DEF HandleCharacteristicNotification, HandleC2pWrite, AnswerRequest
    <3>5. CASE \E d \in Device : HandleP2cSubscription(d) \/ HandleP2cUnsubscription(d)
      <4>1. PICK d \in Device : HandleP2cSubscription(d) \/ HandleP2cUnsubscription(d)
        BY <3>5
      <4>2. QED BY <4>1, SubscriptionBacked
    <3>6. CASE \E d \in Device, n \in Node : HandleL2capAccept(d, n)
      BY <2>5, <3>6
    <3>7. CASE \E c \in ChannelId : FrameReceived(c)
      BY <2>3, <3>7 DEF FrameReceived
    <3>8. CASE \E c \in ChannelId : ChannelClosed(c)
      BY <3>8, ChannelClosedBacked DEF ChannelClosed
    <3>9. CASE \E d \in Device : DispatchUnicast(d)
      BY <2>6, <3>9
    <3>10. CASE \/ \E receivers \in SUBSET Node : DispatchMulticast(receivers)
                \/ DispatchUndeliverable
      BY <2>3, <3>10 DEF DispatchMulticast, DispatchUndeliverable
    <3>11. QED
      BY <1>3, <3>1, <3>2, <3>3, <3>4, <3>5, <3>6, <3>7, <3>8, <3>9, <3>10
         DEF HandleEvent, HandleCentralEvent, HandlePeripheralRequest,
           HandlePeripheralStateEvent, HandleL2capRuntimeEvent, DispatchOutboundCommand
  <2>8. QED BY <1>1, <2>2, <2>7 DEF BackedInv
<1>4. QED BY <1>2, <1>3 DEF Next

(* If a hint never overwrites a proven identity, the inductive invariant   *)
(* holds in every behaviour, with or without device rotation.              *)
THEOREM BackedInvariant ==
    ASSUME ~HintReplacesResolved
    PROVE  Spec => []BackedInv
<1>1. Init => BackedInv
  <2> SUFFICES ASSUME Init PROVE BackedInv
    OBVIOUS
  <2>1. TypeOK
    <3>1. radio \in RadioType
      BY RadioTypes DEF Init
    <3>2. peers \in [Device -> Identity]
      BY IdentityShape DEF Init
    <3>3. QED BY <3>1, <3>2, ChannelAssumption DEF Init, TypeOK
  <2>2. QED BY <2>1 DEF Init, BackedInv, SessionsBacked, ChannelsBacked, RestoredUnknown
<1>2. BackedInv /\ [Next]_vars => BackedInv'
  <2>1. BackedInv /\ Next => BackedInv'
    BY BackedStep
  <2>2. BackedInv /\ UNCHANGED vars => BackedInv'
    BY DEF vars, BackedInv, TypeOK, SessionsBacked, ChannelsBacked, RestoredUnknown
  <2>3. QED BY <2>1, <2>2
<1>3. QED BY <1>1, <1>2, PTL DEF Spec

(* No session refers to a device whose identity is not proven to be its    *)
(* peer: handle_device_disconnected and the hint check keep the table and  *)
(* the directory together.                                                 *)
THEOREM SessionsAreBacked ==
    ASSUME ~HintReplacesResolved
    PROVE  Spec => []SessionsBacked
<1>1. BackedInv => SessionsBacked
  BY DEF BackedInv
<1>2. QED BY <1>1, BackedInvariant, PTL

(* Every live channel belongs to a proven identity and no session names    *)
(* the channel of another peer.                                            *)
THEOREM ChannelsAreBacked ==
    ASSUME ~HintReplacesResolved
    PROVE  Spec => []ChannelsBacked
<1>1. BackedInv => ChannelsBacked
  BY DEF BackedInv
<1>2. QED BY <1>1, BackedInvariant, PTL

(* egress_session_for_device has at most one peer to find.                 *)
THEOREM EgressIsUnique ==
    ASSUME ~HintReplacesResolved
    PROVE  Spec => []UniqueEgress
<1>1. BackedInv => UniqueEgress
  <2> SUFFICES ASSUME BackedInv, NEW d \in Device, NEW n \in Answering(d), NEW m \in Answering(d)
               PROVE  n = m
    BY DEF UniqueEgress
  <2>1. ASSUME NEW p \in Answering(d)
        PROVE  p \in Node /\ sessions[p] # None /\ ReferencesDevice(sessions[p], d)
    BY DEF Answering, EgressForDevice, PreferredEgress, ReferencesDevice, IterSessions
  <2>2. QED BY <2>1, IdentityShape DEF BackedInv, SessionsBacked
<1>2. QED BY <1>1, BackedInvariant, PTL

-----------------------------------------------------------------------------
(* What is handed to the router is attributed to a proven identity *)

(* Every step from a state of the inductive invariant emits only events    *)
(* that are attributed to a proven identity.                               *)
LEMMA EmitsStep ==
    ASSUME BackedInv, ~HintReplacesResolved, Next
    PROVE  EmitsBacked'
<1> DEFINE Backed(event) == event.type # "faulted" /\ event.endpoint # NotifyEndpoint
                              => peers'[event.endpoint.device] = Resolved(event.node)
<1>1. ASSUME EmitNothing PROVE EmitsBacked'
  BY <1>1 DEF EmitNothing, Emit, EmitsBacked
<1>2. ASSUME NEW event, Emit(<<event>>), Backed(event) PROVE EmitsBacked'
  <2>1. emits' = <<event>>
    BY <1>2 DEF Emit
  <2>2. QED BY <1>2, <2>1 DEF EmitsBacked
<1>3. ASSUME NEW d \in Device, NEW n \in Node, peers'[d] = Resolved(n)
      PROVE  /\ Backed(Observed(n, GattEndpoint(d)))
             /\ Backed(Payload(n, GattEndpoint(d)))
             /\ \A c \in ChannelId : /\ Backed(Observed(n, Endpoint(L2cap(d, c))))
                                     /\ Backed(Payload(n, Endpoint(L2cap(d, c))))
  BY <1>3 DEF Observed, Payload, GattEndpoint, Endpoint, GattCentral, L2cap
<1>4. ASSUME NEW d \in Device, NEW n \in Node, InstallResolvedPeer(n, d)
      PROVE  EmitsBacked'
  <2>1. peers'[d] = Resolved(n)
    BY <1>4 DEF InstallResolvedPeer, BackedInv, TypeOK
  <2>2. CASE Emit(<<Observed(n, GattEndpoint(d))>>)
    BY <1>2, <1>3, <2>1, <2>2
  <2>3. CASE /\ RegisterL2capChannel(n, d)
             /\ Emit(<<Observed(n, GattEndpoint(d)),
                       Observed(n, Endpoint(L2cap(d, nextChannelId)))>>)
    <3>1. nextChannelId \in ChannelId
      BY <2>3, RegisterType DEF BackedInv
    <3>2. /\ Backed(Observed(n, GattEndpoint(d)))
          /\ Backed(Observed(n, Endpoint(L2cap(d, nextChannelId))))
      BY <1>3, <2>1, <3>1
    <3>3. emits' = <<Observed(n, GattEndpoint(d)),
                     Observed(n, Endpoint(L2cap(d, nextChannelId)))>>
      BY <2>3 DEF Emit
    <3>4. QED BY <3>2, <3>3 DEF EmitsBacked
  <2>4. QED BY <1>4, <2>2, <2>3 DEF InstallResolvedPeer
<1>5. ASSUME NEW c \in ChannelId, HandleL2capChannelClosed(c),
             UNCHANGED <<peers, nextChannelId>>
      PROVE  EmitsBacked'
  <2>1. CASE channels[c] = None \/ sessions[channels[c].node] = None
    BY <1>1, <1>5, <2>1 DEF HandleL2capChannelClosed
  <2>2. CASE channels[c] # None /\ sessions[channels[c].node] # None
    <3> DEFINE n == channels[c].node
               after == DowngradeL2cap(sessions[n], c)
               egress == PreferredEgress(after)
    <3>1. n \in Node /\ sessions[n] \in PeerSessionsType
      BY <2>2 DEF BackedInv, TypeOK
    <3>2. /\ after \in PeerSessionsType
          /\ \A e \in Device : ReferencesDevice(after, e) => ReferencesDevice(sessions[n], e)
      BY <3>1, DowngradeL2capFacts
    <3>3. Emit(IF egress = None THEN <<>> ELSE <<Observed(n, Endpoint(egress))>>)
      BY <1>5, <2>2 DEF HandleL2capChannelClosed
    <3>4. CASE egress = None
      BY <1>1, <3>3, <3>4 DEF EmitNothing
    <3>5. CASE egress # None
      <4>1. egress.device \in Device
        BY <3>2, <3>5, EntryShape, SessionShape DEF PreferredEgress
      <4>2. ReferencesDevice(after, egress.device)
        BY <3>5 DEF PreferredEgress, ReferencesDevice, IterSessions
      <4>3. peers'[egress.device] = Resolved(n)
        BY <1>5, <2>2, <3>1, <3>2, <4>1, <4>2 DEF BackedInv, SessionsBacked
      <4>4. Backed(Observed(n, Endpoint(egress)))
        BY <4>3 DEF Observed, Endpoint
      <4>5. QED BY <1>2, <3>3, <3>5, <4>4
    <3>6. QED BY <3>4, <3>5
  <2>3. QED BY <2>1, <2>2
<1>6. CASE Rehydrate
  <2>1. PICK d \in restored : HandleRestoredDevice(d)
    BY <1>6 DEF Rehydrate
  <2>2. d \in Device
    BY <2>1 DEF BackedInv, TypeOK
  <2>3. QED
    BY <1>1, <1>4, <2>1, <2>2 DEF HandleRestoredDevice, HandleDeviceDiscovered, NodeIdsServedBy
<1>7. CASE HandleEvent
  <2>1. CASE \E d \in Device, p \in Prefix : HandleDeviceDiscovered(d, p)
    BY <1>1, <2>1 DEF HandleDeviceDiscovered
  <2>2. CASE \E d \in Device : HandleDeviceConnected(d)
    BY <1>1, <1>4, <2>2 DEF HandleDeviceConnected, NodeIdsServedBy
  <2>3. ASSUME NEW d \in Device, HandleDeviceDisconnected(d)
        PROVE  EmitsBacked'
    <3>1. CASE EmitNothing
      BY <1>1, <3>1
    <3>2. ASSUME NEW n \in Node, Emit(FaultedLinksForDevice(n, d))
          PROVE  EmitsBacked'
      <4>1. emits' = FaultedLinksForDevice(n, d)
        BY <3>2 DEF Emit
      <4>2. \A i \in DOMAIN FaultedLinksForDevice(n, d) :
              FaultedLinksForDevice(n, d)[i].type = "faulted"
        BY DEF FaultedLinksForDevice, Faulted
      <4>3. QED BY <4>1, <4>2 DEF EmitsBacked
    <3>3. QED BY <2>3, <3>1, <3>2 DEF HandleDeviceDisconnected, ResolvedNodeIdForDevice
  <2>4. ASSUME NEW d \in Device, HandleCharacteristicNotification(d) \/ HandleC2pWrite(d)
        PROVE  EmitsBacked'
    <3>1. peers' = peers /\ peers[d] \in Identity
      BY <2>4 DEF HandleCharacteristicNotification, HandleC2pWrite, BackedInv, TypeOK
    <3>2. CASE peers[d].kind = "resolved"
      <4>1. Emit(<<Payload(peers[d].of, GattEndpoint(d))>>)
        BY <2>4, <3>2 DEF HandleCharacteristicNotification, HandleC2pWrite
      <4>2. peers[d].of \in Node /\ peers'[d] = Resolved(peers[d].of)
        BY <3>1, <3>2, IdentityShape
      <4>3. QED BY <1>2, <1>3, <4>1, <4>2
    <3>3. CASE peers[d].kind # "resolved"
      BY <1>1, <2>4, <3>3 DEF HandleCharacteristicNotification, HandleC2pWrite, EmitNothing
    <3>4. QED BY <3>2, <3>3
  <2>5. ASSUME NEW d \in Device, HandleP2cSubscription(d) \/ HandleP2cUnsubscription(d)
        PROVE  EmitsBacked'
    <3>1. \A n \in Node : Backed(Observed(n, NotifyEndpoint)) /\ Backed(Faulted(n, NotifyEndpoint))
      BY DEF Observed, Faulted
    <3>2. QED
      BY <1>1, <1>2, <2>5, <3>1
         DEF HandleP2cSubscription, HandleP2cUnsubscription, ResolvedNodeIdForDevice
  <2>6. ASSUME NEW d \in Device, NEW n \in Node, HandleL2capAccept(d, n)
        PROVE  EmitsBacked'
    <3>1. CASE peers[d] = Resolved(n)
      <4>1. nextChannelId \in ChannelId
        BY <2>6, <3>1, RegisterType DEF HandleL2capAccept, BackedInv
      <4>2. peers'[d] = Resolved(n) /\ Emit(<<Observed(n, Endpoint(L2cap(d, nextChannelId)))>>)
        BY <2>6, <3>1 DEF HandleL2capAccept
      <4>3. QED BY <1>2, <1>3, <4>1, <4>2
    <3>2. CASE peers[d] # Resolved(n)
      BY <1>1, <2>6, <3>2 DEF HandleL2capAccept
    <3>3. QED BY <3>1, <3>2
  <2>7. ASSUME NEW c \in ChannelId, FrameReceived(c)
        PROVE  EmitsBacked'
    <3>1. CASE channels[c] = None
      BY <1>1, <2>7, <3>1 DEF FrameReceived, EmitNothing
    <3>2. CASE channels[c] # None
      <4>1. /\ channels[c].node \in Node
            /\ channels[c].device \in Device
            /\ peers'[channels[c].device] = Resolved(channels[c].node)
        BY <2>7, <3>2 DEF FrameReceived, BackedInv, TypeOK, ChannelsBacked
      <4>2. Emit(<<Payload(channels[c].node, Endpoint(L2cap(channels[c].device, c)))>>)
        BY <2>7, <3>2 DEF FrameReceived
      <4>3. QED BY <1>2, <1>3, <4>1, <4>2
    <3>3. QED BY <3>1, <3>2
  <2>8. CASE \E c \in ChannelId : ChannelClosed(c)
    BY <1>5, <2>8 DEF ChannelClosed
  <2>9. ASSUME NEW d \in Device, DispatchUnicast(d)
        PROVE  EmitsBacked'
    <3>1. CASE EmitNothing
      BY <1>1, <3>1
    <3>2. ASSUME NEW s \in EgressSessionForDevice(sessions, d), s.kind = "l2cap",
                 HandleL2capChannelClosed(s.channel)
          PROVE  EmitsBacked'
      <4>1. s.channel \in ChannelId
        BY <3>2, L2capEgressChannel DEF BackedInv
      <4>2. QED BY <1>5, <2>9, <3>2, <4>1 DEF DispatchUnicast
    <3>3. QED BY <2>9, <3>1, <3>2 DEF DispatchUnicast
  <2>10. CASE \/ \E receivers \in SUBSET Node : DispatchMulticast(receivers)
              \/ DispatchUndeliverable
    BY <1>1, <2>10 DEF DispatchMulticast, DispatchUndeliverable
  <2>11. CASE \E d \in Device : AnswerRequest(d)
    BY <1>1, <2>11 DEF AnswerRequest
  <2>12. QED
    BY <1>7, <2>1, <2>2, <2>3, <2>4, <2>5, <2>6, <2>7, <2>8, <2>9, <2>10, <2>11
       DEF HandleEvent, HandleCentralEvent, HandlePeripheralRequest,
           HandlePeripheralStateEvent, HandleL2capRuntimeEvent, DispatchOutboundCommand
<1>8. QED BY <1>6, <1>7 DEF Next

(* A payload or an active unicast link is only ever attributed to the      *)
(* identity that is proven for its device when the handler emits it.       *)
THEOREM EmitsAreBacked ==
    ASSUME ~HintReplacesResolved
    PROVE  Spec => []EmitsBacked
<1>1. Init => EmitsBacked
  BY DEF Init, EmitsBacked
<1>2. BackedInv /\ EmitsBacked /\ [Next]_vars => EmitsBacked'
  <2>1. BackedInv /\ Next => EmitsBacked'
    BY EmitsStep
  <2>2. EmitsBacked /\ UNCHANGED vars => EmitsBacked'
    BY DEF vars, EmitsBacked
  <2>3. QED BY <2>1, <2>2
<1>3. QED BY <1>1, <1>2, BackedInvariant, PTL DEF Spec

-----------------------------------------------------------------------------
(* Stable peers: a peer that is never live behind two devices at once.     *)

OneDevice(n) ==
    \A d, e \in Device : peers[d] = Resolved(n) /\ peers[e] = Resolved(n) => d = e

(* A proven peer has an entry, the entry has an egress, and an L2CAP one   *)
(* is registered and remembers the GATT session of the same device.        *)
Connected(n) ==
    /\ (\E d \in Device : peers[d] = Resolved(n)) => sessions[n] # None
    /\ sessions[n] # None => sessions[n].mode # "disconnected"
    /\ sessions[n] # None /\ sessions[n].mode = "l2cap" =>
         /\ sessions[n].fallback = GattCentral(sessions[n].session.device)
         /\ channels[sessions[n].session.channel] # None

UnicastReported(n) ==
    /\ sessions[n] = None /\ reported[n]["unicast"] # None
          => reported[n]["unicast"].type = "faulted"
    /\ sessions[n] # None => reported[n]["unicast"] = Observed(n, Endpoint(sessions[n].session))

NotifyReported(n) ==
    (sessions[n] # None /\ sessions[n].notify # {})
        <=> (reported[n]["notify"] = Observed(n, NotifyEndpoint))

Steady(n) == OneDevice(n) /\ Connected(n) /\ UnicastReported(n) /\ NotifyReported(n)

(* The inductive invariant behind the properties of stable peers.          *)
StableInv == \A n \in Stable : Steady(n)

(* What the invariants say of a steady peer that has an entry.             *)
LEMMA SteadyEntry ==
    ASSUME BackedInv, NEW n \in Node, Steady(n), sessions[n] # None
    PROVE  /\ sessions[n] \in PeerSessionsType
           /\ sessions[n].mode \in {"gatt", "l2cap"}
           /\ sessions[n].session \in GattSession \cup L2capSession
           /\ sessions[n].session # None
           /\ sessions[n].session.device \in Device
           /\ peers[sessions[n].session.device] = Resolved(n)
           /\ \A d \in Device : peers[d] = Resolved(n) => d = sessions[n].session.device
           /\ \A d \in Device : ReferencesDevice(sessions[n], d) => d = sessions[n].session.device
           /\ sessions[n].mode = "gatt" =>
                sessions[n].session = GattCentral(sessions[n].session.device)
           /\ sessions[n].mode = "l2cap" =>
                /\ sessions[n].session.channel \in ChannelId
                /\ channels[sessions[n].session.channel]
                     = [node |-> n, device |-> sessions[n].session.device]
<1>1. sessions[n] \in PeerSessionsType
  BY DEF BackedInv, TypeOK
<1>2. sessions[n].mode \in {"gatt", "l2cap"}
  BY <1>1, EntryShape DEF Steady, Connected
<1>3. /\ sessions[n].session \in GattSession \cup L2capSession
      /\ sessions[n].mode = "l2cap" => sessions[n].session \in L2capSession
      /\ sessions[n].mode = "gatt" => sessions[n].session \in GattSession
  BY <1>1, <1>2, EntryShape
<1>4. sessions[n].session # None /\ sessions[n].session.device \in Device
  BY <1>3, SessionShape
<1>5. ReferencesDevice(sessions[n], sessions[n].session.device)
  BY <1>4 DEF ReferencesDevice, IterSessions
<1>6. peers[sessions[n].session.device] = Resolved(n)
  BY <1>4, <1>5 DEF BackedInv, SessionsBacked
<1>7. \A d \in Device : peers[d] = Resolved(n) => d = sessions[n].session.device
  BY <1>4, <1>6 DEF Steady, OneDevice
<1>8. \A d \in Device : ReferencesDevice(sessions[n], d) => d = sessions[n].session.device
  BY <1>7 DEF BackedInv, SessionsBacked
<1>9. sessions[n].mode = "gatt" => sessions[n].session = GattCentral(sessions[n].session.device)
  BY <1>3, SessionShape DEF GattSession
<1>10. ASSUME sessions[n].mode = "l2cap"
       PROVE  /\ sessions[n].session.channel \in ChannelId
              /\ channels[sessions[n].session.channel]
                   = [node |-> n, device |-> sessions[n].session.device]
  BY <1>3, <1>10, SessionShape DEF Steady, Connected, BackedInv, ChannelsBacked
<1>11. QED BY <1>1, <1>2, <1>3, <1>4, <1>6, <1>7, <1>8, <1>9, <1>10

(* A step that leaves the entry, the proof, the preferred channel and the  *)
(* reports of a peer alone keeps it steady.                                *)
LEMMA SteadyKept ==
    ASSUME BackedInv, NEW n \in Node, Steady(n),
           \A d \in Device : peers'[d] = Resolved(n) => peers[d] = Resolved(n),
           sessions'[n] = sessions[n], reported'[n] = reported[n],
           sessions[n] # None /\ sessions[n].mode = "l2cap"
               => channels'[sessions[n].session.channel] # None
    PROVE  Steady(n)'
<1>1. OneDevice(n)'
  BY DEF Steady, OneDevice
<1>2. Connected(n)'
  BY DEF Steady, Connected
<1>3. UnicastReported(n)' /\ NotifyReported(n)'
  BY DEF Steady, UnicastReported, NotifyReported
<1>4. QED BY <1>1, <1>2, <1>3 DEF Steady

(* Events about other peers and payloads change nothing in what was        *)
(* reported about a peer.                                                  *)
LEMMA ReportKept ==
    ASSUME reported \in ReportedType, NEW es, Emit(es), NEW n \in Node,
           \A i \in DOMAIN es : es[i].type = "payload" \/ es[i].node # n
    PROVE  reported'[n] = reported[n]
<1>1. \A k \in LinkClass : LinkEvents(es, n, k) = {}
  BY DEF LinkEvents
<1>2. reported'[n] = [k \in LinkClass |-> reported[n][k]]
  BY <1>1 DEF Emit
<1>3. QED BY <1>2 DEF ReportedType

(* A handler that emits nothing reports nothing.                           *)
LEMMA NothingReported ==
    ASSUME reported \in ReportedType, EmitNothing, NEW n \in Node
    PROVE  reported'[n] = reported[n]
<1>1. \A i \in DOMAIN <<>> : <<>>[i].type = "payload" \/ <<>>[i].node # n
  OBVIOUS
<1>2. QED BY <1>1, ReportKept DEF EmitNothing

(* The last link event of a class is the one reported.                     *)
LEMMA LastReported ==
    ASSUME NEW es \in Seq(Event), Emit(es), NEW n \in Node, NEW k \in LinkClass,
           NEW j \in DOMAIN es, es[j].type # "payload", es[j].node = n, ClassOf(es[j]) = k,
           \A i \in DOMAIN es : i > j =>
               es[i].type = "payload" \/ es[i].node # n \/ ClassOf(es[i]) # k
    PROVE  reported'[n][k] = es[j]
<1> DEFINE is == LinkEvents(es, n, k)
<1>1. j \in is /\ is \subseteq Nat
  BY DEF LinkEvents
<1>2. \A i \in is : i <= j
  BY <1>1 DEF LinkEvents
<1>3. \A i \in is : (\A h \in is : h <= i) => i = j
  BY <1>1, <1>2
<1>4. (CHOOSE i \in is : \A h \in is : h <= i) = j
  BY <1>1, <1>2, <1>3
<1>5. reported'[n][k] = IF is = {} THEN reported[n][k] ELSE es[CHOOSE i \in is : \A h \in is : h <= i]
  BY DEF Emit
<1>6. QED BY <1>1, <1>4, <1>5

(* A single link event is reported in its own class and in no other.       *)
LEMMA OneReported ==
    ASSUME reported \in ReportedType, NEW event \in Event, Emit(<<event>>),
           event.type # "payload", NEW k \in LinkClass
    PROVE  /\ ClassOf(event) = k => reported'[event.node][k] = event
           /\ ClassOf(event) # k => reported'[event.node][k] = reported[event.node][k]
<1> DEFINE es == <<event>>
<1>1. /\ es \in Seq(Event) /\ DOMAIN es = {1} /\ es[1] = event
      /\ event.node \in Node
  BY DEF Event
<1>2. CASE ClassOf(event) = k
  <2>1. /\ Emit(es) /\ 1 \in DOMAIN es
        /\ es[1].type # "payload" /\ es[1].node = event.node /\ ClassOf(es[1]) = k
        /\ \A i \in DOMAIN es : i > 1 =>
             es[i].type = "payload" \/ es[i].node # event.node \/ ClassOf(es[i]) # k
    BY <1>1, <1>2
  <2> HIDE DEF es
  <2>2. reported'[event.node][k] = es[1]
    BY <1>1, <2>1, LastReported
  <2>3. QED BY <1>1, <1>2, <2>2
<1>3. CASE ClassOf(event) # k
  <2>1. LinkEvents(es, event.node, k) = {}
    BY <1>1, <1>3 DEF LinkEvents
  <2>2. reported'[event.node][k] = reported[event.node][k]
    BY <1>1, <2>1 DEF Emit
  <2>3. QED BY <1>3, <2>2
<1>4. QED BY <1>2, <1>3

(* The class of the link events the handlers build.                        *)
LEMMA Classes ==
    ASSUME NEW n \in Node
    PROVE  /\ \A s \in GattSession \cup L2capSession :
                /\ Observed(n, Endpoint(s)) \in Event
                /\ Observed(n, Endpoint(s)).node = n
                /\ Observed(n, Endpoint(s)).type # "payload"
                /\ ClassOf(Observed(n, Endpoint(s))) = "unicast"
                /\ Faulted(n, Endpoint(s)).node = n
                /\ Faulted(n, Endpoint(s)).type = "faulted"
                /\ ClassOf(Faulted(n, Endpoint(s))) = "unicast"
           /\ Observed(n, NotifyEndpoint) \in Event
           /\ Observed(n, NotifyEndpoint).node = n
           /\ Observed(n, NotifyEndpoint).type # "payload"
           /\ ClassOf(Observed(n, NotifyEndpoint)) = "notify"
           /\ Faulted(n, NotifyEndpoint) \in Event
           /\ Faulted(n, NotifyEndpoint).node = n
           /\ Faulted(n, NotifyEndpoint).type # "payload"
           /\ ClassOf(Faulted(n, NotifyEndpoint)) = "notify"
           /\ Faulted(n, NotifyEndpoint) # Observed(n, NotifyEndpoint)
           /\ "unicast" \in LinkClass /\ "notify" \in LinkClass
<1>1. \A s \in GattSession \cup L2capSession : Endpoint(s).transport \in {"gatt", "l2cap"}
  BY DEF Endpoint, GattSession, L2capSession, GattCentral, L2cap
<1>2. \A s \in GattSession \cup L2capSession : Endpoint(s) # NotifyEndpoint
  BY <1>1 DEF NotifyEndpoint
<1>3. \A s \in GattSession \cup L2capSession :
        /\ Observed(n, Endpoint(s)) \in Event
        /\ Observed(n, Endpoint(s)).node = n
        /\ Observed(n, Endpoint(s)).type # "payload"
        /\ ClassOf(Observed(n, Endpoint(s))) = "unicast"
        /\ Faulted(n, Endpoint(s)).node = n
        /\ Faulted(n, Endpoint(s)).type = "faulted"
        /\ ClassOf(Faulted(n, Endpoint(s))) = "unicast"
  BY <1>2, EventTypes DEF Observed, Faulted, ClassOf
<1>4. QED BY <1>3, EventTypes DEF Observed, Faulted, ClassOf, LinkClass

(* An install proves one device to a peer that had none: the peer gets a   *)
(* GATT session with that device, and maybe a channel next to it.          *)
LEMMA InstallSteady ==
    ASSUME BackedInv, StableInv, NEW m \in Node, NEW d \in Device, InstallResolvedPeer(m, d),
           m \in NodeIdsServedBy(d), peers[d].kind # "resolved", NEW n \in Stable
    PROVE  Steady(n)'
<1>1. /\ n \in Node /\ Steady(n) /\ n \notin Rotating
      /\ sessions \in SessionsType /\ peers \in [Device -> Identity]
      /\ channels \in ChannelsType /\ reported \in ReportedType
  BY DEF Stable, StableInv, BackedInv, TypeOK, SessionsType, ChannelsType, ReportedType
<1>2. /\ peers'[d] = Resolved(m) /\ \A e \in Device \ {d} : peers'[e] = peers[e]
  BY <1>1 DEF InstallResolvedPeer
<1>3. CASE n # m
  <2>1. \A e \in Device : peers'[e] = Resolved(n) => peers[e] = Resolved(n)
    BY <1>1, <1>2, <1>3, IdentityShape
  <2>2. reported'[n] = reported[n]
    <3>1. CASE Emit(<<Observed(m, GattEndpoint(d))>>)
      <4>1. \A i \in DOMAIN <<Observed(m, GattEndpoint(d))>> :
              <<Observed(m, GattEndpoint(d))>>[i].node # n
        BY <1>3 DEF Observed
      <4>2. QED BY <1>1, <3>1, <4>1, ReportKept
    <3>2. CASE Emit(<<Observed(m, GattEndpoint(d)), Observed(m, Endpoint(L2cap(d, nextChannelId)))>>)
      <4> DEFINE es == <<Observed(m, GattEndpoint(d)), Observed(m, Endpoint(L2cap(d, nextChannelId)))>>
      <4>1. \A i \in DOMAIN es : es[i].node # n
        BY <1>3 DEF Observed
      <4> HIDE DEF es
      <4>2. Emit(es)
        BY <3>2 DEF es
      <4>3. QED BY <1>1, <4>1, <4>2, ReportKept
    <3>3. QED BY <3>1, <3>2 DEF InstallResolvedPeer
  <2>3. sessions'[n] = sessions[n]
    <3> DEFINE gatt == InstallGattSession(sessions, m, d)
    <3>1. gatt \in SessionsType /\ gatt[n] = sessions[n]
      BY <1>1, <1>3, InstallGattSessionFacts
    <3>2. ASSUME RegisterL2capChannel(m, d),
                 sessions' = InstallL2capSession(gatt, m, d, nextChannelId)
          PROVE  sessions'[n] = gatt[n]
      <4>1. nextChannelId \in ChannelId
        BY <3>2, RegisterType DEF BackedInv
      <4> HIDE DEF gatt
      <4>2. QED BY <1>1, <1>3, <3>1, <3>2, <4>1, InstallL2capSessionFacts
    <3>3. QED BY <3>1, <3>2 DEF InstallResolvedPeer
  <2>4. \A c \in ChannelId : channels[c] # None => channels'[c] # None
    <3>1. [node |-> m, device |-> d] # None
      BY NodeAssumption
    <3>2. QED BY <1>1, <3>1 DEF InstallResolvedPeer, RegisterL2capChannel, ChannelsType
  <2>5. sessions[n] # None /\ sessions[n].mode = "l2cap"
          => channels'[sessions[n].session.channel] # None
    BY <1>1, <2>4, SteadyEntry DEF Steady, Connected
  <2>6. QED BY <1>1, <2>1, <2>2, <2>3, <2>5, SteadyKept
<1>4. CASE n = m
  <2>1. \A e \in Device : peers[e] # Resolved(n)
    BY <1>1, <1>4, IdentityShape DEF NodeIdsServedBy
  <2>2. sessions[n] = None
    BY <1>1, <2>1, SteadyEntry
  <2> DEFINE gatt == InstallGattSession(sessions, n, d)
  <2>3. /\ gatt \in SessionsType
        /\ gatt[n] = Sessions("gatt", GattCentral(d), None, {})
    BY <1>1, <2>2, InstallGattSessionFacts DEF InstallGattSession, GattWithFallback, SessionsType
  <2>4. OneDevice(n)'
    BY <1>2, <2>1 DEF OneDevice
  <2>5. GattCentral(d) \in GattSession
    BY SessionShape
  <2>6. Sessions("gatt", GattCentral(d), None, {}) # None
    BY <2>5, EntryType, NodeAssumption
  <2>7. reported[n]["notify"] # Observed(n, NotifyEndpoint)
    BY <1>1, <2>2 DEF Steady, NotifyReported
  <2>8. CASE sessions' = gatt /\ Emit(<<Observed(n, GattEndpoint(d))>>)
    <3>1. sessions'[n] = Sessions("gatt", GattCentral(d), None, {}) /\ sessions'[n] # None
      BY <2>3, <2>6, <2>8
    <3>2. Connected(n)'
      BY <3>1 DEF Connected, Sessions
    <3>3. /\ reported'[n]["unicast"] = Observed(n, GattEndpoint(d))
          /\ reported'[n]["notify"] = reported[n]["notify"]
      BY <1>1, <2>5, <2>8, OneReported, Classes DEF GattEndpoint
    <3>4. UnicastReported(n)'
      BY <3>1, <3>3 DEF UnicastReported, GattEndpoint, Sessions
    <3>5. NotifyReported(n)'
      BY <2>7, <3>1, <3>3 DEF NotifyReported, Sessions
    <3>6. QED BY <2>4, <3>2, <3>4, <3>5 DEF Steady
  <2>9. CASE /\ RegisterL2capChannel(n, d)
             /\ sessions' = InstallL2capSession(gatt, n, d, nextChannelId)
             /\ Emit(<<Observed(n, GattEndpoint(d)), Observed(n, Endpoint(L2cap(d, nextChannelId)))>>)
    <3> DEFINE c == nextChannelId
               es == <<Observed(n, GattEndpoint(d)), Observed(n, Endpoint(L2cap(d, c)))>>
    <3>1. c \in ChannelId
      BY <1>1, <2>9, RegisterType DEF BackedInv
    <3>2. L2cap(d, c) \in L2capSession /\ L2cap(d, c).device = d /\ L2cap(d, c).channel = c
      BY <3>1, SessionShape
    <3>3. sessions'[n] = PromoteL2cap(gatt[n], L2cap(d, c))
      <4>1. gatt[n] # None
        BY <2>3, <2>6
      <4> HIDE DEF gatt
      <4>2. QED BY <1>1, <2>3, <2>9, <4>1 DEF InstallL2capSession, SessionsType
    <3>4. sessions'[n] = Sessions("l2cap", L2cap(d, c), GattCentral(d), {})
      BY <2>3, <3>3 DEF PromoteL2cap, FirstGattFallback, Sessions
    <3>5. sessions'[n] # None
      BY <2>5, <3>2, <3>4, EntryType, NodeAssumption
    <3>6. channels'[c] # None
      <4>1. [node |-> n, device |-> d] # None
        BY <1>1, NodeAssumption
      <4>2. QED BY <1>1, <2>9, <3>1, <4>1 DEF RegisterL2capChannel, ChannelsType
    <3>7. Connected(n)'
      BY <3>2, <3>4, <3>5, <3>6 DEF Connected, Sessions
    <3>8. /\ es \in Seq(Event) /\ DOMAIN es = {1, 2}
          /\ es[2] = Observed(n, Endpoint(L2cap(d, c)))
          /\ ClassOf(es[1]) = "unicast" /\ ClassOf(es[2]) = "unicast"
          /\ es[2].type # "payload" /\ es[2].node = n
      BY <1>1, <2>5, <3>2, Classes DEF GattEndpoint
    <3>9. Emit(es)
      BY <2>9
    <3> HIDE DEF es
    <3>10. reported'[n]["unicast"] = es[2]
      <4>1. \A i \in DOMAIN es : i > 2 => FALSE
        BY <3>8
      <4>2. 2 \in DOMAIN es /\ "unicast" \in LinkClass
        BY <3>8 DEF LinkClass
      <4>3. QED BY <1>1, <3>8, <3>9, <4>1, <4>2, LastReported
    <3>11. reported'[n]["notify"] = reported[n]["notify"]
      <4>1. LinkEvents(es, n, "notify") = {}
        BY <3>8 DEF LinkEvents
      <4>2. QED BY <1>1, <3>9, <4>1 DEF Emit, LinkClass
    <3>12. UnicastReported(n)'
      BY <3>4, <3>5, <3>8, <3>10 DEF UnicastReported, Sessions
    <3>13. NotifyReported(n)'
      BY <2>7, <3>4, <3>11 DEF NotifyReported, Sessions
    <3>14. QED BY <2>4, <3>7, <3>12, <3>13 DEF Steady
  <2>10. QED BY <1>4, <2>8, <2>9 DEF InstallResolvedPeer
<1>5. QED BY <1>3, <1>4

(* When the device of a peer disconnects, its entry and its channels go    *)
(* together, and every link it had is reported as faulted.                 *)
LEMMA DisconnectedSteady ==
    ASSUME BackedInv, StableInv, NEW d \in Device, HandleDeviceDisconnected(d), NEW n \in Stable
    PROVE  Steady(n)'
<1>1. /\ n \in Node /\ Steady(n)
      /\ sessions \in SessionsType /\ peers \in [Device -> Identity]
      /\ channels \in ChannelsType /\ reported \in ReportedType
  BY DEF Stable, StableInv, BackedInv, TypeOK, SessionsType, ChannelsType, ReportedType
<1>2. /\ peers'[d] = Unknown /\ \A e \in Device \ {d} : peers'[e] = peers[e]
      /\ sessions'[n] = IF sessions[n] # None /\ ReferencesDevice(sessions[n], d)
                        THEN None ELSE sessions[n]
  BY <1>1 DEF HandleDeviceDisconnected
<1>3. \A e \in Device : peers'[e] = Resolved(n) => e # d /\ peers[e] = Resolved(n)
  BY <1>1, <1>2, IdentityShape
<1>4. CASE peers[d] # Resolved(n)
  <2>1. sessions'[n] = sessions[n]
    BY <1>1, <1>2, <1>4 DEF BackedInv, SessionsBacked
  <2>2. reported'[n] = reported[n] /\
        \A c \in ChannelId : channels[c] # None /\ channels[c].node = n => channels'[c] # None
    <3>1. CASE EmitNothing /\ UNCHANGED channels
      BY <1>1, <3>1, NothingReported
    <3>2. ASSUME NEW m \in ResolvedNodeIdForDevice(d), Emit(FaultedLinksForDevice(m, d)),
                 channels' = DropL2capChannelsForNode(m)
          PROVE  reported'[n] = reported[n] /\
                 \A c \in ChannelId : channels[c] # None /\ channels[c].node = n => channels'[c] # None
      <4>1. m # n
        BY <1>4, <3>2 DEF ResolvedNodeIdForDevice
      <4>2. \A i \in DOMAIN FaultedLinksForDevice(m, d) : FaultedLinksForDevice(m, d)[i].node # n
        BY <4>1 DEF FaultedLinksForDevice, Faulted
      <4>3. reported'[n] = reported[n]
        BY <1>1, <3>2, <4>2, ReportKept
      <4>4. QED BY <3>2, <4>1, <4>3 DEF DropL2capChannelsForNode
    <3>3. QED BY <3>1, <3>2 DEF HandleDeviceDisconnected
  <2>3. sessions[n] # None /\ sessions[n].mode = "l2cap"
          => channels'[sessions[n].session.channel] # None
    <3>1. ASSUME sessions[n] # None, sessions[n].mode = "l2cap"
          PROVE  channels'[sessions[n].session.channel] # None
      <4>1. /\ sessions[n].session.channel \in ChannelId
            /\ channels[sessions[n].session.channel]
                 = [node |-> n, device |-> sessions[n].session.device]
            /\ sessions[n].session.device \in Device
        BY <1>1, <3>1, SteadyEntry
      <4>2. [node |-> n, device |-> sessions[n].session.device] # None
        BY <1>1, <4>1, NodeAssumption
      <4>3. QED BY <2>2, <4>1, <4>2
    <3>2. QED BY <3>1
  <2>4. QED BY <1>1, <1>3, <2>1, <2>2, <2>3, SteadyKept
<1>5. CASE peers[d] = Resolved(n)
  <2>1. sessions[n] # None
    BY <1>1, <1>5 DEF Steady, Connected
  <2>2. /\ sessions[n] \in PeerSessionsType
        /\ sessions[n].session \in GattSession \cup L2capSession
        /\ sessions[n].session # None /\ sessions[n].session.device = d
        /\ \A e \in Device : ReferencesDevice(sessions[n], e) => e = d
    BY <1>1, <1>5, <2>1, SteadyEntry
  <2>3. sessions'[n] = None
    <3>1. ReferencesDevice(sessions[n], d)
      BY <2>2 DEF ReferencesDevice, IterSessions
    <3>2. QED BY <1>2, <2>1, <3>1
  <2>4. OneDevice(n)' /\ Connected(n)'
    <3>1. \A e \in Device : peers'[e] # Resolved(n)
      BY <1>1, <1>3, <1>5 DEF Steady, OneDevice
    <3>2. QED BY <2>3, <3>1 DEF OneDevice, Connected
  <2> DEFINE es == FaultedLinksForDevice(n, d)
             eps == EndpointsForDevice(sessions[n], d)
  <2>5. Emit(es)
    <3>1. ResolvedNodeIdForDevice(d) = {n}
      BY <1>1, <1>5, IdentityShape DEF ResolvedNodeIdForDevice
    <3>2. peers[d].kind = "resolved"
      BY <1>1, <1>5, IdentityShape
    <3>3. QED BY <3>1, <3>2 DEF HandleDeviceDisconnected
  <2>6. /\ es \in Seq(Event) /\ Len(es) <= 3
        /\ eps \in Seq(EndpointType) /\ Len(eps) \in Nat
        /\ DOMAIN es = 1 .. Len(eps)
        /\ \A i \in 1 .. Len(eps) : es[i] = Faulted(n, eps[i])
    BY <1>1, <2>1, <2>2, FaultsType, EndpointTypes DEF FaultedLinksForDevice, BackedInv
  <2>7. /\ 1 \in 1 .. Len(eps) /\ eps[1] = Endpoint(sessions[n].session)
        /\ d \in sessions[n].notify => \E j \in 1 .. Len(eps) : eps[j] = NotifyEndpoint
    <3> DEFINE Of(s) == IF s # None /\ s.device = d THEN <<Endpoint(s)>> ELSE <<>>
               Notify == IF d \in sessions[n].notify THEN <<NotifyEndpoint>> ELSE <<>>
    <3>1. Of(sessions[n].session) = <<Endpoint(sessions[n].session)>>
      BY <2>2
    <3>2. eps = (<<Endpoint(sessions[n].session)>> \o Of(sessions[n].fallback)) \o Notify
      BY <3>1 DEF EndpointsForDevice
    <3>3. CASE Of(sessions[n].fallback) = <<>>
      BY <3>2, <3>3
    <3>4. CASE Of(sessions[n].fallback) = <<Endpoint(sessions[n].fallback)>>
      BY <3>2, <3>4
    <3>5. QED BY <3>3, <3>4
  <2>8. \A i \in DOMAIN es : es[i].type = "faulted" /\ es[i].node = n
    BY <2>6 DEF Faulted
  <2>9. ASSUME NEW k \in LinkClass, NEW i \in DOMAIN es, ClassOf(es[i]) = k
        PROVE  reported'[n][k].type = "faulted"
    <3> DEFINE is == LinkEvents(es, n, k)
    <3> HIDE DEF es
    <3>1. i \in is /\ is \subseteq {1, 2, 3} /\ is \subseteq DOMAIN es
      BY <2>6, <2>8, <2>9 DEF LinkEvents
    <3>2. PICK j \in is : \A h \in is : h <= j
      <4>1. CASE 3 \in is
        BY <3>1, <4>1
      <4>2. CASE 3 \notin is /\ 2 \in is
        BY <3>1, <4>2
      <4>3. CASE 3 \notin is /\ 2 \notin is
        BY <3>1, <4>3
      <4>4. QED BY <4>1, <4>2, <4>3
    <3>3. /\ j \in DOMAIN es /\ es[j].type # "payload" /\ es[j].node = n /\ ClassOf(es[j]) = k
          /\ \A h \in DOMAIN es : h > j =>
               es[h].type = "payload" \/ es[h].node # n \/ ClassOf(es[h]) # k
      <4>1. \A h \in DOMAIN es : h > j => h \notin is
        BY <2>6, <3>1, <3>2
      <4>2. QED BY <3>2, <4>1 DEF LinkEvents
    <3>4. reported'[n][k] = es[j]
      BY <1>1, <2>5, <2>6, <3>3, LastReported
    <3>5. QED BY <2>8, <3>3, <3>4
  <2>10. UnicastReported(n)'
    <3>1. 1 \in DOMAIN es /\ ClassOf(es[1]) = "unicast"
      BY <1>1, <2>2, <2>6, <2>7, Classes
    <3>2. reported'[n]["unicast"].type = "faulted"
      BY <2>9, <3>1 DEF LinkClass
    <3>3. QED BY <2>3, <3>2 DEF UnicastReported
  <2>11. NotifyReported(n)'
    <3>1. CASE d \in sessions[n].notify
      <4>1. PICK j \in 1 .. Len(eps) : eps[j] = NotifyEndpoint
        BY <2>7, <3>1
      <4>2. j \in DOMAIN es /\ ClassOf(es[j]) = "notify"
        BY <1>1, <2>6, <4>1, Classes
      <4>3. reported'[n]["notify"].type = "faulted"
        BY <2>9, <4>2 DEF LinkClass
      <4>4. QED BY <2>3, <4>3 DEF NotifyReported, Observed
    <3>2. CASE d \notin sessions[n].notify
      <4>1. sessions[n].notify = {}
        BY <2>2, <3>2, EntryShape DEF ReferencesDevice
      <4>2. reported[n]["notify"] # Observed(n, NotifyEndpoint)
        BY <1>1, <4>1 DEF Steady, NotifyReported
      <4>3. reported'[n]["notify"] = reported[n]["notify"] \/ reported'[n]["notify"].type = "faulted"
        <5>1. CASE LinkEvents(es, n, "notify") = {}
          BY <1>1, <2>5, <5>1 DEF Emit, LinkClass
        <5>2. CASE LinkEvents(es, n, "notify") # {}
          BY <2>9, <5>2 DEF LinkEvents, LinkClass
        <5>3. QED BY <5>1, <5>2
      <4>4. QED BY <2>3, <4>2, <4>3 DEF NotifyReported, Observed
    <3>3. QED BY <3>1, <3>2
  <2>12. QED BY <2>4, <2>10, <2>11 DEF Steady
<1>6. QED BY <1>4, <1>5

(* An accepted channel becomes the preferred egress of the peer proven for *)
(* its device, and the GATT session it had becomes the fallback.           *)
LEMMA AcceptSteady ==
    ASSUME BackedInv, StableInv, NEW d \in Device, NEW m \in Node, HandleL2capAccept(d, m),
           NEW n \in Stable
    PROVE  Steady(n)'
<1>1. /\ n \in Node /\ Steady(n)
      /\ sessions \in SessionsType /\ peers \in [Device -> Identity]
      /\ channels \in ChannelsType /\ reported \in ReportedType
      /\ peers' = peers
  BY DEF Stable, StableInv, BackedInv, TypeOK, SessionsType, ChannelsType, ReportedType,
         HandleL2capAccept
<1>2. CASE peers[d] # Resolved(m)
  <2>1. reported'[n] = reported[n] /\ UNCHANGED <<sessions, channels>>
    BY <1>1, <1>2, NothingReported DEF HandleL2capAccept
  <2>2. QED BY <1>1, <2>1, SteadyKept DEF Steady, Connected
<1>3. CASE peers[d] = Resolved(m)
  <2> DEFINE c == nextChannelId
  <2>1. /\ RegisterL2capChannel(m, d)
        /\ sessions' = InstallL2capSession(sessions, m, d, c)
        /\ Emit(<<Observed(m, Endpoint(L2cap(d, c)))>>)
    BY <1>3 DEF HandleL2capAccept
  <2>2. c \in ChannelId
    BY <2>1, RegisterType DEF BackedInv
  <2>3. [node |-> m, device |-> d] # None
    BY NodeAssumption
  <2>4. channels'[c] # None /\ \A b \in ChannelId : channels[b] # None => channels'[b] # None
    BY <1>1, <2>1, <2>2, <2>3 DEF RegisterL2capChannel, ChannelsType
  <2>5. CASE n # m
    <3>1. sessions'[n] = sessions[n]
      BY <1>1, <2>1, <2>2, <2>5, InstallL2capSessionFacts
    <3>2. \A i \in DOMAIN <<Observed(m, Endpoint(L2cap(d, c)))>> :
            <<Observed(m, Endpoint(L2cap(d, c)))>>[i].node # n
      BY <2>5 DEF Observed
    <3>3. reported'[n] = reported[n]
      BY <1>1, <2>1, <3>2, ReportKept
    <3>4. sessions[n] # None /\ sessions[n].mode = "l2cap"
            => channels'[sessions[n].session.channel] # None
      BY <1>1, <2>4, SteadyEntry DEF Steady, Connected
    <3>5. QED BY <1>1, <3>1, <3>3, <3>4, SteadyKept
  <2>6. CASE n = m
    <3>1. sessions[n] # None
      BY <1>1, <1>3, <2>6 DEF Steady, Connected
    <3>2. /\ sessions[n] \in PeerSessionsType
          /\ sessions[n].mode \in {"gatt", "l2cap"}
          /\ sessions[n].session.device = d
          /\ sessions[n].mode = "gatt" => sessions[n].session = GattCentral(d)
      BY <1>1, <1>3, <2>6, <3>1, SteadyEntry
    <3>3. FirstGattFallback(sessions[n]) = GattCentral(d)
      BY <1>1, <3>1, <3>2 DEF FirstGattFallback, Steady, Connected
    <3>4. sessions'[n] = PromoteL2cap(sessions[n], L2cap(d, c))
      BY <1>1, <2>1, <2>6, <3>1 DEF InstallL2capSession, SessionsType
    <3>5. sessions'[n] = Sessions("l2cap", L2cap(d, c), GattCentral(d), sessions[n].notify)
      BY <3>3, <3>4 DEF PromoteL2cap
    <3>6. L2cap(d, c) \in L2capSession /\ L2cap(d, c).device = d /\ L2cap(d, c).channel = c
      BY <2>2, SessionShape
    <3>7. sessions'[n] # None
      BY <1>1, <2>1, <2>2, <2>6, InstallL2capSessionFacts
    <3>8. /\ sessions'[n].mode = "l2cap" /\ sessions'[n].session = L2cap(d, c)
          /\ sessions'[n].fallback = GattCentral(d) /\ sessions'[n].notify = sessions[n].notify
      BY <3>5 DEF Sessions
    <3>9. OneDevice(n)' /\ Connected(n)'
      BY <1>1, <2>4, <3>6, <3>7, <3>8 DEF Steady, OneDevice, Connected
    <3>10. /\ reported'[n]["unicast"] = Observed(n, Endpoint(L2cap(d, c)))
           /\ reported'[n]["notify"] = reported[n]["notify"]
      BY <1>1, <2>1, <2>6, <3>6, OneReported, Classes
    <3>11. UnicastReported(n)' /\ NotifyReported(n)'
      BY <1>1, <3>1, <3>7, <3>8, <3>10 DEF Steady, UnicastReported, NotifyReported
    <3>12. QED BY <3>9, <3>11 DEF Steady
  <2>7. QED BY <2>5, <2>6
<1>4. QED BY <1>2, <1>3

(* Closing the preferred channel of a peer makes its fallback the egress   *)
(* and reports it; closing any other channel changes no egress.            *)
LEMMA ClosedSteady ==
    ASSUME BackedInv, StableInv, NEW c \in ChannelId, HandleL2capChannelClosed(c),
           UNCHANGED peers, NEW n \in Stable
    PROVE  Steady(n)'
<1>1. /\ n \in Node /\ Steady(n)
      /\ sessions \in SessionsType /\ peers' = peers
      /\ channels \in ChannelsType /\ reported \in ReportedType
  BY DEF Stable, StableInv, BackedInv, TypeOK, SessionsType, ChannelsType, ReportedType
<1>2. channels'[c] = None /\ \A b \in ChannelId \ {c} : channels'[b] = channels[b]
  BY <1>1 DEF HandleL2capChannelClosed, ChannelsType
<1>3. sessions[n] # None /\ sessions[n].mode = "l2cap"
        => /\ sessions[n].session.channel \in ChannelId
           /\ channels[sessions[n].session.channel] # None
           /\ channels[sessions[n].session.channel].node = n
  <2>1. ASSUME sessions[n] # None, sessions[n].mode = "l2cap"
        PROVE  /\ sessions[n].session.channel \in ChannelId
               /\ channels[sessions[n].session.channel]
                    = [node |-> n, device |-> sessions[n].session.device]
               /\ channels[sessions[n].session.channel] # None
    BY <1>1, <2>1, SteadyEntry DEF Steady, Connected
  <2>2. QED BY <2>1
<1>4. CASE channels[c] = None
  <2>1. reported'[n] = reported[n] /\ sessions' = sessions
    BY <1>1, <1>4, NothingReported DEF HandleL2capChannelClosed
  <2>2. QED BY <1>1, <1>2, <1>3, <1>4, <2>1, SteadyKept
<1>5. CASE channels[c] # None /\ channels[c].node # n
  <2> DEFINE m == channels[c].node
             egress == PreferredEgress(DowngradeL2cap(sessions[m], c))
             es == IF egress = None THEN <<>> ELSE <<Observed(m, Endpoint(egress))>>
  <2>1. sessions'[n] = sessions[n]
    BY <1>1, <1>5 DEF HandleL2capChannelClosed, SessionsType
  <2>2. reported'[n] = reported[n]
    <3>1. CASE sessions[m] = None
      BY <1>1, <3>1, NothingReported DEF HandleL2capChannelClosed
    <3>2. CASE sessions[m] # None
      <4>1. Emit(es)
        BY <1>5, <3>2 DEF HandleL2capChannelClosed
      <4>2. \A i \in DOMAIN es : es[i].node # n
        BY <1>5 DEF Observed
      <4> HIDE DEF es
      <4>3. QED BY <1>1, <4>1, <4>2, ReportKept
    <3>3. QED BY <3>1, <3>2
  <2>3. QED BY <1>1, <1>2, <1>3, <1>5, <2>1, <2>2, SteadyKept
<1>6. CASE channels[c] # None /\ channels[c].node = n
  <2> DEFINE after == DowngradeL2cap(sessions[n], c)
             egress == PreferredEgress(after)
             d == sessions[n].session.device
  <2>1. channels[c].device \in Device /\ peers[channels[c].device] = Resolved(n)
    BY <1>1, <1>6 DEF BackedInv, ChannelsBacked, ChannelsType
  <2>2. sessions[n] # None
    BY <1>1, <2>1 DEF Steady, Connected
  <2>3. /\ sessions[n] \in PeerSessionsType /\ d \in Device
        /\ sessions[n].mode \in {"gatt", "l2cap"}
        /\ sessions[n].session \in GattSession \cup L2capSession
    BY <1>1, <2>2, SteadyEntry
  <2>4. sessions'[n] = after
    BY <1>1, <1>6, <2>2 DEF HandleL2capChannelClosed, SessionsType
  <2>5. Emit(IF egress = None THEN <<>> ELSE <<Observed(n, Endpoint(egress))>>)
    BY <1>6, <2>2 DEF HandleL2capChannelClosed
  <2>6. CASE sessions[n].mode = "l2cap" /\ sessions[n].session.channel = c
    <3>1. sessions[n].fallback = GattCentral(d)
      BY <1>1, <2>2, <2>6 DEF Steady, Connected
    <3>2. GattCentral(d) \in GattSession /\ GattCentral(d) # None
      BY <2>3, SessionShape
    <3>3. after = Sessions("gatt", GattCentral(d), None, sessions[n].notify)
      BY <2>6, <3>1, <3>2 DEF DowngradeL2cap
    <3>4. after # None
      BY <2>3, <3>2, <3>3, EntryShape, EntryType, NodeAssumption
    <3>5. /\ after.mode = "gatt" /\ after.session = GattCentral(d)
          /\ after.notify = sessions[n].notify
      BY <3>3 DEF Sessions
    <3> HIDE DEF after
    <3>6. OneDevice(n)' /\ Connected(n)'
      BY <1>1, <2>4, <3>4, <3>5 DEF Steady, OneDevice, Connected
    <3>7. Emit(<<Observed(n, Endpoint(GattCentral(d)))>>)
      BY <2>5, <3>2, <3>5 DEF PreferredEgress
    <3>8. /\ reported'[n]["unicast"] = Observed(n, Endpoint(GattCentral(d)))
          /\ reported'[n]["notify"] = reported[n]["notify"]
      BY <1>1, <3>2, <3>7, OneReported, Classes
    <3>9. UnicastReported(n)' /\ NotifyReported(n)'
      BY <1>1, <2>2, <2>4, <3>4, <3>5, <3>8 DEF Steady, UnicastReported, NotifyReported
    <3>10. QED BY <3>6, <3>9 DEF Steady
  <2>7. CASE ~(sessions[n].mode = "l2cap" /\ sessions[n].session.channel = c)
    <3>1. after = sessions[n]
      BY <2>7 DEF DowngradeL2cap
    <3>2. sessions'[n] = sessions[n] /\ sessions[n].session # None
      BY <2>3, <2>4, <3>1, SessionShape
    <3>3. Emit(<<Observed(n, Endpoint(sessions[n].session))>>)
      BY <2>5, <3>1, <3>2 DEF PreferredEgress
    <3>4. /\ reported'[n]["unicast"] = Observed(n, Endpoint(sessions[n].session))
          /\ reported'[n]["notify"] = reported[n]["notify"]
      BY <1>1, <2>3, <3>3, OneReported, Classes
    <3>5. OneDevice(n)' /\ Connected(n)'
      BY <1>1, <1>2, <1>3, <2>7, <3>2 DEF Steady, OneDevice, Connected
    <3>6. UnicastReported(n)' /\ NotifyReported(n)'
      BY <1>1, <2>2, <3>2, <3>4 DEF Steady, UnicastReported, NotifyReported
    <3>7. QED BY <3>5, <3>6 DEF Steady
  <2>8. QED BY <2>6, <2>7
<1>7. QED BY <1>4, <1>5, <1>6

(* A subscription and its end change the fanout link of the peer proven    *)
(* for the device, and report exactly that.                                *)
LEMMA SubscriptionSteady ==
    ASSUME BackedInv, StableInv, NEW d \in Device,
           HandleP2cSubscription(d) \/ HandleP2cUnsubscription(d), NEW n \in Stable
    PROVE  Steady(n)'
<1>1. /\ n \in Node /\ Steady(n)
      /\ sessions \in SessionsType /\ peers \in [Device -> Identity] /\ peers' = peers
      /\ channels' = channels /\ reported \in ReportedType
  BY DEF Stable, StableInv, BackedInv, TypeOK, SessionsType, ReportedType,
         HandleP2cSubscription, HandleP2cUnsubscription
<1>2. CASE EmitNothing /\ UNCHANGED sessions
  <2>1. reported'[n] = reported[n]
    BY <1>1, <1>2, NothingReported
  <2>2. QED BY <1>1, <1>2, <2>1, SteadyKept DEF Steady, Connected
<1>3. ASSUME NEW m \in Node, m # n, NEW entry, NEW event, event.node = m,
             sessions' = [sessions EXCEPT ![m] = entry], Emit(<<event>>)
      PROVE  Steady(n)'
  <2>1. sessions'[n] = sessions[n]
    BY <1>1, <1>3 DEF SessionsType
  <2>2. \A i \in DOMAIN <<event>> : <<event>>[i].node # n
    BY <1>3
  <2>3. reported'[n] = reported[n]
    BY <1>1, <1>3, <2>2, ReportKept
  <2>4. QED BY <1>1, <2>1, <2>3, SteadyKept DEF Steady, Connected
<1>4. ASSUME peers[d] = Resolved(n), NEW event, NEW notify,
             event = Observed(n, NotifyEndpoint) \/ event = Faulted(n, NotifyEndpoint),
             Emit(<<event>>),
             sessions'[n] = Sessions(sessions[n].mode, sessions[n].session,
                                     sessions[n].fallback, notify),
             notify \in SUBSET Device,
             notify # {} <=> event = Observed(n, NotifyEndpoint)
      PROVE  Steady(n)'
  <2>1. sessions[n] # None /\ sessions[n] \in PeerSessionsType
    BY <1>1, <1>4 DEF Steady, Connected, SessionsType
  <2>2. /\ sessions'[n].mode = sessions[n].mode /\ sessions'[n].session = sessions[n].session
        /\ sessions'[n].fallback = sessions[n].fallback /\ sessions'[n].notify = notify
    BY <1>4 DEF Sessions
  <2>3. sessions'[n] # None
    <3>1. sessions'[n] \in PeerSessionsType
      BY <1>4, <2>1, EntryShape, EntryType
    <3>2. QED BY <3>1, NodeAssumption
  <2>4. OneDevice(n)' /\ Connected(n)'
    BY <1>1, <2>1, <2>2, <2>3 DEF Steady, OneDevice, Connected
  <2>5. /\ event \in Event /\ event.node = n /\ event.type # "payload"
        /\ ClassOf(event) = "notify"
    BY <1>1, <1>4, Classes
  <2>6. reported'[n]["notify"] = event /\ reported'[n]["unicast"] = reported[n]["unicast"]
    BY <1>1, <1>4, <2>5, OneReported DEF LinkClass
  <2>7. UnicastReported(n)' /\ NotifyReported(n)'
    BY <1>1, <1>4, <2>1, <2>2, <2>3, <2>6 DEF Steady, UnicastReported, NotifyReported
  <2>8. QED BY <2>4, <2>7 DEF Steady
<1>5. ASSUME NEW m \in Node, peers[d] = Resolved(m), HandleP2cSubscription(d),
             sessions' = [sessions EXCEPT ![m] = IF sessions[m] = None THEN GattNotifyFanout(d)
                                                 ELSE InstallGattSubscription(sessions[m], d)],
             Emit(<<Observed(m, NotifyEndpoint)>>)
      PROVE  Steady(n)'
  <2>1. CASE m # n
    BY <1>3, <1>5, <2>1 DEF Observed
  <2>2. CASE m = n
    <3>1. sessions[n] # None /\ sessions[n] \in PeerSessionsType
      BY <1>1, <1>5, <2>2 DEF Steady, Connected, SessionsType
    <3>2. sessions'[n] = InstallGattSubscription(sessions[n], d)
      BY <1>1, <1>5, <2>2, <3>1 DEF SessionsType
    <3>3. sessions'[n] = Sessions(sessions[n].mode, sessions[n].session,
                                  sessions[n].fallback, sessions[n].notify \cup {d})
      BY <3>1, <3>2, EntryShape DEF InstallGattSubscription, Sessions
    <3>4. sessions[n].notify \cup {d} \in SUBSET Device
      BY <3>1, EntryShape
    <3>5. QED BY <1>4, <1>5, <2>2, <3>3, <3>4
  <2>3. QED BY <2>1, <2>2
<1>6. ASSUME NEW m \in Node, peers[d] = Resolved(m), sessions[m] # None, d \in sessions[m].notify,
             sessions' = [sessions EXCEPT ![m] = RemoveGattSubscription(sessions[m], d)],
             Emit(<<Faulted(m, NotifyEndpoint)>>)
      PROVE  Steady(n)'
  <2>1. CASE m # n
    BY <1>3, <1>6, <2>1 DEF Faulted
  <2>2. CASE m = n
    <3>1. /\ sessions[n] \in PeerSessionsType
          /\ \A e \in Device : ReferencesDevice(sessions[n], e) => e = d
      BY <1>1, <1>6, <2>2, SteadyEntry
    <3>2. sessions'[n] = RemoveGattSubscription(sessions[n], d)
      BY <1>1, <1>6, <2>2 DEF SessionsType
    <3>3. sessions'[n] = Sessions(sessions[n].mode, sessions[n].session,
                                  sessions[n].fallback, sessions[n].notify \ {d})
      BY <3>1, <3>2, EntryShape DEF RemoveGattSubscription, Sessions
    <3>4. sessions[n].notify \ {d} = {}
      BY <3>1, EntryShape DEF ReferencesDevice
    <3>5. Faulted(n, NotifyEndpoint) # Observed(n, NotifyEndpoint)
      BY <1>1, Classes
    <3>6. sessions'[n] = Sessions(sessions[n].mode, sessions[n].session, sessions[n].fallback, {})
      BY <3>3, <3>4
    <3>7. QED BY <1>4, <1>6, <2>2, <3>5, <3>6
  <2>3. QED BY <2>1, <2>2
<1>7. QED
  BY <1>2, <1>5, <1>6
     DEF HandleP2cSubscription, HandleP2cUnsubscription, ResolvedNodeIdForDevice

(* Every step of the runtime keeps stable peers steady.                    *)
LEMMA StableStep ==
    ASSUME BackedInv, StableInv, ~HintReplacesResolved, Next
    PROVE  StableInv'
<1> SUFFICES ASSUME NEW n \in Stable PROVE Steady(n)'
  BY DEF StableInv, Stable
<1>1. /\ n \in Node /\ Steady(n)
      /\ peers \in [Device -> Identity] /\ reported \in ReportedType
  BY DEF Stable, StableInv, BackedInv, TypeOK, ReportedType
(* A handler that keeps the tables and proves no new identity.             *)
<1>2. ASSUME UNCHANGED <<sessions, channels>>, reported'[n] = reported[n],
             \A e \in Device : peers'[e] = Resolved(n) => peers[e] = Resolved(n)
      PROVE  Steady(n)'
  BY <1>1, <1>2, SteadyKept DEF Steady, Connected
<1>3. ASSUME NEW d \in Device, NEW p \in Prefix, HandleDeviceDiscovered(d, p)
      PROVE  Steady(n)'
  <2>1. UNCHANGED <<sessions, channels>> /\ reported'[n] = reported[n]
    BY <1>1, <1>3, NothingReported DEF HandleDeviceDiscovered
  <2>2. \A e \in Device : peers'[e] = Resolved(n) => peers[e] = Resolved(n)
    BY <1>1, <1>3, IdentityShape DEF HandleDeviceDiscovered, UpsertHint
  <2>3. QED BY <1>2, <2>1, <2>2
<1>4. ASSUME EmitNothing, UNCHANGED <<peers, sessions, channels>>
      PROVE  Steady(n)'
  BY <1>1, <1>2, <1>4, NothingReported
<1>5. ASSUME NEW event, event.type = "payload", Emit(<<event>>),
             UNCHANGED <<peers, sessions, channels>>
      PROVE  Steady(n)'
  <2>1. \A i \in DOMAIN <<event>> : <<event>>[i].type = "payload"
    BY <1>5
  <2>2. reported'[n] = reported[n]
    BY <1>1, <1>5, <2>1, ReportKept
  <2>3. QED BY <1>2, <1>5, <2>2
<1>6. CASE Rehydrate
  <2>1. PICK d \in restored : HandleRestoredDevice(d)
    BY <1>6 DEF Rehydrate
  <2>2. d \in Device /\ peers[d].kind # "resolved"
    BY <2>1, IdentityShape DEF BackedInv, TypeOK, RestoredUnknown, Unknown
  <2>3. CASE \E p \in Prefix : HandleDeviceDiscovered(d, p)
    BY <1>3, <2>2, <2>3
  <2>4. CASE EmitNothing /\ UNCHANGED <<peers, sessions, channels>>
    BY <1>4, <2>4
  <2>5. ASSUME NEW m \in NodeIdsServedBy(d), InstallResolvedPeer(m, d)
        PROVE  Steady(n)'
    <3>1. m \in Node
      BY DEF NodeIdsServedBy
    <3>2. QED BY <2>2, <2>5, <3>1, InstallSteady
  <2>6. QED BY <2>1, <2>3, <2>4, <2>5 DEF HandleRestoredDevice
<1>7. CASE HandleEvent
  <2>1. ASSUME NEW d \in Device, HandleDeviceConnected(d)
        PROVE  Steady(n)'
    <3>1. CASE EmitNothing /\ UNCHANGED <<peers, sessions, channels>>
      BY <1>4, <3>1
    <3>2. CASE /\ peers' = [peers EXCEPT ![d] = Unknown]
               /\ EmitNothing
               /\ UNCHANGED <<sessions, channels>>
      <4>1. \A e \in Device : peers'[e] = Resolved(n) => peers[e] = Resolved(n)
        BY <1>1, <3>2, IdentityShape
      <4>2. QED BY <1>1, <1>2, <3>2, <4>1, NothingReported
    <3>3. ASSUME NEW m \in NodeIdsServedBy(d), peers[d] = Hint(PrefixOf[m]),
                 InstallResolvedPeer(m, d)
          PROVE  Steady(n)'
      <4>1. m \in Node /\ peers[d].kind # "resolved"
        BY <3>3 DEF NodeIdsServedBy, Hint
      <4>2. QED BY <3>3, <4>1, InstallSteady
    <3>4. QED BY <2>1, <3>1, <3>2, <3>3 DEF HandleDeviceConnected
  <2>2. ASSUME NEW d \in Device,
               \/ HandleCharacteristicNotification(d) \/ HandleC2pWrite(d) \/ AnswerRequest(d)
        PROVE  Steady(n)'
    <3>1. UNCHANGED <<peers, sessions, channels>>
      BY <2>2 DEF HandleCharacteristicNotification, HandleC2pWrite, AnswerRequest
    <3>2. CASE EmitNothing
      BY <1>4, <3>1, <3>2
    <3>3. CASE Emit(<<Payload(peers[d].of, GattEndpoint(d))>>)
      BY <1>5, <3>1, <3>3 DEF Payload
    <3>4. QED BY <2>2, <3>2, <3>3
                 DEF HandleCharacteristicNotification, HandleC2pWrite, AnswerRequest, EmitNothing
  <2>3. ASSUME NEW c \in ChannelId, FrameReceived(c)
        PROVE  Steady(n)'
    <3>1. UNCHANGED <<peers, sessions, channels>>
      BY <2>3 DEF FrameReceived
    <3>2. CASE EmitNothing
      BY <1>4, <3>1, <3>2
    <3>3. CASE Emit(<<Payload(channels[c].node, Endpoint(L2cap(channels[c].device, c)))>>)
      BY <1>5, <3>1, <3>3 DEF Payload
    <3>4. QED BY <2>3, <3>2, <3>3 DEF FrameReceived, EmitNothing
  <2>4. ASSUME NEW d \in Device, DispatchUnicast(d)
        PROVE  Steady(n)'
    <3>1. CASE EmitNothing /\ UNCHANGED <<sessions, channels>>
      BY <1>4, <2>4, <3>1 DEF DispatchUnicast
    <3>2. ASSUME NEW s \in EgressSessionForDevice(sessions, d), s.kind = "l2cap",
                 HandleL2capChannelClosed(s.channel)
          PROVE  Steady(n)'
      <4>1. s.channel \in ChannelId
        BY <3>2, L2capEgressChannel DEF BackedInv
      <4>2. QED BY <2>4, <3>2, <4>1, ClosedSteady DEF DispatchUnicast
    <3>3. QED BY <2>4, <3>1, <3>2 DEF DispatchUnicast
  <2>5. CASE \/ \E receivers \in SUBSET Node : DispatchMulticast(receivers)
             \/ DispatchUndeliverable
    BY <1>4, <2>5 DEF DispatchMulticast, DispatchUndeliverable
  <2>6. CASE \E d \in Device, m \in Node : HandleL2capAccept(d, m)
    BY <2>6, AcceptSteady
  <2>7. CASE \E c \in ChannelId : ChannelClosed(c)
    BY <2>7, ClosedSteady DEF ChannelClosed
  <2>8. CASE \E d \in Device : HandleDeviceDisconnected(d)
    BY <2>8, DisconnectedSteady
  <2>9. CASE \E d \in Device : HandleP2cSubscription(d) \/ HandleP2cUnsubscription(d)
    BY <2>9, SubscriptionSteady
  <2>10. QED
    BY <1>3, <1>7, <2>1, <2>2, <2>3, <2>4, <2>5, <2>6, <2>7, <2>8, <2>9
       DEF HandleEvent, HandleCentralEvent, HandlePeripheralRequest,
           HandlePeripheralStateEvent, HandleL2capRuntimeEvent, DispatchOutboundCommand
<1>8. QED BY <1>6, <1>7 DEF Next

(* Stable peers stay steady: connected through the one device proven for   *)
(* them, with every change of their links reported.                        *)
THEOREM StableInvariant ==
    ASSUME ~HintReplacesResolved
    PROVE  Spec => []StableInv
<1>1. Init => StableInv
  <2> SUFFICES ASSUME Init, NEW n \in Stable PROVE Steady(n)
    BY DEF StableInv
  <2>1. n \in Node /\ sessions[n] = None /\ \A d \in Device : peers[d] = Unknown
    BY DEF Init, Stable
  <2>2. reported[n]["unicast"] = None /\ reported[n]["notify"] = None
    BY <2>1 DEF Init, LinkClass
  <2>3. Observed(n, NotifyEndpoint) # None
    BY <2>1, Classes, NodeAssumption
  <2>4. QED BY <2>1, <2>2, <2>3, IdentityShape
               DEF Steady, OneDevice, Connected, UnicastReported, NotifyReported
<1>2. BackedInv /\ StableInv /\ [Next]_vars => StableInv'
  <2>1. BackedInv /\ StableInv /\ Next => StableInv'
    BY StableStep
  <2>2. ASSUME StableInv, UNCHANGED vars PROVE StableInv'
    BY <2>2 DEF vars, StableInv, Steady, OneDevice, Connected, UnicastReported, NotifyReported
  <2>3. QED BY <2>1, <2>2
<1>3. QED BY <1>1, <1>2, BackedInvariant, PTL DEF Spec

(* The session of a stable peer never prefers a channel that is gone.      *)
THEOREM NoChannelDangles ==
    ASSUME ~HintReplacesResolved
    PROVE  Spec => []NoDanglingChannel
<1>1. StableInv => NoDanglingChannel
  BY DEF StableInv, Steady, Connected, NoDanglingChannel
<1>2. QED BY <1>1, StableInvariant, PTL

(* A device proven to be a stable peer can be sent to.                     *)
THEOREM ResolvedAreReachable ==
    ASSUME ~HintReplacesResolved
    PROVE  Spec => []ResolvedReachable
<1>1. BackedInv /\ StableInv => ResolvedReachable
  <2> SUFFICES ASSUME BackedInv, StableInv, NEW d \in Device, NEW n \in Stable,
                      peers[d] = Resolved(n)
               PROVE  EgressSessionForDevice(sessions, d) # {}
    BY DEF ResolvedReachable
  <2>1. n \in Node /\ Steady(n) /\ sessions[n] # None
    BY DEF Stable, StableInv, Steady, Connected
  <2>2. sessions[n].session # None /\ sessions[n].session.device = d
    BY <2>1, SteadyEntry
  <2>3. sessions[n].session \in EgressForDevice(sessions[n], d)
    BY <2>2 DEF EgressForDevice, PreferredEgress
  <2>4. QED BY <2>1, <2>3 DEF EgressSessionForDevice
<1>2. QED BY <1>1, BackedInvariant, StableInvariant, PTL

(* The last unicast link event emitted about a stable peer tells exactly   *)
(* its preferred egress, or that it has none.                              *)
THEOREM UnicastReportsAccurate ==
    ASSUME ~HintReplacesResolved
    PROVE  Spec => []UnicastReportAccurate
<1>1. BackedInv /\ StableInv => UnicastReportAccurate
  <2> SUFFICES ASSUME BackedInv, StableInv, NEW n \in Stable
               PROVE  LET egress == IF sessions[n] = None THEN None
                                    ELSE PreferredEgress(sessions[n])
                          last == reported[n]["unicast"]
                      IN  IF egress = None THEN last # None => last.type = "faulted"
                          ELSE last = Observed(n, Endpoint(egress))
    BY DEF UnicastReportAccurate
  <2>1. n \in Node /\ Steady(n)
    BY DEF Stable, StableInv
  <2>2. CASE sessions[n] = None
    BY <2>1, <2>2 DEF Steady, UnicastReported
  <2>3. CASE sessions[n] # None
    <3>1. sessions[n].session # None
      BY <2>1, <2>3, SteadyEntry
    <3>2. QED BY <2>1, <2>3, <3>1 DEF Steady, UnicastReported, PreferredEgress
  <2>4. QED BY <2>2, <2>3
<1>2. QED BY <1>1, BackedInvariant, StableInvariant, PTL

(* The fanout link of a stable peer is reported up exactly while the peer  *)
(* has a subscriber.                                                       *)
THEOREM NotifyReportsAccurate ==
    ASSUME ~HintReplacesResolved
    PROVE  Spec => []NotifyReportAccurate
<1>1. StableInv => NotifyReportAccurate
  BY DEF StableInv, Steady, NotifyReported, NotifyReportAccurate, SubscribedNodes, Stable
<1>2. QED BY <1>1, StableInvariant, PTL

(* Only a unicast to a device is lost at that device.                      *)
LEMMA LostUnicast ==
    ASSUME Next, NEW d \in Device, radio' = Radio("lost", {d})
    PROVE  DispatchUnicast(d)
<1>1. ASSUME NEW op, op # "lost", NEW ds, radio' = Radio(op, ds)
      PROVE  FALSE
  BY <1>1 DEF Radio
<1>2. radio' # Radio("lost", {}) /\ \A e \in Device : radio' = Radio("lost", {e}) => e = d
  BY DEF Radio
<1>3. ASSUME NEW e \in Device, NEW p \in Prefix, HandleDeviceDiscovered(e, p)
      PROVE  FALSE
  BY <1>1, <1>3 DEF HandleDeviceDiscovered
<1>4. radio' # Idle
  BY <1>1 DEF Idle
<1>5. ~Rehydrate
  BY <1>1, <1>3 DEF Rehydrate, HandleRestoredDevice, HandleDeviceDiscovered
<1>6. ~HandleCentralEvent
  BY <1>1, <1>3, <1>4 DEF HandleCentralEvent, HandleDeviceConnected,
       HandleDeviceDisconnected, HandleCharacteristicNotification
<1>7. ~HandlePeripheralRequest /\ ~HandlePeripheralStateEvent
  BY <1>1, <1>4 DEF HandlePeripheralRequest, HandleC2pWrite, AnswerRequest,
       HandlePeripheralStateEvent, HandleP2cSubscription, HandleP2cUnsubscription
<1>8. ~HandleL2capRuntimeEvent /\ \A e \in Device, n \in Node : ~HandleL2capAccept(e, n)
  BY <1>4 DEF HandleL2capRuntimeEvent, FrameReceived, ChannelClosed, HandleL2capAccept
<1>9. /\ ~DispatchUndeliverable
      /\ \A receivers \in SUBSET Node : ~DispatchMulticast(receivers)
  BY <1>1, <1>2 DEF DispatchUndeliverable, DispatchMulticast
<1>10. PICK e \in Device : DispatchUnicast(e)
  BY <1>5, <1>6, <1>7, <1>8, <1>9 DEF Next, HandleEvent, DispatchOutboundCommand
<1>11. e = d
  BY <1>1, <1>2, <1>10 DEF DispatchUnicast
<1>12. QED BY <1>10, <1>11

(* A unicast to a stable peer is not lost while the peer has a GATT        *)
(* session with that device, also when its channel breaks under the send.  *)
THEOREM FallbackIsHonoured ==
    ASSUME ~HintReplacesResolved
    PROVE  Spec => StableFallbackHonoured
<1>1. ASSUME BackedInv, StableInv, Next, NEW n \in Stable
      PROVE  ~FallbackMissed(n)
  <2> SUFFICES ASSUME NEW d \in Device, radio' = Radio("lost", {d}),
                      EgressSessionForDevice(sessions, d) # {}, sessions[n] # None,
                      GattCentral(d) \in IterSessions(sessions[n])
               PROVE  FALSE
    BY DEF FallbackMissed
  <2>1. n \in Node /\ Steady(n) /\ peers \in [Device -> Identity] /\ sessions \in SessionsType
    BY <1>1 DEF Stable, StableInv, BackedInv, TypeOK, SessionsType
  <2>2. DispatchUnicast(d)
    BY <1>1, LostUnicast
  <2>3. peers[d] = Resolved(n)
    BY <1>1, <2>1, SessionShape DEF BackedInv, SessionsBacked, ReferencesDevice
  <2>4. PICK s \in EgressSessionForDevice(sessions, d) :
          /\ s.kind = "l2cap" /\ HandleL2capChannelClosed(s.channel)
          /\ GattCentral(d) \notin EgressSessionForDevice(sessions', d)
    BY <2>2 DEF DispatchUnicast, Radio
  <2>5. PICK m \in Node : sessions[m] # None /\ s \in EgressForDevice(sessions[m], d)
    BY <2>4 DEF EgressSessionForDevice
  <2>6. s = sessions[m].session /\ s # None /\ s.device = d
    BY <2>5 DEF EgressForDevice, PreferredEgress
  <2>7. m = n
    <3>1. ReferencesDevice(sessions[m], d)
      BY <2>6 DEF ReferencesDevice, IterSessions
    <3>2. peers[d] = Resolved(m)
      BY <1>1, <2>5, <3>1 DEF BackedInv, SessionsBacked
    <3>3. Resolved(m) = Resolved(n)
      BY <2>1, <2>3, <3>2, Zenon
    <3>4. n \in Node
      BY <2>1, Zenon
    <3>5. QED BY <3>3, <3>4, IdentityShape, Zenon
  <2>8. sessions[n].mode = "l2cap"
    <3>1. sessions[n].mode = "gatt" => s = GattCentral(d)
      BY <1>1, <2>1, <2>6, <2>7, SteadyEntry
    <3>2. s # GattCentral(d)
      BY <2>4, SessionShape
    <3>3. QED BY <1>1, <2>1, <3>1, <3>2, SteadyEntry
  <2>9. /\ sessions[n].fallback = GattCentral(d)
        /\ channels[s.channel] = [node |-> n, device |-> d] /\ channels[s.channel] # None
    <3>1. channels[s.channel] = [node |-> n, device |-> d]
      BY <1>1, <2>1, <2>6, <2>7, <2>8, SteadyEntry
    <3>2. QED BY <2>1, <2>6, <2>7, <2>8, <3>1 DEF Steady, Connected
  <2>10. sessions'[n] = DowngradeL2cap(sessions[n], s.channel)
    BY <2>1, <2>4, <2>9 DEF HandleL2capChannelClosed, SessionsType
  <2>11. GattCentral(d) # None /\ GattCentral(d).device = d /\ GattCentral(d) \in GattSession
    BY SessionShape
  <2>12. sessions'[n] = Sessions("gatt", GattCentral(d), None, sessions[n].notify)
    BY <2>6, <2>7, <2>8, <2>9, <2>10, <2>11 DEF DowngradeL2cap
  <2>13. sessions'[n] # None
    <3>1. sessions[n].notify \in SUBSET Device
      BY <1>1, <2>1, SteadyEntry, EntryShape
    <3>2. QED BY <2>11, <2>12, <3>1, EntryType, NodeAssumption
  <2>14. GattCentral(d) \in EgressForDevice(sessions'[n], d)
    BY <2>11, <2>12 DEF EgressForDevice, PreferredEgress, Sessions
  <2>15. QED BY <2>1, <2>4, <2>13, <2>14 DEF EgressSessionForDevice
<1>2. BackedInv /\ StableInv /\ [Next]_vars => [\A n \in Stable : ~FallbackMissed(n)]_vars
  BY <1>1
<1>3. QED BY <1>2, BackedInvariant, StableInvariant, PTL DEF Spec, StableFallbackHonoured

(* Where notifications can be targeted, a multicast reaches no device but  *)
(* those proven to be one of its receivers.                                *)
THEOREM NotifiesOnlyReceivers ==
    ASSUME ~HintReplacesResolved, ~LinuxNotify
    PROVE  Spec => NotifyOnlyReceivers
<1> DEFINE A == \A receivers \in SUBSET Node : DispatchMulticast(receivers) =>
                  \A d \in radio'.devices : \E n \in receivers : peers[d] = Resolved(n)
<1>1. ASSUME BackedInv, NEW receivers \in SUBSET Node, DispatchMulticast(receivers),
             NEW d \in radio'.devices
      PROVE  \E n \in receivers : peers[d] = Resolved(n)
  <2>1. radio' # Radio("lost", {})
    BY <1>1 DEF Radio
  <2>2. PICK first \in [receivers -> Device] :
          /\ Deliverable(receivers)
          /\ \A n \in receivers : first[n] \in sessions[n].notify
          /\ radio' = Radio("notify", NotifiedDevices(receivers, first))
    BY <1>1, <2>1 DEF DispatchMulticast
  <2>3. d \in {first[n] : n \in receivers}
    BY <1>1, <2>2 DEF Radio, NotifiedDevices
  <2>4. PICK n \in receivers : d = first[n]
    BY <2>3
  <2>5. n \in Node /\ d \in Device /\ sessions[n] # None /\ ReferencesDevice(sessions[n], d)
    BY <2>2, <2>4 DEF Deliverable, SubscribedNodes, ReferencesDevice
  <2>6. QED BY <1>1, <2>5 DEF BackedInv, SessionsBacked
<1>2. BackedInv => [A]_vars
  BY <1>1
<1>3. QED BY <1>2, BackedInvariant, PTL DEF NotifyOnlyReceivers
=============================================================================
