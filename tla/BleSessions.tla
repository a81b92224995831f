----------------------------- MODULE BleSessions -----------------------------
(***************************************************************************)
(* The session state machine of the BLE runtime task                       *)
(* (crates/jq-link-profile/src/task.rs, `BleRuntimeTask`).                 *)
(*                                                                         *)
(* One task owns all of this state and runs one handler at a time, so a    *)
(* handler is one action here.  What a handler shows to the outside is in  *)
(* two output variables: `emits`, the ingress events in the order it emits *)
(* them (BleRuntime puts them through the mailbox), and `radio`, what it   *)
(* does on the air.                                                        *)
(*                                                                         *)
(* The environment is the platform stack.  It may report any event about   *)
(* any device at any time; answers to reads, and the success of opening a  *)
(* channel or sending on one, are nondeterministic.                        *)
(***************************************************************************)
EXTENDS PeerSessions

CONSTANTS
    Node,      \* remote node identities
    PrefixOf,  \* node -> the six-byte prefix it advertises
    Rotating,             \* nodes that may be live behind two device ids at once
    HintReplacesResolved, \* does a new hint overwrite a resolved identity?
    LinuxNotify           \* BlueZ: notifications cannot be targeted

Prefix == {PrefixOf[n] : n \in Node}

Observed(n, ep) == [type |-> "observed", node |-> n, endpoint |-> ep]
Faulted(n, ep)  == [type |-> "faulted",  node |-> n, endpoint |-> ep]
Payload(n, ep)  == [type |-> "payload",  node |-> n, endpoint |-> ep]

Event == [type : {"observed", "faulted", "payload"}, node : Node,
          endpoint : EndpointType]

(* PeerIdentityState of the peer directory *)
Unknown     == [kind |-> "unknown",  of |-> None]
Hint(p)     == [kind |-> "hint",     of |-> p]
Resolved(n) == [kind |-> "resolved", of |-> n]

Identity == {Unknown} \cup {Hint(p) : p \in Prefix} \cup {Resolved(n) : n \in Node}

Radio(op, ds) == [op |-> op, devices |-> ds]

RadioType ==
    [op : {"idle", "connect", "disconnect", "refresh", "ack", "nack", "write",
           "frame", "notify", "lost"},
     devices : SUBSET Device]

Idle == Radio("idle", {})

VARIABLES
    peers,          \* device -> Identity
    sessions,       \* node -> PeerSessions, or None when the map has no entry
    channels,       \* channel id -> [node, device], or None
    nextChannelId,
    restored,       \* restored devices that are not rehydrated yet
    subscribed,     \* external: devices subscribed at the platform's GATT server
    emits,          \* output: ingress events of the last handler
    radio,          \* output: what the last handler did on the air
    reported        \* history: last event emitted per node and link class

core == <<peers, sessions, channels, nextChannelId, restored, subscribed>>
vars == <<peers, sessions, channels, nextChannelId, restored, subscribed,
          emits, radio, reported>>

ASSUME NodeAssumption ==
    /\ None \notin Node
    /\ None \notin Prefix
    /\ None \notin PeerSessionsType
    /\ None \notin [node : Node, device : Device]
    /\ None \notin Event
    /\ Rotating \subseteq Node
    /\ HintReplacesResolved \in BOOLEAN
    /\ LinuxNotify \in BOOLEAN

LinkClass == {"unicast", "notify"}

ClassOf(event) ==
    IF event.endpoint = NotifyEndpoint THEN "notify" ELSE "unicast"

Init ==
    /\ peers = [d \in Device |-> Unknown]
    /\ sessions = [n \in Node |-> None]
    /\ channels = [c \in ChannelId |-> None]
    /\ nextChannelId = 0
    /\ restored \in SUBSET Device
    /\ subscribed = {}
    /\ emits = <<>>
    /\ radio = Idle
    /\ reported = [n \in Node |-> [k \in LinkClass |-> None]]

-----------------------------------------------------------------------------
(* Outputs *)

(* The link events of es about node n and link class k.                    *)
LinkEvents(es, n, k) ==
    {i \in DOMAIN es : /\ es[i].type # "payload"
                       /\ es[i].node = n
                       /\ ClassOf(es[i]) = k}

Emit(es) ==
    /\ emits' = es
    /\ reported' =
         [n \in Node |-> [k \in LinkClass |->
            LET is == LinkEvents(es, n, k)
            IN  IF is = {} THEN reported[n][k]
                ELSE es[CHOOSE i \in is : \A j \in is : j <= i]]]

EmitNothing == Emit(<<>>)

-----------------------------------------------------------------------------
(* Helpers of the handlers *)

ResolvedNodeIdForDevice(d) ==
    {n \in Node : peers[d] = Resolved(n)}

EgressSessionForDevice(ss, d) ==
    UNION {EgressForDevice(ss[n], d) : n \in {m \in Node : ss[m] # None}}

InstallGattSession(ss, n, d) ==
    [ss EXCEPT ![n] = IF @ = None THEN GattWithFallback(GattCentral(d))
                      ELSE InstallGattCentral(@, GattCentral(d))]

InstallL2capSession(ss, n, d, c) ==
    [ss EXCEPT ![n] = IF @ = None THEN L2capPreferred(L2cap(d, c), None)
                      ELSE PromoteL2cap(@, L2cap(d, c))]

RegisterL2capChannel(n, d) ==
    /\ nextChannelId < MaxChannels
    /\ channels' = [channels EXCEPT ![nextChannelId] = [node |-> n, device |-> d]]
    /\ nextChannelId' = nextChannelId + 1

(* The identities a read of d's node id characteristic may return.  Unless *)
(* a node is rotating, the platform has reported its old device id gone    *)
(* before it answers behind a new one.                                     *)
NodeIdsServedBy(d) ==
    {n \in Node : n \in Rotating \/ \A e \in Device \ {d} : peers[e] # Resolved(n)}

(* The L2CAP upgrade is attempted after the GATT link has been reported:   *)
(* the PSM read, opening the channel or writing our identity may fail.     *)
InstallResolvedPeer(n, d) ==
    LET gatt == InstallGattSession(sessions, n, d)
    IN  /\ peers' = [peers EXCEPT ![d] = Resolved(n)]
        /\ \/ /\ sessions' = gatt
              /\ Emit(<<Observed(n, GattEndpoint(d))>>)
              /\ UNCHANGED <<channels, nextChannelId>>
           \/ /\ RegisterL2capChannel(n, d)
              /\ sessions' = InstallL2capSession(gatt, n, d, nextChannelId)
              /\ Emit(<<Observed(n, GattEndpoint(d)),
                        Observed(n, Endpoint(L2cap(d, nextChannelId)))>>)

(* External: PeerDirectory::upsert_hint.                                   *)
UpsertHint(d, p) ==
    peers' = IF peers[d].kind = "resolved" /\ ~HintReplacesResolved
             THEN peers ELSE [peers EXCEPT ![d] = Hint(p)]

(* Mutation: a disconnect is not reported. *)
FaultedLinksForDevice_Silent(n, d) == <<>>

FaultedLinksForDevice(n, d) ==
    IF sessions[n] = None THEN <<>>
    ELSE LET eps == EndpointsForDevice(sessions[n], d)
         IN  [i \in DOMAIN eps |-> Faulted(n, eps[i])]

(* Mutation: the channels outlive the disconnect. *)
DropL2capChannelsForNode_Keeps(n) == channels

DropL2capChannelsForNode(n) ==
    [c \in ChannelId |-> IF channels[c] # None /\ channels[c].node = n
                         THEN None ELSE channels[c]]

HandleL2capChannelClosed(c) ==
    LET channel == channels[c]
        before  == sessions[channel.node]
        after   == DowngradeL2cap(before, c)
        egress  == PreferredEgress(after)
    IN  /\ channels' = [channels EXCEPT ![c] = None]
        /\ IF channel = None \/ before = None
           THEN EmitNothing /\ UNCHANGED sessions
           ELSE /\ sessions' = [sessions EXCEPT ![channel.node] = after]
                /\ Emit(IF egress = None THEN <<>>
                        ELSE <<Observed(channel.node, Endpoint(egress))>>)

-----------------------------------------------------------------------------
(* Central role: discovery, connection, identity, disconnection *)

HandleDeviceDiscovered(d, p) ==
    /\ UpsertHint(d, p)
    /\ radio' = Radio("connect", {d})
    /\ EmitNothing
    /\ UNCHANGED <<sessions, channels, nextChannelId, subscribed>>

HandleDeviceConnected(d) ==
    /\ \/ \* the identity read fails or is malformed
          /\ radio' = Radio("refresh", {d})
          /\ EmitNothing
          /\ UNCHANGED <<peers, sessions, channels, nextChannelId>>
       \/ \E n \in NodeIdsServedBy(d) :
            \/ /\ peers[d].kind # "hint"
               /\ radio' = Idle
               /\ EmitNothing
               /\ UNCHANGED <<peers, sessions, channels, nextChannelId>>
            \/ /\ peers[d].kind = "hint"
               /\ peers[d].of # PrefixOf[n]
               /\ peers' = [peers EXCEPT ![d] = Unknown]
               /\ radio' = Radio("disconnect", {d})
               /\ EmitNothing
               /\ UNCHANGED <<sessions, channels, nextChannelId>>
            \/ /\ peers[d] = Hint(PrefixOf[n])
               /\ InstallResolvedPeer(n, d)
               /\ radio' = Idle
    /\ UNCHANGED subscribed

HandleDeviceDisconnected(d) ==
    /\ peers' = [peers EXCEPT ![d] = Unknown]
    /\ \/ /\ peers[d].kind # "resolved"
          /\ EmitNothing
          /\ UNCHANGED channels
       \/ \E n \in ResolvedNodeIdForDevice(d) :
            /\ Emit(FaultedLinksForDevice(n, d))
            /\ channels' = DropL2capChannelsForNode(n)
    /\ sessions' = [n \in Node |->
                      IF sessions[n] # None /\ ReferencesDevice(sessions[n], d)
                      THEN None ELSE sessions[n]]
    /\ radio' \in {Idle, Radio("refresh", {d})}
    /\ UNCHANGED <<nextChannelId, subscribed>>

(* A notification or a write without a proven identity behind it is        *)
(* dropped; a write request is answered either way.                        *)
HandleCharacteristicNotification(d) ==
    /\ Emit(IF peers[d].kind = "resolved"
            THEN <<Payload(peers[d].of, GattEndpoint(d))>> ELSE <<>>)
    /\ radio' = Idle
    /\ UNCHANGED <<peers, sessions, channels, nextChannelId, subscribed>>

HandleC2pWrite(d) ==
    /\ IF peers[d].kind = "resolved"
       THEN /\ Emit(<<Payload(peers[d].of, GattEndpoint(d))>>)
            /\ radio' = Radio("ack", {d})
       ELSE /\ EmitNothing
            /\ radio' = Radio("nack", {d})
    /\ UNCHANGED <<peers, sessions, channels, nextChannelId, subscribed>>

(* Any other read or write: our node id is answered, our PSM only while a  *)
(* listener is open (Startup), and every other characteristic is refused.  *)
AnswerRequest(d) ==
    /\ radio' \in {Radio("ack", {d}), Radio("nack", {d})}
    /\ EmitNothing
    /\ UNCHANGED <<peers, sessions, channels, nextChannelId, subscribed>>

-----------------------------------------------------------------------------
(* Peripheral role: subscriptions *)

HandleP2cSubscription(d) ==
    /\ subscribed' = subscribed \cup {d}
    /\ \/ /\ peers[d].kind # "resolved"
          /\ EmitNothing
          /\ UNCHANGED sessions
       \/ \E n \in ResolvedNodeIdForDevice(d) :
            /\ sessions' = [sessions EXCEPT
                 ![n] = IF @ = None THEN GattNotifyFanout(d)
                        ELSE InstallGattSubscription(@, d)]
            /\ Emit(<<Observed(n, NotifyEndpoint)>>)
    /\ radio' = Idle
    /\ UNCHANGED <<peers, channels, nextChannelId>>

HandleP2cUnsubscription(d) ==
    LET Known(n) == sessions[n] # None /\ d \in sessions[n].notify
    IN  /\ subscribed' = subscribed \ {d}
        /\ \/ /\ \A n \in ResolvedNodeIdForDevice(d) : ~Known(n)
              /\ EmitNothing
              /\ UNCHANGED sessions
           \/ \E n \in ResolvedNodeIdForDevice(d) :
                /\ Known(n)
                /\ sessions' = [sessions EXCEPT ![n] = RemoveGattSubscription(@, d)]
                /\ Emit(<<Faulted(n, NotifyEndpoint)>>)
        /\ radio' = Idle
        /\ UNCHANGED <<peers, channels, nextChannelId>>

-----------------------------------------------------------------------------
(* L2CAP *)

(* Mutation: the identity written on the channel is believed. *)
HandleL2capAccept_Unchecked(d, n) ==
    /\ RegisterL2capChannel(n, d)
    /\ sessions' = InstallL2capSession(sessions, n, d, nextChannelId)
    /\ Emit(<<Observed(n, Endpoint(L2cap(d, nextChannelId)))>>)
    /\ radio' = Idle
    /\ UNCHANGED <<peers, subscribed>>

(* n is the identity the remote wrote at the head of the channel.          *)
HandleL2capAccept(d, n) ==
    /\ IF peers[d] = Resolved(n)
       THEN /\ RegisterL2capChannel(n, d)
            /\ sessions' = InstallL2capSession(sessions, n, d, nextChannelId)
            /\ Emit(<<Observed(n, Endpoint(L2cap(d, nextChannelId)))>>)
       ELSE EmitNothing /\ UNCHANGED <<sessions, channels, nextChannelId>>
    /\ radio' = Idle
    /\ UNCHANGED <<peers, subscribed>>

FrameReceived(c) ==
    /\ Emit(IF channels[c] = None THEN <<>>
            ELSE <<Payload(channels[c].node, Endpoint(L2cap(channels[c].device, c)))>>)
    /\ radio' = Idle
    /\ UNCHANGED <<peers, sessions, channels, nextChannelId, subscribed>>

ChannelClosed(c) ==
    /\ HandleL2capChannelClosed(c)
    /\ radio' = Idle
    /\ UNCHANGED <<peers, nextChannelId, subscribed>>

-----------------------------------------------------------------------------
(* Dispatch of outbound commands *)

(* A unicast goes out through the session whose preferred egress is the    *)
(* device.  When an L2CAP send fails, the channel is closed and the lookup *)
(* is repeated; a second failure on the same channel gives up.             *)
DispatchUnicast(d) ==
    /\ \/ /\ EgressSessionForDevice(sessions, d) = {}
          /\ radio' = Radio("lost", {d})
          /\ EmitNothing
          /\ UNCHANGED <<sessions, channels>>
       \/ \E s \in EgressSessionForDevice(sessions, d) :
            \/ /\ s.kind = "gatt"
               /\ radio' = Radio("write", {d})
               /\ EmitNothing
               /\ UNCHANGED <<sessions, channels>>
            \/ /\ s.kind = "l2cap"
               /\ channels[s.channel] # None
               /\ radio' = Radio("frame", {d})
               /\ EmitNothing
               /\ UNCHANGED <<sessions, channels>>
            \/ /\ s.kind = "l2cap"
               /\ HandleL2capChannelClosed(s.channel)
               /\ radio' = IF GattCentral(d) \in EgressSessionForDevice(sessions', d)
                           THEN Radio("write", {d}) ELSE Radio("lost", {d})
    /\ UNCHANGED <<peers, nextChannelId, subscribed>>

SubscribedNodes == {n \in Node : sessions[n] # None /\ sessions[n].notify # {}}

(* Mutation: every platform notifies like BlueZ. *)
NotifiedDevices_Broadcast(receivers, first) == subscribed

(* One subscriber device per receiver is notified.  BlueZ notifies once,   *)
(* and the platform delivers that to every subscribed central.             *)
NotifiedDevices(receivers, first) ==
    IF LinuxNotify THEN subscribed ELSE {first[n] : n \in receivers}

Deliverable(receivers) ==
    /\ receivers # {}
    /\ receivers \subseteq SubscribedNodes
    /\ LinuxNotify => receivers = SubscribedNodes

DispatchMulticast(receivers) ==
    /\ \/ /\ ~Deliverable(receivers)
          /\ radio' = Radio("lost", {})
       \/ /\ Deliverable(receivers)
          /\ \E first \in [receivers -> Device] :
               /\ \A n \in receivers : first[n] \in sessions[n].notify
               /\ radio' = Radio("notify", NotifiedDevices(receivers, first))
    /\ EmitNothing
    /\ UNCHANGED <<peers, sessions, channels, nextChannelId, subscribed>>

(* A unicast whose locator names no BLE device, a multicast to another     *)
(* endpoint than the fanout one, and every broadcast intent are dropped.   *)
DispatchUndeliverable ==
    /\ radio' = Radio("lost", {})
    /\ EmitNothing
    /\ UNCHANGED <<peers, sessions, channels, nextChannelId, subscribed>>

-----------------------------------------------------------------------------
(* Rehydration runs before the event loop.  A restored device with a hint  *)
(* service is treated as discovered; without one its identity is read      *)
(* directly.                                                               *)
HandleRestoredDevice(d) ==
    /\ restored' = restored \ {d}
    /\ \/ \E p \in Prefix : HandleDeviceDiscovered(d, p)
       \/ /\ \/ /\ radio' = Radio("refresh", {d})
                /\ EmitNothing
                /\ UNCHANGED <<peers, sessions, channels, nextChannelId>>
             \/ \E n \in NodeIdsServedBy(d) :
                  /\ InstallResolvedPeer(n, d)
                  /\ radio' = Radio("connect", {d})
          /\ UNCHANGED subscribed

Rehydrate == \E d \in restored : HandleRestoredDevice(d)

HandleCentralEvent ==
    \E d \in Device :
        \/ \E p \in Prefix : HandleDeviceDiscovered(d, p)
        \/ HandleDeviceConnected(d)
        \/ HandleDeviceDisconnected(d)
        \/ HandleCharacteristicNotification(d)

HandlePeripheralRequest == \E d \in Device : HandleC2pWrite(d) \/ AnswerRequest(d)

HandlePeripheralStateEvent ==
    \E d \in Device : HandleP2cSubscription(d) \/ HandleP2cUnsubscription(d)

HandleL2capRuntimeEvent ==
    \E c \in ChannelId : c < nextChannelId /\ (FrameReceived(c) \/ ChannelClosed(c))

DispatchOutboundCommand ==
    \/ \E d \in Device : DispatchUnicast(d)
    \/ \E receivers \in SUBSET Node : DispatchMulticast(receivers)
    \/ DispatchUndeliverable

(* One turn of the select loop. *)
HandleEvent ==
    /\ restored = {}
    /\ UNCHANGED restored
    /\ \/ HandleCentralEvent
       \/ HandlePeripheralRequest
       \/ HandlePeripheralStateEvent
       \/ \E d \in Device, n \in Node : HandleL2capAccept(d, n)
       \/ HandleL2capRuntimeEvent
       \/ DispatchOutboundCommand

Next == Rehydrate \/ HandleEvent

Spec == Init /\ [][Next]_vars

-----------------------------------------------------------------------------
(* Properties *)

(* Every variable stays in the range its Rust type gives it.               *)
TypeOK ==
    /\ peers \in [Device -> Identity]
    /\ sessions \in [Node -> PeerSessionsType \cup {None}]
    /\ channels \in [ChannelId -> [node : Node, device : Device] \cup {None}]
    /\ nextChannelId \in 0 .. MaxChannels
    /\ restored \in SUBSET Device
    /\ subscribed \in SUBSET Device
    /\ emits \in Seq(Event)
    /\ radio \in RadioType
    /\ reported \in [Node -> [LinkClass -> Event \cup {None}]]

(* A peer's entry never refers to a device whose identity is not currently *)
(* proven to be that peer: not after the device disconnected, was refused  *)
(* for a hint mismatch, or came back as another node.                      *)
SessionsBacked ==
    \A n \in Node, d \in Device :
        sessions[n] # None /\ ReferencesDevice(sessions[n], d)
            => peers[d] = Resolved(n)

(* A live channel belongs to a currently proven identity, and a session    *)
(* that names a live channel names the channel of its own peer and device. *)
(* Channel ids are never reused, so a late event of an old channel cannot  *)
(* be attributed to a new one.                                             *)
ChannelsBacked ==
    /\ \A c \in ChannelId :
          channels[c] # None =>
            /\ c < nextChannelId
            /\ peers[channels[c].device] = Resolved(channels[c].node)
    /\ \A n \in Node : sessions[n] # None /\ sessions[n].mode = "l2cap" =>
          LET c == sessions[n].session.channel
          IN  /\ c < nextChannelId
              /\ channels[c] # None =>
                   channels[c] = [node |-> n, device |-> sessions[n].session.device]

(* Every payload and every active unicast link handed to the router is     *)
(* attributed to the identity proven for that device at that moment; late  *)
(* frames of a dropped channel and the fallback of a closed one included.  *)
EmitsBacked ==
    \A i \in DOMAIN emits :
        emits[i].type # "faulted" /\ emits[i].endpoint # NotifyEndpoint
            => peers[emits[i].endpoint.device] = Resolved(emits[i].node)

(* The peers whose session egress_session_for_device could pick for d.     *)
Answering(d) == {n \in Node : sessions[n] # None /\ EgressForDevice(sessions[n], d) # {}}

(* Dispatch looks an egress up by device: at most one peer answers, so the *)
(* map order in which the code searches cannot send to the wrong peer.     *)
UniqueEgress ==
    \A d \in Device : \A n, m \in Answering(d) : n = m

(* A restored device has no identity before it is rehydrated.              *)
RestoredUnknown == \A d \in restored : peers[d] = Unknown

(* The inductive invariant behind the three properties above.              *)
BackedInv == TypeOK /\ SessionsBacked /\ ChannelsBacked /\ RestoredUnknown

Stable == Node \ Rotating

(* The session of a stable peer never prefers a channel that is no longer  *)
(* registered.                                                             *)
NoDanglingChannel ==
    \A n \in Stable : sessions[n] # None /\ sessions[n].mode = "l2cap"
        => channels[sessions[n].session.channel] # None

(* A device that is proven to be a stable peer can be sent to.             *)
ResolvedReachable ==
    \A d \in Device, n \in Stable : peers[d] = Resolved(n)
        => EgressSessionForDevice(sessions, d) # {}

(* In the order of emission, the last unicast link event about a stable    *)
(* peer is an observation of exactly its preferred egress, and there is    *)
(* none or a fault when the peer has no egress.                            *)
UnicastReportAccurate ==
    \A n \in Stable :
        LET egress == IF sessions[n] = None THEN None
                      ELSE PreferredEgress(sessions[n])
            last == reported[n]["unicast"]
        IN  IF egress = None THEN last # None => last.type = "faulted"
            ELSE last = Observed(n, Endpoint(egress))

(* In the order of emission, the fanout link of a stable peer is reported  *)
(* up exactly while the peer has a subscriber.                             *)
NotifyReportAccurate ==
    \A n \in Stable :
        (n \in SubscribedNodes) <=> (reported[n]["notify"] = Observed(n, NotifyEndpoint))

(* A unicast is lost although peer n has a GATT session with its device to *)
(* fall back to.                                                           *)
FallbackMissed(n) ==
    \E d \in Device :
        /\ radio' = Radio("lost", {d})
        /\ EgressSessionForDevice(sessions, d) # {}
        /\ sessions[n] # None
        /\ GattCentral(d) \in IterSessions(sessions[n])

(* A unicast that finds an egress is not lost while the peer also has a    *)
(* GATT session with that device to fall back to, whether its channel just *)
(* broke, was broken before, or is already gone.                           *)
FallbackHonoured == [][\A n \in Node : ~FallbackMissed(n)]_vars

(* The same for stable peers only.                                         *)
StableFallbackHonoured == [][\A n \in Stable : ~FallbackMissed(n)]_vars

(* A notification reaches no central but those of the admitted receivers.  *)
NotifyOnlyReceivers ==
    [][\A receivers \in SUBSET Node : DispatchMulticast(receivers) =>
         \A d \in radio'.devices : \E n \in receivers : peers[d] = Resolved(n)]_vars
=============================================================================
