------------------------ MODULE PeerSessions_proofs ------------------------
(***************************************************************************)
(* What the operations on a session table entry preserve: the shape of the *)
(* entry, the devices it refers to, and the channel it prefers.            *)
(***************************************************************************)
EXTENDS PeerSessions, TLAPS

(* The endpoints of a device listed for a fault are at most three: the     *)
(* preferred session, its fallback and the notify fanout.                  *)
LEMMA EndpointTypes ==
    ASSUME NEW ps \in PeerSessionsType, NEW d \in Device
    PROVE  /\ EndpointsForDevice(ps, d) \in Seq(EndpointType)
           /\ Len(EndpointsForDevice(ps, d)) <= 3
<1> DEFINE Of(s) == IF s # None /\ s.device = d THEN <<Endpoint(s)>> ELSE <<>>
           Notify == IF d \in ps.notify THEN <<NotifyEndpoint>> ELSE <<>>
<1>1. ASSUME NEW s \in GattSession \cup L2capSession \cup {None}
      PROVE  Of(s) \in Seq(EndpointType) /\ Len(Of(s)) <= 1
  <2>1. CASE s # None /\ s.device = d
    <3>1. Endpoint(s) \in EndpointType
      BY <1>1, <2>1 DEF Endpoint, EndpointType, GattSession, L2capSession, GattCentral, L2cap
    <3>2. QED BY <2>1, <3>1
  <2>2. CASE ~(s # None /\ s.device = d)
    BY <2>2
  <2>3. QED BY <2>1, <2>2
<1>2. Notify \in Seq(EndpointType) /\ Len(Notify) <= 1
  <2>1. NotifyEndpoint \in EndpointType
    BY DEF EndpointType
  <2>2. CASE d \in ps.notify
    BY <2>1, <2>2
  <2>3. CASE d \notin ps.notify
    BY <2>3
  <2>4. QED BY <2>2, <2>3
<1>3. /\ ps.session \in GattSession \cup L2capSession \cup {None}
      /\ ps.fallback \in GattSession \cup L2capSession \cup {None}
  BY DEF PeerSessionsType
<1>4. Of(ps.session) \in Seq(EndpointType) /\ Len(Of(ps.session)) <= 1
  BY <1>1, <1>3
<1>5. Of(ps.fallback) \in Seq(EndpointType) /\ Len(Of(ps.fallback)) <= 1
  BY <1>1, <1>3
<1>6. EndpointsForDevice(ps, d) = Of(ps.session) \o Of(ps.fallback) \o Notify
  BY DEF EndpointsForDevice
<1> HIDE DEF Of, Notify
<1>7. QED BY <1>2, <1>4, <1>5, <1>6

(* A session constructor yields a session, and no session is None.         *)
LEMMA SessionShape ==
    /\ \A d \in Device : /\ GattCentral(d) \in GattSession
                         /\ GattCentral(d) # None
                         /\ GattCentral(d).device = d
                         /\ GattCentral(d).kind = "gatt"
    /\ \A d \in Device, c \in ChannelId : /\ L2cap(d, c) \in L2capSession
                                          /\ L2cap(d, c) # None
                                          /\ L2cap(d, c).device = d
                                          /\ L2cap(d, c).channel = c
                                          /\ L2cap(d, c).kind = "l2cap"
    /\ \A s \in GattSession : s # None /\ s.device \in Device
    /\ \A s \in L2capSession : /\ s # None
                               /\ s.device \in Device
                               /\ s.channel \in ChannelId
<1>1. \A d \in Device : /\ GattCentral(d) \in GattSession
                         /\ GattCentral(d).device = d
                         /\ GattCentral(d).kind = "gatt"
  BY DEF GattSession, GattCentral
<1>2. \A d \in Device, c \in ChannelId : /\ L2cap(d, c) \in L2capSession
                                          /\ L2cap(d, c).device = d
                                          /\ L2cap(d, c).channel = c
                                          /\ L2cap(d, c).kind = "l2cap"
  BY DEF L2capSession, L2cap
<1>3. \A s \in GattSession : s # None /\ s.device \in Device
  BY NoneAssumption DEF GattSession, GattCentral
<1>4. \A s \in L2capSession : /\ s # None
                              /\ s.device \in Device
                              /\ s.channel \in ChannelId
  BY NoneAssumption DEF L2capSession, L2cap
<1>5. QED BY <1>1, <1>2, <1>3, <1>4

(* The fields of an entry, mode by mode.                                   *)
LEMMA EntryShape ==
    ASSUME NEW ps \in PeerSessionsType
    PROVE  /\ ps.mode \in {"disconnected", "gatt", "l2cap"}
           /\ ps.notify \in SUBSET Device
           /\ ps.mode = "disconnected" => ps.session = None /\ ps.fallback = None
           /\ ps.mode = "gatt" => ps.session \in GattSession /\ ps.fallback = None
           /\ ps.mode = "l2cap" => /\ ps.session \in L2capSession
                                   /\ ps.fallback \in GattSession \cup {None}
           /\ ps = Sessions(ps.mode, ps.session, ps.fallback, ps.notify)
BY DEF PeerSessionsType, Sessions

(* Conversely, fields that fit the mode make an entry.                     *)
LEMMA EntryType ==
    ASSUME NEW mode, NEW session, NEW fallback, NEW notify \in SUBSET Device,
           \/ mode = "disconnected" /\ session = None /\ fallback = None
           \/ mode = "gatt" /\ session \in GattSession /\ fallback = None
           \/ /\ mode = "l2cap" /\ session \in L2capSession
              /\ fallback \in GattSession \cup {None}
    PROVE  Sessions(mode, session, fallback, notify) \in PeerSessionsType
BY DEF PeerSessionsType, Sessions

(* Installing a GATT session adds no reference but to its own device, and  *)
(* keeps the preferred channel of an L2CAP entry.                          *)
LEMMA InstallGattCentralFacts ==
    ASSUME NEW ps \in PeerSessionsType, NEW d \in Device
    PROVE  LET new == InstallGattCentral(ps, GattCentral(d))
           IN  /\ new \in PeerSessionsType
               /\ \A e \in Device : ReferencesDevice(new, e)
                                      => e = d \/ ReferencesDevice(ps, e)
               /\ new.mode = "l2cap" => ps.mode = "l2cap" /\ new.session = ps.session
<1> DEFINE new == InstallGattCentral(ps, GattCentral(d))
<1>1. CASE ps.mode # "l2cap"
  <2>1. new = Sessions("gatt", GattCentral(d), None, ps.notify)
    BY <1>1 DEF InstallGattCentral
  <2>2. new \in PeerSessionsType
    BY <2>1, SessionShape, EntryShape, EntryType
  <2>3. QED
    BY <2>1, <2>2, SessionShape DEF ReferencesDevice, IterSessions, Sessions
<1>2. CASE ps.mode = "l2cap" /\ ps.fallback = None
  <2>1. new = [ps EXCEPT !.fallback = GattCentral(d)]
    BY <1>2 DEF InstallGattCentral
  <2>2. new = Sessions("l2cap", ps.session, GattCentral(d), ps.notify)
    BY <1>2, <2>1, EntryShape DEF Sessions, PeerSessionsType
  <2>3. new \in PeerSessionsType
    BY <1>2, <2>2, SessionShape, EntryShape, EntryType
  <2>4. QED
    BY <1>2, <2>2, <2>3, SessionShape DEF ReferencesDevice, IterSessions, Sessions
<1>3. CASE ps.mode = "l2cap" /\ ps.fallback # None
  BY <1>3 DEF InstallGattCentral
<1>4. QED BY <1>1, <1>2, <1>3

(* Promoting a channel adds no reference but to its device.                *)
LEMMA PromoteL2capFacts ==
    ASSUME NEW ps \in PeerSessionsType, NEW d \in Device, NEW c \in ChannelId
    PROVE  LET new == PromoteL2cap(ps, L2cap(d, c))
           IN  /\ new \in PeerSessionsType
               /\ \A e \in Device : ReferencesDevice(new, e)
                                      => e = d \/ ReferencesDevice(ps, e)
               /\ new.session = L2cap(d, c)
<1> DEFINE new == PromoteL2cap(ps, L2cap(d, c))
<1>1. new = Sessions("l2cap", L2cap(d, c), FirstGattFallback(ps), ps.notify)
  BY DEF PromoteL2cap
<1>2. FirstGattFallback(ps) \in GattSession \cup {None}
  BY EntryShape DEF FirstGattFallback
<1>3. new \in PeerSessionsType
  BY <1>1, <1>2, SessionShape, EntryShape, EntryType
<1>4. FirstGattFallback(ps) \in {ps.session, ps.fallback}
  BY DEF FirstGattFallback
<1>5. QED
  BY <1>1, <1>3, <1>4, SessionShape DEF ReferencesDevice, IterSessions, Sessions

(* Closing a channel adds no reference and never leaves a different        *)
(* channel preferred.                                                      *)
LEMMA DowngradeL2capFacts ==
    ASSUME NEW ps \in PeerSessionsType, NEW c \in ChannelId
    PROVE  LET new == DowngradeL2cap(ps, c)
           IN  /\ new \in PeerSessionsType
               /\ \A e \in Device : ReferencesDevice(new, e) => ReferencesDevice(ps, e)
               /\ new.mode = "l2cap" => /\ new = ps
                                        /\ ps.session.channel # c
<1> DEFINE new == DowngradeL2cap(ps, c)
<1>1. CASE ps.mode = "l2cap" /\ ps.session.channel = c /\ ps.fallback # None
  <2>1. new = Sessions("gatt", ps.fallback, None, ps.notify)
    BY <1>1 DEF DowngradeL2cap
  <2>2. new \in PeerSessionsType
    BY <1>1, <2>1, EntryShape, EntryType
  <2>3. QED
    BY <1>1, <2>1, <2>2 DEF ReferencesDevice, IterSessions, Sessions
<1>2. CASE ps.mode = "l2cap" /\ ps.session.channel = c /\ ps.fallback = None
  <2>1. new = Sessions("disconnected", None, None, ps.notify)
    BY <1>2 DEF DowngradeL2cap
  <2>2. new \in PeerSessionsType
    BY <1>2, <2>1, EntryShape, EntryType
  <2>3. QED
    BY <1>2, <2>1, <2>2 DEF ReferencesDevice, IterSessions, Sessions
<1>3. CASE ~(ps.mode = "l2cap" /\ ps.session.channel = c)
  BY <1>3 DEF DowngradeL2cap
<1>4. QED BY <1>1, <1>2, <1>3

(* The subscription operations touch the subscriber set only.              *)
LEMMA SubscriptionFacts ==
    ASSUME NEW ps \in PeerSessionsType, NEW d \in Device
    PROVE  /\ LET new == InstallGattSubscription(ps, d)
              IN  /\ new \in PeerSessionsType
                  /\ new.mode = ps.mode /\ new.session = ps.session
                  /\ \A e \in Device : ReferencesDevice(new, e)
                                         => e = d \/ ReferencesDevice(ps, e)
           /\ LET new == RemoveGattSubscription(ps, d)
              IN  /\ new \in PeerSessionsType
                  /\ new.mode = ps.mode /\ new.session = ps.session
                  /\ \A e \in Device : ReferencesDevice(new, e) => ReferencesDevice(ps, e)
<1>1. InstallGattSubscription(ps, d)
        = Sessions(ps.mode, ps.session, ps.fallback, ps.notify \cup {d})
  BY DEF InstallGattSubscription, Sessions, PeerSessionsType
<1>2. RemoveGattSubscription(ps, d)
        = Sessions(ps.mode, ps.session, ps.fallback, ps.notify \ {d})
  BY DEF RemoveGattSubscription, Sessions, PeerSessionsType
<1>3. /\ InstallGattSubscription(ps, d) \in PeerSessionsType
      /\ RemoveGattSubscription(ps, d) \in PeerSessionsType
  BY <1>1, <1>2, EntryShape, EntryType
<1>4. QED
  BY <1>1, <1>2, <1>3 DEF ReferencesDevice, IterSessions, Sessions

(* The constructors of a fresh entry.                                      *)
LEMMA GattConstructorFacts ==
    ASSUME NEW d \in Device
    PROVE  /\ GattWithFallback(GattCentral(d)) \in PeerSessionsType
           /\ GattNotifyFanout(d) \in PeerSessionsType
           /\ GattWithFallback(GattCentral(d)).mode = "gatt"
           /\ GattNotifyFanout(d).mode = "disconnected"
           /\ \A e \in Device :
                /\ ReferencesDevice(GattWithFallback(GattCentral(d)), e) => e = d
                /\ ReferencesDevice(GattNotifyFanout(d), e) => e = d
<1>1. /\ GattWithFallback(GattCentral(d)) \in PeerSessionsType
      /\ GattNotifyFanout(d) \in PeerSessionsType
  BY SessionShape, EntryType DEF GattWithFallback, GattNotifyFanout
<1>2. QED
  BY <1>1, SessionShape DEF GattWithFallback, GattNotifyFanout,
                            ReferencesDevice, IterSessions, Sessions

(* A fresh L2CAP entry refers to the device of its channel only.           *)
LEMMA L2capConstructorFacts ==
    ASSUME NEW d \in Device, NEW c \in ChannelId
    PROVE  /\ L2capPreferred(L2cap(d, c), None) \in PeerSessionsType
           /\ L2capPreferred(L2cap(d, c), None).session = L2cap(d, c)
           /\ \A e \in Device :
                ReferencesDevice(L2capPreferred(L2cap(d, c), None), e) => e = d
<1>1. L2capPreferred(L2cap(d, c), None) \in PeerSessionsType
  BY SessionShape, EntryType DEF L2capPreferred
<1>2. QED
  BY <1>1, SessionShape DEF L2capPreferred, ReferencesDevice, IterSessions, Sessions
=============================================================================
