---------------------------- MODULE PeerSessions ----------------------------
(***************************************************************************)
(* The per-peer session table entry of the BLE runtime                     *)
(* (crates/jq-link-profile/src/transport.rs, `PeerSessions`).              *)
(*                                                                         *)
(* A peer has at most one unicast egress.  It is a GATT central session,   *)
(* or an L2CAP channel that may remember a GATT session to fall back to.   *)
(* Next to it the entry lists the devices through which the peer has       *)
(* subscribed to our notifications; those never carry unicast traffic.     *)
(*                                                                         *)
(* `ingress` and `egress` of the code's GattOnly state are always the same *)
(* session, so one field stands for both.  The subscriber list is a set:   *)
(* the code keeps it free of duplicates, and its order only decides which  *)
(* of several devices of one peer is named first.                          *)
(***************************************************************************)
EXTENDS Naturals, Sequences

CONSTANTS
    Device,       \* platform device identifiers (blew DeviceId)
    MaxChannels,  \* bound on the L2CAP channel ids a behaviour allocates
    None          \* Rust's Option::None

ChannelId == 0 .. MaxChannels - 1

ASSUME ChannelAssumption == MaxChannels \in Nat

-----------------------------------------------------------------------------
(* BleSession *)

GattCentral(d) == [kind |-> "gatt", device |-> d, channel |-> None]

L2cap(d, c) == [kind |-> "l2cap", device |-> d, channel |-> c]

GattSession == {GattCentral(d) : d \in Device}

L2capSession == {L2cap(d, c) : d \in Device, c \in ChannelId}

ASSUME NoneAssumption ==
    /\ None \notin Device
    /\ None \notin ChannelId
    /\ None \notin GattSession
    /\ None \notin L2capSession

(* LinkEndpoint: the transport kind and the locator of the device.  The    *)
(* notify fanout endpoint has a scope of its own and names no device.      *)

Endpoint(s) == [transport |-> s.kind, device |-> s.device]

GattEndpoint(d) == Endpoint(GattCentral(d))

NotifyEndpoint == [transport |-> "notify", device |-> None]

EndpointType ==
    [transport : {"gatt", "l2cap"}, device : Device] \cup {NotifyEndpoint}

-----------------------------------------------------------------------------
(* PeerSessionState and the constructors *)

Sessions(mode, session, fallback, notify) ==
    [mode |-> mode, session |-> session, fallback |-> fallback,
     notify |-> notify]

PeerSessionsType ==
    [mode : {"disconnected"}, session : {None}, fallback : {None},
     notify : SUBSET Device]
    \cup [mode : {"gatt"}, session : GattSession, fallback : {None},
          notify : SUBSET Device]
    \cup [mode : {"l2cap"}, session : L2capSession,
          fallback : GattSession \cup {None}, notify : SUBSET Device]

GattWithFallback(s) == Sessions("gatt", s, None, {})

GattNotifyFanout(d) == Sessions("disconnected", None, None, {d})

L2capPreferred(s, fallback) == Sessions("l2cap", s, fallback, {})

-----------------------------------------------------------------------------
(* Queries *)

IterSessions(ps) == {ps.session, ps.fallback} \ {None}

PreferredEgress(ps) == ps.session

FirstGattFallback(ps) ==
    IF ps.mode = "l2cap" THEN ps.fallback ELSE ps.session

(* Mutation: only the subscriptions are searched. *)
ReferencesDevice_NotifyOnly(ps, d) == d \in ps.notify

ReferencesDevice(ps, d) ==
    \/ \E s \in IterSessions(ps) : s.device = d
    \/ d \in ps.notify

(* In the order of the code: the preferred session, its fallback, the      *)
(* notify subscription.                                                    *)
EndpointsForDevice(ps, d) ==
    LET Of(s) == IF s # None /\ s.device = d THEN <<Endpoint(s)>> ELSE <<>>
        Notify == IF d \in ps.notify THEN <<NotifyEndpoint>> ELSE <<>>
    IN  Of(ps.session) \o Of(ps.fallback) \o Notify

EgressForDevice(ps, d) ==
    {s \in {PreferredEgress(ps)} \ {None} : s.device = d}

-----------------------------------------------------------------------------
(* Updates *)

InstallGattSubscription(ps, d) == [ps EXCEPT !.notify = @ \cup {d}]

RemoveGattSubscription(ps, d) == [ps EXCEPT !.notify = @ \ {d}]

InstallGattCentral(ps, s) ==
    CASE ps.mode # "l2cap" -> Sessions("gatt", s, None, ps.notify)
      [] ps.mode = "l2cap" /\ ps.fallback = None -> [ps EXCEPT !.fallback = s]
      [] OTHER -> ps

(* Mutation: the entry is rebuilt without its subscribers. *)
PromoteL2cap_ForgetsNotify(ps, s) == L2capPreferred(s, FirstGattFallback(ps))

PromoteL2cap(ps, s) ==
    Sessions("l2cap", s, FirstGattFallback(ps), ps.notify)

(* Mutations: the fallback becomes the session but the mode stays, the     *)
(* close is ignored, the fallback is forgotten.                            *)
DowngradeL2cap_ModeKept(ps, c) ==
    IF ps.mode = "l2cap" /\ ps.session.channel = c
    THEN [ps EXCEPT !.session = ps.fallback, !.fallback = None] ELSE ps

DowngradeL2cap_Ignored(ps, c) == ps

DowngradeL2cap_ForgetsFallback(ps, c) ==
    IF ps.mode = "l2cap" /\ ps.session.channel = c
    THEN Sessions("disconnected", None, None, ps.notify) ELSE ps

(* Closing any channel but the preferred one leaves the entry as it is.    *)
(* What the code returns is the preferred egress of the result.            *)
DowngradeL2cap(ps, c) ==
    CASE ps.mode = "l2cap" /\ ps.session.channel = c /\ ps.fallback # None
             -> Sessions("gatt", ps.fallback, None, ps.notify)
      [] ps.mode = "l2cap" /\ ps.session.channel = c /\ ps.fallback = None
             -> Sessions("disconnected", None, None, ps.notify)
      [] OTHER -> ps
=============================================================================
