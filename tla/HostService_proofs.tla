------------------------- MODULE HostService_proofs -------------------------
(***************************************************************************)
(* Proofs about the host application's service: the ranges of its state    *)
(* with the limits on relays, that overlapping start calls leave one       *)
(* service, that a client runs as long as somebody holds it, and that the  *)
(* encodings of client payloads and application frames are exact.          *)
(***************************************************************************)
EXTENDS HostService, FiniteSetTheorems, SequenceTheorems, TLAPS

(* A relay that has not sent yet has used no attempt, and one that is      *)
(* under way has one left.                                                 *)
RetryBudget ==
    \A c \in Caller, f \in Frame :
        /\ frame[c][f] \in {"none", "waiting"} => attempts[c][f] = 0
        /\ frame[c][f] \in {"sending", "sleeping"} => attempts[c][f] < AttemptsMax

(* The slot holds the service of a call that succeeded, and a host that is *)
(* gone has no slot and no call in progress.                               *)
SlotOwned ==
    /\ slot # None => caller[slot] = "ok"
    /\ hostGone => slot = None /\ \A c \in Caller : caller[c] \notin {"building", "built"}

(* The inductive invariant. *)
HostInv == TypeOK /\ RetryBudget /\ SlotOwned /\ OneService

-----------------------------------------------------------------------------
(* The limits are numbers, and the ones of the code are positive.          *)
LEMMA Limits ==
    /\ InflightMax \in Nat /\ InflightMax > 0
    /\ AttemptsMax \in Nat /\ AttemptsMax > 0
    /\ MaxFrames \in Nat
    /\ MaxEvents \in Nat
  BY HostAssumption

(* The frames of a service are finitely many, so permits can be counted.   *)
LEMMA InflightFinite ==
    ASSUME NEW c \in Caller
    PROVE  IsFiniteSet(Frame) /\ IsFiniteSet(Inflight(c)) /\ Cardinality(Inflight(c)) \in Nat
<1>1. IsFiniteSet(Frame)
  BY HostAssumption, FS_Interval DEF Frame
<1>2. Inflight(c) \in SUBSET Frame
  BY DEF Inflight
<1>3. QED BY <1>1, <1>2, FS_Subset, FS_CardinalityType

(* Permits are kept when the relays under way can only become fewer.       *)
LEMMA PermitsKept ==
    ASSUME NEW c \in Caller, TypeOK, Inflight(c)' \subseteq Inflight(c)
    PROVE  Cardinality(Inflight(c))' <= InflightMax
<1>1. IsFiniteSet(Inflight(c)) /\ Cardinality(Inflight(c)) \in Nat
  BY InflightFinite
<1>2. /\ Cardinality(Inflight(c)') <= Cardinality(Inflight(c))
      /\ Cardinality(Inflight(c)') \in Nat
  BY <1>1, FS_Subset, FS_CardinalityType
<1>3. Cardinality(Inflight(c)) <= InflightMax /\ InflightMax \in Nat
  BY HostAssumption DEF TypeOK
<1>4. QED BY <1>1, <1>2, <1>3

(* Setting the state of one frame leaves every other frame alone.          *)
LEMMA SetFrameEffect ==
    ASSUME TypeOK, NEW c \in Caller, NEW f \in Frame,
           NEW state \in {"ignored", "delivered", "waiting", "sending", "sleeping",
                          "forwarded", "dropped", "lost"},
           SetFrame(c, f, state)
    PROVE  /\ frame' \in [Caller -> [Frame -> {"none", "ignored", "delivered", "waiting",
                             "sending", "sleeping", "forwarded", "dropped", "lost"}]]
           /\ frame'[c][f] = state
           /\ \A d \in Caller, g \in Frame :
                 <<d, g>> # <<c, f>> => frame'[d][g] = frame[d][g]
  BY DEF SetFrame, TypeOK

(* What is received is ignored, delivered or relayed.                      *)
LEMMA PlacementRange ==
    ASSUME NEW payload
    PROVE  Placement(payload) \in {"ignored", "delivered", "waiting"}
  BY DEF Placement

(* Letting go of a service moves its pump only from running to aborted.    *)
LEMMA LetGoType ==
    ASSUME TypeOK, NEW c \in Caller, LetGo(c)
    PROVE  pump' \in [Caller -> {"none", "running", "aborted", "ended"}]
  BY DEF LetGo, TypeOK

-----------------------------------------------------------------------------
(* The relay's state: frames, attempts and permits. *)

RelayOK ==
    /\ frame \in [Caller -> [Frame -> {"none", "ignored", "delivered", "waiting", "sending",
                                       "sleeping", "forwarded", "dropped", "lost"}]]
    /\ attempts \in [Caller -> [Frame -> 0 .. AttemptsMax]]
    /\ \A c \in Caller : Cardinality(Inflight(c)) <= InflightMax
    /\ RetryBudget

(* A step that leaves the relay tasks alone keeps their state right.       *)
LEMMA RelayUnchanged ==
    ASSUME TypeOK, RetryBudget, UNCHANGED relay
    PROVE  RelayOK'
  BY DEF TypeOK, RetryBudget, RelayOK, relay, Inflight

(* The pump's and the relay tasks' steps keep permits and attempts within  *)
(* their limits.                                                           *)
LEMMA RelayStep ==
    ASSUME TypeOK, RetryBudget, NEW c \in Caller,
           \/ PumpTakes(c)
           \/ PumpSpawnsRelay(c)
           \/ PumpEnds(c)
           \/ \E f \in Frame : RelayFramedPayload(c, f) \/ RelayWakes(c, f)
    PROVE  RelayOK'
<1> USE HostAssumption
<1>1. CASE PumpTakes(c)
  <2>1. PICK f \in Frame, state \in {"ignored", "delivered", "waiting"} :
            frame[c][f] = "none" /\ SetFrame(c, f, state)
    BY <1>1, PlacementRange DEF PumpTakes
  <2>2. UNCHANGED attempts
    BY <1>1 DEF PumpTakes
  <2>3. \A d \in Caller : Inflight(d)' \subseteq Inflight(d)
    BY <2>1, SetFrameEffect DEF Inflight
  <2>4. RetryBudget'
    BY <2>1, <2>2, SetFrameEffect DEF RetryBudget
  <2>5. \A d \in Caller : Cardinality(Inflight(d))' <= InflightMax
    BY <2>3, PermitsKept
  <2>6. QED BY <2>1, <2>2, <2>4, <2>5, SetFrameEffect DEF RelayOK, TypeOK
<1>2. CASE PumpSpawnsRelay(c)
  <2>1. PICK f \in Frame : frame[c][f] = "waiting" /\ SetFrame(c, f, "sending")
    BY <1>2 DEF PumpSpawnsRelay
  <2>2. UNCHANGED attempts /\ Cardinality(Inflight(c)) < InflightMax
    BY <1>2 DEF PumpSpawnsRelay
  <2>3. \A d \in Caller \ {c} : Inflight(d)' \subseteq Inflight(d)
    BY <2>1, SetFrameEffect DEF Inflight
  <2>4. Inflight(c)' = Inflight(c) \cup {f}
    BY <2>1, SetFrameEffect DEF Inflight
  <2>5. Cardinality(Inflight(c) \cup {f}) <= InflightMax
    <3>1. IsFiniteSet(Inflight(c)) /\ Cardinality(Inflight(c)) \in Nat /\ InflightMax \in Nat
      BY InflightFinite
    <3>2. Cardinality(Inflight(c) \cup {f}) =
              IF f \in Inflight(c) THEN Cardinality(Inflight(c)) ELSE Cardinality(Inflight(c)) + 1
      BY <3>1, FS_AddElement
    <3>3. QED BY <2>2, <3>1, <3>2
  <2>6. \A d \in Caller : Cardinality(Inflight(d))' <= InflightMax
    BY <2>3, <2>4, <2>5, PermitsKept
  <2>7. RetryBudget'
    BY <2>1, <2>2, SetFrameEffect DEF RetryBudget
  <2>8. QED BY <2>1, <2>2, <2>6, <2>7, SetFrameEffect DEF RelayOK, TypeOK
<1>3. CASE PumpEnds(c)
  <2>1. /\ frame' = [frame EXCEPT ![c] =
                      [f \in Frame |-> IF frame[c][f] = "waiting" THEN "lost" ELSE frame[c][f]]]
        /\ UNCHANGED attempts
    BY <1>3 DEF PumpEnds, TypeOK
  <2>2. \A d \in Caller : Inflight(d)' \subseteq Inflight(d)
    BY <2>1 DEF Inflight, TypeOK
  <2>3. RetryBudget'
    BY <2>1 DEF RetryBudget, TypeOK
  <2>4. QED BY <2>1, <2>2, <2>3, PermitsKept DEF RelayOK, TypeOK
<1>4. ASSUME NEW f \in Frame, RelayFramedPayload(c, f)
      PROVE  RelayOK'
  <2>1. frame[c][f] = "sending" /\ attempts' = [attempts EXCEPT ![c][f] = @ + 1]
    BY <1>4 DEF RelayFramedPayload
  <2>2. PICK state \in {"forwarded", "sleeping", "dropped"} :
            /\ SetFrame(c, f, state)
            /\ state = "sleeping" => attempts[c][f] + 1 < AttemptsMax
    BY <1>4 DEF RelayFramedPayload
  <2>3. attempts[c][f] < AttemptsMax /\ attempts[c][f] \in Nat
    BY <2>1 DEF RetryBudget, TypeOK
  <2>4. /\ attempts' \in [Caller -> [Frame -> 0 .. AttemptsMax]]
        /\ attempts'[c][f] = attempts[c][f] + 1
        /\ \A d \in Caller, g \in Frame :
              <<d, g>> # <<c, f>> => attempts'[d][g] = attempts[d][g]
    BY <2>1, <2>3 DEF TypeOK
  <2>5. \A d \in Caller : Inflight(d)' \subseteq Inflight(d)
    BY <2>1, <2>2, SetFrameEffect DEF Inflight
  <2>6. RetryBudget'
    BY <2>1, <2>2, <2>4, SetFrameEffect DEF RetryBudget
  <2>7. QED BY <2>2, <2>4, <2>5, <2>6, SetFrameEffect, PermitsKept DEF RelayOK
<1>5. ASSUME NEW f \in Frame, RelayWakes(c, f)
      PROVE  RelayOK'
  <2>1. frame[c][f] = "sleeping" /\ SetFrame(c, f, "sending") /\ UNCHANGED attempts
    BY <1>5 DEF RelayWakes
  <2>2. \A d \in Caller : Inflight(d)' \subseteq Inflight(d)
    BY <2>1, SetFrameEffect DEF Inflight
  <2>3. RetryBudget'
    BY <2>1, SetFrameEffect DEF RetryBudget
  <2>4. QED BY <2>1, <2>2, <2>3, SetFrameEffect, PermitsKept DEF RelayOK, TypeOK
<1>6. QED BY <1>1, <1>2, <1>3, <1>4, <1>5

-----------------------------------------------------------------------------
(* The state of the start calls and of the service's tasks. *)

StartOK ==
    /\ caller \in [Caller -> {"idle", "building", "built", "ok", "refused", "failed"}]
    /\ slot \in Caller \cup {None}
    /\ hostGone \in BOOLEAN
    /\ held \in [Caller -> BOOLEAN]
    /\ forwarder \in [Caller -> {"none", "running", "ended"}]
    /\ published \in [Caller -> 0 .. MaxEvents]
    /\ pump \in [Caller -> {"none", "running", "aborted", "ended"}]
    /\ client \in [Caller -> {"none", "running", "stopped"}]
    /\ SlotOwned
    /\ OneService

(* The type invariant is the two groups of variables taken together.       *)
LEMMA GroupsMakeHostInv ==
    ASSUME StartOK, RelayOK
    PROVE  HostInv
  BY DEF HostInv, TypeOK, StartOK, RelayOK

(* Every step of a start call, of an owner or of a task keeps the slot     *)
(* with the one call that succeeded.                                       *)
LEMMA StartStep ==
    ASSUME HostInv, [Next]_hostVars
    PROVE  StartOK'
<1>0. StartOK /\ TypeOK
  BY DEF HostInv, StartOK, TypeOK
<1> USE HostAssumption
<1>1. ASSUME NEW c \in Caller, StartChecks(c)
      PROVE  StartOK'
  BY <1>0, <1>1 DEF StartOK, StartChecks, SlotOwned, OneService, sink
<1>2. ASSUME NEW c \in Caller, StartBuilds(c)
      PROVE  StartOK'
  <2>1. /\ caller[c] = "building"
        /\ \/ caller' = [caller EXCEPT ![c] = "failed"]
           \/ caller' = [caller EXCEPT ![c] = "built"]
        /\ UNCHANGED <<slot, hostGone, forwarder, published>>
    BY <1>2 DEF StartBuilds, sink
  <2>2. /\ held' \in [Caller -> BOOLEAN]
        /\ pump' \in [Caller -> {"none", "running", "aborted", "ended"}]
        /\ client' \in [Caller -> {"none", "running", "stopped"}]
    <3>1. held' \in [Caller -> BOOLEAN]
      BY <1>0, <1>2 DEF StartBuilds, StartOK
    <3>2. pump' \in [Caller -> {"none", "running", "aborted", "ended"}]
      BY <1>0, <1>2 DEF StartBuilds, StartOK
    <3>3. client' \in [Caller -> {"none", "running", "stopped"}]
      BY <1>0, <1>2 DEF StartBuilds, StartOK
    <3>4. QED BY <3>1, <3>2, <3>3
  <2>3. SlotOwned' /\ OneService'
    BY <1>0, <2>1 DEF StartOK, SlotOwned, OneService
  <2>4. QED BY <1>0, <2>1, <2>2, <2>3 DEF StartOK
<1>3. ASSUME NEW c \in Caller, StartInstalls(c)
      PROVE  StartOK'
  <2>1. ~hostGone /\ caller[c] = "built" /\ slot # c
    BY <1>0, <1>3 DEF StartInstalls, StartOK, SlotOwned
  <2>2. CASE slot = None
    BY <1>0, <1>3, <2>1, <2>2 DEF StartInstalls, StartOK, SlotOwned, OneService
  <2>3. CASE slot # None
    <3>1. /\ caller' = [caller EXCEPT ![c] = "refused"]
          /\ held' = [held EXCEPT ![c] = FALSE]
          /\ UNCHANGED <<slot, forwarder, hostGone, published, client>>
          /\ LetGo(c)
      BY <1>3, <2>3 DEF StartInstalls
    <3>2. SlotOwned' /\ OneService'
      BY <1>0, <2>1, <3>1 DEF StartOK, SlotOwned, OneService
    <3>3. QED BY <1>0, <3>1, <3>2, LetGoType DEF StartOK
  <2>4. QED BY <2>2, <2>3
<1>4. ASSUME NEW c \in Caller, DropHandle(c)
      PROVE  StartOK'
  BY <1>0, <1>4, LetGoType DEF StartOK, DropHandle, SlotOwned, OneService, sink
<1>5. ASSUME NEW c \in Caller, DropHost(c)
      PROVE  StartOK'
  BY <1>0, <1>5, LetGoType DEF StartOK, DropHost, SlotOwned, OneService, sink
<1>6. ASSUME NEW c \in Caller, ForwardEvent(c)
      PROVE  StartOK'
  BY <1>0, <1>6 DEF StartOK, ForwardEvent, SlotOwned, OneService, start
<1>7. ASSUME NEW c \in Caller, PumpEnds(c)
      PROVE  StartOK'
  BY <1>0, <1>7 DEF StartOK, PumpEnds, SlotOwned, OneService, start, sink
<1>8. ASSUME NEW c \in Caller, ClientStops(c)
      PROVE  StartOK'
  BY <1>0, <1>8 DEF StartOK, ClientStops, SlotOwned, OneService, start, sink
<1>9. CASE UNCHANGED <<start, sink, pump, client>>
  BY <1>0, <1>9 DEF StartOK, SlotOwned, OneService, start, sink
<1>10. ASSUME NEW c \in Caller,
              \/ PumpTakes(c)
              \/ PumpSpawnsRelay(c)
              \/ \E f \in Frame : RelayFramedPayload(c, f) \/ RelayWakes(c, f)
       PROVE  UNCHANGED <<start, sink, pump, client>>
  BY <1>10 DEF PumpTakes, PumpSpawnsRelay, RelayFramedPayload, RelayWakes
<1>11. UNCHANGED hostVars => UNCHANGED <<start, sink, pump, client>>
  BY DEF hostVars
<1>12. QED
  BY <1>1, <1>2, <1>3, <1>4, <1>5, <1>6, <1>7, <1>8, <1>9, <1>10, <1>11
  DEF Next, TaskStep

(* Only the pump and the relay tasks touch a frame.                        *)
LEMMA RelayGroupStep ==
    ASSUME HostInv, [Next]_hostVars
    PROVE  RelayOK'
<1>1. CASE UNCHANGED relay
  BY <1>1, RelayUnchanged DEF HostInv
<1>2. ASSUME NEW c \in Caller,
             \/ StartChecks(c) \/ StartBuilds(c) \/ StartInstalls(c) \/ DropHandle(c)
             \/ DropHost(c) \/ ForwardEvent(c) \/ ClientStops(c)
      PROVE  UNCHANGED relay
  BY <1>2 DEF StartChecks, StartBuilds, StartInstalls, DropHandle, DropHost, ForwardEvent,
              ClientStops
<1>3. ASSUME NEW c \in Caller,
             \/ PumpTakes(c) \/ PumpSpawnsRelay(c) \/ PumpEnds(c)
             \/ \E f \in Frame : RelayFramedPayload(c, f) \/ RelayWakes(c, f)
      PROVE  RelayOK'
  BY <1>3, RelayStep DEF HostInv
<1>4. UNCHANGED hostVars => UNCHANGED relay
  BY DEF hostVars
<1>5. QED BY <1>1, <1>2, <1>3, <1>4 DEF Next, TaskStep

-----------------------------------------------------------------------------
(* Before any call there is no service and no frame.                       *)
LEMMA InitHostInv ==
    ASSUME Init
    PROVE  HostInv
<1>1. StartOK
  <2>1. /\ caller \in [Caller -> {"idle", "building", "built", "ok", "refused", "failed"}]
        /\ slot \in Caller \cup {None}
        /\ hostGone \in BOOLEAN
    BY DEF Init
  <2>2. held \in [Caller -> BOOLEAN]
    BY DEF Init
  <2>3. /\ forwarder \in [Caller -> {"none", "running", "ended"}]
        /\ pump \in [Caller -> {"none", "running", "aborted", "ended"}]
        /\ client \in [Caller -> {"none", "running", "stopped"}]
    BY DEF Init
  <2>4. published \in [Caller -> 0 .. MaxEvents]
    BY Limits DEF Init
  <2>5. SlotOwned /\ OneService
    BY DEF Init, SlotOwned, OneService
  <2>6. QED BY <2>1, <2>2, <2>3, <2>4, <2>5 DEF StartOK
<1>2. \A c \in Caller : Inflight(c) = {}
  BY DEF Init, Inflight
<1>3. RelayOK
  <2>1. frame \in [Caller -> [Frame -> {"none", "ignored", "delivered", "waiting", "sending",
                                        "sleeping", "forwarded", "dropped", "lost"}]]
    BY DEF Init
  <2>2. attempts \in [Caller -> [Frame -> 0 .. AttemptsMax]] /\ RetryBudget
    BY Limits DEF Init, RetryBudget
  <2>3. \A c \in Caller : Cardinality(Inflight(c)) <= InflightMax
    BY <1>2, FS_EmptySet, Limits
  <2>4. QED BY <2>1, <2>2, <2>3 DEF RelayOK
<1>4. QED BY <1>1, <1>3, GroupsMakeHostInv

(* The host service keeps its invariant.                                   *)
THEOREM HostInvariant == Spec => []HostInv
<1>1. Init => HostInv
  BY InitHostInv
<1>2. HostInv /\ [Next]_hostVars => HostInv'
  <2> SUFFICES ASSUME HostInv, [Next]_hostVars PROVE HostInv'
    OBVIOUS
  <2>1. StartOK' /\ RelayOK'
    BY StartStep, RelayGroupStep
  <2>2. QED BY <2>1 DEF HostInv, TypeOK, StartOK, RelayOK
<1>3. QED BY <1>1, <1>2, PTL DEF Spec

(* No relay task is tried more often than the retry policy allows and no   *)
(* more of them run than there are permits, whatever the limits are.       *)
THEOREM TypeCorrect == Spec => []TypeOK
<1>1. HostInv => TypeOK
  BY DEF HostInv
<1>2. QED BY <1>1, HostInvariant, PTL

(* However many start calls overlap, at most one of them succeeds, and the *)
(* host's slot holds the service it returned.                              *)
THEOREM OneServiceInstalled == Spec => []OneService
<1>1. HostInv => OneService
  BY DEF HostInv
<1>2. QED BY <1>1, HostInvariant, PTL

-----------------------------------------------------------------------------
(* The life of a client *)

(* Nobody has a client stopped under them: whoever holds one, through a    *)
(* handle, the slot, the forwarder, the pump or a relay task that sleeps   *)
(* between two attempts, holds a client that runs.                         *)
HeldClientRuns == \A c \in Caller : ClientHeld(c) => client[c] = "running"

(* The pump goes with the last handle: it does not keep taking frames for  *)
(* a service that its owner has let go.                                    *)
PumpFollowsHandles == \A c \in Caller : pump[c] = "running" => InnerAlive(c)

(* A service that has not been built has no holder, and the call that has  *)
(* just built one holds it.                                                *)
Lifetime ==
    /\ HeldClientRuns
    /\ PumpFollowsHandles
    /\ \A c \in Caller : /\ caller[c] \in {"idle", "building"} => client[c] = "none"
                         /\ caller[c] = "built" => held[c]

(* A step that gives nobody a hold on a client, and leaves the pumps that  *)
(* run to services that are held, keeps the clients alive for their        *)
(* holders.                                                                *)
LEMMA NoNewHolder ==
    ASSUME HostInv, Lifetime, UNCHANGED client,
           \A c \in Caller :
               /\ ClientHeld(c)' => ClientHeld(c)
               /\ pump'[c] = "running" => InnerAlive(c)'
               /\ caller'[c] \in {"idle", "building"} => caller[c] \in {"idle", "building"}
               /\ caller'[c] = "built" => held'[c]
    PROVE  Lifetime'
  BY DEF Lifetime, HeldClientRuns, PumpFollowsHandles

(* Every step of a call, an owner or a task keeps the clients alive for    *)
(* their holders, and only for them.                                       *)
LEMMA LifetimeStep ==
    ASSUME HostInv, Lifetime, [Next]_hostVars
    PROVE  Lifetime'
<1>0. /\ caller \in [Caller -> {"idle", "building", "built", "ok", "refused", "failed"}]
      /\ held \in [Caller -> BOOLEAN]
      /\ forwarder \in [Caller -> {"none", "running", "ended"}]
      /\ pump \in [Caller -> {"none", "running", "aborted", "ended"}]
      /\ client \in [Caller -> {"none", "running", "stopped"}]
      /\ frame \in [Caller -> [Frame -> {"none", "ignored", "delivered", "waiting", "sending",
                                         "sleeping", "forwarded", "dropped", "lost"}]]
      /\ TypeOK
  BY DEF HostInv, TypeOK
<1>1. /\ \A c \in Caller : ClientHeld(c) => client[c] = "running"
      /\ \A c \in Caller : pump[c] = "running" => InnerAlive(c)
      /\ \A c \in Caller : caller[c] = "built" => held[c]
      /\ \A c \in Caller : caller[c] \in {"idle", "building"} => client[c] = "none"
  BY DEF Lifetime, HeldClientRuns, PumpFollowsHandles
<1>2. ASSUME NEW c \in Caller, StartChecks(c)
      PROVE  Lifetime'
  <2>1. /\ caller[c] = "idle" /\ UNCHANGED <<slot, held, forwarder, pump, frame, client>>
        /\ caller' \in {[caller EXCEPT ![c] = "building"], [caller EXCEPT ![c] = "refused"]}
    BY <1>2 DEF StartChecks, sink, relay
  <2>2. \A d \in Caller : ClientHeld(d)' = ClientHeld(d) /\ InnerAlive(d)' = InnerAlive(d)
    BY <2>1 DEF ClientHeld, InnerAlive, Inflight
  <2>3. \A d \in Caller : /\ caller'[d] \in {"idle", "building"} => caller[d] \in {"idle", "building"}
                          /\ caller'[d] = "built" => caller[d] = "built"
    BY <1>0, <2>1
  <2>4. QED BY <1>1, <2>1, <2>2, <2>3, NoNewHolder
<1>3. ASSUME NEW c \in Caller, StartBuilds(c)
      PROVE  Lifetime'
  <2>1. caller[c] = "building" /\ UNCHANGED <<slot, forwarder, frame>>
    BY <1>3 DEF StartBuilds, sink, relay
  <2>2. CASE /\ caller' = [caller EXCEPT ![c] = "failed"]
             /\ UNCHANGED <<held, pump, client>>
    <3>1. \A d \in Caller : ClientHeld(d)' = ClientHeld(d) /\ InnerAlive(d)' = InnerAlive(d)
      BY <2>1, <2>2 DEF ClientHeld, InnerAlive, Inflight
    <3>2. \A d \in Caller : /\ caller'[d] \in {"idle", "building"} => caller[d] \in {"idle", "building"}
                            /\ caller'[d] = "built" => caller[d] = "built"
      BY <1>0, <2>2
    <3>3. QED BY <1>1, <2>2, <3>1, <3>2, NoNewHolder
  <2>3. CASE /\ caller' = [caller EXCEPT ![c] = "built"]
             /\ held' = [held EXCEPT ![c] = TRUE]
             /\ pump' = [pump EXCEPT ![c] = "running"]
             /\ client' = [client EXCEPT ![c] = "running"]
    <3>1. caller'[c] = "built" /\ pump'[c] = "running" /\ client'[c] = "running"
      BY <1>0, <2>3
    <3>2. held'[c]
      BY <1>0, <2>3
    <3>3. \A d \in Caller : d # c =>
             /\ caller'[d] = caller[d] /\ held'[d] = held[d] /\ pump'[d] = pump[d]
             /\ client'[d] = client[d]
      BY <1>0, <2>3
    <3>4. \A d \in Caller : d # c => /\ ClientHeld(d)' = ClientHeld(d)
                                     /\ InnerAlive(d)' = InnerAlive(d)
      BY <2>1, <3>3 DEF ClientHeld, InnerAlive, Inflight
    <3>5. InnerAlive(c)'
      BY <3>2 DEF InnerAlive
    <3>6. HeldClientRuns'
      BY <1>1, <3>1, <3>3, <3>4 DEF HeldClientRuns
    <3>7. PumpFollowsHandles'
      BY <1>1, <3>3, <3>4, <3>5 DEF PumpFollowsHandles
    <3>8. \A d \in Caller : /\ caller'[d] \in {"idle", "building"} => client'[d] = "none"
                            /\ caller'[d] = "built" => held'[d]
      BY <1>1, <3>1, <3>2, <3>3
    <3>9. QED BY <3>6, <3>7, <3>8 DEF Lifetime
  <2>4. QED BY <1>3, <2>2, <2>3 DEF StartBuilds
<1>4. ASSUME NEW c \in Caller, LetGo(c), UNCHANGED <<forwarder, frame, client>>,
             \A d \in Caller : held'[d] => held[d],
             \A d \in Caller : slot' = d => slot = d,
             \A d \in Caller : d # c => held'[d] = held[d] /\ (slot = d => slot' = d),
             \A d \in Caller : /\ caller'[d] \in {"idle", "building"} => caller[d] \in {"idle", "building"}
                               /\ caller'[d] = "built" => caller[d] = "built" /\ d # c
      PROVE  Lifetime'
  <2>1. \A d \in Caller : d # c => pump'[d] = pump[d] /\ (InnerAlive(d) => InnerAlive(d)')
    BY <1>0, <1>4 DEF LetGo, InnerAlive
  <2>2. pump'[c] = "running" => InnerAlive(c)'
    BY <1>0, <1>4 DEF LetGo
  <2>3. \A d \in Caller : pump'[d] \in {"running", "aborted"} => pump[d] \in {"running", "aborted"}
    BY <1>0, <1>4 DEF LetGo
  <2>4. \A d \in Caller : ClientHeld(d)' => ClientHeld(d)
    BY <1>4, <2>3 DEF ClientHeld, InnerAlive, Inflight
  <2>5. \A d \in Caller : /\ pump'[d] = "running" => InnerAlive(d)'
                          /\ caller'[d] = "built" => held'[d]
    BY <1>1, <1>4, <2>1, <2>2
  <2>6. QED BY <1>4, <2>4, <2>5, NoNewHolder
<1>5. ASSUME NEW c \in Caller, StartInstalls(c)
      PROVE  Lifetime'
  <2>1. caller[c] = "built" /\ held[c] /\ UNCHANGED <<frame, client>>
    BY <1>1, <1>5 DEF StartInstalls, relay
  <2>2. CASE /\ slot = None /\ slot' = c
             /\ caller' = [caller EXCEPT ![c] = "ok"]
             /\ forwarder' = [forwarder EXCEPT ![c] = IF c \in WithSink THEN "running" ELSE @]
             /\ UNCHANGED <<held, pump>>
    <3>1. \A d \in Caller : d # c => forwarder'[d] = forwarder[d] /\ slot # d /\ slot' # d
      BY <1>0, <2>2, HostAssumption
    <3>2. InnerAlive(c) /\ InnerAlive(c)' /\ ClientHeld(c)
      BY <2>1, <2>2 DEF InnerAlive, ClientHeld
    <3>3. \A d \in Caller : d # c => /\ ClientHeld(d)' = ClientHeld(d)
                                     /\ InnerAlive(d)' = InnerAlive(d)
      BY <2>1, <2>2, <3>1 DEF ClientHeld, InnerAlive, Inflight
    <3>4. \A d \in Caller : /\ caller'[d] \in {"idle", "building"} => caller[d] \in {"idle", "building"}
                            /\ caller'[d] = "built" => caller[d] = "built"
      BY <1>0, <2>2
    <3>5. \A d \in Caller : /\ ClientHeld(d)' => ClientHeld(d)
                            /\ pump'[d] = "running" => InnerAlive(d)'
                            /\ caller'[d] = "built" => held'[d]
      BY <1>1, <2>2, <3>2, <3>3, <3>4
    <3>6. QED BY <2>1, <3>4, <3>5, NoNewHolder
  <2>3. CASE /\ caller' = [caller EXCEPT ![c] = "refused"]
             /\ held' = [held EXCEPT ![c] = FALSE]
             /\ UNCHANGED <<slot, forwarder>>
             /\ LetGo(c)
    <3>1. \A d \in Caller : (held'[d] => held[d]) /\ (d # c => held'[d] = held[d])
      BY <1>0, <2>3
    <3>2. \A d \in Caller : /\ caller'[d] \in {"idle", "building"} => caller[d] \in {"idle", "building"}
                            /\ caller'[d] = "built" => caller[d] = "built" /\ d # c
      BY <1>0, <2>3
    <3>3. QED BY <1>4, <2>1, <2>3, <3>1, <3>2
  <2>4. QED BY <1>5, <2>2, <2>3 DEF StartInstalls
<1>6. ASSUME NEW c \in Caller, DropHandle(c)
      PROVE  Lifetime'
  <2>1. /\ caller[c] = "ok" /\ held' = [held EXCEPT ![c] = FALSE] /\ LetGo(c)
        /\ UNCHANGED <<caller, slot, forwarder, frame, client>>
    BY <1>6 DEF DropHandle, sink, relay
  <2>2. \A d \in Caller : (held'[d] => held[d]) /\ (d # c => held'[d] = held[d])
    BY <1>0, <2>1
  <2>3. \A d \in Caller : /\ caller'[d] \in {"idle", "building"} => caller[d] \in {"idle", "building"}
                          /\ caller'[d] = "built" => caller[d] = "built" /\ d # c
    BY <2>1
  <2>4. QED BY <1>4, <2>1, <2>2, <2>3
<1>7. ASSUME NEW c \in Caller, DropHost(c)
      PROVE  Lifetime'
  <2>1. /\ slot = c /\ slot' = None /\ caller[c] \notin {"building", "built"} /\ LetGo(c)
        /\ UNCHANGED <<caller, held, forwarder, frame, client>>
    BY <1>7 DEF DropHost, sink, relay
  <2>2. \A d \in Caller : /\ held'[d] => held[d]
                          /\ d # c => held'[d] = held[d] /\ (slot = d => slot' = d)
                          /\ slot' = d => slot = d
    BY <2>1, HostAssumption
  <2>3. \A d \in Caller : /\ caller'[d] \in {"idle", "building"} => caller[d] \in {"idle", "building"}
                          /\ caller'[d] = "built" => caller[d] = "built" /\ d # c
    BY <2>1
  <2>4. QED BY <1>4, <2>1, <2>2, <2>3
<1>8. ASSUME NEW c \in Caller, ForwardEvent(c)
      PROVE  Lifetime'
  <2>1. InnerAlive(c)
    BY <1>8 DEF ForwardEvent, InnerAlive
  <2>2. UNCHANGED <<caller, slot, held, forwarder, pump, frame, client>>
    BY <1>8, <2>1 DEF ForwardEvent, start, relay
  <2>3. \A d \in Caller : ClientHeld(d)' = ClientHeld(d) /\ InnerAlive(d)' = InnerAlive(d)
    BY <2>2 DEF ClientHeld, InnerAlive, Inflight
  <2>4. QED BY <1>1, <2>2, <2>3, NoNewHolder
<1>9. ASSUME UNCHANGED <<caller, slot, held, forwarder, client>>,
             \A d \in Caller : /\ pump'[d] = "running" => pump[d] = "running"
                               /\ pump'[d] = "aborted" => pump[d] = "aborted"
                               /\ Inflight(d)' # {} => pump[d] = "running" \/ Inflight(d) # {}
      PROVE  Lifetime'
  <2>1. \A d \in Caller : InnerAlive(d)' = InnerAlive(d)
    BY <1>9 DEF InnerAlive
  <2>2. \A d \in Caller : ClientHeld(d)' => ClientHeld(d)
    BY <1>9, <2>1 DEF ClientHeld
  <2>3. QED BY <1>1, <1>9, <2>1, <2>2, NoNewHolder
<1>10. ASSUME NEW c \in Caller, NEW f \in Frame, NEW state, SetFrame(c, f, state),
              \/ pump[c] = "running" \/ frame[c][f] \in {"sending", "sleeping"},
              UNCHANGED <<start, sink, pump, client>>
       PROVE  Lifetime'
  <2>1. \A d \in Caller : d # c => frame'[d] = frame[d]
    BY <1>0, <1>10 DEF SetFrame
  <2>2. \A d \in Caller : d # c => Inflight(d)' = Inflight(d)
    BY <2>1 DEF Inflight
  <2>3. pump[c] = "running" \/ Inflight(c) # {}
    BY <1>10 DEF Inflight
  <2>4. \A d \in Caller : Inflight(d)' # {} => pump[d] = "running" \/ Inflight(d) # {}
    BY <2>2, <2>3
  <2>5. UNCHANGED <<caller, slot, held, forwarder, client, pump>>
    BY <1>10 DEF start, sink
  <2>6. QED BY <1>9, <2>4, <2>5
<1>11. ASSUME NEW c \in Caller, PumpTakes(c) \/ PumpSpawnsRelay(c)
       PROVE  Lifetime'
  <2>1. pump[c] = "running" /\ UNCHANGED <<start, sink, pump, client>>
    BY <1>11 DEF PumpTakes, PumpSpawnsRelay
  <2>2. \E f \in Frame : \E state \in {"ignored", "delivered", "waiting", "sending"} :
            SetFrame(c, f, state)
    BY <1>11, PlacementRange DEF PumpTakes, PumpSpawnsRelay
  <2>3. QED BY <1>10, <2>1, <2>2
<1>12. ASSUME NEW c \in Caller, NEW f \in Frame, RelayFramedPayload(c, f) \/ RelayWakes(c, f)
       PROVE  Lifetime'
  <2>1. frame[c][f] \in {"sending", "sleeping"} /\ UNCHANGED <<start, sink, pump, client>>
    BY <1>12 DEF RelayFramedPayload, RelayWakes
  <2>2. \E state \in {"forwarded", "sleeping", "dropped", "sending"} : SetFrame(c, f, state)
    BY <1>12 DEF RelayFramedPayload, RelayWakes
  <2>3. QED BY <1>10, <2>1, <2>2
<1>13. ASSUME NEW c \in Caller, PumpEnds(c)
       PROVE  Lifetime'
  <2>1. /\ frame' = [frame EXCEPT ![c] =
                      [f \in Frame |-> IF frame[c][f] = "waiting" THEN "lost" ELSE frame[c][f]]]
        /\ pump' = [pump EXCEPT ![c] = "ended"]
        /\ UNCHANGED <<caller, slot, held, forwarder, client>>
    BY <1>13 DEF PumpEnds, TypeOK, start, sink
  <2>2. \A d \in Caller : Inflight(d)' \subseteq Inflight(d)
    BY <1>0, <2>1 DEF Inflight
  <2>3. \A d \in Caller : /\ pump'[d] = "running" => pump[d] = "running"
                          /\ pump'[d] = "aborted" => pump[d] = "aborted"
    BY <1>0, <2>1
  <2>4. \A d \in Caller : Inflight(d)' # {} => Inflight(d) # {}
    BY <2>2
  <2>5. QED BY <1>9, <2>1, <2>3, <2>4
<1>14. ASSUME NEW c \in Caller, ClientStops(c)
       PROVE  Lifetime'
  <2>1. /\ ~ClientHeld(c) /\ client[c] = "running" /\ client' = [client EXCEPT ![c] = "stopped"]
        /\ UNCHANGED <<caller, slot, held, forwarder, pump, frame>>
    BY <1>14 DEF ClientStops, start, sink, relay
  <2>2. \A d \in Caller : ClientHeld(d)' = ClientHeld(d) /\ InnerAlive(d)' = InnerAlive(d)
    BY <2>1 DEF ClientHeld, InnerAlive, Inflight
  <2>3. \A d \in Caller : d # c => client'[d] = client[d]
    BY <1>0, <2>1
  <2>4. caller[c] \notin {"idle", "building"}
    BY <1>1, <2>1
  <2>5. QED BY <1>1, <2>1, <2>2, <2>3, <2>4 DEF Lifetime, HeldClientRuns, PumpFollowsHandles
<1>15. CASE UNCHANGED hostVars
  <2>1. UNCHANGED <<caller, slot, held, forwarder, pump, frame, client>>
    BY <1>15 DEF hostVars, start, sink, relay
  <2>2. \A d \in Caller : Inflight(d)' = Inflight(d)
    BY <2>1 DEF Inflight
  <2>3. QED BY <1>9, <2>1, <2>2
<1>16. QED
  BY <1>2, <1>3, <1>5, <1>6, <1>7, <1>8, <1>11, <1>12, <1>13, <1>14, <1>15 DEF Next, TaskStep

(* Clients outlive their holders: a relay task that wakes up from its      *)
(* backoff after the service was dropped still has a client to send with,  *)
(* and a pump runs only for a service that somebody holds.                 *)
THEOREM ClientsOutliveHolders == Spec => [](HeldClientRuns /\ PumpFollowsHandles)
<1>1. Init => Lifetime
  <2> SUFFICES ASSUME Init PROVE Lifetime
    OBVIOUS
  <2>1. \A c \in Caller : ~held[c]
    BY Zenon DEF Init
  <2>2. \A c \in Caller : /\ slot # c /\ forwarder[c] = "none" /\ pump[c] = "none"
                          /\ caller[c] = "idle" /\ client[c] = "none" /\ Inflight(c) = {}
    BY HostAssumption DEF Init, Inflight
  <2>3. QED BY <2>1, <2>2 DEF Lifetime, HeldClientRuns, PumpFollowsHandles, ClientHeld, InnerAlive
<1>2. HostInv /\ Lifetime /\ [Next]_hostVars => Lifetime'
  BY LifetimeStep
<1>3. Lifetime => HeldClientRuns /\ PumpFollowsHandles
  BY DEF Lifetime
<1>4. QED BY <1>1, <1>2, <1>3, HostInvariant, PTL DEF Spec

-----------------------------------------------------------------------------
(* The encodings *)

(* A sequence starts with one word exactly if that is its first.           *)
LEMMA PrefixWord ==
    ASSUME NEW S, NEW bytes \in Seq(S), NEW word
    PROVE  IsPrefix(<<word>>, bytes) <=> Len(bytes) >= 1 /\ bytes[1] = word
<1>1. ASSUME NEW s
      PROVE  SubSeq(s, 1, 1) = <<s[1]>>
  <2>1. \A i \in 1 .. 1 : s[i] \in {s[1]}
    OBVIOUS
  <2>2. /\ SubSeq(s, 1, 1) \in Seq({s[1]}) /\ Len(SubSeq(s, 1, 1)) = 1
        /\ SubSeq(s, 1, 1)[1] = s[1]
    BY <2>1, SubSeqProperties
  <2>3. <<s[1]>> \in Seq({s[1]}) /\ Len(<<s[1]>>) = 1 /\ <<s[1]>>[1] = s[1]
    OBVIOUS
  <2> DEFINE t == SubSeq(s, 1, 1)
             u == <<s[1]>>
  <2>4. t \in Seq({s[1]}) /\ u \in Seq({s[1]}) /\ Len(t) = Len(u)
        /\ \A i \in 1 .. Len(t) : t[i] = u[i]
    BY <2>2, <2>3
  <2> HIDE DEF t, u
  <2>5. t = u
    BY <2>4, SeqEqual
  <2>6. QED BY <2>5 DEF t, u
<1>2. Len(<<word>>) = 1 /\ <<word>>[1] = word /\ Len(bytes) \in Nat
  OBVIOUS
<1>3. SubSeq(<<word>>, 1, 1) = <<word>> /\ SubSeq(bytes, 1, 1) = <<bytes[1]>>
  BY <1>1, <1>2
<1>4. <<word>> = <<bytes[1]>> <=> word = bytes[1]
  OBVIOUS
<1>5. QED BY <1>2, <1>3, <1>4 DEF IsPrefix

(* A client gets back the payload another one has wrapped, whatever is in  *)
(* it, and takes nothing for a payload that was not wrapped: what          *)
(* decode_client_payload accepts is what encode_client_payload makes.      *)
THEOREM ClientPayloadsExact ==
    ASSUME NEW S
    PROVE  /\ \A payload \in Seq(S) :
                 DecodeClientPayload(EncodeClientPayload(payload)) =
                     [type |-> "payload", payload |-> payload]
           /\ \A bytes \in Seq(S) :
                 DecodeClientPayload(bytes) # NotAFrame =>
                     EncodeClientPayload(DecodeClientPayload(bytes).payload) = bytes
<1>1. ASSUME NEW payload \in Seq(S)
      PROVE  DecodeClientPayload(EncodeClientPayload(payload)) =
                 [type |-> "payload", payload |-> payload]
  <2> DEFINE T == S \cup {ClientMagic}
             bytes == <<ClientMagic>> \o payload
  <2>1. payload \in Seq(T) /\ <<ClientMagic>> \in Seq(T)
    OBVIOUS
  <2>2. bytes \in Seq(T) /\ Len(bytes) = 1 + Len(payload) /\ bytes[1] = ClientMagic
        /\ Tail(bytes) = payload
    BY <2>1
  <2> HIDE DEF bytes, T
  <2>3. Len(bytes) >= 1
    BY <2>2
  <2>4. IsPrefix(<<ClientMagic>>, bytes)
    BY <2>2, <2>3, PrefixWord
  <2>5. DecodeClientPayload(bytes) = [type |-> "payload", payload |-> payload]
    BY <2>2, <2>4 DEF DecodeClientPayload
  <2>6. QED BY <2>5 DEF EncodeClientPayload, bytes
<1>2. ASSUME NEW bytes \in Seq(S), DecodeClientPayload(bytes) # NotAFrame
      PROVE  EncodeClientPayload(DecodeClientPayload(bytes).payload) = bytes
  <2>1. IsPrefix(<<ClientMagic>>, bytes)
    BY <1>2 DEF DecodeClientPayload
  <2>2. Len(bytes) >= 1 /\ bytes[1] = ClientMagic
    BY <2>1, PrefixWord
  <2>3. DecodeClientPayload(bytes).payload = Tail(bytes)
    BY <2>1 DEF DecodeClientPayload
  <2>4. <<bytes[1]>> \o Tail(bytes) = bytes
    BY <2>2
  <2>5. QED BY <2>2, <2>3, <2>4 DEF EncodeClientPayload
<1>3. QED BY <1>1, <1>2

(* The same of application frames: source, destination and payload come    *)
(* out as they went in, a frame for this node is told from one to relay by *)
(* the destination its sender gave it, and no other bytes, a frame cut     *)
(* short in its header included, are taken for a frame.                    *)
THEOREM ApplicationFramesExact ==
    ASSUME NEW S
    PROVE  /\ \A from \in S, destination \in S, payload \in Seq(S) :
                 /\ DecodeApplicationFrame(EncodeApplicationFrame(from, destination, payload)) =
                        [type |-> "frame", from |-> from, destination |-> destination,
                         payload |-> payload]
                 /\ Placement(EncodeApplicationFrame(from, destination, payload)) =
                        IF destination = Local THEN "delivered" ELSE "waiting"
           /\ \A bytes \in Seq(S) :
                 LET d == DecodeApplicationFrame(bytes)
                 IN  d # NotAFrame => EncodeApplicationFrame(d.from, d.destination, d.payload) = bytes
<1>1. ASSUME NEW from \in S, NEW destination \in S, NEW payload \in Seq(S)
      PROVE  /\ DecodeApplicationFrame(EncodeApplicationFrame(from, destination, payload)) =
                    [type |-> "frame", from |-> from, destination |-> destination,
                     payload |-> payload]
             /\ Placement(EncodeApplicationFrame(from, destination, payload)) =
                    IF destination = Local THEN "delivered" ELSE "waiting"
  <2> DEFINE T == S \cup {AppMagic}
             head == <<AppMagic, from, destination>>
             bytes == head \o payload
             n == Len(bytes)
             d == [type |-> "frame", from |-> from, destination |-> destination,
                   payload |-> payload]
  <2>1. payload \in Seq(T) /\ head \in Seq(T) /\ Len(head) = 3
    OBVIOUS
  <2>2. head[1] = AppMagic /\ head[2] = from /\ head[3] = destination
    OBVIOUS
  <2> HIDE DEF head, T
  <2>3. /\ bytes \in Seq(T) /\ n = 3 + Len(payload) /\ n \in Nat /\ Len(payload) \in Nat
        /\ \A i \in 1 .. n : bytes[i] = IF i <= 3 THEN head[i] ELSE payload[i - 3]
    <3>1. /\ head \o payload \in Seq(T)
          /\ Len(head \o payload) = Len(head) + Len(payload)
          /\ \A i \in 1 .. Len(head) + Len(payload) :
                (head \o payload)[i] = IF i <= Len(head) THEN head[i] ELSE payload[i - Len(head)]
      BY <2>1, ConcatProperties, Zenon
    <3>2. Len(payload) \in Nat
      BY <2>1
    <3>3. n = 3 + Len(payload)
      BY <2>1, <3>1
    <3>4. \A i \in 1 .. n : bytes[i] = IF i <= 3 THEN head[i] ELSE payload[i - 3]
      BY <2>1, <3>1, <3>3, Zenon
    <3>5. QED BY <3>1, <3>2, <3>3, <3>4
  <2>4. bytes[1] = AppMagic /\ bytes[2] = from /\ bytes[3] = destination
    BY <2>2, <2>3
  <2>5. SubSeq(bytes, 4, n) = payload
    <3>1. \A i \in 4 .. n : bytes[i] \in T
      BY <2>3
    <3>2. /\ SubSeq(bytes, 4, n) \in Seq(T)
          /\ Len(SubSeq(bytes, 4, n)) = IF 4 <= n THEN n - 4 + 1 ELSE 0
          /\ \A i \in 1 .. n - 4 + 1 : SubSeq(bytes, 4, n)[i] = bytes[4 + i - 1]
      BY <2>3, <3>1, SubSeqProperties
    <3>3. Len(SubSeq(bytes, 4, n)) = Len(payload)
      BY <2>3, <3>2
    <3>4. ASSUME NEW i \in 1 .. Len(payload)
          PROVE  SubSeq(bytes, 4, n)[i] = payload[i]
      <4>1. i \in 1 .. n - 4 + 1 /\ 4 + i - 1 = i + 3 /\ i + 3 \in 1 .. n /\ ~(i + 3 <= 3)
            /\ (i + 3) - 3 = i
        BY <2>3
      <4>2. QED BY <2>3, <3>2, <4>1
    <3>5. QED BY <2>1, <3>2, <3>3, <3>4, SeqEqual
  <2> HIDE DEF bytes, n
  <2>6. IsPrefix(<<AppMagic>>, bytes) /\ ~(n < 3)
    <3>1. n >= 1 /\ ~(n < 3)
      BY <2>3
    <3>2. QED BY <2>3, <2>4, <3>1, PrefixWord DEF n
  <2>7. DecodeApplicationFrame(bytes) = d
    <3>1. HeaderLen = 3 /\ HeaderLen + 1 = 4
      BY DEF HeaderLen
    <3>2. ~(Len(bytes) < HeaderLen) /\ SubSeq(bytes, HeaderLen + 1, Len(bytes)) = payload
      BY <2>5, <2>6, <3>1 DEF n
    <3>3. QED BY <2>4, <2>6, <3>2 DEF DecodeApplicationFrame
  <2>8. d # NotAFrame /\ d.destination = destination
    BY DEF NotAFrame
  <2> HIDE DEF d
  <2>9. Placement(bytes) = IF destination = Local THEN "delivered" ELSE "waiting"
    BY <2>7, <2>8 DEF Placement
  <2>10. EncodeApplicationFrame(from, destination, payload) = bytes
    BY DEF EncodeApplicationFrame, bytes, head
  <2>11. QED BY <2>7, <2>9, <2>10 DEF d
<1>2. ASSUME NEW bytes \in Seq(S), DecodeApplicationFrame(bytes) # NotAFrame
      PROVE  EncodeApplicationFrame(DecodeApplicationFrame(bytes).from,
                                    DecodeApplicationFrame(bytes).destination,
                                    DecodeApplicationFrame(bytes).payload) = bytes
  <2> DEFINE n == Len(bytes)
             rest == SubSeq(bytes, 4, n)
  <2>0. HeaderLen = 3 /\ HeaderLen + 1 = 4
    BY DEF HeaderLen
  <2>1. ~(n < 3) /\ IsPrefix(<<AppMagic>>, bytes)
    BY <1>2, <2>0 DEF DecodeApplicationFrame
  <2>2. n \in Nat /\ n >= 3 /\ bytes[1] = AppMagic
    BY <2>1, PrefixWord
  <2>3. DecodeApplicationFrame(bytes) = [type |-> "frame", from |-> bytes[2],
                                         destination |-> bytes[3], payload |-> rest]
    BY <2>0, <2>1 DEF DecodeApplicationFrame
  <2>4. rest \in Seq(S) /\ Len(rest) = n - 3 /\ \A i \in 1 .. n - 3 : rest[i] = bytes[i + 3]
    <3>1. \A i \in 4 .. n : bytes[i] \in S
      BY <2>2
    <3>2. /\ rest \in Seq(S) /\ Len(rest) = IF 4 <= n THEN n - 4 + 1 ELSE 0
          /\ \A i \in 1 .. n - 4 + 1 : rest[i] = bytes[4 + i - 1]
      BY <2>2, <3>1, SubSeqProperties
    <3> HIDE DEF rest
    <3>3. \A i \in 1 .. n - 3 : i \in 1 .. n - 4 + 1 /\ 4 + i - 1 = i + 3
      BY <2>2
    <3>4. \A i \in 1 .. n - 3 : rest[i] = bytes[i + 3]
      BY <3>2, <3>3
    <3>5. Len(rest) = n - 3
      <4>1. Len(rest) = IF 4 <= n THEN n - 4 + 1 ELSE 0
        BY <3>2
      <4>2. \A k \in Nat : k >= 3 => (IF 4 <= k THEN k - 4 + 1 ELSE 0) = k - 3
        OBVIOUS
      <4>3. QED BY <2>2, <4>1, <4>2, Zenon
    <3>6. QED BY <3>2, <3>4, <3>5
  <2> DEFINE head == <<bytes[1], bytes[2], bytes[3]>>
             whole == head \o rest
  <2>5. head \in Seq(S) /\ Len(head) = 3 /\ \A i \in 1 .. 3 : head[i] = bytes[i]
    BY <2>2
  <2> HIDE DEF head, rest
  <2>6. /\ whole \in Seq(S) /\ Len(whole) = n
        /\ \A i \in 1 .. n : whole[i] = IF i <= 3 THEN head[i] ELSE rest[i - 3]
    <3>1. /\ head \o rest \in Seq(S)
          /\ Len(head \o rest) = Len(head) + Len(rest)
          /\ \A i \in 1 .. Len(head) + Len(rest) :
                (head \o rest)[i] = IF i <= Len(head) THEN head[i] ELSE rest[i - Len(head)]
      <4>1. head \in Seq(S) /\ rest \in Seq(S)
        BY <2>4, <2>5
      <4>2. QED BY <4>1, ConcatProperties, Zenon
    <3>2. Len(head) + Len(rest) = n /\ Len(head) = 3
      BY <2>2, <2>4, <2>5
    <3>3. QED BY <3>1, <3>2
  <2>7. \A i \in 1 .. n : whole[i] = bytes[i]
    <3> TAKE i \in 1 .. n
    <3>1. whole[i] = IF i <= 3 THEN head[i] ELSE rest[i - 3]
      BY <2>6
    <3>2. CASE i <= 3
      BY <3>1, <3>2, <2>5
    <3>3. CASE ~(i <= 3)
      <4>1. i - 3 \in 1 .. n - 3 /\ (i - 3) + 3 = i
        BY <3>3, <2>2
      <4>2. QED BY <3>1, <3>3, <4>1, <2>4
    <3>4. QED BY <3>2, <3>3
  <2>8. whole = bytes
    BY <2>6, <2>7, SeqEqual
  <2>9. QED BY <2>2, <2>3, <2>8 DEF EncodeApplicationFrame, head
<1>3. QED BY <1>1, <1>2
=============================================================================
