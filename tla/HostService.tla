----------------------------- MODULE HostService -----------------------------
(***************************************************************************)
(* The host application's service (crates/demo/src/lib.rs): the start of a *)
(* `JacquardBleHostState`, the application pump with its relay tasks, and  *)
(* who keeps the client of a service alive.                                *)
(*                                                                         *)
(* A start call builds its service while the host lock is free, so calls   *)
(* overlap.  A service is named after the call that built it.  Its client  *)
(* is shared by the service handles, the pump and every relay task, and is *)
(* shut down when the last of them lets go.                                *)
(***************************************************************************)
EXTENDS Framing, FiniteSets

CONSTANTS
    Caller,       \* the start calls
    WithSink,     \* those that are start_with_event_sink
    None,
    Local,        \* local_node_id
    Received,     \* the byte strings peers may send to this node
    InflightMax,  \* RELAY_INFLIGHT_MAX
    AttemptsMax,  \* RelayRetryPolicy::max_attempts
    MaxFrames,    \* bound on the frames a service receives
    MaxEvents     \* bound on the events a sink is given

ASSUME HostAssumption ==
    /\ WithSink \subseteq Caller
    /\ None \notin Caller
    /\ {InflightMax, AttemptsMax} \subseteq Nat \ {0}
    /\ {MaxFrames, MaxEvents} \subseteq Nat

Frame == 1 .. MaxFrames

VARIABLES
    caller,     \* "idle", "building", "built", "ok", "refused" or "failed"
    slot,       \* JacquardBleHostState::service
    hostGone,   \* the host state has been dropped
    held,       \* the caller holds a handle of the service it built
    forwarder,  \* task of forward_events_to: "none", "running" or "ended"
    published,  \* events its sink has been given
    pump,       \* "none", "running", "aborted" or "ended"
    frame,      \* frame -> state: "none", "ignored", "delivered", "waiting",
                \*   "sending", "sleeping", "forwarded", "dropped" or "lost"
    attempts,   \* sends tried so far, per frame
    client      \* "none", "running" or "stopped"

start == <<caller, slot, hostGone, held>>
sink == <<forwarder, published>>
relay == <<frame, attempts>>
hostVars == <<start, sink, pump, relay, client>>

Init ==
    /\ caller = [c \in Caller |-> "idle"]
    /\ slot = None
    /\ hostGone = FALSE
    /\ held = [c \in Caller |-> FALSE]
    /\ forwarder = [c \in Caller |-> "none"]
    /\ published = [c \in Caller |-> 0]
    /\ pump = [c \in Caller |-> "none"]
    /\ frame = [c \in Caller |-> [f \in Frame |-> "none"]]
    /\ attempts = [c \in Caller |-> [f \in Frame |-> 0]]
    /\ client = [c \in Caller |-> "none"]

-----------------------------------------------------------------------------
(* Who holds what *)

InnerAlive(c) == held[c] \/ slot = c \/ forwarder[c] = "running"

(* Mutation: a relay task that gives up keeps its permit. *)
Inflight_Leaks(c) == {f \in Frame : frame[c][f] \in {"sending", "sleeping", "dropped"}}

(* The relay tasks that hold a permit. *)
Inflight(c) == {f \in Frame : frame[c][f] \in {"sending", "sleeping"}}

ClientHeld(c) ==
    \/ InnerAlive(c)
    \/ pump[c] \in {"running", "aborted"}
    \/ Inflight(c) # {}

(* Mutation: the pump is not aborted. *)
LetGo_PumpRuns(c) == UNCHANGED pump

(* Dropping the last handle of a service aborts its pump.                  *)
LetGo(c) ==
    pump' = IF InnerAlive(c)' \/ pump[c] # "running" THEN pump
            ELSE [pump EXCEPT ![c] = "aborted"]

-----------------------------------------------------------------------------
(* JacquardBleHostState::start *)

StartChecks(c) ==
    /\ caller[c] = "idle"
    /\ ~hostGone
    /\ caller' = [caller EXCEPT ![c] = IF slot = None THEN "building" ELSE "refused"]
    /\ UNCHANGED <<slot, hostGone, held, sink, pump, relay, client>>

StartBuilds(c) ==
    /\ caller[c] = "building"
    /\ \/ /\ caller' = [caller EXCEPT ![c] = "failed"]
          /\ UNCHANGED <<held, pump, client>>
       \/ /\ caller' = [caller EXCEPT ![c] = "built"]
          /\ held' = [held EXCEPT ![c] = TRUE]
          /\ pump' = [pump EXCEPT ![c] = "running"]
          /\ client' = [client EXCEPT ![c] = "running"]
    /\ UNCHANGED <<slot, hostGone, sink, relay>>

(* Mutation: the slot is not looked at again. *)
StartInstalls_Unchecked(c) ==
    /\ caller[c] = "built"
    /\ slot' = c
    /\ caller' = [caller EXCEPT ![c] = "ok"]
    /\ forwarder' = [forwarder EXCEPT ![c] = IF c \in WithSink THEN "running" ELSE @]
    /\ UNCHANGED <<hostGone, held, pump, published, relay, client>>

(* The slot is looked at again under the lock; the service of a call that  *)
(* comes second is dropped.                                                *)
StartInstalls(c) ==
    /\ caller[c] = "built"
    /\ \/ /\ slot = None
          /\ slot' = c
          /\ caller' = [caller EXCEPT ![c] = "ok"]
          /\ forwarder' = [forwarder EXCEPT ![c] = IF c \in WithSink THEN "running" ELSE @]
          /\ UNCHANGED <<held, pump>>
       \/ /\ slot # None
          /\ caller' = [caller EXCEPT ![c] = "refused"]
          /\ held' = [held EXCEPT ![c] = FALSE]
          /\ UNCHANGED <<slot, forwarder>>
          /\ LetGo(c)
    /\ UNCHANGED <<hostGone, published, relay, client>>

(* The owner drops the handle it got from start, or the host state once no *)
(* call is in progress.                                                    *)
DropHandle(c) ==
    /\ caller[c] = "ok"
    /\ held[c]
    /\ held' = [held EXCEPT ![c] = FALSE]
    /\ UNCHANGED <<caller, slot, hostGone, sink, relay, client>>
    /\ LetGo(c)

DropHost(c) ==
    /\ slot = c
    /\ \A d \in Caller : caller[d] \notin {"building", "built"}
    /\ hostGone' = TRUE
    /\ slot' = None
    /\ UNCHANGED <<caller, held, sink, relay, client>>
    /\ LetGo(c)

-----------------------------------------------------------------------------
(* The task of forward_events_to.  It owns a clone of the service, whose   *)
(* broadcast senders feed the stream it reads.                             *)
ForwardEvent(c) ==
    /\ forwarder[c] = "running"
    /\ IF InnerAlive(c)
       THEN /\ published[c] < MaxEvents
            /\ published' = [published EXCEPT ![c] = @ + 1]
            /\ UNCHANGED forwarder
       ELSE /\ forwarder' = [forwarder EXCEPT ![c] = "ended"]
            /\ UNCHANGED published
    /\ UNCHANGED <<start, pump, relay, client>>

-----------------------------------------------------------------------------
(* The application pump and its relay tasks *)

(* publish_incoming of the client: its own frames, unwrapped.              *)
Incoming ==
    LET decoded == {DecodeClientPayload(bytes) : bytes \in Received}
    IN  {d.payload : d \in decoded \ {NotAFrame}}

(* What is not an application frame is ignored, a frame for this node is   *)
(* delivered, and another one waits for a permit.                          *)
Placement(payload) ==
    LET decoded == DecodeApplicationFrame(payload)
    IN  IF decoded = NotAFrame THEN "ignored"
        ELSE IF decoded.destination = Local THEN "delivered" ELSE "waiting"

SetFrame(c, f, state) == frame' = [frame EXCEPT ![c][f] = state]

(* The pump takes its next frame when it has placed the one before.        *)
PumpTakes(c) ==
    /\ pump[c] = "running"
    /\ \A f \in Frame : frame[c][f] # "waiting"
    /\ \E f \in Frame :
         /\ frame[c][f] = "none"
         /\ \A g \in Frame : frame[c][g] = "none" => f <= g
         /\ \E payload \in Incoming : SetFrame(c, f, Placement(payload))
    /\ UNCHANGED <<start, sink, pump, attempts, client>>

PumpSpawnsRelay(c) ==
    /\ pump[c] = "running"
    /\ Cardinality(Inflight(c)) < InflightMax
    /\ \E f \in Frame : frame[c][f] = "waiting" /\ SetFrame(c, f, "sending")
    /\ UNCHANGED <<start, sink, pump, attempts, client>>

(* The abort takes effect where the pump waits: its future is dropped, and *)
(* with it the frame it holds while it waits for a permit, which no task   *)
(* has any more.  The model calls such a frame lost.                       *)
PumpEnds(c) ==
    /\ pump[c] = "aborted"
    /\ pump' = [pump EXCEPT ![c] = "ended"]
    /\ frame' = [frame EXCEPT ![c] =
                   [f \in Frame |-> IF @[f] = "waiting" THEN "lost" ELSE @[f]]]
    /\ UNCHANGED <<start, sink, attempts, client>>

(* Mutation: one attempt too many. *)
RelayFramedPayload_OffByOne(c, f) ==
    /\ frame[c][f] = "sending"
    /\ attempts' = [attempts EXCEPT ![c][f] = @ + 1]
    /\ \/ SetFrame(c, f, "forwarded")
       \/ attempts[c][f] < AttemptsMax /\ SetFrame(c, f, "sleeping")
       \/ SetFrame(c, f, "dropped")
    /\ UNCHANGED <<start, sink, pump, client>>

(* One send of a relay task: it succeeds, is worth a retry while attempts  *)
(* are left, or the frame is reported as dropped.                          *)
RelayFramedPayload(c, f) ==
    /\ frame[c][f] = "sending"
    /\ attempts' = [attempts EXCEPT ![c][f] = @ + 1]
    /\ \/ SetFrame(c, f, "forwarded")
       \/ attempts[c][f] + 1 < AttemptsMax /\ SetFrame(c, f, "sleeping")
       \/ SetFrame(c, f, "dropped")
    /\ UNCHANGED <<start, sink, pump, client>>

RelayWakes(c, f) ==
    /\ frame[c][f] = "sleeping"
    /\ SetFrame(c, f, "sending")
    /\ UNCHANGED <<start, sink, pump, attempts, client>>

(* The client stops when nobody holds it (see ClientLoop).                 *)
ClientStops(c) ==
    /\ client[c] = "running"
    /\ ~ClientHeld(c)
    /\ client' = [client EXCEPT ![c] = "stopped"]
    /\ UNCHANGED <<start, sink, pump, relay>>

TaskStep(c) ==
    \/ StartBuilds(c)
    \/ StartInstalls(c)
    \/ ForwardEvent(c)
    \/ PumpSpawnsRelay(c)
    \/ PumpEnds(c)
    \/ \E f \in Frame : RelayFramedPayload(c, f) \/ RelayWakes(c, f)
    \/ ClientStops(c)

Next ==
    \E c \in Caller :
        \/ StartChecks(c)
        \/ TaskStep(c)
        \/ PumpTakes(c)
        \/ DropHandle(c)
        \/ DropHost(c)

(* Every task is polled when it can go on.  Nobody has to start, send or   *)
(* let go.                                                                 *)
Fairness ==
    \A c \in Caller :
        /\ WF_hostVars(StartBuilds(c))
        /\ WF_hostVars(StartInstalls(c))
        /\ WF_hostVars(ForwardEvent(c))
        /\ WF_hostVars(PumpSpawnsRelay(c))
        /\ WF_hostVars(PumpEnds(c))
        /\ \A f \in Frame : WF_hostVars(RelayFramedPayload(c, f) \/ RelayWakes(c, f))
        /\ WF_hostVars(ClientStops(c))

Spec == Init /\ [][Next]_hostVars /\ Fairness

-----------------------------------------------------------------------------
(* Properties *)

(* Every variable stays in its range; no relay tries more often than the   *)
(* policy says or runs without a permit.                                   *)
TypeOK ==
    /\ caller \in [Caller -> {"idle", "building", "built", "ok", "refused", "failed"}]
    /\ slot \in Caller \cup {None}
    /\ hostGone \in BOOLEAN
    /\ held \in [Caller -> BOOLEAN]
    /\ forwarder \in [Caller -> {"none", "running", "ended"}]
    /\ published \in [Caller -> 0 .. MaxEvents]
    /\ pump \in [Caller -> {"none", "running", "aborted", "ended"}]
    /\ frame \in [Caller -> [Frame -> {"none", "ignored", "delivered", "waiting", "sending",
                                       "sleeping", "forwarded", "dropped", "lost"}]]
    /\ attempts \in [Caller -> [Frame -> 0 .. AttemptsMax]]
    /\ client \in [Caller -> {"none", "running", "stopped"}]
    /\ \A c \in Caller : Cardinality(Inflight(c)) <= InflightMax

(* Of overlapping start calls at most one succeeds, and while the host     *)
(* state lives its slot holds the service that call returned.              *)
OneService ==
    \A c \in Caller : caller[c] = "ok" =>
        /\ \A d \in Caller : caller[d] = "ok" => d = c
        /\ hostGone \/ slot = c

(* The owner holds no handle of the service any more. *)
Abandoned(c) == client[c] # "none" /\ ~held[c] /\ slot # c

(* The client of an abandoned service stops, though its pump holds it and  *)
(* relay tasks may be between two attempts: the service of the call that   *)
(* lost the race to start included.                                        *)
AbandonedStops ==
    \A c \in Caller :
        (Abandoned(c) /\ forwarder[c] = "none") ~> client[c] = "stopped"

(* A frame to relay is forwarded or reported as dropped, unless the pump   *)
(* is aborted before it got a permit: retries end and permits come back.   *)
RelayResolved ==
    \A c \in Caller, f \in Frame :
        frame[c][f] = "waiting" ~> frame[c][f] \in {"forwarded", "dropped", "lost"}

(* The loop that forwards events to a sink exits once its owner has let    *)
(* the service go.                                                         *)
ForwarderExits ==
    \A c \in Caller : Abandoned(c) ~> forwarder[c] # "running"
=============================================================================
