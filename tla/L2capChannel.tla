---------------------------- MODULE L2capChannel ----------------------------
(***************************************************************************)
(* One L2CAP channel between two runtimes                                  *)
(* (crates/jq-link-profile/src/l2cap.rs, `spawn_l2cap_channel_tasks`, and  *)
(* its use in `send_via_session` and `handle_l2cap_runtime_event` of       *)
(* task.rs).                                                               *)
(*                                                                         *)
(* Each side runs three tasks.  The runtime task dispatches batches and    *)
(* handles channel events, one at a time; while it dispatches it takes no  *)
(* event.  The writer task moves payloads from the outbound queue to the   *)
(* wire, the reader task moves frames from the wire to the event queue.    *)
(* Both queues and the wire are bounded, and a full one blocks its sender. *)
(*                                                                         *)
(* Payloads of a side are numbered in the order of their dispatch.         *)
(***************************************************************************)
EXTENDS Naturals, Sequences

CONSTANTS
    Side,              \* the two runtimes
    Peer,              \* side -> the other side
    OutboundCapacity,  \* of the outbound queue (DEFAULT_COMMAND_CAPACITY)
    EventCapacity,     \* of the event queue (BleQueueConfig::command_capacity)
    WireCapacity,      \* external: frames the link buffers per direction
    Payloads,          \* bound on the payloads each side dispatches
    LinkMayFail        \* may writes fail and the link go down?

ASSUME L2capAssumption ==
    /\ Peer \in [Side -> Side]
    /\ \A s \in Side : Peer[s] # s /\ Peer[Peer[s]] = s
    /\ {OutboundCapacity, EventCapacity, WireCapacity} \subseteq Nat \ {0}
    /\ Payloads \in [Side -> Nat]
    /\ LinkMayFail \in BOOLEAN

Closed == 0  \* the ChannelClosed event; frames are numbered from 1

VARIABLES
    dispatched,  \* payloads the runtime has dispatched so far
    batch,       \* payloads left of the batch it is dispatching; 0: in select
    registered,  \* the channel is in l2cap_channels
    outbound,    \* the outbound queue
    events,      \* the event queue of the runtime
    writer,      \* [state, holds]: "idle", "writing", "failed" or "done"
    reader,      \* [state, holds]: "idle", "sending", "closing" or "done"
    wire,        \* external: frames sent by a side that its peer has not read
    writeDead,   \* external: writes of this side fail
    delivered,   \* frames the runtime has handed on as payloads
    viaGatt      \* payloads that went out through the GATT fallback

runtime == <<dispatched, batch, registered, delivered, viaGatt>>
channelVars == <<runtime, outbound, events, writer, reader, wire, writeDead>>

At(state, n) == [state |-> state, holds |-> n]

Init ==
    /\ dispatched = [s \in Side |-> 0]
    /\ batch = [s \in Side |-> 0]
    /\ registered = [s \in Side |-> TRUE]
    /\ outbound = [s \in Side |-> <<>>]
    /\ events = [s \in Side |-> <<>>]
    /\ writer = [s \in Side |-> At("idle", 0)]
    /\ reader = [s \in Side |-> At("idle", 0)]
    /\ wire = [s \in Side |-> <<>>]
    /\ writeDead = [s \in Side |-> FALSE]
    /\ delivered = [s \in Side |-> <<>>]
    /\ viaGatt = [s \in Side |-> {}]

-----------------------------------------------------------------------------
(* The runtime task *)

DispatchOutboundBatch(s) ==
    /\ batch[s] = 0
    /\ \E k \in 1 .. Payloads[s] - dispatched[s] : batch' = [batch EXCEPT ![s] = k]
    /\ UNCHANGED <<dispatched, registered, delivered, viaGatt, outbound, events,
                   writer, reader, wire, writeDead>>

(* One payload of the batch.  The send waits while the outbound queue is   *)
(* full; it fails once the writer task has ended, and then the channel is  *)
(* closed and the payload goes out through the fallback.                   *)
SendViaSession(s) ==
    LET n == dispatched[s] + 1
        receiverGone == writer[s].state = "done"
    IN  /\ batch[s] > 0
        /\ batch' = [batch EXCEPT ![s] = @ - 1]
        /\ dispatched' = [dispatched EXCEPT ![s] = n]
        /\ \/ /\ registered[s] /\ ~receiverGone
              /\ Len(outbound[s]) < OutboundCapacity
              /\ outbound' = [outbound EXCEPT ![s] = Append(@, n)]
              /\ UNCHANGED <<registered, viaGatt>>
           \/ /\ registered[s] => receiverGone
              /\ registered' = [registered EXCEPT ![s] = FALSE]
              /\ viaGatt' = [viaGatt EXCEPT ![s] = @ \cup {n}]
              /\ UNCHANGED outbound
        /\ UNCHANGED <<delivered, events, writer, reader, wire, writeDead>>

(* A frame of a channel that is no longer registered is ignored.           *)
HandleL2capRuntimeEvent(s) ==
    /\ batch[s] = 0
    /\ events[s] # <<>>
    /\ LET event == Head(events[s])
       IN  /\ registered' = [registered EXCEPT ![s] = @ /\ event # Closed]
           /\ delivered' = [delivered EXCEPT ![s] =
                 IF registered[s] /\ event # Closed THEN Append(@, event) ELSE @]
    /\ events' = [events EXCEPT ![s] = Tail(@)]
    /\ UNCHANGED <<dispatched, batch, viaGatt, outbound, writer, reader, wire, writeDead>>

-----------------------------------------------------------------------------
(* The writer task *)

(* Mutation: one event too many is accepted. *)
EventQueueFull_OffByOne(s) == Len(events[s]) > EventCapacity

EventQueueFull(s) == Len(events[s]) >= EventCapacity

WriterTakes(s) ==
    /\ writer[s].state = "idle"
    /\ outbound[s] # <<>>
    /\ writer' = [writer EXCEPT ![s] = At("writing", Head(outbound[s]))]
    /\ outbound' = [outbound EXCEPT ![s] = Tail(@)]
    /\ UNCHANGED <<runtime, events, reader, wire, writeDead>>

(* Mutation: a failing write is tried again for ever. *)
WriterWrites_Retries(s) ==
    /\ writer[s].state = "writing"
    /\ ~writeDead[s]
    /\ Len(wire[s]) < WireCapacity
    /\ wire' = [wire EXCEPT ![s] = Append(@, writer[s].holds)]
    /\ writer' = [writer EXCEPT ![s] = At("idle", 0)]
    /\ UNCHANGED <<runtime, outbound, events, reader, writeDead>>

WriterWrites(s) ==
    /\ writer[s].state = "writing"
    /\ \/ /\ writeDead[s]
          /\ writer' = [writer EXCEPT ![s] = At("failed", 0)]
          /\ UNCHANGED wire
       \/ /\ ~writeDead[s]
          /\ Len(wire[s]) < WireCapacity
          /\ wire' = [wire EXCEPT ![s] = Append(@, writer[s].holds)]
          /\ writer' = [writer EXCEPT ![s] = At("idle", 0)]
    /\ UNCHANGED <<runtime, outbound, events, reader, writeDead>>

(* Mutation: the task ends without reporting the closure. *)
WriterEnds_Silent(s) ==
    /\ \/ writer[s].state = "failed"
       \/ writer[s].state = "idle" /\ outbound[s] = <<>> /\ ~registered[s]
    /\ writer' = [writer EXCEPT ![s] = At("done", 0)]
    /\ UNCHANGED <<runtime, outbound, events, reader, wire, writeDead>>

(* After a failed write the closure is reported, then the task ends and    *)
(* drops its end of the outbound queue.  It also ends when the channel has *)
(* been removed and the queue is drained.                                  *)
WriterEnds(s) ==
    /\ \/ /\ writer[s].state = "failed"
          /\ ~EventQueueFull(s)
          /\ events' = [events EXCEPT ![s] = Append(@, Closed)]
       \/ /\ writer[s].state = "idle"
          /\ outbound[s] = <<>>
          /\ ~registered[s]
          /\ UNCHANGED events
    /\ writer' = [writer EXCEPT ![s] = At("done", 0)]
    /\ UNCHANGED <<runtime, outbound, reader, wire, writeDead>>

-----------------------------------------------------------------------------
(* The reader task *)

ReaderTakes(s) ==
    LET from == Peer[s]
    IN  /\ reader[s].state = "idle"
        /\ wire[from] # <<>>
        /\ reader' = [reader EXCEPT ![s] = At("sending", Head(wire[from]))]
        /\ wire' = [wire EXCEPT ![from] = Tail(@)]
        /\ UNCHANGED <<runtime, outbound, events, writer, writeDead>>

(* Mutation: a frame that finds the event queue full is dropped. *)
ReaderForwards_Drops(s) ==
    /\ reader[s].state = "sending"
    /\ events' = IF EventQueueFull(s) THEN events
                 ELSE [events EXCEPT ![s] = Append(@, reader[s].holds)]
    /\ reader' = [reader EXCEPT ![s] = At("idle", 0)]
    /\ UNCHANGED <<runtime, outbound, writer, wire, writeDead>>

ReaderForwards(s) ==
    /\ reader[s].state = "sending"
    /\ ~EventQueueFull(s)
    /\ events' = [events EXCEPT ![s] = Append(@, reader[s].holds)]
    /\ reader' = [reader EXCEPT ![s] = At("idle", 0)]
    /\ UNCHANGED <<runtime, outbound, writer, wire, writeDead>>

(* The stream ends when the peer has dropped both halves of the channel,   *)
(* and may end with an error once the link has failed.                     *)
ReaderSeesEnd(s) ==
    LET p == Peer[s]
    IN  /\ reader[s].state = "idle"
        /\ wire[p] = <<>>
        /\ \/ writer[p].state = "done" /\ reader[p].state = "done"
           \/ writeDead[p]
        /\ reader' = [reader EXCEPT ![s] = At("closing", 0)]
        /\ UNCHANGED <<runtime, outbound, events, writer, wire, writeDead>>

ReaderEnds(s) ==
    /\ reader[s].state = "closing"
    /\ ~EventQueueFull(s)
    /\ events' = [events EXCEPT ![s] = Append(@, Closed)]
    /\ reader' = [reader EXCEPT ![s] = At("done", 0)]
    /\ UNCHANGED <<runtime, outbound, writer, wire, writeDead>>

-----------------------------------------------------------------------------
(* External: the link stops carrying the frames of one side.               *)
WriteDies(s) ==
    /\ LinkMayFail
    /\ ~writeDead[s]
    /\ writeDead' = [writeDead EXCEPT ![s] = TRUE]
    /\ UNCHANGED <<runtime, outbound, events, writer, reader, wire>>

Next ==
    \E s \in Side :
        \/ DispatchOutboundBatch(s)
        \/ SendViaSession(s)
        \/ HandleL2capRuntimeEvent(s)
        \/ WriterTakes(s)
        \/ WriterWrites(s)
        \/ WriterEnds(s)
        \/ ReaderTakes(s)
        \/ ReaderForwards(s)
        \/ ReaderSeesEnd(s)
        \/ ReaderEnds(s)
        \/ WriteDies(s)

(* Every task is polled when it can go on.  Nobody has to send, the link   *)
(* does not have to fail, and a reader need not notice that it has.        *)
Fairness ==
    \A s \in Side :
        /\ WF_channelVars(SendViaSession(s))
        /\ WF_channelVars(HandleL2capRuntimeEvent(s))
        /\ WF_channelVars(WriterTakes(s))
        /\ WF_channelVars(WriterWrites(s))
        /\ WF_channelVars(WriterEnds(s))
        /\ WF_channelVars(ReaderTakes(s))
        /\ WF_channelVars(ReaderForwards(s))
        /\ WF_channelVars(ReaderEnds(s))

Spec == Init /\ [][Next]_channelVars /\ Fairness

-----------------------------------------------------------------------------
(* Properties *)

(* Queues, the wire and the task states stay in range and in bounds.       *)
TypeOK ==
    \A s \in Side :
        LET Sent == 1 .. dispatched[s]
            Received == 1 .. dispatched[Peer[s]]
        IN  /\ dispatched[s] \in Nat
            /\ dispatched[s] + batch[s] \in 0 .. Payloads[s]
            /\ registered[s] \in BOOLEAN
            /\ outbound[s] \in Seq(Sent) /\ Len(outbound[s]) <= OutboundCapacity
            /\ events[s] \in Seq(Received \cup {Closed})
            /\ Len(events[s]) <= EventCapacity
            /\ writer[s] \in [state : {"idle", "writing", "failed", "done"},
                              holds : Sent \cup {0}]
            /\ reader[s] \in [state : {"idle", "sending", "closing", "done"},
                              holds : Received \cup {0}]
            /\ wire[s] \in Seq(Sent) /\ Len(wire[s]) <= WireCapacity
            /\ writeDead[s] \in BOOLEAN
            /\ delivered[s] \in Seq(Received)
            /\ viaGatt[s] \subseteq Sent

(* Whatever fails, a runtime gets a gapless prefix of what its peer sent   *)
(* over the channel, each frame once and in order, and none of it was also *)
(* sent through the fallback.                                              *)
DeliveredInOrder ==
    \A s \in Side :
        /\ \A i \in DOMAIN delivered[s] : delivered[s][i] = i
        /\ \A i \in DOMAIN delivered[s] : i \notin viaGatt[Peer[s]]

(* A dispatch in progress ends: the runtime returns to its select loop.    *)
(* It holds where the event queue has room for all that the peer sends and *)
(* for both closure reports (here 1 payload, EventCapacity 3), and only    *)
(* one side sends more than the channel buffers.  With a full queue the    *)
(* writer can block for good, and with both sides flooding each other all  *)
(* tasks can wait in a circle.                                             *)
DispatchReturns == \A s \in Side : batch[s] > 0 ~> batch[s] = 0

(* A runtime whose writer has hit a dead link downgrades away from the     *)
(* channel, whether or not its reader ever notices.  It holds while the    *)
(* event queue has room for the writer's report, and fails otherwise.      *)
WriteDeadDowngraded ==
    \A s \in Side : writer[s].state = "failed" ~> ~registered[s]
=============================================================================
