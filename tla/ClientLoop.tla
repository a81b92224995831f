----------------------------- MODULE ClientLoop -----------------------------
(***************************************************************************)
(* The client thread: its command loop (crates/jq-client/src/client.rs,    *)
(* `ClientTask`) around the rounds of the host bridge (bridge.rs,          *)
(* `BleHostBridge`).                                                       *)
(*                                                                         *)
(* The runtime task, the callers and the owner of the client run on other  *)
(* threads: an ingress event, a command or the shutdown request may come   *)
(* between any two steps here.  What the router answers is external and    *)
(* nondeterministic.  Events and sends are numbered in order of arrival.   *)
(* What the events say, the projection made of them, its publication and   *)
(* the choice of routes are in ClientView.                                 *)
(***************************************************************************)
EXTENDS Naturals, SequencesExt

CONSTANTS
    MaxEvents,         \* bound on the ingress events of a behaviour
    MaxSends,          \* bound on the send commands of a behaviour
    MaxWork,           \* bound on the router changes and immediate hints of a behaviour
    MailboxCapacity,   \* of the ingress mailbox
    InboundCapacity,   \* BleBridgeConfig::inbound_capacity
    DispatchCapacity,  \* of the outbound dispatch mailbox
    RuntimeCapacity,   \* of the runtime's command queue
    DrainMax           \* CLIENT_COMMAND_DRAIN_MAX

ASSUME ClientAssumption ==
    /\ {MaxEvents, MaxSends, MaxWork, InboundCapacity} \subseteq Nat
    /\ {MailboxCapacity, DispatchCapacity, RuntimeCapacity, DrainMax} \subseteq Nat \ {0}

Hint == {"Immediate", "WithinTicks", "HostDefault"}

VARIABLES
    emitted,    \* external: ingress events the runtime has put in the mailbox
    mailbox,    \* the ingress mailbox
    notifier,   \* version of the ingress notifier
    sends,      \* send commands callers have queued so far
    commands,   \* the client's command queue
    shutdown,   \* the shutdown watch holds true
    hungUp,     \* the owner has dropped the command sender
    runtimeUp,  \* external: the runtime task runs and holds its command receiver
    pc,         \* where the client thread is
    back,       \* what called the round: [to, send], send = 0 for the loop
    drained,    \* commands handled since the top of the loop
    followUp,   \* this is the extra round of drive_bridge_round
    snapshot,   \* notifier version the round started with
    hint,       \* the router's next-round hint of the last round
    pending,    \* pending_transport_observations
    ingested,   \* observations handed to the router in this round
    dropped,    \* dropped_transport_observations, not reported yet
    outbound,   \* the dispatch mailbox: sends queued for transport
    flushing,   \* the batch flush_outbound has drained
    runtimeQ,   \* batches in the runtime's command queue
    work,       \* external: changes and immediate hints the router has left
    applied,    \* observations in reports the client has applied
    reported,   \* history: drops reported in round reports
    lost,       \* history: observations lost to a failed round
    handed,     \* history: sends handed to the runtime, in order
    replies     \* what callers were answered

arrivals == <<emitted, mailbox, notifier, sends, commands, shutdown, hungUp, runtimeUp>>
loop == <<back, drained, followUp>>
bridge == <<snapshot, hint, pending, ingested, dropped>>
egress == <<outbound, flushing, runtimeQ, handed>>
outcome == <<applied, reported, lost, replies>>
clientVars == <<arrivals, pc, loop, bridge, egress, work, outcome>>

Init ==
    /\ emitted = 0 /\ mailbox = <<>> /\ notifier = 0
    /\ sends = 0 /\ commands = <<>>
    /\ shutdown = FALSE /\ hungUp = FALSE /\ runtimeUp = TRUE
    /\ pc = "top" /\ back = [to |-> "wait", send |-> 0]
    /\ drained = 0 /\ followUp = FALSE
    /\ snapshot = 0 /\ hint = "HostDefault"
    /\ pending = <<>> /\ ingested = <<>> /\ dropped = 0
    /\ outbound = <<>> /\ flushing = <<>> /\ runtimeQ = <<>> /\ handed = <<>>
    /\ work = MaxWork
    /\ applied = <<>> /\ reported = 0 /\ lost = {}
    /\ replies = [n \in 1 .. MaxSends |-> "none"]

-----------------------------------------------------------------------------
(* The other threads *)

(* External: the runtime task emits; the notifier is bumped.               *)
EmitIngress ==
    /\ runtimeUp
    /\ emitted < MaxEvents
    /\ Len(mailbox) < MailboxCapacity
    /\ emitted' = emitted + 1
    /\ mailbox' = Append(mailbox, emitted + 1)
    /\ notifier' = notifier + 1
    /\ UNCHANGED <<sends, commands, shutdown, hungUp, runtimeUp, pc, loop, bridge,
                   egress, work, outcome>>

(* External: the runtime task takes a batch.                               *)
RuntimeTakes ==
    /\ runtimeQ # <<>>
    /\ runtimeQ' = Tail(runtimeQ)
    /\ UNCHANGED <<arrivals, pc, loop, bridge, outbound, flushing, handed, work, outcome>>

(* External: the runtime task ends; the receiver goes with what is queued. *)
RuntimeStops ==
    /\ runtimeUp
    /\ runtimeUp' = FALSE
    /\ runtimeQ' = <<>>
    /\ UNCHANGED <<emitted, mailbox, notifier, sends, commands, shutdown, hungUp, pc,
                   loop, bridge, outbound, flushing, handed, work, outcome>>

Send ==
    /\ sends < MaxSends
    /\ ~shutdown
    /\ sends' = sends + 1
    /\ commands' = Append(commands, sends + 1)
    /\ UNCHANGED <<emitted, mailbox, notifier, shutdown, hungUp, runtimeUp, pc, loop, bridge,
                   egress, work, outcome>>

(* Shutdown and drop set the watch first and hang up afterwards.           *)
RequestRuntimeShutdown ==
    /\ \/ ~shutdown /\ shutdown' = TRUE /\ UNCHANGED hungUp
       \/ shutdown /\ ~hungUp /\ hungUp' = TRUE /\ UNCHANGED shutdown
    /\ UNCHANGED <<emitted, mailbox, notifier, sends, commands, runtimeUp, pc, loop, bridge,
                   egress, work, outcome>>

-----------------------------------------------------------------------------
(* The command loop *)

Round(to, send) ==
    /\ pc' = "snapshot"
    /\ back' = [to |-> to, send |-> send]
    /\ followUp' = FALSE

Top ==
    /\ pc = "top"
    /\ pc' = IF shutdown THEN "stopped" ELSE "drain"
    /\ drained' = 0
    /\ UNCHANGED <<arrivals, back, followUp, bridge, egress, work, outcome>>

(* Mutation: a refused send is not answered. *)
HandleCommand_NoReply(n, to) ==
    \/ /\ pc' = to
       /\ UNCHANGED <<outbound, back, followUp, replies>>
    \/ /\ Len(outbound) < DispatchCapacity
       /\ outbound' = Append(outbound, n)
       /\ Round(to, n)
       /\ UNCHANGED replies

(* handle_command: without a route the send is refused, with a full        *)
(* dispatch mailbox too; otherwise a round is driven before the reply.     *)
HandleCommand(n, to) ==
    \/ /\ replies' = [replies EXCEPT ![n] = "refused"]
       /\ pc' = to
       /\ UNCHANGED <<outbound, back, followUp>>
    \/ /\ Len(outbound) < DispatchCapacity
       /\ outbound' = Append(outbound, n)
       /\ Round(to, n)
       /\ UNCHANGED replies

DrainReadyCommands ==
    /\ pc = "drain"
    /\ \/ /\ drained = DrainMax \/ (commands = <<>> /\ ~hungUp)
          /\ Round("wait", 0)
          /\ UNCHANGED <<commands, drained, outbound, replies>>
       \/ /\ drained < DrainMax /\ commands = <<>> /\ hungUp
          /\ pc' = "stopped"
          /\ UNCHANGED <<commands, back, followUp, drained, outbound, replies>>
       \/ /\ drained < DrainMax /\ commands # <<>>
          /\ drained' = drained + 1
          /\ commands' = Tail(commands)
          /\ HandleCommand(Head(commands), "drain")
    /\ UNCHANGED <<emitted, mailbox, notifier, sends, shutdown, hungUp, runtimeUp, bridge,
                   flushing, runtimeQ, handed, work, applied, reported, lost>>

-----------------------------------------------------------------------------
(* advance_round *)

TakeSnapshot ==
    /\ pc = "snapshot"
    /\ pc' = "stage"
    /\ snapshot' = notifier
    /\ UNCHANGED <<arrivals, loop, hint, pending, ingested, dropped, egress, work, outcome>>

(* Mutation: the capacity is checked after the push. *)
Room_OffByOne == InboundCapacity + 1 - Len(pending)

Room == InboundCapacity - Len(pending)

(* Mutation: a drop is not counted. *)
CountDropped_Forgets(n) == UNCHANGED dropped

CountDropped(n) == dropped' = dropped + n

(* What does not fit into the pending queue is dropped and counted.        *)
StageTransportIngress ==
    /\ pc = "stage"
    /\ pc' = "ingest"
    /\ mailbox' = <<>>
    /\ LET kept == SubSeq(mailbox, 1, IF Room < Len(mailbox) THEN Room ELSE Len(mailbox))
       IN  /\ pending' = pending \o kept
           /\ CountDropped(Len(mailbox) - Len(kept))
    /\ UNCHANGED <<emitted, notifier, sends, commands, shutdown, hungUp, runtimeUp, loop,
                   snapshot, hint, ingested, egress, work, outcome>>

(* Mutation: the caller of a failed round gets a receipt. *)
RoundFails_Receipt ==
    /\ pc' = IF back.send = 0 THEN "waitError" ELSE back.to
    /\ replies' = IF back.send = 0 THEN replies
                  ELSE [replies EXCEPT ![back.send] = "ok"]
    /\ UNCHANGED <<applied, reported>>

(* A round that fails goes straight back to its caller; the observations   *)
(* it had taken are gone.                                                  *)
RoundFails ==
    /\ pc' = IF back.send = 0 THEN "waitError" ELSE back.to
    /\ replies' = IF back.send = 0 THEN replies
                  ELSE [replies EXCEPT ![back.send] = "failed"]
    /\ UNCHANGED <<applied, reported>>

IngestAndAdvanceRouter ==
    /\ pc = "ingest"
    /\ pending' = <<>>
    /\ \/ /\ pc' = "flush"
          /\ ingested' = pending
          /\ \/ hint' = "Immediate" /\ work > 0 /\ work' = work - 1
             \/ hint' \in Hint \ {"Immediate"} /\ UNCHANGED work
          /\ UNCHANGED outcome
       \/ /\ RoundFails
          /\ lost' = lost \cup ToSet(pending)
          /\ UNCHANGED <<ingested, hint, work>>
    /\ UNCHANGED <<arrivals, loop, snapshot, dropped, egress>>

(* Mutation: the commands are copied instead of drained. *)
FlushOutbound_Peeks ==
    /\ pc = "flush"
    /\ flushing' = outbound
    /\ pc' = IF outbound = <<>> THEN "finish" ELSE "dispatch"
    /\ UNCHANGED <<arrivals, loop, bridge, outbound, runtimeQ, handed, work, outcome>>

FlushOutbound ==
    /\ pc = "flush"
    /\ flushing' = outbound
    /\ outbound' = <<>>
    /\ pc' = IF outbound = <<>> THEN "finish" ELSE "dispatch"
    /\ UNCHANGED <<arrivals, loop, bridge, runtimeQ, handed, work, outcome>>

(* The dispatch waits while the runtime's queue is full; it fails once the *)
(* runtime is gone, and the batch with it.                                 *)
Dispatch ==
    /\ pc = "dispatch"
    /\ \/ /\ runtimeUp
          /\ Len(runtimeQ) < RuntimeCapacity
          /\ runtimeQ' = Append(runtimeQ, flushing)
          /\ handed' = handed \o flushing
          /\ pc' = "finish"
          /\ UNCHANGED <<flushing, ingested, outcome>>
       \/ /\ ~runtimeUp
          /\ RoundFails
          /\ lost' = lost \cup ToSet(ingested)
          /\ ingested' = <<>>
          /\ flushing' = <<>>
          /\ UNCHANGED <<runtimeQ, handed>>
    /\ UNCHANGED <<arrivals, loop, snapshot, hint, pending, dropped, outbound, work>>

(* The outcome of a round is Waiting rather than Advanced.                 *)
RoundWaiting(routerChanged) ==
    ingested = <<>> /\ flushing = <<>> /\ dropped = 0 /\ ~routerChanged

(* The end of the round: the report is applied, one follow-up round may be *)
(* run, and the caller resumes.                                            *)
FinishRound ==
    \E routerChanged \in BOOLEAN :
      LET waiting == RoundWaiting(routerChanged)
          again   == ~waiting /\ hint = "Immediate" /\ ~followUp
      IN  /\ pc = "finish"
          /\ IF routerChanged THEN work > 0 /\ work' = work - 1 ELSE UNCHANGED work
          /\ reported' = reported + dropped
          /\ dropped' = 0
          /\ applied' = applied \o ingested
          /\ ingested' = <<>>
          /\ flushing' = <<>>
          /\ \/ /\ again
                /\ followUp' = TRUE
                /\ pc' = "snapshot"
                /\ UNCHANGED replies
             \/ /\ ~again
                /\ replies' = IF back.send = 0 THEN replies
                              ELSE [replies EXCEPT ![back.send] = "ok"]
                /\ pc' = IF back.send = 0 /\ ~waiting THEN "top" ELSE back.to
                /\ UNCHANGED followUp
          /\ UNCHANGED <<arrivals, back, drained, snapshot, hint, pending, outbound,
                         runtimeQ, handed, lost>>

-----------------------------------------------------------------------------
(* Waiting *)

(* wait_decision: work that is left takes priority over the router's hint. *)
AdvanceImmediately == pending # <<>> \/ outbound # <<>> \/ hint = "Immediate"

(* Mutation: the notifier is read when the client parks. *)
WaitForWork_LateSnapshot ==
    /\ pc = "wait"
    /\ pc' = IF AdvanceImmediately THEN "top" ELSE "parked"
    /\ snapshot' = notifier
    /\ UNCHANGED <<arrivals, loop, hint, pending, ingested, dropped, egress, work, outcome>>

WaitForWork ==
    /\ pc = "wait"
    /\ pc' = IF AdvanceImmediately \/ notifier # snapshot THEN "top" ELSE "parked"
    /\ UNCHANGED <<arrivals, loop, bridge, egress, work, outcome>>

(* After a failed round the notifier is read afresh: what came before is   *)
(* left to the timer.                                                      *)
WaitAfterBridgeError ==
    /\ pc = "waitError"
    /\ pc' = "parkedError"
    /\ snapshot' = notifier
    /\ UNCHANGED <<arrivals, loop, hint, pending, ingested, dropped, egress, work, outcome>>

TimerArmed == pc = "parkedError" \/ hint = "WithinTicks"

(* Mutation: the select does not watch for shutdown. *)
ShutdownArm_Missing == FALSE

ShutdownArm == shutdown

(* A biased select: shutdown, a command or the end of the command channel, *)
(* the notifier, the timer if there is one.                                *)
Park ==
    /\ pc \in {"parked", "parkedError"}
    /\ \/ /\ ShutdownArm
          /\ pc' = "stopped"
          /\ UNCHANGED <<commands, outbound, back, followUp, replies>>
       \/ /\ ~ShutdownArm /\ commands # <<>>
          /\ commands' = Tail(commands)
          /\ HandleCommand(Head(commands), "top")
       \/ /\ ~ShutdownArm /\ commands = <<>>
          /\ notifier # snapshot \/ TimerArmed
          /\ pc' = "top"
          /\ UNCHANGED <<commands, outbound, back, followUp, replies>>
    /\ UNCHANGED <<emitted, mailbox, notifier, sends, shutdown, hungUp, runtimeUp, drained,
                   bridge, flushing, runtimeQ, handed, work, applied, reported, lost>>

ClientStep ==
    \/ Top
    \/ DrainReadyCommands
    \/ TakeSnapshot
    \/ StageTransportIngress
    \/ IngestAndAdvanceRouter
    \/ FlushOutbound
    \/ Dispatch
    \/ FinishRound
    \/ WaitForWork
    \/ WaitAfterBridgeError
    \/ Park

Next ==
    \/ EmitIngress
    \/ RuntimeTakes
    \/ RuntimeStops
    \/ Send
    \/ RequestRuntimeShutdown
    \/ ClientStep

(* The client thread runs while it can and the runtime task takes its      *)
(* commands until it ends.  Nobody has to emit, send or shut down.         *)
Spec ==
    /\ Init
    /\ [][Next]_clientVars
    /\ WF_clientVars(ClientStep)
    /\ WF_clientVars(RuntimeTakes)
-----------------------------------------------------------------------------
(* Properties *)

(* Queues stay within their capacities and every variable in its range.    *)
TypeOK ==
    /\ mailbox \in Seq(1 .. emitted) /\ Len(mailbox) <= MailboxCapacity
    /\ pending \in Seq(1 .. emitted) /\ Len(pending) <= InboundCapacity
    /\ ingested \in Seq(1 .. emitted) /\ applied \in Seq(1 .. emitted)
    /\ lost \subseteq 1 .. emitted
    /\ commands \in Seq(1 .. sends) /\ sends <= MaxSends
    /\ outbound \in Seq(1 .. sends) /\ Len(outbound) <= DispatchCapacity
    /\ flushing \in Seq(1 .. sends) /\ Len(runtimeQ) <= RuntimeCapacity
    /\ pc \in {"top", "drain", "snapshot", "stage", "ingest", "flush", "dispatch",
               "finish", "wait", "waitError", "parked", "parkedError", "stopped"}
    /\ back \in [to : {"wait", "drain", "top"}, send : 0 .. MaxSends]
    /\ drained <= DrainMax /\ snapshot <= notifier /\ hint \in Hint
    /\ runtimeUp \in BOOLEAN /\ work <= MaxWork /\ handed \in Seq(1 .. sends)
    /\ replies \in [1 .. MaxSends -> {"none", "ok", "refused", "failed"}]

(* Every ingress event is under way, applied in its order of arrival,    *)
(* counted as dropped, or went down with a failed round: none is applied   *)
(* twice or out of order, and no drop goes uncounted.                      *)
IngressAccounted ==
    /\ \A i, j \in DOMAIN applied : i < j => applied[i] < applied[j]
    /\ emitted = Len(mailbox) + Len(pending) + Len(ingested) + Len(applied)
                     + Cardinality(lost) + dropped + reported

(* A receipt means that the payload has been handed to the runtime task,   *)
(* also when it was queued by an earlier send whose round failed.          *)
ReceiptMeansHandedOver ==
    \A n \in 1 .. MaxSends : replies[n] = "ok" => n \in ToSet(handed)

(* A send goes to the runtime task at most once and never before an        *)
(* earlier one, whatever rounds failed in between, and one that was        *)
(* refused never goes; one that was answered with the error of its round   *)
(* may still go with a later round.                                        *)
HandedOnceInOrder ==
    /\ \A i, j \in DOMAIN handed : i < j => handed[i] < handed[j]
    /\ \A n \in ToSet(handed) : replies[n] # "refused"

(* An event in the mailbox is always taken, also one that arrives between  *)
(* the drain of a round and the park that follows it.                      *)
IngressTaken == mailbox # <<>> ~> (mailbox = <<>> \/ pc = "stopped")

(* A queued send is answered, parked or not, unless the client stops.      *)
SendAnswered ==
    \A n \in 1 .. MaxSends :
        (\E i \in DOMAIN commands : commands[i] = n)
            ~> (replies[n] # "none" \/ pc = "stopped")

(* A shutdown request stops the client thread, wherever it is.             *)
ShutdownStops == shutdown ~> pc = "stopped"
=============================================================================
