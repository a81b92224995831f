----------------------------- MODULE BleRuntime -----------------------------
(***************************************************************************)
(* The BLE runtime task together with the bounded ingress mailbox between  *)
(* it and the host bridge (crates/jq-link-profile/src/task.rs, `run_inner`,*)
(* `emit_control_event`, `flush_deferred_control_ingress`).                *)
(*                                                                         *)
(* The handlers are those of BleSessions.  A handler does not read the     *)
(* mailbox, so its events can be emitted one by one after its state        *)
(* change; no other handler starts before the last one is out.  The bridge *)
(* runs on another task and may drain the mailbox between any two emits.   *)
(***************************************************************************)
EXTENDS BleSessions, FiniteSets

CONSTANTS
    IngressCapacity,  \* BleQueueConfig::ingress_capacity
    MaxDeferred       \* bound on the deferred queue, which the code leaves unbounded

ASSUME IngressAssumption == IngressCapacity \in Nat \ {0} /\ MaxDeferred \in Nat

VARIABLES
    phase,      \* where the loop is: "flush", "select", "emit" or "stopped"
    pending,    \* events the current handler still has to emit
    mailbox,    \* the shared ingress mailbox
    deferred,   \* deferred_control_ingress
    quiet,      \* the platform reports nothing any more
    delivered,  \* last link event ingested, per node and class
    taken       \* history: what the bridge drained in the last step

loop == <<phase, pending, mailbox, deferred, quiet, delivered, taken>>
runtimeVars == <<vars, loop>>

RuntimeInit ==
    /\ Init
    /\ phase = IF restored = {} THEN "flush" ELSE "select"
    /\ pending = <<>>
    /\ mailbox = <<>>
    /\ deferred = <<>>
    /\ quiet = FALSE
    /\ delivered = reported
    /\ taken = <<>>

-----------------------------------------------------------------------------
IsControl(event) == event.type # "payload"

Control == {e \in Event : IsControl(e)}

(* Rehydration handles its devices back to back; after it every handler    *)
(* returns to the top of the loop, where deferred events are flushed.      *)
TopOfLoop == IF restored' = {} THEN "flush" ELSE "select"

Handle ==
    /\ phase = "select"
    /\ ~quiet
    /\ Len(deferred) + 3 <= MaxDeferred  \* no handler emits more than 3 events
    /\ Next
    /\ pending' = emits'
    /\ phase' = IF emits' = <<>> THEN TopOfLoop ELSE "emit"
    /\ taken' = <<>>
    /\ UNCHANGED <<mailbox, deferred, quiet, delivered>>

(* Mutation: one event too many is accepted. *)
MailboxFull_OffByOne == Len(mailbox) > IngressCapacity

(* External: TransportIngressSender::emit refuses an event when the        *)
(* mailbox is full.                                                        *)
MailboxFull == Len(mailbox) >= IngressCapacity

(* A control event that does not fit is deferred, a payload is dropped.    *)
EmitEvent(event) ==
    \/ /\ ~MailboxFull
       /\ mailbox' = Append(mailbox, event)
       /\ UNCHANGED deferred
    \/ /\ MailboxFull /\ IsControl(event)
       /\ deferred' = Append(deferred, event)
       /\ UNCHANGED mailbox
    \/ /\ MailboxFull /\ ~IsControl(event)
       /\ UNCHANGED <<mailbox, deferred>>

EmitNext ==
    /\ phase = "emit"
    /\ EmitEvent(Head(pending))
    /\ pending' = Tail(pending)
    /\ UNCHANGED vars
    /\ phase' = IF Tail(pending) = <<>> THEN TopOfLoop ELSE "emit"
    /\ taken' = <<>>
    /\ UNCHANGED <<quiet, delivered>>

(* Mutation: the popped event is put back although the mailbox took it. *)
FlushDeferredControlIngress_PutsBack ==
    /\ phase = "flush"
    /\ mailbox' = IF deferred # <<>> /\ ~MailboxFull
                  THEN Append(mailbox, Head(deferred)) ELSE mailbox
    /\ phase' = "select"
    /\ taken' = <<>>
    /\ UNCHANGED <<vars, pending, deferred, quiet, delivered>>

FlushDeferredControlIngress ==
    /\ phase = "flush"
    /\ IF deferred # <<>> /\ ~MailboxFull
       THEN /\ mailbox' = Append(mailbox, Head(deferred))
            /\ deferred' = Tail(deferred)
            /\ UNCHANGED phase
       ELSE /\ phase' = "select"
            /\ UNCHANGED <<mailbox, deferred>>
    /\ taken' = <<>>
    /\ UNCHANGED <<vars, pending, quiet, delivered>>

(* Mutation: the timer is armed only while the radio is busy. *)
RetryDeferred_WhileBusy ==
    /\ ~quiet
    /\ phase = "select" /\ restored = {} /\ deferred # <<>>
    /\ phase' = "flush"
    /\ taken' = <<>>
    /\ UNCHANGED <<vars, pending, mailbox, deferred, quiet, delivered>>

(* The timer arm of the select, armed only while something is deferred.    *)
RetryDeferred ==
    /\ phase = "select"
    /\ restored = {}
    /\ deferred # <<>>
    /\ phase' = "flush"
    /\ taken' = <<>>
    /\ UNCHANGED <<vars, pending, mailbox, deferred, quiet, delivered>>

(* The shutdown command ends the loop; what is deferred then stays behind. *)
Shutdown ==
    /\ phase = "select"
    /\ restored = {}
    /\ phase' = "stopped"
    /\ taken' = <<>>
    /\ UNCHANGED <<vars, pending, mailbox, deferred, quiet, delivered>>

(* What is known of node n's link of class k once the mailbox is ingested  *)
(* in order: the last event about it wins.  The unicast class stands for   *)
(* the edge to the node in the topology projector, the notify class for    *)
(* its entry among the subscribers of the multicast admission.             *)
Ingested(n, k) ==
    LET is == LinkEvents(mailbox, n, k)
    IN  IF is = {} THEN delivered[n][k]
        ELSE mailbox[CHOOSE i \in is : \A j \in is : j <= i]

(* The bridge takes everything in the mailbox.  It has room for all of it  *)
(* here; what stage_transport_ingress drops when it has not is counted in  *)
(* ClientLoop.                                                             *)
Drain ==
    /\ mailbox # <<>>
    /\ mailbox' = <<>>
    /\ taken' = mailbox
    /\ delivered' = [n \in Node |-> [k \in LinkClass |-> Ingested(n, k)]]
    /\ UNCHANGED <<vars, phase, pending, deferred, quiet>>

GoQuiet ==
    /\ quiet' = TRUE
    /\ ~quiet
    /\ restored = {}
    /\ taken' = <<>>
    /\ UNCHANGED <<vars, phase, pending, mailbox, deferred, delivered>>

RuntimeNext ==
    \/ Handle
    \/ EmitNext
    \/ FlushDeferredControlIngress
    \/ RetryDeferred
    \/ Shutdown
    \/ Drain
    \/ GoQuiet

(* The task is polled while it has work, its timer fires, and the bridge,  *)
(* which is woken by every emit, keeps draining.                           *)
Fairness ==
    /\ WF_runtimeVars(EmitNext)
    /\ WF_runtimeVars(FlushDeferredControlIngress)
    /\ WF_runtimeVars(RetryDeferred)
    /\ WF_runtimeVars(Drain)

RuntimeSpec == RuntimeInit /\ [][RuntimeNext]_runtimeVars /\ Fairness

-----------------------------------------------------------------------------
(* Properties *)

(* The queues hold events, only control events are ever deferred, and the  *)
(* mailbox never exceeds its capacity.                                     *)
RuntimeTypeOK ==
    /\ phase \in {"flush", "select", "emit", "stopped"}
    /\ pending \in Seq(Event)
    /\ mailbox \in Seq(Event) /\ Len(mailbox) <= IngressCapacity
    /\ deferred \in Seq(Control)
    /\ quiet \in BOOLEAN
    /\ delivered \in [Node -> [LinkClass -> Control \cup {None}]]
    /\ taken \in Seq(Event)

Settled ==
    /\ phase = "select"
    /\ restored = {}
    /\ mailbox = <<>>
    /\ deferred = <<>>

(* Once the radio is quiet, every deferred control event reaches the       *)
(* bridge, for the retry timer of the select loop keeps flushing, unless   *)
(* the task is shut down.                                                  *)
DeferredDelivered == quiet ~> (Settled \/ phase = "stopped")

Occurrences(s, e) == Cardinality({i \in DOMAIN s : s[i] = e})

Abstract == INSTANCE ReliableIngress WITH
    offered <- pending,
    inFlight <- [e \in Control |-> Occurrences(mailbox, e) + Occurrences(deferred, e)],
    taken <- [e \in Control |-> Occurrences(taken, e)]

(* However the bridge's drains fall between the emits and the flushes, the *)
(* mailbox with its deferred queue holds every control event a handler     *)
(* emitted and the bridge has not taken exactly once: none is lost when    *)
(* the mailbox is full, none duplicated by a flush and none invented.      *)
(* Events deferred when the task is shut down stay deferred.               *)
ControlIngressReliable == Abstract!Spec

(* When nothing is in flight, the last link event the bridge has ingested  *)
(* about a peer is the last one the task emitted, so the mesh topology and *)
(* the multicast admission show the links the task has.                    *)
RouterCurrent == Settled => delivered = reported
=============================================================================
