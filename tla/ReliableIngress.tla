-------------------------- MODULE ReliableIngress --------------------------
(***************************************************************************)
(* What the runtime task promises the host bridge about control ingress,   *)
(* the observations and faults of links: every one that a handler hands    *)
(* over is in flight exactly once until the bridge takes it.  A step that  *)
(* loses, duplicates or invents one is no step of this specification.      *)
(* Order is not promised, and other events may be dropped.                 *)
(***************************************************************************)
EXTENDS Naturals, Sequences

CONSTANTS
    Event,      \* what a handler may hand over
    Control     \* the events that must arrive, a subset of Event

VARIABLES
    offered,    \* events handed over by the last handler and not accepted yet
    inFlight,   \* how many copies of a control event were accepted and not taken
    taken       \* how many of each the bridge took in the last step

Nothing == [e \in Control |-> 0]

Init == offered = <<>> /\ inFlight = Nothing /\ taken = Nothing

(* A handler hands over its events.                                        *)
Offer ==
    /\ offered = <<>>
    /\ offered' \in Seq(Event) \ {<<>>}
    /\ taken' = Nothing
    /\ UNCHANGED inFlight

(* The next one is accepted: one more copy of it, and of nothing else.     *)
Accept ==
    /\ offered # <<>>
    /\ offered' = Tail(offered)
    /\ inFlight' = [e \in Control |-> inFlight[e] + (IF Head(offered) = e THEN 1 ELSE 0)]
    /\ taken' = Nothing

(* The bridge takes some of what is in flight, which leaves the rest.      *)
Take ==
    /\ taken' \in [Control -> Nat] \ {Nothing}
    /\ \A e \in Control : taken'[e] <= inFlight[e]
    /\ inFlight' = [e \in Control |-> inFlight[e] - taken'[e]]
    /\ UNCHANGED offered

(* Events move on their way.                                               *)
Carry == taken' = Nothing /\ UNCHANGED <<offered, inFlight>>

Next == Offer \/ Accept \/ Take \/ Carry

Spec == Init /\ [][Next]_<<offered, inFlight, taken>>
=============================================================================
