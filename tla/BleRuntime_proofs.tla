------------------------- MODULE BleRuntime_proofs -------------------------
(***************************************************************************)
(* Proofs about BleRuntime for every capacity of the ingress mailbox: its  *)
(* types and bounds, and that mailbox and deferred queue together          *)
(* implement ReliableIngress.                                              *)
(***************************************************************************)
EXTENDS BleRuntime, BleSessions_proofs, FiniteSetTheorems

(* The handler's events are emitted before the loop goes on.               *)
EmitsFirst == phase = "emit" <=> pending # <<>>

RuntimeInv == TypeOK /\ RuntimeTypeOK /\ EmitsFirst

-----------------------------------------------------------------------------
(* Positions and occurrences in a queue                                    *)

(* Every non-empty set of natural numbers has a least element.             *)
LEMMA LeastNumber ==
    ASSUME NEW T \in SUBSET Nat, T # {}
    PROVE  \E x \in T : \A y \in T : x <= y
<1>1. \E x \in T : \A y \in T : <<y, x>> \notin OpToRel(<, Nat)
  BY WFMin, NatLessThanWellFounded, Zenon
<1>2. \E x \in T : \A y \in T : ~(y < x)
  BY <1>1, Zenon DEF OpToRel
<1>3. QED BY <1>2

(* Every non-empty set of positions of a sequence has a greatest element.  *)
LEMMA GreatestPosition ==
    ASSUME NEW N \in Nat, NEW T \in SUBSET (1 .. N), T # {}
    PROVE  \E x \in T : \A y \in T : y <= x
<1> DEFINE U == {N - i : i \in T}
<1>1. U \in SUBSET Nat /\ U # {}
  <2>1. \A i \in T : N - i \in Nat
    OBVIOUS
  <2>2. QED BY <2>1
<1>2. PICK u \in U : \A v \in U : u <= v
  BY <1>1, LeastNumber
<1>3. PICK x \in T : u = N - x
  BY <1>2
<1>4. \A y \in T : y <= x
  <2> TAKE y \in T
  <2>1. N - x <= N - y
    BY <1>2, <1>3
  <2>2. x \in Int /\ y \in Int
    OBVIOUS
  <2>3. QED BY <2>1, <2>2
<1>5. QED BY <1>4


(* The last link event of a queue about a peer and class is one of it.     *)
LastOf(q, n, k) ==
    q[CHOOSE i \in LinkEvents(q, n, k) : \A j \in LinkEvents(q, n, k) : j <= i]

(* It is a control event about that peer and class.                        *)
LEMMA LastLinkEvent ==
    ASSUME NEW q \in Seq(Event), NEW n \in Node, NEW k \in LinkClass,
           LinkEvents(q, n, k) # {}
    PROVE  /\ LastOf(q, n, k) \in Control
           /\ LastOf(q, n, k).node = n
           /\ ClassOf(LastOf(q, n, k)) = k
<1> DEFINE is == LinkEvents(q, n, k)
           last == CHOOSE i \in is : \A j \in is : j <= i
<1>1. is \in SUBSET (1 .. Len(q)) /\ is # {} /\ Len(q) \in Nat
  BY DEF LinkEvents
<1>2. \E x \in is : \A y \in is : y <= x
  <2> HIDE DEF is
  <2>1. QED BY <1>1, GreatestPosition
<1>3. last \in is
  BY <1>2
<1>4. LastOf(q, n, k) = q[last]
  BY DEF LastOf
<1> HIDE DEF last
<1>5. /\ last \in DOMAIN q /\ q[last] \in Event /\ q[last].type # "payload"
      /\ q[last].node = n /\ ClassOf(q[last]) = k
  BY <1>3 DEF LinkEvents
<1>6. QED BY <1>4, <1>5 DEF Control, IsControl

(* What the bridge ingests of a mailbox with such an event is that event.  *)
LEMMA IngestedLast ==
    ASSUME NEW n, NEW k, LinkEvents(mailbox, n, k) # {}
    PROVE  Ingested(n, k) = LastOf(mailbox, n, k)
BY DEF Ingested, LastOf

(* An event appended to a queue that is not full fits.                     *)
LEMMA AppendFits ==
    ASSUME NEW q \in Seq(Event), NEW x \in Event, NEW capacity \in Nat, ~(Len(q) >= capacity)
    PROVE  Append(q, x) \in Seq(Event) /\ Len(Append(q, x)) <= capacity
<1>1. /\ Append(q, x) \in Seq(Event) /\ Len(Append(q, x)) = Len(q) + 1
      /\ Len(q) \in Nat
  OBVIOUS
<1>2. QED BY <1>1

(* A queue holds finitely many copies of an event.                         *)
LEMMA OccurrencesType ==
    ASSUME NEW q \in Seq(Event), NEW e
    PROVE  /\ IsFiniteSet({i \in DOMAIN q : q[i] = e})
           /\ Occurrences(q, e) \in Nat
           /\ Occurrences(q, e) > 0 <=> \E i \in DOMAIN q : q[i] = e
<1> DEFINE at == {i \in DOMAIN q : q[i] = e}
<1>1. IsFiniteSet(1 .. Len(q)) /\ at \in SUBSET (1 .. Len(q))
  BY FS_Interval
<1>2. IsFiniteSet(at) /\ Cardinality(at) \in Nat /\ (Cardinality(at) = 0 <=> at = {})
  BY <1>1, FS_Subset, FS_CardinalityType, FS_EmptySet
<1>3. Occurrences(q, e) = Cardinality(at)
  BY DEF Occurrences
<1>4. QED BY <1>2, <1>3

(* An empty queue holds no copy.                                           *)
LEMMA OccurrencesEmpty == \A e : Occurrences(<<>>, e) = 0
<1>1. \A e : {i \in DOMAIN <<>> : <<>>[i] = e} = {}
  OBVIOUS
<1>2. QED BY <1>1, FS_EmptySet DEF Occurrences

(* Appending an event adds one copy of it and none of another.             *)
LEMMA OccurrencesAppend ==
    ASSUME NEW q \in Seq(Event), NEW x \in Event, NEW e
    PROVE  Occurrences(Append(q, x), e) = Occurrences(q, e) + (IF x = e THEN 1 ELSE 0)
<1> DEFINE at == {i \in DOMAIN q : q[i] = e}
           new == {i \in DOMAIN Append(q, x) : Append(q, x)[i] = e}
           z == Len(q) + 1
<1>1. /\ Len(q) \in Nat /\ DOMAIN q = 1 .. Len(q)
      /\ DOMAIN Append(q, x) = 1 .. (Len(q) + 1)
      /\ Append(q, x)[Len(q) + 1] = x
      /\ \A i \in 1 .. Len(q) : Append(q, x)[i] = q[i]
  OBVIOUS
<1>2. IsFiniteSet(at) /\ z \notin at
  <2>1. IsFiniteSet(at)
    BY OccurrencesType
  <2>2. z \notin at
    BY <1>1
  <2>3. QED BY <2>1, <2>2
<1>3. CASE x = e
  <2>1. new = at \cup {z}
    BY <1>1, <1>3
  <2> HIDE DEF at, new, z
  <2>2. Cardinality(new) = Cardinality(at) + 1
    BY <1>2, <2>1, FS_AddElement
  <2>3. QED BY <1>3, <2>2 DEF Occurrences, at, new
<1>4. CASE x # e
  <2>1. new = at
    BY <1>1, <1>4
  <2>2. Occurrences(Append(q, x), e) = Occurrences(q, e)
    BY <2>1 DEF Occurrences
  <2>3. Occurrences(q, e) \in Nat
    BY OccurrencesType
  <2>4. QED BY <1>4, <2>2, <2>3
<1>5. QED BY <1>3, <1>4

(* Taking the head of a queue removes one copy of it and none of another.  *)
LEMMA OccurrencesTail ==
    ASSUME NEW q \in Seq(Event), q # <<>>, NEW e
    PROVE  Occurrences(q, e) = Occurrences(Tail(q), e) + (IF Head(q) = e THEN 1 ELSE 0)
<1> DEFINE t == Tail(q)
           at == {i \in DOMAIN t : t[i] = e}
           rest == {i \in DOMAIN q : i # 1 /\ q[i] = e}
           all == {i \in DOMAIN q : q[i] = e}
<1>1. /\ t \in Seq(Event) /\ Len(q) \in Nat /\ Len(q) >= 1
      /\ DOMAIN q = 1 .. Len(q) /\ DOMAIN t = 1 .. (Len(q) - 1)
      /\ \A i \in 1 .. (Len(q) - 1) : t[i] = q[i + 1]
      /\ Head(q) = q[1]
  OBVIOUS
<1>2. IsFiniteSet(at) /\ IsFiniteSet(all)
  BY <1>1, OccurrencesType
<1>3. Cardinality(rest) = Cardinality(at) /\ IsFiniteSet(rest)
  <2> DEFINE f == [i \in at |-> i + 1]
  <2>1. f \in [at -> rest]
    BY <1>1
  <2>2. \A i, j \in at : f[i] = f[j] => i = j
    BY <1>1
  <2>3. \A j \in rest : \E i \in at : f[i] = j
    <3> TAKE j \in rest
    <3>1. j - 1 \in at /\ f[j - 1] = j
      BY <1>1
    <3>2. QED BY <3>1
  <2> HIDE DEF f, at, rest
  <2>4. f \in Bijection(at, rest)
    BY <2>1, <2>2, <2>3 DEF Bijection, Injection, Surjection, IsInjective
  <2>5. ExistsBijection(at, rest)
    BY <2>4 DEF ExistsBijection
  <2>6. QED BY <1>2, <2>5, FS_Bijection
<1>4. CASE Head(q) = e
  <2>1. all = rest \cup {1} /\ 1 \notin rest
    BY <1>1, <1>4
  <2> HIDE DEF all, rest, at
  <2>2. Cardinality(all) = Cardinality(rest) + 1
    BY <1>3, <2>1, FS_AddElement
  <2>3. QED BY <1>3, <1>4, <2>2 DEF Occurrences, all, at
<1>5. CASE Head(q) # e
  <2>1. all = rest
    BY <1>1, <1>5
  <2>2. Occurrences(q, e) = Occurrences(t, e)
    BY <1>3, <2>1 DEF Occurrences
  <2>3. Occurrences(t, e) \in Nat
    BY <1>1, OccurrencesType
  <2>4. QED BY <1>5, <2>2, <2>3
<1>6. QED BY <1>4, <1>5

-----------------------------------------------------------------------------
(* Types and bounds                                                        *)

(* What a handler hands to the mailbox are events.                         *)
LEMMA HandleInv ==
    ASSUME RuntimeInv, Handle
    PROVE  RuntimeInv'
<1>1. TypeOK'
  BY TypeStep DEF RuntimeInv, Handle
<1>2. pending' \in Seq(Event) /\ pending' = emits'
  BY <1>1 DEF TypeOK, Handle
<1>3. phase' \in {"flush", "select", "emit"} /\ (phase' = "emit" <=> emits' # <<>>)
  BY DEF Handle, TopOfLoop
<1>4. taken' \in Seq(Event)
  BY DEF Handle
<1>5. QED BY <1>1, <1>2, <1>3, <1>4 DEF RuntimeInv, RuntimeTypeOK, EmitsFirst, Handle

(* An emit moves the next event into one of the two queues, or drops a     *)
(* payload.                                                                *)
LEMMA EmitNextInv ==
    ASSUME RuntimeInv, EmitNext
    PROVE  RuntimeInv'
<1>1. TypeOK'
  BY DEF RuntimeInv, TypeOK, EmitNext, vars
<1>2. /\ pending \in Seq(Event) /\ pending # <<>>
      /\ Head(pending) \in Event /\ Tail(pending) \in Seq(Event)
  BY DEF RuntimeInv, RuntimeTypeOK, EmitsFirst, EmitNext
<1>3. mailbox' \in Seq(Event) /\ Len(mailbox') <= IngressCapacity
  <2>1. CASE ~MailboxFull /\ mailbox' = Append(mailbox, Head(pending))
    BY <1>2, <2>1, IngressAssumption, AppendFits DEF RuntimeInv, RuntimeTypeOK, MailboxFull
  <2>2. CASE mailbox' = mailbox
    BY <2>2 DEF RuntimeInv, RuntimeTypeOK
  <2>3. QED BY <2>1, <2>2 DEF EmitNext, EmitEvent
<1>4. deferred' \in Seq(Control)
  <2>1. IsControl(Head(pending)) => Head(pending) \in Control
    BY <1>2 DEF Control
  <2>2. CASE IsControl(Head(pending)) /\ deferred' = Append(deferred, Head(pending))
    BY <2>1, <2>2 DEF RuntimeInv, RuntimeTypeOK
  <2>3. CASE deferred' = deferred
    BY <2>3 DEF RuntimeInv, RuntimeTypeOK
  <2>4. QED BY <2>2, <2>3 DEF EmitNext, EmitEvent
<1>5. phase' \in {"flush", "select", "emit"} /\ (phase' = "emit" <=> pending' # <<>>)
  BY DEF EmitNext, TopOfLoop
<1>6. taken' \in Seq(Event)
  BY DEF EmitNext
<1>7. QED BY <1>1, <1>2, <1>3, <1>4, <1>5, <1>6 DEF RuntimeInv, RuntimeTypeOK, EmitsFirst, EmitNext

(* A flush moves the oldest deferred event into the mailbox.               *)
LEMMA FlushInv ==
    ASSUME RuntimeInv, FlushDeferredControlIngress
    PROVE  RuntimeInv'
<1>1. TypeOK'
  BY DEF RuntimeInv, TypeOK, FlushDeferredControlIngress, vars
<1>2. CASE deferred # <<>> /\ ~MailboxFull
  <2>1. Head(deferred) \in Event /\ Tail(deferred) \in Seq(Control)
    BY <1>2 DEF RuntimeInv, RuntimeTypeOK, Control
  <2>2. mailbox' \in Seq(Event) /\ Len(mailbox') <= IngressCapacity
    BY <1>2, <2>1, IngressAssumption, AppendFits
       DEF RuntimeInv, RuntimeTypeOK, FlushDeferredControlIngress, MailboxFull
  <2>3. QED BY <1>1, <1>2, <2>1, <2>2
               DEF RuntimeInv, RuntimeTypeOK, EmitsFirst, FlushDeferredControlIngress
<1>3. CASE ~(deferred # <<>> /\ ~MailboxFull)
  BY <1>1, <1>3 DEF RuntimeInv, RuntimeTypeOK, EmitsFirst, FlushDeferredControlIngress
<1>4. QED BY <1>2, <1>3

(* What the bridge keeps of a drained mailbox are control events.          *)
LEMMA DrainInv ==
    ASSUME RuntimeInv, Drain
    PROVE  RuntimeInv'
<1>1. TypeOK'
  BY DEF RuntimeInv, TypeOK, Drain, vars
<1>2. mailbox \in Seq(Event) /\ delivered \in [Node -> [LinkClass -> Control \cup {None}]]
  BY DEF RuntimeInv, RuntimeTypeOK
<1>3. ASSUME NEW n \in Node, NEW k \in LinkClass
      PROVE  Ingested(n, k) \in Control \cup {None}
  <2>1. CASE LinkEvents(mailbox, n, k) = {}
    BY <1>2, <2>1 DEF Ingested
  <2>2. CASE LinkEvents(mailbox, n, k) # {}
    BY <1>2, <2>2, LastLinkEvent, IngestedLast
  <2>3. QED BY <2>1, <2>2
<1>4. delivered' \in [Node -> [LinkClass -> Control \cup {None}]]
  BY <1>3 DEF Drain
<1>5. mailbox' \in Seq(Event) /\ Len(mailbox') <= IngressCapacity
  BY IngressAssumption DEF Drain
<1>6. QED BY <1>1, <1>4, <1>5 DEF RuntimeInv, RuntimeTypeOK, EmitsFirst, Drain

(* The runtime keeps its invariant in every step.                          *)
LEMMA RuntimeStep ==
    ASSUME RuntimeInv, [RuntimeNext]_runtimeVars
    PROVE  RuntimeInv'
<1>1. CASE UNCHANGED runtimeVars
  BY <1>1 DEF RuntimeInv, TypeOK, RuntimeTypeOK, EmitsFirst, runtimeVars, vars, loop
<1>2. CASE RetryDeferred \/ Shutdown \/ GoQuiet
  <2>1. UNCHANGED <<vars, pending, mailbox, deferred, delivered>> /\ taken' = <<>>
    BY <1>2 DEF RetryDeferred, Shutdown, GoQuiet
  <2>2. TypeOK'
    BY <2>1 DEF RuntimeInv, TypeOK, vars
  <2>3. /\ phase' \in {"flush", "select", "emit", "stopped"} /\ quiet' \in BOOLEAN
        /\ phase' = "emit" <=> phase = "emit"
    BY <1>2 DEF RetryDeferred, Shutdown, GoQuiet, RuntimeInv, RuntimeTypeOK
  <2>4. QED BY <2>1, <2>2, <2>3 DEF RuntimeInv, RuntimeTypeOK, EmitsFirst
<1>3. QED BY <1>1, <1>2, HandleInv, EmitNextInv, FlushInv, DrainInv DEF RuntimeNext

(* The invariant of the runtime with its mailbox holds in every behaviour. *)
THEOREM RuntimeInvariant == RuntimeSpec => []RuntimeInv
<1>1. RuntimeInit => RuntimeInv
  <2> SUFFICES ASSUME RuntimeInit PROVE RuntimeInv
    OBVIOUS
  <2>1. TypeOK
    BY InitType DEF RuntimeInit
  <2>2. delivered \in [Node -> [LinkClass -> Control \cup {None}]]
    BY DEF RuntimeInit, Init
  <2>3. Len(<<>>) <= IngressCapacity /\ <<>> \in Seq(Event) /\ <<>> \in Seq(Control)
    BY IngressAssumption
  <2>4. phase \in {"flush", "select"}
    BY DEF RuntimeInit
  <2>5. QED BY <2>1, <2>2, <2>3, <2>4 DEF RuntimeInit, RuntimeInv, RuntimeTypeOK, EmitsFirst
<1>2. RuntimeInv /\ [RuntimeNext]_runtimeVars => RuntimeInv'
  BY RuntimeStep
<1>3. QED BY <1>1, <1>2, PTL DEF RuntimeSpec

(* The queues keep their types, the mailbox never exceeds its capacity and *)
(* only control events are ever deferred.                                  *)
THEOREM RuntimeTypeCorrect == RuntimeSpec => []RuntimeTypeOK
<1>1. RuntimeInv => RuntimeTypeOK
  BY DEF RuntimeInv
<1>2. QED BY <1>1, RuntimeInvariant, PTL

-----------------------------------------------------------------------------
(* The mailbox with its deferred queue implements ReliableIngress          *)

(* How many copies of an event the two queues hold, and how many of it the *)
(* bridge took in the last step.                                           *)
InFlight == [e \in Control |-> Occurrences(mailbox, e) + Occurrences(deferred, e)]

Taken == [e \in Control |-> Occurrences(taken, e)]

(* The copies in each queue are counted by natural numbers.                *)
LEMMA QueueCounts ==
    ASSUME RuntimeInv, NEW e \in Control
    PROVE  /\ Occurrences(mailbox, e) \in Nat
           /\ Occurrences(deferred, e) \in Nat
<1>1. mailbox \in Seq(Event) /\ deferred \in Seq(Event)
  BY DEF RuntimeInv, RuntimeTypeOK, Control
<1>2. QED BY <1>1, OccurrencesType

(* In a step that is no drain, the bridge takes nothing.                   *)
LEMMA NothingTaken ==
    ASSUME taken' = <<>>
    PROVE  Taken' = Abstract!Nothing
<1>1. \A e \in Control : Occurrences(taken', e) = 0
  BY OccurrencesEmpty
<1>2. QED BY <1>1 DEF Taken, Abstract!Nothing

(* A handler hands over its events and leaves the queues alone.            *)
LEMMA HandleOffers ==
    ASSUME RuntimeInv, Handle
    PROVE  Abstract!Offer \/ Abstract!Carry
<1>1. RuntimeInv'
  BY HandleInv
<1>2. pending = <<>> /\ InFlight' = InFlight /\ Taken' = Abstract!Nothing
  BY NothingTaken DEF RuntimeInv, EmitsFirst, Handle, InFlight
<1>3. CASE pending' = <<>>
  BY <1>2, <1>3 DEF Abstract!Carry, InFlight, Taken
<1>4. CASE pending' # <<>>
  <2>1. pending' \in Seq(Event) \ {<<>>}
    BY <1>1, <1>4 DEF RuntimeInv, RuntimeTypeOK
  <2>2. QED BY <1>2, <2>1 DEF Abstract!Offer, InFlight, Taken
<1>5. QED BY <1>3, <1>4

(* An emit adds one copy of its event to one of the queues; only of an     *)
(* event that is not control it may add none.                              *)
LEMMA EmitAccepts ==
    ASSUME RuntimeInv, EmitNext
    PROVE  Abstract!Accept
<1>1. /\ pending \in Seq(Event) /\ pending # <<>>
      /\ mailbox \in Seq(Event) /\ deferred \in Seq(Event)
      /\ Head(pending) \in Event /\ pending' = Tail(pending)
  BY DEF RuntimeInv, RuntimeTypeOK, EmitsFirst, EmitNext, Control
<1>2. ASSUME NEW e \in Control
      PROVE  Occurrences(mailbox', e) + Occurrences(deferred', e)
               = (Occurrences(mailbox, e) + Occurrences(deferred, e))
                   + (IF Head(pending) = e THEN 1 ELSE 0)
  <2> DEFINE one == IF Head(pending) = e THEN 1 ELSE 0
  <2>1. one \in Nat
    OBVIOUS
  <2>2. CASE mailbox' = Append(mailbox, Head(pending)) /\ deferred' = deferred
    <3>1. Occurrences(mailbox', e) = Occurrences(mailbox, e) + one
      BY <1>1, <2>2, OccurrencesAppend
    <3> HIDE DEF one
    <3>2. Occurrences(mailbox', e) + Occurrences(deferred', e)
            = (Occurrences(mailbox, e) + Occurrences(deferred, e)) + one
      BY <2>1, <2>2, <3>1, QueueCounts
    <3>3. QED BY <3>2 DEF one
  <2>3. CASE deferred' = Append(deferred, Head(pending)) /\ mailbox' = mailbox
    <3>1. Occurrences(deferred', e) = Occurrences(deferred, e) + one
      BY <1>1, <2>3, OccurrencesAppend
    <3> HIDE DEF one
    <3>2. Occurrences(mailbox', e) + Occurrences(deferred', e)
            = (Occurrences(mailbox, e) + Occurrences(deferred, e)) + one
      BY <2>1, <2>3, <3>1, QueueCounts
    <3>3. QED BY <3>2 DEF one
  <2>4. CASE ~IsControl(Head(pending)) /\ mailbox' = mailbox /\ deferred' = deferred
    <3>1. Head(pending) # e
      BY <2>4 DEF Control
    <3>2. QED BY <2>4, <3>1, QueueCounts
  <2>5. QED BY <2>2, <2>3, <2>4 DEF EmitNext, EmitEvent
<1>3. InFlight' = [e \in Control |-> InFlight[e] + (IF Head(pending) = e THEN 1 ELSE 0)]
  BY <1>2 DEF InFlight
<1>4. Taken' = Abstract!Nothing
  BY NothingTaken DEF EmitNext
<1>5. QED BY <1>1, <1>3, <1>4 DEF Abstract!Accept, InFlight, Taken

(* A flush moves an event from a queue to the other, which changes no      *)
(* count.                                                                  *)
LEMMA FlushCarries ==
    ASSUME RuntimeInv, FlushDeferredControlIngress
    PROVE  Abstract!Carry
<1>1. pending' = pending /\ Taken' = Abstract!Nothing
  BY NothingTaken DEF FlushDeferredControlIngress
<1>2. CASE mailbox' = mailbox /\ deferred' = deferred
  BY <1>1, <1>2 DEF Abstract!Carry, InFlight, Taken
<1>3. CASE /\ deferred # <<>>
           /\ mailbox' = Append(mailbox, Head(deferred)) /\ deferred' = Tail(deferred)
  <2>1. /\ mailbox \in Seq(Event) /\ deferred \in Seq(Event)
        /\ Head(deferred) \in Event /\ Tail(deferred) \in Seq(Event)
    BY <1>3 DEF RuntimeInv, RuntimeTypeOK, Control
  <2>2. ASSUME NEW e \in Control
        PROVE  Occurrences(mailbox, e) + Occurrences(deferred, e)
                 = Occurrences(mailbox', e) + Occurrences(deferred', e)
    <3> DEFINE one == IF Head(deferred) = e THEN 1 ELSE 0
    <3>1. one \in Nat
      OBVIOUS
    <3>2. Occurrences(deferred, e) = Occurrences(deferred', e) + one
      BY <1>3, <2>1, OccurrencesTail
    <3>3. Occurrences(mailbox', e) = Occurrences(mailbox, e) + one
      BY <1>3, <2>1, OccurrencesAppend
    <3>4. /\ Occurrences(deferred', e) \in Nat
          /\ Occurrences(mailbox, e) \in Nat
      BY <1>3, <2>1, OccurrencesType
    <3> HIDE DEF one
    <3>5. QED BY <3>1, <3>2, <3>3, <3>4
  <2>3. InFlight' = InFlight
    BY <2>2 DEF InFlight
  <2>4. QED BY <1>1, <2>3 DEF Abstract!Carry, InFlight, Taken
<1>4. QED BY <1>2, <1>3 DEF FlushDeferredControlIngress

(* A drain takes the control events of the mailbox, each as often as it is *)
(* in it, and leaves the deferred ones in flight.                          *)
LEMMA DrainTakes ==
    ASSUME RuntimeInv, Drain
    PROVE  Abstract!Take \/ Abstract!Carry
<1>1. /\ mailbox \in Seq(Event) /\ mailbox' = <<>> /\ taken' = mailbox
      /\ pending' = pending /\ deferred' = deferred
  BY DEF RuntimeInv, RuntimeTypeOK, Drain
<1>2. ASSUME NEW e \in Control
      PROVE  /\ Taken'[e] \in Nat
             /\ Taken'[e] <= InFlight[e]
             /\ InFlight'[e] = InFlight[e] - Taken'[e]
             /\ Taken'[e] = 0 => InFlight'[e] = InFlight[e]
  <2>1. Occurrences(mailbox', e) = 0
    BY <1>1, OccurrencesEmpty
  <2>2. /\ InFlight[e] = Occurrences(mailbox, e) + Occurrences(deferred, e)
        /\ InFlight'[e] = Occurrences(mailbox', e) + Occurrences(deferred', e)
        /\ Taken'[e] = Occurrences(mailbox, e)
    BY <1>1 DEF InFlight, Taken
  <2>3. QED BY <1>1, <2>1, <2>2, QueueCounts
<1>3. Taken' \in [Control -> Nat]
  <2>1. Taken' = [e \in Control |-> Taken'[e]]
    BY DEF Taken
  <2>2. QED BY <1>2, <2>1
<1>4. InFlight' = [e \in Control |-> InFlight[e] - Taken'[e]]
  <2>1. InFlight' = [e \in Control |-> InFlight'[e]]
    BY DEF InFlight
  <2>2. QED BY <1>2, <2>1
<1>5. CASE Taken' # Abstract!Nothing
  BY <1>1, <1>2, <1>3, <1>4, <1>5 DEF Abstract!Take, InFlight, Taken
<1>6. CASE Taken' = Abstract!Nothing
  <2>1. \A e \in Control : InFlight'[e] = InFlight[e]
    BY <1>2, <1>6 DEF Abstract!Nothing
  <2>2. InFlight' = InFlight
    BY <2>1 DEF InFlight
  <2>3. QED BY <1>1, <1>6, <2>2 DEF Abstract!Carry, InFlight, Taken
<1>7. QED BY <1>5, <1>6

(* The bounded mailbox with its deferred queue implements the reliable     *)
(* ingress for every capacity: an emit adds exactly one copy of a control  *)
(* event, a flush none, and a drain removes exactly what the bridge takes, *)
(* so however they interleave no control event is lost, duplicated or      *)
(* invented.                                                               *)
THEOREM IngressIsReliable == RuntimeSpec => ControlIngressReliable
<1>1. RuntimeInit => Abstract!Init
  <2> SUFFICES ASSUME RuntimeInit PROVE Abstract!Init
    OBVIOUS
  <2>1. InFlight = Abstract!Nothing /\ Taken = Abstract!Nothing
    BY OccurrencesEmpty DEF RuntimeInit, InFlight, Taken, Abstract!Nothing
  <2>2. QED BY <2>1 DEF RuntimeInit, Abstract!Init, InFlight, Taken
<1>2. ASSUME RuntimeInv, [RuntimeNext]_runtimeVars
      PROVE  [Abstract!Next]_<<pending, InFlight, Taken>>
  <2>1. CASE UNCHANGED loop
    BY <2>1 DEF loop, InFlight, Taken
  <2>2. CASE RetryDeferred \/ Shutdown \/ GoQuiet
    <3>1. taken' = <<>> /\ UNCHANGED <<pending, mailbox, deferred>>
      BY <2>2 DEF RetryDeferred, Shutdown, GoQuiet
    <3>2. Abstract!Carry
      BY <3>1, NothingTaken DEF Abstract!Carry, InFlight, Taken
    <3>3. QED BY <3>2 DEF Abstract!Next
  <2>3. CASE Handle
    BY <1>2, <2>3, HandleOffers DEF Abstract!Next
  <2>4. CASE Drain
    BY <1>2, <2>4, DrainTakes DEF Abstract!Next
  <2>5. CASE EmitNext \/ FlushDeferredControlIngress
    BY <1>2, <2>5, EmitAccepts, FlushCarries DEF Abstract!Next
  <2>6. QED BY <1>2, <2>1, <2>2, <2>3, <2>4, <2>5 DEF RuntimeNext, runtimeVars
<1>3. RuntimeInv /\ [RuntimeNext]_runtimeVars
        => [Abstract!Next]_<<pending,
                             [e \in Control |-> Occurrences(mailbox, e) + Occurrences(deferred, e)],
                             [e \in Control |-> Occurrences(taken, e)]>>
  BY <1>2 DEF InFlight, Taken
<1>4. QED BY <1>1, <1>3, RuntimeInvariant, PTL
          DEF RuntimeSpec, ControlIngressReliable, Abstract!Spec

(* The mailbox adds no behaviour to the session state machine: whatever is *)
(* proved of BleSessions holds under back-pressure too.                    *)
THEOREM ImplementsSessions == RuntimeSpec => Spec
<1>1. RuntimeInit => Init
  BY DEF RuntimeInit
<1>2. [RuntimeNext]_runtimeVars => [Next]_vars
  BY DEF RuntimeNext, runtimeVars, Handle, EmitNext, FlushDeferredControlIngress,
         RetryDeferred, Shutdown, Drain, GoQuiet
<1>3. QED BY <1>1, <1>2, PTL DEF RuntimeSpec, Spec
=============================================================================
